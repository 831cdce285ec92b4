------------------------ MODULE ImportDialogs_proofs ------------------------
(***************************************************************************)
(* Proofs about ImportDialogs: what the reader makes of a line, for lines   *)
(* of any length, and that the page shows the rows of the chosen file.     *)
(* The reader's functions are recursive towards the end of a line, so the   *)
(* inductions go down from there, over sets of places.                      *)
(***************************************************************************)
EXTENDS ImportDialogs, SequenceTheorems, WellFoundedInduction, TLAPS

-----------------------------------------------------------------------------
(* Induction and recursion from the last place down.                       *)

LEMMA LeastPlace ==
    ASSUME NEW T \in SUBSET Nat, T # {}
    PROVE  \E n \in T : \A k \in T : n <= k
<1>. DEFINE less == OpToRel(<, Nat)
<1>1. IsWellFoundedOn(less, Nat)
  BY Zenon, NatLessThanWellFounded
<1>2. \A k, n \in Nat : k < n => <<k, n>> \in less
  BY DEF OpToRel
<1>. HIDE DEF less
<1>3. PICK n \in T : \A k \in T : ~(<<k, n>> \in less)
  BY <1>1, WFMin
<1>4. \A k \in T : ~(k < n)
  BY <1>2, <1>3
<1>. QED  BY <1>4

LEMMA DownInduction ==
    ASSUME NEW n \in Nat, NEW T \in SUBSET (1 .. n),
           \A i \in 1 .. n : (i + 1) .. n \subseteq T => i \in T
    PROVE  T = 1 .. n
<1>. SUFFICES ASSUME NEW b \in 1 .. n, b \notin T PROVE FALSE
  OBVIOUS
<1>. DEFINE lacks == {n - i : i \in (1 .. n) \ T}
<1>1. lacks \in SUBSET Nat /\ lacks # {}
  OBVIOUS
<1>. HIDE DEF lacks
<1>2. PICK d \in lacks : \A k \in lacks : d <= k
  BY <1>1, LeastPlace
<1>. USE DEF lacks
<1>3. PICK i \in (1 .. n) \ T : d = n - i
  OBVIOUS
<1>4. (i + 1) .. n \subseteq T
  <2>. SUFFICES ASSUME NEW j \in (i + 1) .. n, j \notin T PROVE FALSE
    OBVIOUS
  <2>1. n - j \in lacks
    OBVIOUS
  <2>. HIDE DEF lacks
  <2>. QED  BY <1>2, <1>3, <2>1
<1>. QED  BY <1>3, <1>4

\* B says of a function g and a place i what g is there, from later places only.
LooksLater(n, V, B) ==
    /\ n \in Nat /\ V # {} /\ B \in [[1 .. n -> V] \X (1 .. n) -> V]
    /\ \A g, h \in [1 .. n -> V] : \A i \in 1 .. n :
        (\A j \in (i + 1) .. n : g[j] = h[j]) => B[<<g, i>>] = B[<<h, i>>]

Solves(n, V, B, g) == g \in [1 .. n -> V] /\ \A i \in 1 .. n : g[i] = B[<<g, i>>]

\* A function as B says exists.
LEMMA DownRecursion ==
    ASSUME NEW n, NEW V, NEW B, LooksLater(n, V, B)
    PROVE  \E g : Solves(n, V, B, g)
<1>. USE DEF LooksLater
<1>. DEFINE Upto(m) == \E g \in [1 .. n -> V] : \A i \in m .. n : g[i] = B[<<g, i>>]
            T == {m \in 1 .. n : Upto(m)}
<1>1. PICK v \in V : TRUE
  OBVIOUS
<1>2. Upto(n + 1)
  <2>1. [i \in 1 .. n |-> v] \in [1 .. n -> V]
    OBVIOUS
  <2>2. (n + 1) .. n = {}
    OBVIOUS
  <2>. QED  BY <2>1, <2>2
<1>3. ASSUME NEW m \in 1 .. n, Upto(m + 1) PROVE Upto(m)
  <2>1. PICK g \in [1 .. n -> V] : \A i \in (m + 1) .. n : g[i] = B[<<g, i>>]
    BY <1>3
  <2>. DEFINE h == [g EXCEPT ![m] = B[<<g, m>>]]
  <2>2. h \in [1 .. n -> V]
    OBVIOUS
  <2>3. \A j \in (m + 1) .. n : h[j] = g[j]
    OBVIOUS
  <2>4. h[m] = B[<<g, m>>]
    OBVIOUS
  <2>. HIDE DEF h
  <2>5. ASSUME NEW i \in m .. n PROVE h[i] = B[<<h, i>>]
    <3>1. i \in 1 .. n /\ \A j \in (i + 1) .. n : j \in (m + 1) .. n
      OBVIOUS
    <3>2. B[<<g, i>>] = B[<<h, i>>]
      <4>1. \A j \in (i + 1) .. n : g[j] = h[j]
        BY <2>3, <3>1
      <4>. QED  BY <2>2, <3>1, <4>1
    <3>3. CASE i = m
      BY <2>4, <3>2, <3>3
    <3>4. CASE i # m
      <4>1. i \in (m + 1) .. n
        BY <3>4
      <4>. QED  BY <2>1, <2>3, <3>2, <4>1
    <3>. QED  BY <3>3, <3>4
  <2>. QED  BY <2>2, <2>5
<1>4. T = 1 .. n
  <2>1. ASSUME NEW i \in 1 .. n, (i + 1) .. n \subseteq T PROVE i \in T
    <3>1. Upto(i + 1)
      <4>1. CASE i = n
        BY <1>2, <4>1
      <4>2. CASE i # n
        <5>1. i + 1 \in (i + 1) .. n
          BY <4>2
        <5>. QED  BY <2>1, <5>1
      <4>. QED  BY <4>1, <4>2
    <3>2. Upto(i)
      <4>. HIDE DEF Upto
      <4>. QED  BY <1>3, <3>1
    <3>. QED  BY <3>2
  <2>2. T \in SUBSET (1 .. n)
    OBVIOUS
  <2>. HIDE DEF T
  <2>. QED  BY <2>1, <2>2, DownInduction
<1>5. Upto(1)
  <2>1. CASE n = 0
    BY <1>2, <2>1
  <2>2. CASE n # 0
    <3>1. 1 \in T
      <4>. HIDE DEF T
      <4>. QED  BY <1>4, <2>2
    <3>. QED  BY <3>1
  <2>. QED  BY <2>1, <2>2
<1>. QED  BY <1>5 DEF Solves

-----------------------------------------------------------------------------
(* A quoted field.                                                         *)

FieldIn(line, i) == [field : Seq(Chars), next : i .. Len(line) + 1]

QuotedBody(line, rest, i) ==
    IF i > Len(line) THEN [field |-> <<>>, next |-> i]
    ELSE IF line[i] # Quote THEN Longer(line[i], rest[i + 1])
    ELSE IF Is(line, i + 1, Quote) THEN Longer(Quote, rest[i + 2])
    ELSE [field |-> <<>>, next |-> i + 1]

LEMMA LineIs ==
    ASSUME NEW line \in Seq(Chars)
    PROVE  /\ Len(line) \in Nat /\ DOMAIN line = 1 .. Len(line)
           /\ \A i \in 1 .. Len(line) : line[i] \in Chars
  OBVIOUS

LEMMA LongerIn ==
    ASSUME NEW line \in Seq(Chars), NEW i \in Nat, NEW char \in Chars, NEW f \in FieldIn(line, i)
    PROVE  /\ Longer(char, f) \in FieldIn(line, i)
           /\ Longer(char, f).field = <<char>> \o f.field
           /\ Longer(char, f).next = f.next
<1>1. f.field \in Seq(Chars) /\ <<char>> \in Seq(Chars) /\ f.next \in i .. Len(line) + 1
  BY DEF FieldIn
<1>2. <<char>> \o f.field \in Seq(Chars)
  BY <1>1, ConcatProperties
<1>. QED  BY <1>1, <1>2 DEF Longer, FieldIn

LEMMA QuotedBodyIn ==
    ASSUME NEW line \in Seq(Chars), NEW m \in 1 .. Len(line) + 1, NEW rest, NEW low \in 1 .. m,
           \A j \in (m + 1) .. Len(line) + 1 : rest[j] \in FieldIn(line, low)
    PROVE  QuotedBody(line, rest, m) \in FieldIn(line, low)
<1>. USE LineIs
<1>1. CASE m > Len(line)
  BY <1>1 DEF QuotedBody, FieldIn
<1>2. CASE m <= Len(line) /\ line[m] # Quote
  <2>1. rest[m + 1] \in FieldIn(line, low) /\ line[m] \in Chars /\ low \in Nat
    BY <1>2
  <2>2. Longer(line[m], rest[m + 1]) \in FieldIn(line, low)
    BY <2>1, LongerIn
  <2>. QED  BY <1>2, <2>2 DEF QuotedBody
<1>3. CASE m <= Len(line) /\ line[m] = Quote /\ Is(line, m + 1, Quote)
  <2>1. rest[m + 2] \in FieldIn(line, low) /\ Quote \in Chars /\ low \in Nat
    BY <1>3 DEF Is
  <2>2. Longer(Quote, rest[m + 2]) \in FieldIn(line, low)
    BY <2>1, LongerIn
  <2>. QED  BY <1>3, <2>2 DEF QuotedBody
<1>4. CASE m <= Len(line) /\ line[m] = Quote /\ ~Is(line, m + 1, Quote)
  BY <1>4 DEF QuotedBody, FieldIn
<1>. QED  BY <1>1, <1>2, <1>3, <1>4

\* Quoted is the function its equation says.
LEMMA QuotedEquation ==
    ASSUME NEW line \in Seq(Chars)
    PROVE  Quoted(line) = [i \in 1 .. Len(line) + 1 |-> QuotedBody(line, Quoted(line), i)]
<1>. DEFINE n == Len(line) + 1
            V == FieldIn(line, 1)
            B == [p \in [1 .. n -> V] \X (1 .. n) |-> QuotedBody(line, p[1], p[2])]
<1>1. n \in Nat /\ [field |-> <<>>, next |-> 1] \in V
  BY LineIs DEF FieldIn
<1>2. \A g \in [1 .. n -> V] : \A i \in 1 .. n :
        B[<<g, i>>] = QuotedBody(line, g, i)
  OBVIOUS
<1>3. ASSUME NEW g \in [1 .. n -> V], NEW i \in 1 .. n PROVE QuotedBody(line, g, i) \in V
  <2>1. \A j \in (i + 1) .. n : g[j] \in V
    BY <1>1
  <2>2. 1 \in 1 .. i /\ i \in 1 .. Len(line) + 1
    BY LineIs
  <2>. QED  BY <2>1, <2>2, QuotedBodyIn
<1>4. B \in [[1 .. n -> V] \X (1 .. n) -> V]
  BY <1>3
<1>5. ASSUME NEW g \in [1 .. n -> V], NEW h \in [1 .. n -> V], NEW i \in 1 .. n,
             \A j \in (i + 1) .. n : g[j] = h[j]
      PROVE  B[<<g, i>>] = B[<<h, i>>]
  <2>1. i <= Len(line) => g[i + 1] = h[i + 1]
    BY <1>5, LineIs
  <2>2. Is(line, i + 1, Quote) => g[i + 2] = h[i + 2]
    <3>1. SUFFICES ASSUME Is(line, i + 1, Quote) PROVE i + 2 \in (i + 1) .. n
      BY <1>5
    <3>. QED  BY <3>1, LineIs DEF Is
  <2>3. QuotedBody(line, g, i) = QuotedBody(line, h, i)
    BY <2>1, <2>2, LineIs DEF QuotedBody
  <2>. QED  BY <1>2, <2>3
<1>6. \E g : Solves(n, V, B, g)
  <2>1. V # {}
    BY <1>1
  <2>2. LooksLater(n, V, B)
    <3>1. n \in Nat
      BY <1>1
    <3>. HIDE DEF B, V, n
    <3>. QED  BY <1>4, <1>5, <2>1, <3>1 DEF LooksLater
  <2>. HIDE DEF B, V, n
  <2>. QED  BY <2>2, DownRecursion
<1>7. PICK g \in [1 .. n -> V] : \A i \in 1 .. n : g[i] = QuotedBody(line, g, i)
  <2>1. PICK g : Solves(n, V, B, g)
    BY <1>6
  <2>. HIDE DEF B, V, n
  <2>. QED  BY <1>2, <2>1 DEF Solves
<1>8. g = [i \in 1 .. n |-> QuotedBody(line, g, i)]
  BY <1>7
<1>9. Quoted(line) = CHOOSE rest : rest = [i \in 1 .. n |-> QuotedBody(line, rest, i)]
  BY Zenon DEF Quoted, QuotedBody
<1>. QED  BY <1>8, <1>9, Zenon

LEMMA QuotedIn ==
    ASSUME NEW line \in Seq(Chars), NEW i \in 1 .. Len(line) + 1
    PROVE  Quoted(line)[i] \in FieldIn(line, i)
<1>. DEFINE n == Len(line) + 1
            T == {k \in 1 .. n : Quoted(line)[k] \in FieldIn(line, k)}
<1>. USE LineIs
<1>1. ASSUME NEW k \in 1 .. n, (k + 1) .. n \subseteq T PROVE k \in T
  <2>1. ASSUME NEW j \in (k + 1) .. Len(line) + 1 PROVE Quoted(line)[j] \in FieldIn(line, k)
    <3>1. j \in T
      BY <1>1, <2>1
    <3>2. j .. n \subseteq k .. n
      BY <2>1
    <3>. QED  BY <3>1, <3>2 DEF FieldIn
  <2>2. QuotedBody(line, Quoted(line), k) \in FieldIn(line, k)
    BY <2>1, QuotedBodyIn
  <2>3. Quoted(line)[k] = QuotedBody(line, Quoted(line), k)
    BY QuotedEquation, Zenon
  <2>. QED  BY <2>2, <2>3
<1>2. T \in SUBSET (1 .. n) /\ n \in Nat
  OBVIOUS
<1>3. T = 1 .. n
  <2>. HIDE DEF T, n
  <2>. QED  BY <1>1, <1>2, DownInduction
<1>. QED  BY <1>3

-----------------------------------------------------------------------------
(* Blanks and bare fields.                                                 *)

LEMMA GreatestPlace ==
    ASSUME NEW n \in Nat, NEW T \in SUBSET (1 .. n), T # {}
    PROVE  \E m \in T : \A k \in T : k <= m
<1>. DEFINE D == {n - k : k \in T}
<1>1. D \in SUBSET Nat /\ D # {} /\ \A k \in T : n - k \in D
  <2>1. \A k \in T : k \in 1 .. n /\ n - k \in Nat
    OBVIOUS
  <2>2. D \subseteq Nat
    BY <2>1
  <2>. QED  BY <2>2
<1>2. PICK d \in D : \A e \in D : d <= e
  <2>. HIDE DEF D
  <2>. QED  BY <1>1, LeastPlace
<1>3. PICK m \in T : d = n - m
  BY <1>2
<1>4. \A k \in T : n - m <= n - k
  <2>. HIDE DEF D
  <2>. QED  BY <1>1, <1>2, <1>3
<1>. QED  BY <1>4

LEMMA TrimIs ==
    ASSUME NEW s \in Seq(Chars), NEW a \in DOMAIN s, NEW b \in DOMAIN s,
           s[a] # Space, s[b] # Space, \A k \in DOMAIN s : s[k] # Space => a <= k /\ k <= b
    PROVE  Trim(s) = SubSeq(s, a, b)
<1>. DEFINE black == {k \in DOMAIN s : s[k] # Space}
<1>1. a \in black /\ b \in black /\ black \subseteq 1 .. Len(s)
  BY LineIs
<1>2. \A k \in black : a <= k /\ k <= b
  OBVIOUS
<1>. HIDE DEF black
<1>3. a = CHOOSE k \in black : \A j \in black : k <= j
  <2>1. a \in black /\ \A j \in black : a <= j
    BY <1>1, <1>2
  <2>2. \A k \in black : (\A j \in black : k <= j) => k = a
    BY <1>1, <1>2
  <2>. QED  BY <2>1, <2>2
<1>4. b = CHOOSE k \in black : \A j \in black : j <= k
  <2>1. b \in black /\ \A j \in black : j <= b
    BY <1>1, <1>2
  <2>2. \A k \in black : (\A j \in black : j <= k) => k = b
    BY <1>1, <1>2
  <2>. QED  BY <2>1, <2>2
<1>5. black # {}
  BY <1>1
<1>. QED  BY <1>3, <1>4, <1>5, Zenon DEF Trim, black

LEMMA TrimKeeps ==
    ASSUME NEW s \in Seq(Chars)
    PROVE  \/ Trim(s) = <<>>
           \/ \E a, b \in 1 .. Len(s) : /\ a <= b /\ s[a] # Space /\ s[b] # Space
                                        /\ Trim(s) = SubSeq(s, a, b)
<1>. DEFINE black == {k \in DOMAIN s : s[k] # Space}
<1>1. CASE black = {}
  BY <1>1 DEF Trim
<1>2. CASE black # {}
  <2>1. black \in SUBSET (1 .. Len(s)) /\ black \in SUBSET Nat /\ Len(s) \in Nat
    BY LineIs
  <2>. HIDE DEF black
  <2>2. PICK a \in black : \A k \in black : a <= k
    BY <1>2, <2>1, LeastPlace
  <2>3. PICK b \in black : \A k \in black : k <= b
    BY <1>2, <2>1, GreatestPlace
  <2>. USE DEF black
  <2>4. Trim(s) = SubSeq(s, a, b)
    BY <2>2, <2>3, TrimIs
  <2>. QED  BY <2>1, <2>2, <2>3, <2>4
<1>. QED  BY <1>1, <1>2

LEMMA TrimIn ==
    ASSUME NEW s \in Seq(Chars)
    PROVE  Trim(s) \in Seq(Chars)
<1>1. CASE Trim(s) = <<>>
  BY <1>1
<1>2. ASSUME NEW a \in 1 .. Len(s), NEW b \in 1 .. Len(s), Trim(s) = SubSeq(s, a, b)
      PROVE  Trim(s) \in Seq(Chars)
  BY <1>2, LineIs, SubSeqProperties
<1>. QED  BY <1>1, <1>2, TrimKeeps

\* A field that was read bare has no blanks to lose.
LEMMA TrimTwice ==
    ASSUME NEW s \in Seq(Chars)
    PROVE  Trim(Trim(s)) = Trim(s)
<1>1. CASE Trim(s) = <<>>
  <2>1. {k \in DOMAIN <<>> : <<>>[k] # Space} = {}
    OBVIOUS
  <2>2. Trim(<<>>) = <<>>
    BY <2>1 DEF Trim
  <2>. QED  BY <1>1, <2>2
<1>2. ASSUME NEW a \in 1 .. Len(s), NEW b \in 1 .. Len(s), a <= b, s[a] # Space, s[b] # Space,
             Trim(s) = SubSeq(s, a, b)
      PROVE  Trim(Trim(s)) = Trim(s)
  <2>. DEFINE w == SubSeq(s, a, b)
              n == b - a + 1
  <2>1. w \in Seq(Chars) /\ Len(w) = n /\ n \in Nat /\ 1 <= n
        /\ DOMAIN w = 1 .. n /\ \A k \in 1 .. n : w[k] = s[a + k - 1]
    BY <1>2, LineIs, SubSeqProperties
  <2>2. w[1] # Space /\ w[n] # Space
    BY <1>2, <2>1, LineIs
  <2>3. SubSeq(w, 1, n) = w
    <3>. HIDE DEF w
    <3>. QED  BY <2>1, SubSeqProperties
  <2>4. 1 \in DOMAIN w /\ n \in DOMAIN w /\ \A k \in DOMAIN w : 1 <= k /\ k <= n
    BY <2>1
  <2>. HIDE DEF w, n
  <2>5. Trim(w) = SubSeq(w, 1, n)
    BY <2>1, <2>2, <2>4, TrimIs
  <2>. QED  BY <1>2, <2>3, <2>5 DEF w
<1>. QED  BY <1>1, <1>2, TrimKeeps

LEMMA BareIs ==
    ASSUME NEW line \in Seq(Chars), NEW i \in 1 .. Len(line) + 1, NEW j \in i .. Len(line) + 1,
           \A k \in i .. j - 1 : line[k] # Comma,
           j = Len(line) + 1 \/ line[j] = Comma
    PROVE  Bare(line, i) = [field |-> Trim(SubSeq(line, i, j - 1)), next |-> j]
<1>. DEFINE ends == {k \in i .. Len(line) : line[k] = Comma} \cup {Len(line) + 1}
<1>. USE LineIs
<1>1. j \in ends /\ \A k \in ends : k \in Nat /\ j <= k
  OBVIOUS
<1>. HIDE DEF ends
<1>2. j = CHOOSE k \in ends : \A e \in ends : k <= e
  <2>1. \A k \in ends : (\A e \in ends : k <= e) => k = j
    BY <1>1
  <2>. QED  BY <1>1, <2>1
<1>. QED  BY <1>2, Zenon DEF Bare, ends

LEMMA BareIn ==
    ASSUME NEW line \in Seq(Chars), NEW i \in 1 .. Len(line) + 1
    PROVE  Bare(line, i) \in FieldIn(line, i)
<1>. DEFINE ends == {k \in i .. Len(line) : line[k] = Comma} \cup {Len(line) + 1}
<1>1. ends \in SUBSET Nat /\ ends # {} /\ ends \subseteq i .. Len(line) + 1
  BY LineIs
<1>. HIDE DEF ends
<1>2. PICK j \in ends : \A k \in ends : j <= k
  BY <1>1, LeastPlace
<1>. USE DEF ends
<1>3. j \in i .. Len(line) + 1 /\ (j = Len(line) + 1 \/ line[j] = Comma)
  BY LineIs
<1>4. \A k \in i .. j - 1 : line[k] # Comma
  <2>1. SUFFICES ASSUME NEW k \in i .. j - 1, line[k] = Comma PROVE FALSE
    OBVIOUS
  <2>2. k \in ends
    BY <1>3, <2>1, LineIs
  <2>. HIDE DEF ends
  <2>. QED  BY <1>2, <1>3, <2>2, LineIs
<1>5. Bare(line, i) = [field |-> Trim(SubSeq(line, i, j - 1)), next |-> j]
  BY <1>3, <1>4, BareIs
<1>6. SubSeq(line, i, j - 1) \in Seq(Chars)
  BY <1>3, LineIs, SubSeqProperties
<1>7. Trim(SubSeq(line, i, j - 1)) \in Seq(Chars)
  BY <1>6, TrimIn
<1>. HIDE DEF ends
<1>. QED  BY <1>3, <1>5, <1>7 DEF FieldIn

LEMMA FieldAtIn ==
    ASSUME NEW line \in Seq(Chars), NEW i \in 1 .. Len(line) + 1
    PROVE  FieldAt(line, i) \in FieldIn(line, i)
<1>1. CASE Is(line, i, Quote)
  <2>1. i + 1 \in 1 .. Len(line) + 1
    BY <1>1, LineIs DEF Is
  <2>2. Quoted(line)[i + 1] \in FieldIn(line, i + 1)
    BY <2>1, QuotedIn
  <2>3. FieldIn(line, i + 1) \subseteq FieldIn(line, i)
    <3>1. (i + 1) .. Len(line) + 1 \subseteq i .. Len(line) + 1
      BY LineIs
    <3>. QED  BY <3>1 DEF FieldIn
  <2>. QED  BY <1>1, <2>2, <2>3 DEF FieldAt
<1>2. CASE ~Is(line, i, Quote)
  BY <1>2, BareIn DEF FieldAt
<1>. QED  BY <1>1, <1>2

-----------------------------------------------------------------------------
(* A line of fields.                                                       *)

FieldsBody(line, from, i) ==
    LET f == FieldAt(line, i) IN
    IF Is(line, f.next, Comma) THEN <<f.field>> \o from[f.next + 1] ELSE <<f.field>>

\* Fields is the function its equation says: a field ends where it begins or later.
LEMMA FieldsEquation ==
    ASSUME NEW line \in Seq(Chars)
    PROVE  Fields(line) = [i \in 1 .. Len(line) + 1 |-> FieldsBody(line, Fields(line), i)]
<1>. DEFINE n == Len(line) + 1
            V == Seq(Seq(Chars))
            B == [p \in [1 .. n -> V] \X (1 .. n) |-> FieldsBody(line, p[1], p[2])]
<1>1. n \in Nat /\ V # {}
  <2>1. <<>> \in V
    OBVIOUS
  <2>2. V # {}
    <3>. HIDE DEF V
    <3>. QED  BY <2>1
  <2>. QED  BY <2>2, LineIs
<1>2. \A g \in [1 .. n -> V] : \A i \in 1 .. n :
        B[<<g, i>>] = FieldsBody(line, g, i)
  OBVIOUS
<1>3. ASSUME NEW i \in 1 .. n
      PROVE  /\ FieldAt(line, i).field \in Seq(Chars)
             /\ Is(line, FieldAt(line, i).next, Comma) => FieldAt(line, i).next + 1 \in (i + 1) .. n
  <2>1. FieldAt(line, i) \in FieldIn(line, i)
    BY FieldAtIn
  <2>. QED  BY <2>1, LineIs DEF FieldIn, Is
<1>4. ASSUME NEW g \in [1 .. n -> V], NEW i \in 1 .. n PROVE FieldsBody(line, g, i) \in V
  <2>1. <<FieldAt(line, i).field>> \in V
    BY <1>3
  <2>2. CASE Is(line, FieldAt(line, i).next, Comma)
    <3>1. g[FieldAt(line, i).next + 1] \in V
      <4>1. \A j \in (i + 1) .. n : g[j] \in V
        <5>. HIDE DEF V
        <5>. QED  BY <1>1
      <4>. QED  BY <1>3, <2>2, <4>1
    <3>2. <<FieldAt(line, i).field>> \o g[FieldAt(line, i).next + 1] \in V
      BY <2>1, <3>1, ConcatProperties
    <3>. QED  BY <2>2, <3>2 DEF FieldsBody
  <2>3. CASE ~Is(line, FieldAt(line, i).next, Comma)
    BY <2>1, <2>3 DEF FieldsBody
  <2>. QED  BY <2>2, <2>3
<1>5. B \in [[1 .. n -> V] \X (1 .. n) -> V]
  <2>1. \A p \in [1 .. n -> V] \X (1 .. n) : FieldsBody(line, p[1], p[2]) \in V
    BY <1>4
  <2>. QED  BY <2>1
<1>6. ASSUME NEW g \in [1 .. n -> V], NEW h \in [1 .. n -> V], NEW i \in 1 .. n,
             \A j \in (i + 1) .. n : g[j] = h[j]
      PROVE  B[<<g, i>>] = B[<<h, i>>]
  <2>1. Is(line, FieldAt(line, i).next, Comma) =>
          g[FieldAt(line, i).next + 1] = h[FieldAt(line, i).next + 1]
    BY <1>3, <1>6
  <2>2. FieldsBody(line, g, i) = FieldsBody(line, h, i)
    BY <2>1 DEF FieldsBody
  <2>. QED  BY <1>2, <2>2
<1>7. \E g : Solves(n, V, B, g)
  <2>1. LooksLater(n, V, B)
    <3>. HIDE DEF B, V, n
    <3>. QED  BY <1>1, <1>5, <1>6 DEF LooksLater
  <2>. HIDE DEF B, V, n
  <2>. QED  BY <2>1, DownRecursion
<1>8. PICK g \in [1 .. n -> V] : \A i \in 1 .. n : g[i] = FieldsBody(line, g, i)
  <2>1. PICK g : Solves(n, V, B, g)
    BY <1>7
  <2>. HIDE DEF B, V, n
  <2>. QED  BY <1>2, <2>1 DEF Solves
<1>9. g = [i \in 1 .. n |-> FieldsBody(line, g, i)]
  BY <1>8
<1>10. Fields(line) = CHOOSE from : from = [i \in 1 .. n |-> FieldsBody(line, from, i)]
  BY Zenon DEF Fields, FieldsBody
<1>. QED  BY <1>9, <1>10, Zenon

\* A field in quotes is read back without them, each doubled quote as one.
LEMMA QuotedIsRead ==
    ASSUME NEW line \in Seq(Chars), NEW field \in Seq(Chars),
           NEW i \in 1 .. Len(line) + 1, NEW j \in i .. Len(line) + 1,
           WrittenQuoted(line, i, j, field), ~Is(line, j, Quote)
    PROVE  FieldAt(line, i) = [field |-> field, next |-> j]
<1>. DEFINE n == Len(field)
            Rest(k) == [field |-> SubSeq(field, k, n), next |-> j]
<1>1. i < j /\ line[i] = Quote /\ line[j - 1] = Quote
  BY DEF WrittenQuoted
<1>2. PICK place \in [1 .. n + 1 -> i + 1 .. j - 1] :
        /\ place[1] = i + 1 /\ place[n + 1] = j - 1
        /\ \A k \in 1 .. n :
            /\ line[place[k]] = field[k]
            /\ IF field[k] = Quote
               THEN place[k + 1] = place[k] + 2 /\ line[place[k] + 1] = Quote
               ELSE place[k + 1] = place[k] + 1
  BY LineIs DEF WrittenQuoted
<1>3. n \in Nat /\ Len(line) \in Nat /\ \A k \in 1 .. n : field[k] \in Chars
  BY LineIs
<1>4. \A k \in 1 .. n + 1 : place[k] \in i + 1 .. j - 1 /\ place[k] \in 1 .. Len(line)
  BY <1>2, <1>3
<1>5. \A k \in 1 .. Len(line) + 1 : Quoted(line)[k] = QuotedBody(line, Quoted(line), k)
  BY QuotedEquation, Zenon
<1>. DEFINE T == {k \in 1 .. n + 1 : Quoted(line)[place[k]] = Rest(k)}
<1>6. ASSUME NEW k \in 1 .. n + 1, (k + 1) .. (n + 1) \subseteq T PROVE k \in T
  <2>1. Quoted(line)[place[k]] = QuotedBody(line, Quoted(line), place[k]) /\ ~(place[k] > Len(line))
    BY <1>3, <1>4, <1>5
  <2>2. CASE k = n + 1
    <3>1. line[place[k]] = Quote /\ place[k] = j - 1 /\ ~Is(line, place[k] + 1, Quote)
      BY <1>1, <1>2, <1>3, <2>2
    <3>2. Quoted(line)[place[k]] = [field |-> <<>>, next |-> j]
      BY <2>1, <3>1, <1>3 DEF QuotedBody
    <3>3. SubSeq(field, k, n) = <<>>
      BY <1>3, <2>2, SubSeqProperties
    <3>. QED  BY <3>2, <3>3
  <2>3. CASE k # n + 1
    <3>1. k \in 1 .. n /\ k + 1 \in T
      <4>1. k \in 1 .. n /\ k + 1 \in (k + 1) .. (n + 1)
        BY <1>3, <2>3
      <4>. HIDE DEF T
      <4>. QED  BY <1>6, <4>1
    <3>2. Quoted(line)[place[k + 1]] = Rest(k + 1)
      BY <3>1
    <3>3. SubSeq(field, k, n) = <<field[k]>> \o SubSeq(field, k + 1, n)
      BY <1>3, <3>1, SubSeqProperties, ConcatProperties
    <3>4. Longer(field[k], Rest(k + 1)) = Rest(k)
      BY <3>3 DEF Longer
    <3>5. CASE field[k] # Quote
      <4>1. line[place[k]] # Quote /\ place[k + 1] = place[k] + 1
        BY <1>2, <3>1, <3>5
      <4>2. QuotedBody(line, Quoted(line), place[k]) = Longer(field[k], Rest(k + 1))
        BY <1>2, <2>1, <3>1, <3>2, <4>1 DEF QuotedBody
      <4>. QED  BY <2>1, <3>4, <4>2
    <3>6. CASE field[k] = Quote
      <4>1. line[place[k]] = Quote /\ place[k + 1] = place[k] + 2 /\ line[place[k] + 1] = Quote
        BY <1>2, <3>1, <3>6
      <4>2. Is(line, place[k] + 1, Quote)
        <5>1. place[k] \in 1 .. Len(line) /\ place[k + 1] \in 1 .. Len(line)
          BY <1>3, <1>4, <3>1
        <5>. QED  BY <4>1, <5>1, LineIs DEF Is
      <4>3. QuotedBody(line, Quoted(line), place[k]) = Longer(field[k], Rest(k + 1))
        BY <2>1, <3>2, <3>6, <4>1, <4>2 DEF QuotedBody
      <4>. QED  BY <2>1, <3>4, <4>3
    <3>. QED  BY <3>5, <3>6
  <2>. QED  BY <2>2, <2>3
<1>7. T = 1 .. n + 1
  <2>1. T \in SUBSET (1 .. n + 1) /\ n + 1 \in Nat
    BY <1>3
  <2>. HIDE DEF T, n
  <2>. QED  BY <1>6, <2>1, DownInduction
<1>8. Quoted(line)[i + 1] = Rest(1)
  <2>1. 1 \in T
    <3>. HIDE DEF T
    <3>. QED  BY <1>3, <1>7
  <2>. QED  BY <1>2, <2>1
<1>9. Is(line, i, Quote)
  BY <1>1, LineIs DEF Is
<1>10. SubSeq(field, 1, n) = field
  BY <1>3, SubSeqProperties
<1>. QED  BY <1>8, <1>9, <1>10 DEF FieldAt

LEMMA BareIsRead ==
    ASSUME NEW line \in Seq(Chars), NEW field \in Seq(Chars),
           NEW i \in 1 .. Len(line) + 1, NEW j \in i .. Len(line) + 1,
           WrittenBare(line, i, j, field), j = Len(line) + 1 \/ line[j] = Comma, Quote # Comma
    PROVE  FieldAt(line, i) = [field |-> Trim(field), next |-> j]
<1>. DEFINE n == Len(field)
<1>1. j = i + n /\ n \in Nat /\ Len(line) \in Nat
      /\ (\A k \in 1 .. n : line[i + k - 1] = field[k] /\ field[k] # Comma)
      /\ (n # 0 => field[1] # Quote)
  BY LineIs DEF WrittenBare
<1>2. \A k \in i .. j - 1 : line[k] # Comma
  <2>1. SUFFICES ASSUME NEW k \in i .. j - 1 PROVE line[k] # Comma
    OBVIOUS
  <2>2. k - i + 1 \in 1 .. n /\ i + (k - i + 1) - 1 = k
    BY <1>1
  <2>. QED  BY <1>1, <2>2
<1>3. SubSeq(line, i, j - 1) = field
  <2>1. SubSeq(line, i, j - 1) \in Seq(Chars) /\ Len(SubSeq(line, i, j - 1)) = n
        /\ \A k \in 1 .. n : SubSeq(line, i, j - 1)[k] = line[i + k - 1]
    BY <1>1, SubSeqProperties
  <2>2. \A k \in 1 .. n : SubSeq(line, i, j - 1)[k] = field[k]
    BY <1>1, <2>1
  <2>. QED  BY <2>1, <2>2, SeqEqual
<1>4. ~Is(line, i, Quote)
  <2>1. CASE n = 0
    BY <1>1, <2>1, LineIs DEF Is
  <2>2. CASE n # 0
    BY <1>1, <2>2, LineIs DEF Is
  <2>. QED  BY <2>1, <2>2
<1>5. Bare(line, i) = [field |-> Trim(field), next |-> j]
  BY <1>2, <1>3, BareIs
<1>. QED  BY <1>4, <1>5 DEF FieldAt

\* parseCsvLine gives back the fields of the row the line was written for, as
\* many and in their order, blanks around a bare one apart.
THEOREM RowIsRead ==
    ASSUME NEW line \in Seq(Chars), NEW row \in Seq(Seq(Chars)), row # <<>>,
           WrittenRow(line, row), Quote # Comma
    PROVE  /\ DOMAIN parseCsvLine(line) = DOMAIN row
           /\ \A k \in DOMAIN row : Trim(parseCsvLine(line)[k]) = Trim(row[k])
<1>. DEFINE m == Len(row)
<1>1. m \in Nat /\ 1 <= m /\ Len(line) \in Nat /\ DOMAIN row = 1 .. m
      /\ \A k \in 1 .. m : row[k] \in Seq(Chars)
  BY LineIs
<1>2. PICK start \in [1 .. m + 1 -> 1 .. Len(line) + 2] :
        /\ start[1] = 1 /\ start[m + 1] = Len(line) + 2
        /\ \A k \in 1 .. m :
            /\ start[k] < start[k + 1]
            /\ k < m => Is(line, start[k + 1] - 1, Comma)
            /\ \/ WrittenBare(line, start[k], start[k + 1] - 1, row[k])
               \/ WrittenQuoted(line, start[k], start[k + 1] - 1, row[k])
  BY <1>1 DEF WrittenRow
<1>. HIDE DEF m
<1>3. ASSUME NEW k \in 1 .. m
      PROVE  /\ start[k] \in 1 .. Len(line) + 1 /\ start[k + 1] - 1 \in start[k] .. Len(line) + 1
             /\ (k = m) = ~Is(line, start[k + 1] - 1, Comma)
             /\ k = m => start[k + 1] - 1 = Len(line) + 1
             /\ k < m => line[start[k + 1] - 1] = Comma
  <2>1. start[k] \in 1 .. Len(line) + 2 /\ start[k + 1] \in 1 .. Len(line) + 2 /\ start[k] < start[k + 1]
    BY <1>1, <1>2
  <2>2. k = m => ~Is(line, start[k + 1] - 1, Comma)
    BY <1>1, <1>2, <2>1, LineIs DEF Is
  <2>3. k # m => Is(line, start[k + 1] - 1, Comma)
    BY <1>1, <1>2, <2>1
  <2>4. k = m => start[k + 1] = Len(line) + 2
    BY <1>2
  <2>5. start[k] \in 1 .. Len(line) + 1 /\ start[k + 1] - 1 \in start[k] .. Len(line) + 1
    BY <1>1, <2>1
  <2>6. k = m => start[k + 1] - 1 = Len(line) + 1
    BY <1>1, <2>4
  <2>7. k < m => line[start[k + 1] - 1] = Comma
    BY <1>1, <2>3 DEF Is
  <2>. QED  BY <2>2, <2>3, <2>5, <2>6, <2>7
<1>. DEFINE Read(k) == FieldAt(line, start[k])
<1>4. ASSUME NEW k \in 1 .. m
      PROVE  Read(k).next = start[k + 1] - 1 /\ Trim(Read(k).field) = Trim(row[k])
  <2>. DEFINE i == start[k]
              j == start[k + 1] - 1
  <2>1. i \in 1 .. Len(line) + 1 /\ j \in i .. Len(line) + 1 /\ row[k] \in Seq(Chars)
        /\ (j = Len(line) + 1 \/ line[j] = Comma) /\ ~Is(line, j, Quote)
    <3>1. i \in 1 .. Len(line) + 1 /\ j \in i .. Len(line) + 1 /\ row[k] \in Seq(Chars)
      BY <1>1, <1>3
    <3>2. j = Len(line) + 1 \/ line[j] = Comma
      <4>1. k = m \/ k < m
        BY <1>1
      <4>. QED  BY <1>3, <4>1
    <3>3. ~Is(line, j, Quote)
      <4>. HIDE DEF j
      <4>. QED  BY <3>2, <1>1, LineIs DEF Is
    <3>. QED  BY <3>1, <3>2, <3>3
  <2>2. WrittenBare(line, i, j, row[k]) \/ WrittenQuoted(line, i, j, row[k])
    BY <1>2
  <2>. HIDE DEF i, j
  <2>3. CASE WrittenBare(line, i, j, row[k])
    <3>1. FieldAt(line, i) = [field |-> Trim(row[k]), next |-> j]
      BY <2>1, <2>3, BareIsRead
    <3>. QED  BY <2>1, <3>1, TrimTwice DEF i, j
  <2>4. CASE WrittenQuoted(line, i, j, row[k])
    <3>1. FieldAt(line, i) = [field |-> row[k], next |-> j]
      BY <2>1, <2>4, QuotedIsRead
    <3>. QED  BY <3>1 DEF i, j
  <2>. QED  BY <2>2, <2>3, <2>4
<1>. DEFINE r == [k \in 1 .. m |-> Read(k).field]
            T == {k \in 1 .. m : Fields(line)[start[k]] = SubSeq(r, k, m)}
<1>5. r \in Seq(Seq(Chars)) /\ Len(r) = m /\ \A k \in 1 .. m : r[k] = Read(k).field
  <2>1. ASSUME NEW k \in 1 .. m PROVE Read(k).field \in Seq(Chars)
    <3>1. Read(k) \in FieldIn(line, start[k])
      BY <1>3, FieldAtIn
    <3>. QED  BY <3>1 DEF FieldIn
  <2>. QED  BY <1>1, <2>1
<1>. HIDE DEF r
<1>6. ASSUME NEW k \in 1 .. m, (k + 1) .. m \subseteq T PROVE k \in T
  <2>1. Fields(line)[start[k]] = FieldsBody(line, Fields(line), start[k])
    <3>1. start[k] \in 1 .. Len(line) + 1
      BY <1>3
    <3>. QED  BY <3>1, FieldsEquation, Zenon
  <2>2. CASE k = m
    <3>1. FieldsBody(line, Fields(line), start[k]) = <<r[k]>>
      BY <1>3, <1>4, <1>5, <2>2 DEF FieldsBody
    <3>2. SubSeq(r, m, m) = <<r[m]>>
      <4>1. SubSeq(r, m, m) \in Seq(Seq(Chars)) /\ Len(SubSeq(r, m, m)) = 1 /\ SubSeq(r, m, m)[1] = r[m]
        BY <1>1, <1>5, SubSeqProperties
      <4>2. <<r[m]>> \in Seq(Seq(Chars)) /\ Len(<<r[m]>>) = 1 /\ <<r[m]>>[1] = r[m]
        BY <1>1, <1>5
      <4>3. \A e \in 1 .. Len(SubSeq(r, m, m)) : SubSeq(r, m, m)[e] = <<r[m]>>[e]
        BY <4>1, <4>2
      <4>4. Len(SubSeq(r, m, m)) = Len(<<r[m]>>)
        BY <4>1, <4>2
      <4>. QED  BY ONLY <4>1, <4>2, <4>3, <4>4, SeqEqual
    <3>. QED  BY <2>1, <2>2, <3>1, <3>2
  <2>3. CASE k # m
    <3>1. k + 1 \in 1 .. m /\ k + 1 \in T
      <4>1. k + 1 \in (k + 1) .. m /\ k + 1 \in 1 .. m
        BY <1>1, <2>3
      <4>. HIDE DEF T
      <4>. QED  BY <1>6, <4>1
    <3>2. Fields(line)[start[k + 1]] = SubSeq(r, k + 1, m)
      BY <3>1
    <3>3. start[k + 1] - 1 + 1 = start[k + 1]
      <4>1. start[k + 1] \in 1 .. Len(line) + 2
        BY <1>1, <1>2, <3>1
      <4>. QED  BY <1>1, <4>1
    <3>4. FieldsBody(line, Fields(line), start[k]) = <<r[k]>> \o SubSeq(r, k + 1, m)
      BY <1>3, <1>4, <1>5, <2>3, <3>2, <3>3 DEF FieldsBody
    <3>5. SubSeq(r, k, m) = <<r[k]>> \o SubSeq(r, k + 1, m)
      BY <1>1, <1>5, SubSeqProperties, ConcatProperties
    <3>. QED  BY <2>1, <3>4, <3>5
  <2>. QED  BY <2>2, <2>3
<1>7. T = 1 .. m
  <2>1. T \in SUBSET (1 .. m)
    OBVIOUS
  <2>. HIDE DEF T
  <2>. QED  BY <1>1, <1>6, <2>1, DownInduction
<1>8. parseCsvLine(line) = r
  <2>1. 1 \in T
    <3>. HIDE DEF T
    <3>. QED  BY <1>1, <1>7
  <2>2. SubSeq(r, 1, m) = r
    BY <1>1, <1>5, SubSeqProperties
  <2>. QED  BY <1>2, <2>1, <2>2 DEF parseCsvLine
<1>9. DOMAIN r = 1 .. m
  BY <1>5
<1>. QED  BY <1>1, <1>4, <1>5, <1>8, <1>9

\* The rows that are read of a file are the rows that were written to it.
THEOREM RowsAreRead ==
    ASSUME NEW f \in Files, NEW k
    PROVE  CsvRows(k, f.lines) = KeptRows(k, [n \in DOMAIN f.rows |-> Columns(f.rows[n])])
<1>1. /\ f.lines \in Seq(Seq(Chars)) /\ f.rows \in Seq(Seq(Seq(Chars)))
      /\ Len(f.rows) = Len(f.lines) /\ Quote # Comma
      /\ \A n \in 1 .. Len(f.lines) : f.rows[n] # <<>> /\ WrittenRow(f.lines[n], f.rows[n])
  BY ImportAssumption
<1>2. DOMAIN f.lines = 1 .. Len(f.lines) /\ DOMAIN f.rows = 1 .. Len(f.lines)
      /\ \A n \in 1 .. Len(f.lines) : f.lines[n] \in Seq(Chars) /\ f.rows[n] \in Seq(Seq(Chars))
  BY <1>1
<1>3. ASSUME NEW n \in 1 .. Len(f.lines)
      PROVE  Columns(parseCsvLine(f.lines[n])) = Columns(f.rows[n])
  <2>1. /\ DOMAIN parseCsvLine(f.lines[n]) = DOMAIN f.rows[n]
        /\ \A c \in DOMAIN f.rows[n] : Trim(parseCsvLine(f.lines[n])[c]) = Trim(f.rows[n][c])
    BY <1>1, <1>2, RowIsRead
  <2>2. \A c \in 1 .. Width :
          (IF c \in DOMAIN parseCsvLine(f.lines[n]) THEN Trim(parseCsvLine(f.lines[n])[c]) ELSE <<>>)
            = (IF c \in DOMAIN f.rows[n] THEN Trim(f.rows[n][c]) ELSE <<>>)
    BY <2>1
  <2>. QED  BY <2>2, Zenon DEF Columns
<1>4. [n \in DOMAIN f.lines |-> Columns(parseCsvLine(f.lines[n]))]
        = [n \in DOMAIN f.rows |-> Columns(f.rows[n])]
  BY <1>2, <1>3
<1>. QED  BY <1>4, Zenon DEF CsvRows

-----------------------------------------------------------------------------
(* The dialogs.                                                            *)

ImportInv == ImportTypeOK /\ RowsAsWritten

LEMMA ImportInitially == ImportInit => ImportInv
<1>. SUFFICES ASSUME ImportInit PROVE ImportInv
  OBVIOUS
<1>1. Names(<<>>) = {} /\ DOMAIN [n \in {} |-> NoAccount] = {}
  BY DEF Names
<1>2. MaxReads \in Nat
  BY ImportAssumption
<1>3. ImportTypeOK
  <2>1. reads \in 0 .. MaxReads
    BY <1>2 DEF ImportInit
  <2>2. DOMAIN mapping = Names(parsed)
    BY <1>1, Zenon DEF ImportInit
  <2>. QED  BY <2>1, <2>2, Zenon DEF ImportInit, ImportTypeOK
<1>4. RowsAsWritten
  BY DEF ImportInit, RowsAsWritten
<1>. QED  BY <1>3, <1>4 DEF ImportInv

LEMMA ImportStep == ImportInv /\ [ImportNext]_importVars => ImportInv'
<1>. SUFFICES ASSUME ImportInv, [ImportNext]_importVars PROVE ImportInv'
  OBVIOUS
<1>. USE DEF ImportInv, ImportTypeOK, RowsAsWritten
<1>1. Names(<<>>) = {} /\ DOMAIN [n \in {} |-> NoAccount] = {}
  BY DEF Names
<1>2. NoFile \notin Files /\ MaxReads \in Nat
  BY ImportAssumption
<1>3. CASE ListsArrive
  BY <1>3 DEF ListsArrive, Names
<1>4. ASSUME NEW k \in Kinds, OpenImport(k) PROVE ImportInv'
  BY <1>1, <1>4 DEF OpenImport
<1>5. CASE CloseImport
  BY <1>5 DEF CloseImport, Names
<1>6. ASSUME NEW f \in Files, ChooseFile(f) PROVE ImportInv'
  <2>1. reads' \in 0 .. MaxReads
    BY <1>2, <1>6 DEF ChooseFile
  <2>2. DOMAIN mapping' = Names(parsed')
    BY <1>1, <1>6, Zenon DEF ChooseFile
  <2>3. reading' = reading \cup {[file |-> f, knew |-> listsHere]}
        /\ UNCHANGED <<kind, listsHere, step>> /\ source' = NoFile /\ parsed' = <<>> /\ knewLists' = FALSE
    BY <1>6 DEF ChooseFile
  <2>4. reading' \subseteq [file : Files, knew : BOOLEAN]
    BY <2>3
  <2>5. ImportTypeOK'
    BY <2>1, <2>2, <2>3, <2>4
  <2>6. RowsAsWritten'
    BY <2>3
  <2>. QED  BY <2>5, <2>6
<1>7. ASSUME NEW r \in reading, FileRead(r) PROVE ImportInv'
  <2>. DEFINE f == r.file
              rows == CsvRows(kind, f.lines)
  <2>1. f \in Files /\ r.knew \in BOOLEAN
    OBVIOUS
  <2>2. CASE rows = <<>>
    BY <1>7, <2>2 DEF FileRead, Names
  <2>3. CASE rows # <<>>
    <3>1. /\ source' = f /\ parsed' = rows /\ knewLists' = r.knew
          /\ mapping' = [n \in Names(rows) |-> IF r.knew /\ n \in DOMAIN AccountOf THEN AccountOf[n]
                                             ELSE NoAccount]
          /\ UNCHANGED <<kind, listsHere, step, reads>> /\ reading' = reading \ {r}
      BY <1>7, <2>3 DEF FileRead
    <3>2. rows = KeptRows(kind, [n \in DOMAIN f.rows |-> Columns(f.rows[n])])
      BY <2>1, RowsAreRead
    <3>. HIDE DEF rows, f
    <3>3. RowsAsWritten'
      BY <3>1, <3>2
    <3>4. DOMAIN mapping' = Names(parsed)'
      BY <3>1 DEF Names
    <3>5. ImportTypeOK'
      BY <1>2, <2>3, <2>1, <3>1, <3>4
    <3>. QED  BY <3>3, <3>5
  <2>. QED  BY <2>2, <2>3
<1>8. ASSUME NEW n \in DOMAIN mapping, NEW a, MapAccount(n, a) PROVE ImportInv'
  BY <1>8 DEF MapAccount, Names
<1>9. CASE Continue
  BY <1>9 DEF Continue, Names
<1>10. CASE Back
  BY <1>10 DEF Back, Names
<1>11. CASE SendImport
  BY <1>11 DEF SendImport, Names
<1>12. ASSUME NEW accepted \in BOOLEAN, ImportAnswered(accepted) PROVE ImportInv'
  BY <1>12 DEF ImportAnswered, Names
<1>13. CASE UNCHANGED importVars
  BY <1>13 DEF importVars, Names
<1>. QED  BY <1>3, <1>4, <1>5, <1>6, <1>7, <1>8, <1>9, <1>10, <1>11, <1>12, <1>13 DEF ImportNext

LEMMA ImportInvariant == ImportSpec => []ImportInv
<1>1. ImportInit => ImportInv
  BY ImportInitially
<1>2. ImportInv /\ [ImportNext]_importVars => ImportInv'
  BY ImportStep
<1>. QED  BY <1>1, <1>2, PTL DEF ImportSpec

\* The variables of the import dialogs have their types: there is a preview when
\* a file was read, and an entry of the mapping for each account in it.
THEOREM ImportTypesHold == ImportSpec => []ImportTypeOK
<1>1. ImportInv => ImportTypeOK
  BY DEF ImportInv
<1>. QED  BY <1>1, ImportInvariant, PTL

\* Whatever files are chosen, in whatever order their readers end, the rows on
\* the page are the rows of one file as they were written.
THEOREM RowsAreAsWritten == ImportSpec => []RowsAsWritten
<1>1. ImportInv => RowsAsWritten
  BY DEF ImportInv
<1>. QED  BY <1>1, ImportInvariant, PTL
=============================================================================
