---------------------------- MODULE EditorProofs ----------------------------
(***************************************************************************)
(* Theorems about an editor session, for every text, alphabet, size of the *)
(* undo stack and number of keys.                                          *)
(***************************************************************************)
EXTENDS Editor, ZerosLemmas

LineChars == Letters \cup {SP, NUL}
Line      == Seq(LineChars)

-----------------------------------------------------------------------------
(* Serialize and Split *)

(* A line and its newline after a text. *)
Ended(s, l) == s \o l \o <<NL>>

(* The text of the first n lines, for every n. *)
Prefixes(ls, f) ==
  f = [n \in 0 .. Len(ls) |-> IF n = 0 THEN <<>> ELSE Ended(f[n - 1], ls[n])]

(* The recursion of Serialize has a solution. *)
LEMMA PrefixesExist ==
  ASSUME NEW ls, Len(ls) \in Nat
  PROVE  \E f : Prefixes(ls, f)
<1>. DEFINE Part(N, f) ==
              f = [n \in 0 .. N |-> IF n = 0 THEN <<>> ELSE Ended(f[n - 1], ls[n])]
            G == {N \in Nat : \E f : Part(N, f)}
<1>1. 0 \in G
  <2>1. Part(0, [n \in 0 .. 0 |-> <<>>]) OBVIOUS
  <2>. QED BY <2>1
<1>2. ASSUME NEW N \in Nat, N \in G PROVE N + 1 \in G
  <2>1. PICK f : Part(N, f) BY <1>2
  <2>. DEFINE g == [n \in 0 .. N + 1 |->
                      IF n = N + 1 THEN Ended(f[N], ls[N + 1]) ELSE f[n]]
  <2>2. \A n \in 0 .. N : g[n] = f[n] OBVIOUS
  <2>3. \A n \in 0 .. N + 1 :
          g[n] = IF n = 0 THEN <<>> ELSE Ended(g[n - 1], ls[n])
    <3>. SUFFICES ASSUME NEW n \in 0 .. N + 1
                  PROVE  g[n] = IF n = 0 THEN <<>> ELSE Ended(g[n - 1], ls[n])
      OBVIOUS
    <3>1. CASE n = N + 1 BY <2>2, <3>1
    <3>2. CASE n # N + 1
      <4>1. n \in 0 .. N /\ g[n] = f[n] BY <2>2, <3>2
      <4>2. f[n] = IF n = 0 THEN <<>> ELSE Ended(f[n - 1], ls[n]) BY <2>1, <4>1
      <4>3. n # 0 => g[n - 1] = f[n - 1] BY <2>2, <4>1
      <4>. QED BY <4>1, <4>2, <4>3
    <3>. QED BY <3>1, <3>2
  <2>4. g = [n \in 0 .. N + 1 |-> g[n]] OBVIOUS
  <2>. HIDE DEF g
  <2>5. Part(N + 1, g) BY <2>3, <2>4
  <2>. HIDE DEF Part
  <2>. QED BY <2>5
<1>3. Nat \subseteq G
  <2>. HIDE DEF G
  <2>. QED BY <1>1, <1>2, NatSetInduction
<1>4. Len(ls) \in G BY <1>3
<1>. QED BY <1>4 DEF Prefixes

(* t consists of the lines ls, each with a newline after it; line n ends   *)
(* before position e[n].                                                   *)
Laid(t, ls, e) ==
  /\ t \in Text /\ e \in [0 .. Len(ls) -> Nat] /\ e[0] = 0 /\ Len(t) = e[Len(ls)]
  /\ \A n \in 1 .. Len(ls) :
       /\ e[n] = e[n - 1] + Len(ls[n]) + 1 /\ t[e[n]] = NL
       /\ \A i \in 1 .. Len(ls[n]) : t[e[n - 1] + i] = ls[n][i]

(* What it consists of. *)
LEMMA EndedFacts ==
  ASSUME NEW s \in Text, NEW l \in Line
  PROVE  /\ Ended(s, l) \in Text /\ Len(Ended(s, l)) = Len(s) + Len(l) + 1
         /\ \A i \in 1 .. Len(s) : Ended(s, l)[i] = s[i]
         /\ \A i \in 1 .. Len(l) : Ended(s, l)[Len(s) + i] = l[i]
         /\ Ended(s, l)[Len(s) + Len(l) + 1] = NL
<1>1. l \in Text /\ <<NL>> \in Text /\ Len(<<NL>>) = 1 /\ <<NL>>[1] = NL
  BY DEF Line, LineChars, Text
<1>2. /\ s \o l \in Text /\ Len(s \o l) = Len(s) + Len(l)
      /\ \A i \in 1 .. Len(s) + Len(l) :
           (s \o l)[i] = IF i <= Len(s) THEN s[i] ELSE l[i - Len(s)]
  BY <1>1, ConcatProperties DEF Text
<1>3. PICK u \in Text : u = s \o l BY <1>2
<1>4. /\ u \o <<NL>> \in Text /\ Len(u \o <<NL>>) = Len(u) + 1
      /\ \A i \in 1 .. Len(u) + 1 :
           (u \o <<NL>>)[i] = IF i <= Len(u) THEN u[i] ELSE <<NL>>[i - Len(u)]
  BY <1>1, ConcatProperties DEF Text
<1>5. Len(s) \in Nat /\ Len(l) \in Nat BY DEF Text, Line
<1>6. Ended(s, l) = u \o <<NL>> BY <1>3 DEF Ended
<1>7. PICK v \in Text : v = u \o <<NL>> BY <1>4
<1>8. /\ Len(u) = Len(s) + Len(l) /\ Len(v) = Len(u) + 1
      /\ \A i \in 1 .. Len(u) : v[i] = u[i]
      /\ \A i \in 1 .. Len(s) : u[i] = s[i]
      /\ \A i \in 1 .. Len(l) : u[Len(s) + i] = l[i]
      /\ v[Len(u) + 1] = NL
  <2>1. Len(u) = Len(s) + Len(l) /\ Len(v) = Len(u) + 1 BY <1>2, <1>3, <1>4, <1>7
  <2>2. \A i \in 1 .. Len(u) : v[i] = u[i] BY <1>4, <1>7, <2>1, <1>5
  <2>3. \A i \in 1 .. Len(s) : u[i] = s[i] BY <1>2, <1>3, <1>5
  <2>4. \A i \in 1 .. Len(l) : u[Len(s) + i] = l[i]
    <3>. SUFFICES ASSUME NEW i \in 1 .. Len(l) PROVE u[Len(s) + i] = l[i] OBVIOUS
    <3>1. PICK k \in 1 .. Len(s) + Len(l) : k = Len(s) + i BY <1>5
    <3>2. u[k] = l[k - Len(s)] BY <1>2, <1>3, <1>5, <3>1
    <3>3. k - Len(s) = i BY <1>5, <3>1
    <3>. QED BY <3>1, <3>2, <3>3
  <2>5. v[Len(u) + 1] = NL
    <3>1. PICK k \in 1 .. Len(u) + 1 : k = Len(u) + 1 BY <1>5, <2>1
    <3>2. v[k] = <<NL>>[k - Len(u)] BY <1>4, <1>5, <1>7, <2>1, <3>1
    <3>3. k - Len(u) = 1 BY <1>5, <2>1, <3>1
    <3>. QED BY <1>1, <3>1, <3>2, <3>3
  <2>. QED BY <2>1, <2>2, <2>3, <2>4, <2>5
<1>. QED BY <1>5, <1>6, <1>7, <1>8

(* What editor_save and editor_snap_push write is laid out that way. *)
LEMMA SerializeLaid ==
  ASSUME NEW ls \in Seq(Line)
  PROVE  \E e : Laid(Serialize(ls), ls, e)
<1>0. Len(ls) \in Nat /\ \A n \in 1 .. Len(ls) : ls[n] \in Line BY ElementOfSeq
<1>1. PICK f : Prefixes(ls, f) /\ Serialize(ls) = f[Len(ls)]
  <2>. DEFINE g == CHOOSE h : Prefixes(ls, h)
  <2>1. Prefixes(ls, g) BY <1>0, PrefixesExist
  <2>2. Serialize(ls) = g[Len(ls)] BY DEF Serialize, Prefixes, Ended
  <2>. QED BY <2>1, <2>2
<1>2. f[0] = <<>> /\ \A n \in 1 .. Len(ls) : f[n] = Ended(f[n - 1], ls[n])
  BY <1>0, <1>1 DEF Prefixes
<1>3. f[0] \in Text /\ Len(f[0]) = 0
  <2>1. f[0] = <<>> BY <1>2
  <2>2. <<>> \in Text /\ Len(<<>>) = 0 BY DEF Text
  <2>. QED BY <2>1, <2>2, Zenon
<1>4. \A n \in 0 .. Len(ls) : f[n] \in Text
  <2>. DEFINE G == {n \in Nat : n <= Len(ls) => f[n] \in Text}
  <2>1. 0 \in G BY <1>3
  <2>2. ASSUME NEW n \in Nat, n \in G PROVE n + 1 \in G
    <3>. SUFFICES ASSUME n + 1 <= Len(ls) PROVE f[n + 1] \in Text OBVIOUS
    <3>1. PICK k \in 1 .. Len(ls) : k = n + 1 BY <1>0
    <3>2. f[k - 1] \in Text /\ ls[k] \in Line /\ f[k] = Ended(f[k - 1], ls[k])
      BY <1>0, <1>2, <2>2, <3>1
    <3>. QED BY <3>1, <3>2, EndedFacts
  <2>3. Nat \subseteq G
    <3>. HIDE DEF G
    <3>. QED BY <2>1, <2>2, NatSetInduction
  <2>. QED BY <1>0, <2>3
<1>5. \A n \in 1 .. Len(ls) :
        /\ Len(f[n]) = Len(f[n - 1]) + Len(ls[n]) + 1
        /\ \A i \in 1 .. Len(f[n - 1]) : f[n][i] = f[n - 1][i]
        /\ \A i \in 1 .. Len(ls[n]) : f[n][Len(f[n - 1]) + i] = ls[n][i]
        /\ f[n][Len(f[n])] = NL
  <2>. SUFFICES ASSUME NEW n \in 1 .. Len(ls)
                PROVE  /\ Len(f[n]) = Len(f[n - 1]) + Len(ls[n]) + 1
                       /\ \A i \in 1 .. Len(f[n - 1]) : f[n][i] = f[n - 1][i]
                       /\ \A i \in 1 .. Len(ls[n]) : f[n][Len(f[n - 1]) + i] = ls[n][i]
                       /\ f[n][Len(f[n])] = NL
    OBVIOUS
  <2>1. f[n - 1] \in Text /\ ls[n] \in Line /\ f[n] = Ended(f[n - 1], ls[n])
    BY <1>0, <1>2, <1>4
  <2>2. PICK s \in Text, l \in Line : s = f[n - 1] /\ l = ls[n] BY <2>1
  <2>3. PICK u \in Text : u = f[n] BY <1>0, <1>4
  <2>4. u = Ended(s, l) BY <2>1, <2>2, <2>3
  <2>5. /\ Len(u) = Len(s) + Len(l) + 1
        /\ \A i \in 1 .. Len(s) : u[i] = s[i]
        /\ \A i \in 1 .. Len(l) : u[Len(s) + i] = l[i]
        /\ u[Len(s) + Len(l) + 1] = NL
    BY <2>4, EndedFacts, Zenon
  <2>6. u[Len(u)] = NL BY <2>5
  <2>. QED BY <2>2, <2>3, <2>5, <2>6
<1>6. \A n \in 0 .. Len(ls) : Len(f[n]) \in Nat BY <1>4 DEF Text
<1>. DEFINE Pre(m, n) == /\ Len(f[m]) <= Len(f[n])
                         /\ \A i \in 1 .. Len(f[m]) : f[n][i] = f[m][i]
<1>7. ASSUME NEW m \in 0 .. Len(ls) PROVE Pre(m, Len(ls))
  <2>. DEFINE G == {d \in Nat : m + d <= Len(ls) => Pre(m, m + d)}
  <2>1. 0 \in G BY <1>6
  <2>2. ASSUME NEW d \in Nat, d \in G PROVE d + 1 \in G
    <3>. SUFFICES ASSUME m + d + 1 <= Len(ls) PROVE Pre(m, m + d + 1) OBVIOUS
    <3>1. PICK n \in 1 .. Len(ls) : n = m + d + 1 BY <1>0
    <3>2. n - 1 = m + d /\ Pre(m, n - 1) BY <1>0, <2>2, <3>1
    <3>3. PICK s, u, v : s = f[m] /\ u = f[n - 1] /\ v = f[n] OBVIOUS
    <3>4. /\ Len(s) \in Nat /\ Len(u) \in Nat /\ Len(v) \in Nat /\ Len(ls[n]) \in Nat
          /\ Len(v) = Len(u) + Len(ls[n]) + 1 /\ \A i \in 1 .. Len(u) : v[i] = u[i]
      <4>1. n \in 0 .. Len(ls) /\ n - 1 \in 0 .. Len(ls) BY <1>0
      <4>2. Len(ls[n]) \in Nat BY <1>0 DEF Line
      <4>3. Len(s) \in Nat /\ Len(u) \in Nat /\ Len(v) \in Nat BY <1>6, <3>3, <4>1
      <4>4. Len(v) = Len(u) + Len(ls[n]) + 1 /\ \A i \in 1 .. Len(u) : v[i] = u[i]
        BY <1>5, <3>3
      <4>. QED BY <4>2, <4>3, <4>4
    <3>5. Len(s) <= Len(u) /\ \A i \in 1 .. Len(s) : u[i] = s[i] BY <3>2, <3>3
    <3>6. Len(s) <= Len(v) /\ \A i \in 1 .. Len(s) : v[i] = s[i]
      <4>1. PICK a \in Nat, b \in Nat, z \in Nat, k \in Nat :
              a = Len(s) /\ b = Len(u) /\ z = Len(v) /\ k = Len(ls[n])
        BY <3>4
      <4>2. a <= b /\ z = b + k + 1 BY <3>4, <3>5, <4>1
      <4>3. a <= z /\ \A i \in 1 .. a : i \in 1 .. b BY <4>2
      <4>4. \A i \in 1 .. a : v[i] = u[i] /\ u[i] = s[i] BY <3>4, <3>5, <4>1, <4>3
      <4>. QED BY <4>1, <4>3, <4>4
    <3>7. Pre(m, n) BY <3>3, <3>6
    <3>. QED BY <3>1, <3>7
  <2>3. Nat \subseteq G
    <3>. HIDE DEF G
    <3>. QED BY <2>1, <2>2, NatSetInduction
  <2>4. PICK d \in Nat : m + d = Len(ls)
    <3>1. Len(ls) - m \in Nat /\ m + (Len(ls) - m) = Len(ls) BY <1>0
    <3>. QED BY <3>1
  <2>5. d \in G
    <3>. HIDE DEF G
    <3>. QED BY <2>3
  <2>6. Pre(m, m + d)
    <3>1. m + d <= Len(ls) BY <1>0, <2>4
    <3>. HIDE DEF Pre
    <3>. QED BY <2>5, <3>1
  <2>. HIDE DEF Pre
  <2>. QED BY <2>4, <2>6
<1>. DEFINE t == Serialize(ls)
            e == [n \in 0 .. Len(ls) |-> Len(f[n])]
<1>8. /\ t \in Text /\ e \in [0 .. Len(ls) -> Nat] /\ e[0] = 0 /\ Len(t) = e[Len(ls)]
  BY <1>0, <1>1, <1>2, <1>4, <1>6
<1>9. ASSUME NEW n \in 1 .. Len(ls)
      PROVE  /\ e[n] = e[n - 1] + Len(ls[n]) + 1 /\ t[e[n]] = NL
             /\ \A i \in 1 .. Len(ls[n]) : t[e[n - 1] + i] = ls[n][i]
  <2>1. /\ e[n] = Len(f[n]) /\ e[n - 1] = Len(f[n - 1]) /\ t = f[Len(ls)]
        /\ Len(ls[n]) \in Nat /\ e[n] \in Nat /\ e[n - 1] \in Nat
    BY <1>0, <1>1, <1>6 DEF Line
  <2>2. PICK s, u : s = f[n - 1] /\ u = f[n] OBVIOUS
  <2>3. /\ Len(u) = Len(s) + Len(ls[n]) + 1 /\ u[Len(u)] = NL
        /\ \A i \in 1 .. Len(ls[n]) : u[Len(s) + i] = ls[n][i]
    BY <1>5, <2>2
  <2>4. \A i \in 1 .. Len(u) : t[i] = u[i]
    <3>1. n \in 0 .. Len(ls) BY <1>0
    <3>. QED BY <1>7, <2>1, <2>2, <3>1
  <2>. HIDE DEF t, e, Pre
  <2>5. PICK a \in Nat, b \in Nat, z \in Nat :
          a = e[n - 1] /\ b = Len(ls[n]) /\ z = e[n]
    BY <2>1
  <2>6. Len(s) = a /\ Len(u) = z /\ z = a + b + 1 BY <2>1, <2>2, <2>3, <2>5
  <2>7. t[z] = NL
    <3>1. z \in 1 .. Len(u) BY <2>6
    <3>. QED BY <2>3, <2>4, <2>6, <3>1
  <2>8. ASSUME NEW i \in 1 .. b PROVE t[a + i] = ls[n][i]
    <3>1. a + i \in 1 .. Len(u) BY <2>6
    <3>2. u[a + i] = ls[n][i] BY <2>3, <2>5, <2>6
    <3>. QED BY <2>4, <3>1, <3>2
  <2>. QED BY <2>5, <2>6, <2>7, <2>8
<1>. HIDE DEF t, e
<1>10. Laid(t, ls, e) BY <1>8, <1>9 DEF Laid
<1>. QED BY <1>10 DEF t

(* Where the lines of a text end, and the end of its line k. *)
Ends(t) == {i \in 1 .. Len(t) : t[i] = NL}
           \cup (IF t # <<>> /\ t[Len(t)] # NL THEN {Len(t) + 1} ELSE {})

UpTo(S, i) == {j \in S : j <= i}

EndOf(t, k) == IF k = 0 THEN 0 ELSE CHOOSE i \in Ends(t) : Cardinality(UpTo(Ends(t), i)) = k

(* Split in terms of these. *)
LEMMA SplitIs ==
  ASSUME NEW t
  PROVE  Split(t) = IF Ends(t) = {} THEN << <<>> >>
                    ELSE [k \in 1 .. Cardinality(Ends(t)) |->
                            SubSeq(t, EndOf(t, k - 1) + 1, EndOf(t, k) - 1)]
BY DEF Split, Ends, EndOf, UpTo

(* The k-th number of a finite set is the one with k numbers up to it: it  *)
(* exists, the rank grows with the number, and nothing lies between two    *)
(* that follow each other.                                                 *)
LEMMA Ranks ==
  ASSUME NEW m \in Nat, NEW S \in SUBSET (1 .. m)
  PROVE  /\ IsFiniteSet(S) /\ Cardinality(S) \in Nat
         /\ \A i : IsFiniteSet(UpTo(S, i)) /\ Cardinality(UpTo(S, i)) \in Nat
         /\ \A i, j \in S : i < j => Cardinality(UpTo(S, i)) < Cardinality(UpTo(S, j))
         /\ \A k \in 1 .. Cardinality(S) : \E i \in S : Cardinality(UpTo(S, i)) = k
<1>0. 1 \in Int /\ m \in Int OBVIOUS
<1>n. \A x \in S : x \in Int /\ x \in Nat OBVIOUS
<1>u. \A i, x : x \in UpTo(S, i) <=> x \in S /\ x <= i BY DEF UpTo
<1>1. IsFiniteSet(1 .. m) BY <1>0, FS_Interval, Zenon
<1>2. IsFiniteSet(S) /\ Cardinality(S) \in Nat BY <1>1, FS_Subset, FS_CardinalityType
<1>3. \A i : IsFiniteSet(UpTo(S, i)) /\ Cardinality(UpTo(S, i)) \in Nat
  <2>1. \A i : UpTo(S, i) \in SUBSET S BY DEF UpTo
  <2>. QED BY <1>2, <2>1, FS_Subset, FS_CardinalityType
<1>4. ASSUME NEW i \in S, NEW j \in S, i < j
      PROVE  Cardinality(UpTo(S, i)) < Cardinality(UpTo(S, j))
  <2>1. UpTo(S, i) \in SUBSET UpTo(S, j) /\ j \in UpTo(S, j) /\ j \notin UpTo(S, i)
    <3>1. \A x \in S : x <= i => x <= j BY <1>n, <1>4
    <3>2. j <= j /\ ~(j <= i) BY <1>n, <1>4
    <3>. QED BY <1>u, <3>1, <3>2
  <2>2. /\ Cardinality(UpTo(S, i)) <= Cardinality(UpTo(S, j))
        /\ Cardinality(UpTo(S, i)) # Cardinality(UpTo(S, j))
    BY <1>3, <2>1, FS_Subset
  <2>. QED BY <1>3, <2>2
<1>. DEFINE G == {k \in Nat : k + 1 <= Cardinality(S) =>
                                \E i \in S : Cardinality(UpTo(S, i)) = k + 1}
<1>5. 0 \in G
  <2>. SUFFICES ASSUME 1 <= Cardinality(S) PROVE \E i \in S : Cardinality(UpTo(S, i)) = 1
    OBVIOUS
  <2>1. S # {} /\ S \subseteq Nat BY FS_EmptySet
  <2>2. PICK i \in S : \A j \in S : i <= j BY <2>1, NatHasLeast
  <2>3. UpTo(S, i) = {i}
    <3>1. \A x \in S : x <= i <=> x = i BY <1>n, <2>2
    <3>. QED BY <1>u, <3>1
  <2>. QED BY <2>3, FS_Singleton
<1>6. ASSUME NEW k \in Nat, k \in G PROVE k + 1 \in G
  <2>. SUFFICES ASSUME k + 2 <= Cardinality(S)
                PROVE  \E i \in S : Cardinality(UpTo(S, i)) = k + 2
    OBVIOUS
  <2>1. PICK i \in S : Cardinality(UpTo(S, i)) = k + 1 BY <1>2, <1>6
  <2>. DEFINE R == {j \in S : j > i}
  <2>2. R # {} /\ R \subseteq Nat
    <3>1. S # UpTo(S, i) BY <1>2, <2>1
    <3>2. PICK x \in S : x \notin UpTo(S, i) BY <3>1 DEF UpTo
    <3>3. x \in R BY <1>n, <3>2 DEF UpTo
    <3>. QED BY <1>n, <3>3
  <2>3. PICK j \in R : \A x \in R : j <= x BY <2>2, NatHasLeast
  <2>4. UpTo(S, j) = UpTo(S, i) \cup {j} /\ j \notin UpTo(S, i)
    <3>1. \A x \in S : x <= j <=> x <= i \/ x = j BY <1>n, <2>3
    <3>2. ~(j <= i) /\ j \in S BY <1>n, <2>3
    <3>. QED BY <1>u, <3>1, <3>2
  <2>5. Cardinality(UpTo(S, j)) = k + 2
    <3>1. Cardinality(UpTo(S, i) \cup {j}) = Cardinality(UpTo(S, i)) + 1
      BY <1>3, <2>4, FS_AddElement
    <3>. QED BY <2>1, <2>4, <3>1
  <2>. QED BY <2>3, <2>5
<1>7. Nat \subseteq G
  <2>. HIDE DEF G
  <2>. QED BY <1>5, <1>6, NatSetInduction
<1>8. \A k \in 1 .. Cardinality(S) : \E i \in S : Cardinality(UpTo(S, i)) = k
  <2>. SUFFICES ASSUME NEW k \in 1 .. Cardinality(S)
                PROVE  \E i \in S : Cardinality(UpTo(S, i)) = k
    OBVIOUS
  <2>1. k - 1 \in G /\ k - 1 \in Nat /\ (k - 1) + 1 = k BY <1>2, <1>7
  <2>. QED BY <1>2, <2>1
<1>. QED BY <1>2, <1>3, <1>4, <1>8

(* The ends of a text follow each other, and what lies between two of them *)
(* is a line.                                                              *)
LEMMA EndFacts ==
  ASSUME NEW t \in Text
  PROVE  /\ Ends(t) \in SUBSET (1 .. Len(t) + 1) /\ Cardinality(Ends(t)) \in Nat
         /\ Ends(t) # {} => Cardinality(Ends(t)) >= 1
         /\ \A k \in 1 .. Cardinality(Ends(t)) :
              EndOf(t, k) \in Ends(t) /\ Cardinality(UpTo(Ends(t), EndOf(t, k))) = k
         /\ \A i \in Ends(t), k \in 1 .. Cardinality(Ends(t)) :
              Cardinality(UpTo(Ends(t), i)) = k => EndOf(t, k) = i
         /\ \A k \in 1 .. Cardinality(Ends(t)) :
              /\ EndOf(t, k - 1) \in 0 .. Len(t) + 1 /\ EndOf(t, k) \in 1 .. Len(t) + 1
              /\ EndOf(t, k - 1) < EndOf(t, k)
              /\ \A p \in EndOf(t, k - 1) + 1 .. EndOf(t, k) - 1 : t[p] \in LineChars
<1>. DEFINE S == Ends(t)
<1>0. Len(t) \in Nat BY DEF Text
<1>1. S \in SUBSET (1 .. Len(t) + 1) /\ Len(t) + 1 \in Nat BY <1>0 DEF Ends
<1>2. \A i \in (1 .. Len(t)) \ S : t[i] \in LineChars
  <2>1. \A i \in 1 .. Len(t) : t[i] \in Letters \cup {SP, NL, NUL} BY DEF Text
  <2>. QED BY <2>1 DEF Ends, LineChars
<1>3. \A k \in Nat \ {0} : EndOf(t, k) = CHOOSE i \in S : Cardinality(UpTo(S, i)) = k
  BY DEF EndOf
<1>4. EndOf(t, 0) = 0 BY DEF EndOf
<1>. HIDE DEF S
<1>5. /\ IsFiniteSet(S) /\ Cardinality(S) \in Nat
      /\ \A i : IsFiniteSet(UpTo(S, i)) /\ Cardinality(UpTo(S, i)) \in Nat
      /\ \A i, j \in S : i < j => Cardinality(UpTo(S, i)) < Cardinality(UpTo(S, j))
      /\ \A k \in 1 .. Cardinality(S) : \E i \in S : Cardinality(UpTo(S, i)) = k
  BY <1>1, Ranks
<1>6. S # {} => Cardinality(S) >= 1 BY <1>5, FS_EmptySet
<1>7. ASSUME NEW k \in 1 .. Cardinality(S)
      PROVE  EndOf(t, k) \in S /\ Cardinality(UpTo(S, EndOf(t, k))) = k
  <2>1. \E i \in S : Cardinality(UpTo(S, i)) = k BY <1>5
  <2>2. k \in Nat \ {0} BY <1>5
  <2>. QED BY <1>3, <2>1, <2>2, Zenon
<1>8. ASSUME NEW i \in S, NEW k \in 1 .. Cardinality(S), Cardinality(UpTo(S, i)) = k
      PROVE  EndOf(t, k) = i
  <2>1. PICK j \in S : j = EndOf(t, k) /\ Cardinality(UpTo(S, j)) = k BY <1>7
  <2>2. i \in Nat /\ j \in Nat BY <1>1
  <2>3. ~(i < j) /\ ~(j < i) BY <1>5, <1>8, <2>1
  <2>. QED BY <2>1, <2>2, <2>3
<1>9. ASSUME NEW k \in 1 .. Cardinality(S)
      PROVE  /\ EndOf(t, k - 1) \in 0 .. Len(t) + 1 /\ EndOf(t, k) \in 1 .. Len(t) + 1
             /\ EndOf(t, k - 1) < EndOf(t, k)
             /\ \A p \in EndOf(t, k - 1) + 1 .. EndOf(t, k) - 1 : t[p] \in LineChars
  <2>0. k \in Nat /\ k - 1 \in Nat /\ (k # 1 => k - 1 \in 1 .. Cardinality(S)) BY <1>5
  <2>1. PICK j \in S : j = EndOf(t, k) /\ Cardinality(UpTo(S, j)) = k BY <1>7
  <2>2. PICK i \in 0 .. Len(t) + 1 :
          /\ i = EndOf(t, k - 1)
          /\ k = 1 => i = 0
          /\ k # 1 => i \in S /\ Cardinality(UpTo(S, i)) = k - 1
    <3>1. CASE k = 1
      <4>1. k - 1 = 0 BY <3>1
      <4>. QED BY <1>0, <1>4, <3>1, <4>1
    <3>2. CASE k # 1
      <4>1. PICK l \in 1 .. Cardinality(S) : l = k - 1 BY <2>0, <3>2
      <4>2. EndOf(t, l) \in S /\ Cardinality(UpTo(S, EndOf(t, l))) = l BY <1>7
      <4>3. EndOf(t, l) \in 1 .. Len(t) + 1 BY <1>1, <4>2
      <4>4. \A x \in 1 .. Len(t) + 1 : x \in 0 .. Len(t) + 1 BY <1>0
      <4>. QED BY <3>2, <4>1, <4>2, <4>3, <4>4
    <3>. QED BY <3>1, <3>2
  <2>3. j \in 1 .. Len(t) + 1 /\ j \in Nat /\ i \in Nat BY <1>0, <1>1
  <2>4. i < j
    <3>1. CASE k = 1 BY <2>2, <2>3, <3>1
    <3>2. CASE k # 1
      <4>1. i \in S /\ Cardinality(UpTo(S, i)) = k - 1 BY <2>2, <3>2
      <4>2. ~(j < i) /\ j # i BY <1>5, <2>0, <2>1, <4>1
      <4>. QED BY <2>3, <4>2
    <3>. QED BY <3>1, <3>2
  <2>5. ASSUME NEW p \in i + 1 .. j - 1 PROVE t[p] \in LineChars
    <3>1. p \in Nat /\ p \in 1 .. Len(t) /\ i < p /\ p < j BY <1>0, <2>3
    <3>2. p \notin S
      <4>. SUFFICES ASSUME p \in S PROVE FALSE OBVIOUS
      <4>1. Cardinality(UpTo(S, p)) < k /\ Cardinality(UpTo(S, p)) \in Nat
        BY <1>5, <2>1, <3>1
      <4>2. CASE k = 1
        <5>1. Cardinality(UpTo(S, p)) = 0 BY <4>1, <4>2
        <5>2. UpTo(S, p) = {} BY <1>5, <5>1, FS_EmptySet
        <5>3. p \in UpTo(S, p) BY <3>1 DEF UpTo
        <5>. QED BY <5>2, <5>3
      <4>3. CASE k # 1
        <5>1. k - 1 < Cardinality(UpTo(S, p)) BY <1>5, <2>2, <3>1, <4>3
        <5>. QED BY <2>0, <4>1, <5>1
      <4>. QED BY <4>2, <4>3
    <3>. QED BY <1>2, <3>1, <3>2
  <2>. QED BY <2>1, <2>2, <2>3, <2>4, <2>5
<1>. QED BY <1>1, <1>5, <1>6, <1>7, <1>8, <1>9 DEF S

(* editor_load and editor_snap_pop end with at least one line, and no line *)
(* has a newline in it.                                                    *)
LEMMA SplitLines ==
  ASSUME NEW t \in Text
  PROVE  Split(t) \in Seq(Line) /\ Len(Split(t)) >= 1
<1>1. CASE Ends(t) = {}
  <2>1. Split(t) = << <<>> >> BY <1>1, SplitIs
  <2>2. <<>> \in Line BY DEF Line
  <2>. QED BY <2>1, <2>2
<1>2. CASE Ends(t) # {}
  <2>. DEFINE N == Cardinality(Ends(t))
              part(k) == SubSeq(t, EndOf(t, k - 1) + 1, EndOf(t, k) - 1)
  <2>1. Split(t) = [k \in 1 .. N |-> part(k)] BY <1>2, SplitIs
  <2>2. N \in Nat /\ N >= 1 BY <1>2, EndFacts
  <2>3. ASSUME NEW k \in 1 .. N PROVE part(k) \in Line
    <3>1. PICK i \in Int, j \in Int : i = EndOf(t, k - 1) + 1 /\ j = EndOf(t, k) - 1
      BY EndFacts
    <3>2. \A p \in i .. j : t[p] \in LineChars BY <3>1, EndFacts
    <3>3. SubSeq(t, i, j) \in Seq(LineChars) BY <3>2, SubSeqProperties
    <3>. QED BY <3>1, <3>3 DEF Line
  <2>. HIDE DEF N, part
  <2>4. Split(t) \in [1 .. N -> Line] BY <2>1, <2>3
  <2>5. Split(t) \in Seq(Line) /\ Len(Split(t)) = N BY <2>2, <2>4, FunctionIsSeq
  <2>. QED BY <2>2, <2>5
<1>. QED BY <1>1, <1>2

(* Splitting what was serialized gives the lines back. *)
LEMMA RoundTrip ==
  ASSUME NEW ls \in Seq(Line), ls # <<>>
  PROVE  Split(Serialize(ls)) = ls
<1>. DEFINE t == Serialize(ls)
<1>0. PICK e : Laid(t, ls, e) BY SerializeLaid
<1>. HIDE DEF t
<1>1. PICK N \in Nat \ {0} :
        /\ N = Len(ls) /\ t \in Text /\ Len(t) = e[N] /\ e[0] = 0
        /\ \A n \in 0 .. N : e[n] \in Nat
        /\ \A n \in 1 .. N :
             /\ ls[n] \in Line /\ e[n] = e[n - 1] + Len(ls[n]) + 1 /\ t[e[n]] = NL
             /\ \A i \in 1 .. Len(ls[n]) : t[e[n - 1] + i] = ls[n][i]
  <2>1. Len(ls) \in Nat \ {0} BY EmptySeq
  <2>2. \A n \in 1 .. Len(ls) : ls[n] \in Line BY ElementOfSeq
  <2>. QED BY <1>0, <2>1, <2>2 DEF Laid
<1>2. \A n \in 1 .. N : Len(ls[n]) \in Nat /\ \A i \in 1 .. Len(ls[n]) : ls[n][i] \in LineChars
  BY <1>1 DEF Line
<1>3. \A n \in 1 .. N : n \in 0 .. N /\ n - 1 \in 0 .. N OBVIOUS
<1>4. \A n \in 1 .. N : e[n - 1] < e[n] BY <1>1, <1>2, <1>3
<1>5. \A m, n \in 0 .. N : m < n => e[m] < e[n]
  <2>. DEFINE G == {n \in Nat : n <= N => \A m \in 0 .. N : m < n => e[m] < e[n]}
  <2>1. 0 \in G OBVIOUS
  <2>2. ASSUME NEW n \in Nat, n \in G PROVE n + 1 \in G
    <3>. SUFFICES ASSUME n + 1 <= N, NEW m \in 0 .. N, m < n + 1 PROVE e[m] < e[n + 1] OBVIOUS
    <3>1. PICK k \in 1 .. N : k = n + 1 /\ k - 1 = n OBVIOUS
    <3>2. e[n] < e[k] BY <1>4, <3>1
    <3>3. e[m] \in Nat /\ e[n] \in Nat /\ e[k] \in Nat BY <1>1, <1>3, <3>1
    <3>4. m = n \/ e[m] < e[n] BY <2>2
    <3>5. e[m] < e[k] BY <3>2, <3>3, <3>4
    <3>. QED BY <3>1, <3>5
  <2>3. Nat \subseteq G
    <3>. HIDE DEF G
    <3>. QED BY <2>1, <2>2, NatSetInduction
  <2>. QED BY <2>3
<1>6. NL \notin LineChars BY EditorAssumption DEF LineChars, NL, SP, NUL
<1>7. \A x : x \in Ends(t) <=> \E n \in 1 .. N : x = e[n]
  <2>1. N \in 1 .. N /\ e[N] \in Nat BY <1>1
  <2>2. 0 < e[N] BY <1>1, <1>5, <2>1
  <2>3. t # <<>> /\ t[Len(t)] = NL BY <1>1, <2>1, <2>2
  <2>4. \A x : x \in Ends(t) <=> x \in 1 .. e[N] /\ t[x] = NL BY <1>1, <2>3 DEF Ends
  <2>5. ASSUME NEW n \in 1 .. N PROVE e[n] \in Ends(t)
    <3>1. e[n] \in Nat /\ 0 < e[n] /\ e[n] <= e[N] /\ t[e[n]] = NL
      <4>1. e[n] \in Nat /\ t[e[n]] = NL /\ n \in 0 .. N /\ N \in 0 .. N /\ 0 \in 0 .. N
        BY <1>1, <1>3
      <4>2. e[0] < e[n] BY <1>5, <4>1
      <4>3. n = N \/ e[n] < e[N] BY <1>5, <4>1
      <4>. QED BY <1>1, <2>1, <4>1, <4>2, <4>3
    <3>. QED BY <2>1, <2>4, <3>1
  <2>6. ASSUME NEW x, x \in Ends(t) PROVE \E n \in 1 .. N : x = e[n]
    <3>1. x \in Nat /\ 0 < x /\ x <= e[N] /\ t[x] = NL BY <2>1, <2>4, <2>6
    <3>. DEFINE P == {n \in 1 .. N : x <= e[n]}
    <3>2. P \subseteq Nat /\ P # {} BY <2>1, <3>1
    <3>3. PICK n \in P : \A k \in P : n <= k BY <3>2, NatHasLeast
    <3>4. n \in 1 .. N /\ x <= e[n] BY <3>3
    <3>5. e[n - 1] < x /\ e[n - 1] \in Nat /\ e[n] \in Nat
      <4>1. e[n - 1] \in Nat /\ e[n] \in Nat BY <1>1, <1>3, <3>4
      <4>2. CASE n = 1
        <5>1. n - 1 = 0 BY <4>2
        <5>. QED BY <1>1, <3>1, <4>1, <5>1
      <4>3. CASE n # 1
        <5>1. PICK k \in 1 .. N : k = n - 1 BY <3>4, <4>3
        <5>2. k \notin P BY <3>3, <3>4, <5>1
        <5>3. ~(x <= e[k]) BY <5>2
        <5>. QED BY <3>1, <4>1, <5>1, <5>3
      <4>. QED BY <4>2, <4>3
    <3>6. CASE x # e[n]
      <4>1. PICK a \in Nat, l \in Nat : a = e[n - 1] /\ l = Len(ls[n]) BY <1>2, <3>4, <3>5
      <4>2. e[n] = a + l + 1 BY <1>1, <3>4, <4>1
      <4>3. PICK i \in 1 .. l : x = a + i
        <5>1. PICK y \in Nat : y = x BY <3>1
        <5>2. a < y /\ y <= a + l + 1 /\ y # a + l + 1
          BY <3>4, <3>5, <3>6, <4>1, <4>2, <5>1
        <5>3. y - a \in 1 .. l /\ y = a + (y - a) BY <5>2
        <5>. QED BY <5>1, <5>3
      <4>4. t[a + i] = ls[n][i] /\ ls[n][i] \in LineChars BY <1>1, <1>2, <3>4, <4>1
      <4>. QED BY <1>6, <3>1, <4>3, <4>4
    <3>. QED BY <3>4, <3>6
  <2>. QED BY <2>5, <2>6
<1>8. \A k \in 1 .. N : \A x : x \in UpTo(Ends(t), e[k]) <=> \E n \in 1 .. k : x = e[n]
  <2>. SUFFICES ASSUME NEW k \in 1 .. N, NEW x
                PROVE  x \in UpTo(Ends(t), e[k]) <=> \E n \in 1 .. k : x = e[n]
    OBVIOUS
  <2>1. \A n \in 1 .. N : e[n] <= e[k] <=> n <= k
    <3>. SUFFICES ASSUME NEW n \in 1 .. N PROVE e[n] <= e[k] <=> n <= k OBVIOUS
    <3>1. e[n] \in Nat /\ e[k] \in Nat BY <1>1, <1>3
    <3>2. n < k => e[n] < e[k] BY <1>3, <1>5
    <3>3. k < n => e[k] < e[n] BY <1>3, <1>5
    <3>. QED BY <3>1, <3>2, <3>3
  <2>2. \A n \in 1 .. k : n \in 1 .. N OBVIOUS
  <2>3. \A n \in 1 .. N : n <= k => n \in 1 .. k OBVIOUS
  <2>. QED BY <1>7, <2>1, <2>2, <2>3 DEF UpTo
<1>9. \A k \in 1 .. N : IsFiniteSet(UpTo(Ends(t), e[k])) /\ Cardinality(UpTo(Ends(t), e[k])) = k
  <2>. DEFINE U(k) == UpTo(Ends(t), e[k])
              G == {k \in Nat : k + 1 <= N => IsFiniteSet(U(k + 1)) /\ Cardinality(U(k + 1)) = k + 1}
  <2>0. \A k \in 1 .. N : \A x : x \in U(k) <=> \E n \in 1 .. k : x = e[n] BY <1>8
  <2>. HIDE DEF U
  <2>1. 0 \in G
    <3>1. 1 \in 1 .. N /\ \A n : n \in 1 .. 1 <=> n = 1 OBVIOUS
    <3>2. U(1) = {e[1]} BY <2>0, <3>1
    <3>3. IsFiniteSet(U(1)) /\ Cardinality(U(1)) = 1
      <4>1. IsFiniteSet({e[1]}) /\ Cardinality({e[1]}) = 1 BY FS_Singleton, Zenon
      <4>. QED BY <3>2, <4>1, Zenon
    <3>4. 0 + 1 = 1 OBVIOUS
    <3>. QED BY <3>3, <3>4
  <2>2. ASSUME NEW k \in Nat, k \in G PROVE k + 1 \in G
    <3>. SUFFICES ASSUME k + 2 <= N
                  PROVE  IsFiniteSet(U(k + 2)) /\ Cardinality(U(k + 2)) = k + 2
      OBVIOUS
    <3>1. PICK a \in 1 .. N, b \in 1 .. N : a = k + 1 /\ b = k + 2 OBVIOUS
    <3>2. IsFiniteSet(U(a)) /\ Cardinality(U(a)) = a BY <2>2, <3>1
    <3>3. e[b] \notin U(a)
      <4>1. \A n \in 1 .. a : e[n] < e[b] /\ e[n] \in Nat
        <5>1. \A n \in 1 .. a : n \in 0 .. N /\ n < b BY <3>1
        <5>2. b \in 0 .. N BY <3>1
        <5>. QED BY <1>1, <1>5, <5>1, <5>2
      <4>2. e[b] \in Nat BY <1>1, <1>3
      <4>3. \A n \in 1 .. a : e[n] # e[b] BY <4>1, <4>2
      <4>. QED BY <2>0, <4>3
    <3>4. U(b) = U(a) \cup {e[b]}
      <4>1. \A n : n \in 1 .. b <=> n \in 1 .. a \/ n = b BY <3>1
      <4>. QED BY <2>0, <4>1
    <3>5. IsFiniteSet(U(b)) /\ Cardinality(U(b)) = a + 1 BY <3>2, <3>3, <3>4, FS_AddElement
    <3>. QED BY <3>1, <3>5
  <2>3. Nat \subseteq G
    <3>. HIDE DEF G
    <3>. QED BY <2>1, <2>2, NatSetInduction
  <2>4. ASSUME NEW k \in 1 .. N PROVE IsFiniteSet(U(k)) /\ Cardinality(U(k)) = k
    <3>1. PICK j \in Nat : j + 1 = k /\ j + 1 <= N
      <4>1. k - 1 \in Nat /\ (k - 1) + 1 = k OBVIOUS
      <4>. QED BY <4>1
    <3>2. j \in G BY <2>3
    <3>. QED BY <3>1, <3>2
  <2>. QED BY <2>4 DEF U
<1>10. Cardinality(Ends(t)) = N
  <2>1. N \in 1 .. N OBVIOUS
  <2>2. Ends(t) = UpTo(Ends(t), e[N]) BY <1>7, <1>8, <2>1
  <2>. QED BY <1>9, <2>1, <2>2
<1>11. \A k \in 0 .. N : EndOf(t, k) = e[k]
  <2>1. EndOf(t, 0) = e[0] BY <1>1 DEF EndOf
  <2>2. ASSUME NEW k \in 1 .. N PROVE EndOf(t, k) = e[k]
    <3>1. e[k] \in Ends(t) /\ Cardinality(UpTo(Ends(t), e[k])) = k BY <1>7, <1>9
    <3>. QED BY <1>1, <1>10, <3>1, EndFacts
  <2>. QED BY <2>1, <2>2
<1>12. Split(t) = [k \in 1 .. N |-> SubSeq(t, e[k - 1] + 1, e[k] - 1)]
  <2>1. 1 \in 1 .. N OBVIOUS
  <2>2. Ends(t) # {} BY <1>7, <2>1
  <2>3. \A k \in 1 .. N : EndOf(t, k - 1) = e[k - 1] /\ EndOf(t, k) = e[k] BY <1>3, <1>11
  <2>. QED BY <1>10, <2>2, <2>3, SplitIs
<1>13. ASSUME NEW k \in 1 .. N PROVE SubSeq(t, e[k - 1] + 1, e[k] - 1) = ls[k]
  <2>1. PICK a \in Nat, b \in Nat, l \in Line :
          a = e[k - 1] /\ b = e[k] /\ l = ls[k]
    BY <1>1, <1>3
  <2>2. /\ Len(l) \in Nat /\ b = a + Len(l) + 1
        /\ \A i \in 1 .. Len(l) : t[a + i] = l[i] /\ l[i] \in LineChars
    BY <1>1, <1>2, <2>1
  <2>3. \A p \in a + 1 .. b - 1 : t[p] \in LineChars
    <3>. SUFFICES ASSUME NEW p \in a + 1 .. b - 1 PROVE t[p] \in LineChars OBVIOUS
    <3>1. p - a \in 1 .. Len(l) /\ a + (p - a) = p BY <2>2
    <3>. QED BY <2>2, <3>1
  <2>4. a + 1 \in Int /\ b - 1 \in Int OBVIOUS
  <2>5. PICK u : u = SubSeq(t, a + 1, b - 1) OBVIOUS
  <2>6. /\ u \in Line /\ Len(u) = IF a + 1 <= b - 1 THEN (b - 1) - (a + 1) + 1 ELSE 0
        /\ \A i \in 1 .. (b - 1) - (a + 1) + 1 : u[i] = t[(a + 1) + i - 1]
    BY <2>3, <2>4, <2>5, SubSeqProperties DEF Line
  <2>7. Len(u) = Len(l) /\ (b - 1) - (a + 1) + 1 = Len(l) BY <2>2, <2>6
  <2>8. \A i \in 1 .. Len(l) : u[i] = l[i]
    <3>. SUFFICES ASSUME NEW i \in 1 .. Len(l) PROVE u[i] = l[i] OBVIOUS
    <3>1. (a + 1) + i - 1 = a + i BY <2>2
    <3>. QED BY <2>2, <2>6, <2>7, <3>1
  <2>9. u = l BY <2>6, <2>7, <2>8, SeqEqual DEF Line
  <2>. QED BY <2>1, <2>5, <2>9
<1>14. Split(t) = [k \in 1 .. N |-> ls[k]] BY <1>12, <1>13
<1>15. ls = [k \in 1 .. N |-> ls[k]] BY <1>1, LenProperties
<1>. QED BY <1>14, <1>15 DEF t

-----------------------------------------------------------------------------
(* The operations on an EditorState *)

Snap == [text : Text, cx : Nat, cy : Nat]

(* EditorStates whose cursor is in C: a key may leave it outside the text, *)
(* before the clamp even below 0.                                          *)
Ed(C) == [lines : Seq(Line), lines_cap : Nat, cx : C, cy : C, dirty : BOOLEAN,
          quit_confirm : {0, 1}, undo : Seq(Snap)]

Room(e) == Len(e.lines) >= 1 /\ Len(e.lines) <= e.lines_cap

Inside(e) == /\ e.cy <= Len(e.lines)
             /\ e.cx <= IF e.cy = Len(e.lines) THEN 0 ELSE Len(e.lines[e.cy + 1])

(* Growing the array of lines makes room for n. *)
LEMMA GrowFits ==
  ASSUME NEW cap \in Nat, NEW n \in Nat
  PROVE  Grow(cap, n) \in Nat /\ n <= Grow(cap, n)
<1>0. PICK s \in Nat \ {0} : s = LineStep BY EditorAssumption
<1>1. CASE n <= cap BY <1>1 DEF Grow
<1>2. CASE ~(n <= cap)
  <2>. DEFINE a == n - cap + s - 1
  <2>1. a \in Nat BY <1>2
  <2>2. Grow(cap, n) = cap + s * (a \div s) BY <1>0, <1>2 DEF Grow
  <2>3. PICK q \in Nat, r \in 0 .. s - 1 : q = a \div s /\ a = s * q + r
    <3>1. a \div s \in Nat /\ a % s \in 0 .. s - 1 /\ a = s * (a \div s) + (a % s)
      <4>. HIDE DEF a
      <4>. QED BY <2>1
    <3>. QED BY <3>1
  <2>4. PICK p \in Nat : p = s * q OBVIOUS
  <2>5. p + r = n - cap + s - 1 BY <2>3, <2>4
  <2>6. n <= cap + p BY <2>5
  <2>. QED BY <2>2, <2>3, <2>4, <2>6
<1>. QED BY <1>1, <1>2

(* A piece of a sequence. *)
LEMMA Piece ==
  ASSUME NEW S, NEW s \in Seq(S), NEW i \in Nat \ {0}, NEW j \in Nat, j <= Len(s), i <= j + 1
  PROVE  /\ SubSeq(s, i, j) \in Seq(S) /\ Len(SubSeq(s, i, j)) = j + 1 - i
         /\ \A k \in 1 .. j + 1 - i : SubSeq(s, i, j)[k] = s[k + i - 1]
<1>0. Len(s) \in Nat /\ \A k \in 1 .. Len(s) : s[k] \in S BY ElementOfSeq
<1>1. \A k \in i .. j : k \in 1 .. Len(s) BY <1>0
<1>2. \A k \in i .. j : s[k] \in S BY <1>0, <1>1
<1>3. i \in Int /\ j \in Int OBVIOUS
<1>4. PICK u : u = SubSeq(s, i, j) OBVIOUS
<1>5. /\ u \in Seq(S) /\ Len(u) = IF i <= j THEN j - i + 1 ELSE 0
      /\ \A k \in 1 .. j - i + 1 : u[k] = s[i + k - 1]
  BY <1>2, <1>3, <1>4, SubSeqProperties
<1>6. Len(u) = j + 1 - i BY <1>5
<1>7. \A k \in 1 .. j + 1 - i : k \in 1 .. j - i + 1 /\ i + k - 1 = k + i - 1 OBVIOUS
<1>8. \A k \in 1 .. j + 1 - i : u[k] = s[k + i - 1]
  <2>. SUFFICES ASSUME NEW k \in 1 .. j + 1 - i PROVE u[k] = s[k + i - 1] OBVIOUS
  <2>1. u[k] = s[i + k - 1] BY <1>5, <1>7
  <2>. QED BY <1>7, <2>1
<1>. QED BY <1>4, <1>5, <1>6, <1>8

(* Its beginning. *)
LEMMA Front ==
  ASSUME NEW S, NEW s \in Seq(S), NEW j \in Nat, j <= Len(s)
  PROVE  SubSeq(s, 1, j) \in Seq(S) /\ Len(SubSeq(s, 1, j)) = j
<1>1. 1 \in Nat \ {0} /\ 1 <= j + 1 /\ j + 1 - 1 = j OBVIOUS
<1>. QED BY <1>1, Piece

(* Its end. *)
LEMMA Back ==
  ASSUME NEW S, NEW s \in Seq(S), NEW i \in Nat, i >= 1, i <= Len(s) + 1
  PROVE  SubSeq(s, i, Len(s)) \in Seq(S) /\ Len(SubSeq(s, i, Len(s))) = Len(s) + 1 - i
<1>1. i \in Nat \ {0} /\ Len(s) \in Nat /\ Len(s) <= Len(s) OBVIOUS
<1>. QED BY <1>1, Piece

(* Three pieces put together. *)
LEMMA Three ==
  ASSUME NEW S, NEW a \in Seq(S), NEW b \in Seq(S), NEW c \in Seq(S)
  PROVE  a \o b \o c \in Seq(S) /\ Len(a \o b \o c) = Len(a) + Len(b) + Len(c)
<1>1. PICK u \in Seq(S) : u = a \o b /\ Len(u) = Len(a) + Len(b) BY ConcatProperties
<1>2. u \o c \in Seq(S) /\ Len(u \o c) = Len(u) + Len(c) BY ConcatProperties
<1>. QED BY <1>1, <1>2

(* line_insert_char and line_delete_char inside a line. *)
LEMMA LineOps ==
  ASSUME NEW A, NEW l \in Seq(A), NEW at \in Nat, at <= Len(l), NEW c \in A
  PROVE  /\ line_insert_char(l, at, c) \in Seq(A) /\ Len(line_insert_char(l, at, c)) = Len(l) + 1
         /\ at < Len(l) => line_delete_char(l, at) \in Seq(A)
<1>0. Len(l) \in Nat OBVIOUS
<1>1. PICK a \in Seq(A) : a = SubSeq(l, 1, at) /\ Len(a) = at
  <2>1. SubSeq(l, 1, at) \in Seq(A) /\ Len(SubSeq(l, 1, at)) = at BY Front
  <2>. QED BY <2>1
<1>2. PICK b \in Seq(A) : b = SubSeq(l, at + 1, Len(l)) /\ Len(b) = Len(l) - at
  <2>1. PICK i \in Nat : i = at + 1 /\ i >= 1 /\ i <= Len(l) + 1 BY <1>0
  <2>2. SubSeq(l, i, Len(l)) \in Seq(A) /\ Len(SubSeq(l, i, Len(l))) = Len(l) + 1 - i
    BY <2>1, Back
  <2>3. Len(l) + 1 - i = Len(l) - at BY <1>0, <2>1
  <2>. QED BY <2>1, <2>2, <2>3
<1>3. PICK m \in Seq(A) : m = <<c>> /\ Len(m) = 1
  <2>1. <<c>> \in Seq(A) /\ Len(<<c>>) = 1 OBVIOUS
  <2>. QED BY <2>1
<1>4. a \o m \o b \in Seq(A) /\ Len(a \o m \o b) = Len(a) + Len(m) + Len(b) BY Three
<1>5. Len(a \o m \o b) = Len(l) + 1
  <2>1. PICK n \in Nat : n = Len(l) BY <1>0
  <2>2. Len(a) + Len(m) + Len(b) = at + 1 + (n - at) BY <1>1, <1>2, <1>3, <2>1, Zenon
  <2>3. at + 1 + (n - at) = n + 1 OBVIOUS
  <2>. QED BY <1>4, <2>1, <2>2, <2>3, Zenon
<1>6. ASSUME at < Len(l) PROVE line_delete_char(l, at) \in Seq(A)
  <2>1. PICK i \in Nat : i = at + 2 /\ i >= 1 /\ i <= Len(l) + 1 BY <1>0, <1>6
  <2>2. PICK d \in Seq(A) : d = SubSeq(l, at + 2, Len(l))
    <3>1. SubSeq(l, i, Len(l)) \in Seq(A) BY <2>1, Back
    <3>. QED BY <2>1, <3>1
  <2>3. a \o d \in Seq(A) BY ConcatProperties
  <2>. QED BY <1>1, <2>2, <2>3 DEF line_delete_char
<1>7. line_insert_char(l, at, c) = a \o m \o b BY <1>1, <1>2, <1>3 DEF line_insert_char
<1>. QED BY <1>4, <1>5, <1>6, <1>7

(* The indentation ends somewhere in the line. *)
LEMMA IndentFacts ==
  ASSUME NEW l \in Line
  PROVE  line_indent_len(l) \in 0 .. Len(l)
<1>0. Len(l) \in Nat BY DEF Line
<1>. DEFINE S == {n \in 0 .. Len(l) : n < Len(l) => l[n + 1] # SP}
<1>1. Len(l) \in S /\ S \subseteq Nat BY <1>0
<1>2. PICK n \in S : \A k \in S : n <= k BY <1>1, NatHasLeast
<1>3. ASSUME NEW i \in 1 .. n PROVE l[i] = SP
  <2>1. PICK k \in Nat : k = i - 1 /\ k + 1 = i /\ k \in 0 .. Len(l) /\ k < n BY <1>0, <1>2
  <2>2. k \notin S BY <1>2, <2>1
  <2>. QED BY <2>1, <2>2
<1>4. n \in 0 .. Len(l) /\ (n < Len(l) => l[n + 1] # SP) BY <1>2
<1>5. \E m \in 0 .. Len(l) : (\A i \in 1 .. m : l[i] = SP) /\ (m < Len(l) => l[m + 1] # SP)
  BY <1>3, <1>4
<1>. QED BY <1>5, Zenon DEF line_indent_len

(* What strstr sees of a line is a beginning of it. *)
LEMMA CStrFacts ==
  ASSUME NEW l \in Line
  PROVE  CStr(l) \in Line /\ Len(CStr(l)) <= Len(l)
<1>0. Len(l) \in Nat BY DEF Line
<1>. DEFINE P(n) == (\A i \in 1 .. n : l[i] # NUL) /\ (n < Len(l) => l[n + 1] = NUL)
            S == {n \in 0 .. Len(l) : n < Len(l) => l[n + 1] = NUL}
<1>1. Len(l) \in S /\ S \subseteq Nat BY <1>0
<1>2. PICK n \in S : \A k \in S : n <= k BY <1>1, NatHasLeast
<1>3. ASSUME NEW i \in 1 .. n PROVE l[i] # NUL
  <2>1. PICK k \in Nat : k = i - 1 /\ k + 1 = i /\ k \in 0 .. Len(l) /\ k < n BY <1>0, <1>2
  <2>2. k \notin S BY <1>2, <2>1
  <2>. QED BY <2>1, <2>2
<1>4. n \in 0 .. Len(l) /\ (n < Len(l) => l[n + 1] = NUL) BY <1>2
<1>5. \E m \in 0 .. Len(l) : P(m) BY <1>3, <1>4
<1>6. PICK m \in 0 .. Len(l) : m = CHOOSE x \in 0 .. Len(l) : P(x)
  <2>. HIDE DEF P
  <2>. QED BY <1>5, Zenon
<1>7. CStr(l) = SubSeq(l, 1, m) BY <1>6 DEF CStr
<1>8. m \in Nat /\ m <= Len(l) BY <1>0
<1>9. SubSeq(l, 1, m) \in Seq(LineChars) /\ Len(SubSeq(l, 1, m)) = m + 1 - 1
  BY <1>8, Piece DEF Line
<1>10. m + 1 - 1 = m BY <1>8
<1>. QED BY <1>7, <1>8, <1>9, <1>10 DEF Line

(* An operation of a key from e to r: a well-formed text with room for its *)
(* lines, the undo stack untouched, and dirty set if anything changed.     *)
EditOf(e, r) ==
  /\ r \in Ed(Nat) /\ Room(r) /\ r.undo = e.undo
  /\ r.dirty \/ (r.lines = e.lines /\ r.dirty = e.dirty)

(* editor_append_line with an empty line. *)
LEMMA AppendLine ==
  ASSUME NEW e \in Ed(Nat)
  PROVE  LET r == editor_append_line(e, <<>>)
         IN  /\ r \in Ed(Nat) /\ Room(r) /\ r.undo = e.undo
             /\ r.cx = e.cx /\ r.cy = e.cy /\ r.lines = Append(e.lines, <<>>)
             /\ Len(r.lines) = Len(e.lines) + 1 /\ r.lines[Len(e.lines) + 1] = <<>>
<1>. DEFINE ls == Append(e.lines, <<>>)
            cap == Grow(e.lines_cap, Len(e.lines) + 1)
            r == editor_append_line(e, <<>>)
<1>0. e.lines \in Seq(Line) /\ Len(e.lines) \in Nat /\ e.lines_cap \in Nat BY DEF Ed
<1>1. <<>> \in Line BY DEF Line
<1>2. ls \in Seq(Line) /\ Len(ls) = Len(e.lines) + 1 /\ ls[Len(e.lines) + 1] = <<>>
  BY <1>0, <1>1, AppendProperties
<1>3. cap \in Nat /\ Len(e.lines) + 1 <= cap
  <2>1. PICK n \in Nat : n = Len(e.lines) + 1 BY <1>0
  <2>. QED BY <1>0, <2>1, GrowFits
<1>4. r = [e EXCEPT !.lines = ls, !.lines_cap = cap] BY DEF editor_append_line, nlines
<1>. HIDE DEF ls, cap, r
<1>5. /\ r \in Ed(Nat) /\ r.lines = ls /\ r.lines_cap = cap
      /\ r.undo = e.undo /\ r.cx = e.cx /\ r.cy = e.cy
  BY <1>2, <1>3, <1>4 DEF Ed
<1>6. Room(r) BY <1>0, <1>2, <1>3, <1>5 DEF Room
<1>. QED BY <1>2, <1>5, <1>6 DEF r, ls

(* The lines a character or a tab goes into: past the last line, a new one *)
(* is made for it.                                                         *)
Filled(e) == IF Phantom(e) THEN Append(e.lines, <<>>) ELSE e.lines

(* editor_insert_char moves the cursor with the text. *)
LEMMA InsertChar ==
  ASSUME NEW e \in Ed(Nat), Room(e), Inside(e), NEW c \in LineChars
  PROVE  LET r == editor_insert_char(e, c)
         IN  /\ r \in Ed(Nat) /\ Room(r) /\ Inside(r) /\ r.undo = e.undo /\ r.dirty
             /\ Filled(e) \in Seq(Line) /\ e.cy + 1 \in 1 .. Len(Filled(e))
             /\ e.cx <= Len(Filled(e)[e.cy + 1])
             /\ r.lines = [Filled(e) EXCEPT ![e.cy + 1] = line_insert_char(@, e.cx, c)]
             /\ r.cx = e.cx + 1 /\ r.cy = e.cy
<1>. DEFINE f == IF Phantom(e) THEN editor_append_line(e, <<>>) ELSE e
            r == editor_insert_char(e, c)
<1>0. e.cx \in Nat /\ e.cy \in Nat /\ Len(e.lines) \in Nat BY DEF Ed
<1>1. /\ f \in Ed(Nat) /\ Room(f) /\ f.undo = e.undo /\ f.cx = e.cx /\ f.cy = e.cy
      /\ f.lines = Filled(e)
      /\ e.cy + 1 \in 1 .. Len(f.lines) /\ e.cx <= Len(f.lines[e.cy + 1])
  <2>1. CASE Phantom(e)
    <3>1. f = editor_append_line(e, <<>>) /\ e.cy = Len(e.lines) BY <2>1 DEF Phantom, nlines
    <3>2. /\ f \in Ed(Nat) /\ Room(f) /\ f.undo = e.undo /\ f.cx = e.cx /\ f.cy = e.cy
          /\ f.lines = Append(e.lines, <<>>)
          /\ Len(f.lines) = Len(e.lines) + 1 /\ f.lines[Len(e.lines) + 1] = <<>>
      BY <3>1, AppendLine
    <3>3. e.cx = 0 BY <1>0, <3>1 DEF Inside
    <3>4. e.cy + 1 \in 1 .. Len(f.lines) BY <1>0, <3>1, <3>2
    <3>5. Len(f.lines[e.cy + 1]) = 0
      <4>1. f.lines[e.cy + 1] = <<>> BY <3>1, <3>2
      <4>. QED BY <4>1
    <3>6. e.cx <= Len(f.lines[e.cy + 1]) BY <3>3, <3>5
    <3>. QED BY <2>1, <3>2, <3>4, <3>6 DEF Filled
  <2>2. CASE ~Phantom(e)
    <3>1. f = e /\ e.cy # Len(e.lines) BY <2>2 DEF Phantom, nlines
    <3>2. e.cy + 1 \in 1 .. Len(e.lines) /\ e.cx <= Len(e.lines[e.cy + 1])
      BY <1>0, <3>1 DEF Inside
    <3>. QED BY <2>2, <3>1, <3>2 DEF Filled
  <2>. QED BY <2>1, <2>2
<1>. HIDE DEF f
<1>2. PICK L \in Seq(Line), k \in Nat : L = f.lines /\ k = e.cy + 1 /\ k \in 1 .. Len(L)
  BY <1>0, <1>1 DEF Ed
<1>3. L[k] \in Line /\ e.cx <= Len(L[k]) BY <1>1, <1>2, ElementOfSeq
<1>4. PICK n \in Line : n = line_insert_char(L[k], e.cx, c) /\ Len(n) = Len(L[k]) + 1
  BY <1>0, <1>3, LineOps DEF Line
<1>5. PICK M : M = [L EXCEPT ![k] = n] OBVIOUS
<1>6. M \in Seq(Line) /\ Len(M) = Len(L) /\ M[k] = n BY <1>2, <1>5, ExceptSeq
<1>7. r = [f EXCEPT !.lines = M, !.cx = f.cx + 1, !.dirty = TRUE]
  <2>1. r = [f EXCEPT !.lines[e.cy + 1] = line_insert_char(@, e.cx, c),
                      !.cx = @ + 1, !.dirty = TRUE]
    BY DEF f, editor_insert_char
  <2>2. [f.lines EXCEPT ![e.cy + 1] = line_insert_char(f.lines[e.cy + 1], e.cx, c)] = M
    BY <1>2, <1>4, <1>5
  <2>. QED BY <1>1, <2>1, <2>2 DEF Ed
<1>. HIDE DEF r
<1>8. f.cx + 1 \in Nat BY <1>0, <1>1
<1>9. /\ r \in Ed(Nat) /\ r.lines = M /\ r.cx = e.cx + 1 /\ r.cy = e.cy
      /\ r.dirty = TRUE /\ r.undo = e.undo /\ r.lines_cap = f.lines_cap
  BY <1>1, <1>6, <1>7, <1>8 DEF Ed
<1>10. Room(r) BY <1>1, <1>2, <1>6, <1>9 DEF Room
<1>11. Inside(r)
  <2>1. PICK w \in Nat : w = Len(L[k]) BY <1>3 DEF Line
  <2>2. r.cy + 1 = k /\ r.cy # Len(r.lines) /\ r.cy <= Len(r.lines)
    BY <1>0, <1>1, <1>2, <1>6, <1>9
  <2>3. Len(r.lines[r.cy + 1]) = w + 1 BY <1>4, <1>6, <1>9, <2>1, <2>2
  <2>4. r.cx <= w + 1 BY <1>0, <1>3, <1>9, <2>1
  <2>. QED BY <2>2, <2>3, <2>4 DEF Inside
<1>12. M = [Filled(e) EXCEPT ![e.cy + 1] = line_insert_char(@, e.cx, c)]
  <2>1. L = Filled(e) BY <1>1, <1>2
  <2>. QED BY <1>2, <1>4, <1>5, <2>1
<1>. QED BY <1>1, <1>2, <1>9, <1>10, <1>11, <1>12 DEF r

(* Tab: the loop that inserts TabSize spaces. *)
Spaces(e, f, N) ==
  f = [n \in 0 .. N |-> IF n = 0 THEN e ELSE editor_insert_char(f[n - 1], SP)]

(* The recursion of InsertTab has a solution. *)
LEMMA SpacesExist ==
  ASSUME NEW e
  PROVE  \E f : Spaces(e, f, TabSize)
<1>. DEFINE G == {N \in Nat : \E f : Spaces(e, f, N)}
<1>1. 0 \in G
  <2>1. Spaces(e, [n \in 0 .. 0 |-> e], 0) BY DEF Spaces
  <2>. QED BY <2>1
<1>2. ASSUME NEW N \in Nat, N \in G PROVE N + 1 \in G
  <2>1. PICK f : Spaces(e, f, N) BY <1>2
  <2>. DEFINE g == [n \in 0 .. N + 1 |->
                      IF n = N + 1 THEN editor_insert_char(f[N], SP) ELSE f[n]]
  <2>2. \A n \in 0 .. N : g[n] = f[n] OBVIOUS
  <2>3. \A n \in 0 .. N + 1 :
          g[n] = IF n = 0 THEN e ELSE editor_insert_char(g[n - 1], SP)
    <3>. SUFFICES ASSUME NEW n \in 0 .. N + 1
                  PROVE  g[n] = IF n = 0 THEN e ELSE editor_insert_char(g[n - 1], SP)
      OBVIOUS
    <3>1. CASE n = N + 1 BY <2>2, <3>1
    <3>2. CASE n # N + 1
      <4>1. n \in 0 .. N /\ g[n] = f[n] BY <2>2, <3>2
      <4>2. f[n] = IF n = 0 THEN e ELSE editor_insert_char(f[n - 1], SP)
        BY <2>1, <4>1 DEF Spaces
      <4>3. n # 0 => g[n - 1] = f[n - 1] BY <2>2, <4>1
      <4>. QED BY <4>1, <4>2, <4>3
    <3>. QED BY <3>1, <3>2
  <2>4. g = [n \in 0 .. N + 1 |-> g[n]] OBVIOUS
  <2>. HIDE DEF g
  <2>5. Spaces(e, g, N + 1) BY <2>3, <2>4 DEF Spaces
  <2>. QED BY <2>5
<1>3. Nat \subseteq G
  <2>. HIDE DEF G
  <2>. QED BY <1>1, <1>2, NatSetInduction
<1>4. TabSize \in G BY <1>3, EditorAssumption
<1>. QED BY <1>4

(* Tab is its last step. *)
LEMMA TabIs ==
  ASSUME NEW e
  PROVE  \E f : Spaces(e, f, TabSize) /\ InsertTab(e) = f[TabSize]
<1>. DEFINE g == CHOOSE h : Spaces(e, h, TabSize)
<1>1. Spaces(e, g, TabSize) BY SpacesExist
<1>2. InsertTab(e) = g[TabSize] BY DEF InsertTab, Spaces
<1>. QED BY <1>1, <1>2

(* Tab moves the cursor with each of its spaces. *)
LEMMA TabFacts ==
  ASSUME NEW e \in Ed(Nat), Room(e), Inside(e)
  PROVE  EditOf(e, InsertTab(e))
<1>1. PICK f : Spaces(e, f, TabSize) /\ InsertTab(e) = f[TabSize] BY TabIs
<1>2. TabSize \in Nat \ {0} BY EditorAssumption
<1>. DEFINE OK(r) == r \in Ed(Nat) /\ Room(r) /\ Inside(r) /\ r.undo = e.undo
            G == {n \in Nat : n <= TabSize => OK(f[n]) /\ (n # 0 => f[n].dirty)}
<1>3. 0 \in G
  <2>1. f[0] = e BY <1>1, <1>2 DEF Spaces
  <2>. QED BY <2>1
<1>4. ASSUME NEW n \in Nat, n \in G PROVE n + 1 \in G
  <2>. SUFFICES ASSUME n + 1 <= TabSize PROVE OK(f[n + 1]) /\ f[n + 1].dirty OBVIOUS
  <2>1. f[n + 1] = editor_insert_char(f[n], SP)
    <3>1. n + 1 \in 0 .. TabSize /\ n + 1 # 0 /\ (n + 1) - 1 = n BY <1>2
    <3>. QED BY <1>1, <3>1 DEF Spaces
  <2>2. OK(f[n]) BY <1>2, <1>4
  <2>3. SP \in LineChars BY DEF LineChars
  <2>4. PICK x, y : x = f[n] /\ y = editor_insert_char(x, SP) OBVIOUS
  <2>5. x \in Ed(Nat) /\ Room(x) /\ Inside(x) /\ x.undo = e.undo BY <2>2, <2>4
  <2>6. y \in Ed(Nat) /\ Room(y) /\ Inside(y) /\ y.undo = x.undo /\ y.dirty
    BY <2>3, <2>4, <2>5, InsertChar
  <2>. QED BY <2>1, <2>4, <2>5, <2>6
<1>5. Nat \subseteq G
  <2>. HIDE DEF G
  <2>. QED BY <1>3, <1>4, NatSetInduction
<1>6. OK(f[TabSize]) /\ f[TabSize].dirty BY <1>2, <1>5
<1>. QED BY <1>1, <1>6 DEF EditOf

(* Putting other lines into an EditorState. *)
LEMMA SetLinesFacts ==
  ASSUME NEW e \in Ed(Nat), NEW ls \in Seq(Line), Len(ls) >= 1
  PROVE  LET r == SetLines(e, ls)
         IN  /\ r \in Ed(Nat) /\ Room(r) /\ r.lines = ls /\ r.undo = e.undo
             /\ r.cx = e.cx /\ r.cy = e.cy /\ r.dirty = e.dirty
<1>. DEFINE cap == Grow(e.lines_cap, Len(ls))
            r == SetLines(e, ls)
<1>1. cap \in Nat /\ Len(ls) <= cap
  <2>1. e.lines_cap \in Nat /\ Len(ls) \in Nat BY DEF Ed
  <2>. QED BY <2>1, GrowFits
<1>2. r = [e EXCEPT !.lines = ls, !.lines_cap = cap] BY DEF SetLines
<1>. HIDE DEF cap, r
<1>3. /\ r \in Ed(Nat) /\ r.lines = ls /\ r.lines_cap = cap /\ r.undo = e.undo
      /\ r.cx = e.cx /\ r.cy = e.cy /\ r.dirty = e.dirty
  BY <1>1, <1>2 DEF Ed
<1>. QED BY <1>1, <1>3 DEF Room, r

(* The line under the cursor. *)
LEMMA CurFacts ==
  ASSUME NEW e \in Ed(Nat), Inside(e), ~Phantom(e)
  PROVE  /\ e.cy < Len(e.lines) /\ e.cy + 1 \in 1 .. Len(e.lines)
         /\ Cur(e) \in Line /\ e.cx <= Len(Cur(e))
<1>1. e.cy \in Nat /\ Len(e.lines) \in Nat /\ e.lines \in Seq(Line) BY DEF Ed
<1>2. e.cy < Len(e.lines) /\ e.cx <= Len(e.lines[e.cy + 1])
  BY <1>1 DEF Inside, Phantom, nlines
<1>3. e.cy + 1 \in 1 .. Len(e.lines) BY <1>1, <1>2
<1>. QED BY <1>1, <1>2, <1>3, ElementOfSeq DEF Cur

Indent(l) == SubSeq(l, 1, line_indent_len(l))

(* The lines after Enter, and their beginnings and ends. *)
Broken(e, first) ==
  SubSeq(e.lines, 1, e.cy)
    \o <<first, Indent(Cur(e)) \o SubSeq(Cur(e), e.cx + 1, Len(Cur(e)))>>
    \o SubSeq(e.lines, e.cy + 2, Len(e.lines))

(* Enter inside the text, whatever becomes of the current line. *)
LEMMA NewLineFacts ==
  ASSUME NEW e \in Ed(Nat), Room(e), Inside(e), ~Phantom(e), NEW first \in Line
  PROVE  LET r == NewLine(e, first)
         IN  /\ EditOf(e, r) /\ r.lines = Broken(e, first)
             /\ r.cx = Len(Indent(Cur(e))) /\ r.cy = e.cy + 1
<1>. DEFINE l == Cur(e)
            indent == SubSeq(l, 1, line_indent_len(l))
            rest == SubSeq(l, e.cx + 1, Len(l))
            head == SubSeq(e.lines, 1, e.cy)
            tail == SubSeq(e.lines, e.cy + 2, Len(e.lines))
            ls == head \o <<first, indent \o rest>> \o tail
            r == NewLine(e, first)
<1>0. /\ e.cx \in Nat /\ e.cy \in Nat /\ e.lines \in Seq(Line) /\ Len(e.lines) \in Nat
      /\ l \in Line /\ Len(l) \in Nat /\ e.cx <= Len(l) /\ e.cy < Len(e.lines)
  BY CurFacts DEF Ed, Line
<1>1. indent \in Line /\ Len(indent) \in Nat
  <2>1. PICK n \in Nat : n = line_indent_len(l) /\ n <= Len(l) BY <1>0, IndentFacts
  <2>2. SubSeq(l, 1, n) \in Line /\ Len(SubSeq(l, 1, n)) = n BY <1>0, <2>1, Front DEF Line
  <2>. QED BY <2>1, <2>2
<1>2. rest \in Line
  <2>1. PICK i \in Nat : i = e.cx + 1 /\ i >= 1 /\ i <= Len(l) + 1 BY <1>0
  <2>2. SubSeq(l, i, Len(l)) \in Line BY <1>0, <2>1, Back DEF Line
  <2>. QED BY <2>1, <2>2
<1>3. PICK m \in Line : m = indent \o rest BY <1>1, <1>2, ConcatProperties DEF Line
<1>4. head \in Seq(Line) /\ Len(head) = e.cy BY <1>0, Front
<1>5. tail \in Seq(Line)
  <2>1. PICK i \in Nat : i = e.cy + 2 /\ i >= 1 /\ i <= Len(e.lines) + 1 BY <1>0
  <2>2. SubSeq(e.lines, i, Len(e.lines)) \in Seq(Line) BY <1>0, <2>1, Back
  <2>. QED BY <2>1, <2>2
<1>6. PICK mid \in Seq(Line) : mid = <<first, indent \o rest>> /\ Len(mid) = 2
  <2>1. <<first, m>> \in Seq(Line) /\ Len(<<first, m>>) = 2 OBVIOUS
  <2>. QED BY <1>3, <2>1
<1>7. r = [SetLines(e, ls) EXCEPT !.cy = @ + 1, !.cx = Len(indent), !.dirty = TRUE]
  BY DEF NewLine, nlines
<1>b. ls = Broken(e, first) /\ indent = Indent(Cur(e)) BY DEF Broken, Indent
<1>. HIDE DEF indent, rest, head, tail, l, r
<1>8. ls \in Seq(Line) /\ Len(ls) >= 1
  <2>1. ls = head \o mid \o tail BY <1>6
  <2>. HIDE DEF ls
  <2>2. /\ head \o mid \o tail \in Seq(Line)
        /\ Len(head \o mid \o tail) = Len(head) + Len(mid) + Len(tail)
    <3>1. PICK h \in Seq(Line), t \in Seq(Line) : h = head /\ t = tail BY <1>4, <1>5
    <3>2. h \o mid \o t \in Seq(Line) /\ Len(h \o mid \o t) = Len(h) + Len(mid) + Len(t)
      BY Three
    <3>. QED BY <3>1, <3>2, Zenon
  <2>3. Len(tail) \in Nat BY <1>5
  <2>. QED BY <1>0, <1>4, <1>6, <2>1, <2>2, <2>3
<1>. HIDE DEF ls
<1>9. PICK s \in Ed(Nat) : /\ s = SetLines(e, ls) /\ Room(s) /\ s.undo = e.undo
                           /\ s.lines = ls /\ s.cy = e.cy
  BY <1>8, SetLinesFacts
<1>10. s.cy + 1 \in Nat BY <1>9 DEF Ed
<1>11. /\ r \in Ed(Nat) /\ r.lines = s.lines /\ r.lines_cap = s.lines_cap
       /\ r.undo = s.undo /\ r.dirty /\ r.cx = Len(indent) /\ r.cy = s.cy + 1
  BY <1>1, <1>7, <1>9, <1>10 DEF Ed
<1>. QED BY <1>b, <1>9, <1>11 DEF EditOf, Room, r

(* Enter. *)
LEMMA EnterFacts ==
  ASSUME NEW e \in Ed(Nat), Room(e), Inside(e)
  PROVE  EditOf(e, editor_insert_newline(e))
<1>1. CASE Phantom(e)
  <2>1. PICK s \in Ed(Nat) : s = editor_append_line(e, <<>>) /\ Room(s) /\ s.undo = e.undo
    BY AppendLine
  <2>2. PICK r : r = editor_insert_newline(e) OBVIOUS
  <2>3. r = [s EXCEPT !.cy = @ + 1, !.cx = 0, !.dirty = TRUE]
    BY <1>1, <2>1, <2>2 DEF editor_insert_newline
  <2>4. s.cy + 1 \in Nat BY <2>1 DEF Ed
  <2>5. /\ r \in Ed(Nat) /\ r.lines = s.lines /\ r.lines_cap = s.lines_cap
        /\ r.undo = s.undo /\ r.dirty
    BY <2>1, <2>3, <2>4 DEF Ed
  <2>. QED BY <2>1, <2>2, <2>5 DEF EditOf, Room
<1>2. CASE ~Phantom(e)
  <2>1. Cur(e) \in Line /\ e.cx <= Len(Cur(e)) /\ e.cx \in Nat BY <1>2, CurFacts DEF Ed
  <2>2. SubSeq(Cur(e), 1, e.cx) \in Line BY <2>1, Front DEF Line
  <2>. QED BY <1>2, <2>2, NewLineFacts DEF editor_insert_newline
<1>. QED BY <1>1, <1>2

(* Enter through the stale pointer. *)
LEMMA StaleFacts ==
  ASSUME NEW e \in Ed(Nat), Room(e), Inside(e), ~Phantom(e)
  PROVE  EditOf(e, StaleNewLine(e))
<1>1. PICK l \in Line : l = Cur(e) BY CurFacts
<1>2. Len(l) \in Nat /\ \A i \in 1 .. Len(l) : l[i] \in LineChars BY DEF Line
<1>3. NUL \in LineChars BY DEF LineChars
<1>. DEFINE first == [i \in 1 .. Len(l) |-> IF i = e.cx + 1 THEN NUL ELSE l[i]]
<1>4. first \in [1 .. Len(l) -> LineChars] BY <1>2, <1>3
<1>5. first \in Line BY <1>2, <1>4, FunctionIsSeq DEF Line
<1>6. StaleNewLine(e) = NewLine(e, first) BY <1>1 DEF StaleNewLine
<1>. HIDE DEF first
<1>. QED BY <1>5, <1>6, NewLineFacts

(* Joining two lines that follow each other. *)
LEMMA JoinFacts ==
  ASSUME NEW A, NEW ls \in Seq(Seq(A)), NEW row \in Nat, row + 2 <= Len(ls)
  PROVE  Join(ls, row) \in Seq(Seq(A)) /\ Len(Join(ls, row)) = Len(ls) - 1
<1>0. Len(ls) \in Nat OBVIOUS
<1>1. PICK h \in Seq(Seq(A)) : h = SubSeq(ls, 1, row) /\ Len(h) = row
  <2>1. row <= Len(ls) BY <1>0
  <2>2. SubSeq(ls, 1, row) \in Seq(Seq(A)) /\ Len(SubSeq(ls, 1, row)) = row BY <2>1, Front
  <2>. QED BY <2>2
<1>2. PICK t \in Seq(Seq(A)) : t = SubSeq(ls, row + 3, Len(ls)) /\ Len(t) = Len(ls) - row - 2
  <2>1. PICK i \in Nat : i = row + 3 /\ i >= 1 /\ i <= Len(ls) + 1 BY <1>0
  <2>2. SubSeq(ls, i, Len(ls)) \in Seq(Seq(A)) /\ Len(SubSeq(ls, i, Len(ls))) = Len(ls) + 1 - i
    BY <2>1, Back
  <2>3. Len(ls) + 1 - i = Len(ls) - row - 2 BY <1>0, <2>1
  <2>. QED BY <2>1, <2>2, <2>3
<1>3. PICK m \in Seq(A) : m = ls[row + 1] \o ls[row + 2]
  <2>1. row + 1 \in 1 .. Len(ls) /\ row + 2 \in 1 .. Len(ls) BY <1>0
  <2>2. ls[row + 1] \in Seq(A) /\ ls[row + 2] \in Seq(A) BY <2>1, ElementOfSeq
  <2>. QED BY <2>2, ConcatProperties
<1>4. PICK mid \in Seq(Seq(A)) : mid = <<m>> /\ Len(mid) = 1
  <2>1. <<m>> \in Seq(Seq(A)) /\ Len(<<m>>) = 1 OBVIOUS
  <2>. QED BY <2>1
<1>5. h \o mid \o t \in Seq(Seq(A)) /\ Len(h \o mid \o t) = Len(h) + Len(mid) + Len(t) BY Three
<1>6. Len(h) + Len(mid) + Len(t) = Len(ls) - 1
  <2>1. PICK n \in Nat : n = Len(ls) BY <1>0
  <2>2. Len(h) + Len(mid) + Len(t) = row + 1 + (n - row - 2) BY <1>1, <1>2, <1>4, <2>1, Zenon
  <2>3. row + 1 + (n - row - 2) = n - 1 OBVIOUS
  <2>. QED BY <2>1, <2>2, <2>3, Zenon
<1>7. Join(ls, row) = h \o mid \o t BY <1>1, <1>2, <1>3, <1>4 DEF Join
<1>. QED BY <1>5, <1>6, <1>7

Changed(e, ls, x, y) == [e EXCEPT !.lines = ls, !.cx = x, !.cy = y, !.dirty = TRUE]

(* Its fields. *)
LEMMA ChangedFacts ==
  ASSUME NEW e \in Ed(Nat), NEW ls, NEW x, NEW y
  PROVE  LET r == Changed(e, ls, x, y)
         IN  /\ r.lines = ls /\ r.cx = x /\ r.cy = y /\ r.undo = e.undo /\ r.dirty
             /\ r.lines_cap = e.lines_cap
BY DEF Changed, Ed

(* What the two delete keys do, case by case. *)
LEMMA DeleteIs ==
  ASSUME NEW e \in Ed(Nat), Inside(e), ~Phantom(e)
  PROVE  /\ e.cx > 0 =>
              editor_delete_char(e) =
                Changed(e, [e.lines EXCEPT ![e.cy + 1] = line_delete_char(Cur(e), e.cx - 1)],
                        e.cx - 1, e.cy)
         /\ e.cx = 0 /\ e.cy > 0 =>
              editor_delete_char(e) =
                Changed(e, Join(e.lines, e.cy - 1), Len(e.lines[e.cy]), e.cy - 1)
         /\ e.cx = 0 /\ e.cy = 0 => editor_delete_char(e) = Changed(e, e.lines, 0, 0)
         /\ e.cx < Len(Cur(e)) =>
              editor_delete_forward(e) =
                Changed(e, [e.lines EXCEPT ![e.cy + 1] = line_delete_char(Cur(e), e.cx)],
                        e.cx, e.cy)
         /\ e.cx = Len(Cur(e)) /\ e.cy + 1 < Len(e.lines) =>
              editor_delete_forward(e) = Changed(e, Join(e.lines, e.cy), e.cx, e.cy)
         /\ e.cx = Len(Cur(e)) /\ e.cy + 1 = Len(e.lines) => editor_delete_forward(e) = e
<1>0. /\ e.cx \in Nat /\ e.cy \in Nat /\ Len(e.lines) \in Nat /\ Len(Cur(e)) \in Nat
      /\ Cur(e) = e.lines[e.cy + 1]
  BY CurFacts DEF Ed, Line, Cur
<1>1. e.cx > 0 =>
        editor_delete_char(e) =
          Changed(e, [e.lines EXCEPT ![e.cy + 1] = line_delete_char(Cur(e), e.cx - 1)],
                  e.cx - 1, e.cy)
  BY <1>0 DEF editor_delete_char, Changed, Ed
<1>2. ASSUME e.cx = 0, e.cy > 0
      PROVE  editor_delete_char(e) =
               Changed(e, Join(e.lines, e.cy - 1), Len(e.lines[e.cy]), e.cy - 1)
  <2>1. ~(e.cx > 0) BY <1>2
  <2>2. editor_delete_char(e) =
          [[e EXCEPT !.lines = Join(@, e.cy - 1), !.cy = @ - 1, !.cx = Len(e.lines[e.cy])]
             EXCEPT !.dirty = TRUE]
    BY <1>2, <2>1, Zenon DEF editor_delete_char
  <2>. QED BY <2>2 DEF Changed, Ed
<1>3. ASSUME e.cx = 0, e.cy = 0 PROVE editor_delete_char(e) = Changed(e, e.lines, 0, 0)
  <2>1. ~(e.cx > 0) /\ ~(e.cy > 0) BY <1>3
  <2>2. editor_delete_char(e) = [e EXCEPT !.dirty = TRUE] BY <2>1, Zenon DEF editor_delete_char
  <2>. QED BY <1>3, <2>2 DEF Changed, Ed
<1>4. e.cx < Len(Cur(e)) =>
        editor_delete_forward(e) =
          Changed(e, [e.lines EXCEPT ![e.cy + 1] = line_delete_char(Cur(e), e.cx)], e.cx, e.cy)
  BY <1>0 DEF editor_delete_forward, Changed, Ed
<1>5. ASSUME e.cx = Len(Cur(e)), e.cy + 1 < Len(e.lines)
      PROVE  editor_delete_forward(e) = Changed(e, Join(e.lines, e.cy), e.cx, e.cy)
  <2>1. ~(e.cx < Len(Cur(e))) /\ e.cy < nlines(e) - 1 BY <1>0, <1>5 DEF nlines
  <2>2. editor_delete_forward(e) = [e EXCEPT !.lines = Join(@, e.cy), !.dirty = TRUE]
    BY <2>1, Zenon DEF editor_delete_forward
  <2>. QED BY <2>2 DEF Changed, Ed
<1>6. e.cx = Len(Cur(e)) /\ e.cy + 1 = Len(e.lines) => editor_delete_forward(e) = e
  <2>1. e.cy + 1 = Len(e.lines) => ~(e.cy < nlines(e) - 1) BY <1>0 DEF nlines
  <2>. QED BY <1>0, <2>1 DEF editor_delete_forward
<1>. QED BY <1>0, <1>1, <1>2, <1>3, <1>4, <1>5, <1>6

(* Deleting, inside a line or across the end of one. *)
LEMMA DeleteFacts ==
  ASSUME NEW e \in Ed(Nat), Room(e), Inside(e)
  PROVE  EditOf(e, editor_delete_char(e)) /\ EditOf(e, editor_delete_forward(e))
<1>0. /\ e.cx \in Nat /\ e.cy \in Nat /\ e.lines \in Seq(Line) /\ Len(e.lines) \in Nat
      /\ e.lines_cap \in Nat
  BY DEF Ed
<1>1. EditOf(e, e) BY DEF EditOf
<1>2. CASE Phantom(e) BY <1>1, <1>2 DEF editor_delete_char, editor_delete_forward
<1>3. CASE ~Phantom(e)
  <2>0. /\ e.cy < Len(e.lines) /\ e.cy + 1 \in 1 .. Len(e.lines)
        /\ Cur(e) = e.lines[e.cy + 1] /\ Cur(e) \in Line /\ e.cx <= Len(Cur(e)) /\ Len(Cur(e)) \in Nat
    BY <1>3, CurFacts DEF Cur, Line
  <2>1. ASSUME NEW at \in Nat, at < Len(Cur(e)), NEW x \in Nat, NEW y \in Nat
        PROVE  LET M == [e.lines EXCEPT ![e.cy + 1] = line_delete_char(Cur(e), at)]
               IN  EditOf(e, Changed(e, M, x, y))
    <3>1. PICK n \in Line : n = line_delete_char(Cur(e), at)
      <4>1. SP \in LineChars /\ at <= Len(Cur(e)) BY <2>0, <2>1 DEF LineChars
      <4>. QED BY <2>0, <2>1, <4>1, LineOps DEF Line
    <3>2. PICK M : M = [e.lines EXCEPT ![e.cy + 1] = line_delete_char(Cur(e), at)] OBVIOUS
    <3>3. M \in Seq(Line) /\ Len(M) = Len(e.lines) BY <1>0, <2>0, <3>1, <3>2, ExceptSeq
    <3>4. PICK r : r = Changed(e, M, x, y) OBVIOUS
    <3>5. /\ r \in Ed(Nat) /\ r.lines = M /\ r.lines_cap = e.lines_cap
          /\ r.undo = e.undo /\ r.dirty
      BY <3>3, <3>4 DEF Ed, Changed
    <3>. QED BY <3>2, <3>3, <3>4, <3>5 DEF EditOf, Room
  <2>2. ASSUME NEW row \in Nat, row + 2 <= Len(e.lines), NEW x \in Nat, NEW y \in Nat
        PROVE  EditOf(e, Changed(e, Join(e.lines, row), x, y))
    <3>1. PICK M \in Seq(Line) : M = Join(e.lines, row) /\ Len(M) = Len(e.lines) - 1
      BY <1>0, <2>2, JoinFacts DEF Line
    <3>2. PICK r : r = Changed(e, M, x, y) OBVIOUS
    <3>3. /\ r \in Ed(Nat) /\ r.lines = M /\ r.lines_cap = e.lines_cap
          /\ r.undo = e.undo /\ r.dirty
      BY <3>2 DEF Ed, Changed
    <3>4. Room(r) BY <1>0, <2>2, <3>1, <3>3 DEF Room
    <3>. QED BY <3>1, <3>2, <3>3, <3>4 DEF EditOf
  <2>3. EditOf(e, Changed(e, e.lines, 0, 0))
    <3>1. PICK r : r = Changed(e, e.lines, 0, 0) OBVIOUS
    <3>2. r \in Ed(Nat) /\ r.lines = e.lines /\ r.lines_cap = e.lines_cap /\ r.undo = e.undo /\ r.dirty
      BY <1>0, <3>1 DEF Ed, Changed
    <3>. QED BY <3>1, <3>2 DEF EditOf, Room
  <2>4. EditOf(e, editor_delete_char(e))
    <3>1. CASE e.cx > 0
      <4>1. e.cx - 1 \in Nat /\ e.cx - 1 < Len(Cur(e)) BY <1>0, <2>0, <3>1
      <4>. QED BY <1>0, <1>3, <2>1, <3>1, <4>1, DeleteIs
    <3>2. CASE e.cx = 0 /\ e.cy > 0
      <4>1. e.cy - 1 \in Nat /\ (e.cy - 1) + 2 <= Len(e.lines) BY <1>0, <2>0, <3>2
      <4>2. Len(e.lines[e.cy]) \in Nat
        <5>1. e.cy \in 1 .. Len(e.lines) BY <1>0, <2>0, <3>2
        <5>2. e.lines[e.cy] \in Line BY <1>0, <5>1, ElementOfSeq
        <5>. QED BY <5>2 DEF Line
      <4>. QED BY <1>3, <2>2, <3>2, <4>1, <4>2, DeleteIs
    <3>3. CASE e.cx = 0 /\ e.cy = 0 BY <1>3, <2>3, <3>3, DeleteIs
    <3>4. e.cx > 0 \/ (e.cx = 0 /\ e.cy > 0) \/ (e.cx = 0 /\ e.cy = 0) BY <1>0
    <3>. QED BY <3>1, <3>2, <3>3, <3>4
  <2>5. EditOf(e, editor_delete_forward(e))
    <3>1. CASE e.cx < Len(Cur(e)) BY <1>0, <1>3, <2>1, <3>1, DeleteIs
    <3>2. CASE e.cx = Len(Cur(e)) /\ e.cy + 1 < Len(e.lines)
      <4>1. e.cy + 2 <= Len(e.lines) BY <1>0, <3>2
      <4>. QED BY <1>0, <1>3, <2>2, <3>2, <4>1, DeleteIs
    <3>3. CASE e.cx = Len(Cur(e)) /\ e.cy + 1 = Len(e.lines) BY <1>1, <1>3, <3>3, DeleteIs
    <3>4. \/ e.cx < Len(Cur(e))
          \/ e.cx = Len(Cur(e)) /\ e.cy + 1 < Len(e.lines)
          \/ e.cx = Len(Cur(e)) /\ e.cy + 1 = Len(e.lines)
      BY <1>0, <2>0
    <3>. QED BY <3>1, <3>2, <3>3, <3>4
  <2>. QED BY <2>4, <2>5
<1>. QED BY <1>2, <1>3

(* Whatever a key left, editor_clamp_cursor brings the cursor back inside. *)
LEMMA ClampFacts ==
  ASSUME NEW e \in Ed(Int), Room(e)
  PROVE  LET r == editor_clamp_cursor(e)
         IN  /\ r \in Ed(Nat) /\ Room(r) /\ Inside(r)
             /\ r.lines = e.lines /\ r.undo = e.undo /\ r.dirty = e.dirty
<1>. DEFINE r == editor_clamp_cursor(e)
<1>0. /\ e.cx \in Int /\ e.cy \in Int /\ e.lines \in Seq(Line) /\ Len(e.lines) \in Nat
  BY DEF Ed
<1>1. PICK y \in Nat : y = InRange(e.cy, 0, nlines(e)) /\ y <= Len(e.lines)
  BY <1>0 DEF InRange, nlines
<1>2. PICK w \in Nat : w = IF y < Len(e.lines) THEN Len(e.lines[y + 1]) ELSE 0
  <2>1. CASE y < Len(e.lines)
    <3>1. y + 1 \in 1 .. Len(e.lines) BY <1>0, <2>1
    <3>2. e.lines[y + 1] \in Line BY <1>0, <3>1, ElementOfSeq
    <3>3. Len(e.lines[y + 1]) \in Nat BY <3>2 DEF Line
    <3>. QED BY <2>1, <3>3
  <2>. QED BY <2>1
<1>3. PICK x \in Nat : x = InRange(e.cx, 0, w) /\ x <= w BY <1>0 DEF InRange
<1>4. r = [e EXCEPT !.cy = y, !.cx = x]
  BY <1>1, <1>2, <1>3 DEF editor_clamp_cursor, nlines, Ed
<1>. HIDE DEF r
<1>5. /\ r \in Ed(Nat) /\ r.lines = e.lines /\ r.undo = e.undo /\ r.dirty = e.dirty
      /\ r.lines_cap = e.lines_cap /\ r.cx = x /\ r.cy = y
  BY <1>4 DEF Ed
<1>6. Inside(r) BY <1>0, <1>1, <1>2, <1>3, <1>5 DEF Inside
<1>. QED BY <1>5, <1>6 DEF Room, r

(* A cursor that is inside already stays. *)
LEMMA ClampStays ==
  ASSUME NEW e \in Ed(Nat), Inside(e)
  PROVE  editor_clamp_cursor(e) = e
<1>0. /\ e.cx \in Nat /\ e.cy \in Nat /\ e.lines \in Seq(Line) /\ Len(e.lines) \in Nat
      /\ e.cy <= Len(e.lines)
  BY DEF Ed, Inside
<1>1. InRange(e.cy, 0, nlines(e)) = e.cy BY <1>0 DEF InRange, nlines
<1>2. PICK w \in Nat :
        /\ w = IF e.cy < Len(e.lines) THEN Len(e.lines[e.cy + 1]) ELSE 0
        /\ e.cx <= w
  <2>1. CASE e.cy < Len(e.lines)
    <3>1. e.cy + 1 \in 1 .. Len(e.lines) BY <1>0, <2>1
    <3>2. e.lines[e.cy + 1] \in Line BY <1>0, <3>1, ElementOfSeq
    <3>3. Len(e.lines[e.cy + 1]) \in Nat BY <3>2 DEF Line
    <3>. QED BY <1>0, <2>1, <3>3 DEF Inside
  <2>2. CASE ~(e.cy < Len(e.lines))
    <3>1. e.cy = Len(e.lines) BY <1>0, <2>2
    <3>. QED BY <1>0, <3>1 DEF Inside
  <2>. QED BY <2>1, <2>2
<1>3. InRange(e.cx, 0, w) = e.cx BY <1>0, <1>2 DEF InRange
<1>4. editor_clamp_cursor(e) = [e EXCEPT !.cy = e.cy, !.cx = e.cx]
  BY <1>1, <1>2, <1>3 DEF editor_clamp_cursor, nlines, Ed
<1>. QED BY <1>4 DEF Ed

(* A column editor_find_next may choose. *)
LEMMA ColumnFacts ==
  ASSUME NEW l \in Line, NEW q \in Seq(Letters), NEW dir \in {1, -1}, Matches(l, q, dir)
  PROVE  /\ FindColumn(l, q, dir) \in Nat /\ FindColumn(l, q, dir) <= Len(l)
         /\ FindColumn(l, q, dir) \in Occurrences(q, IF dir = 1 THEN CStr(l) ELSE l)
<1>. DEFINE s == IF dir = 1 THEN CStr(l) ELSE l
            o == Occurrences(q, s)
<1>0. Len(l) \in Nat /\ Len(q) \in Nat BY DEF Line
<1>1. s \in Line /\ Len(s) \in Nat /\ Len(s) <= Len(l) BY <1>0, CStrFacts DEF Line
<1>2. o # {} BY DEF Matches
<1>. HIDE DEF s
<1>3. \A c \in o : c \in Nat /\ c <= Len(l) BY <1>0, <1>1 DEF Occurrences
<1>. HIDE DEF o
<1>4. \E c \in o : \A d \in o : c <= d
  <2>1. o \subseteq Nat BY <1>3
  <2>. QED BY <1>2, <2>1, NatHasLeast
<1>5. \E c \in o : \A d \in o : c >= d
  <2>1. o \subseteq Nat /\ \A c \in o : c <= Len(l) BY <1>3
  <2>2. PICK c \in o : \A d \in o : d <= c BY <1>0, <1>2, <2>1, NatHasGreatest
  <2>3. \A d \in o : c >= d BY <2>1, <2>2
  <2>. QED BY <2>3
<1>6. FindColumn(l, q, dir) \in o
  <2>1. CASE dir = 1
    <3>1. FindColumn(l, q, dir) = CHOOSE c \in o : \A d \in o : c <= d
      BY <2>1 DEF FindColumn, o, s
    <3>. QED BY <1>4, <3>1, Zenon
  <2>2. CASE dir # 1
    <3>1. FindColumn(l, q, dir) = CHOOSE c \in o : \A d \in o : c >= d
      BY <2>2 DEF FindColumn, o, s
    <3>. QED BY <1>5, <3>1, Zenon
  <2>. QED BY <2>1, <2>2
<1>. QED BY <1>3, <1>6 DEF o, s

Reaches(n, y, dir, r) == \E i \in 1 .. n : (y + dir * i) % n = r

(* Going n rows down or up from the cursor, around the text, meets every   *)
(* row.                                                                    *)
LEMMA RowsAround ==
  ASSUME NEW n \in Nat \ {0}, NEW y \in 0 .. n, NEW dir \in {1, -1}, NEW r \in 0 .. n - 1
  PROVE  Reaches(n, y, dir, r)
<1>. SUFFICES \E i \in 1 .. n : (y + dir * i) % n = r BY DEF Reaches
<1>1. CASE dir = 1
  <2>1. CASE y < r
    <3>1. r - y \in 1 .. n /\ y + 1 * (r - y) = r BY <2>1
    <3>2. r % n = r BY ModFacts
    <3>. QED BY <1>1, <3>1, <3>2
  <2>2. CASE r <= y /\ y < r + n
    <3>1. r - y + n \in 1 .. n /\ y + 1 * (r - y + n) = r + n BY <2>2
    <3>2. r + n \in Int /\ n <= r + n /\ r + n < 2 * n /\ (r + n) - n = r OBVIOUS
    <3>3. (r + n) % n = r BY <3>2, ModFacts
    <3>. QED BY <1>1, <3>1, <3>3
  <2>3. CASE ~(y < r + n)
    <3>1. y = n /\ r = 0 BY <2>3
    <3>2. n \in 1 .. n /\ y + 1 * n = n + n BY <3>1
    <3>3. (n + n) % n = 0 OBVIOUS
    <3>. QED BY <1>1, <3>1, <3>2, <3>3
  <2>. QED BY <2>1, <2>2, <2>3
<1>2. CASE dir = -1
  <2>1. CASE r < y
    <3>1. y - r \in 1 .. n /\ y + (-1) * (y - r) = r BY <2>1
    <3>2. r % n = r BY ModFacts
    <3>. QED BY <1>2, <3>1, <3>2
  <2>2. CASE ~(r < y)
    <3>1. y - r + n \in 1 .. n /\ y + (-1) * (y - r + n) = r - n BY <2>2
    <3>2. r - n \in Int /\ -n <= r - n /\ r - n < 0 /\ (r - n) + n = r OBVIOUS
    <3>3. (r - n) % n = r BY <3>2, ModFacts
    <3>. QED BY <1>2, <3>1, <3>3
  <2>. QED BY <2>1, <2>2
<1>. QED BY <1>1, <1>2

(* What a search may do to the cursor: nothing when there is nothing to    *)
(* find, and otherwise go to a line with the term in it.                   *)
Searched(e, q, dir, r) ==
  \/ /\ r = e
     /\ q = <<>> \/ \A k \in 1 .. Len(e.lines) : ~Matches(e.lines[k], q, dir)
  \/ \E y \in 0 .. Len(e.lines) - 1 :
       /\ Matches(e.lines[y + 1], q, dir)
       /\ r = [e EXCEPT !.cy = y, !.cx = FindColumn(e.lines[y + 1], q, dir)]

(* That is what editor_find_next does. *)
LEMMA FindIs ==
  ASSUME NEW e \in Ed(Nat), Room(e), Inside(e), NEW q \in Seq(Letters), NEW dir \in {1, -1}
  PROVE  Searched(e, q, dir, editor_find_next(e, q, dir))
<1>. DEFINE r == editor_find_next(e, q, dir)
            row(i) == (e.cy + dir * i) % nlines(e)
            hits == {i \in 1 .. nlines(e) : Matches(e.lines[row(i) + 1], q, dir)}
            i == CHOOSE j \in hits : \A k \in hits : j <= k
<1>0. e.cy \in Nat /\ e.cy <= Len(e.lines) /\ e.lines \in Seq(Line) BY DEF Ed, Inside
<1>1. PICK n \in Nat \ {0} : n = nlines(e) /\ n = Len(e.lines) BY <1>0 DEF Room, nlines
<1>2. r = IF q = <<>> \/ hits = {} THEN e
          ELSE [e EXCEPT !.cy = row(i), !.cx = FindColumn(e.lines[row(i) + 1], q, dir)]
  BY DEF editor_find_next
<1>3. \A k \in 1 .. n : row(k) = (e.cy + dir * k) % n BY <1>1
<1>4. \A j : j \in hits <=> j \in 1 .. n /\ Matches(e.lines[row(j) + 1], q, dir) BY <1>1
<1>5. hits # {} => i \in hits
  <2>. SUFFICES ASSUME hits # {} PROVE i \in hits OBVIOUS
  <2>1. hits \subseteq Nat BY <1>4
  <2>2. \E j \in hits : \A k \in hits : j <= k
    <3>. HIDE DEF hits
    <3>. QED BY <2>1, NatHasLeast
  <2>. HIDE DEF hits
  <2>. QED BY <2>2, Zenon
<1>. SUFFICES Searched(e, q, dir, r) OBVIOUS
<1>. HIDE DEF r, i, hits, row
<1>6. CASE q = <<>> BY <1>2, <1>6 DEF Searched
<1>7. CASE hits = {}
  <2>1. ASSUME NEW k \in 1 .. Len(e.lines) PROVE ~Matches(e.lines[k], q, dir)
    <3>1. PICK z \in 0 .. n - 1, y \in 0 .. n : z = k - 1 /\ z + 1 = k /\ y = e.cy BY <1>0, <1>1
    <3>r. Reaches(n, y, dir, z) BY RowsAround
    <3>2. PICK j \in 1 .. n : (y + dir * j) % n = z BY <3>r DEF Reaches
    <3>3. row(j) + 1 = k BY <1>3, <3>1, <3>2
    <3>. QED BY <1>4, <1>7, <3>3
  <2>. QED BY <1>2, <1>7, <2>1 DEF Searched
<1>8. CASE q # <<>> /\ hits # {}
  <2>1. PICK j \in 1 .. n : j = i /\ Matches(e.lines[row(j) + 1], q, dir) BY <1>4, <1>5, <1>8
  <2>2. row(j) = (e.cy + dir * j) % n BY <1>3
  <2>3. e.cy + dir * j \in Int BY <1>0
  <2>4. (e.cy + dir * j) % n \in 0 .. n - 1 BY <2>3, ModFacts
  <2>5. PICK y \in 0 .. n - 1 : y = row(j) BY <2>2, <2>4
  <2>6. r = [e EXCEPT !.cy = y, !.cx = FindColumn(e.lines[y + 1], q, dir)]
    BY <1>2, <1>8, <2>1, <2>5
  <2>. QED BY <1>1, <2>1, <2>5, <2>6 DEF Searched
<1>. QED BY <1>6, <1>7, <1>8

(* A search lands inside the text. *)
LEMMA FindFacts ==
  ASSUME NEW e \in Ed(Nat), Room(e), Inside(e), NEW q \in Seq(Letters), NEW dir \in {1, -1}
  PROVE  LET r == editor_find_next(e, q, dir)
         IN  /\ r \in Ed(Nat) /\ Room(r) /\ Inside(r)
             /\ r.lines = e.lines /\ r.undo = e.undo /\ r.dirty = e.dirty
<1>. DEFINE r == editor_find_next(e, q, dir)
<1>0. e.lines \in Seq(Line) /\ Len(e.lines) \in Nat BY DEF Ed
<1>1. CASE r = e BY <1>1
<1>2. CASE \E y \in 0 .. Len(e.lines) - 1 :
             /\ Matches(e.lines[y + 1], q, dir)
             /\ r = [e EXCEPT !.cy = y, !.cx = FindColumn(e.lines[y + 1], q, dir)]
  <2>1. PICK y \in 0 .. Len(e.lines) - 1 :
          /\ Matches(e.lines[y + 1], q, dir)
          /\ r = [e EXCEPT !.cy = y, !.cx = FindColumn(e.lines[y + 1], q, dir)]
    BY <1>2
  <2>2. PICK x \in Nat : x = FindColumn(e.lines[y + 1], q, dir) /\ x <= Len(e.lines[y + 1])
    <3>1. y + 1 \in 1 .. Len(e.lines) BY <1>0
    <3>2. e.lines[y + 1] \in Line BY <1>0, <3>1, ElementOfSeq
    <3>. QED BY <2>1, <3>2, ColumnFacts
  <2>3. r = [e EXCEPT !.cy = y, !.cx = x] BY <2>1, <2>2
  <2>4. y \in Nat /\ y < Len(e.lines) BY <1>0
  <2>. HIDE DEF r
  <2>5. /\ r \in Ed(Nat) /\ r.lines = e.lines /\ r.undo = e.undo /\ r.dirty = e.dirty
        /\ r.lines_cap = e.lines_cap /\ r.cx = x /\ r.cy = y
    BY <2>3, <2>4 DEF Ed
  <2>6. Inside(r) BY <1>0, <2>2, <2>4, <2>5 DEF Inside
  <2>. QED BY <2>5, <2>6 DEF Room, r
<1>3. Searched(e, q, dir, r) BY FindIs
<1>. QED BY <1>1, <1>2, <1>3 DEF Searched

-----------------------------------------------------------------------------
(* The undo stack *)

Hist == [lines : Seq(Line), cx : Nat, cy : Nat]

(* The levels of u are the newest entries of b. *)
Matched(u, b) ==
  /\ Len(u) <= Len(b)
  /\ \A i \in 1 .. Len(u) :
       /\ Split(u[i].text) = b[Len(b) - Len(u) + i].lines
       /\ u[i].cx = b[Len(b) - Len(u) + i].cx /\ u[i].cy = b[Len(b) - Len(u) + i].cy

SameLevel(s, h) == Split(s.text) = h.lines /\ s.cx = h.cx /\ s.cy = h.cy

(* Matched, level by level. *)
LEMMA MatchedIs ==
  ASSUME NEW u, NEW b
  PROVE  Matched(u, b) <=>
           /\ Len(u) <= Len(b)
           /\ \A i \in 1 .. Len(u) : SameLevel(u[i], b[Len(b) - Len(u) + i])
BY DEF Matched, SameLevel

(* Forgetting the oldest level. *)
LEMMA MatchedTail ==
  ASSUME NEW u \in Seq(Snap), NEW b \in Seq(Hist), Matched(u, b), u # <<>>
  PROVE  Matched(Tail(u), b)
<1>1. PICK m \in Nat, n \in Nat : m = Len(u) /\ n = Len(b) /\ m >= 1 /\ m <= n
  BY MatchedIs
<1>2. PICK v : v = Tail(u) OBVIOUS
<1>3. Len(v) = m - 1 /\ \A i \in 1 .. m - 1 : v[i] = u[i + 1] BY <1>1, <1>2, HeadTailProperties
<1>4. ASSUME NEW i \in 1 .. m - 1 PROVE SameLevel(v[i], b[n - (m - 1) + i])
  <2>1. i + 1 \in 1 .. m /\ n - m + (i + 1) = n - (m - 1) + i BY <1>1
  <2>2. SameLevel(u[i + 1], b[n - m + (i + 1)]) BY <1>1, <2>1, MatchedIs
  <2>. QED BY <1>3, <2>1, <2>2
<1>5. m - 1 <= n BY <1>1
<1>. QED BY <1>1, <1>2, <1>3, <1>4, <1>5, MatchedIs

(* Adding a level to both. *)
LEMMA MatchedPush ==
  ASSUME NEW u \in Seq(Snap), NEW b \in Seq(Hist), Matched(u, b),
         NEW s \in Snap, NEW h \in Hist, SameLevel(s, h)
  PROVE  Matched(Append(u, s), Append(b, h))
<1>1. PICK m \in Nat, n \in Nat : m = Len(u) /\ n = Len(b) /\ m <= n BY MatchedIs
<1>2. PICK v, c : v = Append(u, s) /\ c = Append(b, h) OBVIOUS
<1>3. Len(v) = m + 1 /\ v[m + 1] = s /\ \A i \in 1 .. m : v[i] = u[i]
  BY <1>1, <1>2, AppendProperties
<1>4. Len(c) = n + 1 /\ c[n + 1] = h /\ \A i \in 1 .. n : c[i] = b[i]
  BY <1>1, <1>2, AppendProperties
<1>5. ASSUME NEW i \in 1 .. m + 1 PROVE SameLevel(v[i], c[(n + 1) - (m + 1) + i])
  <2>1. CASE i = m + 1
    <3>1. (n + 1) - (m + 1) + i = n + 1 BY <1>1, <2>1
    <3>. QED BY <1>3, <1>4, <2>1, <3>1
  <2>2. CASE i # m + 1
    <3>1. /\ i \in 1 .. m /\ n - m + i \in 1 .. n
          /\ (n + 1) - (m + 1) + i = n - m + i
      BY <1>1, <2>2
    <3>2. SameLevel(u[i], b[n - m + i]) BY <1>1, <3>1, MatchedIs
    <3>. QED BY <1>3, <1>4, <3>1, <3>2
  <2>. QED BY <2>1, <2>2
<1>6. m + 1 <= n + 1 BY <1>1
<1>7. Matched(v, c) BY <1>3, <1>4, <1>5, <1>6, MatchedIs
<1>. QED BY <1>2, <1>7

(* Taking the newest level away. *)
LEMMA MatchedPop ==
  ASSUME NEW u \in Seq(Snap), NEW b \in Seq(Hist), Matched(u, b), u # <<>>
  PROVE  /\ SubSeq(u, 1, Len(u) - 1) \in Seq(Snap) /\ Len(SubSeq(u, 1, Len(u) - 1)) = Len(u) - 1
         /\ SubSeq(b, 1, Len(b) - 1) \in Seq(Hist)
         /\ Matched(SubSeq(u, 1, Len(u) - 1), SubSeq(b, 1, Len(b) - 1))
<1>1. PICK m \in Nat, n \in Nat : m = Len(u) - 1 /\ n = Len(b) - 1 /\ m <= n
  <2>1. Len(u) \in Nat \ {0} /\ Len(b) \in Nat /\ Len(u) <= Len(b) BY MatchedIs
  <2>2. Len(u) - 1 \in Nat /\ Len(b) - 1 \in Nat /\ Len(u) - 1 <= Len(b) - 1 BY <2>1
  <2>. QED BY <2>2
<1>2. Len(u) = m + 1 /\ Len(b) = n + 1 BY <1>1
<1>3. PICK v : v = SubSeq(u, 1, m) OBVIOUS
<1>4. PICK c : c = SubSeq(b, 1, n) OBVIOUS
<1>5. v \in Seq(Snap) /\ Len(v) = m /\ \A i \in 1 .. m : v[i] = u[i]
  <2>1. m <= Len(u) /\ 1 <= m + 1 /\ m + 1 - 1 = m /\ 1 \in Nat \ {0} BY <1>2
  <2>2. v \in Seq(Snap) /\ Len(v) = m + 1 - 1 /\ \A i \in 1 .. m + 1 - 1 : v[i] = u[i + 1 - 1]
    BY <1>3, <2>1, Piece
  <2>3. \A i \in 1 .. m : i + 1 - 1 = i OBVIOUS
  <2>. QED BY <2>1, <2>2, <2>3
<1>6. c \in Seq(Hist) /\ Len(c) = n /\ \A i \in 1 .. n : c[i] = b[i]
  <2>1. n <= Len(b) /\ 1 <= n + 1 /\ n + 1 - 1 = n /\ 1 \in Nat \ {0} BY <1>2
  <2>2. c \in Seq(Hist) /\ Len(c) = n + 1 - 1 /\ \A i \in 1 .. n + 1 - 1 : c[i] = b[i + 1 - 1]
    BY <1>4, <2>1, Piece
  <2>3. \A i \in 1 .. n : i + 1 - 1 = i OBVIOUS
  <2>. QED BY <2>1, <2>2, <2>3
<1>7. ASSUME NEW i \in 1 .. m PROVE SameLevel(v[i], c[n - m + i])
  <2>1. /\ i \in 1 .. m + 1 /\ n - m + i \in 1 .. n
        /\ (n + 1) - (m + 1) + i = n - m + i
    BY <1>1
  <2>2. SameLevel(u[i], b[(n + 1) - (m + 1) + i]) BY <1>2, <2>1, MatchedIs
  <2>. QED BY <1>5, <1>6, <2>1, <2>2
<1>8. Matched(v, c) BY <1>1, <1>5, <1>6, <1>7, MatchedIs
<1>. QED BY <1>1, <1>3, <1>4, <1>5, <1>6, <1>8

(* editor_snap_push keeps the text and makes it the newest level. *)
LEMMA PushFacts ==
  ASSUME NEW e \in Ed(Nat), Room(e), Len(e.undo) <= UndoMax, NEW b \in Seq(Hist), Matched(e.undo, b)
  PROVE  LET p == editor_snap_push(e)
             h == [lines |-> e.lines, cx |-> e.cx, cy |-> e.cy]
         IN  /\ p \in Ed(Nat) /\ p.lines = e.lines /\ p.lines_cap = e.lines_cap
             /\ p.cx = e.cx /\ p.cy = e.cy /\ p.dirty = e.dirty
             /\ Len(p.undo) <= UndoMax
             /\ Append(b, h) \in Seq(Hist) /\ Matched(p.undo, Append(b, h))
<1>. DEFINE p == editor_snap_push(e)
            h == [lines |-> e.lines, cx |-> e.cx, cy |-> e.cy]
            s == [text |-> Serialize(e.lines), cx |-> e.cx, cy |-> e.cy]
            u == IF Len(e.undo) = UndoMax THEN Tail(e.undo) ELSE e.undo
<1>0. /\ e.lines \in Seq(Line) /\ e.cx \in Nat /\ e.cy \in Nat /\ e.undo \in Seq(Snap)
      /\ Len(e.undo) \in Nat /\ UndoMax \in Nat \ {0} /\ e.lines # <<>>
  BY EditorAssumption DEF Ed, Room
<1>1. Serialize(e.lines) \in Text BY <1>0, SerializeLaid DEF Laid
<1>2. Split(Serialize(e.lines)) = e.lines BY <1>0, RoundTrip
<1>3. s \in Snap /\ h \in Hist BY <1>0, <1>1 DEF Snap, Hist
<1>4. SameLevel(s, h) BY <1>2 DEF SameLevel
<1>5. u \in Seq(Snap) /\ Len(u) \in Nat /\ Len(u) + 1 <= UndoMax /\ Matched(u, b)
  <2>1. CASE Len(e.undo) = UndoMax
    <3>1. e.undo # <<>> BY <1>0, <2>1
    <3>2. u = Tail(e.undo) BY <2>1
    <3>3. Tail(e.undo) \in Seq(Snap) /\ Len(Tail(e.undo)) = Len(e.undo) - 1
      BY <1>0, <3>1, HeadTailProperties
    <3>4. Matched(Tail(e.undo), b) BY <1>0, <3>1, MatchedTail
    <3>5. Len(Tail(e.undo)) \in Nat /\ Len(Tail(e.undo)) + 1 <= UndoMax BY <1>0, <2>1, <3>3
    <3>. QED BY <3>2, <3>3, <3>4, <3>5
  <2>2. CASE Len(e.undo) # UndoMax BY <1>0, <2>2
  <2>. QED BY <2>1, <2>2
<1>6. p = [e EXCEPT !.undo = Append(u, s)] BY DEF editor_snap_push
<1>. HIDE DEF p, u, s, h
<1>7. Append(u, s) \in Seq(Snap) /\ Len(Append(u, s)) = Len(u) + 1
  BY <1>3, <1>5, AppendProperties
<1>8. /\ p \in Ed(Nat) /\ p.lines = e.lines /\ p.lines_cap = e.lines_cap
      /\ p.cx = e.cx /\ p.cy = e.cy /\ p.dirty = e.dirty /\ p.undo = Append(u, s)
  BY <1>6, <1>7 DEF Ed
<1>9. Append(b, h) \in Seq(Hist) BY <1>3, AppendProperties
<1>10. Matched(Append(u, s), Append(b, h)) BY <1>3, <1>4, <1>5, MatchedPush
<1>11. Len(p.undo) <= UndoMax BY <1>5, <1>7, <1>8
<1>. QED BY <1>8, <1>9, <1>10, <1>11 DEF p, h

(* editor_snap_pop puts the newest level back into the text. *)
LEMMA PopFacts ==
  ASSUME NEW e \in Ed(Nat), e.undo # <<>>, NEW b \in Seq(Hist), Matched(e.undo, b)
  PROVE  LET p == editor_snap_pop(e)
             c == SubSeq(b, 1, Len(b) - 1)
         IN  /\ p \in Ed(Nat) /\ Room(p) /\ Inside(p) /\ p.dirty
             /\ Len(p.undo) <= Len(e.undo) /\ c \in Seq(Hist) /\ Matched(p.undo, c)
             /\ p.lines = Split(e.undo[Len(e.undo)].text)
<1>. DEFINE p == editor_snap_pop(e)
            c == SubSeq(b, 1, Len(b) - 1)
            v == SubSeq(e.undo, 1, Len(e.undo) - 1)
<1>0. e.undo \in Seq(Snap) /\ Len(e.undo) \in Nat BY DEF Ed
<1>1. v \in Seq(Snap) /\ Len(v) = Len(e.undo) - 1 /\ c \in Seq(Hist) /\ Matched(v, c)
  BY <1>0, MatchedPop
<1>2. PICK s \in Snap : s = e.undo[Len(e.undo)]
  <2>1. Len(e.undo) \in 1 .. Len(e.undo) BY <1>0
  <2>. QED BY <1>0, <2>1, ElementOfSeq
<1>3. Split(s.text) \in Seq(Line) /\ Len(Split(s.text)) >= 1 BY SplitLines DEF Snap
<1>4. PICK r \in Ed(Nat) : r = SetLines(e, Split(s.text)) /\ Room(r) /\ r.undo = e.undo
                      /\ r.lines = Split(s.text)
  BY <1>3, SetLinesFacts
<1>5. PICK q : q = [r EXCEPT !.undo = v, !.cx = s.cx, !.cy = s.cy, !.dirty = TRUE] OBVIOUS
<1>6. p = editor_clamp_cursor(q)
  BY <1>2, <1>4, <1>5 DEF editor_snap_pop, Ed
<1>. HIDE DEF p, c, v
<1>7. /\ q \in Ed(Int) /\ q.lines = r.lines /\ q.lines_cap = r.lines_cap
      /\ q.undo = v /\ q.dirty = TRUE
  <2>1. s.cx \in Int /\ s.cy \in Int BY DEF Snap
  <2>. QED BY <1>1, <1>4, <1>5, <2>1 DEF Ed
<1>8. Room(q) BY <1>4, <1>7 DEF Room
<1>9. /\ p \in Ed(Nat) /\ Room(p) /\ Inside(p) /\ p.undo = v /\ p.dirty = TRUE
      /\ p.lines = q.lines
  BY <1>6, <1>7, <1>8, ClampFacts
<1>10. Len(p.undo) <= Len(e.undo) BY <1>0, <1>1, <1>9
<1>11. p.lines = Split(e.undo[Len(e.undo)].text) BY <1>2, <1>4, <1>7, <1>9
<1>. QED BY <1>1, <1>9, <1>10, <1>11 DEF p, c

-----------------------------------------------------------------------------
(* The invariant of a session.  Besides the properties themselves: the     *)
(* text and the stack have their types in all modes, nothing has happened  *)
(* before the file is read, there is always a line, and the cursor that    *)
(* editor_find keeps is one.                                               *)

Buffer ==
  /\ ed \in Ed(Nat) /\ Len(ed.undo) <= UndoMax /\ Len(ed.lines) <= ed.lines_cap
  /\ mode = "open" => ed = Empty
  /\ mode \in {"edit", "find"} => Room(ed) /\ Inside(ed)

Around ==
  /\ mode \in {"open", "edit", "find", "done", "crashed"}
  /\ query \in Seq(Letters) /\ Len(query) <= QueryMax
  /\ saved \in [cx : Nat, cy : Nat]
  /\ kind \in {"file", "missing", "dir"}
  /\ file \in Text /\ damaged \in BOOLEAN /\ stale \in BOOLEAN
  /\ keys \in 0 .. MaxKeys

Undoing == before \in Seq(Hist) /\ Matched(ed.undo, before)

EditInv == Buffer /\ Around /\ Undoing /\ CleanMeansSaved

(* editor_open on any file satisfies it. *)
LEMMA EditInit == Init => EditInv
<1>. SUFFICES ASSUME Init PROVE EditInv OBVIOUS
<1>1. <<>> \in Seq(Line) /\ <<>> \in Seq(Snap) /\ <<>> \in Seq(Hist) /\ <<>> \in Seq(Letters)
      /\ <<>> \in Text /\ Len(<<>>) = 0
  BY EmptySeq DEF Text
<1>2. UndoMax \in Nat /\ QueryMax \in Nat /\ MaxKeys \in Nat BY EditorAssumption
<1>3. Empty \in Ed(Nat) /\ Empty.lines = <<>> /\ Empty.undo = <<>> /\ Empty.lines_cap = 0
  BY <1>1 DEF Empty, Ed
<1>4. Buffer BY <1>1, <1>2, <1>3 DEF Init, Buffer
<1>5. file \in Text
  <2>1. Files \subseteq Text
    <3>1. Files \subseteq Seq(Letters \cup {SP, NL}) BY EditorAssumption
    <3>2. \A x \in Seq(Letters \cup {SP, NL}) : x \in Text BY SeqMonotonic DEF Text
    <3>. QED BY <3>1, <3>2
  <2>. QED BY <1>1, <2>1 DEF Init
<1>6. Around
  <2>1. 0 \in 0 .. MaxKeys BY <1>2
  <2>2. query \in Seq(Letters) /\ Len(query) <= QueryMax BY <1>1, <1>2 DEF Init
  <2>3. saved \in [cx : Nat, cy : Nat] BY DEF Init
  <2>. QED BY <1>5, <2>1, <2>2, <2>3 DEF Init, Around
<1>7. Undoing
  <2>1. Matched(<<>>, <<>>)
    <3>1. \A i : i \notin 1 .. 0 OBVIOUS
    <3>. QED BY <1>1, <3>1 DEF Matched
  <2>. QED BY <1>1, <1>3, <2>1 DEF Init, Undoing
<1>8. CleanMeansSaved BY DEF Init, CleanMeansSaved
<1>. QED BY <1>4, <1>6, <1>7, <1>8 DEF EditInv

(* The keys that count. *)
LEMMA KeyFacts ==
  ASSUME Around, Key, UNCHANGED <<query, saved, kind, damaged>>, file' \in Text,
         stale' \in BOOLEAN, mode' = mode
  PROVE  Around'
<1>1. keys' \in 0 .. MaxKeys BY EditorAssumption DEF Around, Key
<1>. QED BY <1>1 DEF Around

(* A key that edits. *)
LEMMA EditedFacts ==
  ASSUME EditInv, mode = "edit", NEW r, EditOf(editor_snap_push(ed), r), EditWith(r),
         mode' = mode, Around'
  PROVE  EditInv'
<1>. DEFINE p == editor_snap_push(ed)
            h == [lines |-> ed.lines, cx |-> ed.cx, cy |-> ed.cy]
<1>0. /\ ed \in Ed(Nat) /\ Len(ed.undo) <= UndoMax /\ Room(ed)
      /\ before \in Seq(Hist) /\ Matched(ed.undo, before)
  BY DEF EditInv, Buffer, Undoing
<1>1. /\ p.lines = ed.lines /\ p.dirty = ed.dirty /\ Len(p.undo) <= UndoMax
      /\ Append(before, h) \in Seq(Hist) /\ Matched(p.undo, Append(before, h))
  BY <1>0, PushFacts
<1>2. ed' = editor_clamp_cursor(r) /\ before' = Append(before, h) /\ UNCHANGED <<file, damaged>>
  BY DEF EditWith
<1>. HIDE DEF p, h
<1>3. r \in Ed(Nat) /\ Room(r) /\ r.undo = p.undo
      /\ (r.dirty \/ (r.lines = p.lines /\ r.dirty = p.dirty))
  BY DEF EditOf, p
<1>4. r \in Ed(Int) BY <1>3 DEF Ed
<1>5. /\ ed' \in Ed(Nat) /\ Room(ed') /\ Inside(ed') /\ ed'.lines = r.lines
      /\ ed'.undo = r.undo /\ ed'.dirty = r.dirty
  BY <1>2, <1>3, <1>4, ClampFacts
<1>6. Buffer' BY <1>1, <1>3, <1>5 DEF Buffer, Room
<1>7. Undoing' BY <1>1, <1>2, <1>3, <1>5 DEF Undoing
<1>8. CleanMeansSaved' BY <1>1, <1>2, <1>3, <1>5 DEF EditInv, CleanMeansSaved
<1>. QED BY <1>6, <1>7, <1>8 DEF EditInv

(* A key that moves the cursor, and the way out of a search. *)
LEMMA MovedFacts ==
  ASSUME EditInv, mode \in {"edit", "find"}, NEW e \in Ed(Int),
         e.lines = ed.lines, e.lines_cap = ed.lines_cap, e.undo = ed.undo, e.dirty = ed.dirty,
         ed' = editor_clamp_cursor(e), mode' = "edit", UNCHANGED <<file, before, damaged>>, Around'
  PROVE  EditInv'
<1>1. Room(ed) /\ Len(ed.undo) <= UndoMax BY DEF EditInv, Buffer
<1>2. Room(e) BY <1>1 DEF Room
<1>3. /\ ed' \in Ed(Nat) /\ Room(ed') /\ Inside(ed') /\ ed'.lines = ed.lines
      /\ ed'.undo = ed.undo /\ ed'.dirty = ed.dirty
  BY <1>2, ClampFacts
<1>4. Buffer' BY <1>1, <1>3 DEF Buffer, Room
<1>5. Undoing' BY <1>3 DEF EditInv, Undoing
<1>6. CleanMeansSaved' BY <1>3 DEF EditInv, CleanMeansSaved
<1>. QED BY <1>4, <1>5, <1>6 DEF EditInv

(* What EditWith needs of the pushed state. *)
LEMMA Pushed ==
  ASSUME EditInv, mode = "edit"
  PROVE  LET p == editor_snap_push(ed)
         IN  p \in Ed(Nat) /\ Room(p) /\ Inside(p) /\ (Phantom(p) <=> Phantom(ed))
<1>. DEFINE p == editor_snap_push(ed)
<1>0. /\ ed \in Ed(Nat) /\ Len(ed.undo) <= UndoMax /\ Room(ed) /\ Inside(ed)
      /\ before \in Seq(Hist) /\ Matched(ed.undo, before)
  BY DEF EditInv, Buffer, Undoing
<1>1. /\ p \in Ed(Nat) /\ p.lines = ed.lines /\ p.lines_cap = ed.lines_cap
      /\ p.cx = ed.cx /\ p.cy = ed.cy
  BY <1>0, PushFacts
<1>. HIDE DEF p
<1>2. Room(p) /\ Inside(p) BY <1>0, <1>1 DEF Room, Inside
<1>3. Phantom(p) <=> Phantom(ed) BY <1>1 DEF Phantom, nlines
<1>. QED BY <1>1, <1>2, <1>3 DEF p

(* The keys that edit. *)
LEMMA EditKeys ==
  ASSUME EditInv,
         (\E c \in Letters : KEY_CHAR(c)) \/ KEY_TAB \/ KEY_BACKSP \/ KEY_DEL
           \/ KEY_ENTER \/ KEY_ENTER_moved
  PROVE  EditInv'
<1>. DEFINE p == editor_snap_push(ed)
<1>0. mode = "edit" /\ file \in Text /\ stale \in BOOLEAN /\ Around
  BY DEF EditInv, Around, KEY_CHAR, KEY_TAB, KEY_BACKSP, KEY_DEL, KEY_ENTER, KEY_ENTER_moved, Key
<1>1. p \in Ed(Nat) /\ Room(p) /\ Inside(p) /\ (Phantom(p) <=> Phantom(ed)) BY <1>0, Pushed
<1>2. ASSUME NEW r, EditOf(p, r), EditWith(r), Key, mode' = mode, stale' \in BOOLEAN
      PROVE  EditInv'
  <2>1. Around' BY <1>0, <1>2, KeyFacts DEF EditWith
  <2>. QED BY <1>0, <1>2, <2>1, EditedFacts
<1>. HIDE DEF p
<1>3. ASSUME NEW c \in Letters, KEY_CHAR(c) PROVE EditInv'
  <2>1. c \in LineChars BY DEF LineChars
  <2>2. EditOf(p, editor_insert_char(p, c)) BY <1>1, <2>1, InsertChar DEF EditOf
  <2>3. EditWith(editor_insert_char(p, c)) /\ Key /\ mode' = mode /\ stale' \in BOOLEAN
    BY <1>0, <1>3 DEF KEY_CHAR, p
  <2>. QED BY <1>2, <2>2, <2>3
<1>4. CASE KEY_TAB
  <2>1. EditOf(p, InsertTab(p)) BY <1>1, TabFacts
  <2>2. EditWith(InsertTab(p)) /\ Key /\ mode' = mode /\ stale' \in BOOLEAN
    BY <1>0, <1>4 DEF KEY_TAB, p
  <2>. QED BY <1>2, <2>1, <2>2
<1>5. CASE KEY_BACKSP
  <2>1. EditOf(p, editor_delete_char(p)) BY <1>1, DeleteFacts
  <2>2. EditWith(editor_delete_char(p)) /\ Key /\ mode' = mode /\ stale' \in BOOLEAN
    BY <1>0, <1>5 DEF KEY_BACKSP, p
  <2>. QED BY <1>2, <2>1, <2>2
<1>6. CASE KEY_DEL
  <2>1. EditOf(p, editor_delete_forward(p)) BY <1>1, DeleteFacts
  <2>2. EditWith(editor_delete_forward(p)) /\ Key /\ mode' = mode /\ stale' \in BOOLEAN
    BY <1>0, <1>6 DEF KEY_DEL, p
  <2>. QED BY <1>2, <2>1, <2>2
<1>7. CASE KEY_ENTER
  <2>1. EditOf(p, editor_insert_newline(p)) BY <1>1, EnterFacts
  <2>2. EditWith(editor_insert_newline(p)) /\ Key /\ mode' = mode /\ stale' \in BOOLEAN
    BY <1>0, <1>7 DEF KEY_ENTER, p
  <2>. QED BY <1>2, <2>1, <2>2
<1>8. CASE KEY_ENTER_moved
  <2>1. CASE EditWith(StaleNewLine(p)) /\ UNCHANGED mode
    <3>1. ~Phantom(p) BY <1>1, <1>8 DEF KEY_ENTER_moved, Full
    <3>2. EditOf(p, StaleNewLine(p)) BY <1>1, <3>1, StaleFacts
    <3>3. Key /\ mode' = mode /\ stale' \in BOOLEAN BY <1>8, <2>1 DEF KEY_ENTER_moved
    <3>. QED BY <1>2, <2>1, <3>2, <3>3
  <2>2. CASE mode' = "crashed" /\ UNCHANGED <<ed, query, saved, kind, file, before, damaged>>
    <3>1. keys' \in 0 .. MaxKeys BY <1>0, <1>8, EditorAssumption DEF Around, Key, KEY_ENTER_moved
    <3>2. stale' = TRUE BY <1>8 DEF KEY_ENTER_moved
    <3>3. Around' BY <1>0, <2>2, <3>1, <3>2 DEF Around
    <3>4. Buffer' BY <2>2 DEF EditInv, Buffer
    <3>5. Undoing' BY <2>2 DEF EditInv, Undoing
    <3>6. CleanMeansSaved' BY <2>2 DEF CleanMeansSaved
    <3>. QED BY <3>3, <3>4, <3>5, <3>6 DEF EditInv
  <2>. QED BY <1>8, <2>1, <2>2 DEF KEY_ENTER_moved, p
<1>. QED BY <1>3, <1>4, <1>5, <1>6, <1>7, <1>8

(* The keys that move set the cursor and no more. *)
LEMMA MoveIs ==
  ASSUME EditInv,
         KEY_UP \/ KEY_DOWN \/ KEY_PAGE_UP \/ KEY_PAGE_DN
           \/ KEY_HOME \/ KEY_END \/ KEY_LEFT \/ KEY_RIGHT
  PROVE  \E x, y \in Int : Move([ed EXCEPT !.cx = x, !.cy = y])
<1>0. /\ ed \in Ed(Nat) /\ ed.cx \in Nat /\ ed.cy \in Nat /\ ScreenRows \in Nat
      /\ ed.lines \in Seq(Line) /\ Len(ed.lines) \in Nat
  BY EditorAssumption DEF EditInv, Buffer, Ed
<1>. DEFINE To(x, y) == [ed EXCEPT !.cx = x, !.cy = y]
<1>2. /\ ed = To(ed.cx, ed.cy)
      /\ \A y : [ed EXCEPT !.cy = y] = To(ed.cx, y)
      /\ \A x : [ed EXCEPT !.cx = x] = To(x, ed.cy)
  BY <1>0 DEF Ed
<1>3. \A x, y : [ed EXCEPT !.cy = y, !.cx = x] = To(x, y) BY <1>0 DEF Ed
<1>4. \A k \in 1 .. Len(ed.lines) : Len(ed.lines[k]) \in Int
  <2>1. \A k \in 1 .. Len(ed.lines) : ed.lines[k] \in Line BY <1>0, ElementOfSeq
  <2>. QED BY <2>1 DEF Line
<1>5. ~Phantom(ed) /\ mode = "edit" => Len(Cur(ed)) \in Int
  BY <1>0, CurFacts DEF EditInv, Buffer, Line
<1>m. mode = "edit" /\ ed.cy <= Len(ed.lines)
  BY DEF KEY_UP, KEY_DOWN, KEY_PAGE_UP, KEY_PAGE_DN, KEY_HOME, KEY_END, KEY_LEFT, KEY_RIGHT, Move,
     EditInv, Buffer, Inside
<1>. HIDE DEF To
<1>6. \E x, y \in Int : Move(To(x, y))
  <2>1. CASE KEY_UP
    <3>1. Move(To(ed.cx, ed.cy - 1)) BY <1>2, <2>1 DEF KEY_UP
    <3>2. ed.cx \in Int /\ ed.cy - 1 \in Int BY <1>0
    <3>. QED BY <3>1, <3>2
  <2>2. CASE KEY_DOWN
    <3>1. Move(To(ed.cx, ed.cy + 1)) BY <1>2, <2>2 DEF KEY_DOWN
    <3>2. ed.cx \in Int /\ ed.cy + 1 \in Int BY <1>0
    <3>. QED BY <3>1, <3>2
  <2>3. CASE KEY_PAGE_UP
    <3>1. Move(To(ed.cx, ed.cy - ScreenRows)) BY <1>2, <2>3 DEF KEY_PAGE_UP
    <3>2. ed.cx \in Int /\ ed.cy - ScreenRows \in Int BY <1>0
    <3>. QED BY <3>1, <3>2
  <2>4. CASE KEY_PAGE_DN
    <3>1. Move(To(ed.cx, ed.cy + ScreenRows)) BY <1>2, <2>4 DEF KEY_PAGE_DN
    <3>2. ed.cx \in Int /\ ed.cy + ScreenRows \in Int BY <1>0
    <3>. QED BY <3>1, <3>2
  <2>5. CASE KEY_HOME
    <3>1. Move(To(0, ed.cy)) BY <1>2, <2>5 DEF KEY_HOME
    <3>2. ed.cy \in Int BY <1>0
    <3>. QED BY <3>1, <3>2
  <2>6. CASE KEY_END
    <3>1. CASE Phantom(ed)
      <4>1. Move(To(ed.cx, ed.cy)) BY <1>2, <2>6, <3>1 DEF KEY_END
      <4>2. ed.cx \in Int /\ ed.cy \in Int BY <1>0
      <4>. QED BY <4>1, <4>2
    <3>2. CASE ~Phantom(ed)
      <4>1. Move(To(Len(Cur(ed)), ed.cy)) BY <1>2, <2>6, <3>2 DEF KEY_END
      <4>2. Len(Cur(ed)) \in Int /\ ed.cy \in Int BY <1>0, <1>5, <1>m, <3>2
      <4>. QED BY <4>1, <4>2
    <3>. QED BY <3>1, <3>2
  <2>7. CASE KEY_LEFT
    <3>1. CASE ed.cx > 0
      <4>1. Move(To(ed.cx - 1, ed.cy)) BY <1>2, <2>7, <3>1 DEF KEY_LEFT
      <4>2. ed.cx - 1 \in Int /\ ed.cy \in Int BY <1>0
      <4>. QED BY <4>1, <4>2
    <3>2. CASE ~(ed.cx > 0) /\ ed.cy > 0
      <4>1. Move(To(Len(ed.lines[ed.cy]), ed.cy - 1)) BY <1>3, <2>7, <3>2 DEF KEY_LEFT
      <4>2. ed.cy \in 1 .. Len(ed.lines) /\ ed.cy - 1 \in Int BY <1>0, <1>m, <3>2
      <4>3. Len(ed.lines[ed.cy]) \in Int BY <1>4, <4>2
      <4>. QED BY <4>1, <4>2, <4>3
    <3>3. CASE ~(ed.cx > 0) /\ ~(ed.cy > 0)
      <4>1. Move(To(ed.cx, ed.cy)) BY <1>2, <2>7, <3>3 DEF KEY_LEFT
      <4>2. ed.cx \in Int /\ ed.cy \in Int BY <1>0
      <4>. QED BY <4>1, <4>2
    <3>. QED BY <3>1, <3>2, <3>3
  <2>8. CASE KEY_RIGHT
    <3>1. CASE Phantom(ed)
      <4>1. Move(To(ed.cx, ed.cy)) BY <1>2, <2>8, <3>1 DEF KEY_RIGHT
      <4>2. ed.cx \in Int /\ ed.cy \in Int BY <1>0
      <4>. QED BY <4>1, <4>2
    <3>2. CASE ~Phantom(ed) /\ ed.cx < Len(Cur(ed))
      <4>1. Move(To(ed.cx + 1, ed.cy)) BY <1>2, <2>8, <3>2 DEF KEY_RIGHT
      <4>2. ed.cx + 1 \in Int /\ ed.cy \in Int BY <1>0
      <4>. QED BY <4>1, <4>2
    <3>3. CASE ~Phantom(ed) /\ ~(ed.cx < Len(Cur(ed)))
      <4>1. Move(To(0, ed.cy + 1)) BY <1>3, <2>8, <3>3 DEF KEY_RIGHT
      <4>2. ed.cy + 1 \in Int BY <1>0
      <4>. QED BY <4>1, <4>2
    <3>. QED BY <3>1, <3>2, <3>3
  <2>. QED BY <2>1, <2>2, <2>3, <2>4, <2>5, <2>6, <2>7, <2>8
<1>. QED BY <1>6 DEF To

(* The keys that move. *)
LEMMA MoveKeys ==
  ASSUME EditInv,
         KEY_UP \/ KEY_DOWN \/ KEY_PAGE_UP \/ KEY_PAGE_DN
           \/ KEY_HOME \/ KEY_END \/ KEY_LEFT \/ KEY_RIGHT
  PROVE  EditInv'
<1>0. /\ ed \in Ed(Nat) /\ ed.cx \in Nat /\ ed.cy \in Nat /\ ScreenRows \in Nat
      /\ ed.lines \in Seq(Line) /\ Len(ed.lines) \in Nat
  BY EditorAssumption DEF EditInv, Buffer, Ed
<1>1. ASSUME NEW x \in Int, NEW y \in Int, Move([ed EXCEPT !.cx = x, !.cy = y]) PROVE EditInv'
  <2>1. PICK e : e = [ed EXCEPT !.cx = x, !.cy = y] OBVIOUS
  <2>2. /\ e \in Ed(Int) /\ e.lines = ed.lines /\ e.lines_cap = ed.lines_cap
        /\ e.undo = ed.undo /\ e.dirty = ed.dirty
    BY <1>0, <2>1 DEF Ed
  <2>3. /\ mode = "edit" /\ mode' = "edit" /\ ed' = editor_clamp_cursor(e)
        /\ UNCHANGED <<mode, query, saved, kind, file, keys, before, damaged, stale>>
    BY <1>1, <2>1 DEF Move
  <2>4. Around' BY <2>3 DEF EditInv, Around
  <2>. QED BY <2>2, <2>3, <2>4, MovedFacts
<1>2. PICK x \in Int, y \in Int : Move([ed EXCEPT !.cx = x, !.cy = y]) BY MoveIs
<1>. QED BY <1>1, <1>2

(* A text that is read, or the empty line that stands for none. *)
LEMMA Opened ==
  ASSUME EditInv, mode = "open", mode' = "edit", NEW ls \in Seq(Line), Len(ls) >= 1,
         ed' = SetLines(ed, ls), UNCHANGED <<file, before>>, damaged' \/ Split(file) = ls, Around'
  PROVE  EditInv'
<1>1. ed \in Ed(Nat) /\ ed = Empty /\ Len(ed.undo) <= UndoMax BY DEF EditInv, Buffer
<1>2. /\ ed' \in Ed(Nat) /\ Room(ed') /\ ed'.lines = ls /\ ed'.undo = ed.undo
      /\ ed'.cx = ed.cx /\ ed'.cy = ed.cy
  BY <1>1, SetLinesFacts
<1>3. Inside(ed')
  <2>1. ed'.cx = 0 /\ ed'.cy = 0 BY <1>1, <1>2 DEF Empty
  <2>2. ls[1] \in Line /\ Len(ls) \in Nat BY ElementOfSeq
  <2>3. Len(ls[1]) \in Nat BY <2>2 DEF Line
  <2>4. 0 + 1 = 1 /\ 0 <= Len(ls) /\ 0 # Len(ls) BY <2>2
  <2>. QED BY <1>2, <2>1, <2>3, <2>4 DEF Inside
<1>4. Buffer' BY <1>1, <1>2, <1>3 DEF Buffer, Room
<1>5. Undoing' BY <1>2 DEF EditInv, Undoing
<1>6. CleanMeansSaved' BY <1>2 DEF CleanMeansSaved
<1>. QED BY <1>4, <1>5, <1>6 DEF EditInv

(* editor_open, with or without a text. *)
LEMMA OpenKeys ==
  ASSUME EditInv, editor_load \/ editor_load_null
  PROVE  EditInv'
<1>0. file \in Text BY DEF EditInv, Around
<1>1. CASE editor_load
  <2>1. Split(file) \in Seq(Line) /\ Len(Split(file)) >= 1 BY <1>0, SplitLines
  <2>2. Around' BY <1>1 DEF editor_load, EditInv, Around
  <2>. QED BY <1>1, <2>1, <2>2, Opened DEF editor_load
<1>2. CASE editor_load_null
  <2>1. CASE /\ mode' = "edit" /\ ed' = SetLines(ed, << <<>> >>)
             /\ kind' = IF kind = "missing" THEN "file" ELSE kind
             /\ damaged' = (file # <<>>)
    <3>1. PICK ls \in Seq(Line) : ls = << <<>> >> /\ Len(ls) >= 1
      <4>1. <<>> \in Line BY DEF Line
      <4>2. PICK l \in Line : l = <<>> BY <4>1
      <4>3. <<l>> \in Seq(Line) /\ Len(<<l>>) >= 1 OBVIOUS
      <4>. QED BY <4>2, <4>3
    <3>2. Around' BY <1>2, <2>1 DEF editor_load_null, EditInv, Around
    <3>3. Split(<<>>) = ls
      <4>1. Ends(<<>>) = {}
        <5>1. Len(<<>>) = 0 /\ \A i : i \notin 1 .. 0 OBVIOUS
        <5>. QED BY <5>1 DEF Ends
      <4>. QED BY <3>1, <4>1, SplitIs
    <3>4. damaged' \/ Split(file) = ls BY <2>1, <3>3
    <3>. QED BY <1>2, <2>1, <3>1, <3>2, <3>4, Opened DEF editor_load_null
  <2>2. CASE mode' = "done" /\ UNCHANGED <<ed, kind, damaged>>
    <3>1. UNCHANGED <<query, saved, file, keys, before, stale>> BY <1>2 DEF editor_load_null
    <3>2. Around' BY <2>2, <3>1 DEF EditInv, Around
    <3>3. Buffer' BY <2>2 DEF EditInv, Buffer
    <3>4. Undoing' BY <2>2, <3>1 DEF EditInv, Undoing
    <3>5. CleanMeansSaved' BY <2>2 DEF CleanMeansSaved
    <3>. QED BY <3>2, <3>3, <3>4, <3>5 DEF EditInv
  <2>. QED BY <1>2, <2>1, <2>2 DEF editor_load_null
<1>. QED BY <1>1, <1>2

(* Undo, quit and save. *)
LEMMA ControlKeys ==
  ASSUME EditInv, CTRL_Z \/ CTRL_Q \/ CTRL_S
  PROVE  EditInv'
<1>0. /\ ed \in Ed(Nat) /\ Len(ed.undo) <= UndoMax /\ Len(ed.undo) \in Nat
      /\ UndoMax \in Nat /\ before \in Seq(Hist) /\ Matched(ed.undo, before)
      /\ Around /\ file \in Text /\ stale \in BOOLEAN /\ mode = "edit" /\ Room(ed) /\ Inside(ed)
  BY EditorAssumption DEF EditInv, Buffer, Undoing, Around, Ed, CTRL_Z, CTRL_Q, CTRL_S, Key
<1>1. CASE CTRL_Z
  <2>. DEFINE p == editor_snap_pop(ed)
              c == SubSeq(before, 1, Len(before) - 1)
  <2>1. /\ p \in Ed(Nat) /\ Room(p) /\ Inside(p) /\ p.dirty
        /\ Len(p.undo) <= Len(ed.undo) /\ c \in Seq(Hist) /\ Matched(p.undo, c)
    BY <1>0, <1>1, PopFacts DEF CTRL_Z
  <2>2. /\ ed' = editor_clamp_cursor(p) /\ before' = c /\ mode' = mode
        /\ UNCHANGED <<query, saved, kind, file, damaged, stale>> /\ Key
    BY <1>1 DEF CTRL_Z
  <2>. HIDE DEF p, c
  <2>3. p \in Ed(Int) /\ p.undo \in Seq(Snap) /\ Len(p.undo) \in Nat BY <2>1 DEF Ed
  <2>4. /\ ed' \in Ed(Nat) /\ Room(ed') /\ Inside(ed') /\ ed'.undo = p.undo /\ ed'.dirty = p.dirty
    BY <2>1, <2>2, <2>3, ClampFacts
  <2>5. Len(ed'.undo) <= UndoMax BY <1>0, <2>1, <2>3, <2>4
  <2>6. Buffer' BY <1>0, <2>2, <2>4, <2>5 DEF Buffer, Room
  <2>7. Undoing' BY <2>1, <2>2, <2>4 DEF Undoing
  <2>8. CleanMeansSaved' BY <2>1, <2>4 DEF CleanMeansSaved
  <2>9. Around' BY <1>0, <2>2, KeyFacts
  <2>. QED BY <2>6, <2>7, <2>8, <2>9 DEF EditInv
<1>2. CASE CTRL_Q
  <2>1. UNCHANGED <<query, saved, kind, file, keys, before, damaged, stale>> BY <1>2 DEF CTRL_Q
  <2>2. CASE ed' = [ed EXCEPT !.quit_confirm = @ - 1] /\ UNCHANGED mode /\ ed.quit_confirm > 0
    <3>1. ed.quit_confirm = 1 BY <1>0, <2>2 DEF Ed
    <3>2. /\ ed' \in Ed(Nat) /\ ed'.lines = ed.lines /\ ed'.lines_cap = ed.lines_cap
          /\ ed'.cx = ed.cx /\ ed'.cy = ed.cy /\ ed'.undo = ed.undo /\ ed'.dirty = ed.dirty
      <4>1. ed' = [ed EXCEPT !.quit_confirm = 0] BY <2>2, <3>1
      <4>. QED BY <1>0, <4>1 DEF Ed
    <3>3. Buffer' BY <1>0, <2>2, <3>2 DEF Buffer, Room, Inside
    <3>4. Undoing' BY <1>0, <2>1, <3>2 DEF Undoing
    <3>5. CleanMeansSaved' BY <2>1, <2>2, <3>2 DEF EditInv, CleanMeansSaved
    <3>6. Around' BY <1>0, <2>1, <2>2 DEF Around
    <3>. QED BY <3>3, <3>4, <3>5, <3>6 DEF EditInv
  <2>3. CASE mode' = "done" /\ UNCHANGED ed
    <3>1. Around' BY <1>0, <2>1, <2>3 DEF Around
    <3>2. Buffer' BY <2>3 DEF EditInv, Buffer
    <3>3. Undoing' BY <1>0, <2>1, <2>3 DEF Undoing
    <3>4. CleanMeansSaved' BY <2>3 DEF CleanMeansSaved
    <3>. QED BY <3>1, <3>2, <3>3, <3>4 DEF EditInv
  <2>. QED BY <1>2, <2>2, <2>3 DEF CTRL_Q
<1>3. CASE CTRL_S
  <2>1. Key /\ UNCHANGED <<mode, query, saved, kind, before, stale>> BY <1>3 DEF CTRL_S
  <2>2. keys' \in 0 .. MaxKeys BY <1>0, <2>1, EditorAssumption DEF Around, Key
  <2>3. ed.lines \in Seq(Line) /\ ed.lines # <<>> BY <1>0 DEF Ed, Room
  <2>4. PICK t \in Text : t = Serialize(ed.lines) /\ Split(t) = ed.lines
    BY <2>3, SerializeLaid, RoundTrip DEF Laid
  <2>5. ASSUME file' \in Text, damaged' \in BOOLEAN PROVE Around'
    BY <1>0, <2>1, <2>2, <2>5 DEF Around
  <2>6. ASSUME ed' = [ed EXCEPT !.dirty = FALSE, !.quit_confirm = 1]
        PROVE  /\ ed'.lines = ed.lines /\ Buffer' /\ Undoing'
    <3>1. /\ ed' \in Ed(Nat) /\ ed'.lines = ed.lines /\ ed'.lines_cap = ed.lines_cap
          /\ ed'.cx = ed.cx /\ ed'.cy = ed.cy /\ ed'.undo = ed.undo
      BY <1>0, <2>6 DEF Ed
    <3>2. Buffer' BY <1>0, <2>1, <3>1 DEF Buffer, Room, Inside
    <3>3. Undoing' BY <1>0, <2>1, <3>1 DEF Undoing
    <3>. QED BY <3>1, <3>2, <3>3
  <2>7. CASE save_ok
    <3>1. file' = t /\ damaged' = FALSE /\ ed' = [ed EXCEPT !.dirty = FALSE, !.quit_confirm = 1]
      BY <2>4, <2>7 DEF save_ok
    <3>2. CleanMeansSaved' BY <2>4, <2>6, <3>1 DEF CleanMeansSaved
    <3>. QED BY <2>5, <2>6, <3>1, <3>2 DEF EditInv
  <2>8. CASE save_short
    <3>1. /\ file' = SubSeq(t, 1, Len(t) \div 2) /\ damaged' = TRUE
          /\ ed' = [ed EXCEPT !.dirty = FALSE, !.quit_confirm = 1]
      BY <2>4, <2>8 DEF save_short
    <3>2. file' \in Text
      <4>1. PICK n \in Nat : n = Len(t) BY DEF Text
      <4>2. PICK m \in Nat : m = n \div 2 /\ m <= n
        <5>1. n \div 2 \in Nat /\ n \div 2 <= n OBVIOUS
        <5>. QED BY <5>1
      <4>3. SubSeq(t, 1, m) \in Text BY <4>1, <4>2, Front DEF Text
      <4>. QED BY <3>1, <4>1, <4>2, <4>3
    <3>3. CleanMeansSaved' BY <3>1 DEF CleanMeansSaved
    <3>. QED BY <2>5, <2>6, <3>1, <3>2, <3>3 DEF EditInv
  <2>9. CASE save_error
    <3>1. UNCHANGED ed /\ file' \in {file, <<>>} /\ damaged' = (damaged \/ (~ed.dirty /\ file' # file))
      BY <2>9 DEF save_error
    <3>2. <<>> \in Text /\ damaged \in BOOLEAN BY <1>0 DEF Text, Around
    <3>3. file' \in Text /\ damaged' \in BOOLEAN BY <1>0, <3>1, <3>2
    <3>4. Buffer' BY <2>1, <3>1 DEF EditInv, Buffer
    <3>5. Undoing' BY <1>0, <2>1, <3>1 DEF Undoing
    <3>6. CleanMeansSaved' BY <2>1, <3>1 DEF EditInv, CleanMeansSaved
    <3>. QED BY <2>5, <3>3, <3>4, <3>5, <3>6 DEF EditInv
  <2>. QED BY <1>3, <2>7, <2>8, <2>9 DEF CTRL_S
<1>. QED BY <1>1, <1>2, <1>3

(* The search. *)
LEMMA FindKeys ==
  ASSUME EditInv,
         CTRL_F \/ (\E c \in Letters : find_char(c)) \/ find_down \/ find_up \/ find_backsp
           \/ find_enter \/ find_esc
  PROVE  EditInv'
<1>0. /\ ed \in Ed(Nat) /\ ed.cx \in Nat /\ ed.cy \in Nat /\ Len(ed.undo) <= UndoMax
      /\ before \in Seq(Hist) /\ Matched(ed.undo, before) /\ Around
      /\ query \in Seq(Letters) /\ Len(query) \in Nat /\ Len(query) <= QueryMax /\ QueryMax \in Nat
      /\ saved \in [cx : Nat, cy : Nat]
  BY EditorAssumption DEF EditInv, Buffer, Undoing, Around, Ed
<1>1. CASE CTRL_F
  <2>1. Key /\ mode' = "find" /\ query' = <<>> /\ saved' = [cx |-> ed.cx, cy |-> ed.cy]
        /\ UNCHANGED <<ed, kind, file, before, damaged, stale>>
    BY <1>1 DEF CTRL_F
  <2>2. keys' \in 0 .. MaxKeys BY <1>0, <2>1, EditorAssumption DEF Around, Key
  <2>3. query' \in Seq(Letters) /\ Len(query') <= QueryMax
    <3>1. <<>> \in Seq(Letters) /\ Len(<<>>) = 0 OBVIOUS
    <3>2. 0 <= QueryMax BY <1>0
    <3>. QED BY <2>1, <3>1, <3>2
  <2>4. saved' \in [cx : Nat, cy : Nat] BY <1>0, <2>1
  <2>5. Around' BY <1>0, <2>1, <2>2, <2>3, <2>4 DEF Around
  <2>6. mode = "edit" BY <2>1 DEF Key
  <2>7. Buffer' BY <2>1, <2>6 DEF EditInv, Buffer
  <2>8. Undoing' BY <1>0, <2>1 DEF Undoing
  <2>9. CleanMeansSaved' BY <2>1, <2>6 DEF EditInv, CleanMeansSaved
  <2>. QED BY <2>5, <2>7, <2>8, <2>9 DEF EditInv
<1>2. ASSUME NEW q \in Seq(Letters), Len(q) <= QueryMax, NEW dir \in {1, -1}, Find(q, dir)
      PROVE  EditInv'
  <2>1. /\ mode = "find" /\ ed' = editor_find_next(ed, q, dir) /\ query' = q
        /\ UNCHANGED <<mode, saved, kind, file, keys, before, damaged, stale>>
    BY <1>2 DEF Find
  <2>2. Room(ed) /\ Inside(ed) BY <2>1 DEF EditInv, Buffer
  <2>3. /\ ed' \in Ed(Nat) /\ Room(ed') /\ Inside(ed') /\ ed'.lines = ed.lines
        /\ ed'.undo = ed.undo /\ ed'.dirty = ed.dirty
    BY <1>0, <2>1, <2>2, FindFacts
  <2>4. Around' BY <1>0, <1>2, <2>1 DEF Around
  <2>5. Buffer' BY <1>0, <2>1, <2>3 DEF Buffer, Room
  <2>6. Undoing' BY <1>0, <2>1, <2>3 DEF Undoing
  <2>7. CleanMeansSaved' BY <2>1, <2>3 DEF EditInv, CleanMeansSaved
  <2>. QED BY <2>4, <2>5, <2>6, <2>7 DEF EditInv
<1>3. ASSUME NEW c \in Letters, find_char(c) PROVE EditInv'
  <2>1. Append(query, c) \in Seq(Letters) /\ Len(Append(query, c)) = Len(query) + 1
    BY <1>0, AppendProperties
  <2>2. Len(query) < QueryMax /\ Find(Append(query, c), 1) BY <1>3 DEF find_char
  <2>3. Len(Append(query, c)) <= QueryMax BY <1>0, <2>1, <2>2
  <2>. QED BY <1>2, <2>1, <2>2, <2>3
<1>4. CASE find_down BY <1>0, <1>2, <1>4 DEF find_down
<1>5. CASE find_up BY <1>0, <1>2, <1>5 DEF find_up
<1>6. CASE find_backsp
  <2>1. /\ query # <<>> /\ query' = SubSeq(query, 1, Len(query) - 1)
        /\ UNCHANGED <<ed, mode, saved, kind, file, keys, before, damaged, stale>>
    BY <1>6 DEF find_backsp
  <2>2. PICK m \in Nat : m = Len(query) - 1 /\ m <= Len(query) /\ m <= QueryMax
    <3>1. Len(query) # 0 BY <1>0, <2>1
    <3>2. PICK n \in Nat : n = Len(query) /\ n # 0 /\ n <= QueryMax BY <1>0, <3>1
    <3>3. n - 1 \in Nat /\ n - 1 <= n /\ n - 1 <= QueryMax BY <1>0, <3>2
    <3>. QED BY <3>2, <3>3
  <2>3. SubSeq(query, 1, m) \in Seq(Letters) /\ Len(SubSeq(query, 1, m)) = m BY <1>0, <2>2, Front
  <2>4. query' \in Seq(Letters) /\ Len(query') <= QueryMax BY <2>1, <2>2, <2>3
  <2>5. Around' BY <1>0, <2>1, <2>4 DEF Around
  <2>6. Buffer' BY <2>1 DEF EditInv, Buffer
  <2>7. Undoing' BY <1>0, <2>1 DEF Undoing
  <2>8. CleanMeansSaved' BY <2>1 DEF EditInv, CleanMeansSaved
  <2>. QED BY <2>5, <2>6, <2>7, <2>8 DEF EditInv
<1>7. ASSUME NEW e \in Ed(Int), LeaveFind(e), e.lines = ed.lines, e.lines_cap = ed.lines_cap,
             e.undo = ed.undo, e.dirty = ed.dirty
      PROVE  EditInv'
  <2>1. /\ mode = "find" /\ mode' = "edit" /\ query' = <<>> /\ ed' = editor_clamp_cursor(e)
        /\ saved' = [cx |-> 0, cy |-> 0]
        /\ UNCHANGED <<kind, file, keys, before, damaged, stale>>
    BY <1>7 DEF LeaveFind
  <2>2. query' \in Seq(Letters) /\ Len(query') <= QueryMax
    <3>1. <<>> \in Seq(Letters) /\ Len(<<>>) = 0 OBVIOUS
    <3>2. 0 <= QueryMax BY <1>0
    <3>. QED BY <2>1, <3>1, <3>2
  <2>3. saved' \in [cx : Nat, cy : Nat] BY <2>1
  <2>4. Around' BY <1>0, <2>1, <2>2, <2>3 DEF Around
  <2>. QED BY <1>7, <2>1, <2>4, MovedFacts
<1>8. CASE find_enter
  <2>1. ed \in Ed(Int) BY <1>0 DEF Ed
  <2>. QED BY <1>7, <1>8, <2>1 DEF find_enter
<1>9. CASE find_esc
  <2>1. PICK e : e = [ed EXCEPT !.cx = saved.cx, !.cy = saved.cy] OBVIOUS
  <2>2. saved.cx \in Int /\ saved.cy \in Int BY <1>0
  <2>3. /\ e \in Ed(Int) /\ e.lines = ed.lines /\ e.lines_cap = ed.lines_cap
        /\ e.undo = ed.undo /\ e.dirty = ed.dirty
    BY <1>0, <2>1, <2>2 DEF Ed
  <2>4. LeaveFind(e) BY <1>9, <2>1 DEF find_esc
  <2>. QED BY <1>7, <2>3, <2>4
<1>. QED BY <1>1, <1>3, <1>4, <1>5, <1>6, <1>8, <1>9

(* Every key preserves the invariant. *)
LEMMA EditNext == EditInv /\ [Next]_vars => EditInv'
<1>. SUFFICES ASSUME EditInv, [Next]_vars PROVE EditInv' OBVIOUS
<1>1. CASE UNCHANGED vars
  <2>1. UNCHANGED <<ed, mode, query, saved, kind, file, keys, before, damaged, stale>>
    BY <1>1 DEF vars
  <2>2. Around' BY <2>1 DEF EditInv, Around
  <2>3. Buffer' BY <2>1 DEF EditInv, Buffer
  <2>4. Undoing' BY <2>1 DEF EditInv, Undoing
  <2>5. CleanMeansSaved' BY <2>1 DEF EditInv, CleanMeansSaved
  <2>. QED BY <2>2, <2>3, <2>4, <2>5 DEF EditInv
<1>2. CASE editor_load \/ editor_load_null BY <1>2, OpenKeys
<1>3. CASE (\E c \in Letters : KEY_CHAR(c)) \/ KEY_TAB \/ KEY_BACKSP \/ KEY_DEL
             \/ KEY_ENTER \/ KEY_ENTER_moved
  BY <1>3, EditKeys
<1>4. CASE KEY_UP \/ KEY_DOWN \/ KEY_PAGE_UP \/ KEY_PAGE_DN
             \/ KEY_HOME \/ KEY_END \/ KEY_LEFT \/ KEY_RIGHT
  BY <1>4, MoveKeys
<1>5. CASE CTRL_Z \/ CTRL_Q \/ CTRL_S BY <1>5, ControlKeys
<1>6. CASE CTRL_F \/ (\E c \in Letters : find_char(c)) \/ find_down \/ find_up \/ find_backsp
             \/ find_enter \/ find_esc
  BY <1>6, FindKeys
<1>7. CASE Finished BY <1>1, <1>7 DEF Finished
<1>. QED BY <1>1, <1>2, <1>3, <1>4, <1>5, <1>6, <1>7 DEF Next

(* The invariant of an editor session. *)
THEOREM EditorInvariant == Spec => []EditInv
<1>. QED BY EditInit, EditNext, PTL DEF Spec

(* The text never holds a newline inside a line, the undo stack never      *)
(* outgrows UNDO_MAX, and editor_append_line always has made room before   *)
(* it stores a line.                                                       *)
THEOREM EditorTypeCorrect == Spec => []TypeOK
<1>1. EditInv => TypeOK
  <2>. SUFFICES ASSUME EditInv PROVE TypeOK OBVIOUS
  <2>1. /\ ed.lines \in Seq(Line) /\ ed.cx \in Nat /\ ed.cy \in Nat /\ ed.lines_cap \in Nat
        /\ ed.dirty \in BOOLEAN /\ ed.quit_confirm \in {0, 1} /\ ed.undo \in Seq(Snap)
        /\ Len(ed.undo) <= UndoMax /\ Len(ed.lines) <= ed.lines_cap
    BY DEF EditInv, Buffer, Ed
  <2>2. \A i \in 1 .. Len(ed.undo) : ed.undo[i] \in Snap BY <2>1, ElementOfSeq
  <2>3. \A i \in 1 .. Len(ed.undo) : ed.undo[i].text \in Text BY <2>2 DEF Snap
  <2>4. Around BY DEF EditInv
  <2>. QED BY <2>1, <2>3, <2>4 DEF TypeOK, Around, Line, LineChars, nlines
<1>. QED BY <1>1, EditorInvariant, PTL

(* After every key the cursor is inside the text, so no operation of the   *)
(* editor copies from beyond a line.                                       *)
THEOREM CursorAlwaysInside == Spec => []CursorInside
<1>1. EditInv => CursorInside
  BY DEF EditInv, Buffer, Room, Inside, CursorInside, nlines, Phantom, Cur
<1>. QED BY <1>1, EditorInvariant, PTL

(* Each level of undo is the text before that edit, through serialization  *)
(* and splitting, for every size of the stack.                             *)
THEOREM UndoAlwaysMatches == Spec => []UndoMatches
<1>1. EditInv => UndoMatches BY DEF EditInv, Undoing, Matched, UndoMatches
<1>. QED BY <1>1, EditorInvariant, PTL

(* A session without the mark of unsaved changes can be left: the file     *)
(* splits into the lines on the screen.                                    *)
THEOREM CleanAlwaysSaved == Spec => []CleanMeansSaved
<1>1. EditInv => CleanMeansSaved BY DEF EditInv
<1>. QED BY <1>1, EditorInvariant, PTL

-----------------------------------------------------------------------------
(* Searching.  A '\0' gets into the text only through the stale pointer of *)
(* editor_insert_newline; without one, what strstr sees of a line is the   *)
(* whole line.                                                             *)

PlainChars == Letters \cup {SP}

Plain(ls) == ls \in Seq(Seq(PlainChars))

(* Plain characters are characters of a line, and neither end one. *)
LEMMA PlainCharFacts ==
  /\ PlainChars \subseteq LineChars /\ SP \in PlainChars
  /\ NUL \notin PlainChars /\ NL \notin PlainChars /\ NL \notin LineChars
<1>1. NL \notin Letters /\ NUL \notin Letters BY EditorAssumption
<1>2. NL # SP /\ NUL # SP /\ NL # NUL BY DEF NL, SP, NUL
<1>. QED BY <1>1, <1>2 DEF PlainChars, LineChars

(* A file without '\0' is read into plain lines. *)
LEMMA SplitPlain ==
  ASSUME NEW t \in Seq(PlainChars \cup {NL})
  PROVE  Plain(Split(t))
<1>0. t \in Text /\ Len(t) \in Nat /\ \A p \in 1 .. Len(t) : t[p] \in PlainChars \cup {NL}
  <2>1. PlainChars \cup {NL} \subseteq Letters \cup {SP, NL, NUL} BY DEF PlainChars
  <2>2. t \in Text BY <2>1, SeqMonotonic DEF Text
  <2>. QED BY <2>2, ElementOfSeq
<1>1. CASE Ends(t) = {}
  <2>1. Split(t) = << <<>> >> BY <1>1, SplitIs
  <2>2. <<>> \in Seq(PlainChars) OBVIOUS
  <2>3. PICK l \in Seq(PlainChars) : l = <<>> BY <2>2
  <2>4. <<l>> \in Seq(Seq(PlainChars)) OBVIOUS
  <2>. QED BY <2>1, <2>3, <2>4 DEF Plain
<1>2. CASE Ends(t) # {}
  <2>. DEFINE N == Cardinality(Ends(t))
              part(k) == SubSeq(t, EndOf(t, k - 1) + 1, EndOf(t, k) - 1)
  <2>1. Split(t) = [k \in 1 .. N |-> part(k)] BY <1>2, SplitIs
  <2>2. N \in Nat BY <1>0, EndFacts
  <2>3. ASSUME NEW k \in 1 .. N PROVE part(k) \in Seq(PlainChars)
    <3>0. /\ EndOf(t, k - 1) \in 0 .. Len(t) + 1 /\ EndOf(t, k) \in 1 .. Len(t) + 1
          /\ \A p \in EndOf(t, k - 1) + 1 .. EndOf(t, k) - 1 : t[p] \in LineChars
      BY <1>0, EndFacts
    <3>1. PICK i \in Int, j \in Int :
            i = EndOf(t, k - 1) + 1 /\ j = EndOf(t, k) - 1 /\ i >= 1 /\ j <= Len(t)
      BY <1>0, <3>0
    <3>2. ASSUME NEW p \in i .. j PROVE t[p] \in PlainChars
      <4>1. p \in 1 .. Len(t) BY <1>0, <3>1
      <4>2. t[p] \in LineChars BY <3>0, <3>1
      <4>. QED BY <1>0, <4>1, <4>2, PlainCharFacts
    <3>3. SubSeq(t, i, j) \in Seq(PlainChars) BY <3>2, SubSeqProperties
    <3>. QED BY <3>1, <3>3
  <2>. HIDE DEF N, part
  <2>4. Split(t) \in [1 .. N -> Seq(PlainChars)] BY <2>1, <2>3
  <2>5. Split(t) \in Seq(Seq(PlainChars)) BY <2>2, <2>4, FunctionIsSeq
  <2>. QED BY <2>5 DEF Plain
<1>. QED BY <1>1, <1>2

(* A character typed into plain lines. *)
LEMMA InsertPlain ==
  ASSUME NEW e \in Ed(Nat), Room(e), Inside(e), Plain(e.lines), NEW c \in PlainChars
  PROVE  Plain(editor_insert_char(e, c).lines)
<1>1. c \in LineChars BY PlainCharFacts
<1>2. PICK L \in Seq(Seq(PlainChars)) : L = Filled(e)
  <2>1. <<>> \in Seq(PlainChars) /\ e.lines \in Seq(Seq(PlainChars)) BY DEF Plain
  <2>2. Append(e.lines, <<>>) \in Seq(Seq(PlainChars)) BY <2>1, AppendProperties
  <2>. QED BY <2>1, <2>2 DEF Filled
<1>3. PICK k \in 1 .. Len(L) :
        /\ k = e.cy + 1 /\ e.cx <= Len(L[k]) /\ e.cx \in Nat
        /\ editor_insert_char(e, c).lines = [L EXCEPT ![k] = line_insert_char(L[k], e.cx, c)]
  <2>1. e.cx \in Nat BY DEF Ed
  <2>. QED BY <1>1, <1>2, <2>1, InsertChar
<1>4. L[k] \in Seq(PlainChars) BY <1>2, ElementOfSeq
<1>5. PICK n \in Seq(PlainChars) : n = line_insert_char(L[k], e.cx, c) BY <1>3, <1>4, LineOps
<1>6. [L EXCEPT ![k] = n] \in Seq(Seq(PlainChars)) BY ExceptSeq
<1>. QED BY <1>3, <1>5, <1>6 DEF Plain

(* A tab. *)
LEMMA TabPlain ==
  ASSUME NEW e \in Ed(Nat), Room(e), Inside(e), Plain(e.lines)
  PROVE  Plain(InsertTab(e).lines)
<1>1. PICK f : Spaces(e, f, TabSize) /\ InsertTab(e) = f[TabSize] BY TabIs
<1>2. TabSize \in Nat \ {0} BY EditorAssumption
<1>. DEFINE OK(r) == r \in Ed(Nat) /\ Room(r) /\ Inside(r) /\ Plain(r.lines)
            G == {n \in Nat : n <= TabSize => OK(f[n])}
<1>3. 0 \in G
  <2>1. f[0] = e BY <1>1, <1>2 DEF Spaces
  <2>. QED BY <2>1
<1>4. ASSUME NEW n \in Nat, n \in G PROVE n + 1 \in G
  <2>. SUFFICES ASSUME n + 1 <= TabSize PROVE OK(f[n + 1]) OBVIOUS
  <2>1. f[n + 1] = editor_insert_char(f[n], SP)
    <3>1. n + 1 \in 0 .. TabSize /\ n + 1 # 0 /\ (n + 1) - 1 = n BY <1>2
    <3>. QED BY <1>1, <3>1 DEF Spaces
  <2>2. PICK x : x = f[n] OBVIOUS
  <2>3. OK(x) BY <1>2, <1>4, <2>2
  <2>4. SP \in LineChars /\ SP \in PlainChars BY PlainCharFacts
  <2>5. PICK y : y = editor_insert_char(x, SP) OBVIOUS
  <2>6. y \in Ed(Nat) /\ Room(y) /\ Inside(y) BY <2>3, <2>4, <2>5, InsertChar
  <2>7. Plain(y.lines) BY <2>3, <2>4, <2>5, InsertPlain
  <2>. QED BY <2>1, <2>2, <2>5, <2>6, <2>7
<1>5. Nat \subseteq G
  <2>. HIDE DEF G
  <2>. QED BY <1>3, <1>4, NatSetInduction
<1>. QED BY <1>1, <1>2, <1>5

(* The delete keys. *)
LEMMA DeletePlain ==
  ASSUME NEW e \in Ed(Nat), Room(e), Inside(e), Plain(e.lines)
  PROVE  Plain(editor_delete_char(e).lines) /\ Plain(editor_delete_forward(e).lines)
<1>1. CASE Phantom(e) BY <1>1 DEF editor_delete_char, editor_delete_forward
<1>2. CASE ~Phantom(e)
  <2>0. /\ e.cx \in Nat /\ e.cy \in Nat /\ e.lines \in Seq(Seq(PlainChars)) /\ Len(e.lines) \in Nat
        /\ e.cy < Len(e.lines) /\ e.cx <= Len(Cur(e)) /\ Len(Cur(e)) \in Nat
    BY <1>2, CurFacts DEF Ed, Plain, Line
  <2>1. ASSUME NEW at \in Nat, at < Len(Cur(e))
        PROVE  [e.lines EXCEPT ![e.cy + 1] = line_delete_char(Cur(e), at)] \in Seq(Seq(PlainChars))
    <3>1. PICK k \in 1 .. Len(e.lines) : k = e.cy + 1 BY <2>0
    <3>2. e.lines[k] \in Seq(PlainChars) /\ Cur(e) = e.lines[k]
      BY <2>0, <3>1, ElementOfSeq DEF Cur
    <3>3. at <= Len(e.lines[k]) /\ at < Len(e.lines[k]) BY <2>0, <2>1, <3>2
    <3>4. PICK n \in Seq(PlainChars) : n = line_delete_char(Cur(e), at)
      <4>1. SP \in PlainChars BY PlainCharFacts
      <4>. QED BY <3>2, <3>3, <4>1, LineOps
    <3>5. [e.lines EXCEPT ![k] = n] \in Seq(Seq(PlainChars)) BY <2>0, ExceptSeq
    <3>. QED BY <3>1, <3>4, <3>5
  <2>2. ASSUME NEW row \in Nat, row + 2 <= Len(e.lines)
        PROVE  Join(e.lines, row) \in Seq(Seq(PlainChars))
    BY <2>0, <2>2, JoinFacts
  <2>3. ASSUME NEW ls \in Seq(Seq(PlainChars)), NEW x, NEW y PROVE Plain(Changed(e, ls, x, y).lines)
    BY ChangedFacts DEF Plain
  <2>4. Plain(editor_delete_char(e).lines)
    <3>1. CASE e.cx > 0
      <4>1. e.cx - 1 \in Nat /\ e.cx - 1 < Len(Cur(e)) BY <2>0, <3>1
      <4>2. editor_delete_char(e) =
              Changed(e, [e.lines EXCEPT ![e.cy + 1] = line_delete_char(Cur(e), e.cx - 1)],
                      e.cx - 1, e.cy)
        BY <1>2, <3>1, DeleteIs
      <4>. QED BY <2>1, <2>3, <4>1, <4>2
    <3>2. CASE e.cx = 0 /\ e.cy > 0
      <4>1. e.cy - 1 \in Nat /\ (e.cy - 1) + 2 <= Len(e.lines) BY <2>0, <3>2
      <4>2. editor_delete_char(e) =
              Changed(e, Join(e.lines, e.cy - 1), Len(e.lines[e.cy]), e.cy - 1)
        BY <1>2, <3>2, DeleteIs
      <4>. QED BY <2>2, <2>3, <4>1, <4>2
    <3>3. CASE e.cx = 0 /\ e.cy = 0 BY <1>2, <2>0, <2>3, <3>3, DeleteIs
    <3>4. e.cx > 0 \/ (e.cx = 0 /\ e.cy > 0) \/ (e.cx = 0 /\ e.cy = 0) BY <2>0
    <3>. QED BY <3>1, <3>2, <3>3, <3>4
  <2>5. Plain(editor_delete_forward(e).lines)
    <3>1. CASE e.cx < Len(Cur(e))
      <4>1. editor_delete_forward(e) =
              Changed(e, [e.lines EXCEPT ![e.cy + 1] = line_delete_char(Cur(e), e.cx)],
                      e.cx, e.cy)
        BY <1>2, <3>1, DeleteIs
      <4>. QED BY <2>0, <2>1, <2>3, <3>1, <4>1
    <3>2. CASE e.cx = Len(Cur(e)) /\ e.cy + 1 < Len(e.lines)
      <4>1. e.cy + 2 <= Len(e.lines) BY <2>0, <3>2
      <4>2. editor_delete_forward(e) = Changed(e, Join(e.lines, e.cy), e.cx, e.cy)
        BY <1>2, <3>2, DeleteIs
      <4>. QED BY <2>0, <2>2, <2>3, <4>1, <4>2
    <3>3. CASE e.cx = Len(Cur(e)) /\ e.cy + 1 = Len(e.lines) BY <1>2, <3>3, DeleteIs
    <3>4. \/ e.cx < Len(Cur(e))
          \/ e.cx = Len(Cur(e)) /\ e.cy + 1 < Len(e.lines)
          \/ e.cx = Len(Cur(e)) /\ e.cy + 1 = Len(e.lines)
      BY <2>0
    <3>. QED BY <3>1, <3>2, <3>3, <3>4
  <2>. QED BY <2>4, <2>5
<1>. QED BY <1>1, <1>2

(* Enter. *)
LEMMA EnterPlain ==
  ASSUME NEW e \in Ed(Nat), Room(e), Inside(e), Plain(e.lines)
  PROVE  Plain(editor_insert_newline(e).lines)
<1>1. CASE Phantom(e)
  <2>1. PICK s \in Ed(Nat) : s = editor_append_line(e, <<>>) /\ s.lines = Append(e.lines, <<>>)
    BY AppendLine
  <2>2. editor_insert_newline(e) = [s EXCEPT !.cy = @ + 1, !.cx = 0, !.dirty = TRUE]
    BY <1>1, <2>1 DEF editor_insert_newline
  <2>3. editor_insert_newline(e).lines = s.lines BY <2>2 DEF Ed
  <2>4. <<>> \in Seq(PlainChars) /\ e.lines \in Seq(Seq(PlainChars)) BY DEF Plain
  <2>5. Append(e.lines, <<>>) \in Seq(Seq(PlainChars)) BY <2>4, AppendProperties
  <2>. QED BY <2>1, <2>3, <2>5 DEF Plain
<1>2. CASE ~Phantom(e)
  <2>. DEFINE first == SubSeq(Cur(e), 1, e.cx)
  <2>0. /\ e.cx \in Nat /\ e.cy \in Nat /\ e.lines \in Seq(Seq(PlainChars)) /\ Len(e.lines) \in Nat
        /\ e.cy < Len(e.lines) /\ e.cy + 1 \in 1 .. Len(e.lines)
        /\ Cur(e) \in Line /\ e.cx <= Len(Cur(e))
    BY <1>2, CurFacts DEF Ed, Plain
  <2>1. PICK l \in Seq(PlainChars) : l = Cur(e) BY <2>0, ElementOfSeq DEF Cur
  <2>a. PICK x \in Nat, y \in Nat, n \in Nat, w \in Nat :
          /\ x = e.cx /\ y = e.cy /\ n = Len(e.lines) /\ w = Len(l) /\ x <= w /\ y < n
    BY <2>0, <2>1
  <2>2. first \in Line BY <2>0, Front DEF Line
  <2>3. editor_insert_newline(e) = NewLine(e, first) BY <1>2 DEF editor_insert_newline
  <2>4. editor_insert_newline(e).lines = Broken(e, first) BY <1>2, <2>2, <2>3, NewLineFacts
  <2>5. PICK a \in Seq(PlainChars) : a = first
    <3>1. SubSeq(l, 1, x) \in Seq(PlainChars) BY <2>a, Front
    <3>. QED BY <2>1, <2>a, <3>1
  <2>. HIDE DEF first
  <2>6. PICK b \in Seq(PlainChars) : b = Indent(Cur(e))
    <3>1. PICK k \in Nat : k = line_indent_len(l) /\ k <= Len(l)
      BY <2>0, <2>1, IndentFacts
    <3>2. SubSeq(l, 1, k) \in Seq(PlainChars) BY <3>1, Front
    <3>. QED BY <2>1, <3>1, <3>2 DEF Indent
  <2>7. PICK d \in Seq(PlainChars) : d = SubSeq(Cur(e), e.cx + 1, Len(Cur(e)))
    <3>1. PICK i \in Nat : i = x + 1 /\ i >= 1 /\ i <= w + 1 BY <2>a
    <3>2. SubSeq(l, i, Len(l)) \in Seq(PlainChars) BY <2>a, <3>1, Back
    <3>. QED BY <2>1, <2>a, <3>1, <3>2
  <2>8. PICK h \in Seq(Seq(PlainChars)) : h = SubSeq(e.lines, 1, e.cy)
    <3>1. y <= Len(e.lines) BY <2>a
    <3>2. SubSeq(e.lines, 1, y) \in Seq(Seq(PlainChars)) BY <2>0, <3>1, Front
    <3>. QED BY <2>a, <3>2
  <2>9. PICK t \in Seq(Seq(PlainChars)) : t = SubSeq(e.lines, e.cy + 2, Len(e.lines))
    <3>0. y + 2 \in Nat /\ y + 2 >= 1 /\ y + 2 <= n + 1 BY <2>a
    <3>1. PICK i \in Nat : i = y + 2 /\ i >= 1 /\ i <= n + 1 BY <3>0, Zenon
    <3>2. SubSeq(e.lines, i, Len(e.lines)) \in Seq(Seq(PlainChars)) BY <2>0, <2>a, <3>1, Back
    <3>. QED BY <2>a, <3>1, <3>2
  <2>10. PICK m \in Seq(PlainChars) : m = b \o d BY ConcatProperties
  <2>11. PICK mid \in Seq(Seq(PlainChars)) : mid = <<a, m>>
    <3>1. <<a, m>> \in Seq(Seq(PlainChars)) OBVIOUS
    <3>. QED BY <3>1
  <2>12. h \o mid \o t \in Seq(Seq(PlainChars)) BY Three
  <2>13. Broken(e, first) = h \o mid \o t
    BY <2>5, <2>6, <2>7, <2>8, <2>9, <2>10, <2>11 DEF Broken
  <2>. QED BY <2>4, <2>12, <2>13 DEF Plain
<1>. QED BY <1>1, <1>2

(* What strstr sees of a plain line. *)
LEMMA PlainCStr ==
  ASSUME NEW l \in Seq(PlainChars)
  PROVE  CStr(l) = l
<1>0. Len(l) \in Nat /\ \A i \in 1 .. Len(l) : l[i] \in PlainChars BY ElementOfSeq
<1>1. \A i \in 1 .. Len(l) : l[i] # NUL BY <1>0, PlainCharFacts
<1>. DEFINE P(n) == (\A i \in 1 .. n : l[i] # NUL) /\ (n < Len(l) => l[n + 1] = NUL)
<1>2. Len(l) \in 0 .. Len(l) /\ P(Len(l)) BY <1>0, <1>1
<1>3. \A n \in 0 .. Len(l) : P(n) => n = Len(l)
  <2>. SUFFICES ASSUME NEW n \in 0 .. Len(l), P(n), n # Len(l) PROVE FALSE OBVIOUS
  <2>1. n < Len(l) /\ n + 1 \in 1 .. Len(l) BY <1>0
  <2>. QED BY <1>1, <2>1
<1>4. (CHOOSE n \in 0 .. Len(l) : P(n)) = Len(l)
  <2>. HIDE DEF P
  <2>. QED BY <1>2, <1>3, Zenon
<1>5. CStr(l) = SubSeq(l, 1, Len(l)) BY <1>4 DEF CStr
<1>. QED BY <1>5, SubSeqFull

(* In plain lines a search finds the term if it is anywhere. *)
LEMMA FindPlain ==
  ASSUME NEW e \in Ed(Nat), Room(e), Inside(e), Plain(e.lines),
         NEW q \in Seq(Letters), q # <<>>, NEW dir \in {1, -1}
  PROVE  LET r == editor_find_next(e, q, dir)
         IN  IF \E k \in 1 .. Len(e.lines) : Occurrences(q, e.lines[k]) # {}
             THEN r.cx \in Occurrences(q, Cur(r))
             ELSE r = e
<1>. DEFINE r == editor_find_next(e, q, dir)
<1>0. e.lines \in Seq(Line) /\ e.lines \in Seq(Seq(PlainChars)) /\ Len(e.lines) \in Nat
  BY DEF Ed, Plain
<1>1. ASSUME NEW k \in 1 .. Len(e.lines)
      PROVE  /\ Matches(e.lines[k], q, dir) <=> Occurrences(q, e.lines[k]) # {}
             /\ Matches(e.lines[k], q, dir) =>
                  FindColumn(e.lines[k], q, dir) \in Occurrences(q, e.lines[k])
  <2>1. PICK l \in Line : l = e.lines[k] BY <1>0, ElementOfSeq
  <2>2. l \in Seq(PlainChars) BY <1>0, <2>1, ElementOfSeq
  <2>3. CStr(l) = l BY <2>2, PlainCStr
  <2>4. (IF dir = 1 THEN CStr(l) ELSE l) = l BY <2>3
  <2>5. Matches(l, q, dir) <=> Occurrences(q, l) # {} BY <2>4 DEF Matches
  <2>6. Matches(l, q, dir) => FindColumn(l, q, dir) \in Occurrences(q, l)
    BY <2>4, ColumnFacts
  <2>. QED BY <2>1, <2>5, <2>6
<1>2. CASE /\ r = e
           /\ q = <<>> \/ \A k \in 1 .. Len(e.lines) : ~Matches(e.lines[k], q, dir)
  BY <1>1, <1>2
<1>3. CASE \E y \in 0 .. Len(e.lines) - 1 :
             /\ Matches(e.lines[y + 1], q, dir)
             /\ r = [e EXCEPT !.cy = y, !.cx = FindColumn(e.lines[y + 1], q, dir)]
  <2>1. PICK y \in 0 .. Len(e.lines) - 1 :
          /\ Matches(e.lines[y + 1], q, dir)
          /\ r = [e EXCEPT !.cy = y, !.cx = FindColumn(e.lines[y + 1], q, dir)]
    BY <1>3
  <2>2. PICK k \in 1 .. Len(e.lines) : k = y + 1 BY <1>0
  <2>. HIDE DEF r
  <2>3. r.cy = y /\ r.cx = FindColumn(e.lines[k], q, dir) /\ r.lines = e.lines
    BY <2>1, <2>2 DEF Ed
  <2>4. Cur(r) = e.lines[k] BY <2>2, <2>3 DEF Cur
  <2>5. Matches(e.lines[k], q, dir) BY <2>1, <2>2
  <2>6. r.cx \in Occurrences(q, Cur(r)) /\ Occurrences(q, e.lines[k]) # {}
    BY <1>1, <2>3, <2>4, <2>5
  <2>. QED BY <2>6 DEF r
<1>4. Searched(e, q, dir, r) BY FindIs
<1>. QED BY <1>2, <1>3, <1>4 DEF Searched

(* The invariant of searching: no '\0' in the text or in its history until *)
(* a stale pointer was used, and the cursor to go back to is inside.       *)
Target ==
  /\ saved.cy <= Len(ed.lines)
  /\ saved.cx <= IF saved.cy = Len(ed.lines) THEN 0 ELSE Len(ed.lines[saved.cy + 1])

SearchInv ==
  /\ mode = "open" => file \in Seq(PlainChars \cup {NL})
  /\ ~stale => Plain(ed.lines) /\ \A i \in 1 .. Len(before) : Plain(before[i].lines)
  /\ mode = "find" => Target

(* editor_open on any file satisfies it. *)
LEMMA SearchInit == Init => SearchInv
<1>. SUFFICES ASSUME Init PROVE SearchInv OBVIOUS
<1>1. file \in Seq(PlainChars \cup {NL})
  <2>1. Letters \cup {SP, NL} = PlainChars \cup {NL} BY DEF PlainChars
  <2>2. Files \subseteq Seq(PlainChars \cup {NL}) BY <2>1, EditorAssumption
  <2>3. <<>> \in Seq(PlainChars \cup {NL}) OBVIOUS
  <2>. QED BY <2>2, <2>3 DEF Init
<1>2. <<>> \in Seq(Seq(PlainChars)) /\ Len(<<>>) = 0 OBVIOUS
<1>3. ed.lines = <<>> /\ before = <<>> BY DEF Init, Empty
<1>4. Plain(ed.lines) BY <1>2, <1>3 DEF Plain
<1>5. \A i : i \notin 1 .. Len(before)
  <2>1. \A i : i \notin 1 .. 0 OBVIOUS
  <2>. QED BY <1>2, <1>3, <2>1
<1>6. mode = "open" BY DEF Init
<1>. QED BY <1>1, <1>4, <1>5, <1>6 DEF SearchInv

(* It outlives a step that leaves the text, its history and the file, and  *)
(* does not begin a search.                                                *)
LEMMA SearchKept ==
  ASSUME SearchInv, ed'.lines = ed.lines, UNCHANGED <<before, stale>>, mode' # "open",
         mode' = "find" => mode = "find" /\ saved' = saved
  PROVE  SearchInv'
BY DEF SearchInv, Target

(* And one that edits plain lines into plain lines. *)
LEMMA SearchEdited ==
  ASSUME EditInv, SearchInv, mode = "edit", mode' = "edit", UNCHANGED stale,
         NEW r, EditOf(editor_snap_push(ed), r), EditWith(r), ~stale => Plain(r.lines)
  PROVE  SearchInv'
<1>. DEFINE h == [lines |-> ed.lines, cx |-> ed.cx, cy |-> ed.cy]
<1>1. r \in Ed(Nat) /\ Room(r) BY DEF EditOf
<1>2. r \in Ed(Int) BY <1>1 DEF Ed
<1>3. ed'.lines = r.lines BY <1>1, <1>2, ClampFacts DEF EditWith
<1>4. h \in Hist /\ before \in Seq(Hist) BY DEF EditInv, Buffer, Undoing, Ed, Hist
<1>5. before' = Append(before, h) BY DEF EditWith
<1>6. h.lines = ed.lines OBVIOUS
<1>. HIDE DEF h
<1>7. PICK b \in Seq(Hist), n \in Nat : b = before /\ n = Len(b) BY <1>4
<1>8. PICK c : c = before' OBVIOUS
<1>9. Len(c) = n + 1 /\ c[n + 1] = h /\ \A i \in 1 .. n : c[i] = b[i]
  BY <1>4, <1>5, <1>7, <1>8, AppendProperties
<1>10. ASSUME ~stale, NEW i \in 1 .. n + 1 PROVE Plain(c[i].lines)
  <2>1. CASE i = n + 1 BY <1>6, <1>9, <1>10, <2>1 DEF SearchInv
  <2>2. CASE i # n + 1
    <3>1. i \in 1 .. n BY <2>2
    <3>. QED BY <1>7, <1>9, <1>10, <3>1 DEF SearchInv
  <2>. QED BY <2>1, <2>2
<1>11. ~stale => Plain(ed'.lines) BY <1>3
<1>. QED BY <1>8, <1>9, <1>10, <1>11 DEF SearchInv

(* Opening the file. *)
LEMMA SearchOpens ==
  ASSUME EditInv, SearchInv, editor_load \/ editor_load_null
  PROVE  SearchInv'
<1>1. ed = Empty /\ mode = "open" /\ file \in Seq(PlainChars \cup {NL})
  BY DEF EditInv, Buffer, SearchInv, editor_load, editor_load_null
<1>2. \A ls : SetLines(ed, ls).lines = ls BY <1>1 DEF SetLines, Empty
<1>3. mode' \in {"edit", "done"} /\ UNCHANGED <<before, stale>>
  BY DEF editor_load, editor_load_null
<1>4. Plain(ed'.lines) \/ ed' = ed
  <2>1. CASE editor_load
    <3>1. ed'.lines = Split(file) BY <1>2, <2>1 DEF editor_load
    <3>2. PICK t \in Seq(PlainChars \cup {NL}) : t = file BY <1>1
    <3>. QED BY <3>1, <3>2, SplitPlain
  <2>2. CASE editor_load_null
    <3>1. ed' = ed \/ ed'.lines = << <<>> >> BY <1>2, <2>2 DEF editor_load_null
    <3>2. PICK l \in Seq(PlainChars) : l = <<>>
      <4>1. <<>> \in Seq(PlainChars) OBVIOUS
      <4>. QED BY <4>1
    <3>3. <<l>> \in Seq(Seq(PlainChars)) OBVIOUS
    <3>. QED BY <3>1, <3>2, <3>3 DEF Plain
  <2>. QED BY <2>1, <2>2
<1>. QED BY <1>3, <1>4 DEF SearchInv

(* The keys that edit. *)
LEMMA SearchEdits ==
  ASSUME EditInv, SearchInv,
         (\E c \in Letters : KEY_CHAR(c)) \/ KEY_TAB \/ KEY_BACKSP \/ KEY_DEL
           \/ KEY_ENTER \/ KEY_ENTER_moved
  PROVE  SearchInv'
<1>. DEFINE p == editor_snap_push(ed)
<1>0. mode = "edit"
  BY DEF KEY_CHAR, KEY_TAB, KEY_BACKSP, KEY_DEL, KEY_ENTER, KEY_ENTER_moved, Key
<1>1. p \in Ed(Nat) /\ Room(p) /\ Inside(p) BY <1>0, Pushed
<1>2. ~stale => Plain(p.lines)
  <2>1. /\ ed \in Ed(Nat) /\ Room(ed) /\ Len(ed.undo) <= UndoMax
        /\ before \in Seq(Hist) /\ Matched(ed.undo, before)
    BY <1>0 DEF EditInv, Buffer, Undoing
  <2>2. p.lines = ed.lines BY <2>1, PushFacts
  <2>. QED BY <2>2 DEF SearchInv
<1>3. ASSUME NEW r, EditOf(p, r), EditWith(r), ~stale => Plain(r.lines), UNCHANGED <<mode, stale>>
      PROVE  SearchInv'
  BY <1>0, <1>3, SearchEdited
<1>. HIDE DEF p
<1>4. ASSUME NEW c \in Letters, KEY_CHAR(c) PROVE SearchInv'
  <2>1. c \in LineChars /\ c \in PlainChars BY DEF LineChars, PlainChars
  <2>2. PICK r : r = editor_insert_char(p, c) OBVIOUS
  <2>3. EditOf(p, r) BY <1>1, <2>1, <2>2, InsertChar DEF EditOf
  <2>4. ~stale => Plain(r.lines) BY <1>1, <1>2, <2>1, <2>2, InsertPlain
  <2>5. EditWith(r) /\ UNCHANGED <<mode, stale>> BY <1>4, <2>2 DEF KEY_CHAR, p
  <2>. QED BY <1>3, <2>3, <2>4, <2>5
<1>5. CASE KEY_TAB
  <2>1. PICK r : r = InsertTab(p) OBVIOUS
  <2>2. EditOf(p, r) BY <1>1, <2>1, TabFacts
  <2>3. ~stale => Plain(r.lines) BY <1>1, <1>2, <2>1, TabPlain
  <2>4. EditWith(r) /\ UNCHANGED <<mode, stale>> BY <1>5, <2>1 DEF KEY_TAB, p
  <2>. QED BY <1>3, <2>2, <2>3, <2>4
<1>6. CASE KEY_BACKSP
  <2>1. PICK r : r = editor_delete_char(p) OBVIOUS
  <2>2. EditOf(p, r) BY <1>1, <2>1, DeleteFacts
  <2>3. ~stale => Plain(r.lines) BY <1>1, <1>2, <2>1, DeletePlain
  <2>4. EditWith(r) /\ UNCHANGED <<mode, stale>> BY <1>6, <2>1 DEF KEY_BACKSP, p
  <2>. QED BY <1>3, <2>2, <2>3, <2>4
<1>7. CASE KEY_DEL
  <2>1. PICK r : r = editor_delete_forward(p) OBVIOUS
  <2>2. EditOf(p, r) BY <1>1, <2>1, DeleteFacts
  <2>3. ~stale => Plain(r.lines) BY <1>1, <1>2, <2>1, DeletePlain
  <2>4. EditWith(r) /\ UNCHANGED <<mode, stale>> BY <1>7, <2>1 DEF KEY_DEL, p
  <2>. QED BY <1>3, <2>2, <2>3, <2>4
<1>8. CASE KEY_ENTER
  <2>1. PICK r : r = editor_insert_newline(p) OBVIOUS
  <2>2. EditOf(p, r) BY <1>1, <2>1, EnterFacts
  <2>3. ~stale => Plain(r.lines) BY <1>1, <1>2, <2>1, EnterPlain
  <2>4. EditWith(r) /\ UNCHANGED <<mode, stale>> BY <1>8, <2>1 DEF KEY_ENTER, p
  <2>. QED BY <1>3, <2>2, <2>3, <2>4
<1>9. CASE KEY_ENTER_moved
  BY <1>0, <1>9 DEF KEY_ENTER_moved, SearchInv
<1>. QED BY <1>4, <1>5, <1>6, <1>7, <1>8, <1>9

(* A step that sets the cursor of e, and no more. *)
LEMMA CursorStep ==
  ASSUME EditInv, mode \in {"edit", "find"}, NEW x \in Int, NEW y \in Int,
         ed' = editor_clamp_cursor([ed EXCEPT !.cx = x, !.cy = y])
  PROVE  ed'.lines = ed.lines /\ ed'.undo = ed.undo
<1>0. ed \in Ed(Nat) /\ Room(ed) BY DEF EditInv, Buffer
<1>1. PICK e : e = [ed EXCEPT !.cx = x, !.cy = y] OBVIOUS
<1>2. e \in Ed(Int) /\ e.lines = ed.lines /\ e.lines_cap = ed.lines_cap /\ e.undo = ed.undo
  BY <1>0, <1>1 DEF Ed
<1>3. Room(e) BY <1>0, <1>2 DEF Room
<1>. QED BY <1>1, <1>2, <1>3, ClampFacts

(* Moving. *)
LEMMA SearchMoves ==
  ASSUME EditInv, SearchInv,
         KEY_UP \/ KEY_DOWN \/ KEY_PAGE_UP \/ KEY_PAGE_DN
           \/ KEY_HOME \/ KEY_END \/ KEY_LEFT \/ KEY_RIGHT
  PROVE  SearchInv'
<1>1. PICK x \in Int, y \in Int : Move([ed EXCEPT !.cx = x, !.cy = y]) BY MoveIs
<1>2. /\ mode = "edit" /\ mode' = "edit" /\ UNCHANGED <<before, stale>>
      /\ ed' = editor_clamp_cursor([ed EXCEPT !.cx = x, !.cy = y])
  BY <1>1 DEF Move
<1>3. ed'.lines = ed.lines BY <1>2, CursorStep
<1>. QED BY <1>2, <1>3, SearchKept

(* What a key of the search does. *)
LEMMA FindSteps ==
  ASSUME EditInv, SearchInv,
         (\E c \in Letters : find_char(c)) \/ find_down \/ find_up \/ find_backsp
           \/ find_enter \/ find_esc
  PROVE  /\ mode = "find" /\ ed'.lines = ed.lines /\ ed'.undo = ed.undo
         /\ UNCHANGED <<before, stale>>
         /\ mode' = "edit" \/ (mode' = "find" /\ saved' = saved)
         /\ find_esc => ed'.cx = saved.cx /\ ed'.cy = saved.cy
         /\ (\E c \in Letters : find_char(c)) \/ find_down \/ find_up =>
              \E q \in Seq(Letters), dir \in {1, -1} : q # <<>> /\ Find(q, dir)
<1>0. /\ mode = "find"
      /\ UNCHANGED <<before, stale>>
      /\ mode' = "edit" \/ (mode' = "find" /\ saved' = saved)
  BY DEF find_char, find_down, find_up, find_backsp, find_enter, find_esc, Find, LeaveFind
<1>1. /\ ed \in Ed(Nat) /\ ed.cx \in Nat /\ ed.cy \in Nat /\ Room(ed) /\ Inside(ed) /\ Target
      /\ query \in Seq(Letters) /\ saved.cx \in Nat /\ saved.cy \in Nat
  BY <1>0 DEF EditInv, Buffer, Around, SearchInv, Ed
<1>2. ASSUME NEW q \in Seq(Letters), q # <<>>, NEW dir \in {1, -1}, Find(q, dir)
      PROVE  /\ ed'.lines = ed.lines /\ ed'.undo = ed.undo
             /\ mode' = "find"
  <2>1. ed' = editor_find_next(ed, q, dir) /\ mode' = "find" BY <1>0, <1>2 DEF Find
  <2>. QED BY <1>1, <1>2, <2>1, FindFacts
<1>3. ASSUME NEW c \in Letters, find_char(c)
      PROVE  \E q \in Seq(Letters), dir \in {1, -1} : q # <<>> /\ Find(q, dir)
  <2>1. PICK q \in Seq(Letters) : q = Append(query, c) /\ q # <<>> BY <1>1, AppendProperties
  <2>. QED BY <1>3, <2>1 DEF find_char
<1>4. (\E c \in Letters : find_char(c)) \/ find_down \/ find_up =>
        \E q \in Seq(Letters), dir \in {1, -1} : q # <<>> /\ Find(q, dir)
  BY <1>1, <1>3 DEF find_down, find_up
<1>5. CASE (\E c \in Letters : find_char(c)) \/ find_down \/ find_up
  <2>1. PICK q \in Seq(Letters), dir \in {1, -1} : q # <<>> /\ Find(q, dir) BY <1>4, <1>5
  <2>2. ed'.lines = ed.lines /\ ed'.undo = ed.undo /\ mode' = "find" BY <1>2, <2>1
  <2>3. ~find_esc BY <2>2 DEF find_esc, LeaveFind
  <2>. QED BY <1>0, <1>4, <2>2, <2>3
<1>6. CASE find_backsp
  <2>1. ed' = ed /\ mode' = "find" BY <1>0, <1>6 DEF find_backsp
  <2>2. ~find_esc BY <2>1 DEF find_esc, LeaveFind
  <2>. QED BY <1>0, <1>4, <2>1, <2>2
<1>7. CASE find_esc
  <2>1. PICK e : e = [ed EXCEPT !.cx = saved.cx, !.cy = saved.cy] OBVIOUS
  <2>2. /\ e \in Ed(Nat) /\ e.lines = ed.lines /\ e.undo = ed.undo
        /\ e.cx = saved.cx /\ e.cy = saved.cy
    BY <1>1, <2>1 DEF Ed
  <2>3. Inside(e) BY <1>1, <2>2 DEF Inside, Target
  <2>4. ed' = editor_clamp_cursor(e) BY <1>7, <2>1 DEF find_esc, LeaveFind
  <2>5. ed' = e BY <2>2, <2>3, <2>4, ClampStays
  <2>. QED BY <1>0, <1>4, <2>2, <2>5
<1>8. CASE find_enter
  <2>1. ed' = editor_clamp_cursor(ed) BY <1>8 DEF find_enter, LeaveFind
  <2>2. ed' = ed BY <1>1, <2>1, ClampStays
  <2>. QED BY <1>0, <1>4, <1>7, <1>8, <2>2
<1>. QED BY <1>5, <1>6, <1>7, <1>8

(* Undoing puts back a text of the history. *)
LEMMA SearchUndoes ==
  ASSUME EditInv, SearchInv, CTRL_Z
  PROVE  SearchInv'
<1>0. /\ ed \in Ed(Nat) /\ before \in Seq(Hist) /\ Matched(ed.undo, before) /\ ed.undo # <<>>
      /\ mode = "edit" /\ mode' = "edit" /\ UNCHANGED stale
      /\ ed' = editor_clamp_cursor(editor_snap_pop(ed))
      /\ before' = SubSeq(before, 1, Len(before) - 1)
  BY DEF EditInv, Buffer, Undoing, CTRL_Z, Key
<1>1. PICK u \in Seq(Snap), m \in Nat, n \in Nat :
        u = ed.undo /\ m = Len(u) /\ n = Len(before) /\ m >= 1 /\ m <= n
  <2>1. ed.undo \in Seq(Snap) BY <1>0 DEF Ed
  <2>2. Len(ed.undo) \in Nat \ {0} /\ Len(before) \in Nat BY <1>0, <2>1, EmptySeq
  <2>3. Len(ed.undo) <= Len(before) BY <1>0 DEF Matched
  <2>. QED BY <2>1, <2>2, <2>3
<1>2. Split(u[m].text) = before[n].lines
  <2>1. m \in 1 .. m /\ n - m + m = n BY <1>1
  <2>2. Split(u[m].text) = before[n - m + m].lines BY <1>0, <1>1, <2>1 DEF Matched
  <2>. QED BY <2>1, <2>2
<1>3. ed'.lines = Split(u[m].text)
  <2>1. u[m] \in Snap
    <3>1. m \in 1 .. Len(u) BY <1>1
    <3>. QED BY <3>1, ElementOfSeq
  <2>2. PICK s \in Snap : s = u[m] BY <2>1
  <2>3. Split(s.text) \in Seq(Line) /\ Len(Split(s.text)) >= 1 BY SplitLines DEF Snap
  <2>4. PICK p : p = editor_snap_pop(ed) OBVIOUS
  <2>5. p.lines = Split(s.text) /\ p \in Ed(Nat) /\ Room(p) /\ Inside(p)
    BY <1>0, <1>1, <2>2, <2>4, PopFacts
  <2>6. ed' = p BY <1>0, <2>4, <2>5, ClampStays
  <2>. QED BY <2>2, <2>5, <2>6
<1>4. PICK c : c = before' OBVIOUS
<1>5. Len(c) = n - 1 /\ \A i \in 1 .. n - 1 : c[i] = before[i]
  <2>1. PICK k \in Nat : k = n - 1 /\ k <= n BY <1>1
  <2>2. 1 \in Nat \ {0} /\ 1 <= k + 1 /\ k + 1 - 1 = k /\ k <= Len(before) BY <1>1, <2>1
  <2>3. c = SubSeq(before, 1, k) BY <1>0, <1>1, <1>4, <2>1
  <2>4. Len(c) = k + 1 - 1 /\ \A i \in 1 .. k + 1 - 1 : c[i] = before[i + 1 - 1]
    BY <1>0, <2>2, <2>3, Piece
  <2>5. \A i \in 1 .. k : i + 1 - 1 = i OBVIOUS
  <2>. QED BY <2>1, <2>2, <2>4, <2>5
<1>6. ASSUME ~stale PROVE Plain(ed'.lines) /\ \A i \in 1 .. Len(c) : Plain(c[i].lines)
  <2>1. \A i \in 1 .. n : Plain(before[i].lines) BY <1>1, <1>6 DEF SearchInv
  <2>2. n \in 1 .. n /\ \A i \in 1 .. n - 1 : i \in 1 .. n BY <1>1
  <2>3. \A i \in 1 .. n - 1 : Plain(c[i].lines) BY <1>5, <2>1, <2>2
  <2>. QED BY <1>2, <1>3, <1>5, <2>1, <2>2, <2>3
<1>. QED BY <1>0, <1>4, <1>6 DEF SearchInv

(* Every step keeps the invariant of searching. *)
LEMMA SearchNext == EditInv /\ SearchInv /\ [Next]_vars => SearchInv'
<1>. SUFFICES ASSUME EditInv, SearchInv, [Next]_vars PROVE SearchInv' OBVIOUS
<1>1. CASE CTRL_Q
  <2>1. mode = "edit" /\ mode' \in {"edit", "done"} /\ UNCHANGED <<before, stale>>
    BY <1>1 DEF CTRL_Q
  <2>2. ed'.lines = ed.lines BY <1>1 DEF CTRL_Q, EditInv, Buffer, Ed
  <2>. QED BY <2>1, <2>2, SearchKept
<1>2. CASE CTRL_S
  <2>1. mode' = "edit" /\ UNCHANGED <<before, stale>> BY <1>2 DEF CTRL_S, Key
  <2>2. ed'.lines = ed.lines
    BY <1>2 DEF CTRL_S, save_ok, save_error, save_short, EditInv, Buffer, Ed
  <2>. QED BY <2>1, <2>2, SearchKept
<1>3. CASE CTRL_F
  <2>1. /\ mode = "edit" /\ mode' = "find" /\ UNCHANGED <<ed, before, stale>>
        /\ saved' = [cx |-> ed.cx, cy |-> ed.cy]
    BY <1>3 DEF CTRL_F, Key
  <2>2. Inside(ed) BY <2>1 DEF EditInv, Buffer
  <2>3. Target' BY <2>1, <2>2 DEF Inside, Target
  <2>. QED BY <2>1, <2>3 DEF SearchInv
<1>4. CASE \/ (\E c \in Letters : find_char(c)) \/ find_down \/ find_up \/ find_backsp
           \/ find_enter \/ find_esc
  BY <1>4, FindSteps, SearchKept
<1>5. CASE UNCHANGED vars BY <1>5 DEF vars, SearchInv, Target
<1>. QED
  BY <1>1, <1>2, <1>3, <1>4, <1>5, SearchOpens, SearchEdits, SearchMoves, SearchUndoes
  DEF Next, Finished

(* What SearchFinds says of a step. *)
LEMMA SearchStep ==
  ASSUME EditInv, SearchInv, Next \/ UNCHANGED vars
  PROVE  /\ (find_down \/ find_up \/ \E c \in Letters : find_char(c)) /\ ~stale =>
              IF \E i \in 1 .. nlines(ed) : Occurrences(query', ed.lines[i]) # {}
              THEN ed'.cx \in Occurrences(query', Cur(ed'))
              ELSE ed' = ed
         /\ mode = "find" => ed'.lines = ed.lines /\ ed'.undo = ed.undo
         /\ find_esc => ed'.cx = saved.cx /\ ed'.cy = saved.cy
<1>1. ASSUME find_down \/ find_up \/ \E c \in Letters : find_char(c), ~stale
      PROVE  IF \E i \in 1 .. nlines(ed) : Occurrences(query', ed.lines[i]) # {}
             THEN ed'.cx \in Occurrences(query', Cur(ed'))
             ELSE ed' = ed
  <2>1. mode = "find" BY <1>1, FindSteps
  <2>2. PICK q \in Seq(Letters), dir \in {1, -1} : q # <<>> /\ Find(q, dir)
    BY <1>1, FindSteps
  <2>3. ed \in Ed(Nat) /\ Room(ed) /\ Inside(ed) /\ Plain(ed.lines)
    BY <1>1, <2>1 DEF EditInv, Buffer, SearchInv
  <2>4. ed' = editor_find_next(ed, q, dir) /\ query' = q BY <2>2 DEF Find
  <2>5. PICK r : r = editor_find_next(ed, q, dir) OBVIOUS
  <2>6. IF \E k \in 1 .. Len(ed.lines) : Occurrences(q, ed.lines[k]) # {}
        THEN r.cx \in Occurrences(q, Cur(r))
        ELSE r = ed
    BY <2>2, <2>3, <2>5, FindPlain
  <2>7. nlines(ed) = Len(ed.lines) BY DEF nlines
  <2>. QED BY <2>4, <2>5, <2>6, <2>7
<1>2. ASSUME mode = "find" PROVE ed'.lines = ed.lines /\ ed'.undo = ed.undo
  <2>1. CASE UNCHANGED vars BY <2>1 DEF vars
  <2>2. CASE \/ (\E c \in Letters : find_char(c)) \/ find_down \/ find_up \/ find_backsp
             \/ find_enter \/ find_esc
    BY <2>2, FindSteps
  <2>3. ~editor_load /\ ~editor_load_null /\ ~Key /\ ~CTRL_Q /\ ~Finished
    BY <1>2 DEF editor_load, editor_load_null, Key, CTRL_Q, Finished
  <2>4. \A e : ~Move(e) BY <1>2 DEF Move
  <2>5. \A c : ~KEY_CHAR(c) BY <2>3 DEF KEY_CHAR
  <2>6. /\ ~KEY_TAB /\ ~KEY_BACKSP /\ ~KEY_DEL /\ ~KEY_ENTER /\ ~KEY_ENTER_moved
        /\ ~CTRL_Z /\ ~CTRL_S /\ ~CTRL_F
    BY <2>3 DEF KEY_TAB, KEY_BACKSP, KEY_DEL, KEY_ENTER, KEY_ENTER_moved, CTRL_Z, CTRL_S, CTRL_F
  <2>7. /\ ~KEY_UP /\ ~KEY_DOWN /\ ~KEY_PAGE_UP /\ ~KEY_PAGE_DN
        /\ ~KEY_HOME /\ ~KEY_END /\ ~KEY_LEFT /\ ~KEY_RIGHT
    BY <2>4 DEF KEY_UP, KEY_DOWN, KEY_PAGE_UP, KEY_PAGE_DN, KEY_HOME, KEY_END, KEY_LEFT, KEY_RIGHT
  <2>. QED BY <2>1, <2>2, <2>3, <2>5, <2>6, <2>7 DEF Next
<1>3. ASSUME find_esc PROVE ed'.cx = saved.cx /\ ed'.cy = saved.cy
  BY <1>3, FindSteps
<1>. QED BY <1>1, <1>2, <1>3

(* A search in a text without '\0' lands on an occurrence of the term, and *)
(* stays where it is only when there is none; no key of the search touches *)
(* the text or the undo stack, and ESC puts the cursor back: editor_find.  *)
THEOREM SearchAlwaysFinds == Spec => SearchFinds
<1>1. Init => EditInv BY EditInit
<1>2. EditInv /\ [Next]_vars => EditInv' BY EditNext
<1>3. Init => SearchInv BY SearchInit
<1>4. EditInv /\ SearchInv /\ [Next]_vars => SearchInv' BY SearchNext
<1>5. EditInv /\ SearchInv /\ [Next]_vars =>
        [/\ (find_down \/ find_up \/ \E c \in Letters : find_char(c)) /\ ~stale =>
              IF \E i \in 1 .. nlines(ed) : Occurrences(query', ed.lines[i]) # {}
              THEN ed'.cx \in Occurrences(query', Cur(ed'))
              ELSE ed' = ed
         /\ mode = "find" => ed'.lines = ed.lines /\ ed'.undo = ed.undo
         /\ find_esc => ed'.cx = saved.cx /\ ed'.cy = saved.cy]_vars
  BY SearchStep
<1>. QED BY <1>1, <1>2, <1>3, <1>4, <1>5, PTL DEF Spec, SearchFinds

-----------------------------------------------------------------------------
(* The text as one string, and what a key does to it at the cursor *)

(* Taking a concatenation apart again. *)
LEMMA TakeConcat ==
  ASSUME NEW S, NEW u \in Seq(S), NEW w \in Seq(S)
  PROVE  SubSeq(u \o w, 1, Len(u)) = u /\ SubSeq(u \o w, Len(u) + 1, Len(u \o w)) = w
<1>1. PICK m \in Nat, n \in Nat : m = Len(u) /\ n = Len(w) BY LenProperties
<1>2. PICK s \in Seq(S) : s = u \o w BY ConcatProperties
<1>3. /\ Len(s) = m + n
      /\ \A i \in 1 .. m + n : s[i] = IF i <= m THEN u[i] ELSE w[i - m]
  BY <1>1, <1>2, ConcatProperties
<1>4. SubSeq(s, 1, m) = u
  <2>1. 1 \in Nat \ {0} /\ m <= Len(s) /\ 1 <= m + 1 BY <1>3
  <2>0. PICK v : v = SubSeq(s, 1, m) OBVIOUS
  <2>2. /\ v \in Seq(S) /\ Len(v) = m + 1 - 1
        /\ \A k \in 1 .. m + 1 - 1 : v[k] = s[k + 1 - 1]
    BY <2>1, <2>0, Piece
  <2>3. Len(v) = m BY <2>2
  <2>4. \A k \in 1 .. m : v[k] = u[k]
    <3>. SUFFICES ASSUME NEW k \in 1 .. m PROVE v[k] = u[k] OBVIOUS
    <3>1. k \in 1 .. m + 1 - 1 /\ k + 1 - 1 = k /\ k \in 1 .. m + n /\ k <= m OBVIOUS
    <3>. QED BY <1>3, <2>2, <3>1
  <2>5. v = u BY <1>1, <2>2, <2>3, <2>4, SeqEqual
  <2>. QED BY <2>0, <2>5
<1>5. SubSeq(s, m + 1, m + n) = w
  <2>1. PICK a \in Nat \ {0}, b \in Nat : a = m + 1 /\ b = m + n OBVIOUS
  <2>2. b <= Len(s) /\ a <= b + 1 /\ b + 1 - a = n BY <1>3, <2>1
  <2>7. PICK v : v = SubSeq(s, a, b) OBVIOUS
  <2>3. /\ v \in Seq(S) /\ Len(v) = b + 1 - a
        /\ \A k \in 1 .. b + 1 - a : v[k] = s[k + a - 1]
    BY <2>2, <2>7, Piece
  <2>4. Len(v) = n BY <2>2, <2>3
  <2>5. \A k \in 1 .. n : v[k] = w[k]
    <3>. SUFFICES ASSUME NEW k \in 1 .. n PROVE v[k] = w[k] OBVIOUS
    <3>1. /\ k \in 1 .. b + 1 - a /\ k + a - 1 = k + m /\ k + m \in 1 .. m + n
          /\ ~(k + m <= m) /\ (k + m) - m = k
      BY <2>1, <2>2
    <3>2. s[k + m] = w[(k + m) - m] BY <1>3, <3>1
    <3>3. v[k] = s[k + m] BY <2>3, <3>1
    <3>. QED BY <3>1, <3>2, <3>3
  <2>6. v = w BY <1>1, <2>3, <2>4, <2>5, SeqEqual
  <2>. QED BY <2>1, <2>7, <2>6
<1>. QED BY <1>1, <1>2, <1>3, <1>4, <1>5

(* Texts put together, one newline, and the lines among them. *)
LEMMA TextFacts ==
  /\ <<NL>> \in Text /\ Len(<<NL>>) = 1 /\ <<>> \in Text /\ Len(<<>>) = 0
  /\ \A l \in Line : l \in Text
  /\ \A a \in Text : Len(a) \in Nat /\ a \o <<>> = a /\ <<>> \o a = a
  /\ \A a, b \in Text : a \o b \in Text /\ Len(a \o b) = Len(a) + Len(b)
  /\ \A a, b, c \in Text : (a \o b) \o c = a \o (b \o c)
<1>1. <<NL>> \in Text /\ Len(<<NL>>) = 1 /\ <<>> \in Text /\ Len(<<>>) = 0 BY DEF Text
<1>2. \A l \in Line : l \in Text BY DEF Line, LineChars, Text
<1>3. \A a \in Text : Len(a) \in Nat /\ a \o <<>> = a /\ <<>> \o a = a
  BY ConcatEmptySeq, LenProperties DEF Text
<1>4. \A a, b \in Text : a \o b \in Text /\ Len(a \o b) = Len(a) + Len(b)
  BY ConcatProperties DEF Text
<1>5. \A a, b, c \in Text : (a \o b) \o c = a \o (b \o c)
  BY ConcatAssociative DEF Text
<1>. QED BY <1>1, <1>2, <1>3, <1>4, <1>5

(* In which order three sequences are put together does not matter. *)
Assoc(a, b, c) == (a \o b) \o c = a \o (b \o c)

(* Of texts. *)
LEMMA TextAssoc ==
  ASSUME NEW a \in Text, NEW b \in Text, NEW c \in Text
  PROVE  Assoc(a, b, c)
BY ConcatAssociative DEF Text, Assoc

(* Of lines. *)
LEMMA LinesAssoc ==
  ASSUME NEW a \in Seq(Line), NEW b \in Seq(Line), NEW c \in Seq(Line)
  PROVE  Assoc(a, b, c)
BY ConcatAssociative DEF Assoc

(* Texts that agree with a newline after them agree. *)
LEMMA TextCancel ==
  ASSUME NEW a \in Text, NEW b \in Text, a \o <<NL>> = b \o <<NL>>
  PROVE  a = b
<1>1. <<NL>> \in Text BY TextFacts
<1>2. SubSeq(a \o <<NL>>, 1, Len(a)) = a /\ SubSeq(b \o <<NL>>, 1, Len(b)) = b
  BY <1>1, TakeConcat DEF Text
<1>3. Len(a \o <<NL>>) = Len(a) + 1 /\ Len(b \o <<NL>>) = Len(b) + 1 BY TextFacts
<1>4. Len(a) \in Nat /\ Len(b) \in Nat BY TextFacts
<1>5. Len(a) = Len(b) BY <1>3, <1>4
<1>. QED BY <1>2, <1>5

(* No lines, no text. *)
LEMMA SerializeEmpty == Serialize(<<>>) = <<>>
<1>1. PICK ls : ls = <<>> /\ Len(ls) = 0 OBVIOUS
<1>. DEFINE g == CHOOSE h : Prefixes(ls, h)
<1>2. Prefixes(ls, g) BY <1>1, PrefixesExist
<1>3. Serialize(ls) = g[Len(ls)] BY DEF Serialize, Prefixes, Ended
<1>. HIDE DEF g
<1>4. g[0] = <<>> BY <1>1, <1>2 DEF Prefixes
<1>. QED BY <1>1, <1>3, <1>4

(* One line more. *)
LEMMA SerializeAppend ==
  ASSUME NEW ls \in Seq(Line), NEW l \in Line
  PROVE  Serialize(Append(ls, l)) = Ended(Serialize(ls), l)
<1>0. PICK n \in Nat : n = Len(ls) BY LenProperties
<1>1. PICK ms : ms = Append(ls, l) OBVIOUS
<1>11. /\ ms \in Seq(Line) /\ Len(ms) = n + 1 /\ ms[n + 1] = l
       /\ \A i \in 1 .. n : ms[i] = ls[i]
  BY <1>0, <1>1, AppendProperties
<1>2. PICK f : Prefixes(ls, f) /\ Serialize(ls) = f[n]
  <2>. DEFINE h == CHOOSE x : Prefixes(ls, x)
  <2>1. Prefixes(ls, h) BY <1>0, PrefixesExist
  <2>2. Serialize(ls) = h[Len(ls)] BY DEF Serialize, Prefixes, Ended
  <2>. QED BY <1>0, <2>1, <2>2
<1>3. PICK g : Prefixes(ms, g) /\ Serialize(ms) = g[n + 1]
  <2>. DEFINE h == CHOOSE x : Prefixes(ms, x)
  <2>0. Len(ms) \in Nat BY <1>11
  <2>1. Prefixes(ms, h) BY <2>0, PrefixesExist
  <2>2. Serialize(ms) = h[Len(ms)] BY DEF Serialize, Prefixes, Ended
  <2>. QED BY <1>11, <2>1, <2>2
<1>4. f[0] = <<>> /\ \A i \in 1 .. n : f[i] = Ended(f[i - 1], ls[i])
  BY <1>0, <1>2 DEF Prefixes
<1>5. g[0] = <<>> /\ \A i \in 1 .. n + 1 : g[i] = Ended(g[i - 1], ms[i])
  BY <1>3, <1>11 DEF Prefixes
<1>. DEFINE G == {i \in Nat : i <= n => g[i] = f[i]}
<1>6. 0 \in G BY <1>4, <1>5
<1>7. ASSUME NEW i \in Nat, i \in G PROVE i + 1 \in G
  <2>. SUFFICES ASSUME i + 1 <= n PROVE g[i + 1] = f[i + 1] OBVIOUS
  <2>1. i <= n /\ i + 1 \in 1 .. n /\ i + 1 \in 1 .. n + 1 /\ (i + 1) - 1 = i OBVIOUS
  <2>2. g[i] = f[i] BY <1>7, <2>1
  <2>3. g[i + 1] = Ended(g[i], ms[i + 1]) BY <1>5, <2>1
  <2>4. f[i + 1] = Ended(f[i], ls[i + 1]) BY <1>4, <2>1
  <2>. QED BY <1>11, <2>1, <2>2, <2>3, <2>4
<1>8. Nat \subseteq G
  <2>. HIDE DEF G
  <2>. QED BY <1>6, <1>7, NatSetInduction
<1>9. g[n] = f[n] BY <1>8
<1>10. g[n + 1] = Ended(g[n], l)
  <2>1. n + 1 \in 1 .. n + 1 /\ (n + 1) - 1 = n OBVIOUS
  <2>. QED BY <1>5, <1>11, <2>1
<1>. QED BY <1>1, <1>2, <1>3, <1>9, <1>10

(* A text of lines. *)
LEMMA SerializeText ==
  ASSUME NEW ls \in Seq(Line)
  PROVE  Serialize(ls) \in Text
BY SerializeLaid DEF Laid

(* The text of lines put together is their texts put together. *)
LEMMA SerializeConcat ==
  ASSUME NEW a \in Seq(Line), NEW b \in Seq(Line)
  PROVE  Serialize(a \o b) = Serialize(a) \o Serialize(b)
<1>. DEFINE G == {n \in Nat : \A x \in Seq(Line) : Len(x) = n =>
                     Serialize(a \o x) = Serialize(a) \o Serialize(x)}
<1>1. 0 \in G
  <2>. SUFFICES ASSUME NEW x \in Seq(Line), Len(x) = 0
                PROVE  Serialize(a \o x) = Serialize(a) \o Serialize(x)
    OBVIOUS
  <2>1. x = <<>> BY EmptySeq
  <2>2. a \o x = a BY <2>1, ConcatEmptySeq
  <2>3. Serialize(a) \o <<>> = Serialize(a) BY SerializeText, TextFacts
  <2>. QED BY <2>1, <2>2, <2>3, SerializeEmpty
<1>2. ASSUME NEW n \in Nat, n \in G PROVE n + 1 \in G
  <2>. SUFFICES ASSUME NEW x \in Seq(Line), Len(x) = n + 1
                PROVE  Serialize(a \o x) = Serialize(a) \o Serialize(x)
    OBVIOUS
  <2>1. x # <<>> BY EmptySeq
  <2>2. PICK y \in Seq(Line), l \in Line : x = Append(y, l)
    BY <2>1, SequenceEmptyOrAppend
  <2>3. Len(y) = n
    <3>1. Len(x) = Len(y) + 1 /\ Len(y) \in Nat BY <2>2, AppendProperties, LenProperties
    <3>. QED BY <3>1
  <2>4. Serialize(a \o y) = Serialize(a) \o Serialize(y) BY <1>2, <2>3
  <2>5. PICK z \in Seq(Line) : z = a \o y BY ConcatProperties
  <2>6. a \o x = Append(z, l)
    <3>1. <<l>> \in Seq(Line) OBVIOUS
    <3>2. x = y \o <<l>> /\ Append(z, l) = z \o <<l>> BY <2>2, AppendIsConcat
    <3>3. Assoc(a, y, <<l>>) BY <3>1, LinesAssoc
    <3>. QED BY <2>5, <3>2, <3>3 DEF Assoc
  <2>7. Serialize(a \o x) = Ended(Serialize(z), l) BY <2>6, SerializeAppend
  <2>8. Serialize(x) = Ended(Serialize(y), l) BY <2>2, SerializeAppend
  <2>9. PICK s \in Text, t \in Text, p \in Text, m \in Text :
          s = Serialize(a) /\ t = Serialize(y) /\ p = l /\ m = <<NL>>
    BY SerializeText, TextFacts
  <2>10. ((s \o t) \o p) \o m = s \o ((t \o p) \o m)
    <3>1. t \o p \in Text BY TextFacts
    <3>2. Assoc(s, t, p) BY TextAssoc
    <3>3. Assoc(s, t \o p, m) BY <3>1, TextAssoc
    <3>. QED BY <3>2, <3>3 DEF Assoc
  <2>. QED BY <2>4, <2>5, <2>7, <2>8, <2>9, <2>10 DEF Ended
<1>3. Nat \subseteq G
  <2>. HIDE DEF G
  <2>. QED BY <1>1, <1>2, NatSetInduction
<1>4. Len(b) \in G BY <1>3, LenProperties
<1>. QED BY <1>4

(* One line alone, and one before others. *)
LEMMA SerializeFirst ==
  ASSUME NEW l \in Line, NEW ls \in Seq(Line)
  PROVE  /\ Serialize(<<l>>) = l \o <<NL>>
         /\ Serialize(<<l>> \o ls) = l \o <<NL>> \o Serialize(ls)
<1>1. <<>> \in Seq(Line) /\ <<l>> \in Seq(Line) OBVIOUS
<1>2. Append(<<>>, l) = <<l>> OBVIOUS
<1>3. Serialize(<<l>>) = Ended(<<>>, l) BY <1>1, <1>2, SerializeAppend, SerializeEmpty
<1>4. <<>> \o l = l BY TextFacts
<1>5. Serialize(<<l>>) = l \o <<NL>> BY <1>3, <1>4 DEF Ended
<1>. QED BY <1>1, <1>5, SerializeConcat

(* A text that is not empty ends in a newline. *)
LEMMA EndsInNewline ==
  ASSUME NEW ls \in Seq(Line), ls # <<>>
  PROVE  \E t \in Text : Serialize(ls) = t \o <<NL>>
<1>1. PICK y \in Seq(Line), l \in Line : ls = Append(y, l) BY SequenceEmptyOrAppend
<1>2. Serialize(ls) = Ended(Serialize(y), l) BY <1>1, SerializeAppend
<1>3. Serialize(y) \o l \in Text BY SerializeText, TextFacts
<1>. QED BY <1>2, <1>3 DEF Ended

(* The text before and after a cursor with the lines h and the piece p in  *)
(* front of it, the piece q and the lines t behind it.                     *)
Left(h, p)  == Serialize(h) \o p
Right(q, t) == q \o <<NL>> \o Serialize(t)

(* The lines h, l and t in a row. *)
With(h, l, t) == h \o <<l>> \o t

(* Together they are the whole text. *)
LEMMA WholeText ==
  ASSUME NEW h \in Seq(Line), NEW p \in Line, NEW q \in Line, NEW t \in Seq(Line)
  PROVE  /\ Left(h, p) \in Text /\ Right(q, t) \in Text
         /\ Serialize(With(h, p \o q, t)) = Left(h, p) \o Right(q, t)
<1>1. PICK a \in Text, b \in Text, c \in Text, d \in Text, n \in Text :
        a = Serialize(h) /\ b = p /\ c = q /\ d = Serialize(t) /\ n = <<NL>>
  BY SerializeText, TextFacts
<1>2. p \o q \in Line BY ConcatProperties DEF Line
<1>3. PICK l \in Line : l = p \o q BY <1>2
<1>4. <<l>> \in Seq(Line) OBVIOUS
<1>5. Serialize(h \o <<l>> \o t) = a \o (b \o c \o n) \o d
  <2>1. PICK m \in Seq(Line) : m = h \o <<l>> BY <1>4, ConcatProperties
  <2>2. Serialize(m) = Serialize(h) \o Serialize(<<l>>) BY <1>4, <2>1, SerializeConcat
  <2>3. Serialize(<<l>>) = l \o <<NL>>
    <3>1. <<>> \in Seq(Line) OBVIOUS
    <3>. QED BY <3>1, SerializeFirst
  <2>4. Serialize(m \o t) = Serialize(m) \o Serialize(t) BY SerializeConcat
  <2>. QED BY <1>1, <1>3, <2>1, <2>2, <2>3, <2>4
<1>6. a \o (b \o c \o n) \o d = (a \o b) \o (c \o n \o d)
  <2>1. a \o b \in Text /\ c \o n \in Text BY TextFacts
  <2>2. PICK u \in Text, v \in Text : u = a \o b /\ v = c \o n BY <2>1
  <2>3. Assoc(b, c, n) /\ Assoc(a, b, v) /\ Assoc(u, v, d) BY TextAssoc
  <2>. QED BY <2>2, <2>3 DEF Assoc
<1>7. Left(h, p) \in Text /\ Right(q, t) \in Text BY <1>1, TextFacts DEF Left, Right
<1>. QED BY <1>1, <1>3, <1>5, <1>6, <1>7 DEF Left, Right, With

(* The text after the cursor is w, but for the last newline. *)
Leaves(w, q, t) == w \in Text /\ Right(q, t) = w \o <<NL>>

(* There always is one. *)
LEMMA LeavesExists ==
  ASSUME NEW q \in Line, NEW t \in Seq(Line)
  PROVE  \E w : Leaves(w, q, t)
<1>1. PICK c \in Text, n \in Text : c = q /\ n = <<NL>> BY TextFacts
<1>2. CASE t = <<>>
  <2>1. Right(q, t) = c \o n BY <1>1, <1>2, SerializeEmpty, TextFacts DEF Right
  <2>. QED BY <1>1, <2>1 DEF Leaves
<1>3. CASE t # <<>>
  <2>1. PICK x \in Text : Serialize(t) = x \o <<NL>> BY <1>3, EndsInNewline
  <2>2. PICK v \in Text : v = c \o n BY TextFacts
  <2>3. Right(q, t) = v \o (x \o n) BY <1>1, <2>1, <2>2 DEF Right
  <2>4. Assoc(v, x, n) BY TextAssoc
  <2>5. v \o x \in Text BY TextFacts
  <2>. QED BY <1>1, <2>3, <2>4, <2>5 DEF Leaves, Assoc
<1>. QED BY <1>2, <1>3

(* The cursor of e is after h and p and before q and t. *)
Shaped(e, h, p, q, t) ==
  /\ e \in Ed(Nat) /\ Room(e) /\ Inside(e)
  /\ h \in Seq(Line) /\ p \in Line /\ q \in Line /\ t \in Seq(Line)
  /\ Filled(e) = With(h, p \o q, t) /\ e.cy = Len(h) /\ e.cx = Len(p)

(* ls is the lines h, l and t in a row, and they can be told apart. *)
Row(ls, h, l, t) ==
  /\ ls \in Seq(Line) /\ Len(ls) = Len(h) + 1 + Len(t) /\ Len(h) + 1 \in 1 .. Len(ls)
  /\ ls[Len(h) + 1] = l
  /\ SubSeq(ls, 1, Len(h)) = h /\ SubSeq(ls, Len(h) + 2, Len(ls)) = t

(* The pieces of lines put together. *)
LEMMA Pieces ==
  ASSUME NEW h \in Seq(Line), NEW l \in Line, NEW t \in Seq(Line), NEW r, r = With(h, l, t)
  PROVE  Row(r, h, l, t)
<1>1. PICK n \in Nat, k \in Nat : n = Len(h) /\ k = Len(t) BY LenProperties
<1>2. PICK o \in Seq(Line) : o = <<l>> /\ Len(o) = 1 /\ o[1] = l
  <2>1. <<l>> \in Seq(Line) /\ Len(<<l>>) = 1 /\ <<l>>[1] = l OBVIOUS
  <2>. QED BY <2>1
<1>3. PICK m : m = h \o o OBVIOUS
<1>4. m \in Seq(Line) /\ Len(m) = n + 1 /\ m[n + 1] = l
  <2>1. /\ m \in Seq(Line) /\ Len(m) = n + 1
        /\ \A i \in 1 .. n + 1 : m[i] = IF i <= n THEN h[i] ELSE o[i - n]
    BY <1>1, <1>2, <1>3, ConcatProperties
  <2>2. n + 1 \in 1 .. n + 1 /\ ~(n + 1 <= n) /\ (n + 1) - n = 1 OBVIOUS
  <2>3. m[n + 1] = o[(n + 1) - n] BY <2>1, <2>2
  <2>. QED BY <1>2, <2>1, <2>2, <2>3
<1>5. PICK ls : ls = m \o t OBVIOUS
<1>6. ls \in Seq(Line) /\ Len(ls) = n + 1 + k /\ ls[n + 1] = l
  <2>1. PICK j \in Nat : j = n + 1 OBVIOUS
  <2>2. /\ m \o t \in Seq(Line) /\ Len(m \o t) = Len(m) + Len(t)
        /\ \A i \in 1 .. Len(m) + Len(t) :
             (m \o t)[i] = IF i <= Len(m) THEN m[i] ELSE t[i - Len(m)]
    BY <1>4, ConcatProperties
  <2>5. /\ ls \in Seq(Line) /\ Len(ls) = j + k
        /\ \A i \in 1 .. j + k : ls[i] = IF i <= j THEN m[i] ELSE t[i - j]
    BY <1>1, <1>4, <1>5, <2>1, <2>2
  <2>3. j \in 1 .. j + k /\ j <= j BY <2>1
  <2>4. ls[j] = m[j] BY <2>3, <2>5
  <2>. QED BY <1>4, <2>1, <2>4, <2>5
<1>7. SubSeq(ls, n + 2, n + 1 + k) = t
  <2>1. SubSeq(ls, Len(m) + 1, Len(ls)) = t BY <1>4, <1>5, TakeConcat
  <2>2. Len(m) + 1 = n + 2 BY <1>4
  <2>. QED BY <1>6, <2>1, <2>2
<1>8. SubSeq(ls, 1, n) = h
  <2>1. PICK s \in Seq(Line) : s = o \o t BY ConcatProperties
  <2>2. Assoc(h, o, t) BY LinesAssoc
  <2>3. ls = h \o s BY <1>3, <1>5, <2>1, <2>2 DEF Assoc
  <2>. QED BY <1>1, <2>3, TakeConcat
<1>9. ls = With(h, l, t) BY <1>2, <1>3, <1>5 DEF With
<1>10. n + 1 \in 1 .. Len(ls) BY <1>6
<1>11. r = ls BY <1>9
<1>. QED BY <1>1, <1>6, <1>7, <1>8, <1>10, <1>11 DEF Row

(* Every state with its cursor inside has a shape. *)
LEMMA ShapeExists ==
  ASSUME NEW e \in Ed(Nat), Room(e), Inside(e)
  PROVE  \E h, p, q, t : Shaped(e, h, p, q, t)
<1>0. e.cx \in Nat /\ e.cy \in Nat /\ e.lines \in Seq(Line) /\ Len(e.lines) \in Nat BY DEF Ed
<1>1. PICK f \in Seq(Line), k \in Nat :
        f = Filled(e) /\ k = e.cy + 1 /\ k \in 1 .. Len(f) /\ e.cx <= Len(f[k])
  <2>1. CASE Phantom(e)
    <3>1. <<>> \in Line /\ Len(<<>>) = 0 BY DEF Line
    <3>2. PICK f : f = Append(e.lines, <<>>) OBVIOUS
    <3>3. f \in Seq(Line) /\ Len(f) = Len(e.lines) + 1 /\ f[Len(e.lines) + 1] = <<>>
      BY <1>0, <3>1, <3>2, AppendProperties
    <3>4. e.cy = Len(e.lines) /\ e.cx = 0 BY <1>0, <2>1 DEF Inside, Phantom, nlines
    <3>. QED BY <1>0, <2>1, <3>1, <3>2, <3>3, <3>4 DEF Filled
  <2>2. CASE ~Phantom(e)
    <3>1. e.cy + 1 \in 1 .. Len(e.lines) /\ e.cx <= Len(e.lines[e.cy + 1])
      BY <1>0, <2>2 DEF Inside, Phantom, nlines
    <3>. QED BY <1>0, <2>2, <3>1 DEF Filled
  <2>. QED BY <2>1, <2>2
<1>2. PICK l \in Line, n \in Nat, w \in Nat : l = f[k] /\ n = Len(f) /\ w = Len(l)
  <2>1. f[k] \in Line BY <1>1, ElementOfSeq
  <2>2. \A l \in Line : Len(l) \in Nat BY DEF Line
  <2>. QED BY <2>1, <2>2, LenProperties
<1>3. PICK p, q : p = SubSeq(l, 1, e.cx) /\ q = SubSeq(l, e.cx + 1, w) OBVIOUS
<1>4. p \in Line /\ Len(p) = e.cx BY <1>0, <1>1, <1>2, <1>3, Front DEF Line
<1>5. q \in Line
  <2>1. PICK i \in Nat : i = e.cx + 1 /\ i >= 1 /\ i <= w + 1 BY <1>0, <1>1, <1>2
  <2>. QED BY <1>2, <1>3, <2>1, Back DEF Line
<1>6. p \o q = l
  <2>1. /\ 1 \in 1 .. w + 1 /\ e.cx \in 1 - 1 .. w /\ w \in e.cx .. w
    BY <1>0, <1>1, <1>2
  <2>2. SubSeq(l, 1, e.cx) \o SubSeq(l, e.cx + 1, w) = SubSeq(l, 1, w)
    BY <1>2, <2>1, ConcatAdjacentSubSeq DEF Line
  <2>3. SubSeq(l, 1, w) = l BY <1>2, SubSeqFull DEF Line
  <2>. QED BY <1>3, <2>2, <2>3
<1>7. PICK h, t : h = SubSeq(f, 1, e.cy) /\ t = SubSeq(f, k + 1, n) OBVIOUS
<1>8. h \in Seq(Line) /\ Len(h) = e.cy
  <2>1. e.cy <= Len(f) BY <1>0, <1>1, <1>2
  <2>. QED BY <1>0, <1>7, <2>1, Front
<1>9. t \in Seq(Line)
  <2>1. PICK i \in Nat : i = k + 1 /\ i >= 1 /\ i <= Len(f) + 1 BY <1>1, <1>2
  <2>. QED BY <1>2, <1>7, <2>1, Back
<1>10. f = With(h, l, t)
  <2>1. PICK s : s = SubSeq(f, k, n) OBVIOUS
  <2>2. h \o s = f
    <3>1. 1 \in 1 .. n + 1 /\ e.cy \in 1 - 1 .. n /\ n \in e.cy .. n BY <1>0, <1>1, <1>2
    <3>2. SubSeq(f, 1, e.cy) \o SubSeq(f, e.cy + 1, n) = SubSeq(f, 1, n)
      BY <1>2, <3>1, ConcatAdjacentSubSeq
    <3>3. SubSeq(f, 1, n) = f BY <1>2, SubSeqFull
    <3>. QED BY <1>1, <1>7, <2>1, <3>2, <3>3
  <2>3. s = <<l>> \o t
    <3>1. k \in 1 .. n /\ n \in k .. n BY <1>1, <1>2
    <3>2. SubSeq(f, k, n) = <<f[k]>> \o SubSeq(f, k + 1, n)
      BY <1>2, <3>1, SubSeqRecursiveFirst
    <3>. QED BY <1>2, <1>7, <2>1, <3>2
  <2>4. PICK o \in Seq(Line) : o = <<l>>
    <3>1. <<l>> \in Seq(Line) OBVIOUS
    <3>. QED BY <3>1
  <2>5. Assoc(h, o, t) BY <1>8, <1>9, LinesAssoc
  <2>. QED BY <2>2, <2>3, <2>4, <2>5 DEF With, Assoc
<1>. QED BY <1>1, <1>4, <1>5, <1>6, <1>8, <1>9, <1>10 DEF Shaped

(* The text of a key: a cursor past the last line is after a newline. *)
TextOf(e) == Flat(e) \o (IF Phantom(e) THEN <<NL>> ELSE <<>>)

(* The text of e is x, then w, and the cursor is between them. *)
Reads(e, x, w) ==
  /\ TextOf(e) = x \o w /\ At(e) = Len(x)
  /\ Flat(e) \in Text /\ (~Phantom(e) => Flat(e) = TextOf(e))

(* The text and the offset of the cursor in it. *)
LEMMA FlatIs ==
  ASSUME NEW e, NEW h, NEW p, NEW q, NEW t, NEW w, Shaped(e, h, p, q, t), Leaves(w, q, t)
  PROVE  Reads(e, Left(h, p), w)
<1>0. /\ h \in Seq(Line) /\ p \in Line /\ q \in Line /\ t \in Seq(Line)
      /\ Filled(e) = With(h, p \o q, t) /\ e.cy = Len(h) /\ e.cx = Len(p)
      /\ e.lines \in Seq(Line) /\ Len(e.lines) \in Nat
      /\ w \in Text /\ Right(q, t) = w \o <<NL>>
      /\ e \in Ed(Nat) /\ Room(e) /\ Inside(e)
  BY DEF Shaped, Ed, Leaves
<1>1. PICK a \in Text, n \in Text : a = Left(h, p) /\ n = <<NL>> BY <1>0, WholeText, TextFacts
<1>2. PICK u \in Text : u = a \o w BY <1>0, TextFacts
<1>3. Serialize(Filled(e)) = u \o n
  <2>1. Serialize(With(h, p \o q, t)) = Left(h, p) \o Right(q, t) BY <1>0, WholeText
  <2>2. Serialize(Filled(e)) = a \o (w \o n) BY <1>0, <1>1, <2>1
  <2>3. Assoc(a, w, n) BY <1>0, TextAssoc
  <2>. QED BY <1>2, <2>2, <2>3 DEF Assoc
<1>4. e.lines # <<>>
  <2>1. Len(e.lines) >= 1 BY <1>0 DEF Room
  <2>. QED BY <2>1, EmptySeq
<1>5. PICK v \in Text : Serialize(e.lines) = v \o <<NL>> BY <1>0, <1>4, EndsInNewline
<1>6. Flat(e) = v
  <2>1. PICK s \in Text : s = v \o <<NL>> BY <1>1, TextFacts
  <2>2. Len(s) = Len(v) + 1 /\ Len(v) \in Nat BY <2>1, TextFacts
  <2>3. Len(s) - 1 = Len(v) BY <2>2
  <2>4. SubSeq(s, 1, Len(v)) = v
    <3>1. <<NL>> \in Text BY TextFacts
    <3>. QED BY <2>1, <3>1, TakeConcat DEF Text
  <2>. QED BY <1>5, <2>1, <2>3, <2>4 DEF Flat
<1>7. PICK m \in Line : m = p \o q BY <1>0, ConcatProperties DEF Line
<1>8. CASE Phantom(e)
  <2>1. <<>> \in Line /\ <<>> \in Text BY TextFacts DEF Line
  <2>2. Filled(e) = Append(e.lines, <<>>) /\ e.cy = Len(e.lines)
    BY <1>8 DEF Filled, Phantom, nlines
  <2>3. Serialize(Filled(e)) = v \o n \o <<>> \o n
    BY <1>0, <1>1, <1>5, <2>1, <2>2, SerializeAppend DEF Ended
  <2>4. PICK x \in Text : x = v \o n BY TextFacts
  <2>5. x \o n = u \o n BY <1>3, <2>3, <2>4, TextFacts
  <2>6. x = u BY <1>1, <2>5, TextCancel
  <2>7. SubSeq(e.lines, 1, e.cy) = h
    <3>0. Row(Filled(e), h, m, t) BY <1>0, <1>7, Pieces
    <3>1. SubSeq(Filled(e), 1, Len(h)) = h BY <3>0 DEF Row
    <3>2. PICK o \in Seq(Line), z \in Seq(Line) : o = << <<>> >> /\ z = e.lines
      <4>1. << <<>> >> \in Seq(Line) BY <2>1
      <4>. QED BY <1>0, <4>1
    <3>3. Filled(e) = z \o o BY <2>1, <2>2, <3>2, AppendIsConcat
    <3>4. SubSeq(Filled(e), 1, Len(z)) = z BY <3>3, TakeConcat
    <3>5. SubSeq(e.lines, 1, Len(e.lines)) = e.lines BY <1>0, SubSeqFull
    <3>. QED BY <1>0, <2>2, <3>1, <3>2, <3>4, <3>5
  <2>8. At(e) = Len(Serialize(h)) + Len(p) BY <1>0, <2>7 DEF At
  <2>9. Len(Left(h, p)) = Len(Serialize(h)) + Len(p)
    BY <1>0, SerializeText, TextFacts DEF Left
  <2>. QED BY <1>1, <1>2, <1>6, <1>8, <2>4, <2>6, <2>8, <2>9 DEF TextOf, Reads
<1>9. CASE ~Phantom(e)
  <2>1. Filled(e) = e.lines BY <1>9 DEF Filled
  <2>2. v = u BY <1>1, <1>3, <1>5, <2>1, TextCancel
  <2>3. SubSeq(e.lines, 1, e.cy) = h
    <3>0. Row(Filled(e), h, m, t) BY <1>0, <1>7, Pieces
    <3>1. SubSeq(Filled(e), 1, Len(h)) = h BY <3>0 DEF Row
    <3>. QED BY <1>0, <2>1, <3>1
  <2>4. At(e) = Len(Serialize(h)) + Len(p) BY <1>0, <2>3 DEF At
  <2>5. Len(Left(h, p)) = Len(Serialize(h)) + Len(p)
    BY <1>0, SerializeText, TextFacts DEF Left
  <2>. QED BY <1>1, <1>2, <1>6, <1>9, <2>2, <2>4, <2>5, TextFacts DEF TextOf, Reads
<1>. QED BY <1>8, <1>9

(* r is e with ins put in at the cursor, which goes after it. *)
InsertedInto(e, r, ins) ==
  LET t == TextOf(e)
  IN  /\ Flat(r) = SubSeq(t, 1, At(e)) \o ins \o SubSeq(t, At(e) + 1, Len(t))
      /\ At(r) = At(e) + Len(ins)

(* The text before a cursor, with ins more. *)
Grows(h, p, q, t, g, o, n, u, ins) ==
  ins \in Text /\ Left(g, o) = Left(h, p) \o ins /\ Right(n, u) = Right(q, t)

(* It is, if the text before the cursor has grown by ins and the text      *)
(* after it has not changed.                                               *)
LEMMA InsertedIs ==
  ASSUME NEW e, NEW h, NEW p, NEW q, NEW t, Shaped(e, h, p, q, t),
         NEW r, NEW g, NEW o, NEW n, NEW u, Shaped(r, g, o, n, u), ~Phantom(r),
         NEW ins, Grows(h, p, q, t, g, o, n, u, ins)
  PROVE  InsertedInto(e, r, ins)
<1>a. ins \in Text /\ Left(g, o) = Left(h, p) \o ins /\ Right(n, u) = Right(q, t) BY DEF Grows
<1>0. h \in Seq(Line) /\ p \in Line /\ q \in Line /\ t \in Seq(Line) BY DEF Shaped
<1>1. PICK a \in Text : a = Left(h, p) BY <1>0, WholeText
<1>2. PICK w : Leaves(w, q, t) BY <1>0, LeavesExists
<1>3. w \in Text /\ Leaves(w, n, u) BY <1>2, <1>a DEF Leaves
<1>4. TextOf(e) = a \o w /\ At(e) = Len(a)
  <2>1. Reads(e, Left(h, p), w) BY <1>2, FlatIs, Zenon
  <2>. QED BY <1>1, <2>1 DEF Reads
<1>5. Flat(r) = Left(g, o) \o w /\ At(r) = Len(Left(g, o))
  <2>1. Reads(r, Left(g, o), w) BY <1>3, FlatIs, Zenon
  <2>. QED BY <2>1 DEF Reads
<1>6. PICK b \in Text : b = a \o ins /\ Len(b) = Len(a) + Len(ins)
  <2>1. a \o ins \in Text /\ Len(a \o ins) = Len(a) + Len(ins) BY <1>a, TextFacts
  <2>. QED BY <2>1
<1>7. Flat(r) = a \o ins \o w /\ At(r) = At(e) + Len(ins) BY <1>1, <1>4, <1>5, <1>6, <1>a
<1>8. PICK s : s = TextOf(e) OBVIOUS
<1>9. SubSeq(s, 1, At(e)) = a /\ SubSeq(s, At(e) + 1, Len(s)) = w
  BY <1>3, <1>4, <1>8, TakeConcat DEF Text
<1>. QED BY <1>7, <1>8, <1>9 DEF InsertedInto

(* r is e without the character at position at, and its cursor is there;   *)
(* without one there, nothing has changed.                                 *)
DeletedFrom(e, r, at) ==
  LET t == Flat(e)
  IN  /\ Flat(r) = IF at \in 1 .. Len(t) /\ ~Phantom(e)
                   THEN SubSeq(t, 1, at - 1) \o SubSeq(t, at + 1, Len(t)) ELSE t
      /\ At(r) = IF at \in 1 .. Len(t) /\ ~Phantom(e) THEN at - 1 ELSE At(e)

(* Taking a character out of a text. *)
LEMMA TakeOut ==
  ASSUME NEW a \in Text, NEW x \in Text, Len(x) = 1, NEW w \in Text
  PROVE  LET t == a \o x \o w
             k == Len(a) + 1
         IN  /\ k \in 1 .. Len(t) /\ k - 1 = Len(a)
             /\ SubSeq(t, 1, k - 1) = a /\ SubSeq(t, k + 1, Len(t)) = w
<1>1. PICK b \in Text, c \in Text, t \in Text : b = a \o x /\ c = x \o w /\ t = b \o w
  BY TextFacts
<1>2. t = a \o c
  <2>1. Assoc(a, x, w) BY TextAssoc
  <2>. QED BY <1>1, <2>1 DEF Assoc
<1>3. Len(b) = Len(a) + 1 /\ Len(t) = Len(b) + Len(w)
  <2>1. Len(a \o x) = Len(a) + Len(x) /\ Len(b \o w) = Len(b) + Len(w) BY TextFacts
  <2>. QED BY <1>1, <2>1
<1>4. Len(a) \in Nat /\ Len(w) \in Nat BY TextFacts
<1>5. SubSeq(t, 1, Len(a)) = a BY <1>2, TakeConcat DEF Text
<1>6. SubSeq(t, Len(b) + 1, Len(t)) = w BY <1>1, TakeConcat DEF Text
<1>7. PICK k \in Nat : k = Len(a) + 1 /\ k - 1 = Len(a) /\ k \in 1 .. Len(t) BY <1>3, <1>4
<1>. QED BY <1>1, <1>3, <1>5, <1>6, <1>7

(* The text before and after a cursor, with one character x less. *)
Lacks(h, p, q, t, g, o, n, u, x) ==
  /\ x \in Text /\ Len(x) = 1
  /\ \/ Left(h, p) = Left(g, o) \o x /\ Right(q, t) = Right(n, u)
     \/ Left(h, p) = Left(g, o) /\ Right(q, t) = x \o Right(n, u)

(* r lacks one character x of e that was next to the cursor. *)
LEMMA DeletedIs ==
  ASSUME NEW e, NEW h, NEW p, NEW q, NEW t, Shaped(e, h, p, q, t), ~Phantom(e),
         NEW r, NEW g, NEW o, NEW n, NEW u, Shaped(r, g, o, n, u), ~Phantom(r),
         NEW x, Lacks(h, p, q, t, g, o, n, u, x), NEW at, at = Len(Left(g, o)) + 1
  PROVE  DeletedFrom(e, r, at)
<1>a. /\ x \in Text /\ Len(x) = 1
      /\ \/ Left(h, p) = Left(g, o) \o x /\ Right(q, t) = Right(n, u)
         \/ Left(h, p) = Left(g, o) /\ Right(q, t) = x \o Right(n, u)
  BY DEF Lacks
<1>0. /\ h \in Seq(Line) /\ p \in Line /\ q \in Line /\ t \in Seq(Line)
      /\ g \in Seq(Line) /\ o \in Line /\ n \in Line /\ u \in Seq(Line)
  BY DEF Shaped
<1>1. PICK a \in Text : a = Left(g, o) BY <1>0, WholeText
<1>2. PICK w : Leaves(w, n, u) BY <1>0, LeavesExists
<1>3. PICK v : Leaves(v, q, t) BY <1>0, LeavesExists
<1>4. Flat(e) = Left(h, p) \o v
  <2>1. Reads(e, Left(h, p), v) BY <1>3, FlatIs, Zenon
  <2>. QED BY <2>1 DEF Reads
<1>5. Flat(r) = a \o w /\ At(r) = Len(a)
  <2>1. Reads(r, Left(g, o), w) BY <1>2, FlatIs, Zenon
  <2>. QED BY <1>1, <2>1 DEF Reads
<1>9. /\ w \in Text /\ Right(n, u) = w \o <<NL>>
      /\ v \in Text /\ Right(q, t) = v \o <<NL>>
  BY <1>2, <1>3 DEF Leaves
<1>6. Flat(e) = a \o x \o w
  <2>1. CASE Left(h, p) = Left(g, o) \o x /\ Right(q, t) = Right(n, u)
    <3>1. v = w BY <1>9, <2>1, TextCancel
    <3>. QED BY <1>1, <1>4, <2>1, <3>1
  <2>2. CASE Left(h, p) = Left(g, o) /\ Right(q, t) = x \o Right(n, u)
    <3>1. <<NL>> \in Text /\ x \o w \in Text BY <1>9, <1>a, TextFacts
    <3>2. Assoc(x, w, <<NL>>) BY <1>9, <1>a, <3>1, TextAssoc
    <3>3. v = x \o w
      <4>1. v \o <<NL>> = (x \o w) \o <<NL>> BY <1>9, <2>2, <3>2 DEF Assoc
      <4>. QED BY <1>9, <3>1, <4>1, TextCancel
    <3>4. Assoc(a, x, w) BY <1>9, <1>a, TextAssoc
    <3>. QED BY <1>1, <1>4, <2>2, <3>3, <3>4 DEF Assoc
  <2>. QED BY <1>a, <2>1, <2>2
<1>7. PICK k : k = Len(a) + 1 /\ k = at BY <1>1
<1>8. /\ k \in 1 .. Len(Flat(e)) /\ k - 1 = Len(a)
      /\ SubSeq(Flat(e), 1, k - 1) = a /\ SubSeq(Flat(e), k + 1, Len(Flat(e))) = w
  <2>1. PICK s : s = a \o x \o w OBVIOUS
  <2>3. w \in Text BY <1>9
  <2>2. /\ k \in 1 .. Len(s) /\ k - 1 = Len(a)
        /\ SubSeq(s, 1, k - 1) = a /\ SubSeq(s, k + 1, Len(s)) = w
    BY <1>7, <1>a, <2>1, <2>3, TakeOut
  <2>. QED BY <1>6, <2>1, <2>2
<1>. QED BY <1>1, <1>5, <1>7, <1>8 DEF DeletedFrom

(* Pieces put in at a cursor, taken out before it or after it, and a line  *)
(* broken or two joined: what that does to the text on both sides.         *)
LEMMA SidesInsert ==
  ASSUME NEW h \in Seq(Line), NEW p \in Line, NEW c \in Line
  PROVE  Left(h, p \o c) = Left(h, p) \o c
<1>1. Serialize(h) \in Text /\ p \in Text /\ c \in Text BY SerializeText, TextFacts
<1>2. Assoc(Serialize(h), p, c) BY <1>1, TextAssoc
<1>. QED BY <1>2 DEF Left, Assoc

(* A character after the cursor. *)
LEMMA SidesDelete ==
  ASSUME NEW c \in Line, NEW q \in Line, NEW t \in Seq(Line)
  PROVE  Right(c \o q, t) = c \o Right(q, t)
<1>1. PICK s \in Text, b \in Text, d \in Text, n \in Text :
        s = Serialize(t) /\ b = c /\ d = q /\ n = <<NL>>
  BY SerializeText, TextFacts
<1>2. PICK v \in Text : v = d \o n BY TextFacts
<1>3. Assoc(b, d, n) /\ Assoc(b, v, s) BY TextAssoc
<1>. QED BY <1>1, <1>2, <1>3 DEF Right, Assoc

(* A line before the cursor. *)
LEMMA SidesBreak ==
  ASSUME NEW h \in Seq(Line), NEW l \in Line, NEW p \in Line
  PROVE  Left(Append(h, l), p) = Left(h, l) \o (<<NL>> \o p)
<1>1. PICK s \in Text, b \in Text, d \in Text, n \in Text :
        s = Serialize(h) /\ b = l /\ d = p /\ n = <<NL>>
  BY SerializeText, TextFacts
<1>2. Serialize(Append(h, l)) = (s \o b) \o n BY <1>1, SerializeAppend DEF Ended
<1>3. PICK v \in Text : v = s \o b BY TextFacts
<1>4. Assoc(v, n, d) BY TextAssoc
<1>. QED BY <1>1, <1>2, <1>3, <1>4 DEF Left, Assoc

(* A line after the cursor. *)
LEMMA SidesJoin ==
  ASSUME NEW l \in Line, NEW t \in Seq(Line)
  PROVE  Right(<<>>, <<l>> \o t) = <<NL>> \o Right(l, t)
<1>1. PICK s \in Text, b \in Text, n \in Text : s = Serialize(t) /\ b = l /\ n = <<NL>>
  BY SerializeText, TextFacts
<1>2. Serialize(<<l>> \o t) = (b \o n) \o s BY <1>1, SerializeFirst
<1>3. <<>> \o n = n BY TextFacts
<1>. QED BY <1>1, <1>2, <1>3 DEF Right

(* A state that has the lines and the cursor of a shape has that shape. *)
LEMMA ShapeIs ==
  ASSUME NEW r \in Ed(Nat), Room(r), NEW h \in Seq(Line), NEW p \in Line, NEW q \in Line,
         NEW t \in Seq(Line), r.lines = With(h, p \o q, t), r.cy = Len(h), r.cx = Len(p)
  PROVE  Shaped(r, h, p, q, t) /\ ~Phantom(r)
<1>1. PICK l \in Line : l = p \o q /\ Len(l) = Len(p) + Len(q)
  <2>1. p \o q \in Line /\ Len(p \o q) = Len(p) + Len(q) BY ConcatProperties DEF Line
  <2>. QED BY <2>1
<1>2. Len(p) \in Nat /\ Len(q) \in Nat /\ Len(h) \in Nat /\ Len(t) \in Nat
  BY LenProperties DEF Line
<1>3. PICK n \in Nat : n = Len(h) BY <1>2
<1>a. Row(r.lines, h, l, t) BY <1>1, Pieces
<1>4. Len(r.lines) = n + 1 + Len(t) /\ r.lines[n + 1] = l BY <1>3, <1>a DEF Row
<1>5. r.cy # Len(r.lines) /\ r.cy <= Len(r.lines) BY <1>2, <1>3, <1>4
<1>6. ~Phantom(r) BY <1>5 DEF Phantom, nlines
<1>7. r.cx <= Len(r.lines[r.cy + 1]) BY <1>1, <1>2, <1>3, <1>4
<1>8. Inside(r) BY <1>5, <1>7 DEF Inside
<1>9. Filled(r) = r.lines BY <1>6 DEF Filled
<1>. QED BY <1>6, <1>8, <1>9 DEF Shaped

(* The lines of a row one by one. *)
Listed(c, h, x, t, n, k) ==
  /\ c \in Seq(Line) /\ Len(c) = n + 1 + k /\ c[n + 1] = x
  /\ \A i \in 1 .. n : c[i] = h[i]
  /\ \A i \in 1 .. k : c[n + 1 + i] = t[i]

(* A row has them. *)
LEMMA RowElements ==
  ASSUME NEW h \in Seq(Line), NEW t \in Seq(Line), NEW c, NEW x, Row(c, h, x, t),
         NEW n \in Nat, NEW k \in Nat, n = Len(h), k = Len(t)
  PROVE  Listed(c, h, x, t, n, k)
<1>1. /\ c \in Seq(Line) /\ Len(c) = n + 1 + k /\ c[n + 1] = x
      /\ SubSeq(c, 1, n) = h /\ SubSeq(c, n + 2, n + 1 + k) = t
  BY DEF Row
<1>2. ASSUME NEW i \in 1 .. n PROVE c[i] = h[i]
  <2>1. PICK v : v = SubSeq(c, 1, n) OBVIOUS
  <2>2. 1 \in Nat \ {0} /\ n <= Len(c) /\ 1 <= n + 1 BY <1>1
  <2>3. \A j \in 1 .. n + 1 - 1 : v[j] = c[j + 1 - 1] BY <1>1, <2>1, <2>2, Piece
  <2>4. i \in 1 .. n + 1 - 1 /\ i + 1 - 1 = i OBVIOUS
  <2>5. v[i] = c[i + 1 - 1] BY <2>3, <2>4
  <2>. QED BY <1>1, <2>1, <2>4, <2>5
<1>3. ASSUME NEW i \in 1 .. k PROVE c[n + 1 + i] = t[i]
  <2>0. PICK f \in Nat \ {0}, g \in Nat : f = n + 2 /\ g = n + 1 + k OBVIOUS
  <2>1. PICK v : v = SubSeq(c, f, g) OBVIOUS
  <2>2. g <= Len(c) /\ f <= g + 1 BY <1>1, <2>0
  <2>3. \A j \in 1 .. g + 1 - f : v[j] = c[j + f - 1] BY <1>1, <2>1, <2>2, Piece
  <2>4. i \in 1 .. g + 1 - f /\ i + f - 1 = n + 1 + i BY <2>0
  <2>5. v[i] = c[i + f - 1] BY <2>3, <2>4
  <2>. QED BY <1>1, <2>0, <2>1, <2>4, <2>5
<1>. QED BY <1>1, <1>2, <1>3 DEF Listed

(* Another line in its place. *)
LEMMA Replaced ==
  ASSUME NEW h \in Seq(Line), NEW l \in Line, NEW m \in Line, NEW t \in Seq(Line)
  PROVE  [With(h, l, t) EXCEPT ![Len(h) + 1] = m] = With(h, m, t)
<1>1. PICK a, b : a = With(h, l, t) /\ b = With(h, m, t) OBVIOUS
<1>2. PICK n \in Nat, k \in Nat : n = Len(h) /\ k = Len(t) BY LenProperties
<1>4. /\ a \in Seq(Line) /\ Len(a) = n + 1 + k
      /\ \A i \in 1 .. n : a[i] = h[i]
      /\ \A i \in 1 .. k : a[n + 1 + i] = t[i]
  <2>1. Row(a, h, l, t) BY <1>1, Pieces
  <2>2. Listed(a, h, l, t, n, k) BY <1>2, <2>1, RowElements
  <2>. QED BY <2>2 DEF Listed
<1>5. /\ b \in Seq(Line) /\ Len(b) = n + 1 + k /\ b[n + 1] = m
      /\ \A i \in 1 .. n : b[i] = h[i]
      /\ \A i \in 1 .. k : b[n + 1 + i] = t[i]
  <2>1. Row(b, h, m, t) BY <1>1, Pieces
  <2>2. Listed(b, h, m, t, n, k) BY <1>2, <2>1, RowElements
  <2>. QED BY <2>2 DEF Listed
<1>6. PICK j \in 1 .. Len(a) : j = n + 1 BY <1>4
<1>7. PICK d : d = [a EXCEPT ![j] = m] OBVIOUS
<1>8. /\ d \in Seq(Line) /\ Len(d) = n + 1 + k
      /\ \A i \in 1 .. n + 1 + k : d[i] = IF i = j THEN m ELSE a[i]
  BY <1>4, <1>6, <1>7, ExceptSeq
<1>9. ASSUME NEW i \in 1 .. n + 1 + k PROVE d[i] = b[i]
  <2>1. CASE i = n + 1 BY <1>5, <1>6, <1>8, <2>1
  <2>2. CASE i \in 1 .. n
    <3>1. i # j BY <1>6, <2>2
    <3>. QED BY <1>4, <1>5, <1>8, <2>2, <3>1
  <2>3. CASE i > n + 1
    <3>1. PICK x \in 1 .. k : i = n + 1 + x
      <4>1. i - (n + 1) \in 1 .. k /\ i = n + 1 + (i - (n + 1)) BY <2>3
      <4>. QED BY <4>1
    <3>2. i # j BY <1>6, <2>3
    <3>. QED BY <1>4, <1>5, <1>8, <3>1, <3>2
  <2>4. i = n + 1 \/ i \in 1 .. n \/ i > n + 1 OBVIOUS
  <2>. QED BY <2>1, <2>2, <2>3, <2>4
<1>10. d = b BY <1>5, <1>8, <1>9, SeqEqual
<1>. QED BY <1>1, <1>2, <1>6, <1>7, <1>10

(* A character goes in at the cursor. *)
LEMMA InsertShape ==
  ASSUME NEW e, NEW h, NEW p, NEW q, NEW t, Shaped(e, h, p, q, t), NEW c \in LineChars
  PROVE  LET r == editor_insert_char(e, c)
         IN  Shaped(r, h, p \o <<c>>, q, t) /\ ~Phantom(r)
<1>0. /\ e \in Ed(Nat) /\ Room(e) /\ Inside(e)
      /\ h \in Seq(Line) /\ p \in Line /\ q \in Line /\ t \in Seq(Line)
      /\ Filled(e) = With(h, p \o q, t) /\ e.cy = Len(h) /\ e.cx = Len(p)
  BY DEF Shaped
<1>1. PICK l \in Line : l = p \o q BY <1>0, ConcatProperties DEF Line
<1>2. PICK o \in Line : o = <<c>> /\ Len(o) = 1
  <2>1. <<c>> \in Line /\ Len(<<c>>) = 1 BY DEF Line
  <2>. QED BY <2>1
<1>3. PICK r : r = editor_insert_char(e, c) OBVIOUS
<1>4. /\ r \in Ed(Nat) /\ Room(r)
      /\ r.lines = [Filled(e) EXCEPT ![e.cy + 1] = line_insert_char(@, e.cx, c)]
      /\ r.cx = e.cx + 1 /\ r.cy = e.cy
  BY <1>0, <1>3, InsertChar
<1>5. PICK m \in Line : m = p \o o /\ Len(m) = Len(p) + 1
  <2>1. p \o o \in Line /\ Len(p \o o) = Len(p) + Len(o) BY <1>0, ConcatProperties DEF Line
  <2>. QED BY <1>2, <2>1
<1>6. line_insert_char(l, e.cx, c) = m \o q
  <2>1. SubSeq(l, 1, Len(p)) = p /\ SubSeq(l, Len(p) + 1, Len(l)) = q
    BY <1>0, <1>1, TakeConcat DEF Line
  <2>. QED BY <1>0, <1>2, <1>5, <2>1 DEF line_insert_char
<1>7. PICK k \in Line : k = m \o q BY <1>0, ConcatProperties DEF Line
<1>8. Filled(e)[e.cy + 1] = l
  <2>1. Row(Filled(e), h, l, t) BY <1>0, <1>1, Pieces
  <2>. QED BY <1>0, <2>1 DEF Row
<1>9. r.lines = [With(h, l, t) EXCEPT ![Len(h) + 1] = k] BY <1>0, <1>1, <1>4, <1>6, <1>7, <1>8
<1>11. [With(h, l, t) EXCEPT ![Len(h) + 1] = k] = With(h, k, t) BY <1>0, Replaced
<1>10. r.lines = With(h, m \o q, t) BY <1>7, <1>9, <1>11, Zenon
<1>. QED BY <1>0, <1>2, <1>3, <1>4, <1>5, <1>10, ShapeIs

(* A line after the cursor's is a line before the next one. *)
LEMMA Shift ==
  ASSUME NEW h \in Seq(Line), NEW l \in Line, NEW b \in Line, NEW u \in Seq(Line)
  PROVE  With(Append(h, l), b, u) = With(h, l, <<b>> \o u)
<1>1. PICK o \in Seq(Line), n \in Seq(Line) : o = <<l>> /\ n = <<b>>
  <2>1. <<l>> \in Seq(Line) /\ <<b>> \in Seq(Line) OBVIOUS
  <2>. QED BY <2>1
<1>2. PICK m \in Seq(Line) : m = h \o o /\ m = Append(h, l)
  <2>1. h \o o \in Seq(Line) BY ConcatProperties
  <2>2. h \o <<l>> = Append(h, l) BY AppendIsConcat
  <2>. QED BY <1>1, <2>1, <2>2
<1>3. Assoc(m, n, u) BY LinesAssoc
<1>. QED BY <1>1, <1>2, <1>3 DEF With, Assoc

(* Joining the lines of a row. *)
LEMMA JoinIs ==
  ASSUME NEW g \in Seq(Line), NEW a \in Line, NEW b \in Line, NEW u \in Seq(Line),
         NEW ls, ls = With(Append(g, a), b, u)
  PROVE  Join(ls, Len(g)) = With(g, a \o b, u)
<1>1. PICK n \in Nat : n = Len(g) BY LenProperties
<1>2. PICK h \in Seq(Line) : h = Append(g, a) /\ Len(h) = n + 1
  <2>1. Append(g, a) \in Seq(Line) /\ Len(Append(g, a)) = Len(g) + 1 BY AppendProperties
  <2>. QED BY <1>1, <2>1
<1>3. PICK t \in Seq(Line) : t = <<b>> \o u
  <2>1. <<b>> \in Seq(Line) OBVIOUS
  <2>2. <<b>> \o u \in Seq(Line) BY <2>1, ConcatProperties
  <2>. QED BY <2>2
<1>4. Row(ls, h, b, u) BY <1>2, Pieces
<1>5. Row(ls, g, a, t)
  <2>1. ls = With(g, a, t) BY <1>3, Shift
  <2>. QED BY <2>1, Pieces
<1>6. ls[n + 2] = b /\ SubSeq(ls, n + 3, Len(ls)) = u
  <2>1. ls[Len(h) + 1] = b /\ SubSeq(ls, Len(h) + 2, Len(ls)) = u BY <1>4 DEF Row
  <2>2. Len(h) + 1 = n + 2 /\ Len(h) + 2 = n + 3 BY <1>2
  <2>. QED BY <2>1, <2>2
<1>7. ls[n + 1] = a /\ SubSeq(ls, 1, n) = g BY <1>1, <1>5 DEF Row
<1>. QED BY <1>1, <1>6, <1>7 DEF Join, With

(* l is o, a character c and n. *)
Cut(l, o, c, n) ==
  o \in Line /\ c \in Line /\ Len(c) = 1 /\ n \in Line /\ l = (o \o c) \o n

(* Taking a character out of a line. *)
LEMMA CutIs ==
  ASSUME NEW l, NEW o, NEW c, NEW n, Cut(l, o, c, n)
  PROVE  line_delete_char(l, Len(o)) = o \o n
<1>0. o \in Line /\ c \in Line /\ Len(c) = 1 /\ n \in Line /\ l = (o \o c) \o n BY DEF Cut
<1>1. PICK x \in Text, y \in Text, z \in Text : x = o /\ y = c /\ z = n BY <1>0, TextFacts
<1>2. l = (x \o y) \o z BY <1>0, <1>1
<1>3. PICK k \in Nat : k = Len(x) BY <1>1, TextFacts
<1>4. SubSeq(l, 1, k) = x /\ SubSeq(l, k + 2, Len(l)) = z
  <2>1. PICK j : j = k + 1 OBVIOUS
  <2>2. /\ j - 1 = Len(x) /\ SubSeq(l, 1, j - 1) = x /\ SubSeq(l, j + 1, Len(l)) = z
    <3>1. Len(y) = 1 BY <1>0, <1>1
    <3>. QED BY <1>2, <1>3, <2>1, <3>1, TakeOut
  <2>3. j - 1 = k /\ j + 1 = k + 2 BY <2>1
  <2>. QED BY <2>2, <2>3
<1>. QED BY <1>1, <1>2, <1>3, <1>4 DEF line_delete_char

(* A character next to the cursor goes. *)
LEMMA ShapeCut ==
  ASSUME NEW e, NEW h, NEW p, NEW q, NEW t, Shaped(e, h, p, q, t), ~Phantom(e),
         NEW o, NEW c, NEW n, Cut(p \o q, o, c, n),
         NEW r \in Ed(Nat), Room(r), r.cx = Len(o), r.cy = e.cy,
         r.lines = [e.lines EXCEPT ![e.cy + 1] = line_delete_char(Cur(e), Len(o))]
  PROVE  Shaped(r, h, o, n, t) /\ ~Phantom(r)
<1>0. /\ h \in Seq(Line) /\ p \in Line /\ q \in Line /\ t \in Seq(Line)
      /\ e.lines = With(h, p \o q, t) /\ e.cy = Len(h) /\ o \in Line /\ n \in Line
  BY DEF Shaped, Filled, Cut
<1>1. PICK l \in Line : l = p \o q BY <1>0, ConcatProperties DEF Line
<1>2. Cur(e) = l
  <2>1. Row(e.lines, h, l, t) BY <1>0, <1>1, Pieces
  <2>. QED BY <1>0, <2>1 DEF Row, Cur
<1>3. PICK m \in Line : m = o \o n BY <1>0, ConcatProperties DEF Line
<1>4. line_delete_char(l, Len(o)) = m
  <2>1. Cut(l, o, c, n) BY <1>1
  <2>2. line_delete_char(l, Len(o)) = o \o n BY <2>1, CutIs
  <2>. QED BY <1>3, <2>2, Zenon
<1>5. r.lines = [With(h, l, t) EXCEPT ![Len(h) + 1] = m] BY <1>0, <1>1, <1>2, <1>4
<1>6. [With(h, l, t) EXCEPT ![Len(h) + 1] = m] = With(h, m, t) BY <1>0, Replaced
<1>7. r.lines = With(h, o \o n, t) BY <1>3, <1>5, <1>6, Zenon
<1>8. r.cy = Len(h) BY <1>0
<1>. QED BY <1>0, <1>7, <1>8, ShapeIs

(* Two lines become one, with the cursor where they meet. *)
LEMMA ShapeJoin ==
  ASSUME NEW ls, NEW g \in Seq(Line), NEW a \in Line, NEW b \in Line, NEW u \in Seq(Line),
         ls = With(Append(g, a), b, u),
         NEW r \in Ed(Nat), Room(r), r.cx = Len(a), r.cy = Len(g), r.lines = Join(ls, Len(g))
  PROVE  Shaped(r, g, a, b, u) /\ ~Phantom(r)
<1>1. r.lines = With(g, a \o b, u) BY JoinIs
<1>. QED BY <1>1, ShapeIs

(* A sequence that is not empty begins with something. *)
LEMMA Begins ==
  ASSUME NEW S, NEW s \in Seq(S), s # <<>>
  PROVE  \E x \in S, n \in Seq(S) : s = <<x>> \o n
<1>1. PICK k \in Nat : k = Len(s) /\ 1 \in 1 .. k /\ k \in 1 .. k
  <2>1. Len(s) \in Nat /\ Len(s) # 0 BY EmptySeq
  <2>. QED BY <2>1
<1>2. SubSeq(s, 1, k) = <<s[1]>> \o SubSeq(s, 1 + 1, k) BY <1>1, SubSeqRecursiveFirst
<1>3. SubSeq(s, 1, k) = s BY <1>1, SubSeqFull
<1>4. s[1] \in S BY <1>1, ElementOfSeq
<1>5. SubSeq(s, 1 + 1, k) \in Seq(S)
  <2>1. PICK i \in Nat : i = 1 + 1 /\ i >= 1 /\ i <= Len(s) + 1 BY <1>1
  <2>. QED BY <1>1, <2>1, Back
<1>. QED BY <1>2, <1>3, <1>4, <1>5

(* A line is empty, or ends and begins with a character. *)
LEMMA LineEnds ==
  ASSUME NEW l \in Line, l # <<>>
  PROVE  /\ \E o \in Line, c \in Line : Len(c) = 1 /\ l = o \o c
         /\ \E c \in Line, n \in Line : Len(c) = 1 /\ l = c \o n
<1>0. \A x \in LineChars : <<x>> \in Line /\ Len(<<x>>) = 1 BY DEF Line
<1>1. \E o \in Line, c \in Line : Len(c) = 1 /\ l = o \o c
  <2>1. PICK o \in Line, x \in LineChars : l = Append(o, x) BY SequenceEmptyOrAppend DEF Line
  <2>3. l = o \o <<x>> BY <2>1, AppendIsConcat DEF Line
  <2>. QED BY <1>0, <2>3
<1>2. \E c \in Line, n \in Line : Len(c) = 1 /\ l = c \o n
  <2>1. PICK x \in LineChars, n \in Line : l = <<x>> \o n BY Begins DEF Line
  <2>. QED BY <1>0, <2>1
<1>. QED BY <1>1, <1>2

(* Where the cursor is in the text. *)
LEMMA AtIs ==
  ASSUME NEW e, NEW h, NEW p, NEW q, NEW t, Shaped(e, h, p, q, t)
  PROVE  At(e) = Len(Left(h, p)) /\ Left(h, p) \in Text
<1>1. h \in Seq(Line) /\ p \in Line /\ q \in Line /\ t \in Seq(Line) BY DEF Shaped
<1>2. PICK w : Leaves(w, q, t) BY <1>1, LeavesExists
<1>3. Reads(e, Left(h, p), w) BY <1>2, FlatIs, Zenon
<1>. QED BY <1>1, <1>3, WholeText DEF Reads

(* A key that deletes nothing. *)
LEMMA NothingDeleted ==
  ASSUME NEW e, NEW r, NEW at, r.lines = e.lines, r.cx = e.cx, r.cy = e.cy,
         Phantom(e) \/ at \notin 1 .. Len(Flat(e))
  PROVE  DeletedFrom(e, r, at)
<1>1. Flat(r) = Flat(e) /\ At(r) = At(e) BY DEF Flat, At
<1>2. ~(at \in 1 .. Len(Flat(e)) /\ ~Phantom(e)) OBVIOUS
<1>. QED BY <1>1, <1>2, Zenon DEF DeletedFrom

(* Backspace deletes the character or the newline before the cursor. *)
LEMMA BackspaceLocal ==
  ASSUME NEW e \in Ed(Nat), Room(e), Inside(e), NEW r, r = editor_delete_char(e)
  PROVE  r \in Ed(Nat) /\ Inside(r) /\ DeletedFrom(e, r, At(e))
<1>0. r \in Ed(Nat) /\ Room(r)
  <2>1. EditOf(e, r) BY DeleteFacts
  <2>. QED BY <2>1 DEF EditOf
<1>1. CASE Phantom(e)
  <2>1. r = e BY <1>1 DEF editor_delete_char
  <2>. QED BY <1>0, <1>1, <2>1, NothingDeleted
<1>2. CASE ~Phantom(e)
  <2>1. PICK h, p, q, t : Shaped(e, h, p, q, t) BY ShapeExists
  <2>2. /\ h \in Seq(Line) /\ p \in Line /\ q \in Line /\ t \in Seq(Line)
        /\ e.lines = With(h, p \o q, t) /\ e.cy = Len(h) /\ e.cx = Len(p)
    BY <1>2, <2>1 DEF Shaped, Filled
  <2>3. At(e) = Len(Left(h, p)) /\ Left(h, p) \in Text BY <2>1, AtIs
  <2>4. CASE p # <<>>
    <3>1. PICK o \in Line, c \in Line : Len(c) = 1 /\ p = o \o c BY <2>2, <2>4, LineEnds
    <3>2. e.cx > 0 /\ e.cx - 1 = Len(o)
      <4>1. Len(o \o c) = Len(o) + Len(c) BY ConcatProperties DEF Line
      <4>2. Len(o) \in Nat BY LenProperties DEF Line
      <4>. QED BY <2>2, <3>1, <4>1, <4>2
    <3>3. r = Changed(e, [e.lines EXCEPT ![e.cy + 1] = line_delete_char(Cur(e), Len(o))],
                      Len(o), e.cy)
      BY <1>2, <3>2, DeleteIs
    <3>4. PICK ls : ls = [e.lines EXCEPT ![e.cy + 1] = line_delete_char(Cur(e), Len(o))] OBVIOUS
    <3>5. r.lines = ls /\ r.cx = Len(o) /\ r.cy = e.cy BY <3>3, <3>4, ChangedFacts
    <3>6. Cut(p \o q, o, c, q) BY <2>2, <3>1 DEF Cut
    <3>7. Shaped(r, h, o, q, t) /\ ~Phantom(r)
      BY <1>0, <1>2, <2>1, <3>4, <3>5, <3>6, ShapeCut
    <3>8. Left(h, p) = Left(h, o) \o c BY <2>2, <3>1, SidesInsert
    <3>9. Lacks(h, p, q, t, h, o, q, t, c) BY <3>1, <3>8, TextFacts DEF Lacks
    <3>10. At(e) = Len(Left(h, o)) + 1
      <4>1. Left(h, o) \in Text BY <3>7, AtIs
      <4>2. c \in Text BY TextFacts
      <4>3. Len(Left(h, o) \o c) = Len(Left(h, o)) + Len(c) BY <4>1, <4>2, TextFacts
      <4>. QED BY <2>3, <3>1, <3>8, <4>3
    <3>11. DeletedFrom(e, r, At(e)) BY <1>2, <2>1, <3>7, <3>9, <3>10, DeletedIs
    <3>. QED BY <1>0, <3>7, <3>11 DEF Shaped
  <2>5. CASE p = <<>> /\ h # <<>>
    <3>1. PICK g \in Seq(Line), a \in Line : h = Append(g, a)
      BY <2>2, <2>5, SequenceEmptyOrAppend
    <3>2. PICK k \in Nat : k = Len(g) BY LenProperties
    <3>3. e.cx = 0 /\ e.cy = k + 1 /\ e.cy > 0 /\ e.cy - 1 = k
      <4>1. Len(h) = k + 1 BY <3>1, <3>2, AppendProperties
      <4>. QED BY <2>2, <2>5, <4>1
    <3>4. e.lines = With(h, q, t)
      <4>1. p \o q = q BY <2>2, <2>5, TextFacts
      <4>. QED BY <2>2, <4>1
    <3>5. e.lines[e.cy] = a
      <4>1. PICK s \in Seq(Line) : s = <<q>> \o t
        <5>1. <<q>> \in Seq(Line) BY <2>2
        <5>2. <<q>> \o t \in Seq(Line) BY <2>2, <5>1, ConcatProperties
        <5>. QED BY <5>2
      <4>2. e.lines = With(g, a, s) BY <2>2, <3>1, <3>4, <4>1, Shift
      <4>3. Row(e.lines, g, a, s) BY <4>2, Pieces
      <4>. QED BY <3>2, <3>3, <4>3 DEF Row
    <3>6. r = Changed(e, Join(e.lines, k), Len(a), k) BY <1>2, <3>3, <3>5, DeleteIs
    <3>7. PICK ls : ls = Join(e.lines, k) OBVIOUS
    <3>8. r.lines = ls /\ r.cx = Len(a) /\ r.cy = k BY <3>6, <3>7, ChangedFacts
    <3>9. Shaped(r, g, a, q, t) /\ ~Phantom(r)
      <4>1. r.lines = Join(e.lines, Len(g)) /\ r.cy = Len(g) BY <3>2, <3>7, <3>8
      <4>2. e.lines = With(Append(g, a), q, t) BY <3>1, <3>4
      <4>. QED BY <1>0, <2>2, <3>8, <4>1, <4>2, ShapeJoin
    <3>10. Left(h, p) = Left(g, a) \o <<NL>>
      <4>1. p \in Text /\ <<NL>> \in Text /\ <<NL>> \o <<>> = <<NL>> BY <2>2, TextFacts
      <4>2. Left(h, p) = Left(g, a) \o (<<NL>> \o p) BY <2>2, <3>1, SidesBreak
      <4>. QED BY <2>5, <4>1, <4>2
    <3>11. Lacks(h, p, q, t, g, a, q, t, <<NL>>) BY <3>10, TextFacts DEF Lacks
    <3>12. At(e) = Len(Left(g, a)) + 1
      <4>1. Left(g, a) \in Text BY <3>9, AtIs
      <4>2. Len(Left(g, a) \o <<NL>>) = Len(Left(g, a)) + Len(<<NL>>) BY <4>1, TextFacts
      <4>. QED BY <2>3, <3>10, <4>2, TextFacts
    <3>13. DeletedFrom(e, r, At(e)) BY <1>2, <2>1, <3>9, <3>11, <3>12, DeletedIs
    <3>. QED BY <1>0, <3>9, <3>13 DEF Shaped
  <2>6. CASE p = <<>> /\ h = <<>>
    <3>1. e.cx = 0 /\ e.cy = 0 BY <2>2, <2>6
    <3>2. r = Changed(e, e.lines, 0, 0) BY <1>2, <3>1, DeleteIs
    <3>3. r.lines = e.lines /\ r.cx = e.cx /\ r.cy = e.cy BY <3>1, <3>2, ChangedFacts
    <3>4. At(e) = 0
      <4>1. Left(h, p) = <<>> BY <2>6, SerializeEmpty, TextFacts DEF Left
      <4>. QED BY <2>3, <4>1
    <3>5. At(e) \notin 1 .. Len(Flat(e)) BY <3>4
    <3>6. DeletedFrom(e, r, At(e)) BY <3>3, <3>5, NothingDeleted
    <3>7. Inside(r) BY <3>3 DEF Inside
    <3>. QED BY <1>0, <3>6, <3>7
  <2>. QED BY <2>4, <2>5, <2>6
<1>. QED BY <1>1, <1>2

(* Delete deletes the character or the newline after the cursor. *)
LEMMA ForwardLocal ==
  ASSUME NEW e \in Ed(Nat), Room(e), Inside(e), NEW r, r = editor_delete_forward(e),
         NEW at, at = At(e) + 1
  PROVE  r \in Ed(Nat) /\ Inside(r) /\ DeletedFrom(e, r, at)
<1>0. r \in Ed(Nat) /\ Room(r)
  <2>1. EditOf(e, r) BY DeleteFacts
  <2>. QED BY <2>1 DEF EditOf
<1>1. CASE Phantom(e)
  <2>1. r = e BY <1>1 DEF editor_delete_forward
  <2>. QED BY <1>0, <1>1, <2>1, NothingDeleted
<1>2. CASE ~Phantom(e)
  <2>1. PICK h, p, q, t : Shaped(e, h, p, q, t) BY ShapeExists
  <2>2. /\ h \in Seq(Line) /\ p \in Line /\ q \in Line /\ t \in Seq(Line)
        /\ e.lines = With(h, p \o q, t) /\ e.cy = Len(h) /\ e.cx = Len(p)
    BY <1>2, <2>1 DEF Shaped, Filled
  <2>3. at = Len(Left(h, p)) + 1 /\ Left(h, p) \in Text BY <2>1, AtIs
  <2>4. PICK l \in Line : l = p \o q /\ Len(l) = Len(p) + Len(q)
    <3>1. p \o q \in Line /\ Len(p \o q) = Len(p) + Len(q) BY <2>2, ConcatProperties DEF Line
    <3>. QED BY <3>1
  <2>5. Row(e.lines, h, l, t) BY <2>2, <2>4, Pieces
  <2>6. Cur(e) = l /\ Len(e.lines) = Len(h) + 1 + Len(t) BY <2>2, <2>5 DEF Row, Cur
  <2>7. Len(p) \in Nat /\ Len(q) \in Nat /\ Len(h) \in Nat /\ Len(t) \in Nat
    BY <2>2, LenProperties DEF Line
  <2>8. CASE q # <<>>
    <3>1. PICK c \in Line, n \in Line : Len(c) = 1 /\ q = c \o n BY <2>2, <2>8, LineEnds
    <3>2. e.cx < Len(Cur(e))
      <4>1. Len(c \o n) = Len(c) + Len(n) BY ConcatProperties DEF Line
      <4>2. Len(n) \in Nat BY LenProperties DEF Line
      <4>. QED BY <2>2, <2>4, <2>6, <2>7, <3>1, <4>1, <4>2
    <3>3. r = Changed(e, [e.lines EXCEPT ![e.cy + 1] = line_delete_char(Cur(e), e.cx)],
                      e.cx, e.cy)
      BY <1>2, <3>2, DeleteIs
    <3>4. PICK ls : ls = [e.lines EXCEPT ![e.cy + 1] = line_delete_char(Cur(e), e.cx)] OBVIOUS
    <3>5. r.lines = ls /\ r.cx = e.cx /\ r.cy = e.cy BY <3>3, <3>4, ChangedFacts
    <3>6. Cut(p \o q, p, c, n)
      <4>1. p \in Text /\ c \in Text /\ n \in Text BY <2>2, TextFacts
      <4>2. Assoc(p, c, n) BY <4>1, TextAssoc
      <4>. QED BY <2>2, <3>1, <4>2 DEF Cut, Assoc
    <3>7. Shaped(r, h, p, n, t) /\ ~Phantom(r)
      <4>1. r.lines = [e.lines EXCEPT ![e.cy + 1] = line_delete_char(Cur(e), Len(p))]
        BY <2>2, <3>4, <3>5
      <4>2. r.cx = Len(p) BY <2>2, <3>5
      <4>. QED BY <1>0, <1>2, <2>1, <3>5, <3>6, <4>1, <4>2, ShapeCut
    <3>8. Right(q, t) = c \o Right(n, t) BY <2>2, <3>1, SidesDelete
    <3>9. Lacks(h, p, q, t, h, p, n, t, c) BY <3>1, <3>8, TextFacts DEF Lacks
    <3>10. DeletedFrom(e, r, at) BY <1>2, <2>1, <2>3, <3>7, <3>9, DeletedIs
    <3>. QED BY <1>0, <3>7, <3>10 DEF Shaped
  <2>9. ASSUME q = <<>> PROVE l = p /\ e.cx = Len(Cur(e))
    <3>1. p \o <<>> = p BY <2>2, TextFacts
    <3>. QED BY <2>2, <2>4, <2>6, <2>9, <3>1
  <2>10. CASE q = <<>> /\ t # <<>>
    <3>1. PICK b \in Line, u \in Seq(Line) : t = <<b>> \o u BY <2>2, <2>10, Begins
    <3>2. l = p /\ e.cx = Len(Cur(e)) BY <2>9, <2>10
    <3>3. e.cy + 1 < Len(e.lines)
      <4>1. Len(t) # 0 BY <2>2, <2>10, EmptySeq
      <4>. QED BY <2>2, <2>6, <2>7, <4>1
    <3>4. PICK k \in Nat : k = Len(h) BY <2>7
    <3>5. r = Changed(e, Join(e.lines, e.cy), e.cx, e.cy) BY <1>2, <3>2, <3>3, DeleteIs
    <3>6. PICK ls : ls = Join(e.lines, e.cy) OBVIOUS
    <3>7. r.lines = ls /\ r.cx = e.cx /\ r.cy = e.cy BY <3>5, <3>6, ChangedFacts
    <3>8. e.lines = With(Append(h, p), b, u)
      <4>1. With(Append(h, p), b, u) = With(h, p, <<b>> \o u) BY <2>2, Shift
      <4>. QED BY <2>2, <2>4, <3>1, <3>2, <4>1
    <3>9. Shaped(r, h, p, b, u) /\ ~Phantom(r)
      <4>1. r.lines = Join(e.lines, Len(h)) /\ r.cy = Len(h) /\ r.cx = Len(p)
        BY <2>2, <3>6, <3>7
      <4>. QED BY <1>0, <2>2, <3>8, <4>1, ShapeJoin
    <3>10. Right(q, t) = <<NL>> \o Right(b, u) BY <2>10, <3>1, SidesJoin
    <3>11. Lacks(h, p, q, t, h, p, b, u, <<NL>>) BY <3>10, TextFacts DEF Lacks
    <3>12. DeletedFrom(e, r, at) BY <1>2, <2>1, <2>3, <3>9, <3>11, DeletedIs
    <3>. QED BY <1>0, <3>9, <3>12 DEF Shaped
  <2>11. CASE q = <<>> /\ t = <<>>
    <3>1. e.cx = Len(Cur(e)) BY <2>9, <2>11
    <3>2. e.cy + 1 = Len(e.lines) BY <2>2, <2>6, <2>7, <2>11
    <3>3. r = e BY <1>2, <3>1, <3>2, DeleteIs
    <3>4. PICK w : Leaves(w, q, t) BY <2>2, LeavesExists
    <3>5. w = <<>>
      <4>1. <<>> \in Text /\ <<>> \o <<NL>> = <<NL>> /\ <<NL>> \o <<>> = <<NL>> BY TextFacts
      <4>2. Right(q, t) = <<NL>> BY <2>11, <4>1, SerializeEmpty DEF Right
      <4>3. w \in Text /\ w \o <<NL>> = <<>> \o <<NL>> BY <3>4, <4>1, <4>2 DEF Leaves
      <4>. QED BY <4>1, <4>3, TextCancel
    <3>6. Reads(e, Left(h, p), w) BY <2>1, <3>4, FlatIs, Zenon
    <3>7. Flat(e) = Left(h, p)
      <4>1. Left(h, p) \o <<>> = Left(h, p) BY <2>3, TextFacts
      <4>. QED BY <1>2, <3>5, <3>6, <4>1 DEF Reads
    <3>8. Len(Left(h, p)) \in Nat BY <2>3, TextFacts
    <3>9. at \notin 1 .. Len(Flat(e)) BY <2>3, <3>7, <3>8
    <3>. QED BY <1>0, <3>3, <3>9, NothingDeleted
  <2>. QED BY <2>8, <2>10, <2>11
<1>. QED BY <1>1, <1>2

(* A character is put in at the cursor. *)
LEMMA CharLocal ==
  ASSUME NEW e \in Ed(Nat), Room(e), Inside(e), NEW c \in LineChars,
         NEW r, r = editor_insert_char(e, c)
  PROVE  r \in Ed(Nat) /\ Inside(r) /\ InsertedInto(e, r, <<c>>)
<1>1. PICK h, p, q, t : Shaped(e, h, p, q, t) BY ShapeExists
<1>2. h \in Seq(Line) /\ p \in Line BY <1>1 DEF Shaped
<1>3. Shaped(r, h, p \o <<c>>, q, t) /\ ~Phantom(r) BY <1>1, InsertShape
<1>4. PICK x \in Line : x = <<c>>
  <2>1. <<c>> \in Line BY DEF Line
  <2>. QED BY <2>1
<1>5. PICK m : m = p \o x OBVIOUS
<1>6. Shaped(r, h, m, q, t) BY <1>3, <1>4, <1>5
<1>7. Grows(h, p, q, t, h, m, q, t, x)
  <2>1. Left(h, p \o x) = Left(h, p) \o x BY <1>2, SidesInsert
  <2>. QED BY <1>4, <1>5, <2>1, TextFacts DEF Grows
<1>8. InsertedInto(e, r, x) BY <1>1, <1>3, <1>6, <1>7, InsertedIs
<1>. QED BY <1>4, <1>6, <1>8 DEF Shaped

(* As many spaces as Tab puts in. *)
Blank(n) == [i \in 1 .. n |-> SP]

(* One more. *)
LEMMA BlankFacts ==
  ASSUME NEW n \in Nat
  PROVE  Blank(n) \in Line /\ Len(Blank(n)) = n /\ Blank(n) \o <<SP>> = Blank(n + 1)
<1>1. ASSUME NEW k \in Nat PROVE Blank(k) \in Line /\ Len(Blank(k)) = k
  <2>1. Blank(k) \in [1 .. k -> LineChars] BY DEF Blank, LineChars
  <2>. QED BY <2>1, FunctionIsSeq DEF Line
<1>2. PICK a \in Line, b \in Line : a = Blank(n) /\ b = Blank(n + 1) /\ Len(a) = n /\ Len(b) = n + 1
  BY <1>1
<1>3. PICK d : d = Append(a, SP) OBVIOUS
<1>4. /\ d \in Line /\ Len(d) = n + 1 /\ d[n + 1] = SP
      /\ \A i \in 1 .. n : d[i] = a[i]
  BY <1>2, <1>3, AppendProperties DEF Line, LineChars
<1>5. \A i \in 1 .. n + 1 : d[i] = b[i]
  <2>. SUFFICES ASSUME NEW i \in 1 .. n + 1 PROVE d[i] = b[i] OBVIOUS
  <2>1. b[i] = SP BY <1>2 DEF Blank
  <2>2. CASE i \in 1 .. n
    <3>1. a[i] = SP BY <1>2, <2>2 DEF Blank
    <3>. QED BY <1>4, <2>1, <2>2, <3>1
  <2>3. CASE i = n + 1 BY <1>4, <2>1, <2>3
  <2>. QED BY <2>2, <2>3
<1>6. d = b BY <1>2, <1>4, <1>5, SeqEqual DEF Line
<1>7. d = a \o <<SP>> BY <1>2, <1>3, AppendIsConcat DEF Line, LineChars
<1>. QED BY <1>1, <1>2, <1>6, <1>7

(* Tab puts its spaces in at the cursor. *)
LEMMA TabLocal ==
  ASSUME NEW e \in Ed(Nat), Room(e), Inside(e), NEW r, r = InsertTab(e)
  PROVE  r \in Ed(Nat) /\ Inside(r) /\ InsertedInto(e, r, Blank(TabSize))
<1>1. PICK f : Spaces(e, f, TabSize) /\ r = f[TabSize] BY TabIs
<1>2. TabSize \in Nat \ {0} BY EditorAssumption
<1>3. PICK h, p, q, t : Shaped(e, h, p, q, t) BY ShapeExists
<1>4. h \in Seq(Line) /\ p \in Line BY <1>3 DEF Shaped
<1>. DEFINE G == {n \in Nat : n <= TabSize =>
                     Shaped(f[n], h, p \o Blank(n), q, t) /\ (n # 0 => ~Phantom(f[n]))}
<1>5. 0 \in G
  <2>1. f[0] = e BY <1>1, <1>2 DEF Spaces
  <2>2. Blank(0) = <<>>
    <3>1. Blank(0) \in Seq(LineChars) /\ Len(Blank(0)) = 0 BY BlankFacts DEF Line
    <3>. QED BY <3>1, EmptySeq
  <2>3. p \o <<>> = p BY <1>4, TextFacts
  <2>. QED BY <1>3, <2>1, <2>2, <2>3
<1>6. ASSUME NEW n \in Nat, n \in G PROVE n + 1 \in G
  <2>. SUFFICES ASSUME n + 1 <= TabSize
                PROVE  Shaped(f[n + 1], h, p \o Blank(n + 1), q, t) /\ ~Phantom(f[n + 1])
    OBVIOUS
  <2>1. f[n + 1] = editor_insert_char(f[n], SP)
    <3>1. n + 1 \in 0 .. TabSize /\ n + 1 # 0 /\ (n + 1) - 1 = n BY <1>2
    <3>. QED BY <1>1, <3>1 DEF Spaces
  <2>2. PICK x, y, m : x = f[n] /\ y = editor_insert_char(x, SP) /\ m = p \o Blank(n) OBVIOUS
  <2>3. Shaped(x, h, m, q, t) BY <1>2, <1>6, <2>2
  <2>4. SP \in LineChars BY DEF LineChars
  <2>5. Shaped(y, h, m \o <<SP>>, q, t) /\ ~Phantom(y) BY <2>2, <2>3, <2>4, InsertShape
  <2>6. m \o <<SP>> = p \o Blank(n + 1)
    <3>1. Blank(n) \in Line /\ Blank(n) \o <<SP>> = Blank(n + 1) BY BlankFacts
    <3>2. PICK a \in Text, b \in Text, c \in Text : a = p /\ b = Blank(n) /\ c = <<SP>>
      <4>1. <<SP>> \in Line BY DEF Line, LineChars
      <4>. QED BY <1>4, <3>1, <4>1, TextFacts
    <3>3. Assoc(a, b, c) BY TextAssoc
    <3>. QED BY <2>2, <3>1, <3>2, <3>3 DEF Assoc
  <2>. QED BY <2>1, <2>2, <2>5, <2>6
<1>7. Nat \subseteq G
  <2>. HIDE DEF G
  <2>. QED BY <1>5, <1>6, NatSetInduction
<1>8. Shaped(r, h, p \o Blank(TabSize), q, t) /\ ~Phantom(r) BY <1>1, <1>2, <1>7
<1>9. PICK x \in Line : x = Blank(TabSize) BY <1>2, BlankFacts
<1>10. PICK m : m = p \o x OBVIOUS
<1>11. Shaped(r, h, m, q, t) BY <1>8, <1>9, <1>10
<1>12. Grows(h, p, q, t, h, m, q, t, x)
  <2>1. Left(h, p \o x) = Left(h, p) \o x BY <1>4, SidesInsert
  <2>. QED BY <1>10, <2>1, TextFacts DEF Grows
<1>13. InsertedInto(e, r, x) BY <1>3, <1>8, <1>11, <1>12, InsertedIs
<1>. QED BY <1>9, <1>11, <1>13 DEF Shaped

(* Two elements after a sequence, one after the other. *)
LEMMA TwoMore ==
  ASSUME NEW S, NEW h \in Seq(S), NEW a \in S, NEW b \in S
  PROVE  h \o <<a, b>> = Append(h, a) \o <<b>>
<1>1. PICK o \in Seq(S), n \in Seq(S), w \in Seq(S) : o = <<a>> /\ n = <<b>> /\ w = <<a, b>>
  <2>1. <<a>> \in Seq(S) /\ <<b>> \in Seq(S) /\ <<a, b>> \in Seq(S) OBVIOUS
  <2>. QED BY <2>1
<1>2. /\ Len(o) = 1 /\ o[1] = a /\ Len(n) = 1 /\ n[1] = b
      /\ Len(w) = 2 /\ w[1] = a /\ w[2] = b
  BY <1>1
<1>3. PICK d : d = o \o n OBVIOUS
<1>4. d \in Seq(S) /\ Len(d) = 2 /\ \A i \in 1 .. 2 : d[i] = IF i <= 1 THEN o[i] ELSE n[i - 1]
  <2>1. /\ d \in Seq(S) /\ Len(d) = Len(o) + Len(n)
        /\ \A i \in 1 .. Len(o) + Len(n) : d[i] = IF i <= Len(o) THEN o[i] ELSE n[i - Len(o)]
    BY <1>3, ConcatProperties
  <2>2. Len(o) + Len(n) = 2 BY <1>2
  <2>. QED BY <1>2, <2>1, <2>2
<1>5. d[1] = a /\ d[2] = b
  <2>1. 1 \in 1 .. 2 /\ 2 \in 1 .. 2 /\ 1 <= 1 /\ ~(2 <= 1) /\ 2 - 1 = 1 OBVIOUS
  <2>. QED BY <1>2, <1>4, <2>1
<1>6. \A i \in 1 .. 2 : d[i] = w[i]
  <2>1. \A i \in 1 .. 2 : i = 1 \/ i = 2 OBVIOUS
  <2>. QED BY <1>2, <1>5, <2>1
<1>7. d = w BY <1>2, <1>4, <1>6, SeqEqual
<1>8. (h \o o) \o n = h \o (o \o n) BY ConcatAssociative
<1>9. Append(h, a) = h \o <<a>> BY AppendIsConcat
<1>. QED BY <1>1, <1>3, <1>7, <1>8, <1>9

(* Enter puts a newline and the indentation in at the cursor. *)
LEMMA EnterLocal ==
  ASSUME NEW e \in Ed(Nat), Room(e), Inside(e), ~Phantom(e),
         NEW r, r = editor_insert_newline(e)
  PROVE  r \in Ed(Nat) /\ Inside(r) /\ InsertedInto(e, r, <<NL>> \o Indent(Cur(e)))
<1>1. PICK h, p, q, t : Shaped(e, h, p, q, t) BY ShapeExists
<1>2. /\ h \in Seq(Line) /\ p \in Line /\ q \in Line /\ t \in Seq(Line)
      /\ e.lines = With(h, p \o q, t) /\ e.cy = Len(h) /\ e.cx = Len(p)
  BY <1>1 DEF Shaped, Filled
<1>3. PICK l \in Line : l = p \o q BY <1>2, ConcatProperties DEF Line
<1>4. Row(e.lines, h, l, t) BY <1>2, <1>3, Pieces
<1>5. /\ Cur(e) = l /\ SubSeq(e.lines, 1, e.cy) = h
      /\ SubSeq(e.lines, e.cy + 2, Len(e.lines)) = t
  BY <1>2, <1>4 DEF Row, Cur
<1>6. SubSeq(l, 1, e.cx) = p /\ SubSeq(l, e.cx + 1, Len(l)) = q
  <2>1. SubSeq(l, 1, Len(p)) = p /\ SubSeq(l, Len(p) + 1, Len(l)) = q
    BY <1>2, <1>3, TakeConcat DEF Line
  <2>. QED BY <1>2, <2>1
<1>7. PICK d \in Line : d = Indent(l)
  <2>1. PICK n \in Nat : n = line_indent_len(l) /\ n <= Len(l) BY IndentFacts
  <2>2. SubSeq(l, 1, n) \in Line BY <2>1, Front DEF Line
  <2>. QED BY <2>1, <2>2 DEF Indent
<1>8. PICK s : s = NewLine(e, p) OBVIOUS
<1>9. /\ EditOf(e, s) /\ s.lines = Broken(e, p) /\ s.cx = Len(Indent(Cur(e))) /\ s.cy = e.cy + 1
  BY <1>2, <1>8, NewLineFacts
<1>10. r = s BY <1>5, <1>6, <1>8 DEF editor_insert_newline
<1>11. r \in Ed(Nat) /\ Room(r) /\ r.cx = Len(d) BY <1>5, <1>7, <1>9, <1>10 DEF EditOf
<1>12. PICK m \in Line : m = d \o q BY <1>2, ConcatProperties DEF Line
<1>13. PICK g \in Seq(Line) : g = Append(h, p) /\ Len(g) = Len(h) + 1
  <2>1. Append(h, p) \in Seq(Line) /\ Len(Append(h, p)) = Len(h) + 1 BY <1>2, AppendProperties
  <2>. QED BY <2>1
<1>14. r.lines = With(g, d \o q, t)
  <2>1. r.lines = h \o <<p, m>> \o t BY <1>5, <1>6, <1>7, <1>9, <1>10, <1>12 DEF Broken
  <2>2. h \o <<p, m>> = Append(h, p) \o <<m>> BY <1>2, TwoMore
  <2>. QED BY <1>12, <1>13, <2>1, <2>2 DEF With
<1>15. Shaped(r, g, d, q, t) /\ ~Phantom(r)
  <2>1. r.cy = Len(g) BY <1>2, <1>9, <1>10, <1>13
  <2>. QED BY <1>2, <1>11, <1>14, <2>1, ShapeIs
<1>16. PICK ins \in Text : ins = <<NL>> \o d BY TextFacts
<1>17. Grows(h, p, q, t, g, d, q, t, ins)
  <2>1. Left(Append(h, p), d) = Left(h, p) \o (<<NL>> \o d) BY <1>2, SidesBreak
  <2>. QED BY <1>13, <1>16, <2>1 DEF Grows
<1>18. InsertedInto(e, r, ins) BY <1>1, <1>15, <1>17, InsertedIs
<1>19. ins = <<NL>> \o Indent(Cur(e)) BY <1>5, <1>7, <1>16
<1>. QED BY <1>11, <1>15, <1>18, <1>19 DEF Shaped

(* The same for the key: the snapshot changes no text, and                 *)
(* editor_clamp_cursor leaves a cursor that is inside alone.               *)
LEMMA KeyInserts ==
  ASSUME EditInv, mode = "edit", NEW r \in Ed(Nat), Inside(r), EditWith(r), NEW ins,
         InsertedInto(editor_snap_push(ed), r, ins)
  PROVE  Inserted(ins)
<1>1. PICK p : p = editor_snap_push(ed) OBVIOUS
<1>2. p.lines = ed.lines /\ p.cx = ed.cx /\ p.cy = ed.cy
  <2>1. ed \in Ed(Nat) /\ Len(ed.undo) <= UndoMax /\ Room(ed)
        /\ before \in Seq(Hist) /\ Matched(ed.undo, before)
    BY DEF EditInv, Buffer, Undoing
  <2>. QED BY <1>1, <2>1, PushFacts
<1>3. ed' = r BY ClampStays DEF EditWith
<1>4. TextOf(p) = TextOf(ed) /\ At(p) = At(ed) BY <1>2 DEF TextOf, Flat, At, Phantom, nlines
<1>5. InsertedInto(ed, r, ins)
  <2>1. InsertedInto(p, r, ins) BY <1>1
  <2>. QED BY <1>4, <2>1, Zenon DEF InsertedInto
<1>6. Flat(ed)' = Flat(r) /\ At(ed)' = At(r) BY <1>3 DEF Flat, At
<1>. QED BY <1>5, <1>6 DEF InsertedInto, TextOf, Inserted

(* Of the keys that delete. *)
LEMMA KeyDeletes ==
  ASSUME EditInv, mode = "edit", NEW r \in Ed(Nat), Inside(r), EditWith(r), NEW at,
         DeletedFrom(editor_snap_push(ed), r, at)
  PROVE  Deleted(at)
<1>1. PICK p : p = editor_snap_push(ed) OBVIOUS
<1>2. p.lines = ed.lines /\ p.cx = ed.cx /\ p.cy = ed.cy
  <2>1. ed \in Ed(Nat) /\ Len(ed.undo) <= UndoMax /\ Room(ed)
        /\ before \in Seq(Hist) /\ Matched(ed.undo, before)
    BY DEF EditInv, Buffer, Undoing
  <2>. QED BY <1>1, <2>1, PushFacts
<1>3. ed' = r BY ClampStays DEF EditWith
<1>4. Flat(p) = Flat(ed) /\ At(p) = At(ed) /\ (Phantom(p) <=> Phantom(ed))
  BY <1>2 DEF Flat, At, Phantom, nlines
<1>5. DeletedFrom(ed, r, at)
  <2>1. DeletedFrom(p, r, at) BY <1>1
  <2>. QED BY <1>4, <2>1, Zenon DEF DeletedFrom
<1>6. Flat(ed)' = Flat(r) /\ At(ed)' = At(r) BY <1>3 DEF Flat, At
<1>. QED BY <1>5, <1>6 DEF DeletedFrom, Deleted

(* What one key does to the text, as EditsAreLocal states it. *)
LocalStep ==
  /\ \A c \in Letters : KEY_CHAR(c) => Inserted(<<c>>)
  /\ KEY_TAB => Inserted([i \in 1 .. TabSize |-> SP])
  /\ KEY_BACKSP => Deleted(At(ed))
  /\ KEY_DEL => Deleted(At(ed) + 1)
  /\ KEY_ENTER /\ ~Phantom(ed) =>
       Inserted(<<NL>> \o SubSeq(Cur(ed), 1, line_indent_len(Cur(ed))))

(* Every key does that. *)
LEMMA LocalKeys == EditInv => LocalStep
<1>. SUFFICES ASSUME EditInv PROVE LocalStep OBVIOUS
<1>. DEFINE p == editor_snap_push(ed)
<1>1. ASSUME mode = "edit"
      PROVE  /\ p \in Ed(Nat) /\ Room(p) /\ Inside(p) /\ (Phantom(p) <=> Phantom(ed))
             /\ At(p) = At(ed) /\ (~Phantom(ed) => Cur(p) = Cur(ed))
  <2>1. ed \in Ed(Nat) /\ Len(ed.undo) <= UndoMax /\ Room(ed)
        /\ before \in Seq(Hist) /\ Matched(ed.undo, before)
    BY <1>1 DEF EditInv, Buffer, Undoing
  <2>2. p.lines = ed.lines /\ p.cx = ed.cx /\ p.cy = ed.cy BY <2>1, PushFacts
  <2>3. p \in Ed(Nat) /\ Room(p) /\ Inside(p) /\ (Phantom(p) <=> Phantom(ed)) BY <1>1, Pushed
  <2>. HIDE DEF p
  <2>. QED BY <2>2, <2>3 DEF At, Cur
<1>2. ASSUME NEW c \in Letters, KEY_CHAR(c) PROVE Inserted(<<c>>)
  <2>1. mode = "edit" BY <1>2 DEF KEY_CHAR, Key
  <2>2. PICK r : r = editor_insert_char(p, c) OBVIOUS
  <2>3. EditWith(r) BY <1>2, <2>2 DEF KEY_CHAR
  <2>4. c \in LineChars BY DEF LineChars
  <2>5. r \in Ed(Nat) /\ Inside(r) /\ InsertedInto(p, r, <<c>>) BY <1>1, <2>1, <2>2, <2>4, CharLocal
  <2>. QED BY <2>1, <2>3, <2>5, KeyInserts
<1>3. ASSUME KEY_TAB PROVE Inserted([i \in 1 .. TabSize |-> SP])
  <2>1. mode = "edit" BY <1>3 DEF KEY_TAB, Key
  <2>2. PICK r : r = InsertTab(p) OBVIOUS
  <2>3. EditWith(r) BY <1>3, <2>2 DEF KEY_TAB
  <2>5. r \in Ed(Nat) /\ Inside(r) /\ InsertedInto(p, r, Blank(TabSize))
    BY <1>1, <2>1, <2>2, TabLocal
  <2>6. Inserted(Blank(TabSize)) BY <2>1, <2>3, <2>5, KeyInserts
  <2>. QED BY <2>6 DEF Blank
<1>4. ASSUME KEY_BACKSP PROVE Deleted(At(ed))
  <2>1. mode = "edit" BY <1>4 DEF KEY_BACKSP, Key
  <2>2. PICK r : r = editor_delete_char(p) OBVIOUS
  <2>3. EditWith(r) BY <1>4, <2>2 DEF KEY_BACKSP
  <2>5. r \in Ed(Nat) /\ Inside(r) /\ DeletedFrom(p, r, At(p))
    BY <1>1, <2>1, <2>2, BackspaceLocal
  <2>6. DeletedFrom(p, r, At(ed)) BY <1>1, <2>1, <2>5
  <2>. QED BY <2>1, <2>3, <2>5, <2>6, KeyDeletes
<1>5. ASSUME KEY_DEL PROVE Deleted(At(ed) + 1)
  <2>1. mode = "edit" BY <1>5 DEF KEY_DEL, Key
  <2>2. PICK r, at : r = editor_delete_forward(p) /\ at = At(p) + 1 OBVIOUS
  <2>3. EditWith(r) BY <1>5, <2>2 DEF KEY_DEL
  <2>5. r \in Ed(Nat) /\ Inside(r) /\ DeletedFrom(p, r, at)
    BY <1>1, <2>1, <2>2, ForwardLocal
  <2>6. at = At(ed) + 1 BY <1>1, <2>1, <2>2
  <2>7. Deleted(at) BY <2>1, <2>3, <2>5, KeyDeletes
  <2>. QED BY <2>6, <2>7
<1>6. ASSUME KEY_ENTER, ~Phantom(ed)
      PROVE  Inserted(<<NL>> \o SubSeq(Cur(ed), 1, line_indent_len(Cur(ed))))
  <2>1. mode = "edit" BY <1>6 DEF KEY_ENTER, Key
  <2>2. PICK r, ins : r = editor_insert_newline(p) /\ ins = <<NL>> \o Indent(Cur(p)) OBVIOUS
  <2>3. EditWith(r) BY <1>6, <2>2 DEF KEY_ENTER
  <2>5. r \in Ed(Nat) /\ Inside(r) /\ InsertedInto(p, r, ins)
    BY <1>1, <1>6, <2>1, <2>2, EnterLocal
  <2>6. Inserted(ins) BY <2>1, <2>3, <2>5, KeyInserts
  <2>7. ins = <<NL>> \o Indent(Cur(ed)) BY <1>1, <1>6, <2>1, <2>2
  <2>. QED BY <2>6, <2>7 DEF Indent
<1>. QED BY <1>2, <1>3, <1>4, <1>5, <1>6 DEF LocalStep

(* Every key that edits changes the text as one string at the cursor and   *)
(* nowhere else, across the ends of lines too, and the cursor goes with    *)
(* what it put in or took out: the keys of editor_process_key.             *)
THEOREM EditsAlwaysLocal == Spec => EditsAreLocal
<1>1. EditInv /\ [Next]_vars => EditInv' BY EditNext
<1>2. EditInv => LocalStep BY LocalKeys
<1>. QED BY EditInit, <1>1, <1>2, PTL DEF Spec, EditsAreLocal, LocalStep
=============================================================================
