---------------------------- MODULE ZerosLemmas ----------------------------
(***************************************************************************)
(* Facts about numbers and finite sets that the proofs of several          *)
(* components rest on.  Nothing here is about the code.                    *)
(***************************************************************************)
EXTENDS Integers, Sequences, FiniteSets, FiniteSetTheorems, WellFoundedInduction,
        SequenceTheorems, TLAPS

(* A non-empty set of naturals has a least element. *)
LEMMA NatHasLeast ==
  ASSUME NEW S, S \subseteq Nat, S # {}
  PROVE  \E i \in S : \A j \in S : i <= j
<1>0. IsWellFoundedOn(OpToRel(<, Nat), Nat)
  BY NatLessThanWellFounded, Zenon
<1>1. PICK i \in S : \A j \in S : ~(<<j, i>> \in OpToRel(<, Nat))
  BY <1>0, WFMin, Zenon
<1>2. \A j \in S : ~(j < i)
  BY <1>1 DEF OpToRel
<1>. QED BY <1>2

(* A bounded one has a greatest. *)
LEMMA NatHasGreatest ==
  ASSUME NEW S, S \subseteq Nat, S # {}, NEW n \in Nat, \A i \in S : i <= n
  PROVE  \E i \in S : \A j \in S : j <= i
<1>. DEFINE T == {n - i : i \in S}
<1>0. PICK e : e \in S OBVIOUS
<1>1. T \subseteq Nat /\ T # {}
  <2>1. \A i \in S : n - i \in Nat OBVIOUS
  <2>2. n - e \in T BY <1>0
  <2>. QED BY <2>1, <2>2
<1>2. PICK k \in T : \A j \in T : k <= j BY <1>1, NatHasLeast
<1>3. PICK i \in S : k = n - i OBVIOUS
<1>4. \A j \in S : n - i <= n - j BY <1>2, <1>3
<1>. HIDE DEF T
<1>5. ASSUME NEW j \in S PROVE j <= i
  <2>1. n \in Int /\ i \in Int /\ j \in Int OBVIOUS
  <2>2. n - i <= n - j BY <1>4
  <2>. QED BY <2>1, <2>2
<1>. QED BY <1>5

(* Induction over the naturals for a set of them. *)
LEMMA NatSetInduction ==
  ASSUME NEW S, 0 \in S, \A n \in Nat : n \in S => n + 1 \in S
  PROVE  Nat \subseteq S
<1>. SUFFICES ASSUME Nat \ S # {} PROVE FALSE OBVIOUS
<1>1. PICK n \in Nat \ S : \A j \in Nat \ S : n <= j BY NatHasLeast
<1>2. n - 1 \in Nat /\ n - 1 \notin Nat \ S BY <1>1
<1>. QED BY <1>1, <1>2

(* What % computes near 0. *)
LEMMA ModFacts ==
  ASSUME NEW n \in Nat \ {0}, NEW x \in Int
  PROVE  /\ x % n \in 0 .. n - 1
         /\ 0 <= x /\ x < n => x % n = x
         /\ n <= x /\ x < 2 * n => x % n = x - n
         /\ -n <= x /\ x < 0 => x % n = x + n
<1>1. x % n \in 0 .. n - 1 OBVIOUS
<1>2. 0 <= x /\ x < n => x % n = x OBVIOUS
<1>3. n <= x /\ x < 2 * n => x % n = x - n OBVIOUS
<1>4. -n <= x /\ x < 0 => x % n = x + n OBVIOUS
<1>. QED BY <1>1, <1>2, <1>3, <1>4

(* A function over 1 .. n is a sequence of length n. *)
LEMMA FunctionIsSeq ==
  ASSUME NEW n \in Nat, NEW S, NEW p \in [1 .. n -> S]
  PROVE  p \in Seq(S) /\ Len(p) = n
<1>1. p \in Seq(S) BY SeqDef, Zenon
<1>2. Len(p) \in Nat /\ DOMAIN p = 1 .. Len(p) BY <1>1, LenProperties, Zenon
<1>3. 1 .. Len(p) = 1 .. n BY <1>2
<1>4. \A i \in Int : i \in 1 .. Len(p) <=> i \in 1 .. n BY <1>3
<1>5. n = Len(p)
  <2>1. CASE n < Len(p) BY <1>2, <1>4, <2>1, n + 1 \in 1 .. Len(p)
  <2>2. CASE Len(p) < n BY <1>2, <1>4, <2>2, Len(p) + 1 \in 1 .. n
  <2>. QED BY <1>2, <2>1, <2>2
<1>. QED BY <1>1, <1>5
=============================================================================
