----------------------------- MODULE MapProofs ------------------------------
(***************************************************************************)
(* What the containers of the server and of the clients do: std::vector    *)
(* without repetitions and std::map, and induction up to a number.         *)
(***************************************************************************)
EXTENDS RoomServer, WellFoundedInduction, TLAPS

\* Who tries a leaf that names no prover: SMT, then Zenon, then SMT with more time.  Leaves whose
\* goal leads SMT astray name Zenon, with a second attempt that has more time.
USE SMTT(20), ZenonT(20), Z3T(60)

(***************************************************************************)
(* Sequences without repetitions.                                          *)
(***************************************************************************)

\* Erase removes the element from a duplicate-free sequence and nothing else.
LEMMA EraseFacts ==
    ASSUME NEW S, NEW s \in Seq(S), IsInjective(s), NEW e
    PROVE  /\ Erase(s, e) \in Seq(S)
           /\ Range(Erase(s, e)) = Range(s) \ {e}
           /\ IsInjective(Erase(s, e))
<1>1. CASE e \notin Range(s)
  BY <1>1 DEF Erase, Range
<1>2. CASE e \in Range(s)
  <2> DEFINE p == CHOOSE i \in DOMAIN s : s[i] = e
             t == [j \in 1..(Len(s) - 1) |-> IF j < p THEN s[j] ELSE s[j + 1]]
  <2>1. Erase(s, e) = t
    BY <1>2 DEF Erase
  <2>2. /\ p \in 1..Len(s)
        /\ s[p] = e
        /\ Len(s) \in Nat
        /\ DOMAIN s = 1..Len(s)
        /\ \A i \in 1..Len(s) : s[i] \in S
    BY <1>2 DEF Range
  <2> HIDE DEF p
  <2>3. t \in Seq(S)
    BY <2>2
  <2>4. \A i \in 1..Len(s) : s[i] = e => i = p
    BY <2>2 DEF IsInjective
  <2>5. Range(t) = Range(s) \ {e}
    <3>1. ASSUME NEW x \in Range(t) PROVE x \in Range(s) \ {e}
      BY <2>2, <2>4, <3>1 DEF Range
    <3>2. ASSUME NEW x \in Range(s) \ {e} PROVE x \in Range(t)
      <4>1. PICK i \in 1..Len(s) : s[i] = x
        BY <2>2, <3>2 DEF Range
      <4>2. i # p
        BY <2>2, <4>1, <3>2
      <4>3. CASE i < p
        <5>1. i \in 1..(Len(s) - 1) /\ t[i] = x
          BY <2>2, <4>1, <4>3
        <5> QED BY <5>1 DEF Range
      <4>4. CASE i > p
        <5>1. (i - 1) \in 1..(Len(s) - 1) /\ t[i - 1] = x
          BY <2>2, <4>1, <4>4
        <5> QED BY <5>1 DEF Range
      <4> QED BY <2>2, <4>2, <4>3, <4>4
    <3> QED BY <3>1, <3>2
  <2>6. IsInjective(t)
    BY <2>2 DEF IsInjective
  <2> QED BY <2>1, <2>3, <2>5, <2>6
<1> QED BY <1>1, <1>2

\* Append adds a new last element.
LEMMA AppendFacts ==
    ASSUME NEW S, NEW s \in Seq(S), IsInjective(s), NEW e \in S, e \notin Range(s)
    PROVE  /\ Append(s, e) \in Seq(S)
           /\ Range(Append(s, e)) = Range(s) \cup {e}
           /\ IsInjective(Append(s, e))
<1>1. /\ Append(s, e) \in Seq(S)
      /\ Len(s) \in Nat
      /\ DOMAIN s = 1..Len(s)
      /\ DOMAIN Append(s, e) = 1..(Len(s) + 1)
      /\ Append(s, e)[Len(s) + 1] = e
      /\ \A i \in 1..Len(s) : Append(s, e)[i] = s[i]
  OBVIOUS
<1> DEFINE t == Append(s, e)
<1> HIDE DEF t
<1>2. Range(t) = Range(s) \cup {e}
  <2>1. \A x \in Range(t) : x \in Range(s) \cup {e}
    BY <1>1 DEF Range, t
  <2>2. \A x \in Range(s) : x \in Range(t)
    BY <1>1 DEF Range, t
  <2>3. e \in Range(t)
    BY <1>1 DEF Range, t
  <2> QED BY <2>1, <2>2, <2>3
<1>3. IsInjective(t)
  BY <1>1 DEF IsInjective, Range, t
<1> QED BY <1>1, <1>2, <1>3 DEF t

-----------------------------------------------------------------------------
(***************************************************************************)
(* Maps.                                                                   *)
(***************************************************************************)

\* A std::map as a function on some of the keys.
LEMMA MapDef ==
    ASSUME NEW S, NEW T, NEW f
    PROVE  f \in Map(S, T) <=> DOMAIN f \subseteq S /\ f \in [DOMAIN f -> T]
BY DEF Map

\* Building, erasing from and assigning into a std::map keep its type.
LEMMA MapOps ==
    ASSUME NEW S, NEW T, NEW f \in Map(S, T)
    PROVE  /\ EmptyMap \in Map(S, T)
           /\ \A k : Drop(f, k) \in Map(S, T)
           /\ \A k \in S, v \in T : Put(f, k, v) \in Map(S, T)
<1>1. EmptyMap \in Map(S, T)
  BY Zenon, ZenonT(60), MapDef DEF EmptyMap
<1>2. ASSUME NEW k PROVE Drop(f, k) \in Map(S, T)
  BY MapDef DEF Drop
<1>3. ASSUME NEW k \in S, NEW v \in T PROVE Put(f, k, v) \in Map(S, T)
  BY MapDef DEF Put
<1> QED BY <1>1, <1>2, <1>3

-----------------------------------------------------------------------------
(***************************************************************************)
(* Induction.                                                              *)
(***************************************************************************)

\* Induction up to n, by the least counterexample.
LEMMA UpTo ==
    ASSUME NEW n \in Nat, NEW T, 0 \in T, \A i \in 1..n : i - 1 \in T => i \in T
    PROVE  0..n \subseteq T
<1> DEFINE Bad == {i \in 0..n : i \notin T}
           R == OpToRel(<, Nat)
<1>1. IsWellFoundedOn(R, Nat) /\ \A x, y \in Nat : <<y, x>> \in R <=> y < x
  BY NatLessThanWellFounded DEF OpToRel
<1> HIDE DEF R
<1>2. SUFFICES ASSUME Bad # {} PROVE FALSE
  OBVIOUS
<1>3. Bad \subseteq Nat
  OBVIOUS
<1> HIDE DEF Bad
<1>4. PICK x \in Bad : \A y \in Bad : ~ (<<y, x>> \in R)
  BY Zenon, ZenonT(60), <1>1, <1>2, <1>3, WFMin
<1>5. x \in 1..n /\ x \notin T
  BY <1>4 DEF Bad
<1>6. x - 1 \in 0..n /\ x - 1 < x /\ x \in Nat /\ x - 1 \in Nat
  BY <1>5
<1>7. x - 1 \notin Bad
  BY Zenon, ZenonT(60), <1>1, <1>4, <1>6
<1> QED BY <1>5, <1>6, <1>7 DEF Bad

=============================================================================
