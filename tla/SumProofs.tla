----------------------------- MODULE SumProofs ------------------------------
(***************************************************************************)
(* SumFunctionOnSet(f, S), the sum of f over a finite set S, for every f    *)
(* and S.  The community module defines it by a recursive function that     *)
(* takes any element of the set first and then sums the others.            *)
(*                                                                         *)
(* What is true of all sums is proved by a smallest counterexample: the     *)
(* subsets of S for which it is false, if there are any, have a member with *)
(* no smaller one in it, and taking one element from that member leaves a   *)
(* set for which it is true.                                               *)
(***************************************************************************)
EXTENDS Integers, Functions, FiniteSetTheorems, WellFoundedInduction, TLAPS

\* The element that a sum over S adds first.
FirstOf(S) == CHOOSE x \in S : TRUE

\* g sums f over every subset of S.
Sums(g, f, S) ==
    g = [s \in SUBSET S |-> IF s = {} THEN 0 ELSE f[FirstOf(s)] + g[s \ {FirstOf(s)}]]

\* A set that is not empty holds its first element.
LEMMA FirstOfIsIn == ASSUME NEW S, S # {} PROVE FirstOf(S) \in S
BY DEF FirstOf

\* A sum is the value at S of a function that sums f over the subsets of S.
LEMMA UnfoldSum == ASSUME NEW f, NEW S
  PROVE  SumFunctionOnSet(f, S) = (CHOOSE g : Sums(g, f, S))[S]
BY DEF SumFunctionOnSet, FoldFunctionOnSet, MapThenFoldSet, Sums, FirstOf

\* A set of finite sets that is not empty has a smallest member.
LEMMA SmallestSet ==
  ASSUME NEW S, IsFiniteSet(S), NEW Bad, Bad \subseteq SUBSET S, Bad # {}
  PROVE  \E T \in Bad : \A U \in SUBSET T : U \in Bad => U = T
<1>1. Bad \subseteq FiniteSubsetsOf(S)
  BY FS_FiniteSubsetsOfFinite
<1>2. PICK T \in Bad : \A U \in Bad : ~(<<U, T>> \in StrictSubsetOrdering(S))
  <2> HIDE DEF FiniteSubsetsOf
  <2> QED BY ONLY <1>1, Bad # {}, FS_StrictSubsetOrderingWellFounded, WFMin
<1>3. QED
  BY <1>2 DEF StrictSubsetOrdering


\* What such a function is at a subset: the chosen element's value and the rest.
LEMMA SumsAt ==
  ASSUME NEW f, NEW S, NEW g, Sums(g, f, S), NEW A \in SUBSET S
  PROVE  g[A] = IF A = {} THEN 0 ELSE f[FirstOf(A)] + g[A \ {FirstOf(A)}]
<1> DEFINE r == [s \in SUBSET S |-> IF s = {} THEN 0 ELSE f[FirstOf(s)] + g[s \ {FirstOf(s)}]]
<1>1. r[A] = IF A = {} THEN 0 ELSE f[FirstOf(A)] + g[A \ {FirstOf(A)}]
  OBVIOUS
<1>2. g = r
  BY DEF Sums
<1> HIDE DEF r
<1>3. g[A] = r[A]
  BY <1>2
<1> QED BY <1>1, <1>3

\* Two such functions agree wherever both are defined.
LEMMA SumsAgree ==
  ASSUME NEW f, NEW S, NEW T, IsFiniteSet(S), NEW g, NEW h,
         Sums(g, f, S), Sums(h, f, T), NEW A, A \subseteq S, A \subseteq T
  PROVE  g[A] = h[A]
<1> DEFINE Bad == {s \in SUBSET S : s \subseteq T /\ g[s] # h[s]}
<1>1. SUFFICES ASSUME Bad # {} PROVE FALSE
  OBVIOUS
<1>2. PICK B \in Bad : \A U \in SUBSET B : U \in Bad => U = B
  <2>1. Bad \subseteq SUBSET S
    OBVIOUS
  <2> HIDE DEF Bad
  <2> QED BY <1>1, <2>1, SmallestSet
<1>3. CASE B = {}
  BY <1>2, <1>3 DEF Sums
<1>4. CASE B # {}
  <2>1. FirstOf(B) \in B
    BY <1>4, FirstOfIsIn
  <2>2. B \ {FirstOf(B)} \notin Bad
    BY <1>2, <2>1
  <2>3. g[B \ {FirstOf(B)}] = h[B \ {FirstOf(B)}]
    BY <1>2, <2>2
  <2>4. g[B] = f[FirstOf(B)] + g[B \ {FirstOf(B)}] /\ h[B] = f[FirstOf(B)] + h[B \ {FirstOf(B)}]
    <3>1. B \in SUBSET S /\ B \in SUBSET T
      BY <1>2
    <3> QED BY <3>1, <1>4, SumsAt
  <2>5. QED
    BY <1>2, <2>3, <2>4
<1>5. QED
  BY <1>3, <1>4

\* There is one over every finite set.
LEMMA SumsExist ==
  ASSUME NEW f, NEW S, IsFiniteSet(S)
  PROVE  \E g : Sums(g, f, S)
<1> DEFINE Bad == {s \in SUBSET S : ~\E g : Sums(g, f, s)}
<1>1. SUFFICES ASSUME Bad # {} PROVE FALSE
  OBVIOUS
<1>2. PICK T \in Bad : \A U \in SUBSET T : U \in Bad => U = T
  <2>1. Bad \subseteq SUBSET S
    OBVIOUS
  <2> HIDE DEF Bad
  <2> QED BY <1>1, <2>1, SmallestSet
<1> DEFINE Of(s) == CHOOSE g : Sums(g, f, s)
           val(s) == Of(s)[s]
           g == [s \in SUBSET T |-> IF s = {} THEN 0 ELSE f[FirstOf(s)] + val(s \ {FirstOf(s)})]
<1>3. \A s \in SUBSET T : s # T => Sums(Of(s), f, s)
  <2> TAKE s \in SUBSET T
  <2> HAVE s # T
  <2>1. \E h : Sums(h, f, s)
    BY <1>2
  <2> QED
    BY <2>1
<1>4. \A s \in SUBSET T : s # T => val(s) = g[s]
  <2> TAKE s \in SUBSET T
  <2> HAVE s # T
  <2>1. Sums(Of(s), f, s)
    BY <1>3
  <2>2. CASE s = {}
    BY <2>1, <2>2 DEF Sums
  <2>3. CASE s # {}
    <3> DEFINE r == s \ {FirstOf(s)}
    <3>1. FirstOf(s) \in s /\ r \subseteq s /\ r \subseteq T /\ r # T
      BY <2>3, FirstOfIsIn
    <3>2. Sums(Of(r), f, r)
      BY <1>3, <3>1
    <3>3. IsFiniteSet(s)
      BY FS_Subset, s \in SUBSET S
    <3>4. Of(s)[r] = Of(r)[r]
      <4> HIDE DEF Of, r
      <4> QED BY <2>1, <3>1, <3>2, <3>3, SumsAgree
    <3>5. Of(s)[s] = f[FirstOf(s)] + Of(s)[r]
      <4> HIDE DEF Of
      <4> QED BY <2>1, <2>3 DEF Sums
    <3>6. QED
      <4> HIDE DEF Of
      <4> QED BY <2>3, <3>4, <3>5
  <2> QED BY <2>2, <2>3
<1>5. Sums(g, f, T)
  <2>1. \A s \in SUBSET T : s # {} => val(s \ {FirstOf(s)}) = g[s \ {FirstOf(s)}]
    <3> TAKE s \in SUBSET T
    <3> HAVE s # {}
    <3>1. s \ {FirstOf(s)} \in SUBSET T /\ s \ {FirstOf(s)} # T
      BY FirstOfIsIn
    <3> QED
      <4> HIDE DEF val, g
      <4> QED BY <3>1, <1>4
  <2>2. g = [s \in SUBSET T |-> IF s = {} THEN 0 ELSE f[FirstOf(s)] + g[s \ {FirstOf(s)}]]
    <3> HIDE DEF val
    <3>1. \A s \in SUBSET T : (IF s = {} THEN 0 ELSE f[FirstOf(s)] + val(s \ {FirstOf(s)}))
                              = (IF s = {} THEN 0 ELSE f[FirstOf(s)] + g[s \ {FirstOf(s)}])
      <4> HIDE DEF g
      <4> QED BY <2>1
    <3>2. g = [s \in SUBSET T |-> IF s = {} THEN 0 ELSE f[FirstOf(s)] + val(s \ {FirstOf(s)})]
      OBVIOUS
    <3> QED
      <4> HIDE DEF g
      <4> QED BY <3>1, <3>2
  <2> QED BY <2>2 DEF Sums
<1>6. QED
  <2> HIDE DEF g
  <2> QED BY <1>2, <1>5

\* A sum takes its first element, and then the sum of the others.
LEMMA SumFirst ==
  ASSUME NEW f, NEW S, IsFiniteSet(S)
  PROVE  SumFunctionOnSet(f, S) =
            IF S = {} THEN 0 ELSE f[FirstOf(S)] + SumFunctionOnSet(f, S \ {FirstOf(S)})
<1> DEFINE Of(s) == CHOOSE g : Sums(g, f, s)
           r == S \ {FirstOf(S)}
<1>1. Sums(Of(S), f, S)
  BY SumsExist
<1>2. Sums(Of(r), f, r)
  BY SumsExist, FS_Subset, r \in SUBSET S
<1>3. Of(S)[r] = Of(r)[r]
  <2> HIDE DEF Of
  <2> QED BY <1>1, <1>2, SumsAgree
<1>4. Of(S)[S] = IF S = {} THEN 0 ELSE f[FirstOf(S)] + Of(S)[r]
  <2> HIDE DEF Of
  <2> QED BY <1>1 DEF Sums
<1>5. SumFunctionOnSet(f, S) = Of(S)[S] /\ SumFunctionOnSet(f, r) = Of(r)[r]
  <2> HIDE DEF r
  <2> QED BY UnfoldSum
<1>6. QED
  <2> HIDE DEF Of
  <2> QED BY <1>3, <1>4, <1>5

-----------------------------------------------------------------------------
(* What the other proofs cite. *)

\* The sum over no elements.
LEMMA SumEmpty == \A f : SumFunctionOnSet(f, {}) = 0
BY SumFirst, FS_EmptySet

\* A sum of integers is one.
LEMMA SumInt ==
  ASSUME NEW f, NEW S, IsFiniteSet(S), \A x \in S : f[x] \in Int
  PROVE  SumFunctionOnSet(f, S) \in Int
<1> DEFINE Bad == {s \in SUBSET S : SumFunctionOnSet(f, s) \notin Int}
<1>1. SUFFICES ASSUME Bad # {} PROVE FALSE
  OBVIOUS
<1>2. PICK B \in Bad : \A U \in SUBSET B : U \in Bad => U = B
  <2>1. Bad \subseteq SUBSET S
    OBVIOUS
  <2> HIDE DEF Bad
  <2> QED BY <1>1, <2>1, SmallestSet
<1>3. IsFiniteSet(B)
  BY FS_Subset, B \in SUBSET S
<1>4. B # {}
  BY SumEmpty
<1>5. FirstOf(B) \in B
  BY <1>4, FirstOfIsIn
<1>6. B \ {FirstOf(B)} \notin Bad
  BY <1>2, <1>5
<1>7. f[FirstOf(B)] \in Int /\ SumFunctionOnSet(f, B \ {FirstOf(B)}) \in Int
  BY <1>5, <1>6
<1>8. SumFunctionOnSet(f, B) = f[FirstOf(B)] + SumFunctionOnSet(f, B \ {FirstOf(B)})
  BY <1>3, <1>4, SumFirst
<1>9. QED
  BY <1>7, <1>8

\* Any element may be taken first.
LEMMA SumRemove ==
  ASSUME NEW f, NEW S, IsFiniteSet(S), \A x \in S : f[x] \in Int, NEW e \in S
  PROVE  SumFunctionOnSet(f, S) = f[e] + SumFunctionOnSet(f, S \ {e})
<1> DEFINE Bad == {s \in SUBSET S : \E x \in s :
                     SumFunctionOnSet(f, s) # f[x] + SumFunctionOnSet(f, s \ {x})}
<1>1. SUFFICES ASSUME Bad # {} PROVE FALSE
  OBVIOUS
<1>2. PICK B \in Bad : \A U \in SUBSET B : U \in Bad => U = B
  <2>1. Bad \subseteq SUBSET S
    OBVIOUS
  <2> HIDE DEF Bad
  <2> QED BY <1>1, <2>1, SmallestSet
<1>3. PICK x \in B : SumFunctionOnSet(f, B) # f[x] + SumFunctionOnSet(f, B \ {x})
  OBVIOUS
<1> DEFINE c == FirstOf(B)
<1>4. c \in B /\ \A s \in SUBSET B : IsFiniteSet(s)
  BY FirstOfIsIn, FS_Subset, B \in SUBSET S
<1>5. SumFunctionOnSet(f, B) = f[c] + SumFunctionOnSet(f, B \ {c})
  BY <1>4, SumFirst
<1> HIDE DEF c
<1>6. c # x
  BY <1>3, <1>5
<1> DEFINE rest == (B \ {c}) \ {x}
           other == (B \ {x}) \ {c}
           r == SumFunctionOnSet(f, rest)
<1>7. SumFunctionOnSet(f, B \ {c}) = f[x] + SumFunctionOnSet(f, rest)
  <2>1. B \ {c} \in SUBSET B /\ B \ {c} # B /\ x \in B \ {c}
    BY <1>4, <1>6
  <2>2. B \ {c} \notin Bad
    <3> HIDE DEF Bad
    <3> QED BY <1>2, <2>1
  <2>3. B \ {c} \in SUBSET S
    OBVIOUS
  <2> QED BY <2>1, <2>2, <2>3
<1>8. SumFunctionOnSet(f, B \ {x}) = f[c] + SumFunctionOnSet(f, other)
  <2>1. B \ {x} \in SUBSET S /\ B \ {x} \notin Bad /\ c \in B \ {x}
    BY <1>2, <1>4, <1>6
  <2> QED BY <2>1
<1>9. rest = other
  OBVIOUS
<1>10. f[c] \in Int /\ f[x] \in Int /\ r \in Int
  <2>1. f[c] \in Int /\ f[x] \in Int
    BY <1>4
  <2>2. IsFiniteSet((B \ {c}) \ {x}) /\ \A y \in (B \ {c}) \ {x} : f[y] \in Int
    BY <1>4
  <2> QED BY <2>1, <2>2, SumInt
<1>11. QED
  <2> HIDE DEF rest, other
  <2> QED BY ONLY <1>3, <1>5, <1>7, <1>8, <1>9, <1>10

\* An element that is not yet there adds its value.
LEMMA SumAdd ==
  ASSUME NEW f, NEW S, IsFiniteSet(S), NEW e, e \notin S, \A x \in S \cup {e} : f[x] \in Int
  PROVE  SumFunctionOnSet(f, S \cup {e}) = SumFunctionOnSet(f, S) + f[e]
<1> DEFINE U == S \cup {e}
           r == U \ {e}
<1>1. IsFiniteSet(U) /\ e \in U /\ r = S
  BY FS_AddElement
<1>2. SumFunctionOnSet(f, U) = f[e] + SumFunctionOnSet(f, r)
  BY <1>1, SumRemove
<1>3. f[e] \in Int /\ SumFunctionOnSet(f, S) \in Int
  BY SumInt
<1>4. QED
  <2> HIDE DEF r
  <2> QED BY <1>1, <1>2, <1>3

\* Sums of the same values are the same, whatever the elements are called.
LEMMA SumBijection ==
  ASSUME NEW S, NEW T, IsFiniteSet(S), NEW f, NEW g, NEW p \in [S -> T],
         \A x, y \in S : p[x] = p[y] => x = y,
         \A y \in T : \E x \in S : p[x] = y,
         \A x \in S : f[x] \in Int /\ g[p[x]] = f[x]
  PROVE  SumFunctionOnSet(f, S) = SumFunctionOnSet(g, T)
<1> DEFINE Img(s) == {p[x] : x \in s}
           Bad == {s \in SUBSET S : SumFunctionOnSet(f, s) # SumFunctionOnSet(g, Img(s))}
<1>1. Img(S) = T
  OBVIOUS
<1>2. SUFFICES ASSUME Bad # {} PROVE FALSE
  <2>1. S \notin Bad
    OBVIOUS
  <2>2. SumFunctionOnSet(f, S) = SumFunctionOnSet(g, Img(S))
    <3> HIDE DEF Img
    <3> QED BY <2>1
  <2> HIDE DEF Img, Bad
  <2> QED BY <1>1, <2>2
<1>3. PICK B \in Bad : \A U \in SUBSET B : U \in Bad => U = B
  <2>1. Bad \subseteq SUBSET S
    OBVIOUS
  <2> HIDE DEF Bad
  <2> QED BY <1>2, <2>1, SmallestSet
<1>4. B # {}
  <2> SUFFICES ASSUME B = {} PROVE FALSE
    OBVIOUS
  <2>1. Img(B) = {}
    OBVIOUS
  <2>2. SumFunctionOnSet(f, B) # SumFunctionOnSet(g, Img(B))
    OBVIOUS
  <2> HIDE DEF Img
  <2> QED BY <2>1, <2>2, SumEmpty
<1>5. PICK e \in B : TRUE
  BY <1>4
<1> DEFINE r == B \ {e}
<1>6. IsFiniteSet(B) /\ IsFiniteSet(r)
  BY FS_Subset, B \in SUBSET S, r \in SUBSET S
<1>7. SumFunctionOnSet(f, r) = SumFunctionOnSet(g, Img(r))
  <2>1. r \notin Bad /\ r \in SUBSET S
    BY <1>3, <1>5
  <2> HIDE DEF Img
  <2> QED BY <2>1
<1>8. Img(B) = Img(r) \cup {p[e]} /\ p[e] \notin Img(r)
  BY <1>5
<1>9. IsFiniteSet(Img(r))
  <2>1. Restrict(p, r) \in Surjection(r, Img(r))
    BY <1>5 DEF Restrict, Surjection
  <2> HIDE DEF Img, r
  <2> QED BY <1>6, <2>1, FS_Surjection
<1>10. \A y \in Img(B) : g[y] \in Int
  <2>1. B \subseteq S
    OBVIOUS
  <2> QED BY <2>1
<1>11. SumFunctionOnSet(g, Img(B)) = SumFunctionOnSet(g, Img(r)) + g[p[e]]
  <2> HIDE DEF Img, r
  <2> QED BY <1>8, <1>9, <1>10, SumAdd
<1>12. SumFunctionOnSet(f, B) = f[e] + SumFunctionOnSet(f, r)
  BY <1>6, SumRemove
<1>13. SumFunctionOnSet(f, r) \in Int
  <2>1. \A x \in r : f[x] \in Int
    OBVIOUS
  <2> HIDE DEF r
  <2> QED BY <1>6, <2>1, SumInt
<1>14. f[e] \in Int /\ g[p[e]] = f[e]
  OBVIOUS
<1>15. SumFunctionOnSet(f, B) # SumFunctionOnSet(g, Img(B))
  OBVIOUS
<1>16. QED
  BY ONLY <1>7, <1>11, <1>12, <1>13, <1>14, <1>15

\* Only the values on the set count.
LEMMA SumSame ==
  ASSUME NEW S, IsFiniteSet(S), NEW f, NEW g,
         \A x \in S : f[x] \in Int /\ g[x] = f[x]
  PROVE  SumFunctionOnSet(f, S) = SumFunctionOnSet(g, S)
<1> DEFINE p == [x \in S |-> x]
<1>1. p \in [S -> S] /\ \A x \in S : p[x] = x
  OBVIOUS
<1> HIDE DEF p
<1> QED BY <1>1, SumBijection

\* Where one value changes, the sum changes by as much.
LEMMA SumChange ==
  ASSUME NEW S, IsFiniteSet(S), NEW f, NEW g, NEW e \in S,
         \A x \in S : f[x] \in Int /\ g[x] \in Int /\ (x # e => g[x] = f[x])
  PROVE  SumFunctionOnSet(g, S) = SumFunctionOnSet(f, S) - f[e] + g[e]
<1> DEFINE r == S \ {e}
<1>1. IsFiniteSet(r)
  BY FS_RemoveElement
<1>2. SumFunctionOnSet(f, r) = SumFunctionOnSet(g, r) /\ SumFunctionOnSet(f, r) \in Int
  <2>1. \A x \in r : f[x] \in Int /\ g[x] = f[x]
    OBVIOUS
  <2> HIDE DEF r
  <2> QED BY <1>1, <2>1, SumSame, SumInt
<1>3. SumFunctionOnSet(f, S) = f[e] + SumFunctionOnSet(f, r)
  BY SumRemove
<1>4. SumFunctionOnSet(g, S) = g[e] + SumFunctionOnSet(g, r)
  BY SumRemove
<1>5. f[e] \in Int /\ g[e] \in Int
  OBVIOUS
<1> QED BY ONLY <1>2, <1>3, <1>4, <1>5

\* Two sums over sets that have nothing in common.
LEMMA SumDisjoint ==
  ASSUME NEW f, NEW S, NEW T, IsFiniteSet(S), IsFiniteSet(T), S \cap T = {},
         \A x \in S \cup T : f[x] \in Int
  PROVE  SumFunctionOnSet(f, S \cup T) = SumFunctionOnSet(f, S) + SumFunctionOnSet(f, T)
<1> DEFINE Bad == {s \in SUBSET S : SumFunctionOnSet(f, s \cup T)
                                   # SumFunctionOnSet(f, s) + SumFunctionOnSet(f, T)}
<1>1. SUFFICES ASSUME Bad # {} PROVE FALSE
  OBVIOUS
<1>2. PICK B \in Bad : \A U \in SUBSET B : U \in Bad => U = B
  <2>1. Bad \subseteq SUBSET S
    OBVIOUS
  <2> HIDE DEF Bad
  <2> QED BY <1>1, <2>1, SmallestSet
<1>3. SumFunctionOnSet(f, T) \in Int
  BY SumInt
<1>4. B # {}
  <2> SUFFICES ASSUME B = {} PROVE FALSE
    OBVIOUS
  <2>1. B \cup T = T
    OBVIOUS
  <2>2. SumFunctionOnSet(f, B \cup T) # SumFunctionOnSet(f, B) + SumFunctionOnSet(f, T)
    OBVIOUS
  <2> QED BY <1>3, <2>1, <2>2, SumEmpty
<1>5. PICK e \in B : TRUE
  BY <1>4
<1> DEFINE r == B \ {e}
<1>6. IsFiniteSet(r) /\ IsFiniteSet(B)
  BY FS_Subset, B \in SUBSET S, r \in SUBSET S
<1>7. SumFunctionOnSet(f, r \cup T) = SumFunctionOnSet(f, r) + SumFunctionOnSet(f, T)
  <2>1. r \notin Bad /\ r \in SUBSET S
    BY <1>2, <1>5
  <2> HIDE DEF r
  <2> QED BY <2>1
<1>8. SumFunctionOnSet(f, B) = f[e] + SumFunctionOnSet(f, r)
  BY <1>6, SumRemove
<1>9. SumFunctionOnSet(f, B \cup T) = f[e] + SumFunctionOnSet(f, r \cup T)
  <2>1. IsFiniteSet(B \cup T) /\ (B \cup T) \ {e} = r \cup T /\ e \in B \cup T
    BY <1>5, <1>6, FS_Union
  <2>2. \A x \in B \cup T : f[x] \in Int
    OBVIOUS
  <2>3. SumFunctionOnSet(f, B \cup T) = f[e] + SumFunctionOnSet(f, (B \cup T) \ {e})
    BY ONLY <2>1, <2>2, SumRemove
  <2> QED BY <2>1, <2>3
<1>10. SumFunctionOnSet(f, r) \in Int /\ f[e] \in Int
  <2>1. \A x \in r : f[x] \in Int
    OBVIOUS
  <2>2. f[e] \in Int
    OBVIOUS
  <2> HIDE DEF r
  <2> QED BY <1>6, <2>1, <2>2, SumInt
<1>11. SumFunctionOnSet(f, B \cup T) # SumFunctionOnSet(f, B) + SumFunctionOnSet(f, T)
  OBVIOUS
<1> QED BY ONLY <1>3, <1>7, <1>8, <1>9, <1>10, <1>11

\* A sum of naturals is one.
LEMMA SumNat ==
  ASSUME NEW f, NEW S, IsFiniteSet(S), \A x \in S : f[x] \in Nat
  PROVE  SumFunctionOnSet(f, S) \in Nat
<1> DEFINE Bad == {s \in SUBSET S : SumFunctionOnSet(f, s) \notin Nat}
<1>1. SUFFICES ASSUME Bad # {} PROVE FALSE
  OBVIOUS
<1>2. PICK B \in Bad : \A U \in SUBSET B : U \in Bad => U = B
  <2>1. Bad \subseteq SUBSET S
    OBVIOUS
  <2> HIDE DEF Bad
  <2> QED BY <1>1, <2>1, SmallestSet
<1>3. IsFiniteSet(B)
  BY FS_Subset, B \in SUBSET S
<1>4. B # {}
  BY SumEmpty
<1>5. FirstOf(B) \in B
  BY <1>4, FirstOfIsIn
<1>6. B \ {FirstOf(B)} \notin Bad
  BY <1>2, <1>5
<1>7. f[FirstOf(B)] \in Nat /\ SumFunctionOnSet(f, B \ {FirstOf(B)}) \in Nat
  BY <1>5, <1>6
<1>8. SumFunctionOnSet(f, B) = f[FirstOf(B)] + SumFunctionOnSet(f, B \ {FirstOf(B)})
  BY <1>3, <1>4, SumFirst
<1>9. QED
  BY <1>7, <1>8

\* A sum of naturals is at least that of a part of the set.
LEMMA SumPart ==
  ASSUME NEW f, NEW S, IsFiniteSet(S), \A x \in S : f[x] \in Nat, NEW T \in SUBSET S
  PROVE  SumFunctionOnSet(f, T) <= SumFunctionOnSet(f, S)
<1> DEFINE U == S \ T
           all == T \cup U
<1>1. IsFiniteSet(T) /\ IsFiniteSet(U) /\ S = all
  BY FS_Subset, U \in SUBSET S
<1>2. SumFunctionOnSet(f, T) \in Nat /\ SumFunctionOnSet(f, U) \in Nat
  BY <1>1, SumNat
<1>3. SumFunctionOnSet(f, all) = SumFunctionOnSet(f, T) + SumFunctionOnSet(f, U)
  <2>1. T \cap U = {} /\ \A x \in T \cup U : f[x] \in Int
    OBVIOUS
  <2> QED BY ONLY <1>1, <2>1, SumDisjoint
<1>4. QED
  <2> HIDE DEF all
  <2> QED BY <1>1, <1>2, <1>3

\* A sum is at most as many times the largest value as there are elements.
LEMMA SumBound ==
  ASSUME NEW f, NEW S, IsFiniteSet(S), NEW c \in Nat, \A x \in S : f[x] \in 0 .. c
  PROVE  SumFunctionOnSet(f, S) <= Cardinality(S) * c
<1> DEFINE Bad == {s \in SUBSET S : ~(SumFunctionOnSet(f, s) <= Cardinality(s) * c)}
<1>1. SUFFICES ASSUME Bad # {} PROVE FALSE
  OBVIOUS
<1>2. PICK B \in Bad : \A U \in SUBSET B : U \in Bad => U = B
  <2>1. Bad \subseteq SUBSET S
    OBVIOUS
  <2> HIDE DEF Bad
  <2> QED BY <1>1, <2>1, SmallestSet
<1>3. IsFiniteSet(B)
  BY FS_Subset, B \in SUBSET S
<1>4. B # {}
  <2>1. SumFunctionOnSet(f, {}) <= Cardinality({}) * c
    BY SumEmpty, FS_EmptySet
  <2> QED BY <2>1
<1>5. FirstOf(B) \in B
  BY <1>4, FirstOfIsIn
<1> DEFINE rest == B \ {FirstOf(B)}
<1>6. rest \notin Bad
  BY <1>2, <1>5
<1>7. IsFiniteSet(rest) /\ Cardinality(rest) = Cardinality(B) - 1
      /\ Cardinality(B) \in Nat /\ Cardinality(rest) \in Nat
  BY <1>3, <1>5, FS_RemoveElement, FS_CardinalityType
<1>8. /\ SumFunctionOnSet(f, rest) <= Cardinality(rest) * c
      /\ SumFunctionOnSet(f, rest) \in Nat
      /\ f[FirstOf(B)] \in 0 .. c
  <2>1. rest \in SUBSET S /\ \A x \in rest : f[x] \in Nat
    OBVIOUS
  <2>2. SumFunctionOnSet(f, rest) \in Nat
    <3> HIDE DEF rest
    <3> QED BY <1>7, <2>1, SumNat
  <2> QED BY <1>5, <1>6, <2>1, <2>2
<1>9. SumFunctionOnSet(f, B) = f[FirstOf(B)] + SumFunctionOnSet(f, rest)
  BY <1>3, <1>4, SumFirst
<1>10. \A n \in Nat : (n - 1) * c + c = n * c
  OBVIOUS
<1>11. SumFunctionOnSet(f, B) <= Cardinality(B) * c
  <2> HIDE DEF rest
  <2> QED BY <1>7, <1>8, <1>9, <1>10
<1>12. QED
  BY <1>11

\* Nothing adds up to nothing.
LEMMA SumZero ==
  ASSUME NEW f, NEW S, IsFiniteSet(S), \A x \in S : f[x] = 0
  PROVE  SumFunctionOnSet(f, S) = 0
<1> DEFINE Bad == {s \in SUBSET S : SumFunctionOnSet(f, s) # 0}
<1>1. SUFFICES ASSUME Bad # {} PROVE FALSE
  OBVIOUS
<1>2. PICK B \in Bad : \A U \in SUBSET B : U \in Bad => U = B
  <2>1. Bad \subseteq SUBSET S
    OBVIOUS
  <2> HIDE DEF Bad
  <2> QED BY <1>1, <2>1, SmallestSet
<1>3. IsFiniteSet(B)
  BY FS_Subset, B \in SUBSET S
<1>4. B # {}
  BY SumEmpty
<1>5. FirstOf(B) \in B
  BY <1>4, FirstOfIsIn
<1>6. B \ {FirstOf(B)} \notin Bad
  BY <1>2, <1>5
<1>7. f[FirstOf(B)] = 0 /\ SumFunctionOnSet(f, B \ {FirstOf(B)}) = 0
  BY <1>5, <1>6
<1>8. SumFunctionOnSet(f, B) = f[FirstOf(B)] + SumFunctionOnSet(f, B \ {FirstOf(B)})
  BY <1>3, <1>4, SumFirst
<1>9. QED
  BY <1>7, <1>8

\* The elements of S that k puts in class t, and those it puts in a class of T.
Class(S, k, t) == {x \in S : k[x] = t}
Classes(S, k, T) == {x \in S : k[x] \in T}

\* A sum may be taken class by class.
LEMMA SumPartition ==
  ASSUME NEW S, IsFiniteSet(S), NEW f, \A x \in S : f[x] \in Int, NEW k,
         NEW T, IsFiniteSet(T), NEW v,
         \A t \in T : v[t] = SumFunctionOnSet(f, Class(S, k, t))
  PROVE  SumFunctionOnSet(v, T) = SumFunctionOnSet(f, Classes(S, k, T))
<1> DEFINE class(t) == Class(S, k, t)
           part(s) == Classes(S, k, s)
           Bad == {s \in SUBSET T : SumFunctionOnSet(v, s) # SumFunctionOnSet(f, part(s))}
<1>1. \A s : part(s) \in SUBSET S /\ class(s) \in SUBSET S
  BY DEF Class, Classes
<1>2. \A U \in SUBSET S : IsFiniteSet(U) /\ SumFunctionOnSet(f, U) \in Int
  <2> TAKE U \in SUBSET S
  <2>1. IsFiniteSet(U) /\ \A x \in U : f[x] \in Int
    BY FS_Subset
  <2> QED
    BY <2>1, SumInt
<1>3. \A t \in T : v[t] \in Int /\ v[t] = SumFunctionOnSet(f, class(t))
  BY <1>1, <1>2
<1>4. SUFFICES ASSUME Bad # {} PROVE FALSE
  OBVIOUS
<1>5. PICK B \in Bad : \A U \in SUBSET B : U \in Bad => U = B
  <2>1. Bad \subseteq SUBSET T
    OBVIOUS
  <2> HIDE DEF Bad
  <2> QED BY <1>4, <2>1, SmallestSet
<1>6. SumFunctionOnSet(v, B) # SumFunctionOnSet(f, part(B)) /\ B \in SUBSET T
  OBVIOUS
<1>7. B # {}
  <2> SUFFICES ASSUME B = {} PROVE FALSE
    OBVIOUS
  <2>1. part(B) = {}
    BY DEF Classes
  <2> HIDE DEF part
  <2> QED BY <1>6, <2>1, SumEmpty
<1>8. PICK t \in B : TRUE
  BY <1>7
<1> DEFINE r == B \ {t}
<1>9. SumFunctionOnSet(v, r) = SumFunctionOnSet(f, part(r))
  <2>1. r \in SUBSET B /\ r # B /\ r \in SUBSET T
    BY <1>8
  <2>2. r \notin Bad
    <3> HIDE DEF Bad, r
    <3> QED BY <1>5, <2>1
  <2> HIDE DEF r, part
  <2> QED BY <2>1, <2>2
<1>10. SumFunctionOnSet(v, B) = v[t] + SumFunctionOnSet(v, r)
  <2>1. IsFiniteSet(B) /\ \A x \in B : v[x] \in Int
    BY <1>3, <1>6, FS_Subset
  <2> QED
    BY ONLY <1>8, <2>1, SumRemove
<1> DEFINE all == class(t) \cup part(r)
<1>11. part(B) = all /\ class(t) \cap part(r) = {}
  BY <1>8 DEF Class, Classes
<1>12. SumFunctionOnSet(f, all) = SumFunctionOnSet(f, class(t)) + SumFunctionOnSet(f, part(r))
  <2>1. \A x \in class(t) \cup part(r) : f[x] \in Int
    BY <1>1
  <2> HIDE DEF class, part, r
  <2> QED BY <1>1, <1>2, <1>11, <2>1, SumDisjoint
<1>13. SumFunctionOnSet(f, class(t)) = v[t]
  BY <1>3, <1>6, <1>8
<1> HIDE DEF class, part, r, all
<1> QED BY <1>6, <1>9, <1>10, <1>11, <1>12, <1>13, <1>1, <1>2

=============================================================================
