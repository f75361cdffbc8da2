----------------------- MODULE StockAndKilns_proofs -----------------------
(***************************************************************************)
(* Proofs about StockLedger, for any slots, lots, jobs and transactions,   *)
(* and about KilnBatches, for any lines, batches, calls and requests: the  *)
(* two components that keep a number beside the rows it is the sum of.     *)
(*                                                                         *)
(* First, for both, what a sum over a finite set is, from the definition   *)
(* of SumFunctionOnSet: it does not depend on the order of the elements,   *)
(* and it grows by what is added (the induction is over the subsets of the *)
(* set, with the set of the good subsets in the place of a predicate).     *)
(*                                                                         *)
(* StockLedger: what a set of movements leaves of the balances and lots,   *)
(* where no variable of the specification occurs; the shape of the         *)
(* scripts, checks in product order before anything else; and the          *)
(* invariant IInv, action by action, with the three properties that follow *)
(* from it.                                                                *)
(*                                                                         *)
(* KilnBatches: what each change of the rows keeps of a sound plan, where  *)
(* again no variable occurs; the invariant KilnInv, by which what a        *)
(* request has locked and read is still so; Bystander, that a step which   *)
(* leaves alone what a request has locked leaves that true; and the        *)
(* actions, each with what it spares the others.                           *)
(***************************************************************************)
EXTENDS StockLedger, KilnBatches, FiniteSetTheorems, TLAPS

(***************************************************************************)
(* Sums over finite sets.                                                  *)
(***************************************************************************)
Total(f, S) == SumFunctionOnSet(f, S)
First(s) == CHOOSE x \in s : TRUE

Unfolds(f, D, g) ==
  g = [s \in D |-> IF s = {} THEN 0 ELSE f[First(s)] + g[s \ {First(s)}]]

Within(S, n) == {s \in SUBSET S : Cardinality(s) <= n}

Less == {ss \in Nat \X Nat : ss[1] < ss[2]}

LEMMA LessWF == IsWellFoundedOn(Less, Nat)
BY NatLessThanWellFounded DEF OpToRel, Less

(* Induction, with a set for the predicate. *)
LEMMA NatSets ==
  ASSUME NEW P, 0 \in P, \A n \in Nat : n \in P => n + 1 \in P
  PROVE  Nat \subseteq P
<1> SUFFICES ASSUME Nat \ P # {} PROVE FALSE
  OBVIOUS
<1>1. PICK n \in Nat \ P : \A m \in Nat \ P : ~ (<<m, n>> \in Less)
  BY LessWF, WFMin
<1>2. n # 0 /\ n - 1 \in Nat /\ n - 1 \notin P
  OBVIOUS
<1>3. <<n - 1, n>> \in Less
  BY <1>2 DEF Less
<1> QED
  BY <1>1, <1>2, <1>3

LEMMA TotalIsFold ==
  ASSUME NEW f, NEW S
  PROVE  Total(f, S) = (CHOOSE g : Unfolds(f, SUBSET S, g))[S]
BY DEF Total, SumFunctionOnSet, FoldFunctionOnSet, MapThenFoldSet, Unfolds, First

LEMMA AddingElements ==
  ASSUME NEW S, IsFiniteSet(S), NEW P,
         {} \in P,
         \A T \in SUBSET S : \A x \in S \ T : T \in P => T \cup {x} \in P
  PROVE  S \in P
<1> DEFINE Q == {n \in Nat : \A T \in SUBSET S : Cardinality(T) = n => T \in P}
<1>1. 0 \in Q
  <2> SUFFICES ASSUME NEW T \in SUBSET S, Cardinality(T) = 0 PROVE T \in P
    OBVIOUS
  <2>1. IsFiniteSet(T)
    BY FS_Subset
  <2> QED
    BY <2>1, FS_EmptySet
<1>2. ASSUME NEW n \in Nat, n \in Q PROVE n + 1 \in Q
  <2> SUFFICES ASSUME NEW T \in SUBSET S, Cardinality(T) = n + 1 PROVE T \in P
    OBVIOUS
  <2>1. IsFiniteSet(T)
    BY FS_Subset
  <2>2. PICK x \in T : TRUE
    BY <2>1, FS_EmptySet
  <2>3. Cardinality(T \ {x}) = n
    <3>1. Cardinality(T \ {x}) = Cardinality(T) - 1
      BY <2>1, <2>2, FS_RemoveElement
    <3> QED
      BY <3>1
  <2>4. T \ {x} \in P
    BY <1>2, <2>3
  <2>5. (T \ {x}) \cup {x} \in P /\ (T \ {x}) \cup {x} = T
    BY <2>2, <2>4
  <2> QED
    BY <2>5
<1>3. Nat \subseteq Q
  <2> HIDE DEF Q
  <2> QED BY <1>1, <1>2, NatSets
<1>4. Cardinality(S) \in Nat
  BY FS_CardinalityType
<1> QED
  BY <1>3, <1>4

(* The recursion that the sum of f is chosen by has a solution ... *)
LEMMA UnfoldsExists ==
  ASSUME NEW f, NEW S, IsFiniteSet(S)
  PROVE  \E g : Unfolds(f, SUBSET S, g)
<1> DEFINE P == {n \in Nat : \E g : Unfolds(f, Within(S, n), g)}
<1>1. \A T \in SUBSET S : IsFiniteSet(T) /\ Cardinality(T) \in Nat
  BY FS_Subset, FS_CardinalityType
<1>2. \A T \in SUBSET S : T # {} => First(T) \in T
  BY DEF First
<1>3. \A T \in SUBSET S : T # {} => /\ T \ {First(T)} \in SUBSET S
                                    /\ Cardinality(T \ {First(T)}) = Cardinality(T) - 1
  BY <1>1, <1>2, FS_RemoveElement
<1>4. 0 \in P
  <2>1. Within(S, 0) = {{}}
    BY <1>1, FS_EmptySet DEF Within
  <2>2. Unfolds(f, Within(S, 0), [s \in {{}} |-> 0])
    BY <2>1 DEF Unfolds
  <2> QED
    BY <2>2
<1>5. ASSUME NEW n \in Nat, n \in P PROVE n + 1 \in P
  <2>1. PICK g : Unfolds(f, Within(S, n), g)
    BY <1>5
  <2> DEFINE h == [s \in Within(S, n + 1) |-> IF s = {} THEN 0 ELSE f[First(s)] + g[s \ {First(s)}]]
  <2>2. ASSUME NEW s \in Within(S, n + 1), s # {}
        PROVE  s \ {First(s)} \in Within(S, n) /\ s \ {First(s)} \in Within(S, n + 1)
    BY <2>2, <1>1, <1>3 DEF Within
  <2>3. ASSUME NEW s \in Within(S, n) PROVE h[s] = g[s]
    <3>1. s \in Within(S, n + 1)
      BY <1>1 DEF Within
    <3>2. g[s] = IF s = {} THEN 0 ELSE f[First(s)] + g[s \ {First(s)}]
      BY <2>1 DEF Unfolds
    <3> QED
      BY <3>1, <3>2
  <2>4. h = [s \in Within(S, n + 1) |-> IF s = {} THEN 0 ELSE f[First(s)] + h[s \ {First(s)}]]
    <3> HIDE DEF h
    <3>1. \A s \in Within(S, n + 1) : s # {} => h[s \ {First(s)}] = g[s \ {First(s)}]
      BY <2>2, <2>3
    <3> QED
      BY <3>1 DEF h
  <2>5. Unfolds(f, Within(S, n + 1), h)
    BY <2>4 DEF Unfolds
  <2> QED
    BY <2>5
<1>6. Nat \subseteq P
  <2> HIDE DEF P
  <2> QED BY <1>4, <1>5, NatSets
<1>7. Within(S, Cardinality(S)) = SUBSET S
  BY FS_Subset DEF Within
<1>8. Cardinality(S) \in P
  BY <1>6, FS_CardinalityType
<1> QED
  BY <1>7, <1>8

LEMMA SubsetInduction ==
  ASSUME NEW S, IsFiniteSet(S), NEW P,
         \A T \in SUBSET S : (\A U \in SUBSET T : U # T => U \in P) => T \in P
  PROVE  \A T \in SUBSET S : T \in P
<1> DEFINE Bad == {T \in SUBSET S : T \notin P}
<1> SUFFICES ASSUME Bad # {} PROVE FALSE
  OBVIOUS
<1>1. IsWellFoundedOn(StrictSubsetOrdering(S), SUBSET S)
  <2>1. FiniteSubsetsOf(S) = SUBSET S
    BY FS_FiniteSubsetsOfFinite
  <2>2. IsWellFoundedOn(StrictSubsetOrdering(S), FiniteSubsetsOf(S))
    BY FS_StrictSubsetOrderingWellFounded
  <2> QED
    BY <2>1, <2>2
<1>2. PICK T \in Bad : \A U \in Bad : ~ (<<U, T>> \in StrictSubsetOrdering(S))
  <2>1. Bad \subseteq SUBSET S
    OBVIOUS
  <2> HIDE DEF Bad
  <2> QED
    BY <1>1, <2>1, WFMin
<1>3. \A U \in SUBSET T : U # T => U \in P
  BY <1>2 DEF StrictSubsetOrdering
<1> QED
  BY <1>2, <1>3

LEMMA Exchange == \A a, b, c \in Int : a + (b + c) = b + (a + c)
OBVIOUS

(* ... that does not depend on the set it is asked for ... *)
LEMMA UnfoldsAgree ==
  ASSUME NEW f, NEW S, IsFiniteSet(S), NEW R \in SUBSET S, NEW g, NEW h,
         Unfolds(f, SUBSET S, g), Unfolds(f, SUBSET R, h)
  PROVE  g[R] = h[R]
<1> DEFINE P == {T \in SUBSET R : g[T] = h[T]}
<1>1. ASSUME NEW T \in SUBSET R, \A U \in SUBSET T : U # T => U \in P
      PROVE  T \in P
  <2>1. /\ g[T] = IF T = {} THEN 0 ELSE f[First(T)] + g[T \ {First(T)}]
        /\ h[T] = IF T = {} THEN 0 ELSE f[First(T)] + h[T \ {First(T)}]
    BY DEF Unfolds
  <2>2. CASE T = {}
    BY <2>1, <2>2
  <2>3. CASE T # {}
    <3>1. First(T) \in T
      BY <2>3 DEF First
    <3>2. T \ {First(T)} \in P
      BY <1>1, <3>1
    <3> QED
      BY <2>1, <2>3, <3>2
  <2> QED
    BY <2>2, <2>3
<1>2. IsFiniteSet(R)
  BY FS_Subset
<1>3. \A T \in SUBSET R : T \in P
  <2> HIDE DEF P
  <2> QED BY <1>1, <1>2, SubsetInduction
<1> QED
  BY <1>3

(* ... so that a sum is one element and the sum of the rest ... *)
LEMMA TotalUnfolds ==
  ASSUME NEW f, NEW S, IsFiniteSet(S)
  PROVE  Total(f, S) = IF S = {} THEN 0 ELSE f[First(S)] + Total(f, S \ {First(S)})
<1> DEFINE g(T) == CHOOSE h : Unfolds(f, SUBSET T, h)
<1>1. ASSUME NEW T \in SUBSET S
      PROVE  Unfolds(f, SUBSET T, g(T)) /\ Total(f, T) = g(T)[T]
  BY FS_Subset, UnfoldsExists, TotalIsFold
<1>2. Total(f, S) = IF S = {} THEN 0 ELSE f[First(S)] + g(S)[S \ {First(S)}]
  <2>1. Unfolds(f, SUBSET S, g(S)) /\ Total(f, S) = g(S)[S]
    BY <1>1
  <2> HIDE DEF g
  <2> QED
    BY <2>1 DEF Unfolds
<1>3. g(S)[S \ {First(S)}] = Total(f, S \ {First(S)})
  <2> DEFINE R == S \ {First(S)}
  <2>1. R \in SUBSET S
    OBVIOUS
  <2>2. Unfolds(f, SUBSET S, g(S)) /\ Unfolds(f, SUBSET R, g(R)) /\ Total(f, R) = g(R)[R]
    BY <1>1, <2>1
  <2> HIDE DEF g, R
  <2>3. g(S)[R] = g(R)[R]
    BY <2>1, <2>2, UnfoldsAgree
  <2> QED
    BY <2>2, <2>3 DEF R
<1> QED
  BY <1>2, <1>3

LEMMA TotalEmpty == ASSUME NEW f PROVE Total(f, {}) = 0
BY TotalUnfolds, FS_EmptySet

LEMMA TotalType ==
  ASSUME NEW f, NEW S, IsFiniteSet(S), \A x \in S : f[x] \in Int
  PROVE  Total(f, S) \in Int
<1> DEFINE P == {T \in SUBSET S : Total(f, T) \in Int}
<1>1. ASSUME NEW T \in SUBSET S, \A U \in SUBSET T : U # T => U \in P
      PROVE  T \in P
  <2>1. Total(f, T) = IF T = {} THEN 0 ELSE f[First(T)] + Total(f, T \ {First(T)})
    BY FS_Subset, TotalUnfolds
  <2>2. CASE T # {}
    <3>1. First(T) \in T
      BY <2>2 DEF First
    <3>2. Total(f, T \ {First(T)}) \in Int
      BY <1>1, <3>1
    <3> QED
      BY <2>1, <2>2, <3>1, <3>2
  <2> QED
    BY <2>1, <2>2
<1>2. \A T \in SUBSET S : T \in P
  <2> HIDE DEF P
  <2> QED BY <1>1, SubsetInduction
<1> QED
  BY <1>2

(* ... whichever element that is. *)
LEMMA TotalRemove ==
  ASSUME NEW f, NEW S, IsFiniteSet(S), \A y \in S : f[y] \in Int, NEW x \in S
  PROVE  Total(f, S) = f[x] + Total(f, S \ {x})
<1> DEFINE P == {T \in SUBSET S : \A y \in T : Total(f, T) = f[y] + Total(f, T \ {y})}
<1>1. ASSUME NEW T \in SUBSET S, \A U \in SUBSET T : U # T => U \in P
      PROVE  T \in P
  <2> SUFFICES ASSUME NEW y \in T PROVE Total(f, T) = f[y] + Total(f, T \ {y})
    OBVIOUS
  <2> DEFINE c == First(T)
  <2>1. c \in T
    BY DEF First
  <2>2. Total(f, T) = f[c] + Total(f, T \ {c})
    BY FS_Subset, TotalUnfolds
  <2>3. CASE y = c
    BY <2>2, <2>3
  <2>4. CASE y # c
    <3> HIDE DEF c
    <3>1. Total(f, T \ {c}) = f[y] + Total(f, (T \ {c}) \ {y})
      BY <1>1, <2>1, <2>4
    <3>2. Total(f, T \ {y}) = f[c] + Total(f, (T \ {y}) \ {c})
      BY <1>1, <2>1, <2>4
    <3>3. (T \ {c}) \ {y} = (T \ {y}) \ {c}
      OBVIOUS
    <3>5. Total(f, (T \ {c}) \ {y}) = Total(f, (T \ {y}) \ {c})
      BY <3>3, Zenon
    <3>4. Total(f, (T \ {c}) \ {y}) \in Int /\ f[c] \in Int /\ f[y] \in Int
      BY <2>1, FS_Subset, TotalType
    <3> QED
      BY <2>2, <3>1, <3>2, <3>5, <3>4, Exchange
  <2> QED
    BY <2>3, <2>4
<1>2. \A T \in SUBSET S : T \in P
  <2> HIDE DEF P
  <2> QED BY <1>1, SubsetInduction
<1> QED
  BY <1>2

LEMMA TotalEqual ==
  ASSUME NEW f, NEW g, NEW S, IsFiniteSet(S), \A x \in S : f[x] = g[x]
  PROVE  Total(f, S) = Total(g, S)
<1> DEFINE P == {T \in SUBSET S : Total(f, T) = Total(g, T)}
<1>1. ASSUME NEW T \in SUBSET S, \A U \in SUBSET T : U # T => U \in P
      PROVE  T \in P
  <2>1. /\ Total(f, T) = IF T = {} THEN 0 ELSE f[First(T)] + Total(f, T \ {First(T)})
        /\ Total(g, T) = IF T = {} THEN 0 ELSE g[First(T)] + Total(g, T \ {First(T)})
    BY FS_Subset, TotalUnfolds
  <2>2. CASE T # {}
    <3>1. First(T) \in T
      BY <2>2 DEF First
    <3>2. Total(f, T \ {First(T)}) = Total(g, T \ {First(T)}) /\ f[First(T)] = g[First(T)]
      BY <1>1, <3>1
    <3> QED
      BY <2>1, <2>2, <3>2
  <2> QED
    BY <2>1, <2>2
<1>2. \A T \in SUBSET S : T \in P
  <2> HIDE DEF P
  <2> QED BY <1>1, SubsetInduction
<1> QED
  BY <1>2

LEMMA TotalUnion ==
  ASSUME NEW f, NEW S, IsFiniteSet(S), NEW R, IsFiniteSet(R), S \cap R = {},
         \A x \in S \cup R : f[x] \in Int
  PROVE  Total(f, S \cup R) = Total(f, S) + Total(f, R)
<1> DEFINE P == {T \in SUBSET R : Total(f, S \cup T) = Total(f, S) + Total(f, T)}
<1>0. Total(f, S) \in Int
  BY TotalType
<1>1. ASSUME NEW T \in SUBSET R, \A U \in SUBSET T : U # T => U \in P
      PROVE  T \in P
  <2>0. IsFiniteSet(T) /\ IsFiniteSet(S \cup T)
    BY FS_Subset, FS_Union
  <2>1. CASE T = {}
    <3>1. S \cup T = S
      BY <2>1
    <3> QED
      BY <1>0, <2>1, <3>1, TotalEmpty
  <2>2. CASE T # {}
    <3>1. PICK x : x \in T
      BY <2>2
    <3>2. Total(f, S \cup T) = f[x] + Total(f, (S \cup T) \ {x})
      BY <2>0, <3>1, TotalRemove
    <3>3. Total(f, T) = f[x] + Total(f, T \ {x})
      BY <2>0, <3>1, TotalRemove
    <3>4. (S \cup T) \ {x} = S \cup (T \ {x})
      BY <3>1
    <3>5. Total(f, S \cup (T \ {x})) = Total(f, S) + Total(f, T \ {x})
      BY <1>1, <3>1
    <3>6. f[x] \in Int /\ Total(f, T \ {x}) \in Int
      <4>1. IsFiniteSet(T \ {x})
        BY <2>0, FS_Subset
      <4> QED
        BY <3>1, <4>1, TotalType
    <3>8. Total(f, (S \cup T) \ {x}) = Total(f, S \cup (T \ {x}))
      BY <3>4, Zenon
    <3>7. Total(f, S \cup T) = Total(f, S) + Total(f, T)
      BY <1>0, <3>2, <3>3, <3>8, <3>5, <3>6, Exchange
    <3> QED
      BY <3>7
  <2> QED
    BY <2>1, <2>2
<1>2. \A T \in SUBSET R : T \in P
  <2> HIDE DEF P
  <2> QED BY <1>1, SubsetInduction
<1> QED
  BY <1>2

LEMMA TotalAdd ==
  ASSUME NEW f, NEW S, IsFiniteSet(S), NEW x, x \notin S, \A y \in S \cup {x} : f[y] \in Int
  PROVE  Total(f, S \cup {x}) = Total(f, S) + f[x]
<1>1. IsFiniteSet(S \cup {x})
  BY FS_AddElement
<1>2. Total(f, S \cup {x}) = f[x] + Total(f, (S \cup {x}) \ {x})
  <2> DEFINE T == S \cup {x}
  <2>1. IsFiniteSet(T) /\ (\A y \in T : f[y] \in Int) /\ x \in T
    BY <1>1
  <2> HIDE DEF T
  <2>2. Total(f, T) = f[x] + Total(f, T \ {x})
    BY <2>1, TotalRemove
  <2> QED
    BY <2>2 DEF T
<1>3. (S \cup {x}) \ {x} = S
  OBVIOUS
<1>4. Total(f, (S \cup {x}) \ {x}) = Total(f, S)
  BY <1>3, Zenon
<1>5. Total(f, S) \in Int /\ f[x] \in Int
  BY TotalType
<1> QED
  BY <1>2, <1>4, <1>5

LEMMA TotalBump ==
  ASSUME NEW f, NEW g, NEW S, IsFiniteSet(S), NEW x \in S, NEW d \in Int,
         \A y \in S : f[y] \in Int, \A y \in S \ {x} : g[y] = f[y], g[x] = f[x] + d
  PROVE  Total(g, S) = Total(f, S) + d
<1>1. IsFiniteSet(S \ {x}) /\ f[x] \in Int /\ g[x] \in Int /\ \A y \in S : g[y] \in Int
  BY FS_RemoveElement
<1>2. Total(f, S) = f[x] + Total(f, S \ {x}) /\ Total(g, S) = g[x] + Total(g, S \ {x})
  BY <1>1, TotalRemove
<1>3. Total(g, S \ {x}) = Total(f, S \ {x})
  <2> DEFINE T == S \ {x}
  <2>1. IsFiniteSet(T) /\ \A y \in T : f[y] = g[y]
    BY <1>1
  <2> HIDE DEF T
  <2>2. Total(f, T) = Total(g, T)
    BY <2>1, TotalEqual
  <2> QED
    BY <2>2 DEF T
<1>4. Total(f, S \ {x}) \in Int
  BY <1>1, TotalType
<1> QED
  BY <1>1, <1>2, <1>3, <1>4

LEMMA TotalNat ==
  ASSUME NEW f, NEW S, IsFiniteSet(S), \A x \in S : f[x] \in Nat
  PROVE  Total(f, S) \in Nat
<1> DEFINE P == {T \in SUBSET S : Total(f, T) \in Nat}
<1>1. {} \in P
  BY TotalEmpty
<1>2. ASSUME NEW T \in SUBSET S, NEW x \in S \ T, T \in P
      PROVE  T \cup {x} \in P
  <2>1. Total(f, T \cup {x}) = Total(f, T) + f[x]
    BY FS_Subset, TotalAdd
  <2> QED
    BY <1>2, <2>1
<1>3. S \in P
  <2> HIDE DEF P
  <2> QED BY <1>1, <1>2, AddingElements
<1> QED
  BY <1>3

(* Sums are added element by element, ... *)
LEMMA TotalPlus ==
  ASSUME NEW f, NEW g, NEW h, NEW S, IsFiniteSet(S),
         \A x \in S : f[x] \in Int /\ g[x] \in Int /\ h[x] = f[x] + g[x]
  PROVE  Total(h, S) = Total(f, S) + Total(g, S)
<1> DEFINE P == {T \in SUBSET S : Total(h, T) = Total(f, T) + Total(g, T)}
<1>1. {} \in P
  BY TotalEmpty
<1>2. ASSUME NEW T \in SUBSET S, NEW x \in S \ T, T \in P
      PROVE  T \cup {x} \in P
  <2>1. IsFiniteSet(T)
    BY FS_Subset
  <2>2. Total(f, T) \in Int /\ Total(g, T) \in Int
    BY <2>1, TotalType
  <2>3. /\ Total(f, T \cup {x}) = Total(f, T) + f[x]
        /\ Total(g, T \cup {x}) = Total(g, T) + g[x]
    BY <2>1, TotalAdd
  <2>4. Total(h, T \cup {x}) = Total(h, T) + h[x]
    BY <2>1, TotalAdd
  <2>5. Total(h, T) = Total(f, T) + Total(g, T)
    BY <1>2
  <2>6. f[x] \in Int /\ g[x] \in Int /\ h[x] = f[x] + g[x]
    OBVIOUS
  <2>7. Total(h, T \cup {x}) = Total(f, T \cup {x}) + Total(g, T \cup {x})
    <3> DEFINE a == Total(f, T)  b == Total(g, T)  c == f[x]  d == g[x]
    <3>1. a \in Int /\ b \in Int /\ c \in Int /\ d \in Int
      BY <2>2, <2>6
    <3>2. Total(h, T \cup {x}) = (a + b) + (c + d)
      BY <2>4, <2>5, <2>6
    <3>3. Total(f, T \cup {x}) = a + c /\ Total(g, T \cup {x}) = b + d
      BY <2>3
    <3> HIDE DEF a, b, c, d
    <3> QED
      BY <3>1, <3>2, <3>3
  <2> QED
    BY <2>7
<1>3. S \in P
  <2> HIDE DEF P
  <2> QED BY <1>1, <1>2, AddingElements
<1> QED
  BY <1>3

(* ... and a sum of naturals is at least what a part of it is. *)
LEMMA TotalPart ==
  ASSUME NEW f, NEW S, IsFiniteSet(S), NEW R \in SUBSET S, \A x \in S : f[x] \in Nat
  PROVE  Total(f, R) <= Total(f, S)
<1>1. IsFiniteSet(R) /\ IsFiniteSet(S \ R) /\ R \cap (S \ R) = {} /\ R \cup (S \ R) = S
  BY FS_Subset
<1>2. Total(f, R \cup (S \ R)) = Total(f, R) + Total(f, S \ R)
  BY <1>1, TotalUnion
<1>3. Total(f, R \cup (S \ R)) = Total(f, S)
  BY <1>1, Zenon
<1>4. Total(f, R) \in Nat /\ Total(f, S \ R) \in Nat
  BY <1>1, TotalNat
<1> QED
  BY <1>2, <1>3, <1>4

LEMMA TotalElement ==
  ASSUME NEW f, NEW S, IsFiniteSet(S), NEW x \in S, \A y \in S : f[y] \in Nat
  PROVE  f[x] <= Total(f, S)
<1>1. Total(f, S) = f[x] + Total(f, S \ {x})
  BY TotalRemove
<1>2. IsFiniteSet(S \ {x})
  BY FS_RemoveElement
<1>3. Total(f, S \ {x}) \in Nat
  BY <1>2, TotalNat
<1> QED
  BY <1>1, <1>3

LEMMA TotalZero ==
  ASSUME NEW f, NEW S, IsFiniteSet(S), \A x \in S : f[x] = 0
  PROVE  Total(f, S) = 0
<1> DEFINE P == {T \in SUBSET S : Total(f, T) = 0}
<1>1. {} \in P
  BY TotalEmpty
<1>2. ASSUME NEW T \in SUBSET S, NEW x \in S \ T, T \in P
      PROVE  T \cup {x} \in P
  <2>1. Total(f, T \cup {x}) = Total(f, T) + f[x]
    BY FS_Subset, TotalAdd
  <2> QED
    BY <1>2, <2>1
<1>3. S \in P
  <2> HIDE DEF P
  <2> QED BY <1>1, <1>2, AddingElements
<1> QED
  BY <1>3

(* Elements of no value may be left out. *)
LEMMA TotalWithout ==
  ASSUME NEW f, NEW S, IsFiniteSet(S), NEW R \in SUBSET S,
         \A x \in S : f[x] \in Nat, \A x \in S \ R : f[x] = 0
  PROVE  Total(f, R) = Total(f, S)
<1>1. IsFiniteSet(R) /\ IsFiniteSet(S \ R) /\ R \cap (S \ R) = {} /\ R \cup (S \ R) = S
  BY FS_Subset
<1>2. Total(f, R \cup (S \ R)) = Total(f, R) + Total(f, S \ R)
  BY <1>1, TotalUnion
<1>3. Total(f, R \cup (S \ R)) = Total(f, S)
  BY <1>1, Zenon
<1>4. Total(f, R) \in Nat /\ Total(f, S \ R) = 0
  BY <1>1, TotalNat, TotalZero
<1> QED
  BY <1>2, <1>3, <1>4

-----------------------------------------------------------------------------
(***************************************************************************)
(* StockLedger.                                                            *)
(***************************************************************************)
(* What a set of movements adds up to. *)
Quantities(ms) == IsFiniteSet(ms) /\ \A m \in ms : m.qty \in Int

LEMMA DeltaIsTotal ==
  ASSUME NEW ms
  PROVE  Delta(ms) = Total([m \in ms |-> m.qty], ms)
BY DEF Delta, Total, SumFunction

LEMMA DeltaEmpty == Delta({}) = 0
BY DeltaIsTotal, TotalEmpty

LEMMA DeltaType ==
  ASSUME NEW ms, Quantities(ms)
  PROVE  Delta(ms) \in Int
BY DeltaIsTotal, TotalType DEF Quantities

LEMMA DeltaUnion ==
  ASSUME NEW ms, NEW ns, Quantities(ms), Quantities(ns), ms \cap ns = {}
  PROVE  Delta(ms \cup ns) = Delta(ms) + Delta(ns)
<1> DEFINE f == [m \in ms \cup ns |-> m.qty]
           g == [m \in ms |-> m.qty]
           h == [m \in ns |-> m.qty]
<1>1. /\ \A m \in ms \cup ns : f[m] \in Int
      /\ \A m \in ms : g[m] = f[m]
      /\ \A m \in ns : h[m] = f[m]
  BY DEF Quantities
<1>2. Delta(ms \cup ns) = Total(f, ms \cup ns) /\ Delta(ms) = Total(g, ms) /\ Delta(ns) = Total(h, ns)
  BY DeltaIsTotal
<1> HIDE DEF f, g, h
<1>3. Total(f, ms \cup ns) = Total(f, ms) + Total(f, ns)
  BY <1>1, TotalUnion DEF Quantities
<1>4. Total(g, ms) = Total(f, ms) /\ Total(h, ns) = Total(f, ns)
  BY <1>1, TotalEqual DEF Quantities
<1> QED
  BY <1>2, <1>3, <1>4

LEMMA DeltaAdd ==
  ASSUME NEW ms, NEW m, Quantities(ms), m \notin ms, m.qty \in Int
  PROVE  Delta(ms \cup {m}) = Delta(ms) + m.qty
<1>1. Quantities({m})
  BY FS_Singleton DEF Quantities
<1>2. Delta(ms \cup {m}) = Delta(ms) + Delta({m})
  <2>1. ms \cap {m} = {}
    OBVIOUS
  <2> QED
    BY <1>1, <2>1, DeltaUnion
<1>3. Delta({m}) = m.qty
  <2>1. Delta({} \cup {m}) = Total([o \in {m} |-> o.qty], {m})
    BY DeltaIsTotal
  <2> DEFINE f == [o \in {m} |-> o.qty]
  <2>2. f[m] = m.qty /\ \A o \in {m} : f[o] \in Int
    OBVIOUS
  <2> HIDE DEF f
  <2>3. Total(f, {m}) = f[m] + Total(f, {m} \ {m})
    <3>1. IsFiniteSet({m}) /\ m \in {m}
      BY FS_Singleton
    <3> QED
      BY <2>2, <3>1, TotalRemove
  <2>4. {m} \ {m} = {}
    OBVIOUS
  <2>5. Total(f, {m} \ {m}) = 0
    BY <2>4, TotalEmpty
  <2> QED
    BY <2>1, <2>2, <2>3, <2>5 DEF f
<1> QED
  BY <1>2, <1>3

(***************************************************************************)
(* Movements and what they leave.                                          *)
(***************************************************************************)
On(ms, s) == {m \in ms : m.slot = s}
Till(ms, s, n) == {m \in ms : m.slot = s /\ m.id <= n}
InLot(ms, l) == {m \in ms : m.slot \in Prepared /\ m.lot = l}

(* The balance and the lots that the writes ms leave over b and q. *)
Latest(ms, b) == IF ms = {} THEN b ELSE (CHOOSE m \in ms : \A o \in ms : o.id <= m.id).after
Sees(ms, b, s) == Latest(On(ms, s), b[s])
LotSees(ms, q, l) == q[l] + Delta(InLot(ms, l))
LotSum(ms, q, s) == Total([l \in Lots |-> LotSees(ms, q, l)], LotsOf(s))

(* A finite set of movements, each in a lot of its product if that is prepared. *)
Written(ms) ==
  /\ ms \in SUBSET Movement /\ IsFiniteSet(ms)
  /\ \A m \in ms : m.slot \in Prepared => m.lot \in LotsOf(m.slot)

(* What the writes leave is the sum of them, and the lots add up to it. *)
Agrees(ms, b, q) ==
  /\ \A s \in Slots : Sees(ms, b, s) \in Nat /\ Sees(ms, b, s) = b[s] + Delta(On(ms, s))
  /\ \A l \in Lots : LotSees(ms, q, l) \in Nat
  /\ \A s \in Prepared : LotSum(ms, q, s) = Sees(ms, b, s)

Chained(ms, b) == \A m \in ms : m.after = b[m.slot] + Delta(Till(ms, m.slot, m.id))

LEMMA Subsets ==
  ASSUME NEW ms \in SUBSET Movement, IsFiniteSet(ms), NEW ns \in SUBSET ms
  PROVE  Quantities(ns) /\ Delta(ns) \in Int
<1>1. Quantities(ns)
  BY FS_Subset DEF Quantities, Movement
<1> QED
  BY <1>1, DeltaType

LEMMA LotsFinite ==
  ASSUME NEW s \in Prepared
  PROVE  IsFiniteSet(LotsOf(s)) /\ LotsOf(s) \subseteq Lots
BY LedgerAssumption, FS_Subset DEF LotsOf

LEMMA NothingWritten ==
  ASSUME NEW b \in [Slots -> Nat], NEW q \in [Lots -> Nat],
         \A s \in Prepared : b[s] = Total(q, LotsOf(s))
  PROVE  Agrees({}, b, q)
<1>1. ASSUME NEW s \in Slots PROVE On({}, s) = {} /\ Sees({}, b, s) = b[s]
  BY DEF On, Sees, Latest
<1>2. ASSUME NEW s \in Slots PROVE Sees({}, b, s) \in Nat /\ Sees({}, b, s) = b[s] + Delta(On({}, s))
  BY <1>1, DeltaEmpty
<1>3. ASSUME NEW l \in Lots PROVE LotSees({}, q, l) = q[l] /\ LotSees({}, q, l) \in Nat
  <2>1. InLot({}, l) = {}
    BY DEF InLot
  <2>2. Delta(InLot({}, l)) = 0
    BY <2>1, DeltaEmpty
  <2> QED
    BY <2>2 DEF LotSees
<1>4. ASSUME NEW s \in Prepared PROVE LotSum({}, q, s) = Sees({}, b, s)
  <2> DEFINE f == [l \in Lots |-> LotSees({}, q, l)]
  <2>1. \A l \in LotsOf(s) : f[l] = q[l]
    BY <1>3, LotsFinite
  <2>2. LotSum({}, q, s) = Total(f, LotsOf(s))
    BY DEF LotSum
  <2> HIDE DEF f
  <2>3. Total(f, LotsOf(s)) = Total(q, LotsOf(s))
    BY <2>1, LotsFinite, TotalEqual
  <2>4. s \in Slots
    BY LedgerAssumption
  <2> QED
    BY <2>2, <2>3, <2>4, <1>1
<1> QED
  BY <1>2, <1>3, <1>4 DEF Agrees

(* One more movement, later than the others, over what they leave. *)
LEMMA OneMoreAggregate ==
  ASSUME NEW b \in [Slots -> Nat], NEW ms \in SUBSET Movement, IsFiniteSet(ms),
         NEW m \in Movement, NEW ns, ns = ms \cup {m}, \A o \in ms : o.id < m.id,
         NEW s \in Slots,
         Sees(ms, b, s) \in Nat, Sees(ms, b, s) = b[s] + Delta(On(ms, s)),
         m.after = Sees(ms, b, m.slot) + m.qty
  PROVE  /\ m.slot = s => Sees(ns, b, s) = Sees(ms, b, s) + m.qty
         /\ m.slot # s => Sees(ns, b, s) = Sees(ms, b, s)
         /\ Sees(ns, b, s) \in Nat
         /\ Sees(ns, b, s) = b[s] + Delta(On(ns, s))
<1>0. m.id \in Nat /\ m.qty \in Int /\ m.after \in Nat /\ \A o \in ms : o.id \in Nat
  BY DEF Movement
<1>1. CASE m.slot # s
  <2>1. On(ns, s) = On(ms, s)
    BY <1>1 DEF On
  <2>2. Delta(On(ns, s)) = Delta(On(ms, s)) /\ Sees(ns, b, s) = Sees(ms, b, s)
    BY <2>1, Zenon DEF Sees
  <2> QED
    BY <1>1, <2>2
<1>2. CASE m.slot = s
  <2>1. On(ns, s) = On(ms, s) \cup {m} /\ m \notin On(ms, s)
    BY <1>0, <1>2 DEF On
  <2>2. Quantities(On(ms, s)) /\ Delta(On(ms, s)) \in Int
    <3>1. On(ms, s) \in SUBSET ms
      BY DEF On
    <3> QED
      BY <3>1, Subsets
  <2>3. Delta(On(ms, s) \cup {m}) = Delta(On(ms, s)) + m.qty
    BY <1>0, <2>1, <2>2, DeltaAdd
  <2>4. Delta(On(ns, s)) = Delta(On(ms, s)) + m.qty
    BY <2>1, <2>3
  <2>5. Sees(ns, b, s) = m.after
    <3> DEFINE T == On(ns, s)
    <3>1. m \in T /\ \A o \in T : o.id <= m.id /\ (o # m => ~(m.id <= o.id))
      BY <1>0, <1>2 DEF On
    <3>2. Sees(ns, b, s) = Latest(T, b[s])
      BY DEF Sees
    <3> HIDE DEF T
    <3>3. (CHOOSE x \in T : \A o \in T : o.id <= x.id) = m
      BY <3>1
    <3>4. Latest(T, b[s]) = m.after
      BY <3>1, <3>3 DEF Latest
    <3> QED
      BY <3>2, <3>4
  <2> QED
    BY <1>0, <1>2, <2>2, <2>4, <2>5
<1> QED
  BY <1>1, <1>2

LEMMA OneMoreLot ==
  ASSUME NEW q \in [Lots -> Nat], NEW ms, Written(ms), NEW m \in Movement, NEW ns, ns = ms \cup {m},
         \A o \in ms : o.id < m.id, NEW l \in Lots
  PROVE  /\ LotSees(ms, q, l) \in Int
         /\ m.slot \in Prepared /\ m.lot = l => LotSees(ns, q, l) = LotSees(ms, q, l) + m.qty
         /\ ~(m.slot \in Prepared /\ m.lot = l) => LotSees(ns, q, l) = LotSees(ms, q, l)
<1>0. m.id \in Nat /\ m.qty \in Int /\ q[l] \in Nat /\ \A o \in ms : o.id \in Nat
  BY DEF Movement, Written
<1>2. Quantities(InLot(ms, l)) /\ Delta(InLot(ms, l)) \in Int
  <2>1. InLot(ms, l) \in SUBSET ms
    BY DEF InLot
  <2> QED
    BY <2>1, Subsets DEF Written
<1>3. CASE ~(m.slot \in Prepared /\ m.lot = l)
  <2>1. InLot(ns, l) = InLot(ms, l)
    BY <1>3 DEF InLot
  <2>2. Delta(InLot(ns, l)) = Delta(InLot(ms, l))
    BY <2>1, Zenon
  <2> QED
    BY <1>0, <1>2, <1>3, <2>2 DEF LotSees
<1>4. CASE m.slot \in Prepared /\ m.lot = l
  <2>1. InLot(ns, l) = InLot(ms, l) \cup {m} /\ m \notin InLot(ms, l)
    BY <1>0, <1>4 DEF InLot
  <2>2. Delta(InLot(ms, l) \cup {m}) = Delta(InLot(ms, l)) + m.qty
    BY <1>0, <1>2, <2>1, DeltaAdd
  <2>3. Delta(InLot(ns, l)) = Delta(InLot(ms, l)) + m.qty
    BY <2>1, <2>2
  <2> QED
    BY <1>0, <1>2, <1>4, <2>3 DEF LotSees
<1> QED
  BY <1>3, <1>4

LEMMA OneMore ==
  ASSUME NEW b \in [Slots -> Nat], NEW q \in [Lots -> Nat], NEW ms, Written(ms),
         NEW m \in Movement, NEW ns, ns = ms \cup {m}, \A o \in ms : o.id < m.id,
         Agrees(ms, b, q), m.after = Sees(ms, b, m.slot) + m.qty,
         m.slot \in Prepared => m.lot \in LotsOf(m.slot) /\ LotSees(ms, q, m.lot) + m.qty >= 0
  PROVE  Agrees(ns, b, q) /\ Written(ns)
<1>0. m.qty \in Int /\ m.slot \in Slots /\ ms \in SUBSET Movement /\ IsFiniteSet(ms)
  BY DEF Movement, Written
<1>1. ASSUME NEW s \in Slots
      PROVE  /\ m.slot = s => Sees(ns, b, s) = Sees(ms, b, s) + m.qty
             /\ m.slot # s => Sees(ns, b, s) = Sees(ms, b, s)
             /\ Sees(ns, b, s) \in Nat
             /\ Sees(ns, b, s) = b[s] + Delta(On(ns, s))
  <2>1. Sees(ms, b, s) \in Nat /\ Sees(ms, b, s) = b[s] + Delta(On(ms, s))
    BY DEF Agrees
  <2> QED
    BY <1>0, <2>1, OneMoreAggregate
<1>2. ASSUME NEW l \in Lots
      PROVE  /\ LotSees(ms, q, l) \in Int
             /\ m.slot \in Prepared /\ m.lot = l => LotSees(ns, q, l) = LotSees(ms, q, l) + m.qty
             /\ ~(m.slot \in Prepared /\ m.lot = l) => LotSees(ns, q, l) = LotSees(ms, q, l)
  BY OneMoreLot
<1>3. ASSUME NEW l \in Lots PROVE LotSees(ns, q, l) \in Nat
  <2>1. LotSees(ms, q, l) \in Nat
    BY DEF Agrees
  <2> QED
    BY <1>0, <1>2, <2>1
<1>4. ASSUME NEW s \in Prepared PROVE LotSum(ns, q, s) = Sees(ns, b, s)
  <2> DEFINE f == [l \in Lots |-> LotSees(ms, q, l)]
             g == [l \in Lots |-> LotSees(ns, q, l)]
  <2>0. s \in Slots /\ IsFiniteSet(LotsOf(s)) /\ LotsOf(s) \subseteq Lots
    BY LedgerAssumption, LotsFinite
  <2>1. LotSum(ms, q, s) = Total(f, LotsOf(s)) /\ LotSum(ns, q, s) = Total(g, LotsOf(s))
    BY DEF LotSum
  <2>2. \A l \in LotsOf(s) :
          /\ f[l] \in Int
          /\ m.slot \in Prepared /\ m.lot = l => g[l] = f[l] + m.qty
          /\ ~(m.slot \in Prepared /\ m.lot = l) => g[l] = f[l]
    BY <1>2, <2>0
  <2>3. LotSum(ms, q, s) = Sees(ms, b, s) /\ Sees(ms, b, s) \in Nat
    BY <2>0 DEF Agrees
  <2> HIDE DEF f, g
  <2>4. CASE m.slot = s
    <3>1. m.lot \in LotsOf(s) /\ g[m.lot] = f[m.lot] + m.qty
      BY <2>2, <2>4
    <3>2. \A l \in LotsOf(s) \ {m.lot} : g[l] = f[l]
      BY <2>2
    <3>3. Total(g, LotsOf(s)) = Total(f, LotsOf(s)) + m.qty
      BY <1>0, <2>0, <2>2, <3>1, <3>2, TotalBump
    <3>4. Sees(ns, b, s) = Sees(ms, b, s) + m.qty
      BY <1>1, <2>0, <2>4
    <3> QED
      BY <2>1, <2>3, <3>3, <3>4
  <2>5. CASE m.slot # s
    <3>1. \A l \in LotsOf(s) : f[l] = g[l]
      BY <2>2, <2>5 DEF LotsOf
    <3>2. Total(g, LotsOf(s)) = Total(f, LotsOf(s))
      BY <2>0, <3>1, TotalEqual
    <3>3. Sees(ns, b, s) = Sees(ms, b, s)
      BY <1>1, <2>0, <2>3, <2>5
    <3> QED
      BY <2>1, <2>3, <3>2, <3>3
  <2> QED
    BY <2>4, <2>5
<1>5. Written(ns)
  <2>1. IsFiniteSet(ns)
    BY <1>0, FS_AddElement
  <2> QED
    BY <2>1 DEF Written
<1> QED
  BY <1>1, <1>3, <1>4, <1>5 DEF Agrees

LEMMA NothingOn ==
  ASSUME NEW ms, NEW b \in [Slots -> Nat], NEW s \in Slots, On(ms, s) = {}
  PROVE  Sees(ms, b, s) = b[s] /\ Delta(On(ms, s)) = 0
<1>1. Latest({}, b[s]) = b[s]
  BY DEF Latest
<1> QED
  BY <1>1, DeltaEmpty DEF Sees

LEMMA NothingInLot ==
  ASSUME NEW ms, Written(ms), NEW q \in [Lots -> Nat], NEW l \in Lots, On(ms, SlotOf[l]) = {}
  PROVE  LotSees(ms, q, l) = q[l]
<1>1. InLot(ms, l) = {}
  BY DEF Written, InLot, On, LotsOf
<1>2. Delta(InLot(ms, l)) = 0
  BY <1>1, DeltaEmpty
<1> QED
  BY <1>2 DEF LotSees

LEMMA ChainMore ==
  ASSUME NEW b \in [Slots -> Nat], NEW ms, Written(ms),
         NEW m \in Movement, NEW ns, ns = ms \cup {m}, \A o \in ms : o.id < m.id,
         Chained(ms, b), m.after = b[m.slot] + Delta(On(ms, m.slot)) + m.qty
  PROVE  Chained(ns, b)
<1>0. m.id \in Nat /\ m.qty \in Int /\ m.slot \in Slots /\ \A o \in ms : o.id \in Nat
  BY DEF Movement, Written
<1>1. ASSUME NEW o \in ms PROVE o.after = b[o.slot] + Delta(Till(ns, o.slot, o.id))
  <2>1. Till(ns, o.slot, o.id) = Till(ms, o.slot, o.id)
    BY <1>0 DEF Till
  <2>2. Delta(Till(ns, o.slot, o.id)) = Delta(Till(ms, o.slot, o.id))
    BY <2>1, Zenon
  <2> QED
    BY <2>2 DEF Chained
<1>2. m.after = b[m.slot] + Delta(Till(ns, m.slot, m.id))
  <2>1. Till(ns, m.slot, m.id) = On(ms, m.slot) \cup {m} /\ m \notin On(ms, m.slot)
    BY <1>0 DEF Till, On
  <2>2. Quantities(On(ms, m.slot)) /\ Delta(On(ms, m.slot)) \in Int
    <3>1. On(ms, m.slot) \in SUBSET ms
      BY DEF On
    <3> QED
      BY <3>1, Subsets DEF Written
  <2>3. Delta(On(ms, m.slot) \cup {m}) = Delta(On(ms, m.slot)) + m.qty
    BY <1>0, <2>1, <2>2, DeltaAdd
  <2>4. Delta(Till(ns, m.slot, m.id)) = Delta(On(ms, m.slot)) + m.qty
    BY <2>1, <2>3
  <2>5. b[m.slot] \in Nat
    BY <1>0
  <2> QED
    BY <1>0, <2>2, <2>4, <2>5
<1> QED
  BY <1>1, <1>2 DEF Chained

(* The register, with the writes ms of a transaction that commits. *)
Conserved(led, b) == \A s \in Slots : b[s] = Opening[s] + Delta(On(led, s))
RightAlong(led) == \A m \in led : m.after = Opening[m.slot] + Delta(Till(led, m.slot, m.id))
After(led, ms) == \A m \in ms : \A o \in led : o.slot = m.slot => o.id < m.id
LeftBy(ms, b) == [s \in Slots |-> Sees(ms, b, s)]
LotsLeftBy(ms, q) == [l \in Lots |-> LotSees(ms, q, l)]

LEMMA RegisterMore ==
  ASSUME NEW b \in [Slots -> Nat], NEW q, NEW led \in SUBSET Movement, IsFiniteSet(led),
         NEW ms, Written(ms), NEW ns, ns = led \cup ms,
         Agrees(ms, b, q), Chained(ms, b), After(led, ms), Conserved(led, b), RightAlong(led)
  PROVE  Conserved(ns, LeftBy(ms, b)) /\ RightAlong(ns)
<1>0. \A m \in led \cup ms : m.id \in Nat /\ m.slot \in Slots
  BY DEF Written, Movement
<1>1. ASSUME NEW R \in SUBSET ms, NEW s \in Slots, R \subseteq On(ms, s)
      PROVE  /\ Delta(On(led, s) \cup R) = Delta(On(led, s)) + Delta(R)
             /\ Delta(On(led, s)) \in Int /\ Delta(R) \in Int
  <2>1. On(led, s) \in SUBSET led
    BY DEF On
  <2>2. Quantities(On(led, s)) /\ Delta(On(led, s)) \in Int /\ Quantities(R) /\ Delta(R) \in Int
    BY <2>1, Subsets DEF Written
  <2>3. On(led, s) \cap R = {}
    BY <1>0, <1>1 DEF On, After
  <2> QED
    BY <2>2, <2>3, DeltaUnion
<1>2. ASSUME NEW s \in Slots PROVE LeftBy(ms, b)[s] = Opening[s] + Delta(On(ns, s))
  <2>1. On(ns, s) = On(led, s) \cup On(ms, s) /\ On(ms, s) \in SUBSET ms
    BY DEF On
  <2>2. /\ Delta(On(led, s) \cup On(ms, s)) = Delta(On(led, s)) + Delta(On(ms, s))
        /\ Delta(On(led, s)) \in Int /\ Delta(On(ms, s)) \in Int
    BY <1>1, <2>1
  <2>3. Delta(On(ns, s)) = Delta(On(led, s)) + Delta(On(ms, s))
    BY <2>1, <2>2
  <2>4. LeftBy(ms, b)[s] = b[s] + Delta(On(ms, s))
    BY DEF LeftBy, Agrees
  <2>5. b[s] = Opening[s] + Delta(On(led, s)) /\ Opening[s] \in Nat
    BY LedgerAssumption DEF Conserved
  <2> QED
    BY <2>2, <2>3, <2>4, <2>5
<1>3. ASSUME NEW m \in ms PROVE m.after = Opening[m.slot] + Delta(Till(ns, m.slot, m.id))
  <2> DEFINE R == Till(ms, m.slot, m.id)
  <2>0. m.slot \in Slots
    BY <1>0
  <2>1. Till(ns, m.slot, m.id) = On(led, m.slot) \cup R /\ R \in SUBSET ms /\ R \subseteq On(ms, m.slot)
    BY <1>0 DEF Till, On, After
  <2>2. m.after = b[m.slot] + Delta(R)
    BY DEF Chained
  <2> HIDE DEF R
  <2>3. /\ Delta(On(led, m.slot) \cup R) = Delta(On(led, m.slot)) + Delta(R)
        /\ Delta(On(led, m.slot)) \in Int /\ Delta(R) \in Int
    BY <1>1, <2>0, <2>1
  <2>4. Delta(Till(ns, m.slot, m.id)) = Delta(On(led, m.slot)) + Delta(R)
    BY <2>1, <2>3
  <2>5. b[m.slot] = Opening[m.slot] + Delta(On(led, m.slot)) /\ Opening[m.slot] \in Nat
    BY <2>0, LedgerAssumption DEF Conserved
  <2> QED
    BY <2>2, <2>3, <2>4, <2>5
<1>4. ASSUME NEW m \in led PROVE m.after = Opening[m.slot] + Delta(Till(ns, m.slot, m.id))
  <2>1. Till(ns, m.slot, m.id) = Till(led, m.slot, m.id)
    BY <1>0 DEF Till, After
  <2>2. Delta(Till(ns, m.slot, m.id)) = Delta(Till(led, m.slot, m.id))
    BY <2>1, Zenon
  <2> QED
    BY <2>2 DEF RightAlong
<1> QED
  BY <1>2, <1>3, <1>4 DEF Conserved, RightAlong

LEMMA LeftTypes ==
  ASSUME NEW ms, NEW b, NEW q, Agrees(ms, b, q)
  PROVE  /\ LeftBy(ms, b) \in [Slots -> Nat] /\ LotsLeftBy(ms, q) \in [Lots -> Nat]
         /\ \A s \in Prepared : LeftBy(ms, b)[s] = Total(LotsLeftBy(ms, q), LotsOf(s))
<1>1. ASSUME NEW s \in Prepared PROVE LeftBy(ms, b)[s] = Total(LotsLeftBy(ms, q), LotsOf(s))
  <2>1. s \in Slots
    BY LedgerAssumption
  <2>2. LotSum(ms, q, s) = Total(LotsLeftBy(ms, q), LotsOf(s))
    BY DEF LotSum, LotsLeftBy
  <2> QED
    BY <2>1, <2>2 DEF Agrees, LeftBy
<1> QED
  BY <1>1 DEF Agrees, LeftBy, LotsLeftBy

(* Another transaction, of other slots, after that commit. *)
LEMMA OtherCommits ==
  ASSUME NEW b \in [Slots -> Nat], NEW q \in [Lots -> Nat],
         NEW ms, Written(ms), Agrees(ms, b, q),
         NEW ns, Written(ns), Agrees(ns, b, q), Chained(ns, b),
         \A m \in ms : \A n \in ns : m.slot # n.slot,
         NEW b2, b2 = LeftBy(ms, b), NEW q2, q2 = LotsLeftBy(ms, q)
  PROVE  Agrees(ns, b2, q2) /\ Chained(ns, b2)
<1>0. b2 \in [Slots -> Nat] /\ q2 \in [Lots -> Nat]
  BY LeftTypes
<1>1. \A s \in Slots : On(ms, s) = {} \/ On(ns, s) = {}
  BY DEF On
<1>2. ASSUME NEW s \in Slots PROVE On(ms, s) = {} => b2[s] = b[s]
  BY NothingOn DEF LeftBy
<1>3. ASSUME NEW s \in Slots
      PROVE  /\ On(ns, s) # {} => Sees(ns, b2, s) = Sees(ns, b, s)
             /\ On(ns, s) = {} => Sees(ns, b2, s) = Sees(ms, b, s)
             /\ Sees(ns, b2, s) \in Nat /\ Sees(ns, b2, s) = b2[s] + Delta(On(ns, s))
  <2>1. CASE On(ns, s) # {}
    <3>1. b2[s] = b[s]
      BY <1>1, <1>2, <2>1
    <3> QED
      BY <2>1, <3>1 DEF Sees, Agrees
  <2>2. CASE On(ns, s) = {}
    <3>1. Sees(ns, b2, s) = b2[s] /\ Delta(On(ns, s)) = 0
      BY <1>0, <2>2, NothingOn
    <3>2. b2[s] = Sees(ms, b, s) /\ b2[s] \in Nat
      BY <1>0 DEF LeftBy
    <3> QED
      BY <2>2, <3>1, <3>2
  <2> QED
    BY <2>1, <2>2
<1>4. ASSUME NEW l \in Lots
      PROVE  /\ On(ns, SlotOf[l]) # {} => LotSees(ns, q2, l) = LotSees(ns, q, l)
             /\ On(ns, SlotOf[l]) = {} => LotSees(ns, q2, l) = LotSees(ms, q, l)
             /\ LotSees(ns, q2, l) \in Nat
  <2>0. SlotOf[l] \in Slots
    BY LedgerAssumption
  <2>1. q2[l] = LotSees(ms, q, l)
    BY DEF LotsLeftBy
  <2>2. LotSees(ms, q, l) \in Nat /\ LotSees(ns, q, l) \in Nat
    BY DEF Agrees
  <2>3. CASE On(ns, SlotOf[l]) # {}
    <3>1. q2[l] = q[l]
      BY <1>1, <2>0, <2>1, <2>3, NothingInLot
    <3> QED
      BY <2>2, <2>3, <3>1 DEF LotSees
  <2>4. CASE On(ns, SlotOf[l]) = {}
    <3>1. LotSees(ns, q2, l) = q2[l]
      BY <1>0, <2>4, NothingInLot
    <3> QED
      BY <2>1, <2>2, <2>4, <3>1
  <2> QED
    BY <2>3, <2>4
<1>5. ASSUME NEW s \in Prepared PROVE LotSum(ns, q2, s) = Sees(ns, b2, s)
  <2> DEFINE f == [l \in Lots |-> LotSees(ns, q2, l)]
             g == [l \in Lots |-> LotSees(ns, q, l)]
             h == [l \in Lots |-> LotSees(ms, q, l)]
  <2>0. /\ s \in Slots /\ IsFiniteSet(LotsOf(s)) /\ LotsOf(s) \subseteq Lots
        /\ \A l \in LotsOf(s) : SlotOf[l] = s
    BY LedgerAssumption, LotsFinite DEF LotsOf
  <2>1. /\ LotSum(ns, q2, s) = Total(f, LotsOf(s))
        /\ LotSum(ns, q, s) = Total(g, LotsOf(s))
        /\ LotSum(ms, q, s) = Total(h, LotsOf(s))
    BY DEF LotSum
  <2>2. \A l \in LotsOf(s) : /\ On(ns, s) # {} => f[l] = g[l]
                             /\ On(ns, s) = {} => f[l] = h[l]
    BY <1>4, <2>0
  <2> HIDE DEF f, g, h
  <2>3. LotSum(ns, q, s) = Sees(ns, b, s) /\ LotSum(ms, q, s) = Sees(ms, b, s)
    BY DEF Agrees
  <2>4. CASE On(ns, s) # {}
    <3>1. Total(f, LotsOf(s)) = Total(g, LotsOf(s))
      BY <2>0, <2>2, <2>4, TotalEqual
    <3> QED
      BY <1>3, <2>0, <2>1, <2>3, <2>4, <3>1
  <2>5. CASE On(ns, s) = {}
    <3>1. Total(f, LotsOf(s)) = Total(h, LotsOf(s))
      BY <2>0, <2>2, <2>5, TotalEqual
    <3> QED
      BY <1>3, <2>0, <2>1, <2>3, <2>5, <3>1
  <2> QED
    BY <2>4, <2>5
<1>6. Chained(ns, b2)
  <2>1. ASSUME NEW n \in ns PROVE n.slot \in Slots /\ b2[n.slot] = b[n.slot]
    <3>1. n.slot \in Slots /\ n \in On(ns, n.slot)
      BY DEF Written, Movement, On
    <3> QED
      BY <1>1, <1>2, <3>1
  <2> QED
    BY <2>1 DEF Chained
<1> QED
  BY <1>3, <1>4, <1>5, <1>6 DEF Agrees

(***************************************************************************)
(* The scripts: in product order, checks first.                            *)
(***************************************************************************)
Statement == [op : {"check", "number", "move"}, slot : Slots \cup {NumberRow},
              qty : Int, lot : Lots \cup {None}]

LEMMA SlotsAreNat == Slots \subseteq Nat \ {0} /\ NumberRow \notin Slots
BY LedgerAssumption DEF NumberRow

LEMMA NeedAt ==
  ASSUME NEW needs \in Seq(Need), NEW i \in DOMAIN needs
  PROVE  /\ i \in 1..Len(needs) /\ i \in Nat /\ Len(needs) \in Nat
         /\ needs[i] \in Need
         /\ needs[i].slot \in Slots /\ needs[i].slot \in Nat /\ needs[i].qty \in Int
         /\ needs[i].lot \in Lots \cup {None}
<1>1. i \in 1..Len(needs) /\ Len(needs) \in Nat /\ needs[i] \in Need
  OBVIOUS
<1>2. \A need \in Need : /\ need.slot \in Slots /\ need.slot \in Nat
                         /\ need.qty \in Int /\ need.lot \in Lots \cup {None}
  BY SlotsAreNat DEF Need
<1> HIDE DEF Need
<1> QED
  BY <1>1, <1>2

LEMMA OneStatement ==
  ASSUME NEW need \in Need
  PROVE  /\ Check(need) \in Statement /\ Check(need).op = "check" /\ Check(need).slot = need.slot
         /\ Out(need) \in Statement /\ Out(need).op = "move" /\ Out(need).slot = need.slot
         /\ In(need) \in Statement /\ In(need).op = "move" /\ In(need).slot = need.slot
         /\ need.slot \in Slots
         /\ TakeNumber \in Statement /\ TakeNumber.op = "number" /\ TakeNumber.slot = NumberRow
<1>1. need.slot \in Slots /\ need.qty \in Int /\ need.lot \in Lots \cup {None} /\ -need.qty \in Int
  BY DEF Need
<1> QED
  BY <1>1 DEF Check, Out, In, TakeNumber, Statement

LEMMA PlaceType ==
  ASSUME NEW needs \in Seq(Need), NEW i \in DOMAIN needs
  PROVE  UpTo(needs, i) \in SUBSET (1..Len(needs)) /\ IsFiniteSet(UpTo(needs, i))
         /\ i \in UpTo(needs, i) /\ Place(needs, i) \in 1..Len(needs)
<1>1. DOMAIN needs = 1..Len(needs) /\ Len(needs) \in Nat
  OBVIOUS
<1>2. UpTo(needs, i) \in SUBSET (1..Len(needs)) /\ i \in UpTo(needs, i)
  <2>1. needs[i].slot = needs[i].slot /\ i <= i
    BY NeedAt
  <2> QED
    BY <1>1, <2>1 DEF UpTo
<1>3. IsFiniteSet(1..Len(needs)) /\ Cardinality(1..Len(needs)) = Len(needs)
  <2> DEFINE n == Len(needs)
  <2>1. n \in Nat /\ 1 \in Int
    OBVIOUS
  <2> HIDE DEF n
  <2>2. IsFiniteSet(1..n) /\ Cardinality(1..n) = n
    BY <2>1, FS_Interval
  <2> QED
    BY <2>2 DEF n
<1>4. IsFiniteSet(UpTo(needs, i)) /\ Cardinality(UpTo(needs, i)) <= Len(needs)
  BY <1>2, <1>3, FS_Subset
<1>5. Cardinality(UpTo(needs, i)) \in Nat /\ Cardinality(UpTo(needs, i)) # 0
  BY <1>2, <1>4, FS_CardinalityType, FS_EmptySet
<1> QED
  BY <1>1, <1>2, <1>4, <1>5 DEF Place

(* A line that comes before another has a smaller place. *)
LEMMA PlaceGrows ==
  ASSUME NEW needs \in Seq(Need), NEW i \in DOMAIN needs, NEW j \in DOMAIN needs,
         needs[i].slot < needs[j].slot \/ (needs[i].slot = needs[j].slot /\ i < j)
  PROVE  Place(needs, i) < Place(needs, j)
<1>1. i \in Nat /\ j \in Nat /\ needs[i].slot \in Nat /\ needs[j].slot \in Nat
      /\ \A k \in DOMAIN needs : needs[k].slot \in Nat /\ k \in Nat
  BY NeedAt
<1>2. UpTo(needs, i) \in SUBSET UpTo(needs, j) /\ j \notin UpTo(needs, i) /\ j \in UpTo(needs, j)
  BY <1>1 DEF UpTo
<1>3. IsFiniteSet(UpTo(needs, i)) /\ IsFiniteSet(UpTo(needs, j))
  BY PlaceType
<1>4. /\ Cardinality(UpTo(needs, i)) <= Cardinality(UpTo(needs, j))
      /\ Cardinality(UpTo(needs, i)) # Cardinality(UpTo(needs, j))
  BY <1>2, <1>3, FS_Subset
<1>5. Cardinality(UpTo(needs, i)) \in Nat /\ Cardinality(UpTo(needs, j)) \in Nat
  BY <1>3, FS_CardinalityType
<1> QED
  BY <1>4, <1>5 DEF Place

LEMMA PlacesFilled ==
  ASSUME NEW needs \in Seq(Need), NEW k \in DOMAIN needs
  PROVE  \E i \in DOMAIN needs : Place(needs, i) = k
<1> DEFINE D == DOMAIN needs
           f == [i \in D |-> Place(needs, i)]
<1>1. D = 1..Len(needs) /\ Len(needs) \in Nat /\ IsFiniteSet(D)
  BY FS_Interval
<1>2. f \in [D -> D]
  BY <1>1, PlaceType
<1>3. ASSUME NEW i \in D, NEW j \in D, f[i] = f[j] PROVE i = j
  <2>1. Place(needs, i) = Place(needs, j) /\ Place(needs, i) \in Nat
    BY <1>1, <1>3, PlaceType
  <2>2. i \in Nat /\ j \in Nat /\ needs[i].slot \in Nat /\ needs[j].slot \in Nat
    BY NeedAt
  <2> SUFFICES ASSUME i # j PROVE FALSE
    OBVIOUS
  <2>3. \/ needs[i].slot < needs[j].slot \/ (needs[i].slot = needs[j].slot /\ i < j)
        \/ needs[j].slot < needs[i].slot \/ (needs[j].slot = needs[i].slot /\ j < i)
    BY <2>2
  <2>4. Place(needs, i) < Place(needs, j) \/ Place(needs, j) < Place(needs, i)
    BY <2>3, PlaceGrows
  <2> QED
    BY <2>1, <2>4
<1>4. f \in Injection(D, D)
  <2> HIDE DEF f, D
  <2> QED
    BY <1>2, <1>3 DEF Injection, IsInjective
<1>5. f \in Surjection(D, D)
  <2> HIDE DEF f, D
  <2> QED
    BY <1>1, <1>4, FS_Injection
<1>6. \E i \in D : f[i] = k
  <2> HIDE DEF f
  <2> QED
    BY <1>5 DEF Surjection
<1> QED
  BY <1>6

LEMMA Sorted ==
  ASSUME NEW needs \in Seq(Need)
  PROVE  /\ InProductOrder(needs) \in Seq(Need)
         /\ \A i \in DOMAIN InProductOrder(needs) : \A j \in 1..i :
              InProductOrder(needs)[j].slot <= InProductOrder(needs)[i].slot
<1> DEFINE at(k) == CHOOSE i \in DOMAIN needs : Place(needs, i) = k
           sorted == InProductOrder(needs)
<1>1. ASSUME NEW k \in DOMAIN needs PROVE at(k) \in DOMAIN needs /\ Place(needs, at(k)) = k
  BY PlacesFilled
<1>2. sorted = [k \in DOMAIN needs |-> needs[at(k)]]
  BY DEF InProductOrder
<1>3. DOMAIN needs = 1..Len(needs) /\ Len(needs) \in Nat
  OBVIOUS
<1> HIDE DEF at, sorted
<1>4. sorted \in Seq(Need) /\ DOMAIN sorted = DOMAIN needs
  <2>1. \A k \in 1..Len(needs) : needs[at(k)] \in Need
    BY <1>1, <1>3
  <2> QED
    BY <1>2, <1>3, <2>1
<1>5. ASSUME NEW i \in DOMAIN needs, NEW j \in 1..i PROVE sorted[j].slot <= sorted[i].slot
  <2>0. j \in DOMAIN needs /\ i \in Nat /\ j \in Nat /\ j <= i
    BY <1>3
  <2>1. sorted[i] = needs[at(i)] /\ sorted[j] = needs[at(j)]
    BY <1>2, <2>0
  <2>2. needs[at(i)].slot \in Nat /\ needs[at(j)].slot \in Nat
    BY <1>1, <2>0, NeedAt
  <2>3. ~ (needs[at(i)].slot < needs[at(j)].slot)
    BY <1>1, <2>0, PlaceGrows
  <2> QED
    BY <2>1, <2>2, <2>3
<1> QED
  BY <1>4, <1>5 DEF sorted

LEMMA MovesOnly ==
  ASSUME NEW needs \in Seq(Need)
  PROVE  /\ Each(needs, Out) \in Seq(Statement) /\ Each(needs, In) \in Seq(Statement)
         /\ Len(Each(needs, Out)) = Len(needs) /\ Len(Each(needs, In)) = Len(needs)
         /\ \A i \in 1..Len(needs) : /\ Each(needs, Out)[i].op = "move" /\ Each(needs, Out)[i].slot \in Slots
                                     /\ Each(needs, In)[i].op = "move" /\ Each(needs, In)[i].slot \in Slots
<1>1. DOMAIN needs = 1..Len(needs) /\ Len(needs) \in Nat /\ \A i \in 1..Len(needs) : needs[i] \in Need
  OBVIOUS
<1>2. \A i \in 1..Len(needs) :
        /\ Out(needs[i]) \in Statement /\ Out(needs[i]).op = "move" /\ Out(needs[i]).slot \in Slots
        /\ In(needs[i]) \in Statement /\ In(needs[i]).op = "move" /\ In(needs[i]).slot \in Slots
  BY <1>1, OneStatement
<1> DEFINE outs == [i \in 1..Len(needs) |-> Out(needs[i])]
           ins == [i \in 1..Len(needs) |-> In(needs[i])]
<1>3. Each(needs, Out) = outs /\ Each(needs, In) = ins
  BY <1>1 DEF Each
<1>4. outs \in Seq(Statement) /\ ins \in Seq(Statement) /\ Len(outs) = Len(needs) /\ Len(ins) = Len(needs)
  BY <1>1, <1>2
<1> QED
  BY <1>2, <1>3, <1>4

LEMMA ChecksOnly ==
  ASSUME NEW needs \in Seq(Need)
  PROVE  /\ Each(needs, Check) \in Seq(Statement) /\ Len(Each(needs, Check)) = Len(needs)
         /\ \A i \in 1..Len(needs) : /\ Each(needs, Check)[i].op = "check"
                                     /\ Each(needs, Check)[i].slot = needs[i].slot
                                     /\ needs[i].slot \in Slots
<1>1. DOMAIN needs = 1..Len(needs) /\ Len(needs) \in Nat /\ \A i \in 1..Len(needs) : needs[i] \in Need
  OBVIOUS
<1>2. \A i \in 1..Len(needs) :
        /\ Check(needs[i]) \in Statement /\ Check(needs[i]).op = "check"
        /\ Check(needs[i]).slot = needs[i].slot /\ needs[i].slot \in Slots
  BY <1>1, OneStatement
<1> DEFINE cs == [i \in 1..Len(needs) |-> Check(needs[i])]
<1>3. Each(needs, Check) = cs
  BY <1>1 DEF Each
<1>4. cs \in Seq(Statement) /\ Len(cs) = Len(needs)
  BY <1>1, <1>2
<1> QED
  BY <1>2, <1>3, <1>4

(* A script checks in product order before anything else, and only moves *)
(* once it has a number.                                                 *)
WellOrdered(script) ==
  /\ script \in Seq(Statement)
  /\ \A i \in 1..Len(script) :
       /\ script[i].op = "number" <=> script[i].slot = NumberRow
       /\ script[i].op = "check" =>
            \A j \in 1..i : script[j].op = "check" /\ script[j].slot <= script[i].slot
       /\ script[i].op = "number" => \A j \in (i + 1)..Len(script) : script[j].op = "move"

LEMMA CheckFirst ==
  ASSUME NEW needs \in Seq(Need),
         \A i \in DOMAIN needs : \A j \in 1..i : needs[j].slot <= needs[i].slot,
         NEW rest \in Seq(Statement),
         \A i \in 1..Len(rest) :
           /\ rest[i].op = "number" <=> rest[i].slot = NumberRow
           /\ rest[i].op # "check"
           /\ rest[i].op = "number" => \A j \in (i + 1)..Len(rest) : rest[j].op = "move"
  PROVE  WellOrdered(Each(needs, Check) \o rest)
<1> DEFINE cs == Each(needs, Check)
           n == Len(needs)
           script == cs \o rest
<1>1. n \in Nat /\ DOMAIN needs = 1..n
  OBVIOUS
<1>2. cs \in Seq(Statement) /\ Len(cs) = n
      /\ \A i \in 1..n : cs[i].op = "check" /\ cs[i].slot = needs[i].slot /\ needs[i].slot \in Slots
  BY ChecksOnly
<1> HIDE DEF cs
<1>3. script \in Seq(Statement) /\ Len(script) = n + Len(rest) /\ Len(rest) \in Nat
  <2>1. cs \in Seq(Statement) /\ rest \in Seq(Statement)
    BY <1>2
  <2>2. cs \o rest \in Seq(Statement) /\ Len(cs \o rest) = Len(cs) + Len(rest) /\ Len(rest) \in Nat
    BY <2>1
  <2> QED
    BY <1>2, <2>2
<1>4. ASSUME NEW i \in 1..Len(script)
      PROVE  IF i <= n THEN i \in 1..n /\ script[i] = cs[i]
                       ELSE i - n \in 1..Len(rest) /\ script[i] = rest[i - n]
  BY <1>1, <1>2
<1> HIDE DEF script, n
<1>5. ASSUME NEW i \in 1..Len(script)
      PROVE  /\ script[i].op = "number" <=> script[i].slot = NumberRow
             /\ script[i].op = "check" =>
                  \A j \in 1..i : script[j].op = "check" /\ script[j].slot <= script[i].slot
             /\ script[i].op = "number" => \A j \in (i + 1)..Len(script) : script[j].op = "move"
  <2>0. i \in Nat /\ Len(script) \in Nat
    BY <1>3
  <2>1. CASE i <= n
    <3>1. i \in 1..n /\ script[i].op = "check" /\ script[i].slot = needs[i].slot
          /\ script[i].slot # NumberRow
      BY <1>2, <1>4, <2>1, SlotsAreNat
    <3>2. ASSUME NEW j \in 1..i PROVE script[j].op = "check" /\ script[j].slot <= script[i].slot
      <4>1. j \in 1..Len(script) /\ j <= n /\ j \in 1..n
        BY <1>1, <2>0, <2>1, <3>1
      <4>2. script[j] = cs[j]
        BY <1>4, <4>1
      <4> QED
        BY <1>1, <1>2, <3>1, <4>1, <4>2
    <3> QED
      BY <3>1, <3>2
  <2>2. CASE ~(i <= n)
    <3>1. i - n \in 1..Len(rest) /\ script[i] = rest[i - n]
      BY <1>4, <2>2
    <3>2. ASSUME NEW j \in (i + 1)..Len(script), script[i].op = "number" PROVE script[j].op = "move"
      <4>1. j \in 1..Len(script) /\ ~(j <= n) /\ j - n \in (i - n + 1)..Len(rest)
        BY <1>1, <1>3, <2>0, <2>2
      <4>2. script[j] = rest[j - n]
        BY <1>4, <4>1
      <4> QED
        BY <3>1, <3>2, <4>1, <4>2
    <3> QED
      BY <3>1, <3>2
  <2> QED
    BY <2>1, <2>2
<1>6. WellOrdered(script)
  BY <1>3, <1>5 DEF WellOrdered
<1> QED
  BY <1>6 DEF script, cs

LEMMA ScriptsWellOrdered == \A t \in Txns : WellOrdered(Script[t])
<1> SUFFICES ASSUME NEW t \in Txns PROVE WellOrdered(Script[t])
  OBVIOUS
<1> DEFINE job == JobOf[t]
           needs == InProductOrder(job.needs)
<1>1. job.needs \in Seq(Need) /\ job.yield \in Need
  BY LedgerAssumption DEF Job
<1>2. needs \in Seq(Need) /\ \A i \in DOMAIN needs : \A j \in 1..i : needs[j].slot <= needs[i].slot
  BY <1>1, Sorted
<1> DEFINE outs == Each(needs, Out)
<1>3. outs \in Seq(Statement) /\ \A i \in 1..Len(outs) : outs[i].op = "move" /\ outs[i].slot \in Slots
  <2> HIDE DEF needs
  <2> QED
    BY <1>2, MovesOnly
<1>4. CASE job.kind = "PREPARE"
  <2> DEFINE rest == <<TakeNumber>> \o outs \o <<In(job.yield)>>
  <2>1. /\ In(job.yield) \in Statement /\ In(job.yield).op = "move" /\ In(job.yield).slot \in Slots
        /\ TakeNumber \in Statement /\ TakeNumber.op = "number" /\ TakeNumber.slot = NumberRow
    BY <1>1, OneStatement
  <2>2. Script[t] = Each(needs, Check) \o rest
    <3>1. Script[t] = Each(needs, Check) \o <<TakeNumber>> \o outs \o <<In(job.yield)>>
      BY <1>4 DEF Script, PrepareScript
    <3>2. Each(needs, Check) \in Seq(Statement)
      <4> HIDE DEF needs
      <4> QED
        BY <1>2, ChecksOnly
    <3> DEFINE cs == Each(needs, Check)
    <3> HIDE DEF outs, cs
    <3>3. cs \o <<TakeNumber>> \o outs \o <<In(job.yield)>> =
            cs \o (<<TakeNumber>> \o outs \o <<In(job.yield)>>)
      BY <1>3, <2>1, <3>2 DEF cs
    <3> QED
      BY <3>1, <3>3 DEF cs
  <2>3. rest \in Seq(Statement) /\ Len(rest) = Len(outs) + 2 /\ Len(outs) \in Nat
    BY <1>3, <2>1
  <2>4. ASSUME NEW i \in 1..Len(rest)
        PROVE  /\ i = 1 => rest[i] = TakeNumber
               /\ i # 1 => rest[i].op = "move" /\ rest[i].slot \in Slots
    <3> HIDE DEF outs
    <3>1. CASE i = 1
      BY <1>3, <3>1
    <3>2. CASE i # 1 /\ i - 1 <= Len(outs)
      <4>1. rest[i] = outs[i - 1] /\ i - 1 \in 1..Len(outs)
        BY <1>3, <2>3, <3>2
      <4> QED
        BY <1>3, <3>2, <4>1
    <3>3. CASE i # 1 /\ ~(i - 1 <= Len(outs))
      <4>1. rest[i] = In(job.yield)
        BY <1>3, <2>3, <3>3
      <4> QED
        BY <2>1, <3>3, <4>1
    <3> QED
      BY <3>1, <3>2, <3>3
  <2>5. \A i \in 1..Len(rest) :
           /\ rest[i].op = "number" <=> rest[i].slot = NumberRow
           /\ rest[i].op # "check"
           /\ rest[i].op = "number" => \A j \in (i + 1)..Len(rest) : rest[j].op = "move"
    <3> HIDE DEF rest
    <3> QED
      BY <2>1, <2>3, <2>4, SlotsAreNat
  <2> HIDE DEF rest, needs
  <2> QED
    BY <1>2, <2>2, <2>3, <2>5, CheckFirst
<1>5. CASE job.kind = "START"
  <2>1. Script[t] = Each(needs, Check) \o outs
    BY <1>5 DEF Script, StartScript
  <2>2. \A i \in 1..Len(outs) :
           /\ outs[i].op = "number" <=> outs[i].slot = NumberRow
           /\ outs[i].op # "check"
           /\ outs[i].op = "number" => \A j \in (i + 1)..Len(outs) : outs[j].op = "move"
    BY <1>3, SlotsAreNat
  <2> HIDE DEF outs, needs
  <2> QED
    BY <1>2, <1>3, <2>1, <2>2, CheckFirst
<1>6. CASE job.kind \notin {"PREPARE", "START"}
  <2>1. Script[t] \in {Each(job.needs, Out), Each(job.needs, In)}
    BY <1>6 DEF Script, MoveScript
  <2>2. Script[t] \in Seq(Statement)
        /\ \A i \in 1..Len(Script[t]) : Script[t][i].op = "move" /\ Script[t][i].slot \in Slots
    <3> HIDE DEF job
    <3> QED
      BY <1>1, <2>1, MovesOnly
  <2> QED
    BY <2>2, SlotsAreNat DEF WellOrdered
<1> QED
  BY <1>4, <1>5, <1>6

(***************************************************************************)
(* The inductive invariant.                                                *)
(***************************************************************************)
Pending(t) == txn[t].pending
Moves(t, n) == {i \in 1..n : Script[t][i].op = "move"}

(* Where a transaction is in its script. *)
Placed(t) ==
  /\ txn[t].step <= Len(Script[t]) + 1
  /\ txn[t].pc = "idle" => txn[t].step = 1
  /\ ~Running(t) => Pending(t) = {}

(* What it flushed is under the lock of its row and later than the register *)
(* of that row, carries the balance it left, and adds up with the committed *)
(* rows to what the transaction sees.                                       *)
Evidence(t) ==
  /\ Written(Pending(t)) /\ Agrees(Pending(t), balance, lotQty) /\ Chained(Pending(t), balance)
  /\ After(ledger, Pending(t))
  /\ \A m \in Pending(t) : m.txn = t /\ lock[m.slot] = t /\ m.id < nextId

(* How many movements a transaction has flushed, and how many it left. *)
Counted(t) ==
  /\ Running(t) => Cardinality(Pending(t)) = Cardinality(Moves(t, txn[t].step - 1))
  /\ txn[t].pc = "committed" =>
       Cardinality({m \in ledger : m.txn = t}) = Cardinality(Moves(t, Len(Script[t])))

(* A lock is of a running transaction that passed a statement of that row. *)
Held(r) ==
  lock[r] # None =>
    /\ Running(lock[r])
    /\ \E i \in 1..(txn[lock[r]].step - 1) : Script[lock[r]][i].slot = r

Registered ==
  /\ IsFiniteSet(ledger)
  /\ \A m \in ledger : m.id < nextId /\ txn[m.txn].pc = "committed"
  /\ Conserved(ledger, balance) /\ RightAlong(ledger)
  /\ \A s \in Prepared : balance[s] = Total(lotQty, LotsOf(s))

IInv ==
  /\ TypeOK
  /\ \A t \in Txns : Placed(t) /\ Evidence(t) /\ Counted(t)
  /\ \A r \in Slots \cup {NumberRow} : Held(r)
  /\ Registered
  /\ NeverDiverges

LEMMA ViewIs ==
  ASSUME NEW t \in Txns
  PROVE  /\ \A s \in Slots : View(t, s) = Sees(Pending(t), balance, s)
         /\ \A l \in Lots : LotView(t, l) = LotSees(Pending(t), lotQty, l)
         /\ \A s \in Prepared : LotTotal(t, s) = LotSum(Pending(t), lotQty, s)
<1>1. \A s \in Slots : Own(t, s) = On(Pending(t), s)
  BY DEF Own, On, Pending
<1>2. ASSUME NEW s \in Slots PROVE View(t, s) = Sees(Pending(t), balance, s)
  <2>1. View(t, s) = Latest(Own(t, s), balance[s])
    BY DEF View, Latest
  <2> QED
    BY <1>1, <2>1 DEF Sees
<1>3. \A l \in Lots : LotView(t, l) = LotSees(Pending(t), lotQty, l)
  <2>1. \A l \in Lots : OfLot(t, l) = InLot(Pending(t), l)
    BY DEF OfLot, InLot, Pending
  <2> QED
    BY <2>1 DEF LotView, LotSees
<1>4. \A s \in Prepared : LotTotal(t, s) = LotSum(Pending(t), lotQty, s)
  <2>1. [l \in Lots |-> LotView(t, l)] = [l \in Lots |-> LotSees(Pending(t), lotQty, l)]
    BY <1>3
  <2> QED
    BY <2>1 DEF LotTotal, LotSum, Total
<1> QED
  BY <1>2, <1>3, <1>4

LEMMA Typed ==
  ASSUME TypeOK, NEW t \in Txns
  PROVE  /\ txn[t] \in TxnState
         /\ txn[t].pc \in {"idle", "running"} \cup Ended /\ txn[t].at \in Nat
         /\ txn[t].step \in Nat \ {0} /\ txn[t].short \in BOOLEAN
         /\ Pending(t) \in SUBSET Movement
BY DEF TypeOK, TxnState, Pending

LEMMA TxnUpdates ==
  ASSUME NEW e \in TxnState
  PROVE  /\ \A n \in Nat : [e EXCEPT !.pc = "running", !.at = n] \in TxnState
         /\ \A o \in {"refused", "lost", "committed"} : [e EXCEPT !.pc = o, !.pending = {}] \in TxnState
         /\ \A b \in BOOLEAN : [e EXCEPT !.step = e.step + 1, !.short = b] \in TxnState
         /\ [e EXCEPT !.step = e.step + 1] \in TxnState
         /\ \A p \in SUBSET Movement : [e EXCEPT !.step = e.step + 1, !.pending = p] \in TxnState
<1>1. ASSUME NEW n \in Nat PROVE [e EXCEPT !.pc = "running", !.at = n] \in TxnState
  BY DEF TxnState
<1>2. ASSUME NEW o \in {"refused", "lost", "committed"}
      PROVE  [e EXCEPT !.pc = o, !.pending = {}] \in TxnState
  BY DEF TxnState, Ended
<1>0. e.step + 1 \in Nat \ {0}
  BY DEF TxnState
<1>3. ASSUME NEW b \in BOOLEAN PROVE [e EXCEPT !.step = e.step + 1, !.short = b] \in TxnState
  <2> DEFINE n == e.step + 1
  <2>0. n \in Nat \ {0}
    BY <1>0
  <2> HIDE DEF n
  <2>1. [e EXCEPT !.step = n, !.short = b] \in TxnState
    BY <2>0 DEF TxnState
  <2> QED
    BY <2>1 DEF n
<1>4. [e EXCEPT !.step = e.step + 1] \in TxnState
  BY DEF TxnState
<1>5. ASSUME NEW p \in SUBSET Movement PROVE [e EXCEPT !.step = e.step + 1, !.pending = p] \in TxnState
  <2> DEFINE n == e.step + 1
  <2>0. n \in Nat \ {0}
    BY <1>0
  <2> HIDE DEF n
  <2>1. [e EXCEPT !.step = n, !.pending = p] \in TxnState
    BY <2>0 DEF TxnState
  <2> QED
    BY <2>1 DEF n
<1> QED
  BY <1>1, <1>2, <1>3, <1>4, <1>5

LEMMA ScriptAt ==
  ASSUME TypeOK, NEW t \in Txns
  PROVE  /\ Script[t] \in Seq(Statement) /\ Len(Script[t]) \in Nat
         /\ ~AtEnd(t) => /\ txn[t].step \in 1..Len(Script[t])
                         /\ Current(t) \in Statement
                         /\ Current(t).op \in {"check", "number", "move"}
                         /\ Current(t).slot \in Slots \cup {NumberRow}
                         /\ Current(t).qty \in Int /\ Current(t).lot \in Lots \cup {None}
                         /\ Current(t).op # "number" => Current(t).slot \in Slots
                         /\ Current(t).op = "number" => Current(t).slot = NumberRow
<1>1. WellOrdered(Script[t])
  BY ScriptsWellOrdered
<1>2. Script[t] \in Seq(Statement) /\ Len(Script[t]) \in Nat
  BY <1>1 DEF WellOrdered
<1>3. ASSUME ~AtEnd(t) PROVE txn[t].step \in 1..Len(Script[t])
  BY <1>2, <1>3, Typed DEF AtEnd
<1>4. ASSUME ~AtEnd(t) PROVE Current(t) \in Statement
  BY <1>2, <1>3, <1>4 DEF Current
<1>5. ASSUME ~AtEnd(t) PROVE Current(t).op = "number" <=> Current(t).slot = NumberRow
  BY <1>1, <1>3, <1>5 DEF WellOrdered, Current
<1>6. \A st \in Statement : /\ st.op \in {"check", "number", "move"}
                            /\ st.slot \in Slots \cup {NumberRow}
                            /\ st.qty \in Int /\ st.lot \in Lots \cup {None}
  BY DEF Statement
<1> HIDE DEF Statement
<1> QED
  BY <1>2, <1>3, <1>4, <1>5, <1>6

LEMMA MovesNext ==
  ASSUME NEW t \in Txns, NEW n \in Nat \ {0}
  PROVE  /\ IsFiniteSet(Moves(t, n)) /\ IsFiniteSet(Moves(t, n - 1))
         /\ Cardinality(Moves(t, n - 1)) \in Nat
         /\ Script[t][n].op # "move" => Moves(t, n) = Moves(t, n - 1)
         /\ Script[t][n].op = "move" => Cardinality(Moves(t, n)) = Cardinality(Moves(t, n - 1)) + 1
<1>1. ASSUME NEW k \in Nat PROVE IsFiniteSet(Moves(t, k))
  <2>1. IsFiniteSet(1..k)
    BY FS_Interval
  <2>2. Moves(t, k) \in SUBSET (1..k)
    BY DEF Moves
  <2> QED
    BY <2>1, <2>2, FS_Subset
<1>2. Script[t][n].op # "move" => Moves(t, n) = Moves(t, n - 1)
  BY DEF Moves
<1>3. Script[t][n].op = "move" => Moves(t, n) = Moves(t, n - 1) \cup {n} /\ n \notin Moves(t, n - 1)
  BY DEF Moves
<1>4. IsFiniteSet(Moves(t, n)) /\ IsFiniteSet(Moves(t, n - 1))
  BY <1>1
<1>5. Cardinality(Moves(t, n - 1) \cup {n}) =
        IF n \in Moves(t, n - 1) THEN Cardinality(Moves(t, n - 1)) ELSE Cardinality(Moves(t, n - 1)) + 1
  BY <1>4, FS_AddElement
<1> QED
  BY <1>2, <1>3, <1>4, <1>5, FS_CardinalityType

LEMMA InitIInv == Init => IInv
<1> SUFFICES ASSUME Init PROVE IInv
  OBVIOUS
<1>1. TypeOK
  BY LedgerAssumption DEF Init, TypeOK, TxnState
<1>2. \A t \in Txns : Pending(t) = {} /\ txn[t].pc = "idle" /\ txn[t].step = 1
  BY DEF Init, Pending
<1>3. Agrees({}, balance, lotQty) /\ \A s \in Prepared : balance[s] = Total(lotQty, LotsOf(s))
  <2>1. \A s \in Prepared : balance[s] = Total(lotQty, LotsOf(s))
    BY LedgerAssumption DEF Init, Total
  <2> QED
    BY <1>1, <2>1, NothingWritten DEF TypeOK
<1>4. Written({})
  BY FS_EmptySet DEF Written
<1>5. ASSUME NEW t \in Txns PROVE Placed(t) /\ Evidence(t) /\ Counted(t)
  <2>1. Placed(t)
    BY <1>1, <1>2, ScriptAt DEF Placed
  <2>2. Evidence(t)
    BY <1>2, <1>3, <1>4 DEF Evidence, Chained, After
  <2> QED
    BY <1>2, <2>1, <2>2 DEF Counted, Running
<1>6. \A r \in Slots \cup {NumberRow} : Held(r)
  BY DEF Init, Held
<1>7. Registered
  <2>1. ledger = {} /\ balance = Opening
    BY DEF Init
  <2>2. Conserved(ledger, balance)
    <3>1. \A s \in Slots : On({}, s) = {}
      BY DEF On
    <3>2. \A s \in Slots : Delta(On({}, s)) = 0
      BY <3>1, DeltaEmpty
    <3> QED
      BY <2>1, <3>2, LedgerAssumption DEF Conserved
  <2> QED
    BY <1>3, <2>1, <2>2, FS_EmptySet DEF Registered, RightAlong
<1>8. NeverDiverges
  BY <1>2 DEF NeverDiverges
<1> QED
  BY <1>1, <1>5, <1>6, <1>7, <1>8 DEF IInv

(* What a transaction flushed stays right while only others move on. *)
LEMMA EvidenceStays ==
  ASSUME IInv, UNCHANGED <<balance, lotQty, ledger>>, nextId \in Nat, nextId' \in Nat, nextId <= nextId',
         NEW u \in Txns, Pending(u)' = Pending(u),
         \A m \in Pending(u) : lock'[m.slot] = u
  PROVE  Evidence(u)'
<1>1. Evidence(u) /\ \A m \in Pending(u) : m.id \in Nat
  BY Typed DEF IInv, Movement
<1> QED
  BY <1>1 DEF Evidence

LEMMA BeginKeeps == ASSUME IInv, NEW t \in Txns, Begin(t) PROVE IInv'
<1>0. TypeOK /\ \A u \in Txns : Placed(u) /\ Evidence(u) /\ Counted(u)
  BY DEF IInv
<1>1. TypeOK'
  <2>1. now \in Nat /\ txn[t] \in TxnState /\ txn \in [Txns -> TxnState]
    BY <1>0 DEF TypeOK
  <2> DEFINE n == now + 1
  <2>2. n \in Nat
    BY <2>1
  <2> HIDE DEF n
  <2>3. [txn[t] EXCEPT !.pc = "running", !.at = n] \in TxnState
    BY <2>1, <2>2, TxnUpdates
  <2>4. txn' \in [Txns -> TxnState]
    BY <2>1, <2>3 DEF Begin, n
  <2> QED
    BY <1>0, <2>1, <2>4 DEF Begin, TypeOK
<1>2. \A u \in Txns : /\ txn'[u].step = txn[u].step /\ Pending(u)' = Pending(u)
                      /\ u # t => txn'[u] = txn[u]
                      /\ txn'[t].pc = "running"
  BY <1>0 DEF Begin, TypeOK, Pending
<1>3. Pending(t) = {} /\ txn[t].step = 1
  BY <1>0 DEF Begin, Placed, Running
<1>4. ASSUME NEW u \in Txns PROVE Placed(u)'
  BY <1>0, <1>2, <1>3 DEF Placed, Running
<1>5. ASSUME NEW u \in Txns PROVE Evidence(u)'
  <2>1. \A m \in Pending(u) : lock'[m.slot] = u
    BY <1>0 DEF Evidence, Begin
  <2>2. nextId \in Nat /\ nextId' = nextId
    BY <1>0 DEF TypeOK, Begin
  <2>3. nextId <= nextId'
    BY <2>2
  <2> QED
    BY <1>2, <2>1, <2>2, <2>3, EvidenceStays DEF Begin
<1>6. ASSUME NEW u \in Txns PROVE Counted(u)'
  <2>1. CASE u = t
    <3>1. Moves(t, 0) = {}
      BY DEF Moves
    <3>2. (txn[t].step - 1)' = 0 /\ txn'[t].pc # "committed"
      BY <1>2, <1>3
    <3>3. Pending(t)' = {} /\ Moves(t, (txn[t].step - 1)') = {}
      BY <1>2, <1>3, <3>1, <3>2
    <3> QED
      BY <2>1, <3>2, <3>3 DEF Counted, Moves
  <2>2. CASE u # t
    BY <1>0, <1>2, <2>2 DEF Counted, Running, Begin, Moves
  <2> QED
    BY <2>1, <2>2
<1>7. ASSUME NEW r \in Slots \cup {NumberRow} PROVE Held(r)'
  <2>1. Held(r) /\ lock' = lock
    BY DEF IInv, Begin
  <2>2. lock[r] # t
    <3>1. t # None
      BY LedgerAssumption
    <3> QED
      BY <2>1, <3>1 DEF Held, Running, Begin
  <2>3. lock[r] # None => lock[r] \in Txns
    BY <1>0 DEF TypeOK
  <2> QED
    BY <1>2, <2>1, <2>2, <2>3 DEF Held, Running
<1>8. Registered'
  <2>1. \A m \in ledger : m.txn \in Txns /\ txn[m.txn].pc = "committed"
    BY <1>0 DEF IInv, Registered, TypeOK, Movement
  <2>2. \A m \in ledger : txn'[m.txn] = txn[m.txn]
    BY <1>2, <2>1 DEF Begin
  <2> QED
    BY <2>2 DEF IInv, Registered, Begin
<1>9. NeverDiverges'
  BY <1>2 DEF IInv, NeverDiverges
<1> QED
  BY <1>1, <1>4, <1>5, <1>6, <1>7, <1>8, <1>9 DEF IInv

(* Any error undoes the transaction: nothing it flushed remains. *)
LEMMA AbortKeeps ==
  ASSUME IInv, NEW t \in Txns, Running(t), NEW o \in {"refused", "lost"}, Abort(t, o)
  PROVE  IInv'
<1>0. TypeOK /\ Registered /\ NeverDiverges /\ \A u \in Txns : Placed(u) /\ Evidence(u) /\ Counted(u)
  BY DEF IInv
<1>1. txn' \in [Txns -> TxnState]
  <2>1. txn[t] \in TxnState /\ txn \in [Txns -> TxnState]
    BY <1>0 DEF TypeOK
  <2>2. [txn[t] EXCEPT !.pc = o, !.pending = {}] \in TxnState
    BY <2>1, TxnUpdates
  <2> QED
    BY <2>1, <2>2 DEF Abort
<1>2. lock' \in [Slots \cup {NumberRow} -> Txns \cup {None}]
      /\ \A r \in Slots \cup {NumberRow} : lock'[r] = IF lock[r] = t THEN None ELSE lock[r]
  BY <1>0 DEF Abort, Released, TypeOK
<1>3. TypeOK'
  BY <1>0, <1>1, <1>2 DEF Abort, TypeOK
<1>4. /\ \A u \in Txns : u # t => txn'[u] = txn[u] /\ Pending(u)' = Pending(u)
      /\ txn'[t].pc = o /\ Pending(t)' = {} /\ txn'[t].step = txn[t].step
  BY <1>0 DEF Abort, TypeOK, Pending
<1>5. ASSUME NEW u \in Txns PROVE Placed(u)' /\ Counted(u)'
  <2>1. CASE u = t
    BY <1>0, <1>4, <2>1 DEF Placed, Counted, Running
  <2>2. CASE u # t
    BY <1>0, <1>4, <2>2 DEF Placed, Counted, Running, Abort, Moves
  <2> QED
    BY <2>1, <2>2
<1>6. ASSUME NEW u \in Txns PROVE Evidence(u)'
  <2>1. CASE u = t
    <3>1. Agrees({}, balance, lotQty) /\ Written({})
      BY <1>0, NothingWritten, FS_EmptySet DEF TypeOK, Registered, Written
    <3> QED
      BY <1>4, <2>1, <3>1 DEF Evidence, Chained, After, Abort
  <2>2. CASE u # t
    <3>1. \A m \in Pending(u) : m.slot \in Slots /\ lock[m.slot] = u
      BY <1>0, Typed DEF Evidence, Movement
    <3>2. \A m \in Pending(u) : lock'[m.slot] = u
      BY <1>2, <2>2, <3>1
    <3>3. nextId \in Nat /\ nextId' = nextId /\ nextId <= nextId'
      BY <1>0 DEF TypeOK, Abort
    <3> QED
      BY <1>4, <2>2, <3>2, <3>3, EvidenceStays DEF Abort
  <2> QED
    BY <2>1, <2>2
<1>7. ASSUME NEW r \in Slots \cup {NumberRow} PROVE Held(r)'
  <2>1. Held(r) /\ lock[r] \in Txns \cup {None}
    BY <1>0 DEF IInv, TypeOK
  <2>2. CASE lock[r] = t
    BY <1>2, <2>2 DEF Held
  <2>3. CASE lock[r] # t
    BY <1>2, <1>4, <2>1, <2>3 DEF Held, Running
  <2> QED
    BY <2>2, <2>3
<1>8. Registered'
  <2>1. \A m \in ledger : m.txn \in Txns /\ txn[m.txn].pc = "committed"
    BY <1>0 DEF Registered, TypeOK, Movement
  <2>2. \A m \in ledger : txn'[m.txn] = txn[m.txn]
    BY <1>4, <2>1 DEF Running
  <2> QED
    BY <1>0, <2>2 DEF Registered, Abort
<1>9. NeverDiverges'
  BY <1>0, <1>4 DEF NeverDiverges
<1> QED
  BY <1>3, <1>5, <1>6, <1>7, <1>8, <1>9 DEF IInv

(* A statement that only takes a row: a check or the number. *)
LEMMA LockingKeeps ==
  ASSUME IInv, NEW t \in Txns, Running(t), ~AtEnd(t), Current(t).op # "move",
         NEW b \in BOOLEAN, txn' = [txn EXCEPT ![t].step = @ + 1, ![t].short = b],
         \/ lock' = lock
         \/ lock' = [lock EXCEPT ![Current(t).slot] = t] /\ Free(Current(t).slot, t),
         UNCHANGED <<balance, rows, lotQty, born, ledger, nextId, now>>
  PROVE  IInv'
<1>0. TypeOK /\ Registered /\ NeverDiverges /\ \A u \in Txns : Placed(u) /\ Evidence(u) /\ Counted(u)
  BY DEF IInv
<1>1. /\ Current(t).slot \in Slots \cup {NumberRow} /\ Current(t) = Script[t][txn[t].step]
      /\ txn[t].step \in 1..Len(Script[t]) /\ Len(Script[t]) \in Nat
  BY <1>0, ScriptAt DEF Current
<1>2. txn' \in [Txns -> TxnState]
  <2>1. txn[t] \in TxnState /\ txn \in [Txns -> TxnState]
    BY <1>0 DEF TypeOK
  <2>2. [txn[t] EXCEPT !.step = txn[t].step + 1, !.short = b] \in TxnState
    BY <2>1, TxnUpdates
  <2> QED
    BY <2>1, <2>2
<1>3. lock' \in [Slots \cup {NumberRow} -> Txns \cup {None}]
      /\ \A r \in Slots \cup {NumberRow} :
           lock'[r] = lock[r] \/ (r = Current(t).slot /\ lock'[r] = t /\ lock[r] \in {None, t})
  BY <1>0, <1>1 DEF TypeOK, Free
<1>4. TypeOK'
  BY <1>0, <1>2, <1>3 DEF TypeOK
<1>5. /\ \A u \in Txns : Pending(u)' = Pending(u) /\ txn'[u].pc = txn[u].pc
      /\ \A u \in Txns : u # t => txn'[u] = txn[u]
      /\ txn'[t].step = txn[t].step + 1 /\ txn'[t].pc = "running"
  BY <1>0 DEF TypeOK, Pending, Running
<1>6. ASSUME NEW u \in Txns PROVE Placed(u)'
  <2>1. CASE u = t
    BY <1>1, <1>5, <2>1 DEF Placed, Running
  <2>2. CASE u # t
    BY <1>0, <1>5, <2>2 DEF Placed, Running
  <2> QED
    BY <2>1, <2>2
<1>7. ASSUME NEW u \in Txns PROVE Counted(u)'
  <2>1. CASE u = t
    <3>1. Moves(t, txn[t].step) = Moves(t, txn[t].step - 1)
      BY <1>1, MovesNext
    <3>2. (txn[t].step - 1)' = txn[t].step
      BY <1>1, <1>5
    <3> DEFINE n == txn[t].step
    <3>3. Moves(t, n') \in {Moves(t, n')} /\ Moves(t, (txn[t].step - 1)') = Moves(t, n - 1)
      BY <3>1, <3>2
    <3>4. Cardinality(Pending(t)) = Cardinality(Moves(t, n - 1))
      BY <1>0 DEF Counted
    <3>5. Cardinality(Pending(t)') = Cardinality(Moves(t, (txn[t].step - 1)'))
      BY <1>5, <3>3, <3>4
    <3> QED
      BY <1>5, <2>1, <3>5 DEF Counted, Moves
  <2>2. CASE u # t
    BY <1>0, <1>5, <2>2 DEF Counted, Running, Moves
  <2> QED
    BY <2>1, <2>2
<1>8. ASSUME NEW u \in Txns PROVE Evidence(u)'
  <2>1. \A m \in Pending(u) : m.slot \in Slots /\ lock[m.slot] = u
    BY <1>0, Typed DEF Evidence, Movement
  <2>2. \A m \in Pending(u) : lock'[m.slot] = u
    <3>1. u # None
      BY LedgerAssumption
    <3> QED
      BY <1>3, <2>1, <3>1
  <2>3. nextId \in Nat /\ nextId' = nextId /\ nextId <= nextId'
    BY <1>0 DEF TypeOK
  <2> QED
    BY <1>5, <2>2, <2>3, EvidenceStays
<1>9. ASSUME NEW r \in Slots \cup {NumberRow} PROVE Held(r)'
  <2>1. Held(r) /\ lock[r] \in Txns \cup {None}
    BY <1>0 DEF IInv, TypeOK
  <2>2. CASE r = Current(t).slot /\ lock'[r] = t
    <3>1. txn[t].step \in 1..(txn'[t].step - 1) /\ Script[t][txn[t].step].slot = r
      BY <1>1, <1>5, <2>2
    <3> QED
      BY <1>5, <2>2, <3>1 DEF Held, Running
  <2>3. CASE lock'[r] = lock[r] /\ lock[r] # t
    BY <1>5, <2>1, <2>3 DEF Held, Running
  <2>4. CASE lock'[r] = lock[r] /\ lock[r] = t
    <3>0. t # None
      BY LedgerAssumption
    <3>1. PICK i \in 1..(txn[t].step - 1) : Script[t][i].slot = r
      BY <2>1, <2>4, <3>0 DEF Held
    <3>2. i \in 1..(txn'[t].step - 1)
      BY <1>1, <1>5
    <3> QED
      BY <1>5, <2>4, <3>1, <3>2 DEF Held, Running
  <2> QED
    BY <1>3, <2>2, <2>3, <2>4
<1>10. Registered'
  <2>1. \A m \in ledger : m.txn \in Txns
    BY <1>0 DEF TypeOK, Movement
  <2> QED
    BY <1>0, <1>5, <2>1 DEF Registered
<1>11. NeverDiverges'
  BY <1>0, <1>5 DEF NeverDiverges
<1> QED
  BY <1>4, <1>6, <1>7, <1>8, <1>9, <1>10, <1>11 DEF IInv

(* A movement that is flushed. *)
LEMMA MoveKeeps ==
  ASSUME IInv, NEW t \in Txns, At(t, "move"), Free(Current(t).slot, t), Allowed(t, Current(t)),
         lock' = Locked(t, Current(t).slot), nextId' = nextId + 1,
         txn' = [txn EXCEPT ![t].step = @ + 1, ![t].pending = @ \cup {Entry(t, Current(t))}],
         UNCHANGED <<balance, rows, lotQty, born, ledger, now>>
  PROVE  IInv'
<1> DEFINE c == Current(t)
           m == Entry(t, c)
           ms == Pending(t)
           ns == ms \cup {m}
<1>0. /\ TypeOK /\ Registered /\ NeverDiverges /\ \A u \in Txns : Placed(u) /\ Evidence(u) /\ Counted(u)
      /\ Running(t) /\ ~AtEnd(t) /\ c.op = "move" /\ t # None
      /\ nextId \in Nat \ {0} /\ balance \in [Slots -> Nat] /\ lotQty \in [Lots -> Nat]
  BY LedgerAssumption DEF IInv, TypeOK, At
<1>1. /\ c.slot \in Slots /\ c.qty \in Int /\ c.lot \in Lots \cup {None} /\ c = Script[t][txn[t].step]
      /\ txn[t].step \in 1..Len(Script[t]) /\ Len(Script[t]) \in Nat
  BY <1>0, ScriptAt DEF Current
<1>2. /\ m.id = nextId /\ m.txn = t /\ m.slot = c.slot /\ m.qty = c.qty /\ m.lot = c.lot
      /\ m.after = View(t, c.slot) + c.qty
  BY DEF Entry
<1>3. Written(ms) /\ Agrees(ms, balance, lotQty) /\ Chained(ms, balance) /\ After(ledger, ms)
      /\ \A o \in ms : o.txn = t /\ lock[o.slot] = t /\ o.id < nextId
  BY <1>0 DEF Evidence
<1>4. View(t, c.slot) = Sees(ms, balance, c.slot) /\ View(t, c.slot) \in Nat
      /\ View(t, c.slot) = balance[c.slot] + Delta(On(ms, c.slot))
  BY <1>1, <1>3, ViewIs DEF Agrees
<1>5. m \in Movement
  <2>1. txn[t].at \in Nat /\ View(t, c.slot) + c.qty \in Nat
    <3>1. View(t, c.slot) + c.qty >= 0
      BY DEF Allowed
    <3>2. txn[t].at \in Nat
      BY <1>0, Typed
    <3>3. View(t, c.slot) \in Nat /\ c.qty \in Int
      BY <1>1, <1>4
    <3> HIDE DEF c
    <3> QED
      BY <3>1, <3>2, <3>3
  <2> QED
    BY <1>0, <1>1, <2>1 DEF Entry, Movement
<1>6. m.slot \in Prepared => m.lot \in LotsOf(m.slot) /\ LotSees(ms, lotQty, m.lot) + m.qty >= 0
  BY <1>1, <1>2, ViewIs DEF Allowed, ValidLot, LotsOf
<1>7. Pending(t)' = ns /\ txn'[t].step = txn[t].step + 1 /\ txn'[t].pc = "running"
      /\ \A u \in Txns : u # t => txn'[u] = txn[u] /\ Pending(u)' = Pending(u)
  BY <1>0 DEF TypeOK, Pending, Running
<1> HIDE DEF c, m, ms
<1>8. Agrees(ns, balance, lotQty) /\ Written(ns)
  BY <1>0, <1>2, <1>3, <1>4, <1>5, <1>6, OneMore
<1>9. Chained(ns, balance)
  BY <1>0, <1>2, <1>3, <1>4, <1>5, ChainMore
<1>10. txn' \in [Txns -> TxnState]
  <2>1. txn[t] \in TxnState /\ txn \in [Txns -> TxnState] /\ ns \in SUBSET Movement
    BY <1>0, <1>8 DEF TypeOK, Written
  <2>2. [txn[t] EXCEPT !.step = txn[t].step + 1, !.pending = ns] \in TxnState
    BY <2>1, TxnUpdates
  <2> QED
    BY <2>1, <2>2 DEF m, ms, c, Pending
<1>11. lock' \in [Slots \cup {NumberRow} -> Txns \cup {None}]
       /\ \A r \in Slots \cup {NumberRow} :
            IF r = c.slot THEN lock'[r] = t /\ lock[r] \in {None, t} ELSE lock'[r] = lock[r]
  BY <1>0, <1>1 DEF TypeOK, Free, Locked, c
<1>12. TypeOK'
  BY <1>0, <1>10, <1>11 DEF TypeOK
<1>13. ASSUME NEW u \in Txns PROVE Placed(u)'
  <2>1. CASE u = t
    BY <1>1, <1>7, <2>1 DEF Placed, Running
  <2>2. CASE u # t
    BY <1>0, <1>7, <2>2 DEF Placed, Running
  <2> QED
    BY <2>1, <2>2
<1>14. ASSUME NEW u \in Txns PROVE Counted(u)'
  <2>1. CASE u = t
    <3>1. Cardinality(Moves(t, txn[t].step)) = Cardinality(Moves(t, txn[t].step - 1)) + 1
      <4>1. txn[t].step \in Nat \ {0} /\ Script[t][txn[t].step].op = "move"
        BY <1>0, <1>1
      <4> QED
        BY <4>1, MovesNext
    <3>2. (txn[t].step - 1)' = txn[t].step
      <4>1. txn[t].step \in Int /\ txn'[t].step = txn[t].step + 1
        BY <1>1, <1>7
      <4> QED
        BY <4>1
    <3>3. Cardinality(ms) = Cardinality(Moves(t, txn[t].step - 1))
      BY <1>0 DEF Counted, ms
    <3>4. Cardinality(ns) = Cardinality(ms) + 1
      <4>1. m \notin ms /\ IsFiniteSet(ms)
        BY <1>0, <1>2, <1>3 DEF Written
      <4> QED
        BY <4>1, FS_AddElement
    <3>5. Cardinality(Pending(t)') = Cardinality(Moves(t, (txn[t].step - 1)'))
      BY <1>7, <3>1, <3>2, <3>3, <3>4
    <3> QED
      BY <1>7, <2>1, <3>5 DEF Counted, Moves
  <2>2. CASE u # t
    BY <1>0, <1>7, <2>2 DEF Counted, Running, Moves
  <2> QED
    BY <2>1, <2>2
<1>15. ASSUME NEW u \in Txns PROVE Evidence(u)'
  <2>1. CASE u = t
    <3>1. After(ledger, ns)
      BY <1>2, <1>3, <1>0 DEF Registered, After
    <3>2. \A o \in ms : o.slot \in Slots /\ o.id \in Nat
      BY <1>3 DEF Written, Movement
    <3>3. \A o \in ns : o.txn = t /\ lock'[o.slot] = t /\ o.id < nextId'
      BY <1>0, <1>1, <1>2, <1>3, <1>11, <3>2
    <3> QED
      BY <1>7, <1>8, <1>9, <2>1, <3>1, <3>3 DEF Evidence
  <2>2. CASE u # t
    <3>1. \A o \in Pending(u) : o.slot \in Slots /\ lock[o.slot] = u
      BY <1>0, Typed DEF Evidence, Movement
    <3>2. \A o \in Pending(u) : lock'[o.slot] = u
      <4>1. u # None
        BY LedgerAssumption
      <4> QED
        BY <1>11, <2>2, <3>1, <4>1
    <3>3. nextId \in Nat /\ nextId' \in Nat /\ nextId <= nextId'
      BY <1>0
    <3> QED
      BY <1>7, <2>2, <3>2, <3>3, EvidenceStays
  <2> QED
    BY <2>1, <2>2
<1>16. ASSUME NEW r \in Slots \cup {NumberRow} PROVE Held(r)'
  <2>1. Held(r) /\ lock[r] \in Txns \cup {None}
    BY <1>0 DEF IInv, TypeOK
  <2>2. CASE r = c.slot
    <3>1. txn[t].step \in 1..(txn'[t].step - 1) /\ Script[t][txn[t].step].slot = r
      <4>1. txn[t].step \in Nat \ {0} /\ txn'[t].step = txn[t].step + 1
        BY <1>1, <1>7
      <4>2. Script[t][txn[t].step].slot = r
        BY <1>1, <2>2
      <4> QED
        BY <4>1, <4>2
    <3> QED
      BY <1>7, <1>11, <2>2, <3>1 DEF Held, Running
  <2>3. CASE r # c.slot /\ lock[r] # t
    <3>1. lock'[r] = lock[r] /\ (lock[r] # None => txn'[lock[r]] = txn[lock[r]])
      BY <1>7, <1>11, <2>1, <2>3
    <3> QED
      BY <2>1, <3>1 DEF Held, Running
  <2>4. CASE r # c.slot /\ lock[r] = t
    <3>1. PICK i \in 1..(txn[t].step - 1) : Script[t][i].slot = r
      BY <1>0, <2>1, <2>4 DEF Held
    <3>2. i \in 1..(txn'[t].step - 1)
      BY <1>1, <1>7
    <3> QED
      BY <1>7, <1>11, <2>4, <3>1, <3>2 DEF Held, Running
  <2> QED
    BY <2>2, <2>3, <2>4
<1>17. Registered'
  <2>1. \A o \in ledger : o.txn \in Txns /\ o.id \in Nat /\ txn[o.txn].pc = "committed" /\ o.id < nextId
    BY <1>0 DEF Registered, TypeOK, Movement
  <2>2. \A o \in ledger : o.id < nextId'
    BY <1>0, <2>1
  <2>3. \A o \in ledger : txn'[o.txn].pc = "committed"
    BY <1>0, <1>7, <2>1 DEF Running
  <2> QED
    BY <1>0, <2>2, <2>3 DEF Registered
<1>18. NeverDiverges'
  BY <1>0, <1>7 DEF NeverDiverges
<1> QED
  BY <1>12, <1>13, <1>14, <1>15, <1>16, <1>17, <1>18 DEF IInv

(* A transaction that commits: what it saw becomes what there is. *)
LEMMA CommitKeeps == ASSUME IInv, NEW t \in Txns, Commit(t) PROVE IInv'
<1> DEFINE ms == Pending(t)
<1>0. /\ TypeOK /\ Registered /\ NeverDiverges /\ \A u \in Txns : Placed(u) /\ Evidence(u) /\ Counted(u)
      /\ Running(t) /\ AtEnd(t) /\ t # None
      /\ nextId' = nextId /\ nextId \in Nat \ {0} /\ balance \in [Slots -> Nat] /\ lotQty \in [Lots -> Nat]
      /\ ledger \in SUBSET Movement /\ ledger' = ledger \cup ms
  BY LedgerAssumption DEF IInv, TypeOK, Commit, Pending
<1>1. Written(ms) /\ Agrees(ms, balance, lotQty) /\ Chained(ms, balance) /\ After(ledger, ms)
      /\ \A o \in ms : o.txn = t /\ lock[o.slot] = t /\ o.id < nextId
  BY <1>0 DEF Evidence
<1>2. balance' = LeftBy(ms, balance) /\ lotQty' = LotsLeftBy(ms, lotQty)
  BY ViewIs DEF Commit, LeftBy, LotsLeftBy
<1>3. /\ balance' \in [Slots -> Nat] /\ lotQty' \in [Lots -> Nat]
      /\ \A s \in Prepared : balance'[s] = Total(lotQty', LotsOf(s))
  BY <1>1, <1>2, LeftTypes
<1>4. /\ \A u \in Txns : u # t => txn'[u] = txn[u] /\ Pending(u)' = Pending(u)
      /\ txn'[t].pc = "committed" /\ Pending(t)' = {} /\ txn'[t].step = txn[t].step
  BY <1>0 DEF Commit, TypeOK, Pending
<1>5. txn' \in [Txns -> TxnState]
  <2>1. txn[t] \in TxnState /\ txn \in [Txns -> TxnState]
    BY <1>0 DEF TypeOK
  <2>2. [txn[t] EXCEPT !.pc = "committed", !.pending = {}] \in TxnState
    BY <2>1, TxnUpdates
  <2> QED
    BY <2>1, <2>2 DEF Commit
<1>6. lock' \in [Slots \cup {NumberRow} -> Txns \cup {None}]
      /\ \A r \in Slots \cup {NumberRow} : lock'[r] = IF lock[r] = t THEN None ELSE lock[r]
  BY <1>0 DEF Commit, Released, TypeOK
<1>7. TypeOK'
  <2>1. rows' \subseteq Slots
    BY <1>0, <1>1 DEF Commit, TypeOK, Written, Movement
  <2>2. born' \subseteq Lots
    BY <1>0, LedgerAssumption DEF Commit, TypeOK
  <2>3. ledger' \in SUBSET Movement /\ now' \in Nat
    BY <1>0, <1>1 DEF Written, TypeOK, Commit
  <2> QED
    BY <1>0, <1>3, <1>5, <1>6, <2>1, <2>2, <2>3 DEF TypeOK
<1> HIDE DEF ms
<1>8. \A u \in Txns : u # t => \A m \in ms : \A n \in Pending(u) : m.slot # n.slot
  BY <1>0, <1>1 DEF Evidence
<1>9. ASSUME NEW u \in Txns PROVE Placed(u)'
  <2>1. CASE u = t
    BY <1>0, <1>4, <2>1 DEF Placed, Running
  <2>2. CASE u # t
    BY <1>0, <1>4, <2>2 DEF Placed, Running
  <2> QED
    BY <2>1, <2>2
<1>10. \A m \in ledger : m.txn \in Txns /\ txn[m.txn].pc = "committed" /\ m.txn # t
  BY <1>0 DEF Registered, TypeOK, Movement, Running
<1>11. ASSUME NEW u \in Txns PROVE Counted(u)'
  <2>1. CASE u = t
    <3>1. {m \in ledger' : m.txn = t} = ms
      BY <1>0, <1>1, <1>10
    <3>2. txn[t].step = Len(Script[t]) + 1
      BY <1>0, ScriptAt, Typed DEF AtEnd, Placed
    <3>3. Cardinality(ms) = Cardinality(Moves(t, txn[t].step - 1))
      BY <1>0 DEF Counted, ms
    <3>4. txn[t].step - 1 = Len(Script[t])
      BY <1>0, <3>2, ScriptAt
    <3>5. Cardinality({m \in ledger' : m.txn = t}) = Cardinality(Moves(t, Len(Script[t])))
      BY <3>1, <3>3, <3>4
    <3> QED
      BY <1>4, <2>1, <3>5 DEF Counted, Running, Moves
  <2>2. CASE u # t
    <3>1. {m \in ledger' : m.txn = u} = {m \in ledger : m.txn = u}
      BY <1>0, <1>1, <2>2
    <3>2. Counted(u) /\ txn'[u] = txn[u] /\ Pending(u)' = Pending(u)
      BY <1>0, <1>4, <2>2
    <3> QED
      BY <3>1, <3>2 DEF Counted, Running, Moves
  <2> QED
    BY <2>1, <2>2
<1>12. ASSUME NEW u \in Txns PROVE Evidence(u)'
  <2>1. CASE u = t
    <3>1. Agrees({}, balance', lotQty') /\ Written({})
      BY <1>3, NothingWritten, FS_EmptySet DEF Written
    <3> QED
      BY <1>4, <2>1, <3>1 DEF Evidence, Chained, After
  <2>2. CASE u # t
    <3> DEFINE ns == Pending(u)
    <3>1. Written(ns) /\ Agrees(ns, balance, lotQty) /\ Chained(ns, balance) /\ After(ledger, ns)
          /\ \A n \in ns : n.txn = u /\ lock[n.slot] = u /\ n.id < nextId /\ n.slot \in Slots
      BY <1>0 DEF Evidence, Written, Movement
    <3>2. \A m \in ms : \A n \in ns : m.slot # n.slot
      BY <1>8, <2>2
    <3>3. Pending(u)' = ns
      BY <1>4, <2>2
    <3> HIDE DEF ns
    <3>4. Agrees(ns, balance', lotQty') /\ Chained(ns, balance')
      BY <1>0, <1>1, <1>2, <3>1, <3>2, OtherCommits
    <3>5. After(ledger', ns)
      BY <1>0, <3>1, <3>2 DEF After
    <3>6. \A n \in ns : n.txn = u /\ lock'[n.slot] = u /\ n.id < nextId'
      BY <1>0, <1>6, <2>2, <3>1
    <3> QED
      BY <3>1, <3>3, <3>4, <3>5, <3>6 DEF Evidence
  <2> QED
    BY <2>1, <2>2
<1>13. ASSUME NEW r \in Slots \cup {NumberRow} PROVE Held(r)'
  <2>1. Held(r) /\ lock[r] \in Txns \cup {None}
    BY <1>0 DEF IInv, TypeOK
  <2>2. CASE lock[r] = t
    BY <1>6, <2>2 DEF Held
  <2>3. CASE lock[r] # t
    BY <1>4, <1>6, <2>1, <2>3 DEF Held, Running
  <2> QED
    BY <2>2, <2>3
<1>14. Registered'
  <2>1. Conserved(ledger', balance') /\ RightAlong(ledger')
    BY <1>0, <1>1, <1>2, RegisterMore DEF Registered
  <2>2. IsFiniteSet(ledger')
    BY <1>0, <1>1, FS_Union DEF Registered, Written
  <2>3. \A m \in ledger' : m.id < nextId' /\ txn'[m.txn].pc = "committed"
    BY <1>0, <1>1, <1>4, <1>10 DEF Registered
  <2> QED
    BY <1>3, <2>1, <2>2, <2>3 DEF Registered
<1>15. NeverDiverges'
  BY <1>0, <1>4 DEF NeverDiverges
<1> QED
  BY <1>7, <1>9, <1>11, <1>12, <1>13, <1>14, <1>15 DEF IInv

LEMMA NextKeeps == IInv /\ [Next]_vars => IInv'
<1> SUFFICES ASSUME IInv, [Next]_vars PROVE IInv'
  OBVIOUS
<1>1. CASE UNCHANGED vars
  <2>1. UNCHANGED <<balance, rows, lotQty, born, ledger, lock, nextId, now, txn>>
    BY <1>1 DEF vars
  <2>2. TypeOK' /\ NeverDiverges'
    BY <2>1 DEF IInv, TypeOK, NeverDiverges
  <2>3. \A t \in Txns : Placed(t)' /\ Counted(t)'
    BY <2>1 DEF IInv, Placed, Counted, Running, Pending, Moves
  <2>4. \A t \in Txns : Evidence(t)'
    BY <2>1 DEF IInv, Evidence, Pending
  <2>5. \A r \in Slots \cup {NumberRow} : Held(r)'
    BY <2>1 DEF IInv, Held, Running
  <2>6. Registered'
    BY <2>1 DEF IInv, Registered
  <2> QED
    BY <2>2, <2>3, <2>4, <2>5, <2>6 DEF IInv
<1>2. ASSUME NEW t \in Txns, Begin(t) PROVE IInv'
  BY <1>2, BeginKeeps
<1>3. ASSUME NEW t \in Txns, CheckBalance(t) PROVE IInv'
  <2> DEFINE s == Current(t).slot
             available == IF HasRow(t, s) THEN View(t, s) ELSE 0
             b == txn[t].short \/ available < Current(t).qty
  <2>1. Running(t) /\ ~AtEnd(t) /\ Current(t).op # "move"
    BY <1>3 DEF CheckBalance, At
  <2>2. b \in BOOLEAN /\ txn' = [txn EXCEPT ![t].step = @ + 1, ![t].short = b]
    BY <1>3 DEF CheckBalance
  <2>3. \/ lock' = lock
        \/ lock' = [lock EXCEPT ![s] = t] /\ Free(s, t)
    BY <1>3 DEF CheckBalance
  <2>4. UNCHANGED <<balance, rows, lotQty, born, ledger, nextId, now>>
    BY <1>3 DEF CheckBalance
  <2> HIDE DEF b
  <2> QED
    BY <2>1, <2>2, <2>3, <2>4, LockingKeeps
<1>4. ASSUME NEW t \in Txns, RefuseShort(t) PROVE IInv'
  BY <1>4, AbortKeeps DEF RefuseShort
<1>5. ASSUME NEW t \in Txns, IssueNumber(t) PROVE IInv'
  <2>0. TypeOK
    BY DEF IInv
  <2>1. Running(t) /\ ~AtEnd(t) /\ Current(t).op = "number" /\ Current(t).slot = NumberRow
    BY <1>5, <2>0, ScriptAt DEF IssueNumber, At
  <2> DEFINE b == txn[t].short
  <2>2. b \in BOOLEAN /\ txn' = [txn EXCEPT ![t].step = @ + 1, ![t].short = b]
    <3>1. txn \in [Txns -> TxnState] /\ txn[t].short \in BOOLEAN
      BY <2>0, Typed DEF TypeOK
    <3>2. [txn[t] EXCEPT !.step = txn[t].step + 1] =
            [txn[t] EXCEPT !.step = txn[t].step + 1, !.short = txn[t].short]
      BY <2>0, Typed DEF TxnState
    <3> QED
      BY <1>5, <3>1, <3>2 DEF IssueNumber
  <2>3. lock' = [lock EXCEPT ![Current(t).slot] = t] /\ Free(Current(t).slot, t)
    BY <1>5, <2>1 DEF IssueNumber
  <2>4. UNCHANGED <<balance, rows, lotQty, born, ledger, nextId, now>>
    BY <1>5 DEF IssueNumber
  <2> HIDE DEF b
  <2> QED
    BY <2>1, <2>2, <2>3, <2>4, LockingKeeps
<1>6. ASSUME NEW t \in Txns, ApplyMovement(t) PROVE IInv'
  <2> DEFINE m == Current(t)
  <2>1. At(t, "move") /\ Free(m.slot, t) /\ Running(t)
    BY <1>6 DEF ApplyMovement, At
  <2>2. CASE ~Allowed(t, m)
    <3>1. Abort(t, "refused")
      BY <1>6, <2>2 DEF ApplyMovement
    <3> QED
      BY <2>1, <3>1, AbortKeeps
  <2>3. ~Diverges(t, m)
    <3>1. m.slot \in Slots /\ m.qty \in Int /\ Prepared \subseteq Slots
      BY <2>1, ScriptAt, LedgerAssumption DEF At, IInv
    <3>2. m.slot \in Prepared => LotTotal(t, m.slot) = View(t, m.slot)
      BY <3>1, ViewIs DEF IInv, Evidence, Agrees
    <3> QED
      BY <3>2 DEF Diverges
  <2>4. CASE Allowed(t, m)
    <3>1. /\ lock' = Locked(t, m.slot) /\ nextId' = nextId + 1
          /\ txn' = [txn EXCEPT ![t].step = @ + 1, ![t].pending = @ \cup {Entry(t, m)}]
          /\ UNCHANGED <<balance, rows, lotQty, born, ledger, now>>
      BY <1>6, <2>3, <2>4 DEF ApplyMovement
    <3> QED
      BY <2>1, <2>4, <3>1, MoveKeeps
  <2> QED
    BY <2>2, <2>4
<1>7. ASSUME NEW t \in Txns, Commit(t) PROVE IInv'
  BY <1>7, CommitKeeps
<1>8. ASSUME NEW t \in Txns, RollBack(t) PROVE IInv'
  BY <1>8, AbortKeeps DEF RollBack
<1>9. ASSUME NEW t \in Txns, CancelVictim(t) PROVE IInv'
  <2>1. Running(t)
    BY <1>9, LedgerAssumption DEF CancelVictim, LockCycles, Blocked, WaitsFor
  <2> QED
    BY <1>9, <2>1, AbortKeeps DEF CancelVictim
<1> QED
  BY <1>1, <1>2, <1>3, <1>4, <1>5, <1>6, <1>7, <1>8, <1>9 DEF Next, Run

LEMMA Inductive == Spec => []IInv
BY InitIInv, NextKeeps, PTL DEF Spec

LEMMA SumsRight == IInv => LedgerAddsUp
<1> SUFFICES ASSUME IInv PROVE LedgerAddsUp
  OBVIOUS
<1>1. Conservation
  <2>1. \A s \in Slots : On(ledger, s) = {m \in ledger : m.slot = s}
    BY DEF On
  <2>2. \A s \in Slots : balance[s] = Opening[s] + Delta(On(ledger, s))
    BY DEF IInv, Registered, Conserved
  <2> QED
    BY <2>1, <2>2 DEF Conservation
<1>2. LotsMatchAggregate
  BY DEF IInv, Registered, LotsMatchAggregate, Total
<1>3. ChainById
  <2>1. \A m \in ledger : Till(ledger, m.slot, m.id) = {o \in ledger : o.slot = m.slot /\ o.id <= m.id}
    BY DEF Till
  <2>2. \A m \in ledger : m.after = Opening[m.slot] + Delta(Till(ledger, m.slot, m.id))
    BY DEF IInv, Registered, RightAlong
  <2> QED
    BY <2>1, <2>2 DEF ChainById
<1> QED
  BY <1>1, <1>2, <1>3 DEF IInv, LedgerAddsUp

LEMMA JobsWhole == IInv => WholeJob
<1> SUFFICES ASSUME IInv, NEW t \in Txns
    PROVE  Cardinality({m \in ledger : m.txn = t}) =
             IF txn[t].pc = "committed"
             THEN Cardinality({i \in DOMAIN Script[t] : Script[t][i].op = "move"}) ELSE 0
  BY DEF WholeJob
<1>1. CASE txn[t].pc = "committed"
  <2>1. DOMAIN Script[t] = 1..Len(Script[t])
    BY ScriptAt DEF IInv
  <2>2. Moves(t, Len(Script[t])) = {i \in DOMAIN Script[t] : Script[t][i].op = "move"}
    BY <2>1 DEF Moves
  <2>3. Cardinality({m \in ledger : m.txn = t}) = Cardinality(Moves(t, Len(Script[t])))
    BY <1>1 DEF IInv, Counted
  <2> QED
    BY <1>1, <2>2, <2>3
<1>2. CASE txn[t].pc # "committed"
  <2>1. {m \in ledger : m.txn = t} = {}
    BY <1>2 DEF IInv, Registered
  <2>2. Cardinality({m \in ledger : m.txn = t}) = 0
    BY <2>1, FS_EmptySet
  <2> QED
    BY <1>2, <2>2
<1> QED
  BY <1>1, <1>2

LEMMA LargestSlot ==
  ASSUME NEW Q \in SUBSET Slots, Q # {}
  PROVE  \E r \in Q : \A s \in Q : s <= r
<1> DEFINE P == {T \in SUBSET Q : T = {} \/ \E r \in T : \A s \in T : s <= r}
<1>1. IsFiniteSet(Q) /\ Q \subseteq Nat
  BY LedgerAssumption, FS_Subset, SlotsAreNat
<1>2. ASSUME NEW T \in SUBSET Q, NEW x \in Q \ T, T \in P PROVE T \cup {x} \in P
  <2>1. CASE T = {}
    BY <1>1, <2>1
  <2>2. CASE T # {}
    <3>1. PICK r \in T : \A s \in T : s <= r
      BY <1>2, <2>2
    <3>2. CASE x <= r
      BY <3>1, <3>2
    <3>3. CASE ~(x <= r)
      <4>1. \A s \in T \cup {x} : s <= x
        BY <1>1, <3>1, <3>3
      <4> QED
        BY <4>1
    <3> QED
      BY <3>2, <3>3
  <2> QED
    BY <2>1, <2>2
<1>3. {} \in P
  OBVIOUS
<1>4. Q \in P
  <2> HIDE DEF P
  <2> QED
    BY <1>1, <1>2, <1>3, AddingElements
<1> QED
  BY <1>4

LEMMA NoCheckCircle == IInv => ChecksNeverCircle
<1> SUFFICES ASSUME IInv, NEW S \in LockCycles, \A t \in S : Current(t).op # "move" PROVE FALSE
  BY DEF ChecksNeverCircle
<1>0. TypeOK /\ S \in SUBSET Txns /\ S # {} /\ \A t \in S : WaitsFor(t) \in S /\ WaitsFor(t) # None
  BY DEF IInv, LockCycles, Blocked
<1>1. ASSUME NEW t \in S
      PROVE  /\ t \in Txns /\ Running(t) /\ ~AtEnd(t) /\ Current(t).op \in {"check", "number"}
             /\ lock[Current(t).slot] = WaitsFor(t) /\ WaitsFor(t) # t
             /\ Current(t).slot \in Slots \cup {NumberRow}
             /\ Current(t).op = "number" <=> Current(t).slot = NumberRow
  <2>1. t \in Txns /\ Running(t) /\ ~AtEnd(t) /\ ~Free(Current(t).slot, t)
        /\ lock[Current(t).slot] = WaitsFor(t)
    BY <1>0 DEF WaitsFor
  <2> QED
    BY <1>0, <2>1, ScriptAt, SlotsAreNat DEF Free
<1>2. ASSUME NEW t \in S, NEW u \in S, u = WaitsFor(t)
      PROVE  \E i \in 1..(txn[u].step - 1) : Script[u][i].slot = Current(t).slot
  <2>1. Held(Current(t).slot) /\ lock[Current(t).slot] = u /\ u # None
    BY <1>0, <1>1, <1>2 DEF IInv
  <2> QED
    BY <2>1 DEF Held
<1>3. ASSUME NEW u \in S, NEW i \in 1..(txn[u].step - 1)
      PROVE  /\ txn[u].step \in 1..Len(Script[u]) /\ i \in 1..Len(Script[u]) /\ i \in 1..txn[u].step
             /\ txn[u].step \in (i + 1)..Len(Script[u]) /\ Current(u) = Script[u][txn[u].step]
             /\ Len(Script[u]) \in Nat
  BY <1>0, <1>1, ScriptAt DEF Current
<1>4. ASSUME NEW u \in S PROVE WellOrdered(Script[u])
  BY <1>1, ScriptsWellOrdered
<1>5. ASSUME NEW t \in S PROVE Current(t).op = "check"
  <2> SUFFICES ASSUME Current(t).slot = NumberRow PROVE FALSE
    BY <1>1
  <2> DEFINE u == WaitsFor(t)
  <2>1. u \in S
    BY <1>0
  <2>2. PICK i \in 1..(txn[u].step - 1) : Script[u][i].slot = NumberRow
    BY <1>2, <2>1
  <2> HIDE DEF u
  <2>3. Script[u][i].op = "number"
    BY <1>3, <1>4, <2>1, <2>2 DEF WellOrdered
  <2>4. Script[u][txn[u].step].op = "move"
    BY <1>3, <1>4, <2>1, <2>2, <2>3 DEF WellOrdered
  <2> QED
    BY <1>1, <1>3, <2>1, <2>4
<1>6. ASSUME NEW t \in S
      PROVE  \E u \in S : Current(u).slot > Current(t).slot
  <2> DEFINE u == WaitsFor(t)
  <2>1. u \in S
    BY <1>0
  <2>2. PICK i \in 1..(txn[u].step - 1) : Script[u][i].slot = Current(t).slot
    BY <1>2, <2>1
  <2>3. Script[u][txn[u].step].op = "check" /\ Current(u) = Script[u][txn[u].step]
    BY <1>3, <1>5, <2>1, <2>2
  <2>4. Current(t).slot <= Current(u).slot
    BY <1>3, <1>4, <2>1, <2>2, <2>3 DEF WellOrdered
  <2>5. Current(t).slot # Current(u).slot
    BY <1>1, <2>1
  <2>6. Current(t).slot \in Nat /\ Current(u).slot \in Nat
    <3>1. Current(t).slot \in Slots /\ Current(u).slot \in Slots
      BY <1>1, <1>5, <2>1
    <3> QED
      BY <3>1, SlotsAreNat
  <2> QED
    BY <2>1, <2>4, <2>5, <2>6
<1> DEFINE Q == {Current(t).slot : t \in S}
<1>7. Q \in SUBSET Slots /\ Q # {}
  BY <1>0, <1>1, <1>5
<1>8. PICK r \in Q : \A s \in Q : s <= r
  BY <1>7, LargestSlot
<1>9. PICK t \in S : r = Current(t).slot
  BY <1>8
<1>10. PICK u \in S : Current(u).slot > r
  BY <1>6, <1>9
<1>11. Current(u).slot <= r /\ Current(u).slot \in Nat /\ r \in Nat
  BY <1>7, <1>8, <1>9, <1>10, SlotsAreNat
<1> QED
  BY <1>10, <1>11

(* Type correctness and the sums: for any jobs of the seven kinds, any     *)
(* opening stock and any number of transactions, every balance is the      *)
(* opening plus its movements, the lots of a prepared material add up to   *)
(* its balance, balance_after is right at every place of the register, and *)
(* _apply_prepared_lot_delta never finds that they disagree.               *)
THEOREM LedgerSound == Spec => []LedgerAddsUp
BY Inductive, SumsRight, PTL

(* A job leaves all its movements or none: apply_movement flushes inside    *)
(* the transaction of its caller.                                          *)
THEOREM NoHalfJob == Spec => []WholeJob
BY Inductive, JobsWhole, PTL

(* Every circle of waiting transactions has one that waits for a balance   *)
(* it moves: the checks, which take the balances in product order, and the *)
(* preparation number after them never make a circle of their own.         *)
THEOREM OrderedChecks == Spec => []ChecksNeverCircle
BY Inductive, NoCheckCircle, PTL

-----------------------------------------------------------------------------
(***************************************************************************)
(* KilnBatches: the volume of pieces, and the pieces in some batches.      *)
(***************************************************************************)
LEMMA ProductOfNats == \A n, v \in Nat : n * v \in Nat /\ (n * v = 0 <=> n = 0 \/ v = 0)
OBVIOUS

LEMMA SumTimes == \A m, n, v \in Nat : (m + n) * v = m * v + n * v
OBVIOUS

LEMMA VolumeIs ==
  ASSUME NEW items
  PROVE  VolumeOf(items) = Total([l \in Lines |-> items[l] * Volume[l]], Lines)
BY DEF VolumeOf, Total, SumFunction

LEMMA VolumeType ==
  ASSUME NEW a \in [Lines -> Nat]
  PROVE  VolumeOf(a) \in Nat
<1> DEFINE f == [l \in Lines |-> a[l] * Volume[l]]
<1>1. \A l \in Lines : a[l] \in Nat /\ Volume[l] \in Nat
  BY KilnAssumption
<1>2. \A l \in Lines : f[l] \in Nat
  BY <1>1, ProductOfNats
<1>3. IsFiniteSet(Lines)
  BY KilnAssumption
<1> HIDE DEF f
<1>4. Total(f, Lines) \in Nat
  BY <1>2, <1>3, TotalNat
<1> QED
  BY <1>4, VolumeIs DEF f

LEMMA VolumePlus ==
  ASSUME NEW a \in [Lines -> Nat], NEW b \in [Lines -> Nat], NEW c \in [Lines -> Nat],
         \A l \in Lines : c[l] = a[l] + b[l]
  PROVE  VolumeOf(c) = VolumeOf(a) + VolumeOf(b)
<1> DEFINE f == [l \in Lines |-> a[l] * Volume[l]]
           g == [l \in Lines |-> b[l] * Volume[l]]
           h == [l \in Lines |-> c[l] * Volume[l]]
<1>1. \A l \in Lines : a[l] \in Nat /\ b[l] \in Nat /\ Volume[l] \in Nat
  BY KilnAssumption
<1>2. \A l \in Lines : f[l] \in Int /\ g[l] \in Int
  BY <1>1, ProductOfNats
<1>3. \A l \in Lines : h[l] = f[l] + g[l]
  BY <1>1, SumTimes
<1>4. IsFiniteSet(Lines)
  BY KilnAssumption
<1>5. VolumeOf(a) = Total(f, Lines) /\ VolumeOf(b) = Total(g, Lines) /\ VolumeOf(c) = Total(h, Lines)
  BY VolumeIs
<1> HIDE DEF f, g, h
<1>6. Total(h, Lines) = Total(f, Lines) + Total(g, Lines)
  BY <1>2, <1>3, <1>4, TotalPlus
<1> QED
  BY <1>5, <1>6

(* Pieces with measures are as good as none only where there are none. *)
LEMMA VolumeNone ==
  ASSUME NEW a \in [Lines -> Nat], \A l \in Lines : a[l] > 0 => Volume[l] > 0
  PROVE  VolumeOf(a) = 0 <=> \A l \in Lines : a[l] = 0
<1> DEFINE f == [l \in Lines |-> a[l] * Volume[l]]
<1>1. \A l \in Lines : a[l] \in Nat /\ Volume[l] \in Nat
  BY KilnAssumption
<1>2. \A l \in Lines : f[l] \in Nat /\ (f[l] = 0 <=> a[l] = 0)
  BY <1>1, ProductOfNats
<1>3. IsFiniteSet(Lines)
  BY KilnAssumption
<1>4. VolumeOf(a) = Total(f, Lines)
  BY VolumeIs
<1> HIDE DEF f
<1>5. ASSUME Total(f, Lines) = 0, NEW l \in Lines PROVE f[l] = 0
  <2>1. f[l] <= Total(f, Lines)
    BY <1>2, <1>3, TotalElement
  <2> QED
    BY <1>2, <1>5, <2>1
<1>6. ASSUME \A l \in Lines : f[l] = 0 PROVE Total(f, Lines) = 0
  BY <1>3, <1>6, TotalZero
<1> QED
  BY <1>2, <1>4, <1>5, <1>6

PlanType == [Batches -> [Lines -> Nat]]

LEMMA PiecesAre ==
  ASSUME NEW P, NEW l, NEW bs
  PROVE  InBatches(P, l, bs) = Total([b \in bs |-> P[b][l]], bs)
BY DEF InBatches, Total, SumFunction

LEMMA BatchesFinite ==
  ASSUME NEW bs \in SUBSET Batches
  PROVE  IsFiniteSet(bs)
BY FS_Subset, KilnAssumption

LEMMA PiecesType ==
  ASSUME NEW P \in PlanType, NEW l \in Lines, NEW bs \in SUBSET Batches
  PROVE  InBatches(P, l, bs) \in Nat
<1> DEFINE f == [b \in bs |-> P[b][l]]
<1>1. \A b \in bs : f[b] \in Nat
  BY DEF PlanType
<1>2. IsFiniteSet(bs)
  BY BatchesFinite
<1> HIDE DEF f
<1>3. Total(f, bs) \in Nat
  BY <1>1, <1>2, TotalNat
<1> QED
  BY <1>3, PiecesAre DEF f

LEMMA PiecesSame ==
  ASSUME NEW P \in PlanType, NEW Q \in PlanType, NEW l \in Lines, NEW bs \in SUBSET Batches,
         \A b \in bs : Q[b][l] = P[b][l]
  PROVE  InBatches(Q, l, bs) = InBatches(P, l, bs)
<1> DEFINE f == [b \in bs |-> P[b][l]]
           g == [b \in bs |-> Q[b][l]]
<1>1. \A b \in bs : f[b] = g[b]
  OBVIOUS
<1>2. IsFiniteSet(bs)
  BY BatchesFinite
<1>3. InBatches(P, l, bs) = Total(f, bs) /\ InBatches(Q, l, bs) = Total(g, bs)
  BY PiecesAre
<1> HIDE DEF f, g
<1>4. Total(f, bs) = Total(g, bs)
  BY <1>1, <1>2, TotalEqual
<1> QED
  BY <1>3, <1>4

(* Fewer batches have fewer pieces, ... *)
LEMMA PiecesPart ==
  ASSUME NEW P \in PlanType, NEW l \in Lines, NEW bs \in SUBSET Batches, NEW cs \in SUBSET bs
  PROVE  /\ InBatches(P, l, cs) <= InBatches(P, l, bs)
         /\ (\A b \in bs \ cs : P[b][l] = 0) => InBatches(P, l, cs) = InBatches(P, l, bs)
<1> DEFINE f == [b \in bs |-> P[b][l]]
           g == [b \in cs |-> P[b][l]]
<1>1. \A b \in cs : g[b] = f[b]
  OBVIOUS
<1>2. \A b \in bs : f[b] \in Nat /\ f[b] = P[b][l]
  BY DEF PlanType
<1>3. IsFiniteSet(bs) /\ IsFiniteSet(cs)
  BY BatchesFinite, FS_Subset
<1>4. InBatches(P, l, bs) = Total(f, bs) /\ InBatches(P, l, cs) = Total(g, cs)
  BY PiecesAre
<1> HIDE DEF f, g
<1>5. Total(g, cs) = Total(f, cs)
  BY <1>1, <1>3, TotalEqual
<1>6. Total(f, cs) <= Total(f, bs)
  BY <1>2, <1>3, TotalPart
<1>7. ASSUME \A b \in bs \ cs : P[b][l] = 0 PROVE Total(f, cs) = Total(f, bs)
  BY <1>2, <1>3, <1>7, TotalWithout
<1> QED
  BY <1>4, <1>5, <1>6, <1>7

(* ... and what one batch gets or gives counts once. *)
LEMMA PiecesMore ==
  ASSUME NEW P \in PlanType, NEW Q \in PlanType, NEW l \in Lines, NEW bs \in SUBSET Batches,
         NEW x \in bs, NEW d \in Int, Q[x][l] = P[x][l] + d, \A b \in bs \ {x} : Q[b][l] = P[b][l]
  PROVE  InBatches(Q, l, bs) = InBatches(P, l, bs) + d
<1> DEFINE f == [b \in bs |-> P[b][l]]
           g == [b \in bs |-> Q[b][l]]
<1>1. (\A b \in bs \ {x} : g[b] = f[b]) /\ g[x] = f[x] + d
  OBVIOUS
<1>2. \A b \in bs : f[b] \in Int
  BY DEF PlanType
<1>3. IsFiniteSet(bs)
  BY BatchesFinite
<1>4. InBatches(P, l, bs) = Total(f, bs) /\ InBatches(Q, l, bs) = Total(g, bs)
  BY PiecesAre
<1> HIDE DEF f, g
<1>5. Total(g, bs) = Total(f, bs) + d
  BY <1>1, <1>2, <1>3, TotalBump
<1> QED
  BY <1>4, <1>5

-----------------------------------------------------------------------------
(***************************************************************************)
(* KilnBatches: what changes of the rows keep them sound, whatever they    *)
(* are.  No variable occurs in this part.                                  *)
(***************************************************************************)

LEMMA RowFields ==
  ASSUME NEW row \in BatchRow
  PROVE  /\ row.cycle \in Cycles /\ row.status \in Stages /\ row.filled \in Nat
         /\ row.exclusive \in BOOLEAN /\ row.version \in Nat \ {0}
BY DEF BatchRow

LEMMA RowsTyped ==
  ASSUME NEW B, NEW P, RowsOK(B, P)
  PROVE  /\ P \in PlanType
         /\ \A b \in Batches : B[b] # Nil => B[b] \in BatchRow
         /\ \A b \in Batches, l \in Lines : P[b][l] \in Nat
BY DEF RowsOK, PlanType

LEMMA KeptFor ==
  ASSUME NEW B, NEW P, Sound(B, P), NEW b \in Batches, B[b] # Nil
  PROVE  B[b].exclusive <=> \E l \in InKiln(P, b) : Owner[l] \in Alone
BY Zenon DEF Sound, ExclusiveAlone

(* What a row says besides its stage, if it changes, asks for nothing new. *)
LEMMA StageSound ==
  ASSUME NEW B, NEW C, NEW P, Sound(B, P), RowsOK(C, P), NoRawHigh(C, P),
         \A b \in Batches : B[b] = Nil <=> C[b] = Nil,
         \A b \in Batches : C[b] # Nil =>
           C[b].cycle = B[b].cycle /\ C[b].filled = B[b].filled /\ C[b].exclusive = B[b].exclusive
  PROVE  Sound(C, P)
<1>1. \A c \in Cycles : OfCycle(C, c) = OfCycle(B, c)
  BY DEF OfCycle
<1>2. PiecesOnce(C, P)
  BY <1>1 DEF PiecesOnce, Sound
<1>3. CounterIsVolume(C, P)
  BY DEF CounterIsVolume, Sound
<1>4. ExclusiveAlone(C, P)
  BY DEF ExclusiveAlone, Sound
<1>5. Planned(C, P)
  BY DEF Planned, InKiln, Sound
<1> QED
  BY <1>2, <1>3, <1>4, <1>5 DEF Sound

(* A batch that is not lit is neither in the high fire nor out of the low.  *)
LEMMA UnlitSame ==
  ASSUME NEW B, NEW C, NEW b \in Batches,
         B[b] = Nil \/ B[b].status = "PLANNED",
         C[b] = Nil \/ C[b].status \in {"PLANNED", "CANCELLED"},
         \A a \in Batches \ {b} : C[a] = B[a]
  PROVE  /\ LitHigh(C) = LitHigh(B) /\ FiredLow(C) = FiredLow(B)
         /\ b \notin LitHigh(B) /\ b \notin FiredLow(B)
BY DEF LitHigh, FiredLow, InState, OfCycle

LEMMA UnlitKeepsFires ==
  ASSUME NEW B, NEW C, NEW P \in PlanType, NEW Q \in PlanType, NEW b \in Batches, NoRawHigh(B, P),
         B[b] = Nil \/ B[b].status = "PLANNED",
         C[b] = Nil \/ C[b].status \in {"PLANNED", "CANCELLED"},
         \A a \in Batches \ {b} : C[a] = B[a] /\ Q[a] = P[a]
  PROVE  NoRawHigh(C, Q)
<1>1. /\ LitHigh(C) = LitHigh(B) /\ FiredLow(C) = FiredLow(B)
      /\ b \notin LitHigh(B) /\ b \notin FiredLow(B)
  BY UnlitSame
<1>2. LitHigh(B) \in SUBSET Batches /\ FiredLow(B) \in SUBSET Batches
  BY DEF LitHigh, FiredLow, InState, OfCycle
<1>3. ASSUME NEW l \in Lines
      PROVE  /\ InBatches(Q, l, LitHigh(B)) = InBatches(P, l, LitHigh(B))
             /\ InBatches(Q, l, FiredLow(B)) = InBatches(P, l, FiredLow(B))
  BY <1>1, <1>2, PiecesSame
<1> QED
  BY <1>1, <1>3 DEF NoRawHigh

LEMMA OpenSound ==
  ASSUME NEW B, NEW P, Sound(B, P), NEW b \in Batches, B[b] = Nil, NEW row \in BatchRow,
         row.status = "PLANNED", row.filled = 0, row.exclusive = FALSE
  PROVE  Sound([B EXCEPT ![b] = row], P)
<1> DEFINE C == [B EXCEPT ![b] = row]
<1>1. RowsOK(B, P) /\ P \in PlanType
  BY RowsTyped DEF Sound
<1>2. C[b] = row /\ \A a \in Batches \ {b} : C[a] = B[a]
  BY <1>1 DEF RowsOK
<1>3. RowsOK(C, P)
  BY <1>1 DEF RowsOK
<1>4. \A l \in Lines : P[b][l] = 0
  BY RowsTyped DEF Sound, Planned, InKiln
<1>5. row # Nil
  BY OpeningAssumption
<1> HIDE DEF C
<1>6. NoRawHigh(C, P)
  BY <1>1, <1>2, UnlitKeepsFires DEF Sound
<1>7. PiecesOnce(C, P)
  <2> SUFFICES ASSUME NEW l \in Lines, NEW c \in Cycles
               PROVE  InBatches(P, l, OfCycle(C, c)) <= Pieces[l]
    BY DEF PiecesOnce
  <2>1. OfCycle(B, c) \subseteq OfCycle(C, c) /\ OfCycle(C, c) \in SUBSET Batches
    BY <1>2 DEF OfCycle
  <2>2. \A a \in OfCycle(C, c) \ OfCycle(B, c) : P[a][l] = 0
    BY <1>2, <1>4 DEF OfCycle
  <2>3. InBatches(P, l, OfCycle(B, c)) = InBatches(P, l, OfCycle(C, c))
    BY <1>1, <2>1, <2>2, PiecesPart
  <2> QED
    BY <2>3 DEF Sound, PiecesOnce
<1>8. CounterIsVolume(C, P)
  <2>1. P[b] \in [Lines -> Nat]
    BY <1>1 DEF PlanType
  <2>2. VolumeOf(P[b]) = 0
    BY <1>4, <2>1, VolumeNone
  <2>3. 0 <= Capacity[b]
    BY KilnAssumption
  <2> QED
    BY <1>2, <2>2, <2>3 DEF Sound, CounterIsVolume
<1>9. ExclusiveAlone(C, P)
  <2>1. InKiln(P, b) = {}
    BY <1>4 DEF InKiln
  <2> QED
    BY <1>2, <2>1 DEF Sound, ExclusiveAlone
<1>10. Planned(C, P)
  BY <1>2, <1>5 DEF Sound, Planned
<1> QED
  BY <1>3, <1>6, <1>7, <1>8, <1>9, <1>10 DEF Sound, C

(* Pieces taken out of a batch that waits. *)
LEMMA TakeSound ==
  ASSUME NEW B, NEW P, Sound(B, P), NEW b \in Batches, B[b] # Nil, B[b].status = "PLANNED",
         NEW items \in [Lines -> Nat], \A l \in Lines : items[l] <= P[b][l]
  PROVE  /\ Sound([B EXCEPT ![b] = Emptier(@, items)], TakenOut(P, b, items))
         /\ Emptier(B[b], items) \in BatchRow
<1> DEFINE C == [B EXCEPT ![b] = Emptier(@, items)]
           Q == TakenOut(P, b, items)
           row == B[b]
<1>1. RowsOK(B, P) /\ P \in PlanType /\ row \in BatchRow
  BY RowsTyped DEF Sound
<1>2. /\ C[b] = Emptier(row, items) /\ \A a \in Batches \ {b} : C[a] = B[a]
      /\ Q[b] = [l \in Lines |-> P[b][l] - items[l]] /\ \A a \in Batches \ {b} : Q[a] = P[a]
  BY <1>1 DEF RowsOK, TakenOut
<1>3. \A l \in Lines : /\ P[b][l] \in Nat /\ items[l] \in Nat
                       /\ Q[b][l] = P[b][l] - items[l] /\ Q[b][l] \in Nat
                       /\ P[b][l] = Q[b][l] + items[l]
  BY <1>1, <1>2 DEF PlanType
<1>4. Q[b] \in [Lines -> Nat] /\ P[b] \in [Lines -> Nat]
  BY <1>1, <1>2, <1>3 DEF PlanType
<1>5. VolumeOf(P[b]) = VolumeOf(Q[b]) + VolumeOf(items) /\ VolumeOf(Q[b]) \in Nat /\ VolumeOf(items) \in Nat
  <2> HIDE DEF Q
  <2> QED BY <1>3, <1>4, VolumePlus, VolumeType
<1>6. row.filled = VolumeOf(P[b]) /\ row.filled <= Capacity[b] /\ Capacity[b] \in Nat
  BY KilnAssumption DEF Sound, CounterIsVolume
<1>7. /\ C[b].cycle = row.cycle /\ C[b].status = "PLANNED" /\ C[b].filled = VolumeOf(Q[b])
      /\ C[b].exclusive = (row.exclusive /\ VolumeOf(Q[b]) > 0)
      /\ C[b] \in BatchRow
  <2>1. row.filled - VolumeOf(items) = VolumeOf(Q[b]) /\ (row.filled > VolumeOf(items) <=> VolumeOf(Q[b]) > 0)
    <3> HIDE DEF C, Q, row
    <3> QED BY <1>5, <1>6
  <2>2. C[b] = [row EXCEPT !.filled = VolumeOf(Q[b]), !.exclusive = row.exclusive /\ row.filled > VolumeOf(items),
                           !.version = row.version + 1]
    BY <1>2, <2>1 DEF Emptier
  <2> HIDE DEF C, Q, row
  <2>3. (row.exclusive /\ row.filled > VolumeOf(items)) = (row.exclusive /\ VolumeOf(Q[b]) > 0)
    BY <2>1
  <2>4. row.version + 1 \in Nat \ {0}
    BY <1>1, RowFields
  <2> QED
    BY <1>1, <1>5, <2>2, <2>3, <2>4 DEF BatchRow, row
<1> HIDE DEF C, Q
<1>8. C[b] # Nil
  BY <1>7, OpeningAssumption
<1>9. RowsOK(C, Q) /\ Q \in PlanType
  BY <1>1, <1>2, <1>4, <1>7 DEF RowsOK, PlanType, C, Q, TakenOut
<1>10. NoRawHigh(C, Q)
  BY <1>1, <1>2, <1>7, <1>9, UnlitKeepsFires DEF Sound
<1>11. PiecesOnce(C, Q)
  <2> SUFFICES ASSUME NEW l \in Lines, NEW c \in Cycles
               PROVE  InBatches(Q, l, OfCycle(C, c)) <= Pieces[l]
    BY DEF PiecesOnce
  <2>1. OfCycle(C, c) = OfCycle(B, c) /\ OfCycle(B, c) \in SUBSET Batches
    BY <1>2, <1>7, <1>8 DEF OfCycle
  <2>2. InBatches(P, l, OfCycle(B, c)) <= Pieces[l] /\ Pieces[l] \in Nat
    BY KilnAssumption DEF Sound, PiecesOnce
  <2>3. InBatches(P, l, OfCycle(B, c)) \in Nat
    BY <1>1, <2>1, PiecesType
  <2>4. CASE b \in OfCycle(B, c)
    <3>1. Q[b][l] = P[b][l] + (- items[l]) /\ - items[l] \in Int
      BY <1>3
    <3>2. InBatches(Q, l, OfCycle(B, c)) = InBatches(P, l, OfCycle(B, c)) + (- items[l])
      BY <1>1, <1>2, <1>9, <2>1, <2>4, <3>1, PiecesMore
    <3> QED
      BY <1>3, <2>1, <2>2, <2>3, <3>2
  <2>5. CASE b \notin OfCycle(B, c)
    <3>1. InBatches(Q, l, OfCycle(B, c)) = InBatches(P, l, OfCycle(B, c))
      BY <1>1, <1>2, <1>9, <2>1, <2>5, PiecesSame
    <3> QED
      BY <2>1, <2>2, <3>1
  <2> QED
    BY <2>4, <2>5
<1>12. CounterIsVolume(C, Q)
  <2>1. C[b].filled <= Capacity[b]
    BY <1>5, <1>6, <1>7
  <2> QED
    BY <1>2, <1>7, <2>1 DEF Sound, CounterIsVolume
<1>13. InKiln(Q, b) \subseteq InKiln(P, b)
  BY <1>3 DEF InKiln
<1>14. Planned(C, Q)
  BY <1>2, <1>8, <1>13 DEF Sound, Planned, InKiln
<1>15. ExclusiveAlone(C, Q)
  <2>1. ASSUME NEW s \in Alone, \E l \in InKiln(Q, b) : Owner[l] = s PROVE Others(Q, b, s) = {}
    BY <1>13, <2>1 DEF Sound, ExclusiveAlone, Others
  <2>2. ASSUME NEW l \in InKiln(Q, b), Owner[l] \in Alone PROVE C[b].exclusive
    <3>1. row.exclusive
      BY <1>13, <2>2, KeptFor
    <3>2. Q[b][l] # 0 /\ l \in Lines
      BY <2>2, <1>3 DEF InKiln
    <3>3. \A k \in Lines : Q[b][k] > 0 => Volume[k] > 0
      BY <1>13 DEF InKiln, Sound, Planned
    <3>4. VolumeOf(Q[b]) # 0
      BY <1>4, <3>2, <3>3, VolumeNone
    <3>5. row.exclusive /\ VolumeOf(Q[b]) > 0
      BY <1>5, <3>1, <3>4
    <3> QED
      BY <1>7, <3>5, Zenon
  <2>3. ASSUME C[b].exclusive PROVE \E l \in InKiln(Q, b) : Owner[l] \in Alone
    <3>0. row.exclusive /\ VolumeOf(Q[b]) > 0
      BY <1>7, <2>3, Zenon
    <3>1. row.exclusive /\ VolumeOf(Q[b]) # 0
      BY <1>5, <3>0
    <3>2. PICK k \in InKiln(P, b) : Owner[k] \in Alone
      BY <3>1, KeptFor
    <3>3. \A l \in InKiln(P, b) : Owner[l] = Owner[k]
      BY <3>2 DEF Sound, ExclusiveAlone, Others
    <3>4. \A l \in Lines : Q[b][l] > 0 => Volume[l] > 0
      BY <1>13 DEF InKiln, Sound, Planned
    <3>5. PICK l \in Lines : Q[b][l] # 0
      BY <1>4, <3>1, <3>4, VolumeNone
    <3>6. l \in InKiln(Q, b)
      BY <1>3, <3>5 DEF InKiln
    <3> QED
      BY <1>13, <3>2, <3>3, <3>6
  <2>4. \A a \in Batches \ {b} : InKiln(Q, a) = InKiln(P, a) /\ \A s : Others(Q, a, s) = Others(P, a, s)
    BY <1>2 DEF InKiln, Others
  <2>5. C[b].exclusive \in BOOLEAN
    BY <1>7, RowFields
  <2> SUFFICES ASSUME NEW a \in Batches, C[a] # Nil
               PROVE  /\ \A s \in Alone : (\E l \in InKiln(Q, a) : Owner[l] = s) => Others(Q, a, s) = {}
                      /\ C[a].exclusive <=> \E l \in InKiln(Q, a) : Owner[l] \in Alone
    BY DEF ExclusiveAlone
  <2>6. CASE a = b
    BY <2>1, <2>2, <2>3, <2>5, <2>6
  <2>7. CASE a # b
    BY <1>2, <2>4, <2>7 DEF Sound, ExclusiveAlone
  <2> QED
    BY <2>6, <2>7
<1>16. Emptier(B[b], items) \in BatchRow
  BY <1>2, <1>7
<1> QED
  BY <1>9, <1>10, <1>11, <1>12, <1>14, <1>15, <1>16 DEF Sound, C, Q

(* Pieces put into a batch that waits, has room for them and may take them. *)
LEMMA PutSound ==
  ASSUME NEW B, NEW P, Sound(B, P), NEW b \in Batches, B[b] # Nil, B[b].status = "PLANNED",
         NEW s \in Sources, NEW items \in [Lines -> Nat], Asked(items) # {},
         \A l \in Asked(items) :
           /\ Owner[l] = s /\ Volume[l] > 0
           /\ items[l] <= Pieces[l] - InBatches(P, l, OfCycle(B, B[b].cycle)),
         B[b].filled + VolumeOf(items) <= Capacity[b],
         B[b].exclusive \/ s \in Alone => Others(P, b, s) = {}
  PROVE  /\ Sound([B EXCEPT ![b] = Fuller(@, s, items)], PutIn(P, b, items))
         /\ Fuller(B[b], s, items) \in BatchRow
<1> DEFINE C == [B EXCEPT ![b] = Fuller(@, s, items)]
           Q == PutIn(P, b, items)
           row == B[b]
<1>1. RowsOK(B, P) /\ P \in PlanType /\ row \in BatchRow
  BY RowsTyped DEF Sound
<1>2. /\ C[b] = Fuller(row, s, items) /\ \A a \in Batches \ {b} : C[a] = B[a]
      /\ Q[b] = [l \in Lines |-> P[b][l] + items[l]] /\ \A a \in Batches \ {b} : Q[a] = P[a]
  BY <1>1 DEF RowsOK, PutIn
<1>3. \A l \in Lines : /\ P[b][l] \in Nat /\ items[l] \in Nat
                       /\ Q[b][l] = P[b][l] + items[l] /\ Q[b][l] \in Nat
  BY <1>1, <1>2 DEF PlanType
<1>4. Q[b] \in [Lines -> Nat] /\ P[b] \in [Lines -> Nat]
  BY <1>1, <1>2, <1>3 DEF PlanType
<1>5. VolumeOf(Q[b]) = VolumeOf(P[b]) + VolumeOf(items) /\ VolumeOf(P[b]) \in Nat /\ VolumeOf(items) \in Nat
  <2> HIDE DEF Q
  <2> QED BY <1>3, <1>4, VolumePlus, VolumeType
<1>6. row.filled = VolumeOf(P[b]) /\ row.filled <= Capacity[b] /\ Capacity[b] \in Nat
  BY KilnAssumption DEF Sound, CounterIsVolume
<1>7. /\ C[b].cycle = row.cycle /\ C[b].status = "PLANNED" /\ C[b].filled = VolumeOf(Q[b])
      /\ C[b].exclusive = (row.exclusive \/ s \in Alone)
      /\ C[b] \in BatchRow
  <2>1. row.filled + VolumeOf(items) = VolumeOf(Q[b]) /\ VolumeOf(Q[b]) \in Nat
    <3> HIDE DEF C, Q, row
    <3> QED BY <1>5, <1>6
  <2>2. C[b] = [row EXCEPT !.filled = VolumeOf(Q[b]), !.exclusive = row.exclusive \/ s \in Alone,
                           !.version = row.version + 1]
    BY <1>2, <2>1 DEF Fuller
  <2> HIDE DEF C, Q, row
  <2>4. row.version + 1 \in Nat \ {0}
    BY <1>1, RowFields
  <2> QED
    BY <1>1, <2>1, <2>2, <2>4 DEF BatchRow, row
<1> HIDE DEF C, Q
<1>8. C[b] # Nil
  BY <1>7, OpeningAssumption
<1>9. RowsOK(C, Q) /\ Q \in PlanType
  BY <1>1, <1>2, <1>4, <1>7 DEF RowsOK, PlanType, C, Q, PutIn
<1>10. NoRawHigh(C, Q)
  BY <1>1, <1>2, <1>7, <1>9, UnlitKeepsFires DEF Sound
<1>11. PiecesOnce(C, Q)
  <2> SUFFICES ASSUME NEW l \in Lines, NEW c \in Cycles
               PROVE  InBatches(Q, l, OfCycle(C, c)) <= Pieces[l]
    BY DEF PiecesOnce
  <2>1. OfCycle(C, c) = OfCycle(B, c) /\ OfCycle(B, c) \in SUBSET Batches
    BY <1>2, <1>7, <1>8 DEF OfCycle
  <2>2. InBatches(P, l, OfCycle(B, c)) <= Pieces[l] /\ Pieces[l] \in Nat
    BY KilnAssumption DEF Sound, PiecesOnce
  <2>3. InBatches(P, l, OfCycle(B, c)) \in Nat
    BY <1>1, <2>1, PiecesType
  <2>4. CASE b \in OfCycle(B, c)
    <3>1. InBatches(Q, l, OfCycle(B, c)) = InBatches(P, l, OfCycle(B, c)) + items[l]
      BY <1>1, <1>2, <1>3, <1>9, <2>1, <2>4, PiecesMore
    <3>2. row.cycle = c
      BY <2>4 DEF OfCycle
    <3>3. CASE l \in Asked(items)
      <4>1. items[l] <= Pieces[l] - InBatches(P, l, OfCycle(B, c))
        BY <3>2, <3>3
      <4> QED
        BY <1>3, <2>1, <2>2, <2>3, <3>1, <4>1
    <3>4. CASE l \notin Asked(items)
      <4>1. items[l] = 0
        BY <1>3, <3>4 DEF Asked
      <4> QED
        BY <2>1, <2>2, <2>3, <3>1, <4>1
    <3> QED
      BY <3>3, <3>4
  <2>5. CASE b \notin OfCycle(B, c)
    <3>1. InBatches(Q, l, OfCycle(B, c)) = InBatches(P, l, OfCycle(B, c))
      BY <1>1, <1>2, <1>9, <2>1, <2>5, PiecesSame
    <3> QED
      BY <2>1, <2>2, <3>1
  <2> QED
    BY <2>4, <2>5
<1>12. CounterIsVolume(C, Q)
  <2>1. C[b].filled <= Capacity[b]
    BY <1>5, <1>6, <1>7
  <2> QED
    BY <1>2, <1>7, <2>1 DEF Sound, CounterIsVolume
<1>13. InKiln(Q, b) = InKiln(P, b) \cup Asked(items)
  BY <1>3 DEF InKiln, Asked
<1>14. Planned(C, Q)
  BY <1>2, <1>8, <1>13 DEF Sound, Planned, InKiln
<1>15. \A l \in Asked(items) : Owner[l] = s
  OBVIOUS
<1>16. ExclusiveAlone(C, Q)
  <2>1. row.exclusive <=> \E l \in InKiln(P, b) : Owner[l] \in Alone
    BY KeptFor
  (* Kept for another order, it would not have been let through. *)
  <2>2. C[b].exclusive <=> \E l \in InKiln(Q, b) : Owner[l] \in Alone
    <3>1. C[b].exclusive <=> row.exclusive \/ s \in Alone
      BY <1>7, Zenon
    <3>2. (\E l \in InKiln(Q, b) : Owner[l] \in Alone) <=> (\E l \in InKiln(P, b) : Owner[l] \in Alone) \/ s \in Alone
      BY <1>13, <1>15
    <3> QED
      BY <2>1, <3>1, <3>2, Zenon
  <2>3. ASSUME NEW o \in Alone, NEW l \in InKiln(Q, b), Owner[l] = o PROVE Others(Q, b, o) = {}
    <3>1. row.exclusive \/ s \in Alone
      BY <1>13, <1>15, <2>1, <2>3, Zenon
    <3>2. Others(P, b, s) = {}
      BY <3>1, Zenon
    <3>3. \A k \in InKiln(Q, b) : Owner[k] = s
      BY <1>13, <1>15, <3>2 DEF Others
    <3> QED
      BY <2>3, <3>3 DEF Others
  <2>4. \A a \in Batches \ {b} : InKiln(Q, a) = InKiln(P, a) /\ \A o : Others(Q, a, o) = Others(P, a, o)
    BY <1>2 DEF InKiln, Others
  <2> SUFFICES ASSUME NEW a \in Batches, C[a] # Nil
               PROVE  /\ \A o \in Alone : (\E l \in InKiln(Q, a) : Owner[l] = o) => Others(Q, a, o) = {}
                      /\ C[a].exclusive <=> \E l \in InKiln(Q, a) : Owner[l] \in Alone
    BY DEF ExclusiveAlone
  <2>6. CASE a = b
    BY <2>2, <2>3, <2>6
  <2>7. CASE a # b
    BY <1>2, <2>4, <2>7 DEF Sound, ExclusiveAlone
  <2> QED
    BY <2>6, <2>7
<1>17. Fuller(B[b], s, items) \in BatchRow
  BY <1>2, <1>7
<1> QED
  BY <1>9, <1>10, <1>11, <1>12, <1>14, <1>16, <1>17 DEF Sound, C, Q

-----------------------------------------------------------------------------
(***************************************************************************)
(* KilnBatches: the inductive invariant.                                   *)
(***************************************************************************)
Firing == {"START", "CANCEL"}
Source(s) == <<"source", s>>
Targets(r) == {Call(r).to} \cup (IF Is(r, "MOVE") THEN {Call(r).from} ELSE {})

(* Where a request is goes with what it asks for. *)
KilnFits(r) ==
  /\ req[r].pc # "idle" =>
       /\ Call(r) \in Calls
       /\ ~Is(r, "CREATE") => Batch(Call(r).to)
       /\ Is(r, "MOVE") => Batch(Call(r).from)
  /\ ReqAt(r, "key") => Call(r).op \in Keyed
  /\ ReqAt(r, "parent") => Call(r).op \in Planning
  /\ ReqAt(r, "second") => Is(r, "MOVE")
  /\ ReqAt(r, "parents") => Call(r).op \in Firing
  /\ ReqAt(r, "write") => Call(r).op \in Planning \cup Firing \/ Is(r, "LAYOUT")

(* The rows it has locked there. *)
KilnHolds(r) ==
  /\ req[r].pc \in {"parent", "second", "write"} /\ Call(r).op \in Planning =>
       held[Source(Call(r).source)] = r
  /\ ReqAt(r, "second") => held[Row(FirstBatch(r))] = r
  /\ ReqAt(r, "write") => \A b \in Targets(r) : held[Row(b)] = r
  /\ ReqAt(r, "parents") => held[Row(Call(r).to)] = r
  /\ ReqAt(r, "write") /\ Call(r).op \in Firing => Unlocked(r) = {}

(* What it read under those locks, which is still so. *)
KilnKnows(r) ==
  /\ req[r].pc \in {"parents", "write"} /\ Call(r).op \in Firing => batch[Call(r).to].status = "PLANNED"
  /\ ReqAt(r, "write") /\ Is(r, "START") => LowDone(Call(r).to)
  /\ ReqAt(r, "write") /\ Call(r).op \in Planning => Possible(r)
  /\ ReqAt(r, "write") /\ Is(r, "LAYOUT") => batch[Call(r).to].status = "PLANNED"

Prudent(r) == KilnFits(r) /\ KilnHolds(r) /\ KilnKnows(r)

KilnInv == KilnTypeOK /\ Sound(batch, plan) /\ \A r \in Requests : Prudent(r)

(* What a step of somebody else may not touch of the rows q has locked, and *)
(* what it may do to the others.                                            *)
RowsSpare(q) ==
  /\ \A b \in Batches : Batch(b) /\ held[Row(b)] = q => batch'[b] = batch[b] /\ plan'[b] = plan[b]
  /\ \A l \in Lines : held[Source(Owner[l])] = q => \A b \in Batches : plan'[b][l] = plan[b][l]
  /\ \A s \in Sources : held[Source(s)] = q => open'[s] = open[s]
  /\ \A b \in Batches : Batch(b) => batch'[b] # Nil /\ batch'[b].cycle = batch[b].cycle
  /\ \A b \in Batches : ~Batch(b) => \A l \in Lines : plan'[b][l] = 0
  /\ FiredLow(batch) \subseteq FiredLow(batch')
  /\ \A b \in LitHigh(batch') \ LitHigh(batch), l \in Lines :
       held[Source(Owner[l])] = q => plan[b][l] = 0

Spares(q) ==
  /\ req'[q] = req[q]
  /\ \A x \in Names : held[x] = q => held'[x] = q
  /\ RowsSpare(q)

(* CanPlace of any rows. *)
MayGoIn(B, O, P, b, s, items) ==
  /\ B[b].status = "PLANNED" /\ O[s] /\ B[b].cycle \in Needs[s]
  /\ B[b].exclusive \/ s \in Alone => Others(P, b, s) = {}
  /\ \A l \in Asked(items) :
       /\ Owner[l] = s /\ Volume[l] > 0
       /\ items[l] <= Pieces[l] - InBatches(P, l, OfCycle(B, B[b].cycle))
  /\ B[b].filled + VolumeOf(items) <= Capacity[b]

MayComeOut(B, P, b, s, items) ==
  /\ B[b].status = "PLANNED"
  /\ \A l \in Asked(items) : Owner[l] = s /\ items[l] <= P[b][l]

(* Rows C, N and Q, that leave to s what it saw of batch b in B, O and P.   *)
Leaves(B, O, P, C, N, Q, b, s) ==
  /\ C[b] = B[b] /\ Q[b] = P[b] /\ N[s] = O[s]
  /\ \A a \in Batches : B[a] # Nil => C[a] # Nil /\ C[a].cycle = B[a].cycle
  /\ \A a \in Batches, l \in Lines : B[a] # Nil /\ Owner[l] = s => Q[a][l] = P[a][l]
  /\ \A a \in Batches, l \in Lines : B[a] = Nil => Q[a][l] = 0

MayMove(B, O, P, from, to, s, items) ==
  /\ B[from].cycle = B[to].cycle
  /\ MayComeOut(B, P, from, s, items)
  /\ MayGoIn(B, O, TakenOut(P, from, items), to, s, items)

-----------------------------------------------------------------------------
LEMMA KilnTypes ==
  ASSUME KilnTypeOK, NEW r \in Requests
  PROVE  /\ req[r] \in [pc : {"idle"} \cup Waiting \cup Over, call : Calls \cup {Nil}, seen : Nat \cup {Nil}]
         /\ RowsOK(batch, plan) /\ plan \in PlanType
         /\ r # Nil
BY KilnAssumption DEF KilnTypeOK, RowsOK, PlanType

LEMMA LockNames ==
  /\ \A s \in Sources : Source(s) \in Names
  /\ \A b \in Batches : Row(b) \in Names
  /\ \A l \in Lines : Owner[l] \in Sources
BY KilnAssumption DEF Names, Source, Row

LEMMA CallFields ==
  ASSUME NEW c \in Calls
  PROVE  /\ c.items \in [Lines -> Nat]
         /\ c.op # "CREATE" => c.to \in Batches
         /\ c.op \in Planning => c.source \in Sources /\ c.to \in Batches /\ Asked(c.items) # {}
         /\ c.op = "MOVE" => c.from \in Batches /\ c.to \in Batches /\ c.from # c.to
         /\ c.op \in Firing => c.to \in Batches
BY CallAssumption DEF Planning, Firing

LEMMA GoesTo ==
  ASSUME KilnTypeOK, NEW r \in Requests, NEW pc \in {"idle"} \cup Waiting \cup Over, Goto(r, pc)
  PROVE  /\ req' \in [Requests -> [pc : {"idle"} \cup Waiting \cup Over, call : Calls \cup {Nil}, seen : Nat \cup {Nil}]]
         /\ req'[r].pc = pc /\ req'[r].call = req[r].call /\ req'[r].seen = req[r].seen
         /\ \A q \in Requests \ {r} : req'[q] = req[q]
BY DEF KilnTypeOK, Goto

(* What is possible for each kind of planning. *)
LEMMA PossibleIs ==
  ASSUME NEW r
  PROVE  /\ Is(r, "ASSIGN") =>
              (Possible(r) <=> /\ AsSeen(r, Call(r).to)
                               /\ MayGoIn(batch, open, plan, Call(r).to, Call(r).source, Call(r).items))
         /\ Is(r, "RELEASE") =>
              (Possible(r) <=> /\ AsSeen(r, Call(r).to)
                               /\ MayComeOut(batch, plan, Call(r).to, Call(r).source, Call(r).items))
         /\ Is(r, "MOVE") => 
              (Possible(r) <=> MayMove(batch, open, plan, Call(r).from, Call(r).to, Call(r).source, Call(r).items))
<1>1. ASSUME NEW b, NEW s, NEW items, NEW P
      PROVE  CanPlace(b, s, items, P) <=> MayGoIn(batch, open, P, b, s, items)
  BY DEF CanPlace, MayGoIn, Exclusivity, Remaining
<1>2. ASSUME NEW b, NEW s, NEW items
      PROVE  CanTake(b, s, items) <=> MayComeOut(batch, plan, b, s, items)
  BY DEF CanTake, MayComeOut
<1> QED
  BY <1>1, <1>2 DEF Possible, MayMove, Is

LEMMA TakenOutIs ==
  ASSUME NEW P \in PlanType, NEW b \in Batches, NEW items \in [Lines -> Nat],
         \A l \in Lines : items[l] <= P[b][l]
  PROVE  /\ TakenOut(P, b, items) \in PlanType
         /\ \A l \in Lines : TakenOut(P, b, items)[b][l] = P[b][l] - items[l]
         /\ \A a \in Batches \ {b} : TakenOut(P, b, items)[a] = P[a]
BY DEF TakenOut, PlanType

LEMMA TakesPart ==
  ASSUME NEW B, NEW P \in PlanType, NEW b \in Batches, NEW s, NEW items \in [Lines -> Nat],
         MayComeOut(B, P, b, s, items)
  PROVE  \A l \in Lines : items[l] <= P[b][l]
<1> SUFFICES ASSUME NEW l \in Lines PROVE items[l] <= P[b][l]
  OBVIOUS
<1>1. items[l] \in Nat /\ P[b][l] \in Nat
  BY DEF PlanType
<1> QED
  BY <1>1 DEF MayComeOut, Asked

(* How many pieces of a line are planned in a cycle does not change where   *)
(* neither the batches there are nor their pieces of the line do.           *)
LEMMA CountStays ==
  ASSUME NEW B, NEW C, NEW P \in PlanType, NEW Q \in PlanType, NEW l \in Lines, NEW c,
         \A b \in Batches : B[b] # Nil => C[b] # Nil /\ C[b].cycle = B[b].cycle /\ Q[b][l] = P[b][l],
         \A b \in Batches : B[b] = Nil => Q[b][l] = 0
  PROVE  InBatches(Q, l, OfCycle(C, c)) = InBatches(P, l, OfCycle(B, c))
<1>1. OfCycle(B, c) \subseteq OfCycle(C, c) /\ OfCycle(C, c) \in SUBSET Batches
  BY DEF OfCycle
<1>2. \A b \in OfCycle(C, c) \ OfCycle(B, c) : Q[b][l] = 0
  BY DEF OfCycle
<1>3. InBatches(Q, l, OfCycle(B, c)) = InBatches(Q, l, OfCycle(C, c))
  BY <1>1, <1>2, PiecesPart
<1>4. \A b \in OfCycle(B, c) : Q[b][l] = P[b][l]
  BY DEF OfCycle
<1>5. OfCycle(B, c) \in SUBSET Batches
  BY <1>1
<1>6. InBatches(Q, l, OfCycle(B, c)) = InBatches(P, l, OfCycle(B, c))
  BY <1>4, <1>5, PiecesSame
<1> QED
  BY <1>3, <1>6

LEMMA GoingInStays ==
  ASSUME NEW B, NEW C, NEW O, NEW N, NEW P \in PlanType, NEW Q \in PlanType,
         NEW b \in Batches, NEW s, NEW items,
         Leaves(B, O, P, C, N, Q, b, s), MayGoIn(B, O, P, b, s, items)
  PROVE  MayGoIn(C, N, Q, b, s, items)
<1>1. ASSUME NEW l \in Asked(items)
      PROVE  InBatches(Q, l, OfCycle(C, C[b].cycle)) = InBatches(P, l, OfCycle(B, B[b].cycle))
  <2>1. l \in Lines /\ Owner[l] = s
    BY DEF MayGoIn, Asked
  <2>2. /\ \A a \in Batches : B[a] # Nil => C[a] # Nil /\ C[a].cycle = B[a].cycle /\ Q[a][l] = P[a][l]
        /\ \A a \in Batches : B[a] = Nil => Q[a][l] = 0
        /\ C[b] = B[b]
    BY <2>1 DEF Leaves
  <2>3. ASSUME NEW c PROVE InBatches(Q, l, OfCycle(C, c)) = InBatches(P, l, OfCycle(B, c))
    <3>1. l \in Lines
      BY <2>1
    <3> QED
      BY <2>2, <3>1, CountStays
  <2> QED
    BY <2>2, <2>3
<1>2. Others(Q, b, s) = Others(P, b, s)
  BY DEF Others, InKiln, Leaves
<1> QED
  BY <1>1, <1>2 DEF MayGoIn, Leaves

LEMMA MovingStays ==
  ASSUME NEW B, NEW C, NEW O, NEW N, NEW P \in PlanType, NEW Q \in PlanType,
         NEW from \in Batches, NEW to \in Batches, from # to, B[from] # Nil, B[to] # Nil,
         NEW s, NEW items \in [Lines -> Nat],
         Leaves(B, O, P, C, N, Q, from, s), Leaves(B, O, P, C, N, Q, to, s),
         MayMove(B, O, P, from, to, s, items)
  PROVE  MayMove(C, N, Q, from, to, s, items)
<1>2. MayComeOut(B, P, from, s, items)
  BY DEF MayMove
<1>3. MayComeOut(C, Q, from, s, items)
  BY <1>2 DEF MayComeOut, Leaves
<1> DEFINE P2 == TakenOut(P, from, items)
           Q2 == TakenOut(Q, from, items)
<1>4. /\ P2 \in PlanType
      /\ \A l \in Lines : P2[from][l] = P[from][l] - items[l]
      /\ \A a \in Batches \ {from} : P2[a] = P[a]
  <2>1. \A l \in Lines : items[l] <= P[from][l]
    BY <1>2, TakesPart
  <2> QED
    BY <2>1, TakenOutIs
<1>5. /\ Q2 \in PlanType
      /\ \A l \in Lines : Q2[from][l] = Q[from][l] - items[l]
      /\ \A a \in Batches \ {from} : Q2[a] = Q[a]
  <2>1. \A l \in Lines : items[l] <= Q[from][l]
    BY <1>3, TakesPart
  <2> QED
    BY <2>1, TakenOutIs
<1>6. MayGoIn(B, O, P2, to, s, items)
  BY DEF MayMove
<1> HIDE DEF P2, Q2
<1>7. MayGoIn(C, N, Q2, to, s, items)
  <2>1. Leaves(B, O, P2, C, N, Q2, to, s)
    BY <1>4, <1>5 DEF Leaves
  <2> QED
    BY <1>4, <1>5, <1>6, <2>1, GoingInStays
<1>8. C[from].cycle = C[to].cycle
  BY DEF Leaves, MayMove
<1> QED
  BY <1>3, <1>7, <1>8 DEF MayMove, Q2

(* No piece of a line is newly lit in the high fire, and none that came out *)
(* of the low one is gone.                                                  *)
LEMMA FiresStay ==
  ASSUME NEW B, NEW C, NEW P \in PlanType, NEW Q \in PlanType, NEW b \in Batches, NEW l \in Lines,
         \A a \in Batches : B[a] # Nil => Q[a][l] = P[a][l],
         \A a \in Batches : B[a] = Nil => Q[a][l] = 0,
         FiredLow(B) \subseteq FiredLow(C),
         \A a \in LitHigh(C) \ LitHigh(B) : Q[a][l] = 0,
         B[b] # Nil,
         InBatches(P, l, {b} \cup LitHigh(B)) <= InBatches(P, l, FiredLow(B))
  PROVE  InBatches(Q, l, {b} \cup LitHigh(C)) <= InBatches(Q, l, FiredLow(C))
<1> DEFINE M == {b} \cup LitHigh(B)
           N == {b} \cup LitHigh(C)
<1>1. /\ M \in SUBSET Batches /\ N \in SUBSET Batches /\ M \cup N \in SUBSET Batches
      /\ FiredLow(B) \in SUBSET Batches /\ FiredLow(C) \in SUBSET Batches
  BY DEF LitHigh, FiredLow, InState, OfCycle
<1>2. \A a \in M \cup FiredLow(B) : a \in Batches /\ B[a] # Nil
  BY DEF LitHigh, FiredLow, InState, OfCycle
<1>3. \A a \in (M \cup N) \ M : Q[a][l] = 0
  OBVIOUS
<1>8. InBatches(P, l, M) <= InBatches(P, l, FiredLow(B))
  OBVIOUS
<1> HIDE DEF M, N
<1>4. InBatches(Q, l, N) <= InBatches(Q, l, M \cup N)
  BY <1>1, PiecesPart
<1>5. InBatches(Q, l, M) = InBatches(Q, l, M \cup N)
  BY <1>1, <1>3, PiecesPart
<1>6. /\ InBatches(Q, l, M) = InBatches(P, l, M)
      /\ InBatches(Q, l, FiredLow(B)) = InBatches(P, l, FiredLow(B))
  BY <1>1, <1>2, PiecesSame
<1>7. InBatches(Q, l, FiredLow(B)) <= InBatches(Q, l, FiredLow(C))
  BY <1>1, PiecesPart
<1>9. /\ InBatches(Q, l, N) \in Nat /\ InBatches(Q, l, M \cup N) \in Nat
      /\ InBatches(P, l, FiredLow(B)) \in Nat /\ InBatches(Q, l, FiredLow(C)) \in Nat
  BY <1>1, PiecesType
<1> QED
  BY <1>4, <1>5, <1>6, <1>7, <1>8, <1>9 DEF N

-----------------------------------------------------------------------------
LEMMA LeavesLocked ==
  ASSUME NEW q \in Requests, RowsSpare(q), NEW b \in Batches, Batch(b), held[Row(b)] = q,
         NEW s \in Sources, held[Source(s)] = q
  PROVE  Leaves(batch, open, plan, batch', open', plan', b, s)
BY DEF RowsSpare, Leaves, Batch

LEMMA SameCall ==
  ASSUME NEW q, req'[q] = req[q]
  PROVE  /\ Call(q)' = Call(q) /\ (req[q].pc)' = req[q].pc /\ (req[q].seen)' = req[q].seen
         /\ \A pc : ReqAt(q, pc)' <=> ReqAt(q, pc)
         /\ \A op : Is(q, op)' <=> Is(q, op)
         /\ FirstBatch(q)' = FirstBatch(q) /\ SecondBatch(q)' = SecondBatch(q)
         /\ Targets(q)' = Targets(q)
BY DEF Call, ReqAt, Is, FirstBatch, SecondBatch, Targets

(* PossibleIs of the next state. *)
LEMMA PossibleThen ==
  ASSUME NEW r
  PROVE  /\ Is(r, "ASSIGN")' =>
              (Possible(r)' <=> /\ AsSeen(r, Call(r).to)'
                                /\ MayGoIn(batch', open', plan', Call(r)'.to, Call(r)'.source, Call(r)'.items))
         /\ Is(r, "RELEASE")' =>
              (Possible(r)' <=> /\ AsSeen(r, Call(r).to)'
                                /\ MayComeOut(batch', plan', Call(r)'.to, Call(r)'.source, Call(r)'.items))
         /\ Is(r, "MOVE")' =>
              (Possible(r)' <=>
                 MayMove(batch', open', plan', Call(r)'.from, Call(r)'.to, Call(r)'.source, Call(r)'.items))
<1>1. ASSUME NEW b, NEW s, NEW items, NEW P
      PROVE  CanPlace(b, s, items, P)' <=> MayGoIn(batch', open', P, b, s, items)
  BY DEF CanPlace, MayGoIn, Exclusivity, Remaining
<1>2. ASSUME NEW b, NEW s, NEW items
      PROVE  CanTake(b, s, items)' <=> MayComeOut(batch', plan', b, s, items)
  BY DEF CanTake, MayComeOut
<1> QED
  BY <1>1, <1>2 DEF Possible, MayMove, Is, CanPlace, CanTake, MayGoIn, MayComeOut,
     Exclusivity, Remaining, TakenOut, Others, InKiln

LEMMA BatchesOf ==
  ASSUME KilnInv, NEW q \in Requests, req[q].pc # "idle"
  PROVE  /\ Call(q) \in Calls
         /\ ~Is(q, "CREATE") => Call(q).to \in Batches /\ Batch(Call(q).to)
         /\ Call(q).op \in Planning => Call(q).source \in Sources /\ ~Is(q, "CREATE")
         /\ Call(q).op \in Firing => ~Is(q, "CREATE") /\ ~Is(q, "MOVE")
         /\ Is(q, "LAYOUT") => ~Is(q, "CREATE") /\ ~Is(q, "MOVE") /\ Call(q).op \notin Planning \cup Firing
         /\ Is(q, "MOVE") => /\ Call(q).from \in Batches \ {Call(q).to} /\ Batch(Call(q).from)
                             /\ ~Is(q, "CREATE") /\ Call(q).op \in Planning
         /\ \A b \in Targets(q) : ~Is(q, "CREATE") => b \in Batches /\ Batch(b)
         /\ ~Is(q, "CREATE") => FirstBatch(q) \in Batches
<1>1. Call(q) \in Calls /\ (~Is(q, "CREATE") => Batch(Call(q).to)) /\ (Is(q, "MOVE") => Batch(Call(q).from))
  BY DEF KilnInv, Prudent, KilnFits
<1> QED
  BY <1>1, CallFields DEF Is, Planning, Firing, Targets, FirstBatch

(* What somebody else's step spares, it leaves right. *)
LEMMA Bystander ==
  ASSUME KilnInv, KilnTypeOK', NEW q \in Requests, Spares(q)
  PROVE  Prudent(q)'
<1>1. req'[q] = req[q] /\ RowsSpare(q) /\ \A x \in Names : held[x] = q => held'[x] = q
  BY DEF Spares
<1>2. /\ Call(q)' = Call(q) /\ (req[q].pc)' = req[q].pc /\ (req[q].seen)' = req[q].seen
      /\ \A pc : ReqAt(q, pc)' <=> ReqAt(q, pc)
      /\ \A op : Is(q, op)' <=> Is(q, op)
      /\ FirstBatch(q)' = FirstBatch(q) /\ SecondBatch(q)' = SecondBatch(q)
      /\ Targets(q)' = Targets(q)
  BY <1>1, SameCall
<1>3. KilnFits(q) /\ KilnHolds(q) /\ KilnKnows(q) /\ KilnTypeOK
  BY DEF KilnInv, Prudent
<1>4. plan \in PlanType /\ plan' \in PlanType
  BY <1>3 DEF KilnTypeOK, RowsOK, PlanType
<1>5. \A b \in Batches : Batch(b) => Batch(b)'
  BY <1>1 DEF RowsSpare, Batch
<1>6. \A b \in Batches : Batch(b) /\ held[Row(b)] = q =>
        batch'[b] = batch[b] /\ plan'[b] = plan[b] /\ held'[Row(b)] = q
  BY <1>1, LockNames DEF RowsSpare
<1>7. \A s \in Sources : held[Source(s)] = q => held'[Source(s)] = q
  BY <1>1, LockNames
<1>8. CASE req[q].pc = "idle"
  BY <1>2, <1>8 DEF Prudent, KilnFits, KilnHolds, KilnKnows, ReqAt
<1>9. CASE req[q].pc # "idle"
  <2>1. /\ Call(q) \in Calls
        /\ ~Is(q, "CREATE") => Call(q).to \in Batches /\ Batch(Call(q).to)
        /\ Call(q).op \in Planning => Call(q).source \in Sources /\ ~Is(q, "CREATE")
        /\ Call(q).op \in Firing => ~Is(q, "CREATE") /\ ~Is(q, "MOVE")
        /\ Is(q, "LAYOUT") => ~Is(q, "CREATE") /\ ~Is(q, "MOVE") /\ Call(q).op \notin Planning \cup Firing
        /\ Is(q, "MOVE") => /\ Call(q).from \in Batches \ {Call(q).to} /\ Batch(Call(q).from)
                            /\ ~Is(q, "CREATE") /\ Call(q).op \in Planning
        /\ \A b \in Targets(q) : ~Is(q, "CREATE") => b \in Batches /\ Batch(b)
        /\ ~Is(q, "CREATE") => FirstBatch(q) \in Batches
    BY <1>9, BatchesOf
  <2>2. KilnFits(q)'
    BY <1>2, <1>3, <1>5, <2>1 DEF KilnFits
  (* The rows it relies on. *)
  <2>3. ReqAt(q, "write") => \A b \in Targets(q) : b \in Batches /\ Batch(b) /\ held[Row(b)] = q
    BY <1>3, <2>1 DEF KilnFits, KilnHolds
  <2>4. req[q].pc \in {"parents", "write"} /\ Call(q).op \in Firing =>
          Call(q).to \in Batches /\ Batch(Call(q).to) /\ held[Row(Call(q).to)] = q
    BY <1>3, <2>1, <2>3 DEF KilnHolds, Targets, ReqAt
  <2>5. ReqAt(q, "write") /\ Call(q).op \in Firing =>
          /\ Parents(q)' = Parents(q)
          /\ \A l \in InKiln(plan, Call(q).to) : held[Source(Owner[l])] = q
          /\ \A s \in Parents(q) : s \in Sources /\ held[Source(s)] = q
    <3> SUFFICES ASSUME ReqAt(q, "write"), Call(q).op \in Firing
                 PROVE  /\ Parents(q)' = Parents(q)
                        /\ \A l \in InKiln(plan, Call(q).to) : held[Source(Owner[l])] = q
                        /\ \A s \in Parents(q) : s \in Sources /\ held[Source(s)] = q
      OBVIOUS
    <3>1. plan'[Call(q).to] = plan[Call(q).to]
      BY <1>6, <2>4 DEF ReqAt
    <3>2. Unlocked(q) = {}
      BY <1>3 DEF KilnHolds
    <3> QED
      BY <1>2, <3>1, <3>2, LockNames DEF Parents, InKiln, Unlocked, Source
  <2>6. KilnHolds(q)'
    <3>1. ReqAt(q, "second") => held'[Row(FirstBatch(q))] = q
      <4>1. ReqAt(q, "second") => FirstBatch(q) \in Batches /\ held[Row(FirstBatch(q))] = q
        BY <1>3, <2>1 DEF KilnHolds, KilnFits
      <4> QED
        BY <1>1, <4>1, LockNames
    <3>2. ReqAt(q, "write") => \A b \in Targets(q) : held'[Row(b)] = q
      BY <1>6, <2>3
    <3>3. ReqAt(q, "parents") => held'[Row(Call(q).to)] = q
      BY <1>3, <1>6, <2>4 DEF KilnFits, ReqAt
    <3>4. req[q].pc \in {"parent", "second", "write"} /\ Call(q).op \in Planning =>
            held'[Source(Call(q).source)] = q
      BY <1>3, <1>7, <2>1 DEF KilnHolds
    <3>5. ReqAt(q, "write") /\ Call(q).op \in Firing => Unlocked(q)' = {}
      BY <1>7, <2>5 DEF Unlocked, Source
    <3> QED
      BY <1>2, <3>1, <3>2, <3>3, <3>4, <3>5 DEF KilnHolds
  <2>7. KilnKnows(q)'
    <3>1. req[q].pc \in {"parents", "write"} /\ Call(q).op \in Firing => batch'[Call(q).to].status = "PLANNED"
      BY <1>3, <1>6, <2>4 DEF KilnKnows
    <3>2. ReqAt(q, "write") /\ Is(q, "START") => LowDone(Call(q).to)'
      <4> SUFFICES ASSUME ReqAt(q, "write"), Is(q, "START") PROVE LowDone(Call(q).to)'
        OBVIOUS
      <4> DEFINE b == Call(q).to
      <4>1. Call(q).op \in Firing
        BY DEF Is, Firing
      <4>2. b \in Batches /\ Batch(b) /\ batch'[b] = batch[b] /\ plan'[b] = plan[b]
        BY <1>6, <2>4, <4>1 DEF ReqAt
      <4>3. LowDone(b)
        BY <1>3 DEF KilnKnows
      <4>4. b' = b
        BY <1>2
      <4> HIDE DEF b
      <4> SUFFICES ASSUME batch[b].cycle = "HIGH", NEW l \in InKiln(plan, b), Needs[Owner[l]] = Cycles
                   PROVE  InBatches(plan', l, {b} \cup LitHigh(batch')) <= InBatches(plan', l, FiredLow(batch'))
        BY <4>2, <4>4 DEF LowDone, InKiln, b
      <4>5. l \in Lines /\ held[Source(Owner[l])] = q
        BY <2>5, <4>1 DEF InKiln, b
      <4>6. /\ \A a \in Batches : batch[a] # Nil => plan'[a][l] = plan[a][l]
            /\ \A a \in Batches : batch[a] = Nil => plan'[a][l] = 0
            /\ FiredLow(batch) \subseteq FiredLow(batch')
        BY <1>1, <4>5 DEF RowsSpare, Batch
      <4>7. \A a \in LitHigh(batch') \ LitHigh(batch) : plan'[a][l] = 0
        <5>1. LitHigh(batch') \subseteq Batches
          BY DEF LitHigh, InState, OfCycle
        <5> QED
          BY <1>1, <4>5, <5>1 DEF RowsSpare
      <4>8. InBatches(plan, l, {b} \cup LitHigh(batch)) <= InBatches(plan, l, FiredLow(batch))
        BY <4>3 DEF LowDone
      <4> QED
        BY <1>4, <4>2, <4>5, <4>6, <4>7, <4>8, FiresStay DEF Batch
    <3>3. ReqAt(q, "write") /\ Call(q).op \in Planning => Possible(q)'
      <4> SUFFICES ASSUME ReqAt(q, "write"), Call(q).op \in Planning PROVE Possible(q)'
        OBVIOUS
      <4> DEFINE c == Call(q)
      <4>1. c \in Calls /\ c.items \in [Lines -> Nat] /\ c.source \in Sources /\ ~Is(q, "CREATE") /\ c.to \in Batches
        BY <2>1, CallFields
      <4>2. held[Source(c.source)] = q
        BY <1>3 DEF KilnHolds, ReqAt
      <4>3. Possible(q)
        BY <1>3 DEF KilnKnows
      <4>4. c' = c /\ (AsSeen(q, c.to) => AsSeen(q, c.to)')
        BY <1>2, <1>6, <2>3 DEF AsSeen, Targets
      <4>5. Leaves(batch, open, plan, batch', open', plan', c.to, c.source)
        <5>1. Batch(c.to) /\ held[Row(c.to)] = q
          BY <2>3 DEF Targets
        <5> QED
          BY <1>1, <4>1, <4>2, <5>1, LeavesLocked
      <4>6. CASE Is(q, "ASSIGN")
        <5>1. AsSeen(q, c.to) /\ MayGoIn(batch, open, plan, c.to, c.source, c.items)
          BY <4>3, <4>6, PossibleIs
        <5>2. MayGoIn(batch', open', plan', c.to, c.source, c.items)
          BY <1>4, <4>1, <4>5, <5>1, GoingInStays
        <5> QED
          BY <1>2, <4>4, <4>6, <5>1, <5>2, PossibleThen
      <4>7. CASE Is(q, "RELEASE")
        <5>1. AsSeen(q, c.to) /\ MayComeOut(batch, plan, c.to, c.source, c.items)
          BY <4>3, <4>7, PossibleIs
        <5>2. MayComeOut(batch', plan', c.to, c.source, c.items)
          BY <4>5, <5>1 DEF MayComeOut, Leaves
        <5> QED
          BY <1>2, <4>4, <4>7, <5>1, <5>2, PossibleThen
      <4>8. CASE Is(q, "MOVE")
        <5>1. MayMove(batch, open, plan, c.from, c.to, c.source, c.items)
          BY <4>3, <4>8, PossibleIs
        <5>2. c.from \in Batches /\ c.from # c.to /\ Batch(c.from) /\ Batch(c.to) /\ held[Row(c.from)] = q
          BY <2>1, <2>3, <4>8 DEF Targets
        <5>3. Leaves(batch, open, plan, batch', open', plan', c.from, c.source)
          BY <1>1, <4>1, <4>2, <5>2, LeavesLocked
        <5>4. MayMove(batch', open', plan', c.from, c.to, c.source, c.items)
          <6> HIDE DEF c
          <6> QED
            BY <1>4, <4>1, <4>5, <5>1, <5>2, <5>3, MovingStays DEF Batch
        <5> QED
          BY <1>2, <4>4, <4>8, <5>4, PossibleThen
      <4> QED
        BY <4>6, <4>7, <4>8 DEF Is, Planning
    <3>4. ReqAt(q, "write") /\ Is(q, "LAYOUT") => batch'[Call(q).to].status = "PLANNED"
      BY <1>3, <1>6, <2>3 DEF KilnKnows, Targets
    <3> QED
      BY <1>2, <3>1, <3>2, <3>3, <3>4 DEF KilnKnows
  <2> QED
    BY <2>2, <2>6, <2>7 DEF Prudent
<1> QED
  BY <1>8, <1>9

-----------------------------------------------------------------------------
LEMMA UnbornEmpty ==
  ASSUME KilnInv, NEW b \in Batches, ~Batch(b), NEW l \in Lines
  PROVE  plan[b][l] = 0
<1>1. plan[b][l] \in Nat
  BY RowsTyped DEF KilnInv, Sound
<1> QED
  BY <1>1 DEF KilnInv, Sound, Planned, InKiln, Batch

LEMMA QuietSpares ==
  ASSUME KilnInv, NEW q \in Requests, UNCHANGED kilnRows
  PROVE  RowsSpare(q)
BY UnbornEmpty DEF RowsSpare, kilnRows, Batch

LEMMA StepKeeps ==
  ASSUME KilnInv, NEW r \in Requests, KilnTypeOK', Sound(batch', plan'), Prudent(r)',
         \A q \in Requests \ {r} : Spares(q)
  PROVE  KilnInv'
<1>1. \A q \in Requests \ {r} : Prudent(q)'
  BY Bystander
<1> QED
  BY <1>1 DEF KilnInv

(* A request that ends lets go of its locks. *)
LEMMA EndKeeps ==
  ASSUME KilnInv, NEW r \in Requests, req[r].pc # "idle", NEW pc \in Over, End(r, pc),
         open' \in [Sources -> BOOLEAN],
         layout' \in [Batches -> [version : Nat, placed : [Lines -> Nat]]], ops' \subseteq Noted,
         Sound(batch', plan'), \A b \in Batches : Batch(b) => batch'[b] # Nil,
         \A q \in Requests \ {r} : RowsSpare(q)
  PROVE  KilnInv'
<1>1. KilnTypeOK /\ Goto(r, pc) /\ held' = LetGo(r) /\ pc \in {"idle"} \cup Waiting \cup Over
  BY DEF KilnInv, End
<1>2. /\ req' \in [Requests -> [pc : {"idle"} \cup Waiting \cup Over, call : Calls \cup {Nil}, seen : Nat \cup {Nil}]]
      /\ req'[r].pc = pc /\ req'[r].call = req[r].call /\ req'[r].seen = req[r].seen
      /\ \A q \in Requests \ {r} : req'[q] = req[q]
  BY <1>1, GoesTo
<1>3. KilnTypeOK'
  <2>1. held' \in [Names -> Requests \cup {Nil}]
    BY <1>1 DEF LetGo, KilnTypeOK
  <2> QED
    BY <1>2, <2>1 DEF KilnTypeOK, Sound
<1>4. Prudent(r)'
  <2>1. KilnFits(r)
    BY DEF KilnInv, Prudent
  <2>2. /\ Call(r) \in Calls
        /\ ~Is(r, "CREATE") => Call(r).to \in Batches /\ Batch(Call(r).to)
        /\ Is(r, "MOVE") => Call(r).from \in Batches \ {Call(r).to} /\ Batch(Call(r).from)
    BY BatchesOf
  <2>3. /\ Call(r) \in Calls
        /\ ~Is(r, "CREATE") => batch'[Call(r).to] # Nil
        /\ Is(r, "MOVE") => batch'[Call(r).from] # Nil
    BY <2>2
  <2>4. Call(r)' = Call(r) /\ (Is(r, "CREATE")' <=> Is(r, "CREATE")) /\ (Is(r, "MOVE")' <=> Is(r, "MOVE"))
    BY <1>2 DEF Call, Is
  <2>5. pc \notin {"key", "parent", "second", "parents", "write"}
    BY DEF Over
  <2>6. KilnFits(r)'
    BY <1>2, <2>3, <2>4, <2>5 DEF KilnFits, ReqAt, Batch
  <2> QED
    BY <1>2, <2>5, <2>6 DEF Prudent, KilnHolds, KilnKnows, ReqAt
<1>5. \A q \in Requests \ {r} : Spares(q)
  <2> SUFFICES ASSUME NEW q \in Requests \ {r}, NEW x \in Names, held[x] = q PROVE held'[x] = q
    BY <1>2 DEF Spares
  <2> QED
    BY <1>1 DEF LetGo
<1> QED
  BY <1>3, <1>4, <1>5, StepKeeps

(* ... and with nothing written, that is all. *)
LEMMA QuitKeeps ==
  ASSUME KilnInv, NEW r \in Requests, req[r].pc # "idle", NEW pc \in Over, End(r, pc), UNCHANGED kilnRows
  PROVE  KilnInv'
<1>1. open' = open /\ batch' = batch /\ plan' = plan /\ layout' = layout /\ ops' = ops
  BY DEF kilnRows
<1>2. /\ open' \in [Sources -> BOOLEAN]
      /\ layout' \in [Batches -> [version : Nat, placed : [Lines -> Nat]]] /\ ops' \subseteq Noted
      /\ Sound(batch', plan') /\ \A b \in Batches : Batch(b) => batch'[b] # Nil
  BY <1>1 DEF KilnInv, KilnTypeOK, Batch
<1>3. \A q \in Requests \ {r} : RowsSpare(q)
  BY QuietSpares
<1> QED
  BY <1>2, <1>3, EndKeeps

LEMMA RefuseKeeps ==
  ASSUME KilnInv, NEW r \in Requests, req[r].pc # "idle", Refuse(r)
  PROVE  KilnInv'
<1>1. "refused" \in Over
  BY DEF Over
<1> QED
  BY <1>1, QuitKeeps DEF Refuse

(* With nothing written, what is possible and what is in a batch stay so. *)
LEMMA SamePlan ==
  ASSUME NEW r, UNCHANGED kilnRows, req'[r].call = req[r].call, req'[r].seen = req[r].seen
  PROVE  /\ Call(r)' = Call(r) /\ \A op : Is(r, op)' <=> Is(r, op)
         /\ Possible(r)' <=> Possible(r)
         /\ LowDone(Call(r).to)' <=> LowDone(Call(r).to)
         /\ Parents(r)' = Parents(r)
         /\ FirstBatch(r)' = FirstBatch(r) /\ SecondBatch(r)' = SecondBatch(r) /\ Targets(r)' = Targets(r)
         /\ \A b : Batch(b)' <=> Batch(b)
<1>1. open' = open /\ batch' = batch /\ plan' = plan /\ Call(r)' = Call(r)
  BY DEF kilnRows, Call
<1>2. Possible(r)' <=> Possible(r)
  BY <1>1 DEF Possible, AsSeen, CanPlace, CanTake, Exclusivity, Remaining
<1>3. LowDone(Call(r).to)' <=> LowDone(Call(r).to)
  BY <1>1 DEF LowDone
<1> QED
  BY <1>1, <1>2, <1>3 DEF Is, Parents, FirstBatch, SecondBatch, Targets, Batch

LEMMA TakeKeeps ==
  ASSUME KilnInv, NEW r \in Requests, NEW xs, NEW pc \in Waiting, Take(r, xs, pc), Prudent(r)'
  PROVE  KilnInv'
<1>1. KilnTypeOK /\ Goto(r, pc) /\ UNCHANGED kilnRows /\ pc \in {"idle"} \cup Waiting \cup Over
  BY DEF KilnInv, Take
<1>2. /\ req' \in [Requests -> [pc : {"idle"} \cup Waiting \cup Over, call : Calls \cup {Nil}, seen : Nat \cup {Nil}]]
      /\ \A q \in Requests \ {r} : req'[q] = req[q]
  BY <1>1, GoesTo
<1>3. open' = open /\ batch' = batch /\ plan' = plan /\ layout' = layout /\ ops' = ops
  BY <1>1 DEF kilnRows
<1>4. held' \in [Names -> Requests \cup {Nil}]
  BY <1>1 DEF Take, KilnTypeOK
<1>5. KilnTypeOK' /\ Sound(batch', plan')
  BY <1>1, <1>2, <1>3, <1>4 DEF KilnTypeOK, KilnInv
<1>6. ASSUME NEW q \in Requests \ {r} PROVE Spares(q)
  <2>1. RowsSpare(q)
    BY <1>1, QuietSpares
  <2>2. ASSUME NEW x \in Names, held[x] = q PROVE held'[x] = q
    <3>1. x \notin xs
      BY <2>2, KilnTypes, <1>1 DEF Take, Unheld
    <3> QED
      BY <2>2, <3>1 DEF Take
  <2> QED
    BY <1>2, <2>1, <2>2 DEF Spares
<1> QED
  BY <1>5, <1>6, StepKeeps

LEMMA TakeGives ==
  ASSUME KilnInv, NEW r \in Requests, NEW xs, NEW pc \in Waiting, Take(r, xs, pc)
  PROVE  /\ req'[r].pc = pc /\ req'[r].call = req[r].call /\ req'[r].seen = req[r].seen
         /\ \A x \in Names : x \in xs \/ held[x] = r => held'[x] = r
         /\ UNCHANGED kilnRows
<1>1. KilnTypeOK /\ Goto(r, pc) /\ pc \in {"idle"} \cup Waiting \cup Over
  BY DEF KilnInv, Take
<1> QED
  BY <1>1, GoesTo DEF Take

-----------------------------------------------------------------------------
(* What is recorded is of the register's type. *)
LEMMA RecordTyped ==
  ASSUME KilnInv, NEW r \in Requests, req[r].pc # "idle", Record(r)
  PROVE  ops' \subseteq Noted
<1>1. Call(r) \in Calls /\ req[r].seen \in Nat \cup {Nil} /\ ops \subseteq Noted
  BY BatchesOf, KilnTypes DEF KilnInv, KilnTypeOK
<1>2. Fingerprint(r) \in Noted
  BY <1>1 DEF Fingerprint, Noted
<1> QED
  BY <1>1, <1>2 DEF Record

LEMMA ClashKeeps ==
  ASSUME KilnInv, NEW r \in Requests, req[r].pc # "idle", Clash(r)
  PROVE  KilnInv'
<1>1. "clash" \in Over
  BY DEF Over
<1> QED
  BY <1>1, QuitKeeps DEF Clash

LEMMA ArriveKeeps ==
  ASSUME KilnInv, NEW r \in Requests, NEW c \in Calls, Arrive(r, c)
  PROVE  KilnInv'
<1>1. KilnTypeOK /\ UNCHANGED kilnRows /\ held' = held
  BY DEF KilnInv, Arrive
<1>2. open' = open /\ batch' = batch /\ plan' = plan /\ layout' = layout /\ ops' = ops
  BY <1>1 DEF kilnRows
<1>3. PICK v : /\ v \in CASE c.op = "LAYOUT" -> {layout[c.to].version}
                          [] c.op = "UPDATE" -> {batch[c.to].version}
                          [] c.op \in {"ASSIGN", "RELEASE"} -> {Nil, batch[c.to].version}
                          [] OTHER -> {Nil}
               /\ req' = [req EXCEPT ![r] = [pc |-> "call", call |-> c, seen |-> v]]
  BY DEF Arrive
<1>4. v \in Nat \cup {Nil}
  <2>1. c.op # "CREATE" => c.to \in Batches /\ Batch(c.to)
    BY CallFields DEF Arrive
  <2>2. c.op # "CREATE" => layout[c.to].version \in Nat /\ batch[c.to].version \in Nat
    BY <1>1, <2>1, RowFields DEF KilnTypeOK, RowsOK, Batch
  <2> QED
    BY <1>3, <2>2
<1>5. /\ req' \in [Requests -> [pc : {"idle"} \cup Waiting \cup Over, call : Calls \cup {Nil}, seen : Nat \cup {Nil}]]
      /\ req'[r].pc = "call" /\ req'[r].call = c
      /\ \A q \in Requests \ {r} : req'[q] = req[q]
  BY <1>1, <1>3, <1>4 DEF KilnTypeOK, Waiting
<1>6. KilnTypeOK' /\ Sound(batch', plan')
  BY <1>1, <1>2, <1>5 DEF KilnTypeOK, KilnInv
<1>7. Prudent(r)'
  BY <1>2, <1>5 DEF Prudent, KilnFits, KilnHolds, KilnKnows, ReqAt, Call, Is, Batch, Arrive
<1>8. \A q \in Requests \ {r} : Spares(q)
  BY <1>1, <1>5, QuietSpares DEF Spares
<1> QED
  BY <1>6, <1>7, <1>8, StepKeeps

LEMMA RecallKeeps ==
  ASSUME KilnInv, NEW r \in Requests, Recall(r)
  PROVE  KilnInv'
<1>1. req[r].pc # "idle" /\ "found" \in Over
  BY DEF Recall, ReqAt, Over
<1>2. Refuse(r) \/ (End(r, "found") /\ UNCHANGED kilnRows)
  BY DEF Recall
<1> QED
  BY <1>1, <1>2, QuitKeeps, RefuseKeeps

LEMMA LockKeyKeeps ==
  ASSUME KilnInv, NEW r \in Requests, LockKey(r)
  PROVE  KilnInv'
<1>1. Take(r, KeyOf(r), "key") /\ "key" \in Waiting /\ req[r].pc = "call" /\ Call(r).op \in Keyed
  BY DEF LockKey, Waiting, ReqAt
<1>2. /\ req'[r].pc = "key" /\ req'[r].call = req[r].call /\ req'[r].seen = req[r].seen /\ UNCHANGED kilnRows
  BY <1>1, TakeGives
<1>3. /\ Call(r)' = Call(r) /\ \A op : Is(r, op)' <=> Is(r, op)
      /\ \A b : Batch(b)' <=> Batch(b)
  BY <1>2, SamePlan
<1>4. KilnFits(r)
  BY DEF KilnInv, Prudent
<1>5. Prudent(r)'
  BY <1>1, <1>2, <1>3, <1>4 DEF Prudent, KilnFits, KilnHolds, KilnKnows, ReqAt
<1> QED
  BY <1>1, <1>5, TakeKeeps

LEMMA ResolveKeeps ==
  ASSUME KilnInv, NEW r \in Requests, Resolve(r)
  PROVE  KilnInv'
<1>1. Take(r, SourceOf(r), "parent") /\ "parent" \in Waiting /\ req[r].pc = "key"
  BY DEF Resolve, Waiting, ReqAt
<1>2. /\ req'[r].pc = "parent" /\ req'[r].call = req[r].call /\ req'[r].seen = req[r].seen /\ UNCHANGED kilnRows
      /\ \A x \in Names : x \in SourceOf(r) \/ held[x] = r => held'[x] = r
  BY <1>1, TakeGives
<1>3. /\ Call(r)' = Call(r) /\ \A op : Is(r, op)' <=> Is(r, op)
      /\ \A b : Batch(b)' <=> Batch(b)
  BY <1>2, SamePlan
<1>4. KilnFits(r) /\ Call(r).op \in Planning
  BY DEF KilnInv, Prudent, Resolve
<1>5. Call(r).source \in Sources
  BY <1>1, <1>4, BatchesOf
<1>6. held'[Source(Call(r).source)] = r
  BY <1>2, <1>5, LockNames DEF SourceOf, Source
<1>7. Prudent(r)'
  BY <1>1, <1>2, <1>3, <1>4, <1>6 DEF Prudent, KilnFits, KilnHolds, KilnKnows, ReqAt
<1> QED
  BY <1>1, <1>7, TakeKeeps

LEMMA LockBatchKeeps ==
  ASSUME KilnInv, NEW r \in Requests, LockBatch(r)
  PROVE  KilnInv'
<1>1. req[r].pc = "parent" /\ KilnFits(r) /\ KilnHolds(r) /\ Call(r).op \in Planning
  BY DEF KilnInv, Prudent, KilnFits, LockBatch, ReqAt
<1>2. /\ Call(r) \in Calls /\ Call(r).source \in Sources /\ ~Is(r, "CREATE")
      /\ FirstBatch(r) \in Batches
      /\ held[Source(Call(r).source)] = r
  BY <1>1, BatchesOf DEF KilnHolds
<1>3. CASE Refuse(r)
  BY <1>1, <1>3, RefuseKeeps
<1>4. CASE Is(r, "MOVE") /\ Take(r, {Row(FirstBatch(r))}, "second")
  <2>1. "second" \in Waiting
    BY DEF Waiting
  <2>2. /\ req'[r].pc = "second" /\ req'[r].call = req[r].call /\ req'[r].seen = req[r].seen /\ UNCHANGED kilnRows
        /\ \A x \in Names : x \in {Row(FirstBatch(r))} \/ held[x] = r => held'[x] = r
    BY <1>4, <2>1, TakeGives
  <2>3. /\ Call(r)' = Call(r) /\ \A op : Is(r, op)' <=> Is(r, op)
        /\ \A b : Batch(b)' <=> Batch(b)
        /\ FirstBatch(r)' = FirstBatch(r)
    BY <2>2, SamePlan
  <2>4. held'[Source(Call(r).source)] = r /\ held'[Row(FirstBatch(r))] = r
    BY <1>2, <2>2, LockNames
  <2>5. Prudent(r)'
    BY <1>1, <1>4, <2>2, <2>3, <2>4 DEF Prudent, KilnFits, KilnHolds, KilnKnows, ReqAt
  <2> QED
    BY <1>4, <2>1, <2>5, TakeKeeps
<1>5. CASE ~Is(r, "MOVE") /\ Possible(r) /\ Take(r, {Row(FirstBatch(r))}, "write")
  <2>1. "write" \in Waiting
    BY DEF Waiting
  <2>2. /\ req'[r].pc = "write" /\ req'[r].call = req[r].call /\ req'[r].seen = req[r].seen /\ UNCHANGED kilnRows
        /\ \A x \in Names : x \in {Row(FirstBatch(r))} \/ held[x] = r => held'[x] = r
    BY <1>5, <2>1, TakeGives
  <2>3. /\ Call(r)' = Call(r) /\ \A op : Is(r, op)' <=> Is(r, op)
        /\ \A b : Batch(b)' <=> Batch(b)
        /\ (Possible(r)' <=> Possible(r)) /\ Targets(r)' = Targets(r)
    BY <2>2, SamePlan
  <2>4. held'[Source(Call(r).source)] = r /\ \A b \in Targets(r) : held'[Row(b)] = r
    BY <1>2, <1>5, <2>2, LockNames DEF Targets, FirstBatch
  <2>5. Call(r).op \notin Firing
    BY <1>1 DEF Planning, Firing
  <2>6. KilnFits(r)'
    BY <1>1, <2>2, <2>3 DEF KilnFits, ReqAt
  <2>7. KilnHolds(r)'
    BY <2>2, <2>3, <2>4, <2>5 DEF KilnHolds, ReqAt
  <2>8. KilnKnows(r)'
    BY <1>1, <1>5, <2>2, <2>3, <2>5 DEF KilnKnows, ReqAt, Is, Planning, Firing
  <2> QED
    BY <1>5, <2>1, <2>6, <2>7, <2>8, TakeKeeps DEF Prudent
<1> QED
  BY <1>3, <1>4, <1>5 DEF LockBatch

LEMMA LockSecondKeeps ==
  ASSUME KilnInv, NEW r \in Requests, LockSecond(r)
  PROVE  KilnInv'
<1>1. req[r].pc = "second" /\ KilnFits(r) /\ KilnHolds(r) /\ Is(r, "MOVE")
  BY DEF KilnInv, Prudent, KilnFits, LockSecond, ReqAt
<1>2. /\ Call(r) \in Calls /\ Call(r).op \in Planning /\ Call(r).source \in Sources
      /\ Call(r).to \in Batches /\ Call(r).from \in Batches
      /\ held[Source(Call(r).source)] = r /\ held[Row(FirstBatch(r))] = r
  BY <1>1, BatchesOf DEF KilnHolds, ReqAt
<1>3. CASE Refuse(r)
  BY <1>1, <1>3, RefuseKeeps
<1>4. CASE Possible(r) /\ Take(r, {Row(SecondBatch(r))}, "write")
  <2>1. "write" \in Waiting
    BY DEF Waiting
  <2>2. /\ req'[r].pc = "write" /\ req'[r].call = req[r].call /\ req'[r].seen = req[r].seen /\ UNCHANGED kilnRows
        /\ \A x \in Names : x \in {Row(SecondBatch(r))} \/ held[x] = r => held'[x] = r
    BY <1>4, <2>1, TakeGives
  <2>3. /\ Call(r)' = Call(r) /\ \A op : Is(r, op)' <=> Is(r, op)
        /\ \A b : Batch(b)' <=> Batch(b)
        /\ (Possible(r)' <=> Possible(r)) /\ Targets(r)' = Targets(r)
    BY <2>2, SamePlan
  <2>4. Targets(r) = {FirstBatch(r), SecondBatch(r)}
    BY <1>1 DEF Targets, FirstBatch, SecondBatch
  <2>5. held'[Source(Call(r).source)] = r /\ \A b \in Targets(r) : held'[Row(b)] = r
    BY <1>2, <2>2, <2>4, LockNames DEF FirstBatch, SecondBatch
  <2>6. Call(r).op \notin Firing
    BY <1>2 DEF Planning, Firing
  <2>7. KilnFits(r)'
    BY <1>1, <1>2, <2>2, <2>3 DEF KilnFits, ReqAt
  <2>8. KilnHolds(r)'
    BY <2>2, <2>3, <2>5, <2>6 DEF KilnHolds, ReqAt
  <2>9. KilnKnows(r)'
    BY <1>1, <1>4, <2>2, <2>3, <2>6 DEF KilnKnows, ReqAt, Is
  <2> QED
    BY <1>4, <2>1, <2>7, <2>8, <2>9, TakeKeeps DEF Prudent
<1> QED
  BY <1>3, <1>4 DEF LockSecond

LEMMA LockForEndKeeps ==
  ASSUME KilnInv, NEW r \in Requests, LockForEnd(r)
  PROVE  KilnInv'
<1>1. req[r].pc = "call" /\ req[r].pc # "idle" /\ Call(r).op \in Firing /\ "found" \in Over /\ KilnFits(r)
  BY DEF KilnInv, Prudent, LockForEnd, ReqAt, Is, Firing, Over
<1>2. CASE Refuse(r) \/ (End(r, "found") /\ UNCHANGED kilnRows)
  BY <1>1, <1>2, QuitKeeps, RefuseKeeps
<1>3. CASE batch[Call(r).to].status = "PLANNED" /\ Take(r, {Row(Call(r).to)}, "parents")
  <2>1. "parents" \in Waiting
    BY DEF Waiting
  <2>2. /\ req'[r].pc = "parents" /\ req'[r].call = req[r].call /\ req'[r].seen = req[r].seen /\ UNCHANGED kilnRows
        /\ \A x \in Names : x \in {Row(Call(r).to)} \/ held[x] = r => held'[x] = r
    BY <1>3, <2>1, TakeGives
  <2>3. /\ Call(r)' = Call(r) /\ \A op : Is(r, op)' <=> Is(r, op)
        /\ \A b : Batch(b)' <=> Batch(b)
    BY <2>2, SamePlan
  <2>4. batch' = batch
    BY <2>2 DEF kilnRows
  <2>5. Call(r).to \in Batches
    BY <1>1, BatchesOf
  <2>6. held'[Row(Call(r).to)] = r
    BY <2>2, <2>5, LockNames
  <2>7. Prudent(r)'
    BY <1>1, <1>3, <2>2, <2>3, <2>4, <2>6 DEF Prudent, KilnFits, KilnHolds, KilnKnows, ReqAt
  <2> QED
    BY <1>3, <2>1, <2>7, TakeKeeps
<1> QED
  BY <1>2, <1>3 DEF LockForEnd

LEMMA LockParentKeeps ==
  ASSUME KilnInv, NEW r \in Requests, LockParent(r)
  PROVE  KilnInv'
<1> DEFINE xs == {<<"source", Min(Unlocked(r))>>}
<1>1. req[r].pc = "parents" /\ Take(r, xs, "parents") /\ "parents" \in Waiting
  BY DEF LockParent, ReqAt, Waiting
<1>2. KilnFits(r) /\ KilnHolds(r) /\ KilnKnows(r)
  BY DEF KilnInv, Prudent
<1> HIDE DEF xs
<1>3. /\ req'[r].pc = "parents" /\ req'[r].call = req[r].call /\ req'[r].seen = req[r].seen /\ UNCHANGED kilnRows
      /\ \A x \in Names : held[x] = r => held'[x] = r
  BY <1>1, TakeGives
<1>4. /\ Call(r)' = Call(r) /\ \A op : Is(r, op)' <=> Is(r, op)
      /\ \A b : Batch(b)' <=> Batch(b)
  BY <1>3, SamePlan
<1>5. batch' = batch
  BY <1>3 DEF kilnRows
<1>6. Call(r).op \in Firing /\ Call(r).to \in Batches
  BY <1>1, <1>2, BatchesOf DEF KilnFits, ReqAt
<1>7. held'[Row(Call(r).to)] = r
  BY <1>1, <1>2, <1>3, <1>6, LockNames DEF KilnHolds, ReqAt
<1>8. Prudent(r)'
  BY <1>1, <1>2, <1>3, <1>4, <1>5, <1>6, <1>7 DEF Prudent, KilnFits, KilnHolds, KilnKnows, ReqAt
<1> QED
  BY <1>1, <1>8, TakeKeeps

(* With all the orders of the batch locked, what it checks stays so. *)
LEMMA CheckLowKeeps ==
  ASSUME KilnInv, NEW r \in Requests, CheckLow(r)
  PROVE  KilnInv'
<1>1. /\ req[r].pc = "parents" /\ req[r].pc # "idle" /\ Unlocked(r) = {}
      /\ KilnFits(r) /\ KilnHolds(r) /\ KilnKnows(r) /\ KilnTypeOK
  BY DEF CheckLow, ReqAt, KilnInv, Prudent
<1>2. CASE Refuse(r)
  BY <1>1, <1>2, RefuseKeeps
<1>3. CASE (Is(r, "START") => LowDone(Call(r).to)) /\ Goto(r, "write") /\ UNCHANGED <<kilnRows, held>>
  <2>1. "write" \in {"idle"} \cup Waiting \cup Over /\ UNCHANGED kilnRows /\ held' = held
    BY <1>3 DEF Waiting
  <2>2. /\ req' \in [Requests -> [pc : {"idle"} \cup Waiting \cup Over, call : Calls \cup {Nil}, seen : Nat \cup {Nil}]]
        /\ req'[r].pc = "write" /\ req'[r].call = req[r].call /\ req'[r].seen = req[r].seen
        /\ \A q \in Requests \ {r} : req'[q] = req[q]
    BY <1>1, <1>3, <2>1, GoesTo
  <2>3. open' = open /\ batch' = batch /\ plan' = plan /\ layout' = layout /\ ops' = ops
    BY <2>1 DEF kilnRows
  <2>4. KilnTypeOK' /\ Sound(batch', plan')
    BY <1>1, <2>1, <2>2, <2>3 DEF KilnTypeOK, KilnInv
  <2>5. /\ Call(r)' = Call(r) /\ \A op : Is(r, op)' <=> Is(r, op)
        /\ (LowDone(Call(r).to)' <=> LowDone(Call(r).to)) /\ Parents(r)' = Parents(r)
        /\ Targets(r)' = Targets(r)
        /\ \A b : Batch(b)' <=> Batch(b)
    BY <2>1, <2>2, SamePlan
  <2>6. Call(r).op \in Firing /\ Call(r).op \notin Planning /\ ~Is(r, "MOVE") /\ ~Is(r, "LAYOUT")
    BY <1>1 DEF KilnFits, ReqAt, Firing, Planning, Is
  <2>7. Unlocked(r)' = {} /\ Targets(r) = {Call(r).to} /\ held[Row(Call(r).to)] = r
    BY <1>1, <2>1, <2>5, <2>6 DEF Unlocked, Targets, KilnHolds, ReqAt
  <2>8. KilnFits(r)'
    BY <1>1, <2>2, <2>5, <2>6 DEF KilnFits, ReqAt
  <2>9. KilnHolds(r)'
    BY <2>1, <2>2, <2>5, <2>6, <2>7 DEF KilnHolds, ReqAt
  <2>10. KilnKnows(r)'
    BY <1>1, <1>3, <2>2, <2>3, <2>5, <2>6 DEF KilnKnows, ReqAt
  <2>11. \A q \in Requests \ {r} : Spares(q)
    BY <2>1, <2>2, QuietSpares DEF Spares
  <2> QED
    BY <2>4, <2>8, <2>9, <2>10, <2>11, StepKeeps DEF Prudent
<1> QED
  BY <1>2, <1>3 DEF CheckLow

LEMMA ForsakeKeeps ==
  ASSUME KilnInv, NEW r \in Requests, Forsake(r)
  PROVE  KilnInv'
<1>1. req[r].pc # "idle" /\ "lost" \in Over
  BY DEF Forsake, Waiting, Over
<1> QED
  BY <1>1, QuitKeeps DEF Forsake

(* A request that waits for another is under way. *)
LEMMA BreakCircleKeeps ==
  ASSUME KilnInv, NEW r \in Requests, BreakCircle(r)
  PROVE  KilnInv'
<1>1. req[r].pc # "idle" /\ "lost" \in Over
  BY DEF BreakCircle, Circle, Blockers, Wants, ReqAt, Over
<1> QED
  BY <1>1, QuitKeeps DEF BreakCircle

-----------------------------------------------------------------------------
LEMMA MinIsIn ==
  ASSUME NEW S \in SUBSET Nat, S # {}
  PROVE  Min(S) \in S
<1>1. PICK n \in S : \A m \in S : ~ (<<m, n>> \in Less)
  BY LessWF, WFMin
<1>2. ASSUME NEW m \in S PROVE n <= m
  <2>1. m \in Nat /\ n \in Nat /\ ~ (<<m, n>> \in Less)
    BY <1>1
  <2> QED
    BY <2>1 DEF Less
<1> QED
  BY <1>2 DEF Min

LEMMA OverAre == "done" \in Over /\ "lost" \in Over /\ "found" \in Over /\ "clash" \in Over
BY DEF Over

LEMMA InvParts ==
  ASSUME KilnInv
  PROVE  /\ KilnTypeOK /\ Sound(batch, plan) /\ RowsOK(batch, plan) /\ plan \in PlanType
         /\ NoRawHigh(batch, plan)
         /\ open \in [Sources -> BOOLEAN]
         /\ layout \in [Batches -> [version : Nat, placed : [Lines -> Nat]]]
         /\ \A b \in Batches : Batch(b) => batch[b] \in BatchRow /\ batch[b] # Nil
BY RowsTyped DEF KilnInv, Sound, KilnTypeOK, Batch

(* What somebody may rely on when one row is written, and no pieces move. *)
LEMMA RowSpared ==
  ASSUME KilnInv, NEW q \in Requests, NEW b \in Batches, NEW row \in BatchRow,
         batch' = [batch EXCEPT ![b] = row], plan' = plan, open' = open,
         Batch(b) => held[Row(b)] # q /\ row.cycle = batch[b].cycle,
         FiredLow(batch) \subseteq FiredLow(batch'),
         \A a \in LitHigh(batch') \ LitHigh(batch), l \in Lines :
           held[Source(Owner[l])] = q => plan[a][l] = 0
  PROVE  RowsSpare(q) /\ \A a \in Batches : Batch(a) => batch'[a] # Nil
<1>1. RowsOK(batch, plan)
  BY InvParts
<1>2. batch'[b] = row /\ (\A a \in Batches \ {b} : batch'[a] = batch[a]) /\ row # Nil
  BY <1>1, OpeningAssumption DEF RowsOK
<1>3. \A a \in Batches : Batch(a) => batch'[a] # Nil /\ batch'[a].cycle = batch[a].cycle
  BY <1>2 DEF Batch
<1>4. \A a \in Batches : Batch(a) /\ held[Row(a)] = q => batch'[a] = batch[a]
  BY <1>2
<1>5. \A a \in Batches : ~Batch(a) => \A l \in Lines : plan'[a][l] = 0
  BY UnbornEmpty
<1> QED
  BY <1>3, <1>4, <1>5 DEF RowsSpare

LEMMA CreateKeeps ==
  ASSUME KilnInv, NEW r \in Requests, Create(r)
  PROVE  KilnInv'
<1> DEFINE unused == {b \in Batches : ~Batch(b)}
           row == [cycle |-> Call(r).cycle, status |-> "PLANNED", filled |-> 0, exclusive |-> FALSE, version |-> 1]
<1>1. req[r].pc # "idle" /\ Is(r, "CREATE")
  BY DEF Create, ReqAt
<1>2. CASE unused = {}
  <2>1. End(r, "lost") /\ UNCHANGED kilnRows
    BY <1>2 DEF Create
  <2> QED
    BY <1>1, <2>1, QuitKeeps, OverAre
<1>3. CASE unused # {} /\ ~Clash(r)
  <2> DEFINE b == Min(unused)
  <2>1. /\ batch' = [batch EXCEPT ![b] = row] /\ Record(r) /\ End(r, "done")
        /\ open' = open /\ plan' = plan /\ layout' = layout
    BY <1>3 DEF Create
  <2>2. b \in Batches /\ ~Batch(b)
    <3>1. unused \in SUBSET Nat
      BY KilnAssumption
    <3>2. b \in unused
      BY <1>3, <3>1, MinIsIn
    <3> QED
      BY <3>2
  <2>3. Call(r) \in Calls
    BY <1>1, BatchesOf
  <2>4. row \in BatchRow
    <3>1. Call(r).cycle \in Cycles
      BY <1>1, <2>3, CallAssumption DEF Is
    <3> QED
      BY <3>1 DEF BatchRow, Stages
  <2>5. row.status = "PLANNED" /\ row.filled = 0 /\ row.exclusive = FALSE
    OBVIOUS
  <2> HIDE DEF b, row
  <2>6. Sound(batch', plan')
    BY <2>1, <2>2, <2>4, <2>5, InvParts, OpenSound DEF Batch
  <2>7. LitHigh(batch') = LitHigh(batch) /\ FiredLow(batch') = FiredLow(batch)
    <3>1. batch'[b] = row /\ \A a \in Batches \ {b} : batch'[a] = batch[a]
      BY <2>1, <2>2, InvParts DEF RowsOK
    <3> QED
      BY <2>2, <2>5, <3>1, UnlitSame DEF Batch
  <2>8. ASSUME NEW q \in Requests PROVE RowsSpare(q) /\ \A a \in Batches : Batch(a) => batch'[a] # Nil
    BY <2>1, <2>2, <2>4, <2>7, RowSpared
  <2>9. ops' \subseteq Noted
    BY <1>1, <2>1, RecordTyped
  <2> QED
    BY <1>1, <2>1, <2>6, <2>8, <2>9, EndKeeps, InvParts, OverAre
<1>4. CASE Clash(r)
  BY <1>1, <1>4, ClashKeeps
<1> QED
  BY <1>2, <1>3, <1>4

(* A row written with its batch not lit and its pieces untouched. *)
LEMMA NoteSound ==
  ASSUME NEW B, NEW P, Sound(B, P), NEW b \in Batches, B[b] # Nil, B[b].status = "PLANNED",
         NEW row \in BatchRow, row.cycle = B[b].cycle,
         row.status = "PLANNED", row.filled = B[b].filled, row.exclusive = B[b].exclusive
  PROVE  Sound([B EXCEPT ![b] = row], P)
<1> DEFINE C == [B EXCEPT ![b] = row]
<1>1. RowsOK(B, P) /\ P \in PlanType /\ NoRawHigh(B, P) /\ B[b] \in BatchRow
  BY RowsTyped DEF Sound
<1>2. C[b] = row /\ (\A a \in Batches \ {b} : C[a] = B[a]) /\ row # Nil
  BY <1>1, OpeningAssumption DEF RowsOK
<1>4. RowsOK(C, P)
  BY <1>1 DEF RowsOK
<1> HIDE DEF C
<1>5. NoRawHigh(C, P)
  <2>1. C[b].status \in {"PLANNED", "CANCELLED"} /\ \A a \in Batches \ {b} : C[a] = B[a] /\ P[a] = P[a]
    BY <1>2
  <2> QED
    BY <1>1, <2>1, UnlitKeepsFires
<1>6. \A a \in Batches : (B[a] = Nil <=> C[a] = Nil)
  BY <1>2
<1>7. \A a \in Batches : C[a] # Nil =>
        C[a].cycle = B[a].cycle /\ C[a].filled = B[a].filled /\ C[a].exclusive = B[a].exclusive
  BY <1>2
<1>8. Sound(C, P)
  BY <1>4, <1>5, <1>6, <1>7, StageSound
<1> QED
  BY <1>8 DEF C

LEMMA UpdateKeeps ==
  ASSUME KilnInv, NEW r \in Requests, Update(r)
  PROVE  KilnInv'
<1> DEFINE b == Call(r).to
           row == [batch[b] EXCEPT !.version = @ + 1]
<1>1. req[r].pc # "idle" /\ Is(r, "UPDATE") /\ ~Is(r, "CREATE") /\ Unheld(Row(b))
  BY DEF Update, ReqAt, Is
<1>2. CASE Refuse(r)
  BY <1>1, <1>2, RefuseKeeps
<1>3. CASE ~Refuse(r)
  <2>1. /\ batch[b].status = "PLANNED" /\ batch' = [batch EXCEPT ![b].version = @ + 1] /\ End(r, "done")
        /\ open' = open /\ plan' = plan /\ layout' = layout /\ ops' = ops
    BY <1>3 DEF Update
  <2>2. b \in Batches /\ Batch(b) /\ batch[b] \in BatchRow /\ batch[b] # Nil
    BY <1>1, BatchesOf, InvParts
  <2>3. batch' = [batch EXCEPT ![b] = row]
    BY <2>1
  <2>4. /\ row \in BatchRow /\ row.cycle = batch[b].cycle /\ row.status = "PLANNED"
        /\ row.filled = batch[b].filled
    BY <2>1, <2>2, RowFields DEF BatchRow
  <2>5. row.exclusive = batch[b].exclusive
    BY <2>2, Zenon DEF BatchRow
  <2> HIDE DEF row, b
  <2>6. Sound(batch', plan')
    <3>1. Sound([batch EXCEPT ![b] = row], plan)
      BY <2>1, <2>2, <2>4, <2>5, InvParts, NoteSound
    <3> QED
      BY <2>1, <2>3, <3>1
  <2>7. LitHigh(batch') = LitHigh(batch) /\ FiredLow(batch') = FiredLow(batch)
    <3>1. batch'[b] = row /\ \A a \in Batches \ {b} : batch'[a] = batch[a]
      BY <2>2, <2>3, InvParts DEF RowsOK
    <3>2. batch'[b].status \in {"PLANNED", "CANCELLED"} /\ batch[b].status = "PLANNED"
      BY <2>1, <2>4, <3>1
    <3> QED
      BY <2>2, <3>1, <3>2, UnlitSame
  <2>8. ASSUME NEW q \in Requests PROVE RowsSpare(q) /\ \A a \in Batches : Batch(a) => batch'[a] # Nil
    <3>1. held[Row(b)] # q
      BY <1>1, KilnTypes, InvParts DEF Unheld
    <3>2. plan' = plan /\ open' = open
      BY <2>1
    <3> QED
      BY <2>2, <2>3, <2>4, <2>7, <3>1, <3>2, RowSpared
  <2>9. ops' \subseteq Noted
    BY <2>1 DEF KilnInv, KilnTypeOK
  <2> QED
    BY <1>1, <2>1, <2>6, <2>8, <2>9, EndKeeps, InvParts, OverAre
<1> QED
  BY <1>2, <1>3

LEMMA LockMapKeeps ==
  ASSUME KilnInv, NEW r \in Requests, LockMap(r)
  PROVE  KilnInv'
<1>1. req[r].pc = "key" /\ req[r].pc # "idle" /\ Is(r, "LAYOUT") /\ KilnFits(r)
  BY DEF LockMap, ReqAt, KilnInv, Prudent
<1>2. CASE Refuse(r)
  BY <1>1, <1>2, RefuseKeeps
<1>3. CASE batch[Call(r).to].status = "PLANNED" /\ Take(r, {Row(Call(r).to)}, "write")
  <2>1. "write" \in Waiting
    BY DEF Waiting
  <2>2. /\ req'[r].pc = "write" /\ req'[r].call = req[r].call /\ req'[r].seen = req[r].seen /\ UNCHANGED kilnRows
        /\ \A x \in Names : x \in {Row(Call(r).to)} \/ held[x] = r => held'[x] = r
    BY <1>3, <2>1, TakeGives
  <2>3. /\ Call(r)' = Call(r) /\ \A op : Is(r, op)' <=> Is(r, op)
        /\ \A b : Batch(b)' <=> Batch(b)
        /\ Targets(r)' = Targets(r)
    BY <2>2, SamePlan
  <2>4. batch' = batch
    BY <2>2 DEF kilnRows
  <2>5. Call(r).to \in Batches /\ Targets(r) = {Call(r).to} /\ Call(r).op \notin Planning \cup Firing
    BY <1>1, BatchesOf DEF Targets
  <2>6. \A b \in Targets(r) : held'[Row(b)] = r
    BY <2>2, <2>5, LockNames
  <2>7. KilnFits(r)'
    BY <1>1, <2>2, <2>3 DEF KilnFits, ReqAt
  <2>8. KilnHolds(r)'
    BY <2>2, <2>3, <2>5, <2>6 DEF KilnHolds, ReqAt
  <2>9. KilnKnows(r)'
    <3>1. ~Is(r, "START")
      BY <2>5 DEF Is, Firing
    <3> QED
      BY <1>3, <2>2, <2>3, <2>4, <2>5, <3>1 DEF KilnKnows, ReqAt
  <2> QED
    BY <1>3, <2>1, <2>7, <2>8, <2>9, TakeKeeps DEF Prudent
<1> QED
  BY <1>2, <1>3 DEF LockMap

LEMMA SaveLayoutKeeps ==
  ASSUME KilnInv, NEW r \in Requests, SaveLayout(r)
  PROVE  KilnInv'
<1> DEFINE b == Call(r).to
<1>1. req[r].pc # "idle" /\ ~Is(r, "CREATE")
  BY DEF SaveLayout, ReqAt, Is
<1>2. CASE Clash(r)
  BY <1>1, <1>2, ClashKeeps
<1>3. CASE ~Clash(r)
  <2>1. /\ layout' = [layout EXCEPT ![b] = [version |-> @.version + 1, placed |-> Call(r).items]]
        /\ Record(r) /\ End(r, "done") /\ open' = open /\ batch' = batch /\ plan' = plan
    BY <1>3 DEF SaveLayout
  <2>2. Call(r) \in Calls /\ Call(r).items \in [Lines -> Nat] /\ b \in Batches
    BY <1>1, BatchesOf, CallFields
  <2>3. layout' \in [Batches -> [version : Nat, placed : [Lines -> Nat]]]
    BY <2>1, <2>2, InvParts
  <2>4. ops' \subseteq Noted
    BY <1>1, <2>1, RecordTyped
  <2>5. \A q \in Requests : RowsSpare(q)
    BY <2>1, UnbornEmpty DEF RowsSpare, Batch
  <2>6. Sound(batch', plan') /\ \A a \in Batches : Batch(a) => batch'[a] # Nil
    BY <2>1, InvParts
  <2> QED
    BY <1>1, <2>1, <2>3, <2>4, <2>5, <2>6, EndKeeps, InvParts, OverAre
<1> QED
  BY <1>2, <1>3

LEMMA CloseOrderKeeps ==
  ASSUME KilnInv, NEW s \in Sources, CloseOrder(s)
  PROVE  KilnInv'
<1>1. /\ open' = [open EXCEPT ![s] = FALSE] /\ Unheld(Source(s))
      /\ batch' = batch /\ plan' = plan /\ layout' = layout /\ ops' = ops /\ held' = held /\ req' = req
  BY DEF CloseOrder, Source
<1>2. KilnTypeOK' /\ Sound(batch', plan')
  BY <1>1, InvParts DEF KilnTypeOK
<1>3. ASSUME NEW q \in Requests PROVE Prudent(q)'
  <2>1. \A o \in Sources : held[Source(o)] = q => open'[o] = open[o]
    <3>1. held[Source(s)] # q
      BY <1>1, KilnTypes, InvParts DEF Unheld
    <3> QED
      BY <1>1, <3>1, InvParts
  <2>2. RowsSpare(q)
    BY <1>1, <2>1, UnbornEmpty DEF RowsSpare, Batch
  <2> QED
    BY <1>1, <1>2, <2>2, Bystander DEF Spares
<1> QED
  BY <1>2, <1>3 DEF KilnInv

-----------------------------------------------------------------------------
LEMMA RowSet ==
  ASSUME NEW B, NEW P, RowsOK(B, P), NEW b \in Batches, NEW row \in BatchRow
  PROVE  /\ RowsOK([B EXCEPT ![b] = row], P)
         /\ [B EXCEPT ![b] = row][b] = row /\ row # Nil
         /\ \A a \in Batches \ {b} : [B EXCEPT ![b] = row][a] = B[a]
BY OpeningAssumption DEF RowsOK

(* A row that is at its next stage, and one called off. *)
Restaged(row, st) == [row EXCEPT !.status = st, !.version = @ + 1]
CalledOff(row, items) == [Emptier(row, items) EXCEPT !.status = "CANCELLED"]

LEMMA NextStage ==
  ASSUME NEW old \in BatchRow, NEW st \in Stages
  PROVE  /\ Restaged(old, st) \in BatchRow /\ Restaged(old, st).cycle = old.cycle
         /\ Restaged(old, st).status = st /\ Restaged(old, st).filled = old.filled
         /\ Restaged(old, st).exclusive = old.exclusive
<1> DEFINE row == Restaged(old, st)
<1>1. old.version + 1 \in Nat \ {0}
  BY RowFields
<1>2. row = [old EXCEPT !.status = st, !.version = old.version + 1]
  BY DEF Restaged
<1> HIDE DEF row
<1>3. row \in BatchRow /\ row.cycle = old.cycle /\ row.status = st /\ row.filled = old.filled
  BY <1>1, <1>2 DEF BatchRow
<1>4. row.exclusive = old.exclusive
  BY <1>2, Zenon DEF BatchRow
<1> QED
  BY <1>3, <1>4 DEF row

(* A batch that is lit with its low fire done. *)
LEMMA LightSound ==
  ASSUME NEW B, NEW P, Sound(B, P), NEW b \in Batches, B[b] # Nil, B[b].status = "PLANNED",
         B[b].cycle = "HIGH" =>
           \A l \in InKiln(P, b) :
             Needs[Owner[l]] = Cycles =>
               InBatches(P, l, {b} \cup LitHigh(B)) <= InBatches(P, l, FiredLow(B))
  PROVE  /\ Sound([B EXCEPT ![b] = Restaged(B[b], "STARTED")], P)
         /\ FiredLow([B EXCEPT ![b] = Restaged(B[b], "STARTED")]) = FiredLow(B)
         /\ LitHigh([B EXCEPT ![b] = Restaged(B[b], "STARTED")]) \subseteq LitHigh(B) \cup {b}
<1> DEFINE row == Restaged(B[b], "STARTED")
           C == [B EXCEPT ![b] = row]
<1>1. RowsOK(B, P) /\ P \in PlanType /\ NoRawHigh(B, P)
  BY RowsTyped DEF Sound
<1>0. /\ row \in BatchRow /\ row.cycle = B[b].cycle /\ row.status = "STARTED"
      /\ row.filled = B[b].filled /\ row.exclusive = B[b].exclusive
  <2>1. B[b] \in BatchRow /\ "STARTED" \in Stages
    BY RowsTyped DEF Sound, Stages
  <2> QED
    BY <2>1, NextStage
<1> HIDE DEF row
<1>2. RowsOK(C, P) /\ C[b] = row /\ row # Nil /\ \A a \in Batches \ {b} : C[a] = B[a]
  BY <1>0, <1>1, RowSet
<1> HIDE DEF C
<1>3. FiredLow(C) = FiredLow(B)
  BY <1>0, <1>2 DEF FiredLow, InState, OfCycle
<1>4. LitHigh(C) = LitHigh(B) \cup (IF B[b].cycle = "HIGH" THEN {b} ELSE {})
  BY <1>0, <1>2 DEF LitHigh, InState, OfCycle
<1>5. NoRawHigh(C, P)
  <2> SUFFICES ASSUME NEW l \in Lines, Needs[Owner[l]] = Cycles
               PROVE  InBatches(P, l, LitHigh(C)) <= InBatches(P, l, FiredLow(B))
    BY <1>3 DEF NoRawHigh
  <2>1. InBatches(P, l, LitHigh(B)) <= InBatches(P, l, FiredLow(B))
    BY <1>1 DEF NoRawHigh
  <2>2. CASE B[b].cycle # "HIGH"
    BY <1>4, <2>1, <2>2
  <2>3. CASE B[b].cycle = "HIGH" /\ l \in InKiln(P, b)
    <3>1. LitHigh(C) = {b} \cup LitHigh(B)
      BY <1>4, <2>3
    <3> QED
      BY <2>3, <3>1
  <2>4. CASE B[b].cycle = "HIGH" /\ l \notin InKiln(P, b)
    <3>1. P[b][l] = 0
      BY <1>1, <2>4 DEF InKiln, PlanType
    <3>2. LitHigh(C) \in SUBSET Batches /\ LitHigh(B) \subseteq LitHigh(C)
      BY <1>4 DEF LitHigh, InState, OfCycle
    <3>3. \A a \in LitHigh(C) \ LitHigh(B) : P[a][l] = 0
      BY <1>4, <3>1
    <3>4. InBatches(P, l, LitHigh(B)) = InBatches(P, l, LitHigh(C))
      BY <1>1, <3>2, <3>3, PiecesPart
    <3> QED
      BY <2>1, <3>4
  <2> QED
    BY <2>2, <2>3, <2>4
<1>6. \A a \in Batches : (B[a] = Nil <=> C[a] = Nil)
  BY <1>2
<1>7. \A a \in Batches : C[a] # Nil =>
        C[a].cycle = B[a].cycle /\ C[a].filled = B[a].filled /\ C[a].exclusive = B[a].exclusive
  BY <1>0, <1>2
<1>8. Sound(C, P)
  BY <1>2, <1>5, <1>6, <1>7, StageSound
<1> QED
  BY <1>3, <1>4, <1>8 DEF C, row

(* A batch that is done with: only the low fire has given more. *)
LEMMA FinishSound ==
  ASSUME NEW B, NEW P, Sound(B, P), NEW b \in Batches, B[b] # Nil, B[b].status = "STARTED"
  PROVE  /\ Sound([B EXCEPT ![b] = Restaged(B[b], "COMPLETED")], P)
         /\ FiredLow(B) \subseteq FiredLow([B EXCEPT ![b] = Restaged(B[b], "COMPLETED")])
         /\ LitHigh([B EXCEPT ![b] = Restaged(B[b], "COMPLETED")]) = LitHigh(B)
<1> DEFINE row == Restaged(B[b], "COMPLETED")
           C == [B EXCEPT ![b] = row]
<1>1. RowsOK(B, P) /\ P \in PlanType /\ NoRawHigh(B, P)
  BY RowsTyped DEF Sound
<1>0. /\ row \in BatchRow /\ row.cycle = B[b].cycle /\ row.status = "COMPLETED"
      /\ row.filled = B[b].filled /\ row.exclusive = B[b].exclusive
  <2>1. B[b] \in BatchRow /\ "COMPLETED" \in Stages
    BY RowsTyped DEF Sound, Stages
  <2> QED
    BY <2>1, NextStage
<1> HIDE DEF row
<1>2. RowsOK(C, P) /\ C[b] = row /\ row # Nil /\ \A a \in Batches \ {b} : C[a] = B[a]
  BY <1>0, <1>1, RowSet
<1> HIDE DEF C
<1>3. FiredLow(B) \subseteq FiredLow(C) /\ FiredLow(C) \in SUBSET Batches /\ FiredLow(B) \in SUBSET Batches
  BY <1>0, <1>2 DEF FiredLow, InState, OfCycle
<1>4. LitHigh(C) = LitHigh(B) /\ LitHigh(B) \in SUBSET Batches
  BY <1>0, <1>2 DEF LitHigh, InState, OfCycle
<1>5. NoRawHigh(C, P)
  <2> SUFFICES ASSUME NEW l \in Lines, Needs[Owner[l]] = Cycles
               PROVE  InBatches(P, l, LitHigh(B)) <= InBatches(P, l, FiredLow(C))
    BY <1>4 DEF NoRawHigh
  <2>1. InBatches(P, l, LitHigh(B)) <= InBatches(P, l, FiredLow(B))
    BY <1>1 DEF NoRawHigh
  <2>2. InBatches(P, l, FiredLow(B)) <= InBatches(P, l, FiredLow(C))
    BY <1>1, <1>3, PiecesPart
  <2>3. /\ InBatches(P, l, LitHigh(B)) \in Nat /\ InBatches(P, l, FiredLow(B)) \in Nat
        /\ InBatches(P, l, FiredLow(C)) \in Nat
    BY <1>1, <1>3, <1>4, PiecesType
  <2> QED
    BY <2>1, <2>2, <2>3
<1>6. \A a \in Batches : (B[a] = Nil <=> C[a] = Nil)
  BY <1>2
<1>7. \A a \in Batches : C[a] # Nil =>
        C[a].cycle = B[a].cycle /\ C[a].filled = B[a].filled /\ C[a].exclusive = B[a].exclusive
  BY <1>0, <1>2
<1>8. Sound(C, P)
  BY <1>2, <1>5, <1>6, <1>7, StageSound
<1> QED
  BY <1>3, <1>4, <1>8 DEF C, row

(* A batch that is called off before it is lit, with all its pieces out. *)
LEMMA CallOffSound ==
  ASSUME NEW B, NEW P, Sound(B, P), NEW b \in Batches, B[b] # Nil, B[b].status = "PLANNED"
  PROVE  /\ Sound([B EXCEPT ![b] = CalledOff(B[b], P[b])], TakenOut(P, b, P[b]))
         /\ CalledOff(B[b], P[b]) \in BatchRow /\ CalledOff(B[b], P[b]).cycle = B[b].cycle
         /\ CalledOff(B[b], P[b]).status = "CANCELLED"
<1> DEFINE row == CalledOff(B[b], P[b])
           e == Emptier(B[b], P[b])
           D == [B EXCEPT ![b] = e]
           C == [B EXCEPT ![b] = row]
           Q == TakenOut(P, b, P[b])
<1>1. RowsOK(B, P) /\ P \in PlanType /\ P[b] \in [Lines -> Nat] /\ B[b] \in BatchRow
  BY RowsTyped DEF Sound, PlanType
<1>2. Sound(D, Q) /\ e \in BatchRow
  <2>1. \A l \in Lines : P[b][l] <= P[b][l]
    BY <1>1
  <2>2. Sound([B EXCEPT ![b] = Emptier(@, P[b])], TakenOut(P, b, P[b])) /\ Emptier(B[b], P[b]) \in BatchRow
    BY <1>1, <2>1, TakeSound
  <2> QED
    BY <2>2
<1>3. e.cycle = B[b].cycle /\ e.status = "PLANNED"
  BY <1>1 DEF Emptier, BatchRow
<1>4. row = [e EXCEPT !.status = "CANCELLED"]
  BY DEF CalledOff
<1> HIDE DEF e, row
<1>5. row \in BatchRow /\ row.cycle = e.cycle /\ row.status = "CANCELLED" /\ row.filled = e.filled
  BY <1>2, <1>4 DEF BatchRow, Stages
<1>6. row.exclusive = e.exclusive
  BY <1>2, <1>4, Zenon DEF BatchRow
<1>7. /\ D[b] = e /\ e # Nil /\ \A a \in Batches \ {b} : D[a] = B[a]
  BY <1>1, <1>2, RowSet
<1>8. C[b] = row /\ row # Nil /\ \A a \in Batches \ {b} : C[a] = B[a]
  BY <1>1, <1>5, OpeningAssumption DEF RowsOK
<1>9. RowsOK(D, Q) /\ Q \in PlanType /\ NoRawHigh(D, Q)
  BY <1>2, RowsTyped DEF Sound
<1>10. RowsOK(C, Q)
  BY <1>1, <1>5, <1>9 DEF RowsOK
<1> HIDE DEF C, D, Q
<1>11. NoRawHigh(C, Q)
  <2>1. /\ D[b].status = "PLANNED" /\ C[b].status \in {"PLANNED", "CANCELLED"}
        /\ \A a \in Batches \ {b} : C[a] = D[a] /\ Q[a] = Q[a]
    BY <1>3, <1>5, <1>7, <1>8
  <2> QED
    BY <1>9, <2>1, UnlitKeepsFires
<1>12. \A a \in Batches : (D[a] = Nil <=> C[a] = Nil)
  BY <1>7, <1>8
<1>13. \A a \in Batches : C[a] # Nil =>
         C[a].cycle = D[a].cycle /\ C[a].filled = D[a].filled /\ C[a].exclusive = D[a].exclusive
  BY <1>5, <1>6, <1>7, <1>8
<1>14. Sound(C, Q)
  BY <1>2, <1>10, <1>11, <1>12, <1>13, StageSound
<1> QED
  BY <1>3, <1>5, <1>14 DEF C, Q, row

-----------------------------------------------------------------------------
(* Where a batch is about to be lit or called off, it waits, and it and the *)
(* orders in it are locked.                                                 *)
LEMMA ReadyToFire ==
  ASSUME KilnInv, NEW r \in Requests, req[r].pc = "write", Call(r).op \in Firing
  PROVE  /\ Call(r).to \in Batches /\ Batch(Call(r).to) /\ batch[Call(r).to].status = "PLANNED"
         /\ held[Row(Call(r).to)] = r
         /\ \A l \in InKiln(plan, Call(r).to) : held[Source(Owner[l])] = r
         /\ Is(r, "START") => LowDone(Call(r).to)
<1>1. KilnHolds(r) /\ KilnKnows(r)
  BY DEF KilnInv, Prudent
<1>2. Call(r).to \in Batches /\ Batch(Call(r).to)
  BY BatchesOf
<1>3. Unlocked(r) = {} /\ held[Row(Call(r).to)] = r
  BY <1>1 DEF KilnHolds, ReqAt, Targets
<1>4. \A l \in InKiln(plan, Call(r).to) : held[Source(Owner[l])] = r
  BY <1>3 DEF Unlocked, Parents, Source
<1> QED
  BY <1>1, <1>2, <1>3, <1>4 DEF KilnKnows, ReqAt

LEMMA SetStage ==
  ASSUME KilnInv, NEW b \in Batches, Batch(b), NEW st \in Stages,
         batch' = [batch EXCEPT ![b].status = st, ![b].version = @ + 1]
  PROVE  batch' = [batch EXCEPT ![b] = Restaged(batch[b], st)]
BY InvParts DEF RowsOK, BatchRow, Restaged

LEMMA StartKeeps ==
  ASSUME KilnInv, NEW r \in Requests, Start(r)
  PROVE  KilnInv'
<1> DEFINE b == Call(r).to
           row == Restaged(batch[b], "STARTED")
<1>1. req[r].pc = "write" /\ req[r].pc # "idle" /\ Is(r, "START") /\ Call(r).op \in Firing
  BY DEF Start, ReqAt, Is, Firing
<1>2. /\ b \in Batches /\ Batch(b) /\ batch[b].status = "PLANNED" /\ held[Row(b)] = r
      /\ \A l \in InKiln(plan, b) : held[Source(Owner[l])] = r
      /\ LowDone(b)
  BY <1>1, ReadyToFire
<1>3. /\ batch' = [batch EXCEPT ![b] = row] /\ End(r, "done")
      /\ open' = open /\ plan' = plan /\ layout' = layout /\ ops' = ops
  <2>1. "STARTED" \in Stages /\ batch' = [batch EXCEPT ![b].status = "STARTED", ![b].version = @ + 1]
    BY DEF Start, Stages
  <2>2. batch' = [batch EXCEPT ![b] = row]
    BY <1>2, <2>1, SetStage
  <2> QED
    BY <2>2 DEF Start
<1>4. batch[b] \in BatchRow /\ batch[b] # Nil
  BY <1>2, InvParts
<1>5. /\ row \in BatchRow /\ row.cycle = batch[b].cycle /\ row.status = "STARTED" /\ row.filled = batch[b].filled
      /\ row.exclusive = batch[b].exclusive
  <2>1. "STARTED" \in Stages
    BY DEF Stages
  <2> QED
    BY <1>4, <2>1, NextStage
<1>7. /\ Sound(batch', plan) /\ FiredLow(batch') = FiredLow(batch)
      /\ LitHigh(batch') \subseteq LitHigh(batch) \cup {b}
  <2>1. batch[b].cycle = "HIGH" =>
          \A l \in InKiln(plan, b) :
            Needs[Owner[l]] = Cycles =>
              InBatches(plan, l, {b} \cup LitHigh(batch)) <= InBatches(plan, l, FiredLow(batch))
    BY <1>2 DEF LowDone
  <2>2. /\ Sound([batch EXCEPT ![b] = row], plan) /\ FiredLow([batch EXCEPT ![b] = row]) = FiredLow(batch)
        /\ LitHigh([batch EXCEPT ![b] = row]) \subseteq LitHigh(batch) \cup {b}
    BY <1>2, <1>4, <2>1, InvParts, LightSound
  <2> QED
    BY <1>3, <2>2
<1> HIDE DEF row, b
<1>8. ASSUME NEW q \in Requests \ {r} PROVE RowsSpare(q)
  <2>1. \A a \in LitHigh(batch') \ LitHigh(batch), l \in Lines : held[Source(Owner[l])] = q => plan[a][l] = 0
    BY <1>2, <1>7, InvParts DEF InKiln, PlanType
  <2>2. held[Row(b)] # q /\ FiredLow(batch) \subseteq FiredLow(batch')
    BY <1>2, <1>7
  <2> QED
    BY <1>2, <1>3, <1>5, <2>1, <2>2, RowSpared
<1>9. \A a \in Batches : Batch(a) => batch'[a] # Nil
  BY <1>2, <1>3, <1>5, InvParts, OpeningAssumption DEF RowsOK, Batch
<1>10. ops' \subseteq Noted /\ Sound(batch', plan')
  BY <1>3, <1>7 DEF KilnInv, KilnTypeOK
<1> QED
  BY <1>1, <1>3, <1>8, <1>9, <1>10, EndKeeps, InvParts, OverAre

LEMMA CancelKeeps ==
  ASSUME KilnInv, NEW r \in Requests, Cancel(r)
  PROVE  KilnInv'
<1> DEFINE b == Call(r).to
           row == CalledOff(batch[b], plan[b])
<1>1. req[r].pc = "write" /\ req[r].pc # "idle" /\ Call(r).op \in Firing
  BY DEF Cancel, ReqAt, Is, Firing
<1>2. /\ b \in Batches /\ Batch(b) /\ batch[b].status = "PLANNED" /\ held[Row(b)] = r
      /\ \A l \in InKiln(plan, b) : held[Source(Owner[l])] = r
  BY <1>1, ReadyToFire
<1>3. /\ batch' = [batch EXCEPT ![b] = row] /\ plan' = TakenOut(plan, b, plan[b]) /\ End(r, "done")
      /\ open' = open /\ layout' = layout /\ ops' = ops
  BY DEF Cancel, CalledOff
<1>4. batch[b] \in BatchRow /\ batch[b] # Nil /\ plan[b] \in [Lines -> Nat]
  BY <1>2, InvParts DEF PlanType
<1>6. Sound(batch', plan') /\ row \in BatchRow /\ row.cycle = batch[b].cycle /\ row.status = "CANCELLED"
  <2>1. Sound([batch EXCEPT ![b] = row], TakenOut(plan, b, plan[b])) /\ row \in BatchRow
        /\ row.cycle = batch[b].cycle /\ row.status = "CANCELLED"
    <3>1. Sound(batch, plan)
      BY InvParts
    <3> QED
      BY <1>2, <1>4, <3>1, CallOffSound
  <2> QED
    BY <1>3, <2>1
<1> HIDE DEF row, b
<1>7. batch'[b] = row /\ row # Nil /\ \A a \in Batches \ {b} : batch'[a] = batch[a]
  BY <1>2, <1>3, <1>6, InvParts, OpeningAssumption DEF RowsOK
<1>8. LitHigh(batch') = LitHigh(batch) /\ FiredLow(batch') = FiredLow(batch)
  <2>1. batch'[b].status \in {"PLANNED", "CANCELLED"}
    BY <1>6, <1>7
  <2> QED
    BY <1>2, <1>7, <2>1, UnlitSame
<1>9. /\ \A l \in Lines : plan'[b][l] = 0
      /\ \A a \in Batches \ {b} : plan'[a] = plan[a]
  BY <1>2, <1>3, <1>4, InvParts DEF TakenOut, PlanType
<1>10. ASSUME NEW q \in Requests \ {r} PROVE RowsSpare(q)
  <2>1. ASSUME NEW l \in Lines, held[Source(Owner[l])] = q, NEW a \in Batches PROVE plan'[a][l] = plan[a][l]
    <3>1. l \notin InKiln(plan, b)
      BY <1>2, <2>1
    <3>2. plan[b][l] = 0
      BY <1>4, <3>1 DEF InKiln
    <3> QED
      BY <1>9, <3>2
  <2>2. \A a \in Batches : Batch(a) /\ held[Row(a)] = q => batch'[a] = batch[a] /\ plan'[a] = plan[a]
    BY <1>2, <1>7, <1>9
  <2>3. \A a \in Batches : Batch(a) => batch'[a] # Nil /\ batch'[a].cycle = batch[a].cycle
    BY <1>6, <1>7 DEF Batch
  <2>4. \A a \in Batches : ~Batch(a) => \A l \in Lines : plan'[a][l] = 0
    BY <1>2, <1>9, UnbornEmpty
  <2> QED
    BY <1>3, <1>8, <2>1, <2>2, <2>3, <2>4 DEF RowsSpare
<1>11. \A a \in Batches : Batch(a) => batch'[a] # Nil
  BY <1>7 DEF Batch
<1>12. ops' \subseteq Noted
  BY <1>3 DEF KilnInv, KilnTypeOK
<1> QED
  BY <1>1, <1>3, <1>6, <1>10, <1>11, <1>12, EndKeeps, InvParts, OverAre

LEMMA CompleteKeeps ==
  ASSUME KilnInv, NEW r \in Requests, Complete(r)
  PROVE  KilnInv'
<1> DEFINE b == Call(r).to
           row == Restaged(batch[b], "COMPLETED")
<1>1. req[r].pc # "idle" /\ ~Is(r, "CREATE") /\ Unheld(Row(b))
  BY DEF Complete, ReqAt, Is
<1>2. CASE Refuse(r) \/ (End(r, "found") /\ UNCHANGED kilnRows)
  BY <1>1, <1>2, QuitKeeps, RefuseKeeps, OverAre
<1>3. CASE /\ batch[b].status = "STARTED" /\ End(r, "done")
           /\ batch' = [batch EXCEPT ![b].status = "COMPLETED", ![b].version = @ + 1]
           /\ open' = open /\ plan' = plan /\ layout' = layout /\ ops' = ops
  <2>1. b \in Batches /\ Batch(b) /\ batch[b] \in BatchRow /\ batch[b] # Nil
    BY <1>1, BatchesOf, InvParts
  <2>2. "COMPLETED" \in Stages
    BY DEF Stages
  <2>3. /\ row \in BatchRow /\ row.cycle = batch[b].cycle /\ row.status = "COMPLETED" /\ row.filled = batch[b].filled
        /\ row.exclusive = batch[b].exclusive
    BY <2>1, <2>2, NextStage
  <2>4. batch' = [batch EXCEPT ![b] = row]
    BY <1>3, <2>1, <2>2, SetStage
  <2>0. /\ batch[b].status = "STARTED" /\ End(r, "done")
        /\ open' = open /\ plan' = plan /\ layout' = layout /\ ops' = ops
    BY <1>3
  <2>5. /\ Sound(batch', plan') /\ FiredLow(batch) \subseteq FiredLow(batch')
        /\ LitHigh(batch') = LitHigh(batch)
    <3>1. /\ Sound([batch EXCEPT ![b] = row], plan) /\ FiredLow(batch) \subseteq FiredLow([batch EXCEPT ![b] = row])
          /\ LitHigh([batch EXCEPT ![b] = row]) = LitHigh(batch)
      BY <2>0, <2>1, InvParts, FinishSound
    <3> QED
      BY <2>0, <2>4, <3>1
  <2> HIDE DEF row, b
  <2>6. ASSUME NEW q \in Requests PROVE RowsSpare(q) /\ \A a \in Batches : Batch(a) => batch'[a] # Nil
    <3>1. held[Row(b)] # q
      BY <1>1, KilnTypes, InvParts DEF Unheld
    <3>2. \A a \in LitHigh(batch') \ LitHigh(batch), l \in Lines : held[Source(Owner[l])] = q => plan[a][l] = 0
      BY <2>5
    <3> QED
      BY <2>0, <2>1, <2>3, <2>4, <2>5, <3>1, <3>2, RowSpared
  <2>7. ops' \subseteq Noted
    BY <2>0 DEF KilnInv, KilnTypeOK
  <2> QED
    BY <1>1, <2>0, <2>5, <2>6, <2>7, EndKeeps, InvParts, OverAre
<1> QED
  BY <1>2, <1>3 DEF Complete

-----------------------------------------------------------------------------
(* Rows C and Q that pieces of s have made of B and P in the batches D.     *)
Rearranges(B, P, C, Q, D, s) ==
  /\ Sound(C, Q)
  /\ \A a \in Batches \ D : C[a] = B[a] /\ Q[a] = P[a]
  /\ \A a \in D : C[a] # Nil /\ C[a].cycle = B[a].cycle /\ C[a].status = "PLANNED"
  /\ \A a \in Batches, l \in Lines : Owner[l] # s => Q[a][l] = P[a][l]

LEMMA TakeMoves ==
  ASSUME NEW B, NEW P, Sound(B, P), NEW b \in Batches, B[b] # Nil,
         NEW s, NEW items \in [Lines -> Nat], MayComeOut(B, P, b, s, items)
  PROVE  Rearranges(B, P, [B EXCEPT ![b] = Emptier(@, items)], TakenOut(P, b, items), {b}, s)
<1> DEFINE C == [B EXCEPT ![b] = Emptier(@, items)]
           Q == TakenOut(P, b, items)
<1>1. RowsOK(B, P) /\ P \in PlanType /\ B[b] \in BatchRow
  BY RowsTyped DEF Sound
<1>2. B[b].status = "PLANNED" /\ \A l \in Lines : items[l] <= P[b][l]
  BY <1>1, TakesPart DEF MayComeOut
<1>3. Sound(C, Q) /\ Emptier(B[b], items) \in BatchRow
  BY <1>2, TakeSound
<1>4. /\ C[b] = Emptier(B[b], items) /\ \A a \in Batches \ {b} : C[a] = B[a]
      /\ \A a \in Batches \ {b} : Q[a] = P[a]
      /\ \A l \in Lines : Q[b][l] = P[b][l] - items[l]
  BY <1>1 DEF RowsOK, TakenOut, PlanType
<1>5. Emptier(B[b], items).cycle = B[b].cycle /\ Emptier(B[b], items).status = B[b].status
  BY <1>1 DEF Emptier, BatchRow
<1>6. \A l \in Lines : P[b][l] \in Nat /\ items[l] \in Nat /\ (Owner[l] # s => items[l] = 0)
  BY <1>1 DEF MayComeOut, Asked, PlanType
<1> HIDE DEF C, Q
<1>7. C[b] # Nil
  BY <1>3, <1>4, OpeningAssumption
<1>8. \A a \in Batches, l \in Lines : Owner[l] # s => Q[a][l] = P[a][l]
  BY <1>4, <1>6
<1>9. Rearranges(B, P, C, Q, {b}, s)
  BY <1>2, <1>3, <1>4, <1>5, <1>7, <1>8 DEF Rearranges
<1> QED
  BY <1>9 DEF C, Q

LEMMA PutMoves ==
  ASSUME NEW B, NEW O, NEW P, Sound(B, P), NEW b \in Batches, B[b] # Nil,
         NEW s \in Sources, NEW items \in [Lines -> Nat], Asked(items) # {},
         MayGoIn(B, O, P, b, s, items)
  PROVE  Rearranges(B, P, [B EXCEPT ![b] = Fuller(@, s, items)], PutIn(P, b, items), {b}, s)
<1> DEFINE C == [B EXCEPT ![b] = Fuller(@, s, items)]
           Q == PutIn(P, b, items)
<1>1. RowsOK(B, P) /\ P \in PlanType /\ B[b] \in BatchRow
  BY RowsTyped DEF Sound
<1>2. B[b].status = "PLANNED"
  BY DEF MayGoIn
<1>3. Sound(C, Q) /\ Fuller(B[b], s, items) \in BatchRow
  BY <1>2, PutSound DEF MayGoIn
<1>4. /\ C[b] = Fuller(B[b], s, items) /\ \A a \in Batches \ {b} : C[a] = B[a]
      /\ \A a \in Batches \ {b} : Q[a] = P[a]
      /\ \A l \in Lines : Q[b][l] = P[b][l] + items[l]
  BY <1>1 DEF RowsOK, PutIn, PlanType
<1>5. Fuller(B[b], s, items).cycle = B[b].cycle /\ Fuller(B[b], s, items).status = B[b].status
  BY <1>1 DEF Fuller, BatchRow
<1>6. \A l \in Lines : P[b][l] \in Nat /\ items[l] \in Nat /\ (Owner[l] # s => items[l] = 0)
  BY <1>1 DEF MayGoIn, Asked, PlanType
<1> HIDE DEF C, Q
<1>7. C[b] # Nil
  BY <1>3, <1>4, OpeningAssumption
<1>8. \A a \in Batches, l \in Lines : Owner[l] # s => Q[a][l] = P[a][l]
  BY <1>4, <1>6
<1>9. Rearranges(B, P, C, Q, {b}, s)
  BY <1>2, <1>3, <1>4, <1>5, <1>7, <1>8 DEF Rearranges
<1> QED
  BY <1>9 DEF C, Q

LEMMA BothMove ==
  ASSUME NEW B, NEW O, NEW P, Sound(B, P), NEW from \in Batches, NEW to \in Batches, from # to,
         B[from] # Nil, B[to] # Nil, NEW s \in Sources, NEW items \in [Lines -> Nat], Asked(items) # {},
         MayMove(B, O, P, from, to, s, items)
  PROVE  Rearranges(B, P, [[B EXCEPT ![from] = Emptier(@, items)] EXCEPT ![to] = Fuller(@, s, items)],
               PutIn(TakenOut(P, from, items), to, items), {from, to}, s)
<1> DEFINE B1 == [B EXCEPT ![from] = Emptier(@, items)]
           P1 == TakenOut(P, from, items)
           C == [B1 EXCEPT ![to] = Fuller(@, s, items)]
           Q == PutIn(P1, to, items)
<1>1. Rearranges(B, P, B1, P1, {from}, s)
  BY TakeMoves DEF MayMove
<1>2. MayGoIn(B, O, P1, to, s, items)
  BY DEF MayMove
<1> HIDE DEF B1, P1
<1>3. B1[to] = B[to] /\ P1[to] = P[to] /\ Sound(B1, P1)
  BY <1>1 DEF Rearranges
<1>4. \A c : OfCycle(B1, c) = OfCycle(B, c)
  BY <1>1 DEF Rearranges, OfCycle
<1>5. MayGoIn(B1, O, P1, to, s, items)
  BY <1>2, <1>3, <1>4 DEF MayGoIn
<1>6. Rearranges(B1, P1, C, Q, {to}, s)
  BY <1>3, <1>5, PutMoves
<1> HIDE DEF C, Q
<1>7. Rearranges(B, P, C, Q, {from, to}, s)
  <2>1. Sound(C, Q)
    BY <1>6 DEF Rearranges
  <2>2. \A a \in Batches \ {from, to} : C[a] = B[a] /\ Q[a] = P[a]
    BY <1>1, <1>6 DEF Rearranges
  <2>3. \A a \in {from, to} : C[a] # Nil /\ C[a].cycle = B[a].cycle /\ C[a].status = "PLANNED"
    BY <1>1, <1>3, <1>6 DEF Rearranges
  <2>4. \A a \in Batches, l \in Lines : Owner[l] # s => Q[a][l] = P[a][l]
    BY <1>1, <1>6 DEF Rearranges
  <2> QED
    BY <2>1, <2>2, <2>3, <2>4 DEF Rearranges
<1> QED
  BY <1>7 DEF B1, P1, C, Q

LEMMA ReadyToWrite ==
  ASSUME KilnInv, NEW r \in Requests, req[r].pc = "write", Call(r).op \in Planning
  PROVE  /\ Call(r) \in Calls /\ Call(r).items \in [Lines -> Nat] /\ Asked(Call(r).items) # {}
         /\ Call(r).source \in Sources /\ held[Source(Call(r).source)] = r
         /\ \A b \in Targets(r) : b \in Batches /\ Batch(b) /\ held[Row(b)] = r
         /\ Is(r, "MOVE") => Call(r).from # Call(r).to
         /\ Possible(r)
<1>1. KilnHolds(r) /\ KilnKnows(r) /\ Call(r) \in Calls
  BY DEF KilnInv, Prudent, KilnFits
<1>2. /\ Call(r).items \in [Lines -> Nat] /\ Asked(Call(r).items) # {} /\ Call(r).source \in Sources
      /\ Is(r, "MOVE") => Call(r).from # Call(r).to
      /\ \A b \in Targets(r) : b \in Batches /\ Batch(b)
  BY <1>1, CallFields, BatchesOf DEF Is
<1>3. held[Source(Call(r).source)] = r /\ \A b \in Targets(r) : held[Row(b)] = r
  BY <1>1 DEF KilnHolds, ReqAt
<1> QED
  BY <1>1, <1>2, <1>3 DEF KilnKnows, ReqAt

LEMMA WriteMoves ==
  ASSUME KilnInv, NEW r \in Requests, Write(r), ~Clash(r)
  PROVE  Rearranges(batch, plan, batch', plan', Targets(r), Call(r).source)
<1> DEFINE c == Call(r)
<1>1. req[r].pc = "write" /\ c.op \in Planning
  BY DEF Write, ReqAt
<1>2. /\ c.items \in [Lines -> Nat] /\ Asked(c.items) # {} /\ c.source \in Sources
      /\ \A b \in Targets(r) : b \in Batches /\ batch[b] # Nil
      /\ Is(r, "MOVE") => c.from # c.to
      /\ Possible(r)
  BY <1>1, ReadyToWrite DEF Batch
<1>3. c.to \in Batches /\ batch[c.to] # Nil /\ Sound(batch, plan)
  BY <1>2, InvParts DEF Targets
<1>4. CASE Is(r, "ASSIGN")
  <2>1. batch' = [batch EXCEPT ![c.to] = Fuller(@, c.source, c.items)] /\ plan' = PutIn(plan, c.to, c.items)
    BY <1>4 DEF Write, Is
  <2>2. MayGoIn(batch, open, plan, c.to, c.source, c.items) /\ Targets(r) = {c.to}
    BY <1>2, <1>4, PossibleIs DEF Targets, Is
  <2> HIDE DEF c
  <2>3. Rearranges(batch, plan, [batch EXCEPT ![c.to] = Fuller(@, c.source, c.items)], PutIn(plan, c.to, c.items), {c.to}, c.source)
    BY <1>2, <1>3, <2>2, PutMoves
  <2> QED
    BY <2>1, <2>2, <2>3 DEF c
<1>5. CASE Is(r, "RELEASE")
  <2>1. batch' = [batch EXCEPT ![c.to] = Emptier(@, c.items)] /\ plan' = TakenOut(plan, c.to, c.items)
    BY <1>5 DEF Write, Is
  <2>2. MayComeOut(batch, plan, c.to, c.source, c.items) /\ Targets(r) = {c.to}
    BY <1>2, <1>5, PossibleIs DEF Targets, Is
  <2> HIDE DEF c
  <2>3. Rearranges(batch, plan, [batch EXCEPT ![c.to] = Emptier(@, c.items)], TakenOut(plan, c.to, c.items), {c.to}, c.source)
    BY <1>2, <1>3, <2>2, TakeMoves
  <2> QED
    BY <2>1, <2>2, <2>3 DEF c
<1>6. CASE Is(r, "MOVE")
  <2>1. /\ batch' = [[batch EXCEPT ![c.from] = Emptier(@, c.items)] EXCEPT ![c.to] = Fuller(@, c.source, c.items)]
        /\ plan' = PutIn(TakenOut(plan, c.from, c.items), c.to, c.items)
    BY <1>6 DEF Write, Is
  <2>2. MayMove(batch, open, plan, c.from, c.to, c.source, c.items) /\ Targets(r) = {c.from, c.to}
    BY <1>2, <1>6, PossibleIs DEF Targets
  <2>3. c.from \in Batches /\ batch[c.from] # Nil /\ c.from # c.to
    BY <1>2, <1>6, <2>2
  <2> HIDE DEF c
  <2>4. Rearranges(batch, plan,
              [[batch EXCEPT ![c.from] = Emptier(@, c.items)] EXCEPT ![c.to] = Fuller(@, c.source, c.items)],
              PutIn(TakenOut(plan, c.from, c.items), c.to, c.items), {c.from, c.to}, c.source)
    BY <1>2, <1>3, <2>2, <2>3, BothMove
  <2> QED
    BY <2>1, <2>2, <2>4 DEF c
<1> QED
  BY <1>1, <1>4, <1>5, <1>6 DEF Planning, Is

LEMMA WriteKeeps ==
  ASSUME KilnInv, NEW r \in Requests, Write(r)
  PROVE  KilnInv'
<1>1. req[r].pc = "write" /\ req[r].pc # "idle" /\ Call(r).op \in Planning
  BY DEF Write, ReqAt
<1>2. CASE Clash(r)
  BY <1>1, <1>2, ClashKeeps
<1>3. CASE ~Clash(r)
  <2> DEFINE D == Targets(r)
             s == Call(r).source
  <2>1. Rearranges(batch, plan, batch', plan', D, s)
    BY <1>3, WriteMoves
  <2>2. /\ Call(r) \in Calls /\ s \in Sources /\ held[Source(s)] = r
        /\ \A b \in D : b \in Batches /\ Batch(b) /\ held[Row(b)] = r
        /\ Possible(r)
    BY <1>1, ReadyToWrite
  <2>3. \A b \in D : batch[b].status = "PLANNED"
    BY <1>1, <2>2, PossibleIs DEF Targets, MayGoIn, MayComeOut, MayMove, Planning, Is
  <2>4. Record(r) /\ End(r, "done") /\ open' = open /\ layout' = layout
    BY <1>3 DEF Write
  <2> HIDE DEF D, s
  <2>5. /\ Sound(batch', plan')
        /\ \A a \in Batches \ D : batch'[a] = batch[a] /\ plan'[a] = plan[a]
        /\ \A a \in D : batch'[a] # Nil /\ batch'[a].cycle = batch[a].cycle /\ batch'[a].status = "PLANNED"
        /\ \A a \in Batches, l \in Lines : Owner[l] # s => plan'[a][l] = plan[a][l]
    BY <2>1 DEF Rearranges
  <2>6. LitHigh(batch') = LitHigh(batch) /\ FiredLow(batch') = FiredLow(batch)
    BY <2>3, <2>5 DEF LitHigh, FiredLow, InState, OfCycle
  <2>7. \A a \in Batches : Batch(a) => batch'[a] # Nil /\ batch'[a].cycle = batch[a].cycle
    BY <2>5 DEF Batch
  <2>8. \A a \in Batches : ~Batch(a) => \A l \in Lines : plan'[a][l] = 0
    BY <2>2, <2>5, UnbornEmpty
  <2>9. ASSUME NEW q \in Requests \ {r} PROVE RowsSpare(q)
    <3>1. \A a \in Batches : Batch(a) /\ held[Row(a)] = q => batch'[a] = batch[a] /\ plan'[a] = plan[a]
      BY <2>2, <2>5
    <3>2. \A l \in Lines : held[Source(Owner[l])] = q => \A a \in Batches : plan'[a][l] = plan[a][l]
      BY <2>2, <2>5
    <3> QED
      BY <2>4, <2>6, <2>7, <2>8, <3>1, <3>2 DEF RowsSpare
  <2>10. ops' \subseteq Noted
    BY <1>1, <2>4, RecordTyped
  <2> QED
    BY <1>1, <2>4, <2>5, <2>7, <2>9, <2>10, EndKeeps, InvParts, OverAre
<1> QED
  BY <1>2, <1>3

-----------------------------------------------------------------------------
LEMMA KilnNextKeeps ==
  ASSUME KilnInv, [KilnNext]_kilnVars
  PROVE  KilnInv'
<1>1. ASSUME NEW r \in Requests, NEW c \in Calls, Arrive(r, c) PROVE KilnInv'
  BY <1>1, ArriveKeeps
<1>2. ASSUME NEW r \in Requests, Plan(r) PROVE KilnInv'
  BY <1>2, RecallKeeps, CreateKeeps, UpdateKeeps, LockMapKeeps, SaveLayoutKeeps, LockKeyKeeps,
     ResolveKeeps, LockBatchKeeps, LockSecondKeeps, WriteKeeps DEF Plan
<1>3. ASSUME NEW r \in Requests, Fire(r) PROVE KilnInv'
  BY <1>3, LockForEndKeeps, LockParentKeeps, CheckLowKeeps, StartKeeps, CancelKeeps, CompleteKeeps DEF Fire
<1>4. ASSUME NEW r \in Requests, Forsake(r) \/ BreakCircle(r) PROVE KilnInv'
  BY <1>4, ForsakeKeeps, BreakCircleKeeps
<1>5. ASSUME NEW s \in Sources, CloseOrder(s) PROVE KilnInv'
  BY <1>5, CloseOrderKeeps
<1>6. CASE UNCHANGED kilnVars
  <2>1. UNCHANGED kilnRows /\ held' = held /\ req' = req
    BY <1>6 DEF kilnVars
  <2>2. open' = open /\ batch' = batch /\ plan' = plan /\ layout' = layout /\ ops' = ops
    BY <2>1 DEF kilnRows
  <2>3. KilnTypeOK' /\ Sound(batch', plan')
    BY <2>1, <2>2 DEF KilnInv, KilnTypeOK
  <2>4. \A q \in Requests : Spares(q)
    BY <2>1, QuietSpares DEF Spares
  <2>5. \A q \in Requests : Prudent(q)'
    BY <2>3, <2>4, Bystander
  <2> QED
    BY <2>3, <2>5 DEF KilnInv
<1> QED
  BY <1>1, <1>2, <1>3, <1>4, <1>5, <1>6 DEF KilnNext, Step

LEMMA KilnBegins ==
  ASSUME KilnInit
  PROVE  KilnInv
<1>1. PICK o \in Openings : batch = o.batch /\ plan = o.plan
  BY DEF KilnInit
<1>2. Sound(batch, plan) /\ RowsOK(batch, plan)
  BY <1>1, OpeningAssumption DEF Sound
<1>3. KilnTypeOK
  BY <1>2 DEF KilnInit, KilnTypeOK
<1>4. \A r \in Requests : req[r].pc = "idle"
  BY DEF KilnInit
<1>5. \A r \in Requests : Prudent(r)
  BY <1>4 DEF Prudent, KilnFits, KilnHolds, KilnKnows, ReqAt
<1> QED
  BY <1>2, <1>3, <1>5 DEF KilnInv

-----------------------------------------------------------------------------
(* Types, sound rows, and for each request that what it locked is its own   *)
(* and what it read there is still so, hold of every state: the locks taken *)
(* in kiln_batches.py cover all that a request checks before it commits.    *)
THEOREM KilnConsistent == KilnSpec => []KilnInv
<1>1. KilnInit => KilnInv
  BY KilnBegins
<1>2. KilnInv /\ [KilnNext]_kilnVars => KilnInv'
  BY KilnNextKeeps
<1> QED
  BY <1>1, <1>2, PTL DEF KilnSpec

(* Whoever assigns, releases, moves or calls off at once: the counter       *)
(* volume_filled of a batch is the volume of its active assignments and     *)
(* fits its kiln, and no piece is planned twice in one cycle.               *)
THEOREM PlansAddUp == KilnSpec => []PlanAddsUp
<1>1. KilnInv => PlanAddsUp
  BY DEF KilnInv, PlanAddsUp, Sound
<1> QED
  BY <1>1, KilnConsistent, PTL

(* Whoever plans, lights or finishes at once: no piece that needs the low   *)
(* fire is in a lit high one before it, and an order that pays for a kiln   *)
(* of its own is alone in it.                                               *)
THEOREM LoadsAreRight == KilnSpec => []LoadedRight
<1>1. KilnInv => LoadedRight
  BY DEF KilnInv, LoadedRight, Sound
<1> QED
  BY <1>1, KilnConsistent, PTL

LEMMA StaysAsIs ==
  ASSUME NEW b \in Batches, batch'[b] = batch[b], plan'[b] = plan[b]
  PROVE  /\ plan'[b] = plan[b]
         /\ batch'[b].status # batch[b].status =>
              batch[b].status = "STARTED" /\ batch'[b].status = "COMPLETED"
OBVIOUS

LEMMA StepKeepsFired ==
  ASSUME KilnInv, KilnNext, NEW b \in Batches, Batch(b), batch[b].status # "PLANNED"
  PROVE  /\ plan'[b] = plan[b]
         /\ batch'[b].status # batch[b].status =>
              batch[b].status = "STARTED" /\ batch'[b].status = "COMPLETED"
<1>0. RowsOK(batch, plan) /\ plan \in PlanType /\ batch[b] \in BatchRow
  BY InvParts
<1>1. CASE UNCHANGED kilnRows
  BY <1>1 DEF kilnRows
<1>2. CASE batch' = batch /\ plan' = plan
  BY <1>2
<1>3. ASSUME NEW r \in Requests, Create(r), ~UNCHANGED kilnRows
      PROVE  batch'[b] = batch[b] /\ plan'[b] = plan[b]
  <2> DEFINE unused == {a \in Batches : ~Batch(a)}
  <2>1. unused # {} /\ plan' = plan
    BY <1>3 DEF Create, Clash
  <2>2. unused \in SUBSET Nat
    BY KilnAssumption
  <2>3. Min(unused) \in unused
    BY <2>1, <2>2, MinIsIn
  <2>4. PICK row : batch' = [batch EXCEPT ![Min(unused)] = row]
    BY <2>1, <1>3 DEF Create, Clash
  <2>5. b # Min(unused)
    BY <2>3
  <2> HIDE DEF unused
  <2> QED
    BY <1>0, <2>1, <2>4, <2>5 DEF RowsOK
<1>4. ASSUME NEW r \in Requests, Update(r), ~UNCHANGED kilnRows
      PROVE  batch'[b] = batch[b] /\ plan'[b] = plan[b]
  <2>1. /\ batch[Call(r).to].status = "PLANNED" /\ plan' = plan
        /\ batch' = [batch EXCEPT ![Call(r).to].version = @ + 1]
    BY <1>4 DEF Update, Refuse
  <2> QED
    BY <1>0, <2>1 DEF RowsOK
<1>5. ASSUME NEW r \in Requests, Write(r), ~UNCHANGED kilnRows
      PROVE  batch'[b] = batch[b] /\ plan'[b] = plan[b]
  <2>1. ~Clash(r) /\ req[r].pc = "write" /\ Call(r).op \in Planning
    BY <1>5 DEF Write, Clash, ReqAt
  <2>2. \A a \in Targets(r) : batch[a].status = "PLANNED"
    BY <2>1, ReadyToWrite, PossibleIs DEF Targets, MayGoIn, MayComeOut, MayMove, Planning, Is
  <2>3. b \notin Targets(r)
    BY <2>2
  <2> QED
    BY <1>5, <2>1, <2>3, WriteMoves DEF Rearranges
<1>6. ASSUME NEW r \in Requests, Start(r) \/ Cancel(r)
      PROVE  batch'[b] = batch[b] /\ plan'[b] = plan[b]
  <2> DEFINE t == Call(r).to
  <2>1. req[r].pc = "write" /\ Call(r).op \in Firing
    BY <1>6 DEF Start, Cancel, ReqAt, Is, Firing
  <2>2. t # b
    BY <2>1, ReadyToFire
  <2>3. CASE Start(r)
    <3>1. plan' = plan /\ batch' = [batch EXCEPT ![t].status = "STARTED", ![t].version = @ + 1]
      BY <2>3 DEF Start
    <3> QED
      BY <1>0, <2>2, <3>1 DEF RowsOK
  <2>4. CASE Cancel(r)
    <3>1. PICK row : batch' = [batch EXCEPT ![t] = row] /\ plan' = TakenOut(plan, t, plan[t])
      BY <2>4 DEF Cancel
    <3> QED
      BY <1>0, <2>2, <3>1 DEF RowsOK, TakenOut
  <2> QED
    BY <1>6, <2>3, <2>4
<1>7. ASSUME NEW r \in Requests, Complete(r), ~UNCHANGED kilnRows
      PROVE  /\ plan'[b] = plan[b]
             /\ batch'[b].status # batch[b].status =>
                  batch[b].status = "STARTED" /\ batch'[b].status = "COMPLETED"
  <2> DEFINE t == Call(r).to
  <2>1. /\ batch[t].status = "STARTED" /\ plan' = plan
        /\ batch' = [batch EXCEPT ![t].status = "COMPLETED", ![t].version = @ + 1]
    BY <1>7 DEF Complete, Refuse
  <2> HIDE DEF t
  <2>2. CASE b = t
    BY <1>0, <2>1, <2>2 DEF RowsOK, BatchRow
  <2>3. CASE b # t
    BY <1>0, <2>1, <2>3 DEF RowsOK
  <2> QED
    BY <2>2, <2>3
<1>8. ASSUME NEW r \in Requests, ~UNCHANGED kilnRows, Step(r)
      PROVE  (batch' = batch /\ plan' = plan) \/ Create(r) \/ Update(r) \/ Write(r) \/ Start(r) \/ Cancel(r) \/ Complete(r)
  BY <1>8 DEF Step, Plan, Fire, Recall, Refuse, Clash, LockMap, SaveLayout, LockKey, Resolve, LockBatch,
     LockSecond, LockForEnd, LockParent, CheckLow, Take, kilnRows
<1>9. ASSUME ~UNCHANGED kilnRows
      PROVE  (batch' = batch /\ plan' = plan) \/ \E r \in Requests : Step(r)
  BY <1>9 DEF KilnNext, Arrive, Forsake, BreakCircle, CloseOrder
<1>10. CASE ~UNCHANGED kilnRows /\ \E r \in Requests : Step(r)
  <2>1. PICK r \in Requests : Step(r)
    BY <1>10
  <2>2. (batch' = batch /\ plan' = plan) \/ Create(r) \/ Update(r) \/ Write(r) \/ Start(r) \/ Cancel(r) \/ Complete(r)
    BY <1>8, <1>10, <2>1
  <2>3. CASE Create(r) \/ Update(r) \/ Write(r) \/ Start(r) \/ Cancel(r)
    <3>1. batch'[b] = batch[b] /\ plan'[b] = plan[b]
      BY <1>3, <1>4, <1>5, <1>6, <1>10, <2>3
    <3> QED
      BY <3>1, StaysAsIs
  <2> QED
    BY <1>2, <1>7, <1>10, <2>2, <2>3
<1> QED
  BY <1>1, <1>2, <1>9, <1>10

(* A map is written only where its batch is still planned. *)
LEMMA StepKeepsMap ==
  ASSUME KilnInv, KilnNext, NEW b \in Batches, batch[b].status # "PLANNED"
  PROVE  layout'[b] = layout[b]
<1>1. ASSUME NEW r \in Requests, SaveLayout(r), ~Clash(r)
      PROVE  layout'[b] = layout[b]
  <2>1. layout' = [layout EXCEPT ![Call(r).to] = [version |-> @.version + 1, placed |-> Call(r).items]]
    BY <1>1 DEF SaveLayout
  <2>2. batch[Call(r).to].status = "PLANNED"
    BY <1>1 DEF SaveLayout, KilnInv, Prudent, KilnKnows
  <2>3. Call(r).to # b
    BY <2>2
  <2> QED
    BY <2>1, <2>3, InvParts
<1>2. ASSUME NEW r \in Requests, Plan(r), layout' # layout
      PROVE  SaveLayout(r) /\ ~Clash(r)
  BY <1>2 DEF Plan, Recall, Refuse, Clash, LockKey, Create, Update, LockMap, SaveLayout, Resolve,
     LockBatch, LockSecond, Write, Take, kilnRows
<1>3. ASSUME NEW r \in Requests, Fire(r)
      PROVE  layout' = layout
  BY <1>3 DEF Fire, Refuse, LockForEnd, LockParent, CheckLow, Start, Cancel, Complete, Take, kilnRows
<1>4. ASSUME layout' # layout
      PROVE  \E r \in Requests : Step(r)
  BY <1>4 DEF KilnNext, Arrive, Forsake, BreakCircle, CloseOrder, kilnRows
<1>5. CASE layout' # layout
  BY <1>1, <1>2, <1>3, <1>4, <1>5 DEF Step
<1> QED
  BY <1>5

(* The pieces of a batch that was lit stay in it and its map stays as it    *)
(* is, and the only stage that follows the first is COMPLETED after         *)
(* STARTED, whoever assigns, releases, moves, saves a map, calls off or     *)
(* finishes at once.                                                        *)
THEOREM FiredStay == KilnSpec => FiredStays
<1> DEFINE Stay ==
      \A b \in Batches :
        Batch(b) /\ batch[b].status # "PLANNED" =>
          /\ plan'[b] = plan[b] /\ layout'[b] = layout[b]
          /\ batch'[b].status # batch[b].status =>
               batch[b].status = "STARTED" /\ batch'[b].status = "COMPLETED"
<1>1. KilnInv /\ [KilnNext]_kilnVars => [Stay]_kilnVars
  <2> SUFFICES ASSUME KilnInv, KilnNext PROVE Stay
    OBVIOUS
  <2> QED
    BY StepKeepsFired, StepKeepsMap
<1> HIDE DEF Stay
<1>2. KilnSpec => [][Stay]_kilnVars
  BY <1>1, KilnConsistent, PTL DEF KilnSpec
<1> QED
  BY <1>2 DEF FiredStays, Stay

-----------------------------------------------------------------------------
(***************************************************************************)
(* KilnBatches: the register of keys.                                      *)
(***************************************************************************)
(* No map is saved with a key of anything else. *)
KeysApart ==
  \A c, d \in Calls : c.op = "LAYOUT" /\ d.op # "LAYOUT" /\ c.key # Nil => c.key # d.key

Reserving == {"key", "parent", "second", "write"}

(* Whoever may record a key has it locked, and nobody has recorded it. *)
KeyReserved(r) ==
  req[r].pc \in Reserving /\ Call(r).op \in Keyed =>
    Recorded(r) = {} /\ \A x \in KeyOf(r) : held[x] = r

KeyInv == \A r \in Requests : KeyReserved(r) /\ ~ReqAt(r, "clash")

(* One that ends may have recorded its key, if it had reserved it. *)
EndsWell(r) ==
  \E pc \in Over \ {"clash"} :
    /\ End(r, pc)
    /\ \/ ops' = ops
       \/ /\ ops' \subseteq ops \cup {Fingerprint(r)}
          /\ \A x \in KeyOf(r) : held[x] = r

GoesOn(r) ==
  /\ ops' = ops
  /\ \/ Take(r, KeyOf(r), "key") /\ Recorded(r) = {}
     \/ req[r].pc \in Reserving /\ \E xs, pc : Take(r, xs, pc) /\ pc \in Reserving
     \/ Call(r).op \in Firing /\ \E xs, pc : Take(r, xs, pc) /\ pc \in {"parents", "write"}
     \/ Call(r).op \in Firing /\ Goto(r, "write") /\ held' = held

LEMMA RefusesWell ==
  ASSUME NEW r, Refuse(r) \/ (\E pc \in Over \ {"clash"} : End(r, pc) /\ UNCHANGED kilnRows)
  PROVE  EndsWell(r)
BY DEF Refuse, EndsWell, kilnRows, Over

LEMMA RecordsWell ==
  ASSUME KeyInv, NEW r \in Requests, req[r].pc \in Reserving, Call(r).op \in Keyed
  PROVE  /\ ~Clash(r)
         /\ End(r, "done") /\ Record(r) => EndsWell(r)
<1>1. Recorded(r) = {} /\ \A x \in KeyOf(r) : held[x] = r
  BY DEF KeyInv, KeyReserved
<1>2. Record(r) => ops' \subseteq ops \cup {Fingerprint(r)}
  BY DEF Record
<1>3. "done" \in Over \ {"clash"}
  BY DEF Over
<1> QED
  BY <1>1, <1>2, <1>3 DEF Clash, EndsWell

LEMMA PlanningKinds ==
  ASSUME KilnInv, KeyInv, NEW r \in Requests, Plan(r)
  PROVE  EndsWell(r) \/ GoesOn(r)
<1>1. "done" \in Over \ {"clash"} /\ "lost" \in Over \ {"clash"} /\ "found" \in Over \ {"clash"}
  BY DEF Over
<1>2. CASE Recall(r)
  BY <1>1, <1>2, RefusesWell DEF Recall
<1>3. CASE Create(r)
  <2>1. req[r].pc \in Reserving /\ Call(r).op \in Keyed
    BY <1>3 DEF Create, ReqAt, Is, Reserving, Keyed
  <2>2. (End(r, "lost") /\ UNCHANGED kilnRows) \/ Clash(r) \/ (End(r, "done") /\ Record(r))
    BY <1>3 DEF Create
  <2> QED
    BY <1>1, <2>1, <2>2, RefusesWell, RecordsWell
<1>4. CASE Update(r)
  <2>1. Refuse(r) \/ (End(r, "done") /\ ops' = ops)
    BY <1>4 DEF Update
  <2> QED
    BY <1>1, <2>1, RefusesWell DEF EndsWell
<1>5. CASE LockMap(r)
  <2>1. Refuse(r) \/ (req[r].pc = "key" /\ Take(r, {Row(Call(r).to)}, "write"))
    BY <1>5 DEF LockMap, ReqAt
  <2> QED
    BY <2>1, RefusesWell DEF GoesOn, Take, kilnRows, Reserving
<1>6. CASE SaveLayout(r)
  <2>1. req[r].pc \in Reserving /\ Call(r).op \in Keyed
    BY <1>6 DEF SaveLayout, ReqAt, Is, Reserving, Keyed
  <2>2. Clash(r) \/ (End(r, "done") /\ Record(r))
    BY <1>6 DEF SaveLayout
  <2> QED
    BY <2>1, <2>2, RecordsWell
<1>7. CASE LockKey(r)
  BY <1>7 DEF LockKey, GoesOn, Take, kilnRows
<1>8. CASE Resolve(r)
  BY <1>8 DEF Resolve, GoesOn, Take, kilnRows, ReqAt, Reserving
<1>9. CASE LockBatch(r)
  <2>1. Refuse(r) \/ (req[r].pc = "parent" /\ (Take(r, {Row(FirstBatch(r))}, "second") \/ Take(r, {Row(FirstBatch(r))}, "write")))
    BY <1>9 DEF LockBatch, ReqAt
  <2> QED
    BY <2>1, RefusesWell DEF GoesOn, Take, kilnRows, Reserving
<1>10. CASE LockSecond(r)
  <2>1. Refuse(r) \/ (req[r].pc = "second" /\ Take(r, {Row(SecondBatch(r))}, "write"))
    BY <1>10 DEF LockSecond, ReqAt
  <2> QED
    BY <2>1, RefusesWell DEF GoesOn, Take, kilnRows, Reserving
<1>11. CASE Write(r)
  <2>1. req[r].pc \in Reserving /\ Call(r).op \in Keyed
    BY <1>11 DEF Write, ReqAt, Reserving, Keyed
  <2>2. Clash(r) \/ (End(r, "done") /\ Record(r))
    BY <1>11 DEF Write
  <2> QED
    BY <2>1, <2>2, RecordsWell
<1> QED
  BY <1>2, <1>3, <1>4, <1>5, <1>6, <1>7, <1>8, <1>9, <1>10, <1>11 DEF Plan

LEMMA FiringKinds ==
  ASSUME KilnInv, NEW r \in Requests, Fire(r) \/ Forsake(r) \/ BreakCircle(r)
  PROVE  EndsWell(r) \/ GoesOn(r)
<1>1. "done" \in Over \ {"clash"} /\ "lost" \in Over \ {"clash"} /\ "found" \in Over \ {"clash"}
  BY DEF Over
<1>2. CASE LockForEnd(r)
  <2>1. \/ Refuse(r) \/ (End(r, "found") /\ UNCHANGED kilnRows)
        \/ Call(r).op \in Firing /\ Take(r, {Row(Call(r).to)}, "parents")
    BY <1>2 DEF LockForEnd, Is, Firing
  <2> QED
    BY <1>1, <2>1, RefusesWell DEF GoesOn, Take, kilnRows
<1>3. CASE LockParent(r)
  <2>1. Call(r).op \in Firing
    BY <1>3 DEF LockParent, KilnInv, Prudent, KilnFits
  <2>2. \E xs : Take(r, xs, "parents")
    BY <1>3 DEF LockParent
  <2> QED
    BY <2>1, <2>2 DEF GoesOn, Take, kilnRows
<1>4. CASE CheckLow(r)
  <2>1. Call(r).op \in Firing
    BY <1>4 DEF CheckLow, KilnInv, Prudent, KilnFits
  <2>2. Refuse(r) \/ (Goto(r, "write") /\ ops' = ops /\ held' = held)
    BY <1>4 DEF CheckLow, kilnRows
  <2> QED
    BY <2>1, <2>2, RefusesWell DEF GoesOn
<1>5. CASE Start(r) \/ Cancel(r)
  BY <1>1, <1>5 DEF Start, Cancel, EndsWell
<1>6. CASE Complete(r)
  <2>1. \/ Refuse(r) \/ (End(r, "found") /\ UNCHANGED kilnRows)
        \/ End(r, "done") /\ ops' = ops
    BY <1>6 DEF Complete
  <2> QED
    BY <1>1, <2>1, RefusesWell DEF EndsWell
<1>7. CASE Forsake(r) \/ BreakCircle(r)
  BY <1>1, <1>7, RefusesWell DEF Forsake, BreakCircle
<1> QED
  BY <1>2, <1>3, <1>4, <1>5, <1>6, <1>7 DEF Fire

LEMMA KeyNames ==
  ASSUME KilnInv, NEW r \in Requests, req[r].pc # "idle"
  PROVE  KeyOf(r) \subseteq Names /\ Call(r) \in Calls
<1>1. Call(r) \in Calls
  BY BatchesOf
<1> QED
  BY <1>1 DEF KeyOf, Names

(* Two requests with one key take the same lock. *)
LEMMA SameLock ==
  ASSUME KeysApart, NEW r, NEW q, Call(r) \in Calls, Call(q) \in Calls,
         Call(q).key = Call(r).key
  PROVE  KeyOf(r) = KeyOf(q) /\ (KeyOf(r) = {} => Call(r).key = Nil)
<1>1. Call(r).key # Nil => (Is(r, "LAYOUT") <=> Is(q, "LAYOUT"))
  BY DEF KeysApart, Is
<1> QED
  BY <1>1 DEF KeyOf

(* Nobody else records a key that is reserved. *)
LEMMA ReservedStays ==
  ASSUME KeysApart, KilnInv, KeyInv, NEW r \in Requests, NEW q \in Requests \ {r},
         req[r].pc \in Reserving, Call(r).op \in Keyed, Call(q) \in Calls,
         \A x \in KeyOf(q) : held[x] = q
  PROVE  Call(q).key = Call(r).key => Call(r).key = Nil
<1> SUFFICES ASSUME Call(q).key = Call(r).key, Call(r).key # Nil PROVE FALSE
  OBVIOUS
<1>1. req[r].pc # "idle"
  BY DEF Reserving
<1>2. Call(r) \in Calls
  BY <1>1, KeyNames
<1>3. KeyOf(r) = KeyOf(q) /\ KeyOf(r) # {}
  BY <1>2, SameLock
<1>4. \A x \in KeyOf(r) : held[x] = r
  BY DEF KeyInv, KeyReserved
<1> QED
  BY <1>3, <1>4

LEMMA KeyStepKeeps ==
  ASSUME KeysApart, KilnInv, KeyInv, NEW q \in Requests, req[q].pc # "idle", EndsWell(q) \/ GoesOn(q)
  PROVE  KeyInv'
<1>1. KilnTypeOK /\ Call(q) \in Calls
  BY BatchesOf DEF KilnInv
<1>2. PICK pc : Goto(q, pc)
  BY DEF EndsWell, GoesOn, End, Take
<1>3. /\ req'[q].pc = pc /\ Call(q)' = Call(q)
      /\ \A r \in Requests \ {q} : req'[r] = req[r]
  BY <1>1, <1>2 DEF Goto, KilnTypeOK, Call
<1>4. ASSUME NEW r \in Requests \ {q} PROVE KeyReserved(r)' /\ ~ReqAt(r, "clash")'
  <2>1. req'[r] = req[r] /\ Call(r)' = Call(r)
    BY <1>3 DEF Call
  <2>2. ~ReqAt(r, "clash")'
    BY <2>1 DEF ReqAt, KeyInv
  <2> SUFFICES ASSUME req[r].pc \in Reserving, Call(r).op \in Keyed
               PROVE  Recorded(r)' = {} /\ \A x \in KeyOf(r)' : held'[x] = r
    BY <2>1, <2>2 DEF KeyReserved
  <2>3. Recorded(r) = {} /\ \A x \in KeyOf(r) : held[x] = r
    BY DEF KeyInv, KeyReserved
  <2>4. KeyOf(r)' = KeyOf(r)
    BY <2>1 DEF KeyOf, Is
  <2>5. KeyOf(r) \subseteq Names /\ r # Nil
    <3>1. req[r].pc # "idle"
      BY DEF Reserving
    <3> QED
      BY <3>1, KeyNames, KilnAssumption
  <2>6. \A x \in Names : held[x] = r => held'[x] = r
    <3>1. CASE held' = LetGo(q)
      BY <3>1 DEF LetGo
    <3>2. CASE held' = held
      BY <3>2
    <3>3. ASSUME NEW xs, NEW to, Take(q, xs, to) PROVE \A x \in Names : held[x] = r => held'[x] = r
      BY <2>5, <3>3 DEF Take, Unheld
    <3> QED
      BY <3>1, <3>2, <3>3 DEF EndsWell, GoesOn, End
  <2>7. Recorded(r)' = {}
    <3>1. CASE ops' = ops
      BY <2>1, <2>3, <3>1 DEF Recorded
    <3>2. CASE ops' # ops
      <4>1. ops' \subseteq ops \cup {Fingerprint(q)} /\ \A x \in KeyOf(q) : held[x] = q
        BY <3>2 DEF EndsWell, GoesOn
      <4>2. Call(q).key = Call(r).key => Call(r).key = Nil
        BY <1>1, <4>1, ReservedStays
      <4> QED
        BY <2>1, <2>3, <4>1, <4>2 DEF Recorded, Fingerprint
    <3> QED
      BY <3>1, <3>2
  <2> QED
    BY <2>3, <2>4, <2>5, <2>6, <2>7
<1>5. KeyReserved(q)' /\ ~ReqAt(q, "clash")'
  <2>1. CASE EndsWell(q)
    <3>1. pc \in Over \ {"clash"}
      BY <1>1, <1>3, <2>1, GoesTo DEF EndsWell, End
    <3> QED
      BY <1>3, <3>1 DEF KeyReserved, ReqAt, Over, Reserving
  <2>2. CASE GoesOn(q) /\ Call(q).op \in Firing
    <3>1. Call(q)'.op \notin Keyed
      BY <1>3, <2>2 DEF Firing, Keyed, Planning
    <3>2. pc \in {"key", "parents", "write"} \cup Reserving
      BY <1>1, <1>3, <2>2, GoesTo DEF GoesOn, Take, Reserving, Waiting
    <3> QED
      BY <1>3, <3>1, <3>2 DEF KeyReserved, ReqAt, Reserving
  <2>3. CASE GoesOn(q) /\ Call(q).op \notin Firing
    <3>1. ops' = ops /\ KeyOf(q)' = KeyOf(q) /\ Recorded(q)' = Recorded(q)
      BY <1>3, <2>3 DEF GoesOn, KeyOf, Is, Recorded
    <3>2. PICK xs, to : /\ Take(q, xs, to) /\ to \in Reserving
                        /\ (xs = KeyOf(q) /\ Recorded(q) = {}) \/ req[q].pc \in Reserving
      BY <2>3 DEF GoesOn, Reserving
    <3>3. pc = to
      BY <1>1, <1>3, <3>2, GoesTo DEF Take, Reserving, Waiting
    <3>4. pc # "clash"
      BY <3>2, <3>3 DEF Reserving
    <3> SUFFICES ASSUME Call(q).op \in Keyed
                 PROVE  Recorded(q) = {} /\ \A x \in KeyOf(q) : held'[x] = q
      BY <1>3, <3>1, <3>4 DEF KeyReserved, ReqAt
    <3>5. KeyOf(q) \subseteq Names
      BY KeyNames
    <3>6. \A x \in Names : x \in xs \/ held[x] = q => held'[x] = q
      BY <3>2 DEF Take
    <3>7. req[q].pc \in Reserving => Recorded(q) = {} /\ \A x \in KeyOf(q) : held[x] = q
      BY DEF KeyInv, KeyReserved
    <3> QED
      BY <3>2, <3>5, <3>6, <3>7
  <2> QED
    BY <2>1, <2>2, <2>3
<1> QED
  BY <1>4, <1>5 DEF KeyInv

LEMMA KeyNextKeeps ==
  ASSUME KeysApart, KilnInv, KeyInv, [KilnNext]_kilnVars
  PROVE  KeyInv'
<1>1. ASSUME NEW q \in Requests, NEW c \in Calls, Arrive(q, c) PROVE KeyInv'
  <2>1. /\ ops' = ops /\ held' = held /\ req'[q].pc = "call"
        /\ \A r \in Requests \ {q} : req'[r] = req[r]
    BY <1>1 DEF Arrive, kilnRows, KilnInv, KilnTypeOK
  <2>2. KeyReserved(q)' /\ ~ReqAt(q, "clash")'
    BY <2>1 DEF KeyReserved, ReqAt, Reserving
  <2>3. ASSUME NEW r \in Requests \ {q} PROVE KeyReserved(r)' /\ ~ReqAt(r, "clash")'
    BY <2>1 DEF KeyInv, KeyReserved, ReqAt, Recorded, KeyOf, Is, Call
  <2> QED
    BY <2>2, <2>3 DEF KeyInv
<1>2. ASSUME NEW q \in Requests, Step(q) \/ Forsake(q) \/ BreakCircle(q) PROVE KeyInv'
  <2>1. EndsWell(q) \/ GoesOn(q)
    BY <1>2, PlanningKinds, FiringKinds DEF Step
  <2>2. req[q].pc # "idle"
    BY <1>2 DEF Step, Plan, Fire, Recall, Create, Update, LockMap, SaveLayout, LockKey, Resolve, LockBatch,
       LockSecond, Write, LockForEnd, LockParent, CheckLow, Start, Cancel, Complete, Forsake, Waiting,
       BreakCircle, Circle, Blockers, Wants, ReqAt
  <2> QED
    BY <2>1, <2>2, KeyStepKeeps
<1>3. CASE (\E s \in Sources : CloseOrder(s)) \/ UNCHANGED kilnVars
  <2>1. ops' = ops /\ held' = held /\ req' = req
    BY <1>3 DEF CloseOrder, kilnVars, kilnRows
  <2> QED
    BY <2>1 DEF KeyInv, KeyReserved, ReqAt, Recorded, KeyOf, Is, Call
<1> QED
  BY <1>1, <1>2, <1>3 DEF KilnNext

(* Where no map is saved with a key of anything else, the advisory lock of  *)
(* a key is enough for plans, new batches and maps: a repetition always     *)
(* finds the first of its kind or takes its place, and no request dies of   *)
(* UNIQUE on the register.  The hypothesis is needed, since a map takes its *)
(* lock in a namespace of its own and records its key in the register of    *)
(* all.                                                                     *)
THEOREM KeysNeverClash ==
  ASSUME KeysApart
  PROVE  KilnSpec => [](\A r \in Requests : ~ReqAt(r, "clash"))
<1>1. KilnInit => KeyInv
  BY DEF KilnInit, KeyInv, KeyReserved, ReqAt, Reserving
<1>2. KilnInv /\ KeyInv /\ [KilnNext]_kilnVars => KeyInv'
  BY KeyNextKeeps
<1>3. KeyInv => \A r \in Requests : ~ReqAt(r, "clash")
  BY DEF KeyInv
<1> QED
  BY <1>1, <1>2, <1>3, KilnConsistent, PTL DEF KilnSpec
=============================================================================
