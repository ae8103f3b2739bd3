---------------------------- MODULE SetTheorems ----------------------------
(***************************************************************************)
(* Facts about the operators of FiniteSetsExt: the minimum of a set of     *)
(* naturals and the sum over a finite set.  The induction theorems take a  *)
(* predicate as a parameter and cannot be instantiated; each induction is  *)
(* therefore done by looking at a least counterexample, which MinOfNaturals*)
(* provides.                                                               *)
(***************************************************************************)
EXTENDS Integers, FiniteSetsExt, FiniteSetTheorems, WellFoundedInduction, TLAPS

NatLess == {ss \in Nat \X Nat : ss[1] < ss[2]}

(* The order on the naturals, as a relation, is well-founded.              *)
LEMMA NatLessWellFounded == IsWellFoundedOn(NatLess, Nat)
BY NatLessThanWellFounded DEF NatLess, OpToRel

(* A non-empty set of naturals has its minimum in it: the next row of a    *)
(* SELECT ... ORDER BY is one of the rows, the next timer is one of the    *)
(* timers.                                                                 *)
LEMMA MinOfNaturals ==
    ASSUME NEW S, S \subseteq Nat, S # {}
    PROVE  Min(S) \in S /\ \A y \in S : Min(S) <= y
<1>1. \E x \in S : \A y \in S : <<y, x>> \notin NatLess
    BY NatLessWellFounded, WFMin
<1>2. PICK x \in S : \A y \in S : <<y, x>> \notin NatLess
    BY <1>1
<1>3. \A y \in S : ~(y < x)
    BY <1>2 DEF NatLess
<1>4. \A y \in S : x <= y
    BY <1>3
<1> QED BY <1>4 DEF Min

-----------------------------------------------------------------------------
(* Sums.                                                                   *)

SumOver(f, S) == MapThenSumSet(LAMBDA x : f[x], S)

One(s) == CHOOSE x \in s : TRUE

(* g tabulates the sum of f over the subsets of S.                         *)
Tabulates(g, f, S) ==
    g = [s \in SUBSET S |-> IF s = {} THEN 0 ELSE f[One(s)] + g[s \ {One(s)}]]

(* g does so for the subsets of at most n elements.                        *)
TabulatesTo(g, f, S, n) ==
    /\ g \in [SUBSET S -> Int]
    /\ \A s \in SUBSET S : Cardinality(s) <= n =>
           g[s] = IF s = {} THEN 0 ELSE f[One(s)] + g[s \ {One(s)}]

(* A set with an element has the chosen one, and is one larger without it. *)
LEMMA OneOfSet ==
    ASSUME NEW S, IsFiniteSet(S), S # {}
    PROVE  /\ One(S) \in S
           /\ IsFiniteSet(S \ {One(S)})
           /\ Cardinality(S) \in Nat
           /\ Cardinality(S \ {One(S)}) = Cardinality(S) - 1
           /\ Cardinality(S) > 0
<1>1. One(S) \in S
    BY Zenon DEF One
<1>2. IsFiniteSet(S \ {One(S)}) /\ Cardinality(S \ {One(S)}) = Cardinality(S) - 1
    BY <1>1, FS_RemoveElement, Zenon
<1>3. Cardinality(S) \in Nat /\ Cardinality(S) # 0
    BY FS_CardinalityType, FS_EmptySet, Zenon
<1> QED BY <1>1, <1>2, <1>3

(* One more element can be tabulated from the smaller sets.                *)
LEMMA TabulateMore ==
    ASSUME NEW S, IsFiniteSet(S), NEW f, \A x \in S : f[x] \in Int,
           NEW n \in Nat, NEW g, TabulatesTo(g, f, S, n)
    PROVE  \E h : TabulatesTo(h, f, S, n + 1)
<1> DEFINE h == [s \in SUBSET S |-> IF Cardinality(s) <= n THEN g[s]
                                    ELSE f[One(s)] + g[s \ {One(s)}]]
<1>1. \A s \in SUBSET S : IsFiniteSet(s) /\ Cardinality(s) \in Nat
    BY FS_Subset, FS_CardinalityType
<1>2. \A s \in SUBSET S : s # {} =>
          /\ One(s) \in S /\ f[One(s)] \in Int
          /\ s \ {One(s)} \in SUBSET S
          /\ Cardinality(s \ {One(s)}) = Cardinality(s) - 1
    BY <1>1, OneOfSet
<1>3. Cardinality({}) = 0
    BY FS_EmptySet
<1>4. h \in [SUBSET S -> Int]
    <2>0. \A s \in SUBSET S : g[s] \in Int
        BY DEF TabulatesTo
    <2>1. ASSUME NEW s \in SUBSET S, Cardinality(s) > n
          PROVE  f[One(s)] + g[s \ {One(s)}] \in Int
        <3>1. s # {}
            BY <1>3, <2>1
        <3>2. f[One(s)] \in Int /\ g[s \ {One(s)}] \in Int
            BY <1>2, <2>0, <3>1
        <3> QED BY <3>2
    <2> QED BY <1>1, <2>0, <2>1
<1>5. ASSUME NEW s \in SUBSET S, Cardinality(s) <= n + 1
      PROVE  h[s] = IF s = {} THEN 0 ELSE f[One(s)] + h[s \ {One(s)}]
    <2>1. CASE s = {}
        BY <2>1, <1>3 DEF TabulatesTo
    <2>2. CASE s # {}
        <3>1. h[s \ {One(s)}] = g[s \ {One(s)}]
            BY <1>1, <1>2, <1>5, <2>2
        <3>2. h[s] = f[One(s)] + g[s \ {One(s)}]
            BY <1>1, <1>2, <2>2 DEF TabulatesTo
        <3> QED BY <3>1, <3>2, <2>2
    <2> QED BY <2>1, <2>2
<1>6. TabulatesTo(h, f, S, n + 1)
    BY <1>4, <1>5, Zenon DEF TabulatesTo
<1> QED BY <1>6

(* The recursion that MapThenSumSet is made of has a solution.             *)
LEMMA SumTable ==
    ASSUME NEW S, IsFiniteSet(S), NEW f, \A x \in S : f[x] \in Int
    PROVE  \E g : Tabulates(g, f, S)
<1> DEFINE Bad == {n \in Nat : ~\E g : TabulatesTo(g, f, S, n)}
<1>1. 0 \notin Bad
    <2> DEFINE g == [s \in SUBSET S |-> 0]
    <2>1. \A s \in SUBSET S : Cardinality(s) <= 0 => s = {}
        BY FS_Subset, FS_CardinalityType, FS_EmptySet
    <2>2. TabulatesTo(g, f, S, 0)
        BY <2>1 DEF TabulatesTo
    <2> QED BY <2>2
<1>2. Bad = {}
    <2> SUFFICES ASSUME Bad # {} PROVE FALSE
        OBVIOUS
    <2>1. PICK n \in Bad : \A y \in Bad : n <= y
        BY MinOfNaturals
    <2>2. n \in Nat /\ n # 0
        BY <2>1, <1>1
    <2>3. n - 1 \in Nat /\ n - 1 \notin Bad
        <3> HIDE DEF Bad
        <3> QED BY <2>1, <2>2
    <2>4. PICK g : TabulatesTo(g, f, S, n - 1)
        BY <2>3
    <2>5. \E h : TabulatesTo(h, f, S, (n - 1) + 1)
        BY <2>3, <2>4, TabulateMore
    <2>6. (n - 1) + 1 = n
        BY <2>2
    <2> QED BY <2>1, <2>5, <2>6
<1>3. PICK g : TabulatesTo(g, f, S, Cardinality(S))
    BY <1>2, FS_CardinalityType
<1>4. \A s \in SUBSET S : Cardinality(s) <= Cardinality(S)
    BY FS_Subset
<1>5. Tabulates(g, f, S)
    BY <1>3, <1>4 DEF TabulatesTo, Tabulates
<1> QED BY <1>5

(* Any element may be the one that is added last.                          *)
LEMMA TableAnyOrder ==
    ASSUME NEW S, IsFiniteSet(S), NEW f, \A x \in S : f[x] \in Int,
           NEW g, Tabulates(g, f, S)
    PROVE  \A s \in SUBSET S :
               g[s] \in Int /\ \A x \in s : g[s] = f[x] + g[s \ {x}]
<1> DEFINE Good(s) == g[s] \in Int /\ \A x \in s : g[s] = f[x] + g[s \ {x}]
           Bad == {Cardinality(s) : s \in {r \in SUBSET S : ~Good(r)}}
<1>1. \A s \in SUBSET S : IsFiniteSet(s) /\ Cardinality(s) \in Nat
    BY FS_Subset, FS_CardinalityType
<1> SUFFICES ASSUME Bad # {} PROVE FALSE
    OBVIOUS
<1>2. PICK n \in Bad : \A y \in Bad : n <= y
    <2>1. Bad \subseteq Nat
        BY <1>1
    <2> HIDE DEF Bad
    <2> QED BY <2>1, MinOfNaturals
<1>3. PICK s \in SUBSET S : ~Good(s) /\ Cardinality(s) = n
    BY <1>2
<1>4. \A r \in SUBSET S : Cardinality(r) < Cardinality(s) => Good(r)
    <2> SUFFICES ASSUME NEW r \in SUBSET S, Cardinality(r) < Cardinality(s), ~Good(r)
                 PROVE  FALSE
        OBVIOUS
    <2>1. Cardinality(r) \in Bad
        OBVIOUS
    <2>2. n <= Cardinality(r)
        BY <1>2, <2>1
    <2> HIDE DEF Bad, Good
    <2> QED BY <1>1, <1>3, <2>2
<1>5. s # {}
    BY <1>3 DEF Tabulates
<1> DEFINE c == One(s)
<1>6. c \in s /\ Cardinality(s \ {c}) < Cardinality(s)
    <2>1. IsFiniteSet(s) /\ Cardinality(s) \in Nat
        BY <1>1
    <2>2. One(s) \in s /\ Cardinality(s \ {One(s)}) = Cardinality(s) - 1
        BY <1>5, <2>1, OneOfSet, Zenon
    <2> QED BY <2>1, <2>2
<1>7. Good(s \ {c})
    BY <1>4, <1>6
<1>8. g[s] = f[c] + g[s \ {c}]
    BY <1>5 DEF Tabulates
<1>9. g[s] \in Int
    BY <1>6, <1>7, <1>8
<1>10. ASSUME NEW x \in s, x # c
       PROVE  g[s] = f[x] + g[s \ {x}]
    <2>1. g[s \ {c}] = f[x] + g[(s \ {c}) \ {x}]
        BY <1>7, <1>10
    <2>2. Cardinality(s \ {x}) < Cardinality(s)
        BY <1>1, FS_RemoveElement
    <2>3. Good(s \ {x})
        BY <1>4, <2>2
    <2>4. g[s \ {x}] = f[c] + g[(s \ {x}) \ {c}]
        BY <2>3, <1>6, <1>10
    <2>5. (s \ {x}) \ {c} = (s \ {c}) \ {x} /\ (s \ {c}) \ {x} \in SUBSET S
        OBVIOUS
    <2>6. Cardinality((s \ {c}) \ {x}) < Cardinality(s)
        <3>1. IsFiniteSet(s \ {c}) /\ Cardinality(s) \in Nat
            BY <1>1, FS_RemoveElement
        <3>2. Cardinality((s \ {c}) \ {x}) <= Cardinality(s \ {c})
            BY <3>1, FS_Subset
        <3>3. Cardinality((s \ {c}) \ {x}) \in Nat /\ Cardinality(s \ {c}) \in Nat
            BY <3>1, FS_RemoveElement, FS_CardinalityType
        <3> HIDE DEF c
        <3> QED BY <1>6, <3>1, <3>2, <3>3
    <2>7. g[(s \ {c}) \ {x}] \in Int
        BY <1>4, <2>5, <2>6
    <2>8. f[x] \in Int /\ f[c] \in Int
        BY <1>6
    <2>9. g[s \ {x}] = f[c] + g[(s \ {c}) \ {x}]
        BY <2>4, <2>5, Zenon
    <2> HIDE DEF Good, c
    <2> QED BY <1>8, <2>1, <2>7, <2>8, <2>9
<1>11. Good(s)
    BY <1>8, <1>9, <1>10
<1> QED BY <1>3, <1>11

(* Two tables agree where the functions they sum up do.                    *)
LEMMA TablesAgree ==
    ASSUME NEW S, IsFiniteSet(S), NEW f, \A x \in S : f[x] \in Int,
           NEW g, Tabulates(g, f, S),
           NEW T, IsFiniteSet(T), NEW e, \A x \in T : e[x] \in Int,
           NEW h, Tabulates(h, e, T),
           \A x \in S \cap T : f[x] = e[x]
    PROVE  \A s \in SUBSET (S \cap T) : g[s] = h[s]
<1> DEFINE Bad == {Cardinality(s) : s \in {r \in SUBSET (S \cap T) : g[r] # h[r]}}
<1>1. \A s \in SUBSET S : IsFiniteSet(s) /\ Cardinality(s) \in Nat
    BY FS_Subset, FS_CardinalityType
<1> SUFFICES ASSUME Bad # {} PROVE FALSE
    OBVIOUS
<1>2. PICK n \in Bad : \A y \in Bad : n <= y
    <2>1. Bad \subseteq Nat
        BY <1>1
    <2> HIDE DEF Bad
    <2> QED BY <2>1, MinOfNaturals
<1>3. PICK s \in SUBSET (S \cap T) : g[s] # h[s] /\ Cardinality(s) = n
    BY <1>2
<1>4. \A r \in SUBSET (S \cap T) : Cardinality(r) < Cardinality(s) => g[r] = h[r]
    BY <1>1, <1>2, <1>3
<1>5. s # {}
    BY <1>3 DEF Tabulates
<1>6. One(s) \in s /\ Cardinality(s \ {One(s)}) < Cardinality(s)
    <2>1. IsFiniteSet(s) /\ Cardinality(s) \in Nat
        BY <1>1
    <2>2. One(s) \in s /\ Cardinality(s \ {One(s)}) = Cardinality(s) - 1
        BY <1>5, <2>1, OneOfSet, Zenon
    <2> QED BY <2>1, <2>2
<1>7. g[s \ {One(s)}] = h[s \ {One(s)}]
    BY <1>4, <1>6
<1>8. g[s] = f[One(s)] + g[s \ {One(s)}] /\ h[s] = e[One(s)] + h[s \ {One(s)}]
    BY <1>5 DEF Tabulates
<1> QED BY <1>3, <1>6, <1>7, <1>8

(* There is one table.                                                     *)
LEMMA OneTable ==
    ASSUME NEW S, IsFiniteSet(S), NEW f, \A x \in S : f[x] \in Int,
           NEW g, Tabulates(g, f, S), NEW h, Tabulates(h, f, S)
    PROVE  g[S] = h[S]
<1>1. \A s \in SUBSET (S \cap S) : g[s] = h[s]
    BY TablesAgree
<1> QED BY <1>1

(* SumOver reads the table of all of S.                                    *)
LEMMA SumFromTable ==
    ASSUME NEW S, IsFiniteSet(S), NEW f, \A x \in S : f[x] \in Int
    PROVE  \E g : Tabulates(g, f, S) /\ SumOver(f, S) = g[S]
<1> DEFINE It == CHOOSE g : g = [s \in SUBSET S |-> IF s = {} THEN 0
                     ELSE f[CHOOSE x \in s : TRUE] + g[s \ {CHOOSE x \in s : TRUE}]]
<1>1. SumOver(f, S) = It[S]
    BY DEF SumOver, MapThenSumSet, MapThenFoldSet
<1>2. \E g : g = [s \in SUBSET S |-> IF s = {} THEN 0
                 ELSE f[CHOOSE x \in s : TRUE] + g[s \ {CHOOSE x \in s : TRUE}]]
    <2>1. PICK g : Tabulates(g, f, S)
        BY SumTable
    <2>2. g = [s \in SUBSET S |-> IF s = {} THEN 0
                 ELSE f[CHOOSE x \in s : TRUE] + g[s \ {CHOOSE x \in s : TRUE}]]
        BY <2>1, Zenon DEF Tabulates, One
    <2> QED BY <2>2, Zenon
<1>3. It = [s \in SUBSET S |-> IF s = {} THEN 0
               ELSE f[CHOOSE x \in s : TRUE] + It[s \ {CHOOSE x \in s : TRUE}]]
    BY <1>2, Zenon
<1>4. Tabulates(It, f, S)
    BY <1>3, Zenon DEF Tabulates, One
<1> QED BY <1>1, <1>4

(* What a sum is: an integer, zero for the empty set, and more by its value*)
(* for each element added.                                                 *)
LEMMA SumOfSet ==
    ASSUME NEW S, IsFiniteSet(S), NEW f, \A x \in S : f[x] \in Int
    PROVE  /\ SumOver(f, S) \in Int
           /\ S = {} => SumOver(f, S) = 0
           /\ \A x \in S : SumOver(f, S) = f[x] + SumOver(f, S \ {x})
<1>1. PICK g : Tabulates(g, f, S) /\ SumOver(f, S) = g[S]
    BY SumFromTable
<1>2. g[S] \in Int /\ \A x \in S : g[S] = f[x] + g[S \ {x}]
    BY <1>1, TableAnyOrder
<1>3. S = {} => g[S] = 0
    BY <1>1 DEF Tabulates
<1>4. ASSUME NEW x \in S PROVE SumOver(f, S \ {x}) = g[S \ {x}]
    <2>1. IsFiniteSet(S \ {x}) /\ \A y \in S \ {x} : f[y] \in Int
        BY FS_RemoveElement
    <2>2. PICK h : Tabulates(h, f, S \ {x}) /\ SumOver(f, S \ {x}) = h[S \ {x}]
        BY <2>1, SumFromTable
    <2>3. \A s \in SUBSET (S \cap (S \ {x})) : g[s] = h[s]
        BY <1>1, <2>1, <2>2, TablesAgree
    <2> QED BY <2>2, <2>3
<1> QED BY <1>1, <1>2, <1>3, <1>4

(* A sum is bounded away from zero on the side of its terms.               *)
LEMMA SumSign ==
    ASSUME NEW S, IsFiniteSet(S), S # {}, NEW f, \A x \in S : f[x] \in Int
    PROVE  /\ (\A x \in S : f[x] > 0) => SumOver(f, S) > 0
           /\ (\A x \in S : f[x] < 0) => SumOver(f, S) < 0
<1> DEFINE Sums == {r \in SUBSET S : r # {}}
           Good(r) == /\ (\A x \in S : f[x] > 0) => SumOver(f, r) > 0
                      /\ (\A x \in S : f[x] < 0) => SumOver(f, r) < 0
           Bad == {Cardinality(r) : r \in {q \in Sums : ~Good(q)}}
<1>1. \A s \in SUBSET S : IsFiniteSet(s) /\ Cardinality(s) \in Nat
    BY FS_Subset, FS_CardinalityType
<1>2. Bad = {}
    <2> SUFFICES ASSUME Bad # {} PROVE FALSE
        OBVIOUS
    <2>1. Bad \subseteq Nat
        BY <1>1
    <2>2. PICK n \in Bad : \A y \in Bad : n <= y
        <3> HIDE DEF Bad
        <3> QED BY <2>1, MinOfNaturals
    <2>3. PICK s \in Sums : ~Good(s) /\ Cardinality(s) = n
        BY <2>2
    <2>4. One(s) \in s /\ IsFiniteSet(s) /\ IsFiniteSet(s \ {One(s)})
          /\ Cardinality(s) \in Nat /\ Cardinality(s \ {One(s)}) = Cardinality(s) - 1
        BY <1>1, <2>3, OneOfSet, Zenon
    <2>5. f[One(s)] \in Int /\ SumOver(f, s \ {One(s)}) \in Int
          /\ SumOver(f, s) = f[One(s)] + SumOver(f, s \ {One(s)})
        <3>1. (\A x \in s : f[x] \in Int) /\ (\A x \in s \ {One(s)} : f[x] \in Int)
            BY <2>3
        <3>2. SumOver(f, s \ {One(s)}) \in Int
            BY <2>4, <3>1, SumOfSet
        <3>3. \A x \in s : SumOver(f, s) = f[x] + SumOver(f, s \ {x})
            BY <2>4, <3>1, SumOfSet
        <3> QED BY <2>4, <3>1, <3>2, <3>3
    <2>6. CASE s \ {One(s)} = {}
        <3>1. SumOver(f, s \ {One(s)}) = 0
            BY <2>4, <2>6, SumOfSet
        <3> QED BY <2>3, <2>4, <2>5, <3>1
    <2>7. CASE s \ {One(s)} # {}
        <3>1. Cardinality(s \ {One(s)}) \notin Bad
            <4> HIDE DEF Bad
            <4> QED BY <2>2, <2>3, <2>4
        <3>2. Good(s \ {One(s)})
            BY <3>1, <2>3, <2>7
        <3> QED BY <2>3, <2>4, <2>5, <3>2
    <2> QED BY <2>6, <2>7
<1>3. Good(S)
    BY <1>2
<1> QED BY <1>3

(* Sums of functions that agree on the set are equal.                      *)
LEMMA SumsAgree ==
    ASSUME NEW S, IsFiniteSet(S), NEW f, \A x \in S : f[x] \in Int,
           NEW e, \A x \in S : e[x] = f[x]
    PROVE  SumOver(e, S) = SumOver(f, S)
<1>1. PICK g : Tabulates(g, f, S) /\ SumOver(f, S) = g[S]
    BY SumFromTable
<1>2. \A x \in S : e[x] \in Int
    OBVIOUS
<1>3. PICK h : Tabulates(h, e, S) /\ SumOver(e, S) = h[S]
    BY <1>2, SumFromTable
<1>4. \A s \in SUBSET (S \cap S) : g[s] = h[s]
    BY <1>1, <1>2, <1>3, TablesAgree
<1> QED BY <1>1, <1>3, <1>4

(* Adding an element adds its value.                                       *)
LEMMA SumAddElement ==
    ASSUME NEW S, IsFiniteSet(S), NEW x, x \notin S, NEW f,
           \A y \in S \cup {x} : f[y] \in Int
    PROVE  SumOver(f, S \cup {x}) = f[x] + SumOver(f, S)
<1>1. IsFiniteSet(S \cup {x}) /\ (S \cup {x}) \ {x} = S
    BY FS_AddElement
<1>2. \A y \in S \cup {x} :
          SumOver(f, S \cup {x}) = f[y] + SumOver(f, (S \cup {x}) \ {y})
    BY <1>1, SumOfSet
<1> QED BY <1>1, <1>2

(* A sum of zeros is zero.                                                 *)
LEMMA SumOfZeros ==
    ASSUME NEW S, IsFiniteSet(S), NEW f, \A x \in S : f[x] = 0
    PROVE  SumOver(f, S) = 0
<1> DEFINE Bad == {Cardinality(r) : r \in {q \in SUBSET S : SumOver(f, q) # 0}}
<1>1. \A s \in SUBSET S : IsFiniteSet(s) /\ Cardinality(s) \in Nat
    BY FS_Subset, FS_CardinalityType
<1>2. Bad = {}
    <2> SUFFICES ASSUME Bad # {} PROVE FALSE
        OBVIOUS
    <2>1. Bad \subseteq Nat
        BY <1>1
    <2>2. PICK n \in Bad : \A y \in Bad : n <= y
        <3> HIDE DEF Bad
        <3> QED BY <2>1, MinOfNaturals
    <2>3. PICK s \in SUBSET S : SumOver(f, s) # 0 /\ Cardinality(s) = n
        BY <2>2
    <2>4. IsFiniteSet(s) /\ \A x \in s : f[x] = 0 /\ f[x] \in Int
        BY <1>1
    <2>5. s # {}
        BY <2>3, <2>4, SumOfSet
    <2>6. One(s) \in s /\ Cardinality(s) \in Nat
          /\ Cardinality(s \ {One(s)}) = Cardinality(s) - 1
        BY <2>4, <2>5, OneOfSet
    <2>7. SumOver(f, s) = f[One(s)] + SumOver(f, s \ {One(s)})
        BY <2>4, <2>6, SumOfSet
    <2>8. SumOver(f, s \ {One(s)}) = 0
        <3>1. Cardinality(s \ {One(s)}) \notin Bad
            <4> HIDE DEF Bad
            <4> QED BY <2>2, <2>3, <2>6
        <3> QED BY <3>1
    <2> QED BY <2>3, <2>4, <2>6, <2>7, <2>8
<1> QED BY <1>2
=============================================================================
