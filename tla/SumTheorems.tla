---------------------------- MODULE SumTheorems -----------------------------
(***************************************************************************)
(* What the proofs about money need to know of sums over finite sets: they *)
(* do not depend on the order in which the values are added.  Induction is *)
(* over the subsets of a finite set, by the smallest counterexample.       *)
(***************************************************************************)
EXTENDS Integers, FiniteSets, Functions, FiniteSetTheorems, WellFoundedInduction, TLAPS

\* A set of subsets of a finite set has one that contains no other.
LEMMA SmallestSubset ==
  ASSUME NEW D, IsFiniteSet(D), NEW T, T \subseteq SUBSET D, T # {}
  PROVE  \E s \in T : \A r \in T : r \subseteq s => r = s
<1> DEFINE R == StrictSubsetOrdering(D)
<1>1. IsWellFoundedOn(R, FiniteSubsetsOf(D))
  BY FS_StrictSubsetOrderingWellFounded
<1>2. T \subseteq FiniteSubsetsOf(D)
  BY FS_Subset DEF FiniteSubsetsOf
<1>3. \E s \in T : \A r \in T : <<r, s>> \notin R
  <2> HIDE DEF R
  <2> QED
    BY <1>1, <1>2, WFMin, Zenon
<1> QED
  BY <1>3 DEF StrictSubsetOrdering

-----------------------------------------------------------------------------
(* The recursion by which the sum is defined has a solution.               *)

Chosen(s) == CHOOSE x \in s : TRUE

Others(s) == s \ {Chosen(s)}

SumsUp(g, f, D) == g = [s \in SUBSET D |-> IF s = {} THEN 0 ELSE f[Chosen(s)] + g[Others(s)]]

LEMMA SumIs ==
  ASSUME NEW f, NEW D
  PROVE  SumFunctionOnSet(f, D) = (CHOOSE g : SumsUp(g, f, D))[D]
  BY DEF SumFunctionOnSet, FoldFunctionOnSet, MapThenFoldSet, SumsUp, Chosen, Others

LEMMA OthersAreFewer ==
  ASSUME NEW s, s # {}
  PROVE  Chosen(s) \in s /\ Others(s) \subseteq s /\ Others(s) # s
  BY DEF Chosen, Others

LEMMA SumsAt ==
  ASSUME NEW g, NEW f, NEW D, SumsUp(g, f, D), NEW s \in SUBSET D
  PROVE  g[s] = IF s = {} THEN 0 ELSE f[Chosen(s)] + g[Others(s)]
<1> DEFINE v(r) == IF r = {} THEN 0 ELSE f[Chosen(r)] + g[Others(r)]
<1>1. g = [r \in SUBSET D |-> v(r)]
  BY Zenon DEF SumsUp
<1> HIDE DEF v
<1>2. g[s] = v(s)
  BY <1>1, Zenon
<1> QED
  BY <1>2 DEF v

LEMMA SumsAgree ==
  ASSUME NEW f, NEW D, IsFiniteSet(D), NEW g, SumsUp(g, f, D), NEW E, NEW h, SumsUp(h, f, E),
         D \subseteq E, NEW r \in SUBSET D
  PROVE  g[r] = h[r]
<1> DEFINE T == {s \in SUBSET D : g[s] # h[s]}
<1>1. SUFFICES ASSUME T # {} PROVE FALSE
  <2>1. r \notin T => g[r] = h[r]
    OBVIOUS
  <2> HIDE DEF T
  <2> QED
    BY <2>1
<1>2. PICK s \in T : \A q \in T : q \subseteq s => q = s
  <2>1. T \subseteq SUBSET D
    OBVIOUS
  <2> HIDE DEF T
  <2> QED
    BY <1>1, <2>1, SmallestSubset
<1>3. s \in SUBSET D /\ s \in SUBSET E /\ g[s] # h[s]
  BY <1>2
<1>4. s # {}
  BY <1>3, SumsAt
<1>5. Others(s) \in SUBSET D /\ Others(s) # s /\ Others(s) \subseteq s
  BY <1>3, <1>4, OthersAreFewer
<1>6. g[Others(s)] = h[Others(s)]
  BY <1>2, <1>5
<1>7. g[s] = f[Chosen(s)] + g[Others(s)] /\ h[s] = f[Chosen(s)] + h[Others(s)]
  BY <1>3, <1>4, SumsAt, Zenon
<1> QED
  BY <1>3, <1>6, <1>7

LEMMA SumsExist ==
  ASSUME NEW f, NEW D, IsFiniteSet(D)
  PROVE  \E g : SumsUp(g, f, D)
<1> DEFINE Has(s) == \E g : SumsUp(g, f, s)
           T == {s \in SUBSET D : ~ Has(s)}
<1>1. SUFFICES ASSUME T # {} PROVE FALSE
  <2>1. D \notin T => \E g : SumsUp(g, f, D)
    OBVIOUS
  <2> HIDE DEF T
  <2> QED
    BY <2>1
<1>2. PICK r \in T : \A q \in T : q \subseteq r => q = r
  <2>1. T \subseteq SUBSET D
    OBVIOUS
  <2> HIDE DEF T
  <2> QED
    BY <1>1, <2>1, SmallestSubset
<1>3. r \in SUBSET D /\ ~ Has(r)
  BY <1>2
<1>4. \A s \in SUBSET D : s \subseteq r /\ s # r => Has(s)
  BY <1>2
<1> DEFINE H(s) == CHOOSE g : SumsUp(g, f, s)
           v(s) == IF s = {} THEN 0 ELSE f[Chosen(s)] + H(Others(s))[Others(s)]
           G == [s \in SUBSET r |-> v(s)]
<1>5. ASSUME NEW s \in SUBSET r, s # r PROVE SumsUp(H(s), f, s)
  <2>1. Has(s)
    BY <1>3, <1>4, <1>5
  <2> QED
    BY <2>1, Zenon
<1>6. ASSUME NEW s \in SUBSET r, s # r PROVE H(s)[s] = v(s)
  <2>1. SumsUp(H(s), f, s)
    BY <1>5, <1>6
  <2> HIDE DEF H
  <2>2. s = {} => H(s)[s] = 0
    BY <2>1, SumsAt
  <2>3. CASE s # {}
    <3>1. Others(s) \in SUBSET s /\ Others(s) # s
      BY <2>3, OthersAreFewer
    <3>2. H(s)[s] = f[Chosen(s)] + H(s)[Others(s)]
      BY <2>1, <2>3, SumsAt, Zenon
    <3>3. Others(s) \in SUBSET r /\ Others(s) # r /\ IsFiniteSet(Others(s))
      BY <1>3, <3>1, FS_Subset
    <3>4. SumsUp(H(Others(s)), f, Others(s))
      BY <1>5, <3>3
    <3>5. H(Others(s))[Others(s)] = H(s)[Others(s)]
      BY <2>1, <3>1, <3>3, <3>4, SumsAgree
    <3> QED
      BY <2>3, <3>2, <3>5
  <2> QED
    BY <2>2, <2>3
<1> HIDE DEF H
<1>7. ASSUME NEW s \in SUBSET r PROVE v(s) = IF s = {} THEN 0 ELSE f[Chosen(s)] + G[Others(s)]
  <2>1. CASE s = {}
    BY <2>1
  <2>2. CASE s # {}
    <3>1. Others(s) \in SUBSET r /\ Others(s) # r
      BY <2>2, OthersAreFewer
    <3>2. G[Others(s)] = v(Others(s))
      BY <3>1
    <3>3. v(s) = f[Chosen(s)] + H(Others(s))[Others(s)]
      BY <2>2
    <3> QED
      BY <2>2, <3>1, <3>2, <3>3, <1>6
  <2> QED
    BY <2>1, <2>2
<1>8. SumsUp(G, f, r)
  <2> DEFINE w(s) == IF s = {} THEN 0 ELSE f[Chosen(s)] + G[Others(s)]
  <2>1. \A s \in SUBSET r : v(s) = w(s)
    BY <1>7
  <2>2. G = [s \in SUBSET r |-> v(s)]
    OBVIOUS
  <2> HIDE DEF v, w, G
  <2>3. G = [s \in SUBSET r |-> w(s)]
    BY <2>1, <2>2
  <2> QED
    BY <2>3 DEF w, SumsUp
<1> QED
  BY <1>3, <1>8

-----------------------------------------------------------------------------
(* What the proofs use.                                                    *)

LEMMA SumEmpty ==
  ASSUME NEW f
  PROVE  SumFunctionOnSet(f, {}) = 0
<1> DEFINE g == CHOOSE k : SumsUp(k, f, {})
<1>1. SumsUp(g, f, {})
  BY SumsExist, FS_EmptySet, Zenon
<1>2. SumFunctionOnSet(f, {}) = g[{}]
  BY SumIs
<1> HIDE DEF g
<1> QED
  BY <1>1, <1>2, SumsAt

LEMMA SumChosen ==
  ASSUME NEW f, NEW D, IsFiniteSet(D), D # {}
  PROVE  SumFunctionOnSet(f, D) = f[Chosen(D)] + SumFunctionOnSet(f, Others(D))
<1> DEFINE g == CHOOSE k : SumsUp(k, f, D)
           h == CHOOSE k : SumsUp(k, f, Others(D))
<1>1. Others(D) \in SUBSET D /\ IsFiniteSet(Others(D)) /\ D \in SUBSET D
  BY OthersAreFewer, FS_Subset
<1>2. SumsUp(g, f, D)
  BY SumsExist, Zenon
<1>3. SumsUp(h, f, Others(D))
  BY <1>1, SumsExist, Zenon
<1>4. SumFunctionOnSet(f, D) = g[D] /\ SumFunctionOnSet(f, Others(D)) = h[Others(D)]
  BY SumIs
<1> HIDE DEF g, h
<1>5. g[D] = f[Chosen(D)] + g[Others(D)]
  BY <1>1, <1>2, SumsAt, Zenon
<1>6. h[Others(D)] = g[Others(D)]
  <2>1. Others(D) \in SUBSET Others(D) /\ Others(D) \subseteq D
    BY <1>1
  <2> QED
    BY <1>1, <1>2, <1>3, <2>1, SumsAgree
<1> QED
  BY <1>4, <1>5, <1>6

LEMMA SumType ==
  ASSUME NEW f, NEW D, IsFiniteSet(D), \A x \in D : f[x] \in Int
  PROVE  SumFunctionOnSet(f, D) \in Int
<1> DEFINE S(s) == SumFunctionOnSet(f, s)
           T == {s \in SUBSET D : S(s) \notin Int}
<1>1. SUFFICES ASSUME T # {} PROVE FALSE
  <2>1. D \notin T => S(D) \in Int
    OBVIOUS
  <2> HIDE DEF T
  <2> QED
    BY <2>1
<1>2. PICK s \in T : \A q \in T : q \subseteq s => q = s
  <2>1. T \subseteq SUBSET D
    OBVIOUS
  <2> HIDE DEF T
  <2> QED
    BY <1>1, <2>1, SmallestSubset
<1>3. s \in SUBSET D /\ S(s) \notin Int /\ IsFiniteSet(s)
  BY <1>2, FS_Subset
<1>4. s # {}
  BY <1>3, SumEmpty
<1>5. Others(s) \in SUBSET D /\ Others(s) # s /\ Others(s) \subseteq s /\ Chosen(s) \in s
  BY <1>3, <1>4, OthersAreFewer
<1>6. S(s) = f[Chosen(s)] + S(Others(s))
  BY <1>3, <1>4, SumChosen
<1>7. S(Others(s)) \in Int
  BY <1>2, <1>5
<1> QED
  BY <1>3, <1>5, <1>6, <1>7

\* Any element may be taken first.
LEMMA SumOneMore ==
  ASSUME NEW f, NEW D, IsFiniteSet(D), \A x \in D : f[x] \in Int, NEW a \in D
  PROVE  SumFunctionOnSet(f, D) = f[a] + SumFunctionOnSet(f, D \ {a})
<1> DEFINE S(s) == SumFunctionOnSet(f, s)
           T == {s \in SUBSET D : \E x \in s : S(s) # f[x] + S(s \ {x})}
<1>1. SUFFICES ASSUME T # {} PROVE FALSE
  <2>1. D \notin T => S(D) = f[a] + S(D \ {a})
    OBVIOUS
  <2> HIDE DEF T
  <2> QED
    BY <2>1
<1>2. PICK s \in T : \A q \in T : q \subseteq s => q = s
  <2>1. T \subseteq SUBSET D
    OBVIOUS
  <2> HIDE DEF T
  <2> QED
    BY <1>1, <2>1, SmallestSubset
<1>3. PICK x \in s : S(s) # f[x] + S(s \ {x})
  BY <1>2
<1> DEFINE y == Chosen(s)
<1>4. s \in SUBSET D /\ s # {} /\ IsFiniteSet(s)
  BY <1>2, <1>3, FS_Subset
<1>5. y \in s /\ S(s) = f[y] + S(s \ {y})
  BY <1>4, SumChosen, OthersAreFewer DEF Others
<1> HIDE DEF y, S
<1>6. x # y
  BY <1>3, <1>5
<1>7. /\ x \in s \ {y} /\ s \ {y} \in SUBSET D /\ s \ {y} # s
      /\ y \in s \ {x} /\ s \ {x} \in SUBSET D /\ s \ {x} # s
  BY <1>3, <1>4, <1>5, <1>6
<1>8. S(s \ {y}) = f[x] + S((s \ {y}) \ {x})
  BY <1>2, <1>7
<1>9. S(s \ {x}) = f[y] + S((s \ {x}) \ {y})
  BY <1>2, <1>7
<1>10. (s \ {y}) \ {x} = (s \ {x}) \ {y}
  OBVIOUS
<1>11. S((s \ {x}) \ {y}) \in Int
  <2>1. (s \ {x}) \ {y} \in SUBSET D /\ IsFiniteSet((s \ {x}) \ {y})
    BY <1>4, FS_Subset
  <2> QED
    BY <2>1, SumType DEF S
<1>12. f[x] \in Int /\ f[y] \in Int
  BY <1>3, <1>4, <1>5
<1> DEFINE k == S((s \ {x}) \ {y})
<1>13. S(s \ {y}) = f[x] + k /\ S(s \ {x}) = f[y] + k
  BY <1>8, <1>9, <1>10
<1> HIDE DEF k
<1> QED
  BY <1>3, <1>5, <1>11, <1>12, <1>13 DEF k

\* The sum is that of the values, and no less where there is more to add.
LEMMA SumMonotone ==
  ASSUME NEW f, NEW g, NEW D, NEW E, IsFiniteSet(E), D \subseteq E,
         \A x \in E : g[x] \in Nat, \A x \in D : f[x] \in Int /\ f[x] <= g[x]
  PROVE  SumFunctionOnSet(f, D) <= SumFunctionOnSet(g, E)
<1> DEFINE F(s) == SumFunctionOnSet(f, D \cap s)
           G(s) == SumFunctionOnSet(g, s)
           T == {s \in SUBSET E : ~ (F(s) <= G(s))}
<1>1. SUFFICES ASSUME T # {} PROVE FALSE
  <2>1. E \notin T => F(E) <= G(E)
    OBVIOUS
  <2>2. D \cap E = D
    OBVIOUS
  <2> QED
    BY <2>1, <2>2
<1>2. PICK s \in T : \A q \in T : q \subseteq s => q = s
  <2>1. T \subseteq SUBSET E
    OBVIOUS
  <2> HIDE DEF T
  <2> QED
    BY <1>1, <2>1, SmallestSubset
<1>3. s \in SUBSET E /\ ~ (F(s) <= G(s)) /\ IsFiniteSet(s) /\ IsFiniteSet(D \cap s)
  BY <1>2, FS_Subset
<1>4. s # {}
  <2>1. s = {} => D \cap s = {}
    OBVIOUS
  <2> QED
    BY <1>3, <2>1, SumEmpty
<1>5. PICK x \in s : TRUE
  BY <1>4
<1> DEFINE r == s \ {x}
<1>6. r \in SUBSET E /\ r # s /\ r \subseteq s /\ IsFiniteSet(r) /\ IsFiniteSet(D \cap r)
  BY <1>3, <1>5, FS_Subset
<1>7. F(r) <= G(r)
  BY <1>2, <1>6
<1>8. G(s) = g[x] + G(r) /\ G(r) \in Int /\ g[x] \in Nat
  BY <1>3, <1>5, <1>6, SumOneMore, SumType
<1>9. F(r) \in Int
  BY <1>6, SumType
<1>10. CASE x \in D
  <2>1. x \in D \cap s /\ (D \cap s) \ {x} = D \cap r
    BY <1>5, <1>10
  <2>2. F(s) = f[x] + F(r)
    BY <1>3, <2>1, SumOneMore
  <2> HIDE DEF F, G, r
  <2> QED
    BY <1>3, <1>7, <1>8, <1>9, <1>10, <2>2
<1>11. CASE x \notin D
  <2>1. D \cap s = D \cap r
    BY <1>11
  <2>2. F(s) = F(r)
    BY <2>1
  <2> HIDE DEF F, G, r
  <2> QED
    BY <1>3, <1>7, <1>8, <1>9, <2>2
<1> QED
  BY <1>10, <1>11

LEMMA SumSame ==
  ASSUME NEW f, NEW g, NEW D, IsFiniteSet(D), \A x \in D : f[x] = g[x] /\ f[x] \in Int
  PROVE  SumFunctionOnSet(f, D) = SumFunctionOnSet(g, D)
<1> DEFINE F(s) == SumFunctionOnSet(f, s)
           G(s) == SumFunctionOnSet(g, s)
           T == {s \in SUBSET D : F(s) # G(s)}
<1>1. SUFFICES ASSUME T # {} PROVE FALSE
  <2>1. D \notin T => F(D) = G(D)
    OBVIOUS
  <2> HIDE DEF T
  <2> QED
    BY <2>1
<1>2. PICK s \in T : \A q \in T : q \subseteq s => q = s
  <2>1. T \subseteq SUBSET D
    OBVIOUS
  <2> HIDE DEF T
  <2> QED
    BY <1>1, <2>1, SmallestSubset
<1>3. s \in SUBSET D /\ F(s) # G(s) /\ IsFiniteSet(s)
  BY <1>2, FS_Subset
<1>4. s # {}
  BY <1>3, SumEmpty
<1>5. Others(s) \in SUBSET D /\ Others(s) # s /\ Others(s) \subseteq s /\ Chosen(s) \in s
  BY <1>3, <1>4, OthersAreFewer
<1>6. F(s) = f[Chosen(s)] + F(Others(s)) /\ G(s) = g[Chosen(s)] + G(Others(s))
  BY <1>3, <1>4, SumChosen
<1>7. F(Others(s)) = G(Others(s))
  BY <1>2, <1>5
<1> QED
  BY <1>3, <1>5, <1>6, <1>7

\* What a contributes.
Part(f, D, a) == IF a \in D THEN f[a] ELSE 0

\* f on D and g on E differ in one place.
DifferAt(f, D, g, E, a) ==
  /\ IsFiniteSet(D) /\ \A x \in D : f[x] \in Int
  /\ D \ {a} = E \ {a}
  /\ \A x \in D \ {a} : g[x] = f[x]
  /\ a \in E => g[a] \in Int

\* A change in one place changes the sum by as much.
LEMMA SumChange ==
  ASSUME NEW f, NEW D, NEW g, NEW E, NEW a, DifferAt(f, D, g, E, a)
  PROVE  /\ IsFiniteSet(E) /\ \A x \in E : g[x] \in Int
         /\ SumFunctionOnSet(f, D) \in Int /\ SumFunctionOnSet(g, E) \in Int
         /\ SumFunctionOnSet(g, E) - Part(g, E, a) = SumFunctionOnSet(f, D) - Part(f, D, a)
<1> USE DEF DifferAt
<1> DEFINE R == D \ {a}
<1>1. IsFiniteSet(E) /\ IsFiniteSet(R)
  <2>1. E \subseteq D \cup {a} /\ IsFiniteSet(D \cup {a}) /\ R \subseteq D
    BY FS_AddElement
  <2> QED
    BY <2>1, FS_Subset
<1>2. \A x \in E : g[x] \in Int
  OBVIOUS
<1>3. SumFunctionOnSet(f, D) \in Int /\ SumFunctionOnSet(g, E) \in Int
      /\ SumFunctionOnSet(f, R) \in Int
  BY <1>1, <1>2, SumType
<1>4. SumFunctionOnSet(f, R) = SumFunctionOnSet(g, R)
  BY <1>1, SumSame
<1>5. SumFunctionOnSet(f, D) = Part(f, D, a) + SumFunctionOnSet(f, R) /\ Part(f, D, a) \in Int
  <2>1. CASE a \in D
    BY <2>1, SumOneMore DEF Part
  <2>2. CASE a \notin D
    <3>1. R = D
      BY <2>2
    <3> HIDE DEF R
    <3>2. SumFunctionOnSet(f, R) = SumFunctionOnSet(f, D)
      BY <3>1
    <3> QED
      BY <1>3, <2>2, <3>2 DEF Part
  <2> QED
    BY <2>1, <2>2
<1>6. SumFunctionOnSet(g, E) = Part(g, E, a) + SumFunctionOnSet(g, R) /\ Part(g, E, a) \in Int
  <2>1. CASE a \in E
    <3>1. SumFunctionOnSet(g, E) = g[a] + SumFunctionOnSet(g, E \ {a})
      BY <1>1, <1>2, <2>1, SumOneMore
    <3> QED
      BY <2>1, <3>1 DEF Part
  <2>2. CASE a \notin E
    <3>1. R = E
      BY <2>2
    <3> HIDE DEF R
    <3>2. SumFunctionOnSet(g, R) = SumFunctionOnSet(g, E)
      BY <3>1
    <3> QED
      BY <1>3, <2>2, <3>2 DEF Part
  <2> QED
    BY <2>1, <2>2
<1> HIDE DEF R
<1> QED
  BY <1>1, <1>2, <1>3, <1>4, <1>5, <1>6

\* g is f after a has gone from one place to another.
Moves(f, D, g, from, to, a) ==
  /\ IsFiniteSet(D) /\ f \in [DOMAIN f -> Int] /\ D \subseteq DOMAIN f
  /\ from \in D /\ to \in D /\ from # to /\ a \in Int
  /\ g = [f EXCEPT ![from] = @ - a, ![to] = @ + a]

LEMMA SumTransfer ==
  ASSUME NEW f, NEW D, NEW g, NEW from, NEW to, NEW a, Moves(f, D, g, from, to, a)
  PROVE  SumFunctionOnSet(g, D) = SumFunctionOnSet(f, D)
<1> DEFINE h == [f EXCEPT ![from] = @ - a]
<1>0. /\ IsFiniteSet(D) /\ f \in [DOMAIN f -> Int] /\ D \subseteq DOMAIN f
      /\ from \in D /\ to \in D /\ from # to /\ a \in Int
      /\ g = [f EXCEPT ![from] = @ - a, ![to] = @ + a]
  BY DEF Moves
<1>1. h \in [DOMAIN f -> Int] /\ h[from] = f[from] - a /\ \A x \in D \ {from} : h[x] = f[x]
  BY <1>0
<1>2. g \in [DOMAIN f -> Int] /\ g[to] = h[to] + a /\ \A x \in D \ {to} : g[x] = h[x]
  BY <1>0
<1> HIDE DEF h
<1>3. DifferAt(f, D, h, D, from) /\ DifferAt(h, D, g, D, to)
  BY <1>0, <1>1, <1>2 DEF DifferAt
<1>4. /\ SumFunctionOnSet(f, D) \in Int /\ SumFunctionOnSet(h, D) \in Int
      /\ SumFunctionOnSet(h, D) - Part(h, D, from) = SumFunctionOnSet(f, D) - Part(f, D, from)
      /\ SumFunctionOnSet(g, D) \in Int
      /\ SumFunctionOnSet(g, D) - Part(g, D, to) = SumFunctionOnSet(h, D) - Part(h, D, to)
  BY <1>3, SumChange
<1>5. f[from] \in Int /\ h[to] \in Int
  BY <1>0, <1>1
<1>6. /\ Part(f, D, from) = f[from] /\ Part(h, D, from) = f[from] - a
      /\ Part(h, D, to) = h[to] /\ Part(g, D, to) = h[to] + a
  BY <1>0, <1>1, <1>2, Zenon DEF Part
<1> DEFINE F == SumFunctionOnSet(f, D)
           H == SumFunctionOnSet(h, D)
           G == SumFunctionOnSet(g, D)
           x == f[from]
           y == h[to]
<1>7. /\ F \in Int /\ H \in Int /\ G \in Int /\ x \in Int /\ y \in Int /\ a \in Int
      /\ H - (x - a) = F - x /\ G - (y + a) = H - y
  BY <1>0, <1>4, <1>5, <1>6, Zenon
<1> HIDE DEF F, H, G, x, y
<1>8. G = F
  BY <1>7
<1> QED
  BY <1>8 DEF F, G
=============================================================================
