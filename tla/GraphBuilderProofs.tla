------------------------- MODULE GraphBuilderProofs -------------------------
(***************************************************************************)
(* Proofs about GraphBuilder: for every file, of any length, the maps are  *)
(* what the elements read so far describe, so that a run that ends well    *)
(* leaves its graph; and no two graphs are mixed in the tables.  A sum is  *)
(* cut to a word as it grows, which comes to cutting it once, at its end.  *)
(***************************************************************************)
EXTENDS GraphBuilder, FiniteSetTheorems, SequenceTheorems, WellFoundedInduction, TLAPS

-----------------------------------------------------------------------------
(* The least number of a set.                                              *)

Less == {p \in Nat \X Nat : p[1] < p[2]}

LEMMA LessIsWellFounded == IsWellFoundedOn(Less, Nat)
BY NatLessThanWellFounded DEF OpToRel, Less

LEMMA LeastNumber ==
  ASSUME NEW T, T \subseteq Nat, T # {}
  PROVE  \E x \in T : \A y \in T : x <= y
<1>1. PICK x \in T : \A y \in T : <<y, x>> \notin Less
  BY LessIsWellFounded, WFMin
<1>2. ASSUME NEW y \in T PROVE x <= y
  <2>1. x \in Nat /\ y \in Nat /\ <<y, x>> \notin Less
    BY <1>1
  <2>2. <<y, x>> \in Nat \X Nat /\ <<y, x>>[1] = y /\ <<y, x>>[2] = x
    BY <2>1
  <2>3. ~ (y < x)
    BY <2>1, <2>2 DEF Less
  <2> QED BY <2>1, <2>3
<1> QED BY <1>2

\* Of all sets with a wrong property one has the fewest elements.
LEMMA SmallestSet ==
  ASSUME NEW Bad, Bad # {}, \A s \in Bad : IsFiniteSet(s)
  PROVE  \E s \in Bad : \A t \in Bad : Cardinality(s) <= Cardinality(t)
<1> DEFINE Sizes == {Cardinality(s) : s \in Bad}
<1>1. Sizes \subseteq Nat /\ Sizes # {}
  BY FS_CardinalityType
<1>2. PICK n \in Sizes : \A m \in Sizes : n <= m
  BY <1>1, LeastNumber
<1> QED BY <1>2

-----------------------------------------------------------------------------
(* Sums: MapThenSumSet takes the elements of a set in no given order.      *)

Pick(s) == CHOOSE x \in s : TRUE

\* The function that MapThenSumSet defines, for the subsets of D of the family.
Sums(f, family, weight) ==
  f = [s \in family |-> IF s = {} THEN 0 ELSE weight[Pick(s)] + f[s \ {Pick(s)}]]

Weighs(weight, D) == \A x \in D : weight[x] \in Nat
Agree(v, w, D)    == \A x \in D : v[x] = w[x]

Smaller(D, n) == {s \in SUBSET D : Cardinality(s) <= n}

LEMMA PickOne ==
  ASSUME NEW s, IsFiniteSet(s), s # {}
  PROVE  /\ Pick(s) \in s /\ IsFiniteSet(s \ {Pick(s)})
         /\ Cardinality(s) \in Nat /\ Cardinality(s \ {Pick(s)}) \in Nat
         /\ Cardinality(s \ {Pick(s)}) = Cardinality(s) - 1
<1>1. Pick(s) \in s
  BY DEF Pick
<1> QED BY <1>1, FS_RemoveElement, FS_CardinalityType

LEMMA SumsOfSmaller ==
  ASSUME NEW D, IsFiniteSet(D), NEW weight, NEW n \in Nat
  PROVE  \E f : Sums(f, Smaller(D, n), weight)
<1> DEFINE Bad == {m \in Nat : ~\E f : Sums(f, Smaller(D, m), weight)}
<1> SUFFICES ASSUME n \in Bad PROVE FALSE
  OBVIOUS
<1>1. PICK m \in Bad : \A k \in Bad : m <= k
  BY LeastNumber
<1>2. m \in Nat /\ \A e : ~Sums(e, Smaller(D, m), weight)
  BY <1>1
<1>3. \A s \in SUBSET D : IsFiniteSet(s) /\ Cardinality(s) \in Nat
  BY FS_Subset, FS_CardinalityType
<1>4. m # 0
  <2> SUFFICES ASSUME m = 0 PROVE FALSE
    OBVIOUS
  <2>1. \A s \in Smaller(D, 0) : s = {}
    BY <1>3, FS_EmptySet DEF Smaller
  <2> DEFINE f == [s \in Smaller(D, 0) |-> 0]
             g == [s \in Smaller(D, 0) |->
                     IF s = {} THEN 0 ELSE weight[Pick(s)] + f[s \ {Pick(s)}]]
  <2>2. \A s \in Smaller(D, 0) : f[s] = g[s]
    BY <2>1
  <2>3. f = g
    BY <2>2
  <2>4. Sums(f, Smaller(D, 0), weight)
    BY <2>3 DEF Sums
  <2> QED BY <1>2, <2>4
<1>5. PICK f : Sums(f, Smaller(D, m - 1), weight)
  <2>1. m - 1 \in Nat /\ ~ (m <= m - 1)
    BY <1>2, <1>4
  <2>2. m - 1 \notin Bad
    BY <1>1, <2>1
  <2> QED BY <2>1, <2>2
<1> DEFINE Body(h, s) == IF s = {} THEN 0 ELSE weight[Pick(s)] + h[s \ {Pick(s)}]
           g == [s \in Smaller(D, m) |-> Body(f, s)]
           k == [s \in Smaller(D, m) |-> Body(g, s)]
<1>6. \A s \in Smaller(D, m - 1) : f[s] = Body(f, s)
  BY <1>5, Zenon DEF Sums
<1>7. \A s \in Smaller(D, m - 1) : s \in Smaller(D, m) /\ g[s] = f[s]
  <2>1. \A s \in Smaller(D, m - 1) : s \in Smaller(D, m)
    BY <1>2, <1>3 DEF Smaller
  <2> QED BY <1>6, <2>1
<1>8. \A s \in Smaller(D, m) : s # {} => s \ {Pick(s)} \in Smaller(D, m - 1)
  <2> SUFFICES ASSUME NEW s \in Smaller(D, m), s # {}
               PROVE  s \ {Pick(s)} \in Smaller(D, m - 1)
    OBVIOUS
  <2>1. s \in SUBSET D /\ IsFiniteSet(s) /\ Cardinality(s) <= m
    BY <1>3 DEF Smaller
  <2> QED BY <1>2, <2>1, PickOne DEF Smaller
<1>9. g = k
  <2>1. ASSUME NEW s \in Smaller(D, m) PROVE g[s] = k[s]
    <3>1. CASE s = {}
      BY <3>1
    <3>2. CASE s # {}
      <4>1. g[s \ {Pick(s)}] = f[s \ {Pick(s)}]
        BY <1>7, <1>8, <3>2
      <4>2. g[s] = weight[Pick(s)] + f[s \ {Pick(s)}]
        BY <3>2
      <4>3. k[s] = weight[Pick(s)] + g[s \ {Pick(s)}]
        BY <3>2
      <4> QED BY <4>1, <4>2, <4>3
    <3> QED BY <3>1, <3>2
  <2> QED BY <2>1
<1>10. Sums(g, Smaller(D, m), weight)
  BY <1>9 DEF Sums
<1> QED BY <1>2, <1>10

LEMMA SumsExist ==
  ASSUME NEW D, IsFiniteSet(D), NEW weight
  PROVE  \E f : Sums(f, SUBSET D, weight)
<1>1. Cardinality(D) \in Nat
  BY FS_CardinalityType
<1>2. Smaller(D, Cardinality(D)) = SUBSET D
  BY FS_Subset DEF Smaller
<1>3. PICK f : Sums(f, Smaller(D, Cardinality(D)), weight)
  BY <1>1, SumsOfSmaller
<1> QED BY <1>2, <1>3

\* Whichever element is taken first, the sum is the same.
TakesAny(f, s, weight) ==
  /\ f[s] \in Nat
  /\ s = {} => f[s] = 0
  /\ \A x \in s : f[s] = weight[x] + f[s \ {x}]

LEMMA SumsTakeAny ==
  ASSUME NEW D, NEW weight, NEW f,
         IsFiniteSet(D), Weighs(weight, D), Sums(f, SUBSET D, weight)
  PROVE  \A s \in SUBSET D : TakesAny(f, s, weight)
<1>1. \A s \in SUBSET D :
        f[s] = IF s = {} THEN 0 ELSE weight[Pick(s)] + f[s \ {Pick(s)}]
  BY Zenon DEF Sums
<1> DEFINE Good(s) == /\ f[s] \in Nat
                      /\ \A x \in s : f[s] = weight[x] + f[s \ {x}]
           Bad == {s \in SUBSET D : ~Good(s)}
<1>2. Bad = {}
  <2> SUFFICES ASSUME Bad # {} PROVE FALSE
    OBVIOUS
  <2>1. \A s \in SUBSET D : IsFiniteSet(s)
    BY FS_Subset
  <2>2. PICK s \in Bad : \A t \in Bad : Cardinality(s) <= Cardinality(t)
    BY <2>1, SmallestSet
  <2>3. s \in SUBSET D /\ ~Good(s) /\ IsFiniteSet(s)
    BY <2>1, <2>2
  <2>4. s # {}
    <3> SUFFICES ASSUME s = {} PROVE FALSE
      OBVIOUS
    <3>1. f[s] = 0
      BY <1>1, <2>3
    <3> QED BY <2>3, <3>1
  <2> DEFINE p == Pick(s)
  <2>5. ASSUME NEW t \in SUBSET D, NEW x \in s, t = s \ {x} PROVE Good(t)
    <3>1. /\ IsFiniteSet(t) /\ Cardinality(s) \in Nat
          /\ Cardinality(t) = Cardinality(s) - 1
      BY <2>1, <2>3, <2>5, FS_RemoveElement, FS_CardinalityType
    <3>2. ~ (Cardinality(s) <= Cardinality(t))
      BY <3>1
    <3> QED BY <2>2, <3>2
  <2>6. p \in s /\ weight[p] \in Nat /\ f[s] = weight[p] + f[s \ {p}]
    BY <1>1, <2>3, <2>4, PickOne DEF Weighs
  <2> HIDE DEF p, Good
  <2>7. Good(s \ {p})
    BY <2>3, <2>5, <2>6
  <2>8. f[s] \in Nat
    BY <2>6, <2>7 DEF Good
  <2>9. ASSUME NEW x \in s, x # p
        PROVE  f[s] = weight[x] + f[s \ {x}]
    <3>1. s \ {x} \in SUBSET D /\ (s \ {x}) \ {p} \in SUBSET D /\ x \in D
      BY <2>3
    <3>2. Good(s \ {x})
      BY <2>5, <3>1
    <3>3. x \in s \ {p} /\ p \in s \ {x} /\ (s \ {p}) \ {x} = (s \ {x}) \ {p}
      BY <2>6, <2>9
    <3>4. f[s \ {p}] = weight[x] + f[(s \ {x}) \ {p}]
      BY <2>7, <3>3 DEF Good
    <3>5. f[s \ {x}] = weight[p] + f[(s \ {x}) \ {p}]
      BY <3>2, <3>3 DEF Good
    <3>6. f[(s \ {x}) \ {p}] \in Nat
      <4> DEFINE r == (s \ {x}) \ {p}
      <4>1. r # s /\ r \subseteq s /\ IsFiniteSet(r)
        BY <2>1, <2>6, <3>1
      <4>2. Cardinality(r) \in Nat /\ Cardinality(s) \in Nat /\ Cardinality(r) < Cardinality(s)
        BY <2>3, <4>1, FS_Subset, FS_CardinalityType
      <4>3. r \notin Bad
        BY <2>2, <4>2
      <4> QED BY <3>1, <4>3 DEF Good
    <3>7. weight[x] \in Nat
      BY <3>1 DEF Weighs
    <3>8. \A a, b, c \in Nat : a + (b + c) = b + (a + c)
      OBVIOUS
    <3> QED BY <2>6, <3>4, <3>5, <3>6, <3>7, <3>8
  <2> QED BY <2>3, <2>6, <2>8, <2>9 DEF Good
<1> QED BY <1>1, <1>2 DEF TakesAny

\* Two families of sums agree where their weights do.
LEMMA SumsAgree ==
  ASSUME NEW D, NEW E, NEW v, NEW w, NEW f, NEW g,
         IsFiniteSet(D), D \subseteq E, Agree(v, w, D),
         Sums(f, SUBSET D, v), Sums(g, SUBSET E, w)
  PROVE  f[D] = g[D]
<1>1. /\ \A s \in SUBSET D : f[s] = IF s = {} THEN 0 ELSE v[Pick(s)] + f[s \ {Pick(s)}]
      /\ \A s \in SUBSET E : g[s] = IF s = {} THEN 0 ELSE w[Pick(s)] + g[s \ {Pick(s)}]
  BY Zenon DEF Sums
<1> DEFINE Bad == {s \in SUBSET D : f[s] # g[s]}
<1>2. Bad = {}
  <2> SUFFICES ASSUME Bad # {} PROVE FALSE
    OBVIOUS
  <2>1. \A s \in SUBSET D : IsFiniteSet(s)
    BY FS_Subset
  <2>2. PICK s \in Bad : \A t \in Bad : Cardinality(s) <= Cardinality(t)
    BY <2>1, SmallestSet
  <2>3. s \in SUBSET D /\ s \in SUBSET E /\ f[s] # g[s] /\ IsFiniteSet(s)
    BY <2>1, <2>2
  <2>4. s # {}
    BY <1>1, <2>3
  <2>5. f[s \ {Pick(s)}] = g[s \ {Pick(s)}]
    <3>1. ~ (Cardinality(s) <= Cardinality(s \ {Pick(s)}))
      <4>1. /\ Cardinality(s) \in Nat
            /\ Cardinality(s \ {Pick(s)}) = Cardinality(s) - 1
        BY <2>3, <2>4, PickOne
      <4>2. \A n \in Nat : ~ (n <= n - 1)
        OBVIOUS
      <4> QED BY <4>1, <4>2
    <3>2. s \ {Pick(s)} \in SUBSET D
      BY <2>3
    <3> QED BY <2>2, <3>1, <3>2
  <2>6. v[Pick(s)] = w[Pick(s)]
    BY <2>3, <2>4, PickOne DEF Agree
  <2>7. /\ f[s] = v[Pick(s)] + f[s \ {Pick(s)}]
        /\ g[s] = w[Pick(s)] + g[s \ {Pick(s)}]
    BY <1>1, <2>3, <2>4
  <2> QED BY <2>3, <2>5, <2>6, <2>7
<1> QED BY <1>2

\* An element more, and its weight is added.
OneMore(D, E, n) == IsFiniteSet(E) /\ n \in E /\ D = E \ {n}

LEMMA SumOfOneMore ==
  ASSUME NEW D, NEW E, NEW n, NEW v, NEW w, NEW f, NEW k,
         OneMore(D, E, n), Weighs(w, E), Agree(v, w, D), Sums(f, SUBSET D, v), Sums(k, SUBSET E, w)
  PROVE  k[E] = w[n] + f[D] /\ f[D] \in Nat /\ w[n] \in Nat
<1> USE DEF OneMore
<1>1. TakesAny(k, E, w) /\ TakesAny(k, D, w)
  <2>1. \A s \in SUBSET E : TakesAny(k, s, w)
    BY SumsTakeAny
  <2>2. E \in SUBSET E /\ D \in SUBSET E
    OBVIOUS
  <2> QED BY <2>1, <2>2
<1>2. k[E] = w[n] + k[D] /\ k[D] \in Nat
  BY <1>1 DEF TakesAny
<1>3. f[D] = k[D]
  <2>1. IsFiniteSet(D) /\ D \subseteq E
    BY FS_Subset
  <2> QED BY <2>1, SumsAgree
<1> QED BY <1>2, <1>3 DEF Weighs

\* A sum may be cut to a word at any point.
LEMMA CutSum ==
  ASSUME NEW W \in Nat \ {0}, NEW a \in Nat, NEW c \in Nat
  PROVE  /\ a % W \in 0 .. W - 1
         /\ ((a % W) + c) % W = (a + c) % W
<1> DEFINE r == a % W
           p == (r + c) % W
           q == (a + c) % W
           k == a \div W
           l == (r + c) \div W
           m == (a + c) \div W
<1>1. /\ r \in 0 .. W - 1 /\ k \in Int /\ a = k * W + r
  OBVIOUS
<1>2. r + c \in Nat /\ a + c \in Nat
  BY <1>1
<1>3. p \in 0 .. W - 1 /\ l \in Int /\ r + c = l * W + p
  BY <1>2
<1>4. q \in 0 .. W - 1 /\ m \in Int /\ a + c = m * W + q
  BY <1>2
<1> HIDE DEF r, p, q, k, l, m
<1>5. q - p = (k + l - m) * W
  BY <1>1, <1>3, <1>4
<1> DEFINE d == k + l - m
<1>6. d \in Int /\ q - p = d * W
  BY <1>1, <1>3, <1>4, <1>5
<1> HIDE DEF d
<1>7. d = 0
  <2>1. q - p < W /\ p - q < W /\ W > 0
    BY <1>3, <1>4
  <2>2. d >= 1 => d * W >= W
    BY <1>6
  <2>3. d <= -1 => d * W <= -W
    BY <1>6
  <2> QED BY <1>3, <1>4, <1>6, <2>1, <2>2, <2>3
<1>8. p = q
  BY <1>3, <1>4, <1>6, <1>7
<1> QED BY <1>1, <1>8 DEF p, q, r

-----------------------------------------------------------------------------
(* What one more element of the file adds to what it describes.            *)

LEMMA GreatestOf ==
  ASSUME NEW n \in Nat, NEW S, S \subseteq 1..n, S # {}
  PROVE  Max(S) \in S /\ \A y \in S : Max(S) >= y
<1> DEFINE Rest == {n - x : x \in S}
<1>1. Rest \subseteq Nat /\ Rest # {}
  <2>1. \A x \in S : x \in 1..n /\ n - x \in Nat
    OBVIOUS
  <2> QED BY <2>1
<1>2. PICK d \in Rest : \A r \in Rest : d <= r
  BY <1>1, LeastNumber
<1>3. PICK x \in S : d = n - x
  BY <1>2
<1>4. \A y \in S : x >= y
  <2> SUFFICES ASSUME NEW y \in S PROVE x >= y
    OBVIOUS
  <2>1. n - x <= n - y
    BY <1>2, <1>3
  <2>2. x \in 1..n /\ y \in 1..n
    BY Zenon
  <2>3. \A i \in 1..n : i \in Nat
    OBVIOUS
  <2>4. x \in Nat /\ y \in Nat
    BY <2>2, <2>3, Zenon
  <2> QED BY <2>1, <2>4
<1> QED BY <1>4, Zenon DEF Max

LEMMA Appended ==
  ASSUME NEW S, NEW s \in Seq(S), NEW e \in S
  PROVE  /\ Len(s) \in Nat /\ DOMAIN s = 1..Len(s)
         /\ DOMAIN Append(s, e) = DOMAIN s \cup {Len(s) + 1}
         /\ Len(s) + 1 \notin DOMAIN s
         /\ Append(s, e)[Len(s) + 1] = e
         /\ \A i \in DOMAIN s : Append(s, e)[i] = s[i]
<1>1. Len(s) \in Nat /\ DOMAIN s = 1..Len(s)
  BY LenProperties
<1>2. /\ Append(s, e) \in Seq(S) /\ Len(Append(s, e)) = Len(s) + 1
      /\ \A i \in 1..Len(s) : Append(s, e)[i] = s[i]
      /\ Append(s, e)[Len(s) + 1] = e
  BY AppendProperties
<1>3. DOMAIN Append(s, e) = 1..(Len(s) + 1)
  BY <1>2, LenProperties
<1>4. \A n \in Nat : 1..(n + 1) = (1..n) \cup {n + 1} /\ n + 1 \notin 1..n
  OBVIOUS
<1> QED BY <1>1, <1>2, <1>3, <1>4

LEMMA EndsOfEdge ==
  ASSUME NEW e, NEW key
  PROVE  Ends(e, key) = (IF key = e.node1 THEN 1 ELSE 0) + (IF key = e.node2 THEN 1 ELSE 0)
<1> DEFINE of == {x \in {1, 2} : key = IF x = 1 THEN e.node1 ELSE e.node2}
<1>1. CASE key = e.node1 /\ key = e.node2
  <2>1. of = {1} \cup {2} /\ 2 \notin {1}
    BY <1>1
  <2>2. Cardinality({1}) = 1 /\ IsFiniteSet({1})
    BY FS_Singleton
  <2>3. Cardinality({1} \cup {2}) = 1 + 1
    BY <2>1, <2>2, FS_AddElement
  <2> QED BY <1>1, <2>1, <2>3 DEF Ends
<1>2. CASE key = e.node1 /\ key # e.node2
  <2>1. of = {1}
    BY <1>2
  <2> QED BY <1>2, <2>1, FS_Singleton, SMTT(30) DEF Ends
<1>3. CASE key # e.node1 /\ key = e.node2
  <2>1. of = {2}
    BY <1>3
  <2> QED BY <1>3, <2>1, FS_Singleton DEF Ends
<1>4. CASE key # e.node1 /\ key # e.node2
  <2>1. of = {}
    BY <1>4
  <2> QED BY <1>4, <2>1, FS_EmptySet DEF Ends
<1> QED BY <1>1, <1>2, <1>3, <1>4

\* What an edge adds to the capacity of a node.
Share(edge, key) == edge.capacity * Ends(edge, key)

Shares(g, key) == [i \in DOMAIN g.edges |-> Share(g.edges[i], key)]

LEMMA ShareOfEdge ==
  ASSUME NEW e \in Edge, NEW key
  PROVE  /\ Share(e, key) \in Nat
         /\ Share(e, key) = (IF key = e.node1 THEN e.capacity ELSE 0)
                              + (IF key = e.node2 THEN e.capacity ELSE 0)
<1>1. e.capacity \in Nat
  BY NumberAssumption DEF Edge
<1>2. \A c \in Nat : c * (1 + 1) = c + c /\ c * (1 + 0) = c /\ c * (0 + 1) = c /\ c * (0 + 0) = 0
  OBVIOUS
<1>3. CASE key = e.node1 /\ key = e.node2
  <2>1. Ends(e, key) = 1 + 1
    BY <1>3, EndsOfEdge
  <2> QED BY <1>1, <1>2, <1>3, <2>1 DEF Share
<1>4. CASE key = e.node1 /\ key # e.node2
  <2>1. Ends(e, key) = 1 + 0
    BY <1>4, EndsOfEdge
  <2> QED BY <1>1, <1>2, <1>4, <2>1 DEF Share
<1>5. CASE key # e.node1 /\ key = e.node2
  <2>1. Ends(e, key) = 0 + 1
    BY <1>5, EndsOfEdge
  <2> QED BY <1>1, <1>2, <1>5, <2>1 DEF Share
<1>6. CASE key # e.node1 /\ key # e.node2
  <2>1. Ends(e, key) = 0 + 0
    BY <1>6, EndsOfEdge
  <2> QED BY <1>1, <1>2, <1>6, <2>1 DEF Share
<1> QED BY <1>3, <1>4, <1>5, <1>6

LEMMA CapacityIsSum ==
  ASSUME NEW g, IsFiniteSet(DOMAIN g.edges), NEW key
  PROVE  \E f : /\ Sums(f, SUBSET DOMAIN g.edges, Shares(g, key))
                /\ Capacity(g, key) = f[DOMAIN g.edges]
<1> DEFINE D == DOMAIN g.edges
           Added(h) == [s \in SUBSET D |->
                          IF s = {} THEN 0
                          ELSE g.edges[Pick(s)].capacity * Ends(g.edges[Pick(s)], key)
                                 + h[s \ {Pick(s)}]]
           f == CHOOSE h : h = Added(h)
<1>1. Capacity(g, key) = f[D]
  BY DEF Capacity, MapThenSumSet, MapThenFoldSet, Pick
<1>2. ASSUME NEW h
      PROVE  Added(h) = [s \in SUBSET D |->
                           IF s = {} THEN 0 ELSE Shares(g, key)[Pick(s)] + h[s \ {Pick(s)}]]
  <2>1. ASSUME NEW s \in SUBSET D, s # {}
        PROVE  Shares(g, key)[Pick(s)] = g.edges[Pick(s)].capacity * Ends(g.edges[Pick(s)], key)
    <3>1. Pick(s) \in D
      BY <2>1 DEF Pick
    <3> QED BY <3>1 DEF Shares, Share
  <2> QED BY <2>1
<1>3. \A h : h = Added(h) <=> Sums(h, SUBSET D, Shares(g, key))
  BY <1>2 DEF Sums
<1>4. \E h : h = Added(h)
  BY <1>3, SumsExist
<1> HIDE DEF Added
<1>5. f = Added(f)
  BY <1>4, Zenon
<1> HIDE DEF f
<1> QED BY <1>1, <1>3, <1>5

LEMMA CapacityProperties ==
  ASSUME NEW g, g.edges \in Seq(Edge), NEW key
  PROVE  /\ Capacity(g, key) \in Nat
         /\ g.edges = <<>> => Capacity(g, key) = 0
         /\ \A h, e : e \in Edge /\ h.edges = Append(g.edges, e)
                        => Capacity(h, key) = Capacity(g, key) + Share(e, key)
<1> DEFINE D == DOMAIN g.edges
<1>1. D = 1..Len(g.edges) /\ Len(g.edges) \in Nat /\ IsFiniteSet(D)
  BY LenProperties, FS_Interval, SMTT(30)
<1>2. \A i \in D : g.edges[i] \in Edge
  BY <1>1, ElementOfSeq
<1>3. PICK f : Sums(f, SUBSET D, Shares(g, key)) /\ Capacity(g, key) = f[D]
  BY <1>1, CapacityIsSum
<1>4. \A i \in D : Shares(g, key)[i] \in Nat
  BY <1>2, ShareOfEdge DEF Shares
<1>5. f[D] \in Nat /\ (D = {} => f[D] = 0)
  <2> DEFINE w == Shares(g, key)
  <2>0. IsFiniteSet(D) /\ Sums(f, SUBSET D, w) /\ Weighs(w, D)
    BY <1>1, <1>3, <1>4 DEF Weighs
  <2> HIDE DEF D, w
  <2>1. \A s \in SUBSET D : f[s] \in Nat /\ (s = {} => f[s] = 0)
    BY <2>0, SumsTakeAny DEF TakesAny
  <2> QED BY <2>1
<1>6. ASSUME NEW h, NEW e \in Edge, h.edges = Append(g.edges, e)
      PROVE  Capacity(h, key) = Capacity(g, key) + Share(e, key)
  <2> DEFINE n == Len(g.edges) + 1
             E == DOMAIN h.edges
  <2>1. /\ E = D \cup {n} /\ n \notin D /\ h.edges[n] = e
        /\ \A i \in D : h.edges[i] = g.edges[i]
    BY <1>6, Appended
  <2>2. IsFiniteSet(E)
    <3>1. IsFiniteSet(D \cup {n})
      <4> HIDE DEF D, n
      <4> QED BY <1>1, FS_AddElement, Zenon
    <3> QED BY <2>1, <3>1, Zenon
  <2>3. PICK k : Sums(k, SUBSET E, Shares(h, key)) /\ Capacity(h, key) = k[E]
    BY <2>2, CapacityIsSum
  <2>4. /\ Shares(h, key)[n] = Share(e, key)
        /\ \A i \in D : Shares(g, key)[i] = Shares(h, key)[i]
    BY <2>1 DEF Shares
  <2>5. \A i \in E : Shares(h, key)[i] \in Nat
    BY <1>4, <2>1, <2>4, ShareOfEdge
  <2> DEFINE v == Shares(g, key)
             w == Shares(h, key)
             c == Share(e, key)
  <2>6. /\ OneMore(D, E, n)
        /\ Sums(f, SUBSET D, v) /\ Capacity(g, key) = f[D]
        /\ Sums(k, SUBSET E, w) /\ Capacity(h, key) = k[E]
        /\ Agree(v, w, D) /\ Weighs(w, E) /\ w[n] = c
    BY <1>1, <1>3, <2>1, <2>2, <2>3, <2>4, <2>5
       DEF Agree, Weighs, OneMore
  <2> HIDE DEF n, D, E, v, w, c
  <2>7. k[E] = w[n] + f[D] /\ f[D] \in Nat /\ w[n] \in Nat
    BY <2>6, SumOfOneMore
  <2>8. Capacity(h, key) = Capacity(g, key) + c
    BY <2>6, <2>7
  <2> QED BY <2>8 DEF c
<1> QED BY <1>1, <1>3, <1>5, <1>6, EmptySeq

\* The elements a key has, and the alias it ends up with.
Of(g, key)  == {i \in DOMAIN g.nodes : g.nodes[i].pubkey = key}
Pubkeys(g)  == {g.nodes[i].pubkey : i \in DOMAIN g.nodes}

LEMMA AliasProperties ==
  ASSUME NEW g, g.nodes \in Seq(Node), NEW key
  PROVE  /\ Described(g, key).alias = g.nodes[Max(Of(g, key))].alias
         /\ key \in Pubkeys(g) => /\ Max(Of(g, key)) \in Of(g, key)
                                  /\ Described(g, key).alias \in Aliases
<1>1. Described(g, key).alias = g.nodes[Max(Of(g, key))].alias
  BY DEF Described, Of
<1>2. ASSUME key \in Pubkeys(g)
      PROVE  Max(Of(g, key)) \in Of(g, key) /\ Described(g, key).alias \in Aliases
  <2>1. DOMAIN g.nodes = 1..Len(g.nodes) /\ Len(g.nodes) \in Nat
    BY LenProperties
  <2>2. Of(g, key) \subseteq 1..Len(g.nodes) /\ Of(g, key) # {}
    BY <1>2, <2>1 DEF Of, Pubkeys
  <2>3. Max(Of(g, key)) \in Of(g, key)
    BY <2>1, <2>2, GreatestOf
  <2>4. g.nodes[Max(Of(g, key))] \in Node
    BY <2>1, <2>2, <2>3, ElementOfSeq
  <2> QED BY <1>1, <2>3, <2>4 DEF Node
<1> QED BY <1>1, <1>2

LEMMA AliasOfOneMore ==
  ASSUME NEW g, g.nodes \in Seq(Node), NEW node \in Node,
         NEW h, h.nodes = Append(g.nodes, node)
  PROVE  /\ Pubkeys(h) = Pubkeys(g) \cup {node.pubkey}
         /\ Described(h, node.pubkey).alias = node.alias
         /\ \A key \in Pubkeys(g) \ {node.pubkey} :
              Described(h, key).alias = Described(g, key).alias
<1> DEFINE n == Len(g.nodes) + 1
<1>1. /\ Len(g.nodes) \in Nat /\ DOMAIN g.nodes = 1..Len(g.nodes)
      /\ DOMAIN h.nodes = DOMAIN g.nodes \cup {n} /\ n \notin DOMAIN g.nodes
      /\ h.nodes[n] = node /\ \A i \in DOMAIN g.nodes : h.nodes[i] = g.nodes[i]
  BY Appended
<1>2. Pubkeys(h) = Pubkeys(g) \cup {node.pubkey}
  BY <1>1 DEF Pubkeys
<1>3. h.nodes \in Seq(Node)
  BY AppendProperties
<1>4. Described(h, node.pubkey).alias = node.alias
  <2> DEFINE of == Of(h, node.pubkey)
  <2>1. of \subseteq 1..n /\ n \in of /\ n \in Nat
    BY <1>1 DEF Of
  <2>2. Max(of) \in of /\ \A y \in of : Max(of) >= y
    BY <2>1, GreatestOf
  <2>3. Max(of) = n
    BY <2>1, <2>2
  <2>4. Described(h, node.pubkey).alias = h.nodes[Max(of)].alias
    BY <1>3, AliasProperties
  <2> QED BY <1>1, <2>3, <2>4
<1>5. ASSUME NEW key \in Pubkeys(g) \ {node.pubkey}
      PROVE  Described(h, key).alias = Described(g, key).alias
  <2>1. Of(h, key) = Of(g, key)
    BY <1>1, <1>5 DEF Of
  <2>2. Max(Of(g, key)) \in DOMAIN g.nodes
    BY <1>5, AliasProperties DEF Of
  <2>3. /\ Described(h, key).alias = h.nodes[Max(Of(h, key))].alias
        /\ Described(g, key).alias = g.nodes[Max(Of(g, key))].alias
    BY <1>3, AliasProperties
  <2> QED BY <1>1, <2>1, <2>2, <2>3
<1> QED BY <1>2, <1>4, <1>5

-----------------------------------------------------------------------------
(* The maps and the tables.                                                *)

LEMMA DescribedIsRow ==
  ASSUME NEW g, NEW key
  PROVE  Described(g, key) = [alias |-> Described(g, key).alias,
                              capacity |-> Described(g, key).capacity]
BY DEF Described

LEMMA DescribedCapacity ==
  ASSUME NEW g, NEW key
  PROVE  Described(g, key).capacity = Capacity(g, key) % Word
BY DEF Described

LEMMA TableOfNodes ==
  ASSUME NEW map, NEW g
  PROVE  Table(map) = NodesOf(g)
           <=> DOMAIN map = Pubkeys(g) /\ \A k \in DOMAIN map : map[k] = Described(g, k)
<1>1. NodesOf(g) = {[key |-> k, row |-> Described(g, k)] : k \in Pubkeys(g)}
  BY DEF NodesOf, Pubkeys
<1>2. ASSUME Table(map) = NodesOf(g)
      PROVE  DOMAIN map = Pubkeys(g) /\ \A k \in DOMAIN map : map[k] = Described(g, k)
  <2>1. ASSUME NEW k \in DOMAIN map
        PROVE  k \in Pubkeys(g) /\ map[k] = Described(g, k)
    <3>1. [key |-> k, row |-> map[k]] \in NodesOf(g)
      BY <1>2 DEF Table
    <3>2. PICK l \in Pubkeys(g) :
            [key |-> k, row |-> map[k]] = [key |-> l, row |-> Described(g, l)]
      BY <1>1, <3>1
    <3>3. k = l /\ map[k] = Described(g, l)
      BY <3>2
    <3> QED BY <3>3
  <2>2. ASSUME NEW l \in Pubkeys(g) PROVE l \in DOMAIN map
    <3>1. [key |-> l, row |-> Described(g, l)] \in Table(map)
      BY <1>1, <1>2
    <3>2. PICK k \in DOMAIN map :
            [key |-> k, row |-> map[k]] = [key |-> l, row |-> Described(g, l)]
      BY <3>1 DEF Table
    <3>3. k = l
      BY <3>2
    <3> QED BY <3>3
  <2> QED BY <2>1, <2>2
<1>3. ASSUME DOMAIN map = Pubkeys(g), \A k \in DOMAIN map : map[k] = Described(g, k)
      PROVE  Table(map) = NodesOf(g)
  BY <1>1, <1>3 DEF Table
<1> QED BY <1>2, <1>3

LEMMA AddCapacityProperties ==
  ASSUME NEW map, NEW key, NEW c
  PROVE  /\ DOMAIN AddCapacity(map, key, c) = DOMAIN map
         /\ \A k \in DOMAIN map :
              AddCapacity(map, key, c)[k]
                = IF k = key THEN [map[k] EXCEPT !.capacity = (@ + c) % Word] ELSE map[k]
BY DEF AddCapacity

\* A node is read: the map gets it, with no capacity yet.
LEMMA NodeIsRead ==
  ASSUME NEW g, g.nodes \in Seq(Node), g.edges = <<>>,
         NEW node \in Node,
         NEW h, h.nodes = Append(g.nodes, node), h.edges = <<>>,
         NEW map, Table(map) = NodesOf(g)
  PROVE  Table(Put(map, node.pubkey, [alias |-> node.alias, capacity |-> 0]))
           = NodesOf(h)
<1> DEFINE new == Put(map, node.pubkey, [alias |-> node.alias, capacity |-> 0])
<1>1. DOMAIN map = Pubkeys(g) /\ \A k \in DOMAIN map : map[k] = Described(g, k)
  BY TableOfNodes
<1>2. /\ DOMAIN new = DOMAIN map \cup {node.pubkey}
      /\ new[node.pubkey] = [alias |-> node.alias, capacity |-> 0]
      /\ \A k \in DOMAIN map \ {node.pubkey} : new[k] = map[k]
  BY DEF Put
<1>3. /\ Pubkeys(h) = Pubkeys(g) \cup {node.pubkey}
      /\ Described(h, node.pubkey).alias = node.alias
      /\ \A key \in Pubkeys(g) \ {node.pubkey} :
           Described(h, key).alias = Described(g, key).alias
  BY AliasOfOneMore
<1>4. \A key : Described(g, key).capacity = 0 /\ Described(h, key).capacity = 0
  <2>1. g.edges \in Seq(Edge) /\ h.edges \in Seq(Edge)
    BY EmptySeq
  <2>2. \A key : Capacity(g, key) = 0 /\ Capacity(h, key) = 0
    BY <2>1, CapacityProperties
  <2>3. 0 % Word = 0
    BY NumberAssumption
  <2> QED BY <2>2, <2>3, DescribedCapacity
<1> HIDE DEF new
<1>5. ASSUME NEW k \in DOMAIN new PROVE new[k] = Described(h, k)
  <2>1. CASE k = node.pubkey
    BY <1>2, <1>3, <1>4, <2>1, DescribedIsRow
  <2>2. CASE k # node.pubkey
    <3>1. new[k] = Described(g, k) /\ k \in Pubkeys(g) \ {node.pubkey}
      BY <1>1, <1>2, <2>2
    <3>2. Described(g, k) = Described(h, k)
      BY <1>3, <1>4, <3>1, DescribedIsRow
    <3> QED BY <3>1, <3>2
  <2> QED BY <2>1, <2>2
<1>6. DOMAIN new = Pubkeys(h)
  BY <1>1, <1>2, <1>3
<1>7. Table(new) = NodesOf(h)
  BY <1>5, <1>6, TableOfNodes
<1> QED BY <1>7 DEF new

\* The edges that no later one of the same id replaces.
Kept(g) == {i \in DOMAIN g.edges :
              \A j \in i + 1 .. Len(g.edges) : g.edges[j].scid # g.edges[i].scid}

RowOf(edge) == [key |-> edge.scid, row |-> <<edge.node1, edge.node2>>]

LEMMA TableOfEdges == \A g : EdgesOf(g) = {RowOf(g.edges[i]) : i \in Kept(g)}
BY DEF EdgesOf, Kept, RowOf

LEMMA KeptOfOneMore ==
  ASSUME NEW g, g.edges \in Seq(Edge), NEW e \in Edge,
         NEW h, h.edges = Append(g.edges, e)
  PROVE  Kept(h) = {i \in Kept(g) : g.edges[i].scid # e.scid} \cup {Len(g.edges) + 1}
<1> DEFINE n == Len(g.edges)
<1>1. /\ n \in Nat /\ DOMAIN g.edges = 1..n
      /\ DOMAIN h.edges = (1..n) \cup {n + 1} /\ n + 1 \notin 1..n
      /\ h.edges[n + 1] = e /\ \A i \in 1..n : h.edges[i] = g.edges[i]
  BY Appended
<1>2. Len(h.edges) = n + 1
  BY AppendProperties
<1> HIDE DEF n
<1>3. n + 1 \in Kept(h)
  <2>1. (n + 1) + 1 .. n + 1 = {}
    BY <1>1
  <2> QED BY <1>1, <1>2, <2>1 DEF Kept
<1>4. ASSUME NEW i \in 1..n
      PROVE  i \in Kept(h) <=> i \in Kept(g) /\ g.edges[i].scid # e.scid
  <2>1. i + 1 .. n + 1 = (i + 1 .. n) \cup {n + 1} /\ i + 1 .. n \subseteq 1..n
    BY <1>1
  <2>2. i \in Kept(h) <=> \A j \in i + 1 .. n + 1 : h.edges[j].scid # g.edges[i].scid
    BY <1>1, <1>2 DEF Kept
  <2>3. i \in Kept(g) <=> \A j \in i + 1 .. n : g.edges[j].scid # g.edges[i].scid
    BY <1>1 DEF Kept, n
  <2> QED BY <1>1, <2>1, <2>2, <2>3
<1>5. Kept(g) \subseteq 1..n /\ Kept(h) \subseteq (1..n) \cup {n + 1}
  BY <1>1 DEF Kept
<1>6. Kept(h) = {i \in Kept(g) : g.edges[i].scid # e.scid} \cup {n + 1}
  BY <1>3, <1>4, <1>5
<1> QED BY <1>6 DEF n

LEMMA TableOfPut ==
  ASSUME NEW map, NEW key, NEW value
  PROVE  Table(Put(map, key, value))
           = {r \in Table(map) : r.key # key} \cup {[key |-> key, row |-> value]}
<1> DEFINE new == Put(map, key, value)
<1>1. /\ DOMAIN new = DOMAIN map \cup {key} /\ new[key] = value
      /\ \A k \in DOMAIN map \ {key} : new[k] = map[k]
  BY DEF Put
<1> HIDE DEF new
<1>2. ASSUME NEW r
      PROVE  r \in Table(new)
               <=> (r \in Table(map) /\ r.key # key) \/ r = [key |-> key, row |-> value]
  <2>1. r \in Table(new) <=> \E k \in DOMAIN new : r = [key |-> k, row |-> new[k]]
    BY DEF Table
  <2>2. r \in Table(map) <=> \E k \in DOMAIN map : r = [key |-> k, row |-> map[k]]
    BY DEF Table
  <2> QED BY <1>1, <2>1, <2>2
<1>3. Table(new) = {r \in Table(map) : r.key # key} \cup {[key |-> key, row |-> value]}
  BY <1>2
<1> QED BY <1>3 DEF new

\* An edge is read: it takes the place of one with its id.
LEMMA EdgeIsRead ==
  ASSUME NEW g, g.edges \in Seq(Edge), NEW e \in Edge,
         NEW h, h.edges = Append(g.edges, e),
         NEW map, Table(map) = EdgesOf(g)
  PROVE  Table(Put(map, e.scid, <<e.node1, e.node2>>)) = EdgesOf(h)
<1> DEFINE n == Len(g.edges)
<1>1. /\ DOMAIN g.edges = 1..n /\ h.edges[n + 1] = e
      /\ \A i \in 1..n : h.edges[i] = g.edges[i]
  BY Appended
<1>2. Kept(h) = {i \in Kept(g) : g.edges[i].scid # e.scid} \cup {n + 1}
  BY KeptOfOneMore
<1>3. Kept(g) \subseteq 1..n
  BY <1>1 DEF Kept
<1> HIDE DEF n
<1>4. \A i \in Kept(g) : h.edges[i] = g.edges[i]
  BY <1>1, <1>3
<1>5. EdgesOf(h)
        = {r \in EdgesOf(g) : r.key # e.scid} \cup {RowOf(e)}
  <2>1. \A d : RowOf(d).key = d.scid
    BY DEF RowOf
  <2>2. {RowOf(h.edges[i]) : i \in Kept(h)}
          = {RowOf(g.edges[i]) : i \in {x \in Kept(g) : g.edges[x].scid # e.scid}}
              \cup {RowOf(e)}
    BY <1>1, <1>2, <1>4, ZenonT(40)
  <2>3. {RowOf(g.edges[i]) : i \in {x \in Kept(g) : g.edges[x].scid # e.scid}}
          = {r \in {RowOf(g.edges[i]) : i \in Kept(g)} : r.key # e.scid}
    BY <2>1
  <2> QED BY <2>2, <2>3, TableOfEdges
<1> QED BY <1>5, TableOfPut DEF RowOf

\* Both ends of it get its capacity, as far as they are nodes; one that is both, twice.
LEMMA CapacityIsAdded ==
  ASSUME NEW g, g.nodes \in Seq(Node), g.edges \in Seq(Edge), NEW e \in Edge,
         NEW h, h.nodes = g.nodes, h.edges = Append(g.edges, e),
         NEW map, Table(map) = NodesOf(g)
  PROVE  Table(AddCapacity(AddCapacity(map, e.node1, e.capacity), e.node2, e.capacity))
           = NodesOf(h)
<1> DEFINE one == AddCapacity(map, e.node1, e.capacity)
           two == AddCapacity(one, e.node2, e.capacity)
<1>1. DOMAIN map = Pubkeys(g) /\ \A k \in DOMAIN map : map[k] = Described(g, k)
  BY TableOfNodes
<1>2. /\ DOMAIN one = DOMAIN map
      /\ \A k \in DOMAIN map :
           one[k] = IF k = e.node1 THEN [map[k] EXCEPT !.capacity = (@ + e.capacity) % Word] ELSE map[k]
  BY AddCapacityProperties
<1>3. /\ DOMAIN two = DOMAIN one
      /\ \A k \in DOMAIN one :
           two[k] = IF k = e.node2 THEN [one[k] EXCEPT !.capacity = (@ + e.capacity) % Word] ELSE one[k]
  BY AddCapacityProperties
<1> HIDE DEF one, two
<1>4. Pubkeys(h) = Pubkeys(g) /\ \A k : Of(h, k) = Of(g, k)
  BY DEF Pubkeys, Of
<1>5. ASSUME NEW k \in Pubkeys(g) PROVE two[k] = Described(h, k)
  <2> DEFINE a == Described(g, k).alias
             c == Capacity(g, k)
             left  == IF k = e.node1 THEN e.capacity ELSE 0
             right == IF k = e.node2 THEN e.capacity ELSE 0
  <2>1. map[k] = [alias |-> a, capacity |-> c % Word]
    BY <1>1, DescribedIsRow, DescribedCapacity
  <2>2. Described(h, k).alias = a
    <3>1. Described(h, k).alias = h.nodes[Max(Of(h, k))].alias /\ h.nodes \in Seq(Node)
      BY AliasProperties
    <3>2. a = g.nodes[Max(Of(g, k))].alias
      BY AliasProperties
    <3> QED BY <1>4, <3>1, <3>2
  <2>3. c \in Nat /\ Capacity(h, k) = c + Share(e, k)
    BY CapacityProperties
  <2>4. Share(e, k) = left + right
    BY ShareOfEdge
  <2>5. e.capacity \in Nat /\ left \in Nat /\ right \in Nat
    BY NumberAssumption DEF Edge
  <2>6. k = e.node1 \/ left = 0
    OBVIOUS
  <2>7. k # e.node1 \/ left = e.capacity
    OBVIOUS
  <2>8. k = e.node2 \/ right = 0
    OBVIOUS
  <2>9. k # e.node2 \/ right = e.capacity
    OBVIOUS
  <2> HIDE DEF a, c, left, right
  <2>10. /\ ((c % Word) + left) % Word = (c + left) % Word
         /\ (((c + left) % Word) + right) % Word = ((c + left) + right) % Word
         /\ (c % Word) % Word = c % Word /\ ((c + left) % Word) % Word = (c + left) % Word
         /\ c % Word \in Nat /\ (c + left) % Word \in Nat
    <3>1. Word \in Nat \ {0} /\ c + left \in Nat /\ 0 \in Nat
      BY <2>3, <2>5, NumberAssumption
    <3>2. c % Word \in Nat /\ (c + left) % Word \in Nat
      BY <2>3, <3>1
    <3>3. /\ ((c % Word) + 0) % Word = (c + 0) % Word
          /\ (((c + left) % Word) + 0) % Word = ((c + left) + 0) % Word
      BY <2>3, <3>1, CutSum
    <3>4. /\ (c % Word) + 0 = c % Word /\ c + 0 = c
          /\ ((c + left) % Word) + 0 = (c + left) % Word /\ (c + left) + 0 = c + left
      BY <2>3, <3>1, <3>2
    <3>5. /\ ((c % Word) + left) % Word = (c + left) % Word
          /\ (((c + left) % Word) + right) % Word = ((c + left) + right) % Word
      BY <2>3, <2>5, <3>1, CutSum
    <3> QED BY <3>2, <3>3, <3>4, <3>5
  <2>11. one[k] = [alias |-> a, capacity |-> (c + left) % Word]
    <3>1. CASE k = e.node1
      <4>1. one[k] = [alias |-> a, capacity |-> ((c % Word) + left) % Word]
        BY <1>1, <1>2, <2>1, <2>7, <3>1
      <4> QED BY <2>10, <4>1
    <3>2. CASE k # e.node1
      <4>1. one[k] = map[k] /\ left = 0
        BY <1>1, <1>2, <2>6, <3>2
      <4>2. c + left = c
        BY <2>3, <4>1
      <4> QED BY <2>1, <4>1, <4>2
    <3> QED BY <3>1, <3>2
  <2>12. two[k] = [alias |-> a, capacity |-> ((c + left) + right) % Word]
    <3>1. CASE k = e.node2
      <4>1. two[k] = [alias |-> a, capacity |-> (((c + left) % Word) + right) % Word]
        BY <1>1, <1>2, <1>3, <2>9, <2>11, <3>1
      <4> QED BY <2>10, <4>1
    <3>2. CASE k # e.node2
      <4>1. two[k] = one[k] /\ right = 0
        BY <1>1, <1>2, <1>3, <2>8, <3>2
      <4>2. (c + left) + right = c + left
        BY <2>3, <2>5, <4>1
      <4> QED BY <2>11, <4>1, <4>2
    <3> QED BY <3>1, <3>2
  <2>13. Described(h, k).capacity = ((c + left) + right) % Word
    <3>1. c + (left + right) = (c + left) + right
      BY <2>3, <2>5
    <3> QED BY <2>3, <2>4, <3>1, DescribedCapacity
  <2> QED BY <2>2, <2>12, <2>13, DescribedIsRow
<1>6. Table(two) = NodesOf(h)
  BY <1>1, <1>2, <1>3, <1>4, <1>5, TableOfNodes
<1> QED BY <1>6 DEF one, two

-----------------------------------------------------------------------------
(* What was read so far.                                                   *)

LEMMA PrefixOfOneMore ==
  ASSUME NEW S, NEW s \in Seq(S), NEW n \in Nat, n < Len(s)
  PROVE  SubSeq(s, 1, n + 1) = Append(SubSeq(s, 1, n), s[n + 1]) /\ s[n + 1] \in S
<1>1. Len(s) \in Nat /\ \A i \in 1..Len(s) : s[i] \in S
  BY LenProperties, ElementOfSeq
<1> DEFINE p == SubSeq(s, 1, n)
           q == SubSeq(s, 1, n + 1)
<1>2. s[n + 1] \in S
  BY <1>1
<1>3. p \in Seq(S) /\ Len(p) = n /\ \A i \in 1..n : p[i] = s[i]
  <2>1. \A k \in 1..n : s[k] \in S
    BY <1>1
  <2>2. Len(p) = n /\ \A i \in 1..n : p[i] = s[i]
    BY <1>1
  <2> QED BY <1>1, <2>1, <2>2, SubSeqProperties
<1>4. q \in Seq(S) /\ Len(q) = n + 1 /\ \A i \in 1..(n + 1) : q[i] = s[i]
  <2>1. \A k \in 1..(n + 1) : s[k] \in S
    BY <1>1
  <2>2. Len(q) = n + 1 /\ \A i \in 1..(n + 1) : q[i] = s[i]
    BY <1>1
  <2> QED BY <1>1, <2>1, <2>2, SubSeqProperties
<1> HIDE DEF p, q
<1>5. /\ Append(p, s[n + 1]) \in Seq(S) /\ Len(Append(p, s[n + 1])) = n + 1
      /\ \A i \in 1..n : Append(p, s[n + 1])[i] = p[i]
      /\ Append(p, s[n + 1])[n + 1] = s[n + 1]
  BY <1>2, <1>3, AppendProperties
<1>6. \A i \in 1..(n + 1) : q[i] = Append(p, s[n + 1])[i]
  BY <1>3, <1>4, <1>5
<1>7. q = Append(p, s[n + 1])
  BY <1>4, <1>5, <1>6, SeqEqual
<1> QED BY <1>2, <1>7 DEF p, q

LEMMA PrefixAtTheEnds ==
  ASSUME NEW S, NEW s \in Seq(S)
  PROVE  SubSeq(s, 1, 0) = <<>> /\ SubSeq(s, 1, Len(s)) = s
<1>1. Len(s) \in Nat /\ \A i \in 1..Len(s) : s[i] \in S
  BY LenProperties, ElementOfSeq
<1>2. SubSeq(s, 1, 0) = <<>>
  OBVIOUS
<1>3. SubSeq(s, 1, Len(s)) \in Seq(S) /\ Len(SubSeq(s, 1, Len(s))) = Len(s)
  BY <1>1, SubSeqProperties
<1>4. \A i \in 1..Len(s) : SubSeq(s, 1, Len(s))[i] = s[i]
  BY <1>1
<1>5. SubSeq(s, 1, Len(s)) = s
  BY <1>3, <1>4, SeqEqual
<1> QED BY <1>2, <1>5

\* Of a whole file everything is a node or an edge.
LEMMA WholePrefix ==
  ASSUME NEW S, NEW s \in Seq(S \cup {Malformed}), NEW n \in 0..Len(s),
         \A i \in DOMAIN SubSeq(s, 1, n) : SubSeq(s, 1, n)[i] # Malformed
  PROVE  SubSeq(s, 1, n) \in Seq(S)
<1>1. Len(s) \in Nat /\ \A i \in 1..Len(s) : s[i] \in S \cup {Malformed}
  BY LenProperties, ElementOfSeq
<1> DEFINE p == SubSeq(s, 1, n)
<1>2. p = [i \in 1..n |-> s[i]]
  BY <1>1
<1>3. ASSUME NEW i \in 1..n PROVE s[i] \in S
  <2>1. i \in 1..Len(s) /\ i \in DOMAIN p /\ p[i] = s[i]
    BY <1>1, <1>2
  <2>2. s[i] # Malformed
    BY <2>1
  <2> QED BY <1>1, <2>1, <2>2
<1> QED BY <1>2, <1>3

LEMMA GraphType ==
  ASSUME TypeOK
  PROVE  /\ graph = [nodes |-> graph.nodes, edges |-> graph.edges]
         /\ graph.nodes \in Seq(Node \cup {Malformed}) /\ Len(graph.nodes) \in Nat
         /\ graph.edges \in Seq(Edge \cup {Malformed}) /\ Len(graph.edges) \in Nat
BY GraphAssumption, LenProperties DEF TypeOK

LEMMA ReadType ==
  ASSUME IInv, pc \in Running
  PROVE  /\ NodesRead \in 0..Len(graph.nodes) /\ EdgesRead \in 0..Len(graph.edges)
         /\ ReadSoFar.nodes \in Seq(Node) /\ ReadSoFar.edges \in Seq(Edge)
<1>1. NodesRead \in 0..Len(graph.nodes) /\ EdgesRead \in 0..Len(graph.edges)
  BY GraphType DEF IInv, TypeOK, MapsInv, NodesRead, EdgesRead
<1>2. Whole(ReadSoFar)
  BY DEF IInv, MapsInv
<1>3. /\ ReadSoFar.nodes = SubSeq(graph.nodes, 1, NodesRead)
      /\ ReadSoFar.edges = SubSeq(graph.edges, 1, EdgesRead)
  BY DEF ReadSoFar
<1>4. /\ \A i \in DOMAIN ReadSoFar.nodes : ReadSoFar.nodes[i] # Malformed
      /\ \A i \in DOMAIN ReadSoFar.edges : ReadSoFar.edges[i] # Malformed
  BY <1>2 DEF Whole
<1>5. TypeOK
  BY DEF IInv
<1>6. SubSeq(graph.nodes, 1, NodesRead) \in Seq(Node)
  BY <1>1, <1>3, <1>4, <1>5, GraphType, WholePrefix
<1>7. SubSeq(graph.edges, 1, EdgesRead) \in Seq(Edge)
  BY <1>1, <1>3, <1>4, <1>5, GraphType, WholePrefix
<1> QED BY <1>1, <1>3, <1>6, <1>7

\* After the loops everything was read.
LEMMA AllIsRead ==
  ASSUME TypeOK, pc \notin {"nodes", "edges"}
  PROVE  ReadSoFar = graph
BY GraphType, PrefixAtTheEnds DEF ReadSoFar, NodesRead, EdgesRead

-----------------------------------------------------------------------------
(* The maps, step by step.                                                 *)

\* An empty file describes nothing.
LEMMA NothingRead ==
  ASSUME NEW g, g.nodes = <<>>, g.edges = <<>>
  PROVE  Whole(g) /\ NodesOf(g) = {} /\ EdgesOf(g) = {} /\ Table(NoMap) = {}
<1>1. Whole(g)
  BY DEF Whole
<1>2. NodesOf(g) = {}
  BY DEF NodesOf
<1>3. EdgesOf(g) = {}
  BY TableOfEdges DEF Kept
<1>4. Table(NoMap) = {}
  BY DEF Table, NoMap
<1> QED BY <1>1, <1>2, <1>3, <1>4

LEMMA WholeOfOneMore ==
  ASSUME NEW S, NEW s \in Seq(S), NEW e \in S, e # Malformed,
         \A i \in DOMAIN s : s[i] # Malformed
  PROVE  \A i \in DOMAIN Append(s, e) : Append(s, e)[i] # Malformed
BY Appended

LEMMA StartMaps ==
  ASSUME TypeOK', Start
  PROVE  MapsInv'
<1>1. /\ pc' = "nodes" /\ next' = 1 /\ nodes' = NoMap /\ edges' = NoMap
  BY DEF Start
<1>2. NodesRead' = 0 /\ EdgesRead' = 0
  BY <1>1 DEF NodesRead, EdgesRead
<1>3. graph' \in [nodes : Seq(Node \cup {Malformed}), edges : Seq(Edge \cup {Malformed})]
  BY GraphAssumption DEF TypeOK
<1>4. Len(graph'.nodes) \in Nat /\ Len(graph'.edges) \in Nat
  BY <1>3, LenProperties
<1>5. ReadSoFar'.nodes = <<>> /\ ReadSoFar'.edges = <<>>
  BY <1>2, <1>3, PrefixAtTheEnds DEF ReadSoFar
<1>6. /\ Whole(ReadSoFar') /\ NodesOf(ReadSoFar') = {}
      /\ EdgesOf(ReadSoFar') = {} /\ Table(NoMap) = {}
  BY <1>5, NothingRead
<1> QED BY <1>1, <1>2, <1>4, <1>6 DEF MapsInv

LEMMA ProcessNodeMaps ==
  ASSUME IInv, ProcessNode, graph.nodes[next] # Malformed
  PROVE  MapsInv' /\ graph.nodes[next] \in Node
<1> DEFINE node == graph.nodes[next]
           g == ReadSoFar
           h == ReadSoFar'
<1>1. /\ pc = "nodes" /\ next <= Len(graph.nodes) /\ next \in Nat \ {0}
      /\ TypeOK /\ MapsInv /\ pc \in Running
  BY DEF ProcessNode, IInv, TypeOK, Running
<1>2. /\ nodes' = Put(nodes, node.pubkey, [alias |-> node.alias, capacity |-> 0])
      /\ next' = next + 1 /\ pc' = pc /\ graph' = graph /\ edges' = edges
  BY DEF ProcessNode, Fail
<1>3. /\ NodesRead = next - 1 /\ NodesRead' = next /\ EdgesRead = 0 /\ EdgesRead' = 0
  BY <1>1, <1>2 DEF NodesRead, EdgesRead
<1>4. /\ g.nodes = SubSeq(graph.nodes, 1, next - 1) /\ g.edges = SubSeq(graph.edges, 1, 0)
      /\ h.nodes = SubSeq(graph.nodes, 1, next) /\ h.edges = SubSeq(graph.edges, 1, 0)
  BY <1>2, <1>3 DEF ReadSoFar
<1>5. g.edges = <<>> /\ h.edges = <<>>
  BY <1>1, <1>4, GraphType, PrefixAtTheEnds
<1>6. h.nodes = Append(g.nodes, node) /\ node \in Node
  <2>1. next - 1 \in Nat /\ next - 1 < Len(graph.nodes) /\ (next - 1) + 1 = next
    BY <1>1, GraphType
  <2>2. /\ SubSeq(graph.nodes, 1, (next - 1) + 1)
             = Append(SubSeq(graph.nodes, 1, next - 1), graph.nodes[(next - 1) + 1])
        /\ graph.nodes[(next - 1) + 1] \in Node \cup {Malformed}
    BY <1>1, <2>1, GraphType, PrefixOfOneMore
  <2> QED BY <1>4, <2>1, <2>2
<1>7. g.nodes \in Seq(Node) /\ Whole(g)
      /\ Table(nodes) = NodesOf(g) /\ Table(edges) = EdgesOf(g)
  BY <1>1, ReadType DEF MapsInv
<1> HIDE DEF g, h, node
<1>8. Table(nodes') = NodesOf(h)
  BY <1>2, <1>5, <1>6, <1>7, NodeIsRead
<1>9. Table(edges') = EdgesOf(h)
  <2>1. Kept(g) = {} /\ Kept(h) = {}
    BY <1>5 DEF Kept
  <2>2. EdgesOf(g) = {} /\ EdgesOf(h) = {}
    BY <2>1, TableOfEdges
  <2> QED BY <1>2, <1>7, <2>2
<1>10. Whole(h)
  BY <1>5, <1>6, <1>7, WholeOfOneMore DEF Whole, node
<1>11. NodesRead' <= Len(graph'.nodes) /\ EdgesRead' <= Len(graph'.edges)
  BY <1>1, <1>2, <1>3, GraphType
<1> QED BY <1>6, <1>8, <1>9, <1>10, <1>11 DEF MapsInv, g, h, node

LEMMA ProcessEdgeMaps ==
  ASSUME IInv, ProcessEdge, ~Fail
  PROVE  MapsInv' /\ graph.edges[next] \in Edge
<1> DEFINE edge == graph.edges[next]
           g == ReadSoFar
           h == ReadSoFar'
<1>1. /\ pc = "edges" /\ next <= Len(graph.edges) /\ next \in Nat \ {0}
      /\ TypeOK /\ MapsInv /\ pc \in Running
  BY DEF ProcessEdge, IInv, TypeOK, Running
<1>2. /\ edges' = Put(edges, edge.scid, <<edge.node1, edge.node2>>)
      /\ nodes' = AddCapacity(AddCapacity(nodes, edge.node1, edge.capacity),
                              edge.node2, edge.capacity)
      /\ next' = next + 1 /\ pc' = pc /\ graph' = graph /\ edge # Malformed
  BY DEF ProcessEdge
<1>3. /\ NodesRead = Len(graph.nodes) /\ NodesRead' = Len(graph.nodes)
      /\ EdgesRead = next - 1 /\ EdgesRead' = next
  BY <1>1, <1>2 DEF NodesRead, EdgesRead
<1>4. /\ g.edges = SubSeq(graph.edges, 1, next - 1) /\ h.edges = SubSeq(graph.edges, 1, next)
      /\ h.nodes = g.nodes
  BY <1>2, <1>3 DEF ReadSoFar
<1>5. h.edges = Append(g.edges, edge) /\ edge \in Edge
  <2>1. next - 1 \in Nat /\ next - 1 < Len(graph.edges) /\ (next - 1) + 1 = next
    BY <1>1, GraphType
  <2>2. /\ SubSeq(graph.edges, 1, (next - 1) + 1)
             = Append(SubSeq(graph.edges, 1, next - 1), graph.edges[(next - 1) + 1])
        /\ graph.edges[(next - 1) + 1] \in Edge \cup {Malformed}
    BY <1>1, <2>1, GraphType, PrefixOfOneMore
  <2> QED BY <1>2, <1>4, <2>1, <2>2
<1>6. g.nodes \in Seq(Node) /\ g.edges \in Seq(Edge) /\ Whole(g)
      /\ Table(nodes) = NodesOf(g) /\ Table(edges) = EdgesOf(g)
  BY <1>1, ReadType DEF MapsInv
<1> HIDE DEF g, h, edge
<1>7. Table(nodes') = NodesOf(h)
  BY <1>2, <1>4, <1>5, <1>6, CapacityIsAdded, ZenonT(40)
<1>8. Table(edges') = EdgesOf(h)
  <2>1. Table(Put(edges, edge.scid, <<edge.node1, edge.node2>>)) = EdgesOf(h)
    BY <1>5, <1>6, EdgeIsRead
  <2> QED BY <1>2, <2>1
<1>9. Whole(h)
  BY <1>2, <1>4, <1>5, <1>6, WholeOfOneMore DEF Whole, edge
<1>10. NodesRead' <= Len(graph'.nodes) /\ EdgesRead' <= Len(graph'.edges)
  BY <1>1, <1>2, <1>3, GraphType
<1> QED BY <1>5, <1>7, <1>8, <1>9, <1>10 DEF MapsInv, g, h, edge

\* The other steps of a run read nothing.
LEMMA SameMaps ==
  ASSUME IInv, TypeOK', pc \in Running, pc' \in Running,
         graph' = graph, nodes' = nodes, edges' = edges,
         NodesRead' = NodesRead, EdgesRead' = EdgesRead
  PROVE  MapsInv'
<1>1. ReadSoFar' = ReadSoFar
  BY DEF ReadSoFar
<1> QED BY <1>1 DEF MapsInv, IInv

-----------------------------------------------------------------------------
(* Type correctness.                                                       *)

LEMMA NodesType ==
  ASSUME IInv, NEW key, NEW c \in 0 .. Word - 1, NEW map,
         DOMAIN map = DOMAIN nodes,
         \A k \in DOMAIN map : map[k] \in [alias : Aliases, capacity : 0 .. Word - 1]
  PROVE  /\ DOMAIN AddCapacity(map, key, c) = DOMAIN nodes
         /\ \A k \in DOMAIN map :
              AddCapacity(map, key, c)[k] \in [alias : Aliases, capacity : 0 .. Word - 1]
<1>1. /\ DOMAIN AddCapacity(map, key, c) = DOMAIN map
      /\ \A k \in DOMAIN map :
           AddCapacity(map, key, c)[k]
             = IF k = key THEN [map[k] EXCEPT !.capacity = (@ + c) % Word] ELSE map[k]
  BY AddCapacityProperties
<1>2. \A n \in 0 .. Word - 1 : (n + c) % Word \in 0 .. Word - 1
  BY NumberAssumption, CutSum
<1>3. \A r \in [alias : Aliases, capacity : 0 .. Word - 1] :
        [r EXCEPT !.capacity = (@ + c) % Word] \in [alias : Aliases, capacity : 0 .. Word - 1]
  BY <1>2
<1> QED BY <1>1, <1>3

LEMMA TypeStep == IInv /\ [Next]_vars => TypeOK'
<1> SUFFICES ASSUME IInv, [Next]_vars PROVE TypeOK'
  OBVIOUS
<1>1. TypeOK
  BY DEF IInv
<1> USE <1>1
<1>2. CASE Fail
  BY <1>2 DEF Fail, TypeOK
<1>3. CASE Start
  <2>1. /\ pc' = "nodes" /\ graph' \in Graphs /\ next' = 1 /\ db' = db
        /\ nodes' = NoMap /\ edges' = NoMap
    BY <1>3 DEF Start
  <2>2. DOMAIN nodes' = {} /\ DOMAIN edges' = {}
    BY <2>1 DEF NoMap
  <2>3. db' = [nodes |-> db'.nodes, edges |-> db'.edges]
    BY <2>1 DEF TypeOK
  <2>4. pc' \in {"idle", "done", "failed"} \cup Running /\ next' \in Nat \ {0}
    BY <2>1 DEF Running
  <2> QED BY <2>1, <2>2, <2>3, <2>4 DEF TypeOK
<1>4. CASE ProcessNode
  <2> DEFINE node == graph.nodes[next]
  <2>1. CASE node # Malformed
    <3>1. node \in Node
      BY <1>4, <2>1, ProcessNodeMaps
    <3>2. /\ nodes' = Put(nodes, node.pubkey, [alias |-> node.alias, capacity |-> 0])
          /\ next' = next + 1 /\ UNCHANGED <<pc, graph, edges, db>>
      BY <1>4, <2>1 DEF ProcessNode
    <3>3. /\ node.pubkey \in Keys
          /\ [alias |-> node.alias, capacity |-> 0] \in [alias : Aliases, capacity : 0 .. Word - 1]
      BY <3>1, NumberAssumption DEF Node
    <3> HIDE DEF node
    <3>4. /\ DOMAIN nodes' = DOMAIN nodes \cup {node.pubkey}
          /\ \A k \in DOMAIN nodes' :
               nodes'[k] = IF k = node.pubkey THEN [alias |-> node.alias, capacity |-> 0]
                           ELSE nodes[k]
      BY <3>2 DEF Put
    <3> QED BY <3>2, <3>3, <3>4 DEF TypeOK
  <2>2. CASE node = Malformed
    BY <1>2, <1>4, <2>2 DEF ProcessNode
  <2> QED BY <2>1, <2>2
<1>5. CASE NodesProcessed
  BY <1>5 DEF NodesProcessed, TypeOK, Running
<1>6. CASE ProcessEdge
  <2> DEFINE edge == graph.edges[next]
             one == AddCapacity(nodes, edge.node1, edge.capacity)
  <2>1. CASE ~Fail
    <3>1. edge \in Edge
      BY <1>6, <2>1, ProcessEdgeMaps
    <3>2. /\ nodes' = AddCapacity(one, edge.node2, edge.capacity)
          /\ edges' = Put(edges, edge.scid, <<edge.node1, edge.node2>>)
          /\ next' = next + 1 /\ UNCHANGED <<pc, graph, db>>
      BY <1>6, <2>1 DEF ProcessEdge
    <3>3. edge.capacity \in 0 .. Word - 1 /\ edge.scid \in Scids /\ <<edge.node1, edge.node2>> \in Keys \X Keys
      BY <3>1 DEF Edge
    <3> HIDE DEF edge
    <3>4. /\ DOMAIN one = DOMAIN nodes
          /\ \A k \in DOMAIN nodes : one[k] \in [alias : Aliases, capacity : 0 .. Word - 1]
      BY <3>3, NodesType DEF TypeOK
    <3> HIDE DEF one
    <3>5. /\ DOMAIN nodes' = DOMAIN nodes
          /\ \A k \in DOMAIN nodes : nodes'[k] \in [alias : Aliases, capacity : 0 .. Word - 1]
      BY <3>2, <3>3, <3>4, NodesType
    <3>6. /\ DOMAIN edges' = DOMAIN edges \cup {edge.scid}
          /\ \A k \in DOMAIN edges' :
               edges'[k] = IF k = edge.scid THEN <<edge.node1, edge.node2>> ELSE edges[k]
      BY <3>2 DEF Put
    <3> QED BY <3>2, <3>3, <3>5, <3>6 DEF TypeOK
  <2>2. CASE Fail
    BY <1>2, <2>2
  <2> QED BY <2>1, <2>2
<1>7. CASE EdgesProcessed
  BY <1>7 DEF EdgesProcessed, TypeOK, Running
<1>8. CASE DropNodes \/ CreateNodes \/ DropEdges \/ CreateEdges
  BY <1>8 DEF DropNodes, CreateNodes, DropEdges, CreateEdges, Statement, TypeOK, Running
<1>9. CASE Insert
  BY <1>2, <1>9 DEF Insert, TypeOK
<1>10. CASE Stop
  BY <1>2, <1>10 DEF Stop
<1>11. CASE UNCHANGED vars
  BY <1>11 DEF vars, TypeOK
<1> QED BY <1>3, <1>4, <1>5, <1>6, <1>7, <1>8, <1>9, <1>10, <1>11 DEF Next

-----------------------------------------------------------------------------
(* The invariant.                                                          *)

LEMMA Initially == Init => IInv
BY DEF Init, IInv, TypeOK, MapsInv, StatementsInv, TablesMatch, DoneIsTheGraph, NoMap, Running

LEMMA MapsStep == IInv /\ [Next]_vars => MapsInv'
<1> SUFFICES ASSUME IInv, [Next]_vars, pc' \in Running PROVE MapsInv'
  BY DEF MapsInv
<1>1. TypeOK /\ TypeOK' /\ MapsInv
  BY TypeStep DEF IInv
<1>2. CASE Start
  BY <1>1, <1>2, StartMaps
<1>3. CASE ProcessNode
  <2>1. ~Fail
    BY DEF Fail, Running
  <2> QED BY <1>3, <2>1, ProcessNodeMaps DEF ProcessNode
<1>4. CASE ProcessEdge
  <2>1. ~Fail
    BY DEF Fail, Running
  <2> QED BY <1>4, <2>1, ProcessEdgeMaps DEF ProcessEdge
<1>5. CASE NodesProcessed
  <2>1. /\ pc = "nodes" /\ pc' = "edges" /\ next' = 1 /\ next > Len(graph.nodes)
        /\ graph' = graph /\ nodes' = nodes /\ edges' = edges
    BY <1>5 DEF NodesProcessed
  <2>2. NodesRead' = NodesRead /\ EdgesRead' = EdgesRead
    <3>1. next - 1 <= Len(graph.nodes) /\ next \in Nat
      BY <1>1, <2>1 DEF MapsInv, NodesRead, Running, TypeOK
    <3>2. next - 1 = Len(graph.nodes)
      BY <1>1, <2>1, <3>1, GraphType
    <3> QED BY <2>1, <3>2 DEF NodesRead, EdgesRead
  <2> QED BY <1>1, <2>1, <2>2, SameMaps DEF Running
<1>6. CASE EdgesProcessed
  <2>1. /\ pc = "edges" /\ pc' = "drop nodes" /\ next' = next /\ next > Len(graph.edges)
        /\ graph' = graph /\ nodes' = nodes /\ edges' = edges
    BY <1>6 DEF EdgesProcessed
  <2>2. NodesRead' = NodesRead /\ EdgesRead' = EdgesRead
    <3>1. next - 1 <= Len(graph.edges) /\ next \in Nat
      BY <1>1, <2>1 DEF MapsInv, EdgesRead, Running, TypeOK
    <3>2. next - 1 = Len(graph.edges)
      <4>1. Len(graph.edges) \in Nat
        BY <1>1, GraphType
      <4>2. \A m, n \in Nat : m - 1 <= n /\ m > n => m - 1 = n
        OBVIOUS
      <4> QED BY <2>1, <3>1, <4>1, <4>2
    <3> QED BY <2>1, <3>2 DEF NodesRead, EdgesRead
  <2> QED BY <1>1, <2>1, <2>2, SameMaps DEF Running
<1>7. CASE DropNodes \/ CreateNodes \/ DropEdges \/ CreateEdges
  <2>1. /\ pc \in Running \ {"nodes", "edges"} /\ pc' \in Running \ {"nodes", "edges"}
        /\ graph' = graph /\ nodes' = nodes /\ edges' = edges
    BY <1>7 DEF DropNodes, CreateNodes, DropEdges, CreateEdges, Statement, Running
  <2>2. NodesRead' = NodesRead /\ EdgesRead' = EdgesRead
    BY <2>1 DEF NodesRead, EdgesRead
  <2> QED BY <1>1, <2>1, <2>2, SameMaps
<1>8. CASE Insert \/ Stop
  BY <1>8 DEF Insert, Stop, Fail, Running
<1>9. CASE UNCHANGED vars
  <2>1. NodesRead' = NodesRead /\ EdgesRead' = EdgesRead
    BY <1>9 DEF vars, NodesRead, EdgesRead
  <2> QED BY <1>1, <1>9, <2>1, SameMaps DEF vars
<1> QED BY <1>2, <1>3, <1>4, <1>5, <1>6, <1>7, <1>8, <1>9 DEF Next

LEMMA StatementsStep == IInv /\ [Next]_vars => StatementsInv'
<1> SUFFICES ASSUME TypeOK, StatementsInv, [Next]_vars PROVE StatementsInv'
  BY DEF IInv
<1>1. CASE Start \/ ProcessNode \/ NodesProcessed \/ ProcessEdge \/ EdgesProcessed
           \/ Insert \/ Stop
  BY <1>1 DEF Start, ProcessNode, NodesProcessed, ProcessEdge, EdgesProcessed, Insert, Stop,
              Fail, StatementsInv
<1>2. CASE DropNodes \/ CreateNodes \/ DropEdges \/ CreateEdges
  BY <1>2 DEF DropNodes, CreateNodes, DropEdges, CreateEdges, Statement, StatementsInv, TypeOK
<1>3. CASE UNCHANGED vars
  BY <1>3 DEF vars, StatementsInv
<1> QED BY <1>1, <1>2, <1>3 DEF Next

\* A sum that is an integer of SQLite is neither cut nor rounded.
LEMMA SmallSumsAreStored ==
  ASSUME NEW g, g.edges \in Seq(Edge), NEW n \in Stored(NodesOf(g)),
         Capacity(g, n.key) <= MaxInteger
  PROVE  n.row.capacity = Capacity(g, n.key)
<1>1. PICK k : n = [key |-> k, row |-> [alias |-> Described(g, k).alias,
                                        capacity |-> Column(Described(g, k).capacity)]]
  <2>1. PICK r \in NodesOf(g) :
          n = [key |-> r.key, row |-> [alias |-> r.row.alias, capacity |-> Column(r.row.capacity)]]
    BY DEF Stored
  <2>2. PICK k : r = [key |-> k, row |-> Described(g, k)]
    BY <2>1 DEF NodesOf
  <2>3. r.key = k /\ r.row = Described(g, k)
    BY <2>2
  <2> QED BY <2>1, <2>3
<1>2. n.key = k /\ n.row.capacity = Column(Capacity(g, k) % Word)
  BY <1>1, DescribedCapacity
<1> DEFINE c == Capacity(g, k)
<1>3. c \in Nat /\ c <= MaxInteger
  BY <1>2, CapacityProperties
<1> HIDE DEF c
<1>4. c % Word = c
  BY <1>3, NumberAssumption
<1>5. Column(c) = c
  BY <1>3 DEF Column
<1> QED BY <1>2, <1>4, <1>5 DEF c

\* A run that inserts has read its whole file.
LEMMA InsertsTheGraph ==
  ASSUME IInv, Insert, pc' = "done"
  PROVE  /\ Whole(graph) /\ db' = Tables(graph)
         /\ \A n \in db'.nodes : Capacity(graph, n.key) <= MaxInteger
                                  => n.row.capacity = Capacity(graph, n.key)
<1>1. pc = "insert" /\ db' = [nodes |-> Stored(Table(nodes)), edges |-> Table(edges)]
  BY DEF Insert, Fail
<1>2. ReadSoFar = graph
  BY <1>1, AllIsRead DEF IInv
<1>3. /\ Whole(graph) /\ Table(nodes) = NodesOf(graph)
      /\ Table(edges) = EdgesOf(graph)
  BY <1>1, <1>2 DEF IInv, MapsInv, Running
<1>4. graph.edges \in Seq(Edge)
  BY <1>1, <1>2, ReadType DEF Running
<1>5. db'.nodes = Stored(NodesOf(graph)) /\ db' = Tables(graph)
  BY <1>1, <1>3 DEF Tables
<1>6. \A n \in Stored(NodesOf(graph)) : Capacity(graph, n.key) <= MaxInteger
                                         => n.row.capacity = Capacity(graph, n.key)
  BY <1>4, SmallSumsAreStored
<1> QED BY <1>3, <1>5, <1>6

LEMMA DoneStep == IInv /\ [Next]_vars => DoneIsTheGraph'
<1> SUFFICES ASSUME IInv, [Next]_vars, pc' = "done" PROVE DoneIsTheGraph'
  BY DEF DoneIsTheGraph
<1>1. CASE Insert
  <2>1. graph' = graph
    BY <1>1 DEF Insert, Fail
  <2>2. /\ Whole(graph) /\ db' = Tables(graph)
        /\ \A n \in db'.nodes : Capacity(graph, n.key) <= MaxInteger
                                 => n.row.capacity = Capacity(graph, n.key)
    BY <1>1, InsertsTheGraph
  <2> QED BY <2>1, <2>2 DEF DoneIsTheGraph
<1>2. CASE UNCHANGED vars
  BY <1>2 DEF vars, IInv, DoneIsTheGraph
<1>3. ~ (Start \/ NodesProcessed \/ EdgesProcessed \/ DropNodes \/ CreateNodes \/ DropEdges
           \/ CreateEdges \/ Stop)
  BY DEF Start, NodesProcessed, EdgesProcessed, DropNodes, CreateNodes, DropEdges, CreateEdges,
         Statement, Stop, Fail
<1>4. ~ (ProcessNode \/ ProcessEdge)
  BY DEF ProcessNode, ProcessEdge, Fail
<1> QED BY <1>1, <1>2, <1>3, <1>4 DEF Next

LEMMA TablesStep == IInv /\ [Next]_vars => TablesMatch'
<1> SUFFICES ASSUME IInv, [Next]_vars PROVE TablesMatch'
  OBVIOUS
<1>1. TypeOK /\ TablesMatch /\ StatementsInv
  BY DEF IInv
<1>2. CASE db' = db
  BY <1>1, <1>2 DEF TablesMatch
<1>3. CASE DropNodes \/ CreateNodes
  <2>1. db'.nodes \in {None, {}} /\ db'.edges = db.edges
    BY <1>1, <1>3 DEF DropNodes, CreateNodes, Statement, TypeOK
  <2> QED BY <1>1, <2>1 DEF TablesMatch
<1>4. CASE DropEdges \/ CreateEdges
  <2>1. db'.edges \in {None, {}} /\ db'.nodes = db.nodes /\ db.nodes = {}
    BY <1>1, <1>4 DEF DropEdges, CreateEdges, Statement, TypeOK, StatementsInv
  <2> QED BY <2>1 DEF TablesMatch
<1>5. CASE Insert /\ pc' = "done"
  <2>1. Whole(graph) /\ db' = Tables(graph) /\ graph \in Graphs
    BY <1>1, <1>5, InsertsTheGraph DEF TypeOK
  <2> QED BY <2>1 DEF TablesMatch
<1>6. CASE Start \/ ProcessNode \/ NodesProcessed \/ ProcessEdge \/ EdgesProcessed \/ Stop
  BY <1>2, <1>6 DEF Start, ProcessNode, NodesProcessed, ProcessEdge, EdgesProcessed, Stop, Fail
<1>7. CASE Insert /\ pc' # "done"
  BY <1>2, <1>7 DEF Insert, Fail
<1>8. CASE UNCHANGED vars
  BY <1>2, <1>8 DEF vars
<1> QED BY <1>3, <1>4, <1>5, <1>6, <1>7, <1>8 DEF Next

\* The inductive invariant of the runs.
THEOREM Invariance == Spec => []IInv
<1>1. IInv /\ [Next]_vars => IInv'
  BY TypeStep, MapsStep, StatementsStep, DoneStep, TablesStep DEF IInv
<1> QED BY <1>1, Initially, PTL DEF Spec

\* Every run has maps of keys, names, capacities and channel ids.
THEOREM TypeCorrect == Spec => []TypeOK
BY Invariance, PTL DEF IInv

\* For every file, of any length and with any repetition: a run that ends well leaves
\* the graph that the file describes, whatever was in the tables before, with the sums
\* of the capacities as far as they are integers of SQLite, and rounded or wrapped around
\* where they are greater.
THEOREM RunsLeaveTheirGraph == Spec => []DoneIsTheGraph
BY Invariance, PTL DEF IInv

\* For every number of runs stopped anywhere: the tables never hold two graphs, nor a part
\* of a table; the edges of one graph without its nodes is what a stop can leave.
THEOREM GraphsAreNotMixed == Spec => []TablesMatch
BY Invariance, PTL DEF IInv
=============================================================================
