------------------------------ MODULE LzssTrees ------------------------------
(* What the theorems about Lzss rest on: facts about numbers, the cells of   *)
(* the ring, and what one insertion, replacement or deletion makes of a      *)
(* search tree, whatever the order of its nodes.                             *)
EXTENDS Lzss, WellFoundedInduction, FiniteSetTheorems, SequenceTheorems, TLAPS

-----------------------------------------------------------------------------
(* Numbers. *)

(* A set of numbers that is not empty has a least one.                      *)
LEMMA Least ==
  ASSUME NEW T, T \subseteq Nat, T # {}
  PROVE  \E i \in T : \A j \in T : i <= j
<1>. DEFINE R == OpToRel(<, Nat)
<1>1. IsWellFoundedOn(R, Nat)
  BY NatLessThanWellFounded
<1>2. \A i, j \in Nat : j < i => <<j, i>> \in R
  BY DEF OpToRel
<1>. HIDE DEF R
<1>3. PICK i \in T : \A j \in T : ~(<<j, i>> \in R)
  BY <1>1, WFMin
<1>4. \A j \in T : i <= j
  <2>. SUFFICES ASSUME NEW j \in T PROVE i <= j
    OBVIOUS
  <2>1. i \in Nat /\ j \in Nat /\ ~(<<j, i>> \in R)
    BY <1>3
  <2>2. ~(j < i)
    BY <1>2, <2>1, Zenon
  <2>3. QED
    BY <2>1, <2>2
<1>. QED
  BY <1>4

(* ... and, when no number of it exceeds top, a greatest one.               *)
LEMMA Greatest ==
  ASSUME NEW T, NEW top \in Nat, T \subseteq 0 .. top, T # {}
  PROVE  \E i \in T : \A j \in T : j <= i
<1>. DEFINE U == {top - i : i \in T}
<1>1. U \subseteq Nat /\ U # {}
  <2>1. PICK i \in T : TRUE
    OBVIOUS
  <2>2. top - i \in U /\ \A j \in T : top - j \in Nat
    BY <2>1
  <2>3. QED
    BY <2>2
<1>2. PICK u \in U : \A v \in U : u <= v
  BY <1>1, Least
<1>3. PICK i \in T : u = top - i
  OBVIOUS
<1>4. ASSUME NEW j \in T PROVE j <= i
  <2>1. top - j \in U /\ j \in 0 .. top /\ i \in 0 .. top
    OBVIOUS
  <2>2. u <= top - j
    BY <1>2, <2>1
  <2>3. QED
    BY ONLY <1>3, <2>1, <2>2, top \in Nat
<1>. QED
  BY <1>4

(* Multiples of n are n apart.                                              *)
LEMMA Multiples ==
  ASSUME NEW n \in Nat \ {0}, NEW a \in Int, NEW b \in Int, a < b
  PROVE  n * a + n <= n * b
<1>1. n * (b - a - 1) >= 0
  OBVIOUS
<1>2. QED
  BY <1>1

(* Quotient and remainder are what they are multiplied and added from.      *)
LEMMA Division ==
  ASSUME NEW n \in Nat \ {0}, NEW c \in Int, NEW m \in 0 .. n - 1
  PROVE  (n * c + m) % n = m /\ (n * c + m) \div n = c
<1>. DEFINE z == n * c + m
            d == z \div n
            e == z % n
<1>1. z \in Int /\ d \in Int /\ e \in 0 .. n - 1 /\ z = n * d + e
  OBVIOUS
<1>. HIDE DEF d, e
<1>2. CASE d < c
  BY <1>1, <1>2, Multiples
<1>3. CASE c < d
  BY <1>1, <1>3, Multiples
<1>4. CASE c = d
  BY <1>1, <1>4 DEF d, e
<1>. QED
  BY <1>1, <1>2, <1>3, <1>4

(* Half of a quotient is a quotient.                                        *)
LEMMA HalfQuotient ==
  ASSUME NEW n \in Nat \ {0}, NEW c \in Nat
  PROVE  (c \div n) \div 2 = c \div (2 * n)
<1>. DEFINE d == c \div n
            e == c % n
            h == d \div 2
            o == d % 2
<1>1. /\ d \in Int /\ e \in 0 .. n - 1 /\ c = n * d + e
      /\ h \in Int /\ o \in 0 .. 1 /\ d = 2 * h + o
  OBVIOUS
<1>. HIDE DEF d, e, h, o
<1>2. n * o \in 0 .. n
  <2>1. o = 0 \/ o = 1
    BY <1>1
  <2>. QED
    BY <2>1
<1>3. n * o + e \in 0 .. 2 * n - 1 /\ 2 * n \in Nat \ {0}
  BY <1>1, <1>2
<1>4. c = (2 * n) * h + (n * o + e)
  BY <1>1
<1>5. c \div (2 * n) = h
  BY <1>1, <1>3, <1>4, Division
<1>. QED
  BY <1>5 DEF d, h

-----------------------------------------------------------------------------
(* The ring. *)

(* The cell of the ring in which byte k of the text is kept.                *)
Pos(k) == Wrap(k + N - F)

(* What is assumed of the sizes.                                            *)
LEMMA Sizes ==
  /\ N \in Nat \ {0} /\ F \in Nat \ {0} /\ Threshold \in Nat \ {0}
  /\ Threshold + 1 < F /\ 2 * F <= N /\ N % 2 = 0 /\ F % 2 = 0
  /\ PosLow \in Nat \ {0} /\ LenCodes \in Nat \ {0}
BY LzssAssumption DEF LenCodes

(* Two cells are the same place of the ring.                                *)
Same(k, m) == \E c \in Int : k = N * c + m

(* Wrap finds a cell that is a multiple of N away.                          *)
LEMMA Wraps ==
  ASSUME NEW k \in Int
  PROVE  Wrap(k) \in Node /\ \E c \in Int : k = N * c + Wrap(k)
<1>1. k \div N \in Int /\ k % N \in 0 .. N - 1 /\ k = N * (k \div N) + (k % N)
  BY Sizes
<1>2. \E c \in Int : k = N * c + (k % N)
  BY <1>1
<1>. QED
  BY <1>1, <1>2 DEF Wrap, Node

(* There is no other.                                                       *)
LEMMA WrapIs ==
  ASSUME NEW k \in Int, NEW m \in Node, Same(k, m)
  PROVE  Wrap(k) = m
<1>1. PICK c \in Int : k = N * c + m
  BY DEF Same
<1>2. (N * c + m) % N = m
  BY Sizes, Division DEF Node
<1>. QED
  BY <1>1, <1>2 DEF Wrap

(* A byte of the text keeps its cell for N bytes, and shares it with no     *)
(* byte less than N away.                                                   *)
LEMMA Cells ==
  ASSUME NEW k \in Int
  PROVE  /\ Pos(k) \in Node
         /\ Pos(k + N) = Pos(k) /\ Pos(k - N) = Pos(k)
         /\ \A j \in Int : k < j /\ j < k + N => Pos(j) # Pos(k)
<1>. DEFINE h(i) == i + N - F
<1>1. /\ N \in Nat \ {0} /\ F \in Nat
      /\ \A i \in Int : h(i) \in Int /\ Pos(i) = Wrap(h(i))
  BY Sizes DEF Pos
<1>2. PICK c \in Int : h(k) = N * c + Wrap(h(k)) /\ Wrap(h(k)) \in Node
  BY <1>1, Wraps
<1>3. h(k + N) = N * (c + 1) + Wrap(h(k)) /\ h(k - N) = N * (c - 1) + Wrap(h(k))
  BY <1>1, <1>2 DEF Node
<1>4. Pos(k + N) = Pos(k) /\ Pos(k - N) = Pos(k) /\ Pos(k) \in Node
  <2>1. Same(h(k + N), Wrap(h(k))) /\ Same(h(k - N), Wrap(h(k)))
    BY <1>3 DEF Same
  <2>2. h(k + N) \in Int /\ h(k - N) \in Int
    BY <1>1
  <2>3. Wrap(h(k + N)) = Wrap(h(k)) /\ Wrap(h(k - N)) = Wrap(h(k))
    BY <1>2, <2>1, <2>2, WrapIs
  <2>4. QED
    BY <1>1, <1>2, <2>3
<1>5. ASSUME NEW j \in Int, k < j, j < k + N, Pos(j) = Pos(k)
      PROVE  FALSE
  <2>1. PICK d \in Int : h(j) = N * d + Wrap(h(j))
    BY <1>1, Wraps
  <2>2. j - k = N * d - N * c
    BY <1>1, <1>2, <1>5, <2>1 DEF Node
  <2>3. CASE d <= c
    <3>1. N * d <= N * c
      BY <1>1, <2>3, Multiples
    <3>2. QED
      BY <1>5, <2>2, <3>1, <1>1
  <2>4. CASE c < d
    <3>1. N * c + N <= N * d
      BY <1>1, <2>4, Multiples
    <3>2. QED
      BY <1>5, <2>2, <3>1, <1>1
  <2>5. QED
    BY <2>3, <2>4
<1>. QED
  BY <1>4, <1>5

(* The cells of a string are those of its bytes; past the end of the ring   *)
(* they are found N further on.                                             *)
LEMMA CellsOfString ==
  ASSUME NEW k \in Int, NEW i \in 0 .. N - 1
  PROVE  /\ Pos(k) + i < N => Pos(k + i) = Pos(k) + i
         /\ Pos(k) + i >= N => Pos(k + i) = Pos(k) + i - N
<1>. DEFINE h(j) == j + N - F
<1>1. /\ N \in Nat \ {0} /\ F \in Nat
      /\ \A j \in Int : h(j) \in Int /\ Pos(j) = Wrap(h(j))
  BY Sizes DEF Pos
<1>2. PICK c \in Int : h(k) = N * c + Pos(k) /\ Pos(k) \in Node
  <2>1. h(k) \in Int /\ Pos(k) = Wrap(h(k))
    BY <1>1
  <2>2. QED
    BY <2>1, Wraps
<1>3. h(k + i) = N * c + (Pos(k) + i) /\ h(k + i) = N * (c + 1) + (Pos(k) + i - N)
  BY <1>1, <1>2 DEF Node
<1>4. Pos(k) \in 0 .. N - 1 /\ Pos(k + i) = Wrap(h(k + i)) /\ k + i \in Int
  BY <1>1, <1>2 DEF Node
<1>5. ASSUME Pos(k) + i < N PROVE Pos(k + i) = Pos(k) + i
  <2>1. Pos(k) + i \in Node /\ h(k + i) \in Int
    BY <1>1, <1>4, <1>5 DEF Node
  <2>2. Same(h(k + i), Pos(k) + i)
    BY <1>3 DEF Same
  <2>3. QED
    BY <1>4, <2>1, <2>2, WrapIs
<1>6. ASSUME Pos(k) + i >= N PROVE Pos(k + i) = Pos(k) + i - N
  <2>1. Pos(k) + i - N \in Node /\ h(k + i) \in Int
    BY <1>1, <1>4, <1>6 DEF Node
  <2>2. Same(h(k + i), Pos(k) + i - N)
    BY <1>3 DEF Same
  <2>3. QED
    BY <1>4, <2>1, <2>2, WrapIs
<1>. QED
  BY <1>5, <1>6

(* The next byte is in the next cell.                                       *)
LEMMA NextCell ==
  ASSUME NEW k \in Int
  PROVE  Wrap(Pos(k) + 1) = Pos(k + 1)
<1>1. Pos(k) \in 0 .. N - 1 /\ N \in Nat \ {0} /\ 1 \in 0 .. N - 1
  BY Cells, Sizes DEF Node
<1>2. CASE Pos(k) + 1 < N
  <2>1. Pos(k) + 1 \in Node /\ Pos(k) + 1 = N * 0 + (Pos(k) + 1)
    BY <1>1, <1>2 DEF Node
  <2>2. Pos(k) + 1 \in Int /\ 0 \in Int
    BY <1>1
  <2>. Same(Pos(k) + 1, Pos(k) + 1)
    BY <2>1, <2>2, Zenon DEF Same
  <2>3. Wrap(Pos(k) + 1) = Pos(k) + 1
    BY <2>1, <2>2, WrapIs
  <2>4. QED
    BY <1>1, <1>2, <2>3, CellsOfString
<1>3. CASE Pos(k) + 1 >= N
  <2>1. Pos(k) + 1 - N \in Node /\ Pos(k) + 1 = N * 1 + (Pos(k) + 1 - N)
    BY <1>1, <1>3 DEF Node
  <2>2. Pos(k) + 1 \in Int /\ 1 \in Int
    BY <1>1
  <2>. Same(Pos(k) + 1, Pos(k) + 1 - N)
    BY <2>1, <2>2, Zenon DEF Same
  <2>3. Wrap(Pos(k) + 1) = Pos(k) + 1 - N
    BY <2>1, <2>2, WrapIs
  <2>4. QED
    BY <1>1, <1>3, <2>3, CellsOfString
<1>. QED
  BY <1>1, <1>2, <1>3

(* Before the ring has turned, text and cells differ by N - F.              *)
LEMMA FirstCells ==
  ASSUME NEW k \in F - N .. F - 1
  PROVE  Pos(k) = k + N - F
<1>1. k + N - F \in Node /\ k + N - F = N * 0 + (k + N - F) /\ k + N - F \in Int
  BY Sizes DEF Node
<1>2. Same(k + N - F, k + N - F)
  BY ONLY <1>1 DEF Same
<1>3. QED
  BY <1>1, <1>2, WrapIs DEF Pos

(* How far back a byte is can be told from its cell.                        *)
LEMMA CellsBack ==
  ASSUME NEW k \in Int, NEW d \in 0 .. N - 1
  PROVE  Wrap(Pos(k) - Pos(k - d)) = d
<1>1. /\ k - d \in Int /\ Pos(k) \in 0 .. N - 1 /\ Pos(k - d) \in 0 .. N - 1
      /\ N \in Nat \ {0} /\ d \in Node /\ (k - d) + d = k
  BY Cells, Sizes DEF Node
<1>2. \/ Pos(k) - Pos(k - d) = N * 0 + d
      \/ Pos(k) - Pos(k - d) = N * (-1) + d
  <2>1. CASE Pos(k - d) + d < N
    BY <1>1, <2>1, CellsOfString
  <2>2. CASE Pos(k - d) + d >= N
    BY <1>1, <2>2, CellsOfString
  <2>3. QED
    BY <1>1, <2>1, <2>2
<1>3. Pos(k) - Pos(k - d) \in Int
  BY <1>1
<1>4. Same(Pos(k) - Pos(k - d), d)
  BY <1>2 DEF Same
<1>. QED
  BY <1>1, <1>3, <1>4, WrapIs

-----------------------------------------------------------------------------
(* The trees.  c gives the first bytes of the strings, lt orders them, and   *)
(* D has the nodes below each node, itself included.                         *)

Roots == {Root(b) : b \in Bytes}

Arrays == [lson : [0 .. N -> 0 .. N], rson : [(0 .. N) \union Roots -> 0 .. N],
           dad : [0 .. N -> Nat]]

InTree(t) == {n \in Node : t.dad[n] # NIL}

HasDad(t, c, n) ==
  /\ c[n] \in Bytes
  /\ \/ t.dad[n] = Root(c[n]) /\ t.rson[Root(c[n])] = n
     \/ /\ t.dad[n] \in InTree(t) /\ c[t.dad[n]] = c[n]
        /\ n \in {t.lson[t.dad[n]], t.rson[t.dad[n]]}

HasSons(t, n) ==
  /\ t.lson[n] # NIL => t.lson[n] \in Node /\ t.dad[t.lson[n]] = n
  /\ t.rson[n] # NIL => t.rson[n] \in Node /\ t.dad[t.rson[n]] = n
  /\ t.lson[n] = t.rson[n] => t.lson[n] = NIL

WellLinked(t, c) ==
  /\ \A n \in InTree(t) : HasDad(t, c, n) /\ HasSons(t, n)
  /\ \A b \in Bytes :
       t.rson[Root(b)] # NIL => /\ t.rson[Root(b)] \in Node
                                /\ t.dad[t.rson[Root(b)]] = Root(b)

(* What is below a node.                                                    *)
Branches(t, D, n) == D[n] = {n} \union D[t.lson[n]] \union D[t.rson[n]]

Nested(t, D, n) ==
  \A m \in D[n] : /\ m \in InTree(t) /\ D[m] \subseteq D[n]
                  /\ m # n => t.dad[m] \in D[n]

Between(t, D, lt, n) ==
  /\ \A m \in D[t.lson[n]] : <<m, n>> \in lt
  /\ \A m \in D[t.rson[n]] : <<n, m>> \in lt

Sorted(t, D, c, lt) ==
  /\ D \in [0 .. N -> SUBSET Node] /\ D[NIL] = {}
  /\ \A n \in InTree(t) :
       /\ Branches(t, D, n) /\ Nested(t, D, n) /\ Between(t, D, lt, n)
       /\ n \in D[t.rson[Root(c[n])]]

StrictOrder(lt) ==
  /\ \A a \in Node : <<a, a>> \notin lt
  /\ \A a, b, e \in Node : <<a, b>> \in lt /\ <<b, e>> \in lt => <<a, e>> \in lt

(* Cells that are no nodes are told from nodes.                             *)
LEMMA Places ==
  /\ NIL \notin Node /\ 0 .. N = Node \union {NIL} /\ NIL \in Nat
  /\ Node \subseteq Nat /\ Node \subseteq 0 .. N
  /\ \A b \in Bytes : Root(b) \in Nat /\ Root(b) \notin Node /\ Root(b) # NIL
                      /\ Root(b) \notin 0 .. N /\ Root(b) \in Roots
  /\ \A a, b \in Bytes : Root(a) = Root(b) => a = b
<1>1. N \in Nat /\ Bytes \subseteq Nat
  BY LzssAssumption
<1>. QED
  BY <1>1 DEF NIL, Node, Root, Roots

(* A node that has at most one son, m, leaves the tree.                     *)
Spliced(t, u, n, m) ==
  /\ n \in InTree(t)
  /\ \/ t.lson[n] = NIL /\ t.rson[n] = m
     \/ t.rson[n] = NIL /\ t.lson[n] = m
  /\ \A k \in Node : u.dad[k] = IF k = n THEN NIL
                                ELSE IF k = m THEN t.dad[n] ELSE t.dad[k]
  /\ \A k \in InTree(t) \ {n} :
       /\ u.lson[k] = IF t.lson[k] = n THEN m ELSE t.lson[k]
       /\ u.rson[k] = IF t.rson[k] = n THEN m ELSE t.rson[k]
  /\ \A b \in Bytes :
       u.rson[Root(b)] = IF t.rson[Root(b)] = n THEN m ELSE t.rson[Root(b)]

(* The tree without it is linked well; the node is in no other place.       *)
LEMMA SpliceLinks ==
  ASSUME NEW t, NEW u, NEW n, NEW m, NEW c,
         WellLinked(t, c), Spliced(t, u, n, m), n # m, t.dad[n] # n, t.dad[n] # m
  PROVE  WellLinked(u, c) /\ InTree(u) = InTree(t) \ {n}
<1>. USE Places
<1>1. n \in Node /\ t.dad[n] # NIL /\ n \in InTree(t)
  BY DEF Spliced, InTree
<1>2. HasDad(t, c, n) /\ HasSons(t, n)
  BY <1>1 DEF WellLinked
<1>3. m # NIL => m \in Node /\ t.dad[m] = n /\ m \in InTree(t)
  BY <1>1, <1>2 DEF Spliced, HasSons, InTree
<1>4. InTree(u) = InTree(t) \ {n}
  BY <1>1, <1>3 DEF Spliced, InTree
<1>5. ASSUME NEW k \in InTree(u) PROVE HasSons(u, k)
  <2>1. k \in InTree(t) /\ k # n /\ k \in Node
    BY <1>4 DEF InTree
  <2>2. HasSons(t, k)
    BY <2>1 DEF WellLinked
  <2>3. t.lson[k] = n \/ t.rson[k] = n => k = t.dad[n]
    BY <1>1, <2>2 DEF HasSons
  <2>4. m # NIL => t.lson[k] # m /\ t.rson[k] # m
    BY <1>3, <2>1, <2>2 DEF HasSons
  <2>5. QED
    BY <1>1, <1>3, <2>1, <2>2, <2>3, <2>4 DEF HasSons, Spliced
<1>6. ASSUME NEW k \in InTree(u) PROVE HasDad(u, c, k)
  <2>1. k \in InTree(t) /\ k # n /\ k \in Node
    BY <1>4 DEF InTree
  <2>2. HasDad(t, c, k)
    BY <2>1 DEF WellLinked
  <2>3. CASE k = m
    <3>1. u.dad[k] = t.dad[n] /\ c[k] = c[n]
      BY <1>1, <1>3, <2>1, <2>2, <2>3 DEF Spliced, HasDad
    <3>2. QED
      BY <1>1, <1>2, <1>4, <2>1, <2>3, <3>1, ZenonT(40) DEF Spliced, HasDad
  <2>4. CASE k # m
    <3>1. u.dad[k] = t.dad[k] /\ t.dad[k] # n
      <4>1. t.dad[k] = n => k = m
        BY <1>1, <2>1, <2>2 DEF Spliced, HasDad
      <4>2. QED
        BY <4>1, <2>1, <2>4 DEF Spliced
    <3>2. QED
      BY <1>1, <1>4, <2>1, <2>2, <2>4, <3>1, ZenonT(40) DEF Spliced, HasDad
  <2>5. QED
    BY <2>3, <2>4
<1>7. ASSUME NEW b \in Bytes, u.rson[Root(b)] # NIL
      PROVE  u.rson[Root(b)] \in Node /\ u.dad[u.rson[Root(b)]] = Root(b)
  BY <1>1, <1>3, <1>7 DEF Spliced, WellLinked
<1>. QED
  BY <1>4, <1>5, <1>6, <1>7 DEF WellLinked

(* No node is below itself, nor are its sons above it.                      *)
LEMMA NoCycle ==
  ASSUME NEW t, NEW D, NEW c, NEW lt, NEW n \in InTree(t),
         WellLinked(t, c), Sorted(t, D, c, lt), StrictOrder(lt)
  PROVE  /\ n \in D[n] /\ n \notin D[t.lson[n]] /\ n \notin D[t.rson[n]]
         /\ D[t.lson[n]] \intersect D[t.rson[n]] = {}
         /\ \A m \in {t.lson[n], t.rson[n]} : m # n /\ t.dad[n] # m
         /\ t.dad[n] # n
<1>. USE Places
<1>1. n \in Node /\ HasDad(t, c, n) /\ HasSons(t, n)
  BY DEF InTree, WellLinked
<1>2. Branches(t, D, n) /\ Nested(t, D, n) /\ Between(t, D, lt, n)
  BY DEF Sorted
<1>3. n \in D[n] /\ D[n] \subseteq InTree(t)
  BY <1>2 DEF Branches, Nested
<1>4. n \notin D[t.lson[n]] /\ n \notin D[t.rson[n]]
  BY <1>1, <1>2 DEF Between, StrictOrder
<1>5. D[t.lson[n]] \intersect D[t.rson[n]] = {}
  <2>. SUFFICES ASSUME NEW m \in D[t.lson[n]], m \in D[t.rson[n]] PROVE FALSE
    OBVIOUS
  <2>1. <<m, n>> \in lt /\ <<n, m>> \in lt
    BY <1>2 DEF Between
  <2>2. m \in Node
    BY <1>2, <1>3 DEF Branches, InTree
  <2>3. QED
    BY <1>1, <2>1, <2>2 DEF StrictOrder
<1>6. ASSUME NEW m \in {t.lson[n], t.rson[n]}, m \in Node
      PROVE  m # n /\ t.dad[n] # m
  <2>1. m \in InTree(t) /\ t.dad[m] = n
    BY <1>1, <1>6 DEF HasSons, InTree
  <2>2. m \in D[m] /\ Nested(t, D, m) /\ Branches(t, D, m)
    BY <2>1 DEF Sorted, Branches
  <2>3. m # n
    BY <1>4, <1>6, <2>2
  <2>4. n \notin D[m]
    BY <1>4, <1>6
  <2>5. ASSUME t.dad[n] = m PROVE FALSE
    <3>1. n \in {t.lson[m], t.rson[m]}
      BY <1>1, <1>6, <2>5 DEF HasDad
    <3>2. n \in D[m]
      BY <1>3, <2>2, <3>1 DEF Branches
    <3>3. QED
      BY <2>4, <3>2
  <2>6. QED
    BY <2>3, <2>5
<1>7. t.dad[n] # n
  <2>. SUFFICES ASSUME t.dad[n] = n PROVE FALSE
    OBVIOUS
  <2>1. n \in {t.lson[n], t.rson[n]}
    BY <1>1 DEF HasDad
  <2>2. QED
    BY <1>3, <1>4, <2>1
<1>8. ASSUME NEW m \in {t.lson[n], t.rson[n]} PROVE m # n /\ t.dad[n] # m
  <2>1. CASE m = NIL
    BY <1>1, <2>1 DEF InTree
  <2>2. CASE m # NIL
    BY <1>1, <1>6, <2>2 DEF HasSons
  <2>3. QED
    BY <2>1, <2>2
<1>. QED
  BY <1>3, <1>4, <1>5, <1>7, <1>8

Without(D, n) == [k \in 0 .. N |-> D[k] \ {n}]

(* The tree without the node is sorted as it was.                           *)
LEMMA SpliceSorts ==
  ASSUME NEW t, NEW u, NEW n, NEW m, NEW c, NEW D, NEW lt,
         WellLinked(t, c), Spliced(t, u, n, m), Sorted(t, D, c, lt), StrictOrder(lt)
  PROVE  /\ WellLinked(u, c) /\ InTree(u) = InTree(t) \ {n}
         /\ Sorted(u, Without(D, n), c, lt)
<1>. DEFINE E == Without(D, n)
<1>. USE Places
<1>1. n \in Node /\ n \in InTree(t) /\ m \in {t.lson[n], t.rson[n]}
  BY DEF Spliced, InTree
<1>2. /\ n # m /\ t.dad[n] # n /\ t.dad[n] # m
      /\ n \in D[n] /\ n \notin D[t.lson[n]] /\ n \notin D[t.rson[n]]
  <2>1. /\ n \in D[n] /\ n \notin D[t.lson[n]] /\ n \notin D[t.rson[n]]
        /\ \A k \in {t.lson[n], t.rson[n]} : k # n /\ t.dad[n] # k
        /\ t.dad[n] # n
    BY ONLY <1>1, NoCycle, WellLinked(t, c), Sorted(t, D, c, lt), StrictOrder(lt), ZenonT(40)
  <2>2. QED
    BY <1>1, <2>1
<1>3. WellLinked(u, c) /\ InTree(u) = InTree(t) \ {n}
  BY <1>2, SpliceLinks
<1>4. /\ HasDad(t, c, n) /\ HasSons(t, n) /\ Branches(t, D, n)
      /\ D \in [0 .. N -> SUBSET Node] /\ D[NIL] = {}
  BY <1>1 DEF WellLinked, Sorted
<1>5. m \in 0 .. N /\ (m # NIL => m \in Node /\ t.dad[m] = n /\ m \in InTree(t))
  BY <1>1, <1>4 DEF HasSons, Spliced, InTree
<1>6. D[m] = D[n] \ {n}
  BY <1>1, <1>2, <1>4, <1>5 DEF Branches, Spliced
<1>7. /\ \A k \in 0 .. N : E[k] = D[k] \ {n}
      /\ E[m] = D[m] /\ E \in [0 .. N -> SUBSET Node] /\ E[NIL] = {}
  BY <1>1, <1>4, <1>5, <1>6 DEF Without
<1>. HIDE DEF E
<1>8. ASSUME NEW k \in InTree(u)
      PROVE  /\ k \in InTree(t) /\ k # n /\ k \in Node
             /\ Branches(t, D, k) /\ Nested(t, D, k) /\ Between(t, D, lt, k)
             /\ k \in D[t.rson[Root(c[k])]]
             /\ t.lson[k] \in 0 .. N /\ t.rson[k] \in 0 .. N
             /\ E[u.lson[k]] = D[t.lson[k]] \ {n} /\ E[u.rson[k]] = D[t.rson[k]] \ {n}
  <2>1. k \in InTree(t) /\ k # n /\ k \in Node
    BY <1>3 DEF InTree
  <2>2. /\ Branches(t, D, k) /\ Nested(t, D, k) /\ Between(t, D, lt, k)
        /\ k \in D[t.rson[Root(c[k])]]
    BY <2>1 DEF Sorted
  <2>3. t.lson[k] \in 0 .. N /\ t.rson[k] \in 0 .. N
    BY <2>1 DEF WellLinked, HasSons
  <2>4. E[u.lson[k]] = D[t.lson[k]] \ {n} /\ E[u.rson[k]] = D[t.rson[k]] \ {n}
    BY <1>5, <1>6, <1>7, <2>1, <2>3 DEF Spliced
  <2>5. QED
    BY <2>1, <2>2, <2>3, <2>4
<1>9. ASSUME NEW k \in InTree(u) PROVE Branches(u, E, k)
  BY <1>7, <1>8, SMTT(30) DEF Branches
<1>10. ASSUME NEW k \in InTree(u) PROVE Nested(u, E, k)
  <2>. SUFFICES ASSUME NEW j \in E[k]
                PROVE  /\ j \in InTree(u) /\ E[j] \subseteq E[k]
                       /\ j # k => u.dad[j] \in E[k]
    BY DEF Nested
  <2>1. j \in D[k] /\ j # n
    BY <1>7, <1>8
  <2>2. /\ j \in InTree(t) /\ D[j] \subseteq D[k] /\ j \in Node
        /\ j # k => t.dad[j] \in D[k]
    BY <1>8, <2>1 DEF Nested, InTree
  <2>0. E[j] = D[j] \ {n} /\ E[k] = D[k] \ {n}
    <3>1. j \in 0 .. N /\ k \in 0 .. N
      BY <1>8, <2>2
    <3>2. QED
      BY <1>7, <3>1
  <2>3. j \in InTree(u) /\ E[j] \subseteq E[k]
    BY <1>3, <2>0, <2>1, <2>2
  <2>4. ASSUME j # k PROVE u.dad[j] \in E[k]
    <3>1. CASE j # m
      <4>1. t.dad[j] # n
        BY <1>1, <2>1, <2>2, <3>1 DEF WellLinked, HasDad, Spliced, InTree
      <4>2. u.dad[j] = t.dad[j]
        BY <2>1, <2>2, <3>1 DEF Spliced
      <4>3. QED
        BY <2>0, <2>2, <2>4, <4>1, <4>2
    <3>2. CASE j = m
      <4>1. n \in D[k] /\ n # k
        BY <1>5, <1>8, <2>2, <2>4, <3>2
      <4>2. t.dad[n] \in D[k]
        BY <1>8, <4>1 DEF Nested
      <4>3. u.dad[j] = t.dad[n]
        BY <2>1, <2>2, <3>2 DEF Spliced
      <4>4. QED
        BY <1>2, <2>0, <4>2, <4>3
    <3>3. QED
      BY <3>1, <3>2
  <2>5. QED
    BY <2>3, <2>4
<1>11. ASSUME NEW k \in InTree(u) PROVE Between(u, E, lt, k)
  BY <1>8 DEF Between
<1>12. ASSUME NEW k \in InTree(u) PROVE k \in E[u.rson[Root(c[k])]]
  <2>1. c[k] \in Bytes
    BY <1>8 DEF WellLinked, HasDad
  <2>2. t.rson[Root(c[k])] \in 0 .. N
    BY <2>1 DEF WellLinked
  <2>3. E[u.rson[Root(c[k])]] = D[t.rson[Root(c[k])]] \ {n}
    BY <1>5, <1>6, <1>7, <2>1, <2>2 DEF Spliced
  <2>4. QED
    BY <1>8, <2>3
<1>. QED
  BY <1>3, <1>7, <1>9, <1>10, <1>11, <1>12 DEF Sorted, E

(* A node from elsewhere takes the place of one in the tree.                *)
Substituted(t, u, old, new) ==
  /\ old \in InTree(t) /\ new \in Node /\ new \notin InTree(t)
  /\ \A k \in Node : u.dad[k] = IF k = old THEN NIL
                                ELSE IF k = new THEN t.dad[old]
                                ELSE IF t.dad[k] = old THEN new ELSE t.dad[k]
  /\ u.lson[new] = t.lson[old] /\ u.rson[new] = t.rson[old]
  /\ \A k \in InTree(t) \ {old} :
       /\ u.lson[k] = IF t.lson[k] = old THEN new ELSE t.lson[k]
       /\ u.rson[k] = IF t.rson[k] = old THEN new ELSE t.rson[k]
  /\ \A b \in Bytes :
       u.rson[Root(b)] = IF t.rson[Root(b)] = old THEN new ELSE t.rson[Root(b)]

(* Its string lies where that of the other did.                             *)
Fits(t, D, c, lt, old, new) ==
  /\ c[new] = c[old]
  /\ \A m \in D[t.lson[old]] : <<m, new>> \in lt
  /\ \A m \in D[t.rson[old]] : <<new, m>> \in lt
  /\ \A k \in InTree(t) : /\ old \in D[t.lson[k]] => <<new, k>> \in lt
                          /\ old \in D[t.rson[k]] => <<k, new>> \in lt

Swap(S, old, new) == IF old \in S THEN (S \ {old}) \union {new} ELSE S

Swapped(D, old, new) ==
  [k \in 0 .. N |-> IF k = new THEN Swap(D[old], old, new) ELSE Swap(D[k], old, new)]

(* The tree is linked as well as before.                                    *)
LEMMA SubstituteLinks ==
  ASSUME NEW t, NEW u, NEW old, NEW new, NEW c,
         WellLinked(t, c), Substituted(t, u, old, new), c[new] = c[old],
         t.dad[old] # old, t.lson[old] # old, t.rson[old] # old
  PROVE  WellLinked(u, c) /\ InTree(u) = (InTree(t) \ {old}) \union {new}
<1>. USE Places
<1>1. /\ old \in Node /\ t.dad[old] # NIL /\ old \in InTree(t) /\ new \in Node
      /\ t.dad[new] = NIL /\ new # old /\ new \notin InTree(t)
  BY DEF Substituted, InTree
<1>2. HasDad(t, c, old) /\ HasSons(t, old)
  BY <1>1 DEF WellLinked
<1>3. InTree(u) = (InTree(t) \ {old}) \union {new}
  BY <1>1 DEF Substituted, InTree
<1>4. ASSUME NEW k \in InTree(t), k # old
      PROVE  /\ k \in Node /\ k # new /\ HasDad(t, c, k) /\ HasSons(t, k)
             /\ u.dad[k] = IF t.dad[k] = old THEN new ELSE t.dad[k]
             /\ u.lson[k] = IF t.lson[k] = old THEN new ELSE t.lson[k]
             /\ u.rson[k] = IF t.rson[k] = old THEN new ELSE t.rson[k]
  <2>1. k \in Node /\ k # new
    BY <1>1, <1>4 DEF InTree
  <2>2. QED
    BY <1>4, <2>1 DEF Substituted, WellLinked
<1>5. /\ u.dad[new] = t.dad[old] /\ u.lson[new] = t.lson[old]
      /\ u.rson[new] = t.rson[old]
  BY <1>1 DEF Substituted
<1>6. \A k \in Node : k \in InTree(t) <=> t.dad[k] # NIL
  BY DEF InTree
<1>7. ASSUME NEW k \in InTree(u) PROVE HasSons(u, k)
  <2>1. CASE k = new
    <3>1. ASSUME NEW j \in {t.lson[old], t.rson[old]}, j # NIL
          PROVE  j \in Node /\ u.dad[j] = new
      <4>1. j \in Node /\ t.dad[j] = old /\ j # old
        BY <1>2, <3>1 DEF HasSons
      <4>2. j \in InTree(t)
        BY <1>1, <1>6, <4>1
      <4>3. QED
        BY <1>4, <4>1, <4>2
    <3>2. QED
      BY <1>2, <1>5, <2>1, <3>1 DEF HasSons
  <2>2. CASE k # new
    <3>1. k \in InTree(t) /\ k # old /\ HasSons(t, k)
      BY <1>3, <1>4, <2>2
    <3>2. ASSUME NEW j \in {t.lson[k], t.rson[k]}, j # NIL, j # old
          PROVE  j \in Node /\ u.dad[j] = k /\ j # new
      <4>1. j \in Node /\ t.dad[j] = k
        BY <3>1, <3>2 DEF HasSons
      <4>2. j \in InTree(t)
        BY <1>4, <1>6, <3>1, <4>1
      <4>3. QED
        BY <1>4, <3>1, <3>2, <4>1, <4>2
    <3>3. t.lson[k] = old \/ t.rson[k] = old => t.dad[old] = k
      BY <1>1, <3>1 DEF HasSons
    <3>4. /\ u.lson[k] = IF t.lson[k] = old THEN new ELSE t.lson[k]
          /\ u.rson[k] = IF t.rson[k] = old THEN new ELSE t.rson[k]
      BY <1>4, <3>1
    <3>5. u.lson[k] # NIL => u.lson[k] \in Node /\ u.dad[u.lson[k]] = k
      BY <1>1, <1>5, <3>2, <3>3, <3>4
    <3>6. u.rson[k] # NIL => u.rson[k] \in Node /\ u.dad[u.rson[k]] = k
      BY <1>1, <1>5, <3>2, <3>3, <3>4
    <3>7. u.lson[k] = u.rson[k] => u.lson[k] = NIL
      <4>1. t.lson[k] = t.rson[k] => t.lson[k] = NIL
        BY <3>1 DEF HasSons
      <4>2. new # NIL /\ old # NIL
        BY <1>1
      <4>3. t.lson[k] # new /\ t.rson[k] # new
        BY <1>1, <3>2, <4>2
      <4>4. QED
        BY <3>4, <4>1, <4>2, <4>3
    <3>8. QED
      BY <3>5, <3>6, <3>7 DEF HasSons
  <2>3. QED
    BY <2>1, <2>2
<1>8. \A b \in Bytes : Root(b) # old /\ Root(b) # new
  BY <1>1
<1>9. \A b \in Bytes : u.rson[Root(b)]
                         = IF t.rson[Root(b)] = old THEN new ELSE t.rson[Root(b)]
  BY DEF Substituted
<1>10. ASSUME NEW k \in InTree(u) PROVE HasDad(u, c, k)
  <2>1. CASE k = new
    <3>1. CASE t.dad[old] \in InTree(t)
      <4>. DEFINE d == t.dad[old]
      <4>1. /\ c[old] \in Bytes /\ c[d] = c[old] /\ d \in InTree(t) /\ d # old
            /\ old \in {t.lson[d], t.rson[d]}
        <5>1. d \in Node /\ \A b \in Bytes : Root(b) # d
          BY <3>1 DEF InTree
        <5>2. QED
          BY <1>2, <5>1 DEF HasDad
      <4>2. d \in InTree(u) /\ new \in {u.lson[d], u.rson[d]}
        BY <1>3, <1>4, <4>1
      <4>3. u.dad[k] = d /\ c[k] = c[old]
        BY <1>5, <2>1
      <4>4. QED
        BY <2>1, <4>1, <4>2, <4>3 DEF HasDad
    <3>2. CASE t.dad[old] \notin InTree(t)
      BY <1>1, <1>2, <1>3, <1>5, <1>9, <2>1, <3>2 DEF HasDad
    <3>3. QED
      BY <3>1, <3>2
  <2>2. CASE k # new
    <3>1. k \in InTree(t) /\ k # old /\ HasDad(t, c, k)
      BY <1>3, <1>4, <2>2
    <3>2. CASE t.dad[k] = old
      <4>1. c[k] \in Bytes /\ c[old] = c[k] /\ k \in {t.lson[old], t.rson[old]}
        BY <1>8, <3>1, <3>2 DEF HasDad
      <4>2. u.dad[k] = new /\ new \in InTree(u)
        BY <1>3, <1>4, <3>1, <3>2
      <4>3. QED
        BY <1>5, <4>1, <4>2 DEF HasDad
    <3>3. CASE t.dad[k] # old /\ t.dad[k] \in InTree(t)
      <4>. DEFINE d == t.dad[k]
      <4>1. d \in Node /\ \A b \in Bytes : Root(b) # d
        BY <3>3 DEF InTree
      <4>2. c[k] \in Bytes /\ c[d] = c[k] /\ k \in {t.lson[d], t.rson[d]}
        BY <3>1, <4>1 DEF HasDad
      <4>3. u.dad[k] = d /\ d \in InTree(u)
        BY <1>3, <1>4, <3>1, <3>3
      <4>4. k \in {u.lson[d], u.rson[d]}
        BY <1>4, <3>1, <3>3, <4>2
      <4>5. QED
        BY <4>2, <4>3, <4>4 DEF HasDad
    <3>4. CASE t.dad[k] # old /\ t.dad[k] \notin InTree(t)
      BY <1>1, <1>4, <1>9, <3>1, <3>4 DEF HasDad
    <3>5. QED
      BY <3>2, <3>3, <3>4
  <2>3. QED
    BY <2>1, <2>2
<1>11. ASSUME NEW b \in Bytes, u.rson[Root(b)] # NIL
      PROVE  u.rson[Root(b)] \in Node /\ u.dad[u.rson[Root(b)]] = Root(b)
  <2>1. CASE t.rson[Root(b)] = old
    BY <1>1, <1>5, <1>9, <2>1 DEF WellLinked
  <2>2. CASE t.rson[Root(b)] # old
    <3>1. t.rson[Root(b)] \in Node /\ t.dad[t.rson[Root(b)]] = Root(b)
      BY <1>9, <1>11, <2>2 DEF WellLinked
    <3>2. QED
      BY <1>4, <1>6, <1>8, <1>9, <2>2, <3>1
  <2>3. QED
    BY <2>1, <2>2
<1>. QED
  BY <1>3, <1>7, <1>10, <1>11 DEF WellLinked

(* The tree is sorted as well as before.                                    *)
LEMMA SubstituteSorts ==
  ASSUME NEW t, NEW u, NEW old, NEW new, NEW c, NEW D, NEW lt,
         WellLinked(t, c), Substituted(t, u, old, new), Sorted(t, D, c, lt),
         StrictOrder(lt), Fits(t, D, c, lt, old, new)
  PROVE  /\ WellLinked(u, c) /\ InTree(u) = (InTree(t) \ {old}) \union {new}
         /\ Sorted(u, Swapped(D, old, new), c, lt)
<1>. DEFINE E == Swapped(D, old, new)
<1>. USE Places
<1>1. /\ old \in Node /\ old \in InTree(t) /\ new \in Node /\ t.dad[new] = NIL
      /\ new # old /\ new \notin InTree(t) /\ c[new] = c[old]
  BY DEF Substituted, InTree, Fits
<1>2. /\ t.dad[old] # old /\ t.lson[old] # old /\ t.rson[old] # old
      /\ old \in D[old] /\ old \notin D[t.lson[old]] /\ old \notin D[t.rson[old]]
  <2>1. /\ \A k \in {t.lson[old], t.rson[old]} : k # old /\ t.dad[old] # k
        /\ old \in D[old] /\ old \notin D[t.lson[old]] /\ old \notin D[t.rson[old]]
        /\ t.dad[old] # old
    BY ONLY <1>1, NoCycle, WellLinked(t, c), Sorted(t, D, c, lt), StrictOrder(lt)
  <2>2. QED
    BY <2>1
<1>3. WellLinked(u, c) /\ InTree(u) = (InTree(t) \ {old}) \union {new}
  BY <1>1, <1>2, SubstituteLinks
<1>4. /\ HasDad(t, c, old) /\ HasSons(t, old) /\ Branches(t, D, old)
      /\ D \in [0 .. N -> SUBSET Node] /\ D[NIL] = {}
  BY <1>1 DEF WellLinked, Sorted
<1>5. /\ \A k \in 0 .. N : k # new => E[k] = Swap(D[k], old, new)
      /\ E[new] = Swap(D[old], old, new) /\ E[NIL] = {}
      /\ E \in [0 .. N -> SUBSET Node]
  BY <1>1, <1>4 DEF Swapped, Swap
<1>. HIDE DEF E
<1>6. ASSUME NEW k \in InTree(t)
      PROVE  /\ k \in Node /\ k # new /\ HasDad(t, c, k) /\ HasSons(t, k)
             /\ Branches(t, D, k) /\ Nested(t, D, k) /\ Between(t, D, lt, k)
             /\ k \in D[t.rson[Root(c[k])]] /\ c[k] \in Bytes
             /\ new \notin D[k] /\ k \in D[k]
  <2>1. k \in Node /\ k # new /\ HasDad(t, c, k) /\ HasSons(t, k)
    BY <1>1 DEF InTree, WellLinked
  <2>2. /\ Branches(t, D, k) /\ Nested(t, D, k) /\ Between(t, D, lt, k)
        /\ k \in D[t.rson[Root(c[k])]]
    BY DEF Sorted
  <2>3. new \notin D[k] /\ k \in D[k]
    BY <1>1, <2>2 DEF Nested, Branches
  <2>4. QED
    BY <2>1, <2>2, <2>3 DEF HasDad
<1>7. ASSUME NEW j, j = NIL \/ j \in InTree(t)
      PROVE  E[IF j = old THEN new ELSE j] = Swap(D[j], old, new)
  <2>1. j # new /\ j \in 0 .. N
    BY <1>1, <1>6, <1>7
  <2>2. QED
    BY <1>5, <2>1
<1>8. ASSUME NEW k \in InTree(t)
      PROVE  /\ t.lson[k] = NIL \/ t.lson[k] \in InTree(t)
             /\ t.rson[k] = NIL \/ t.rson[k] \in InTree(t)
  BY <1>6 DEF HasSons, InTree
<1>9. ASSUME NEW k \in InTree(u)
      PROVE  \E j \in InTree(t) :
               /\ k = IF j = old THEN new ELSE j
               /\ E[k] = Swap(D[j], old, new)
               /\ E[u.lson[k]] = Swap(D[t.lson[j]], old, new)
               /\ E[u.rson[k]] = Swap(D[t.rson[j]], old, new)
               /\ c[k] = c[j]
  <2>. DEFINE j == IF k = new THEN old ELSE k
  <2>1. j \in InTree(t) /\ k = IF j = old THEN new ELSE j
    BY <1>1, <1>3
  <2>2. /\ u.lson[k] = IF t.lson[j] = old THEN new ELSE t.lson[j]
        /\ u.rson[k] = IF t.rson[j] = old THEN new ELSE t.rson[j]
    <3>1. CASE k = new
      BY <1>1, <1>2, <3>1 DEF Substituted
    <3>2. CASE k # new
      BY <1>3, <3>2 DEF Substituted
    <3>3. QED
      BY <3>1, <3>2
  <2>3. c[k] = c[j]
    BY <1>1
  <2>4. /\ E[k] = Swap(D[j], old, new)
        /\ E[IF t.lson[j] = old THEN new ELSE t.lson[j]] = Swap(D[t.lson[j]], old, new)
        /\ E[IF t.rson[j] = old THEN new ELSE t.rson[j]] = Swap(D[t.rson[j]], old, new)
    BY <1>7, <1>8, <2>1
  <2>. HIDE DEF j
  <2>5. QED
    BY <2>1, <2>2, <2>3, <2>4
<1>10. ASSUME NEW k \in InTree(u)
       PROVE  Branches(u, E, k) /\ Nested(u, E, k) /\ Between(u, E, lt, k)
              /\ k \in E[u.rson[Root(c[k])]]
  <2>1. PICK j \in InTree(t) : /\ k = IF j = old THEN new ELSE j
                               /\ E[k] = Swap(D[j], old, new)
                               /\ E[u.lson[k]] = Swap(D[t.lson[j]], old, new)
                               /\ E[u.rson[k]] = Swap(D[t.rson[j]], old, new)
                               /\ c[k] = c[j]
    BY <1>9
  <2>2. /\ j \in Node /\ j # new
        /\ Branches(t, D, j) /\ Nested(t, D, j) /\ Between(t, D, lt, j)
        /\ j \in D[t.rson[Root(c[j])]] /\ c[j] \in Bytes
        /\ new \notin D[j] /\ j \in D[j]
    BY <1>6
  <2>3. Branches(u, E, k)
    BY <1>1, <1>2, <2>1, <2>2 DEF Branches, Swap
  <2>4. Between(u, E, lt, k)
    <3>1. CASE j = old
      BY <1>1, <1>2, <2>1, <3>1 DEF Between, Swap, Fits
    <3>2. CASE j # old
      BY <1>1, <2>1, <2>2, <3>2 DEF Between, Swap, Fits
    <3>3. QED
      BY <3>1, <3>2
  <2>5. k \in E[u.rson[Root(c[k])]]
    <3>. DEFINE b == c[j]
    <3>1. t.rson[Root(b)] = NIL \/ t.rson[Root(b)] \in InTree(t)
      BY <2>2 DEF WellLinked, InTree
    <3>2. u.rson[Root(b)] = IF t.rson[Root(b)] = old THEN new ELSE t.rson[Root(b)]
      BY <2>2 DEF Substituted
    <3>3. E[u.rson[Root(b)]] = Swap(D[t.rson[Root(b)]], old, new)
      BY <1>7, <3>1, <3>2
    <3>4. QED
      BY <2>1, <2>2, <3>3 DEF Swap
  <2>6. Nested(u, E, k)
    <3>. SUFFICES ASSUME NEW m \in E[k]
                  PROVE  /\ m \in InTree(u) /\ E[m] \subseteq E[k]
                         /\ m # k => u.dad[m] \in E[k]
      BY DEF Nested
    <3>1. PICK i \in D[j] : m = IF i = old THEN new ELSE i
      BY <1>1, <2>1, <2>2 DEF Swap
    <3>2. /\ i \in InTree(t) /\ D[i] \subseteq D[j] /\ (i # j => t.dad[i] \in D[j])
          /\ i # new /\ i \in Node
      BY <1>6, <2>2 DEF Nested
    <3>3. m \in InTree(u)
      BY <1>3, <3>1, <3>2
    <3>4. E[m] = Swap(D[i], old, new)
      BY <1>7, <3>1, <3>2
    <3>5. E[m] \subseteq E[k]
      BY <2>1, <3>2, <3>4 DEF Swap
    <3>6. ASSUME m # k PROVE u.dad[m] \in E[k]
      <4>1. i # j /\ t.dad[i] \in D[j]
        BY <2>1, <3>1, <3>2, <3>6
      <4>2. t.dad[i] # new /\ t.dad[i] # NIL /\ t.dad[i] \in Node
        BY <1>6, <2>2, <4>1, ZenonT(40) DEF Nested
      <4>3. u.dad[m] = IF t.dad[i] = old THEN new ELSE t.dad[i]
        BY <1>1, <1>2, <3>1, <3>2 DEF Substituted
      <4>4. QED
        BY <2>1, <4>1, <4>3 DEF Swap
    <3>7. QED
      BY <3>3, <3>5, <3>6
  <2>7. QED
    BY <2>3, <2>4, <2>5, <2>6
<1>. QED
  BY <1>3, <1>5, <1>10 DEF Sorted, E

(* A node without sons is put under d, on a side where there is none.       *)
Grafted(t, u, c, d, a, left) ==
  /\ a \in Node /\ a \notin InTree(t) /\ c[a] \in Bytes
  /\ (d = Root(c[a]) /\ ~left) \/ (d \in InTree(t) /\ c[d] = c[a])
  /\ t.lson[a] = NIL /\ t.rson[a] = NIL
  /\ IF left THEN t.lson[d] = NIL ELSE t.rson[d] = NIL
  /\ \A k \in Node : u.dad[k] = IF k = a THEN d ELSE t.dad[k]
  /\ \A k \in InTree(t) \union {a} :
       /\ u.lson[k] = IF left /\ k = d THEN a ELSE t.lson[k]
       /\ u.rson[k] = IF ~left /\ k = d THEN a ELSE t.rson[k]
  /\ \A b \in Bytes :
       u.rson[Root(b)] = IF ~left /\ Root(b) = d THEN a ELSE t.rson[Root(b)]

(* Its string lies between those above it.                                  *)
Belongs(t, D, lt, d, a) ==
  \A k \in InTree(t) : /\ d \in D[t.lson[k]] => <<a, k>> \in lt
                       /\ d \in D[t.rson[k]] => <<k, a>> \in lt

Grown(D, d, a) ==
  [k \in 0 .. N |-> IF k = a THEN {a}
                    ELSE IF d \in D[k] THEN D[k] \union {a} ELSE D[k]]

(* The tree with it is linked and sorted as well as before. *)
LEMMA GraftSorts ==
  ASSUME NEW t, NEW u, NEW d, NEW a, NEW left \in BOOLEAN, NEW c, NEW D, NEW lt,
         WellLinked(t, c), Grafted(t, u, c, d, a, left), Sorted(t, D, c, lt),
         StrictOrder(lt), Belongs(t, D, lt, d, a),
         d \in InTree(t) => IF left THEN <<a, d>> \in lt ELSE <<d, a>> \in lt
  PROVE  /\ WellLinked(u, c) /\ InTree(u) = InTree(t) \union {a}
         /\ Sorted(u, Grown(D, d, a), c, lt)
<1>. DEFINE E == Grown(D, d, a)
<1>. USE Places
<1>1. /\ a \in Node /\ a \notin InTree(t) /\ c[a] \in Bytes /\ t.dad[a] = NIL
      /\ a # NIL /\ a # d /\ d # NIL
      /\ \A b \in Bytes : Root(b) # a /\ (Root(b) = d => b = c[a])
      /\ d \in Roots => d = Root(c[a]) /\ d \notin InTree(t) /\ d \notin Node /\ ~left
      /\ d \notin Roots => d \in InTree(t) /\ c[d] = c[a]
  BY DEF Grafted, InTree, Roots
<1>2. /\ u.dad[a] = d /\ u.lson[a] = NIL /\ u.rson[a] = NIL
      /\ \A b \in Bytes :
           u.rson[Root(b)] = IF ~left /\ Root(b) = d THEN a ELSE t.rson[Root(b)]
      /\ IF left THEN t.lson[d] = NIL ELSE t.rson[d] = NIL
  BY <1>1 DEF Grafted
<1>3. InTree(u) = InTree(t) \union {a}
  BY <1>1 DEF Grafted, InTree
<1>4. D \in [0 .. N -> SUBSET Node] /\ D[NIL] = {}
  BY DEF Sorted
<1>5. /\ \A k \in 0 .. N : k # a => E[k] = IF d \in D[k] THEN D[k] \union {a} ELSE D[k]
      /\ E[a] = {a} /\ E[NIL] = {} /\ E \in [0 .. N -> SUBSET Node]
  BY <1>1, <1>4 DEF Grown
<1>. HIDE DEF E
<1>6. ASSUME NEW k \in InTree(t)
      PROVE  /\ k \in Node /\ k # a /\ HasDad(t, c, k) /\ HasSons(t, k)
             /\ Branches(t, D, k) /\ Nested(t, D, k) /\ Between(t, D, lt, k)
             /\ k \in D[t.rson[Root(c[k])]] /\ c[k] \in Bytes
             /\ k \in D[k] /\ a \notin D[k] /\ k # NIL
             /\ k \notin D[t.lson[k]] /\ k \notin D[t.rson[k]]
             /\ u.dad[k] = t.dad[k]
             /\ u.lson[k] = IF left /\ k = d THEN a ELSE t.lson[k]
             /\ u.rson[k] = IF ~left /\ k = d THEN a ELSE t.rson[k]
             /\ t.lson[k] = NIL \/ t.lson[k] \in InTree(t)
             /\ t.rson[k] = NIL \/ t.rson[k] \in InTree(t)
  <2>1. k \in Node /\ k # a /\ HasDad(t, c, k) /\ HasSons(t, k) /\ k # NIL
    BY <1>1 DEF InTree, WellLinked
  <2>2. /\ Branches(t, D, k) /\ Nested(t, D, k) /\ Between(t, D, lt, k)
        /\ k \in D[t.rson[Root(c[k])]]
    BY DEF Sorted
  <2>3. a \notin D[k]
    BY <1>1, <2>2 DEF Nested
  <2>4. /\ u.dad[k] = t.dad[k]
        /\ u.lson[k] = IF left /\ k = d THEN a ELSE t.lson[k]
        /\ u.rson[k] = IF ~left /\ k = d THEN a ELSE t.rson[k]
    BY <2>1 DEF Grafted
  <2>5. k \in D[k] /\ k \notin D[t.lson[k]] /\ k \notin D[t.rson[k]]
    BY ONLY NoCycle, k \in InTree(t), WellLinked(t, c), Sorted(t, D, c, lt),
            StrictOrder(lt)
  <2>6. c[k] \in Bytes
    BY <2>1 DEF HasDad
  <2>7. /\ t.lson[k] = NIL \/ t.lson[k] \in InTree(t)
        /\ t.rson[k] = NIL \/ t.rson[k] \in InTree(t)
    BY <2>1 DEF HasSons, InTree
  <2>8. QED
    BY <2>1, <2>2, <2>3, <2>4, <2>5, <2>6, <2>7
<1>7. ASSUME NEW k \in InTree(u) PROVE HasSons(u, k)
  <2>1. CASE k = a
    BY <1>2, <2>1 DEF HasSons
  <2>2. CASE k # a
    <3>1. k \in InTree(t)
      BY <1>3, <2>2
    <3>2. ASSUME NEW j \in {t.lson[k], t.rson[k]}, j # NIL
          PROVE  j \in Node /\ u.dad[j] = k /\ j # a
      <4>1. j \in InTree(t) /\ j \in Node /\ t.dad[j] = k
        BY <1>6, <3>1, <3>2 DEF HasSons
      <4>2. QED
        BY <1>6, <4>1
    <3>3. t.lson[k] = t.rson[k] => t.lson[k] = NIL
      BY <1>6, <3>1 DEF HasSons
    <3>4. u.lson[k] = t.lson[k] \/ (left /\ u.lson[k] = a /\ k = d)
      BY <1>6, <3>1
    <3>5. u.rson[k] = t.rson[k] \/ (~left /\ u.rson[k] = a /\ k = d)
      BY <1>6, <3>1
    <3>6. QED
      BY <1>1, <1>2, <3>2, <3>3, <3>4, <3>5 DEF HasSons
  <2>3. QED
    BY <2>1, <2>2
<1>8. ASSUME NEW k \in InTree(u) PROVE HasDad(u, c, k)
  <2>1. CASE k = a
    <3>1. CASE d \in Roots
      BY <1>1, <1>2, <2>1, <3>1 DEF HasDad
    <3>2. CASE d \notin Roots
      <4>1. d \in InTree(t) /\ c[d] = c[a] /\ a \in {u.lson[d], u.rson[d]}
        BY <1>1, <1>6, <3>2
      <4>2. QED
        BY <1>1, <1>2, <1>3, <2>1, <4>1 DEF HasDad
    <3>3. QED
      BY <3>1, <3>2
  <2>2. CASE k # a
    <3>1. k \in InTree(t) /\ HasDad(t, c, k) /\ u.dad[k] = t.dad[k]
      BY <1>3, <1>6, <2>2
    <3>2. CASE t.dad[k] \in InTree(t)
      <4>. DEFINE e == t.dad[k]
      <4>1. e \in Node /\ e \in InTree(u)
        BY <1>3, <1>6, <3>2
      <4>2. c[e] = c[k] /\ k \in {t.lson[e], t.rson[e]} /\ c[k] \in Bytes
        BY <3>1, <4>1 DEF HasDad
      <4>3. k # NIL /\ k \in {u.lson[e], u.rson[e]}
        BY <1>2, <1>6, <3>1, <3>2, <4>2
      <4>4. QED
        BY <3>1, <4>1, <4>2, <4>3 DEF HasDad
    <3>3. CASE t.dad[k] \notin InTree(t)
      <4>1. c[k] \in Bytes /\ t.dad[k] = Root(c[k]) /\ t.rson[Root(c[k])] = k
        BY <3>1, <3>3 DEF HasDad
      <4>2. k # NIL
        BY <1>6, <3>1
      <4>3. QED
        BY <1>2, <3>1, <4>1, <4>2 DEF HasDad
    <3>4. QED
      BY <3>2, <3>3
  <2>3. QED
    BY <2>1, <2>2
<1>9. WellLinked(u, c)
  <2>1. ASSUME NEW b \in Bytes, u.rson[Root(b)] # NIL
        PROVE  u.rson[Root(b)] \in Node /\ u.dad[u.rson[Root(b)]] = Root(b)
    <3>1. CASE ~left /\ Root(b) = d
      BY <1>1, <1>2, <3>1
    <3>2. CASE ~(~left /\ Root(b) = d)
      <4>. DEFINE e == t.rson[Root(b)]
      <4>1. e = u.rson[Root(b)] /\ e \in Node /\ t.dad[e] = Root(b)
        BY <1>2, <2>1, <3>2 DEF WellLinked
      <4>2. e \in InTree(t)
        BY <4>1 DEF InTree
      <4>3. QED
        BY <1>6, <4>1, <4>2
    <3>3. QED
      BY <3>1, <3>2
  <2>2. QED
    BY <1>7, <1>8, <2>1 DEF WellLinked
<1>10. ASSUME NEW j, j = NIL \/ j \in InTree(t)
       PROVE  E[j] = IF d \in D[j] THEN D[j] \union {a} ELSE D[j]
  BY <1>1, <1>5, <1>6, <1>10
<1>11. ASSUME NEW k \in InTree(t)
       PROVE  /\ E[u.lson[k]] = IF (left /\ k = d) \/ d \in D[t.lson[k]]
                                THEN D[t.lson[k]] \union {a} ELSE D[t.lson[k]]
              /\ E[u.rson[k]] = IF (~left /\ k = d) \/ d \in D[t.rson[k]]
                                THEN D[t.rson[k]] \union {a} ELSE D[t.rson[k]]
  <2>1. CASE left /\ k = d
    BY <1>2, <1>4, <1>5, <1>6, <1>10, <2>1
  <2>2. CASE ~left /\ k = d
    BY <1>2, <1>4, <1>5, <1>6, <1>10, <2>2
  <2>3. CASE k # d
    <3>1. u.lson[k] = t.lson[k] /\ u.rson[k] = t.rson[k]
      BY <1>6, <2>3
    <3>2. /\ t.lson[k] = NIL \/ t.lson[k] \in InTree(t)
          /\ t.rson[k] = NIL \/ t.rson[k] \in InTree(t)
      BY <1>6
    <3>3. /\ E[t.lson[k]] = IF d \in D[t.lson[k]] THEN D[t.lson[k]] \union {a}
                            ELSE D[t.lson[k]]
          /\ E[t.rson[k]] = IF d \in D[t.rson[k]] THEN D[t.rson[k]] \union {a}
                            ELSE D[t.rson[k]]
      BY <1>10, <3>2
    <3>4. QED
      BY <2>3, <3>1, <3>3
  <2>4. QED
    BY <2>1, <2>2, <2>3
<1>12. ASSUME NEW k \in InTree(u)
       PROVE  Branches(u, E, k) /\ Between(u, E, lt, k)
  <2>1. CASE k = a
    BY <1>2, <1>5, <2>1 DEF Branches, Between
  <2>2. CASE k # a
    <3>1. k \in InTree(t)
      BY <1>3, <2>2
    <3>2. /\ D[k] = {k} \union D[t.lson[k]] \union D[t.rson[k]] /\ k \in D[k]
          /\ E[k] = IF d \in D[k] THEN D[k] \union {a} ELSE D[k]
      BY <1>6, <1>10, <3>1 DEF Branches
    <3>3. Branches(u, E, k)
      BY <1>11, <3>1, <3>2 DEF Branches
    <3>4. Between(u, E, lt, k)
      <4>1. k = d => IF left THEN <<a, k>> \in lt ELSE <<k, a>> \in lt
        BY <3>1
      <4>2. d \in D[t.lson[k]] => <<a, k>> \in lt
        BY <3>1 DEF Belongs
      <4>3. d \in D[t.rson[k]] => <<k, a>> \in lt
        BY <3>1 DEF Belongs
      <4>4. Between(t, D, lt, k)
        BY <1>6, <3>1
      <4>5. ASSUME NEW m \in E[u.lson[k]] PROVE <<m, k>> \in lt
        <5>1. E[u.lson[k]] = IF (left /\ k = d) \/ d \in D[t.lson[k]]
                           THEN D[t.lson[k]] \union {a} ELSE D[t.lson[k]]
          BY ONLY <1>11, <3>1
        <5>2. m \in D[t.lson[k]] \/ (m = a /\ ((left /\ k = d) \/ d \in D[t.lson[k]]))
          BY ONLY <4>5, <5>1
        <5>3. QED
          BY <4>1, <4>2, <4>4, <5>2 DEF Between
      <4>6. ASSUME NEW m \in E[u.rson[k]] PROVE <<k, m>> \in lt
        <5>1. E[u.rson[k]] = IF (~left /\ k = d) \/ d \in D[t.rson[k]]
                           THEN D[t.rson[k]] \union {a} ELSE D[t.rson[k]]
          BY ONLY <1>11, <3>1
        <5>2. m \in D[t.rson[k]] \/ (m = a /\ ((~left /\ k = d) \/ d \in D[t.rson[k]]))
          BY ONLY <4>6, <5>1
        <5>3. QED
          BY <4>1, <4>3, <4>4, <5>2 DEF Between
      <4>7. QED
        BY <4>5, <4>6 DEF Between
    <3>5. QED
      BY <3>3, <3>4
  <2>3. QED
    BY <2>1, <2>2
<1>13. ASSUME NEW k \in InTree(u) PROVE Nested(u, E, k)
  <2>1. CASE k = a
    BY <1>3, <1>5, <2>1 DEF Nested
  <2>2. CASE k # a
    <3>1. k \in InTree(t) /\ E[k] = IF d \in D[k] THEN D[k] \union {a} ELSE D[k]
      BY <1>3, <1>10, <2>2
    <3>2. Nested(t, D, k)
      BY <1>6, <3>1
    <3>3. ASSUME NEW m \in E[k]
          PROVE  /\ m \in InTree(u) /\ E[m] \subseteq E[k]
                 /\ m # k => u.dad[m] \in E[k]
      <4>1. CASE m = a
        <5>1. d \in D[k]
          BY <1>6, <3>1, <3>3, <4>1
        <5>2. QED
          BY <1>2, <1>3, <1>5, <3>1, <4>1, <5>1
      <4>2. CASE m # a
        <5>1. m \in D[k]
          BY <3>1, <3>3, <4>2
        <5>2. m \in InTree(t) /\ D[m] \subseteq D[k] /\ (m # k => t.dad[m] \in D[k])
          BY <3>2, <5>1 DEF Nested
        <5>3. E[m] = IF d \in D[m] THEN D[m] \union {a} ELSE D[m]
          BY <1>10, <5>2
        <5>4. u.dad[m] = t.dad[m]
          BY <1>6, <5>2
        <5>5. QED
          BY <1>3, <3>1, <5>2, <5>3, <5>4
      <4>3. QED
        BY <4>1, <4>2
    <3>4. QED
      BY <3>3 DEF Nested
  <2>3. QED
    BY <2>1, <2>2
<1>14. ASSUME NEW k \in InTree(u) PROVE k \in E[u.rson[Root(c[k])]]
  <2>1. c[k] \in Bytes
    BY <1>1, <1>3, <1>6
  <2>. DEFINE e == t.rson[Root(c[k])]
  <2>2. e = NIL \/ e \in InTree(t)
    BY <2>1 DEF WellLinked, InTree
  <2>3. E[e] = IF d \in D[e] THEN D[e] \union {a} ELSE D[e]
    BY <1>10, <2>2
  <2>4. CASE ~left /\ Root(c[k]) = d
    <3>1. e = NIL
      BY <1>2, <2>4
    <3>2. k = a
      BY <1>3, <1>4, <1>6, <3>1
    <3>3. QED
      BY <1>2, <1>5, <2>1, <2>4, <3>2
  <2>5. CASE ~(~left /\ Root(c[k]) = d)
    <3>1. u.rson[Root(c[k])] = e
      BY <1>2, <2>1, <2>5
    <3>2. CASE k # a
      BY <1>3, <1>6, <2>3, <3>1, <3>2
    <3>3. CASE k = a
      <4>1. d \notin Roots
        BY <1>1, <2>5, <3>3
      <4>2. d \in InTree(t) /\ c[d] = c[k]
        BY <1>1, <3>3, <4>1
      <4>3. d \in D[e]
        BY <1>6, <4>2
      <4>4. QED
        BY <2>3, <3>1, <3>3, <4>3
    <3>4. QED
      BY <3>2, <3>3
  <2>6. QED
    BY <2>4, <2>5
<1>. QED
  BY <1>3, <1>5, <1>9, <1>12, <1>13, <1>14 DEF Sorted, E

-----------------------------------------------------------------------------
(* What the compressor does to its trees. *)

(* Where a node hangs in the arrays.                                        *)
LEMMA DadPlace ==
  ASSUME NEW t, NEW c, NEW n \in InTree(t), t \in Arrays, WellLinked(t, c)
  PROVE  /\ n \in Node /\ n # NIL /\ n \in 0 .. N /\ c[n] \in Bytes
         /\ t.dad[n] \in (0 .. N) \union Roots /\ t.dad[n] # NIL
         /\ t.dad[n] \in Roots => /\ t.rson[t.dad[n]] = n /\ t.dad[n] = Root(c[n])
                                  /\ t.dad[n] \notin 0 .. N
         /\ t.dad[n] \notin Roots => /\ t.dad[n] \in InTree(t) /\ t.dad[n] \in Node
                                     /\ c[t.dad[n]] = c[n]
                                     /\ n \in {t.lson[t.dad[n]], t.rson[t.dad[n]]}
         /\ \A k \in InTree(t) : t.lson[k] = n \/ t.rson[k] = n => k = t.dad[n]
         /\ \A k \in InTree(t) : t.lson[k] = n => t.rson[k] # n
         /\ \A b \in Bytes : t.rson[Root(b)] = n => Root(b) = t.dad[n]
<1>. USE Places
<1>1. n \in Node /\ n # NIL /\ n \in 0 .. N /\ HasDad(t, c, n) /\ t.dad[n] # NIL
  BY DEF InTree, WellLinked
<1>2. \A k \in InTree(t) : t.lson[k] = n \/ t.rson[k] = n => k = t.dad[n]
  BY <1>1 DEF WellLinked, HasSons
<1>3. \A k \in InTree(t) : t.lson[k] = n => t.rson[k] # n
  BY <1>1 DEF WellLinked, HasSons
<1>4. \A b \in Bytes : t.rson[Root(b)] = n => Root(b) = t.dad[n]
  BY <1>1 DEF WellLinked
<1>5. CASE t.dad[n] \in InTree(t)
  <2>1. t.dad[n] \in Node /\ t.dad[n] \notin Roots
    BY <1>5 DEF InTree, Roots
  <2>2. /\ c[n] \in Bytes /\ c[t.dad[n]] = c[n]
        /\ n \in {t.lson[t.dad[n]], t.rson[t.dad[n]]}
    BY <1>1, <2>1 DEF HasDad
  <2>3. QED
    BY <1>1, <1>2, <1>3, <1>4, <1>5, <2>1, <2>2
<1>6. CASE t.dad[n] \notin InTree(t)
  <2>1. c[n] \in Bytes /\ t.dad[n] = Root(c[n]) /\ t.rson[Root(c[n])] = n
    BY <1>1, <1>6 DEF HasDad
  <2>2. Root(c[n]) \in Roots /\ Root(c[n]) \notin 0 .. N
    BY <2>1
  <2>3. QED
    BY <1>1, <1>2, <1>3, <1>4, <2>1, <2>2
<1>. QED
  BY <1>5, <1>6

(* Unlink takes a node with at most one son out of the tree.                *)
LEMMA UnlinkSplices ==
  ASSUME NEW t, NEW c, NEW n \in InTree(t), NEW m, t \in Arrays, WellLinked(t, c),
         \/ t.lson[n] = NIL /\ t.rson[n] = m
         \/ t.rson[n] = NIL /\ t.lson[n] = m,
         n # m
  PROVE  Unlink(t, n, m) \in Arrays /\ Spliced(t, Unlink(t, n, m), n, m)
<1>. DEFINE d == t.dad[n]
            u == Unlink(t, n, m)
<1>. USE Places
<1>1. /\ n \in Node /\ n # NIL /\ n \in 0 .. N /\ c[n] \in Bytes
      /\ d \in (0 .. N) \union Roots /\ d # NIL
      /\ d \in Roots => t.rson[d] = n /\ d = Root(c[n]) /\ d \notin 0 .. N
      /\ d \notin Roots => d \in InTree(t) /\ d \in Node /\ n \in {t.lson[d], t.rson[d]}
      /\ \A k \in InTree(t) : t.lson[k] = n \/ t.rson[k] = n => k = d
      /\ \A k \in InTree(t) : t.lson[k] = n => t.rson[k] # n
      /\ \A b \in Bytes : t.rson[Root(b)] = n => Root(b) = d
  BY DadPlace
<1>2. m \in 0 .. N
  BY <1>1 DEF Arrays
<1>3. /\ d \in Nat
      /\ [t.dad EXCEPT ![m] = d] \in [0 .. N -> Nat]
      /\ [[t.dad EXCEPT ![m] = d] EXCEPT ![n] = NIL] \in [0 .. N -> Nat]
      /\ \A k \in Node : [[t.dad EXCEPT ![m] = d] EXCEPT ![n] = NIL][k]
                          = IF k = n THEN NIL ELSE IF k = m THEN d ELSE t.dad[k]
  BY <1>1, <1>2 DEF Arrays
<1>4. CASE t.rson[d] = n
  <2>1. /\ u \in Arrays
        /\ u.dad = [[t.dad EXCEPT ![m] = d] EXCEPT ![n] = NIL]
        /\ u.lson = t.lson /\ u.rson = [t.rson EXCEPT ![d] = m]
    BY <1>2, <1>3, <1>4 DEF Unlink, Arrays
  <2>2. \A k \in (0 .. N) \union Roots : u.rson[k] = IF k = d THEN m ELSE t.rson[k]
    BY <2>1 DEF Arrays
  <2>3. \A k \in InTree(t) \ {n} : t.lson[k] # n
    BY <1>1, <1>4
  <2>. HIDE DEF u, d
  <2>4. \A k \in InTree(t) \ {n} : /\ u.lson[k] = t.lson[k]
                                   /\ u.rson[k] = IF t.rson[k] = n THEN m ELSE t.rson[k]
    BY <1>1, <1>4, <2>1, <2>2 DEF InTree
  <2>5. \A b \in Bytes : u.rson[Root(b)]
                          = IF t.rson[Root(b)] = n THEN m ELSE t.rson[Root(b)]
    BY <1>1, <1>4, <2>2
  <2>6. Spliced(t, u, n, m)
    BY <1>1, <1>3, <2>1, <2>3, <2>4, <2>5 DEF Spliced, d
  <2>7. QED
    BY <2>1, <2>6 DEF u
<1>5. CASE t.rson[d] # n
  <2>0. d \in Node /\ t.lson[d] = n /\ d \in 0 .. N
    BY <1>1, <1>5
  <2>1. /\ u \in Arrays
        /\ u.dad = [[t.dad EXCEPT ![m] = d] EXCEPT ![n] = NIL]
        /\ u.rson = t.rson /\ u.lson = [t.lson EXCEPT ![d] = m]
    BY <1>2, <1>3, <1>5 DEF Unlink, Arrays
  <2>2. \A k \in 0 .. N : u.lson[k] = IF k = d THEN m ELSE t.lson[k]
    BY <2>1 DEF Arrays
  <2>3. \A k \in InTree(t) \ {n} : t.rson[k] # n
    BY <1>1, <1>5
  <2>. HIDE DEF u, d
  <2>4. \A k \in InTree(t) \ {n} : /\ u.rson[k] = t.rson[k]
                                   /\ u.lson[k] = IF t.lson[k] = n THEN m ELSE t.lson[k]
    BY <1>1, <2>0, <2>1, <2>2 DEF InTree
  <2>5. \A b \in Bytes : u.rson[Root(b)]
                          = IF t.rson[Root(b)] = n THEN m ELSE t.rson[Root(b)]
    BY <1>1, <2>0, <2>1
  <2>6. Spliced(t, u, n, m)
    BY <1>1, <1>3, <2>1, <2>3, <2>4, <2>5 DEF Spliced, d
  <2>7. QED
    BY <2>1, <2>6 DEF u
<1>. QED
  BY <1>4, <1>5

(* Replace puts a new node in the place of an old one.                      *)
LEMMA ReplaceSubstitutes ==
  ASSUME NEW t, NEW c, NEW old \in InTree(t), NEW new \in Node, new \notin InTree(t),
         t \in Arrays, WellLinked(t, c), t.dad[old] # old,
         t.lson[old] # old, t.rson[old] # old
  PROVE  /\ Replace(t, old, new) \in Arrays
         /\ Substituted(t, Replace(t, old, new), old, new)
<1>. DEFINE d == t.dad[old]
            u == Replace(t, old, new)
            dads == [[[[t.dad EXCEPT ![new] = d] EXCEPT ![t.lson[old]] = new]
                       EXCEPT ![t.rson[old]] = new] EXCEPT ![old] = NIL]
            lsons == [t.lson EXCEPT ![new] = t.lson[old]]
            rsons == [t.rson EXCEPT ![new] = t.rson[old]]
<1>. USE Places
<1>1. /\ old \in Node /\ old # NIL /\ old \in 0 .. N /\ c[old] \in Bytes
      /\ d \in (0 .. N) \union Roots /\ d # NIL
      /\ d \in Roots => t.rson[d] = old /\ d = Root(c[old]) /\ d \notin 0 .. N
      /\ d \notin Roots => d \in InTree(t) /\ d \in Node
                           /\ old \in {t.lson[d], t.rson[d]}
      /\ \A k \in InTree(t) : t.lson[k] = old \/ t.rson[k] = old => k = d
      /\ \A k \in InTree(t) : t.lson[k] = old => t.rson[k] # old
      /\ \A b \in Bytes : t.rson[Root(b)] = old => Root(b) = d
  BY DadPlace
<1>2. /\ new # old /\ new # NIL /\ new \in 0 .. N /\ t.dad[new] = NIL /\ d # new
      /\ t.lson[old] # new /\ t.rson[old] # new
  <2>1. new # old /\ new # NIL /\ new \in 0 .. N /\ t.dad[new] = NIL
    BY DEF InTree
  <2>2. HasSons(t, old)
    BY DEF WellLinked
  <2>3. t.lson[old] # new /\ t.rson[old] # new
    BY <1>1, <2>1, <2>2 DEF HasSons
  <2>4. d # new
    BY <1>1, <2>1
  <2>5. QED
    BY <2>1, <2>3, <2>4
<1>3. t.lson[old] \in 0 .. N /\ t.rson[old] \in 0 .. N /\ d \in Nat
  BY <1>1 DEF Arrays
<1>4. /\ dads \in [0 .. N -> Nat] /\ lsons \in [0 .. N -> 0 .. N]
      /\ rsons \in [(0 .. N) \union Roots -> 0 .. N]
  BY <1>1, <1>2, <1>3 DEF Arrays
<1>5. \A k \in Node : k # old /\ k # new =>
        (t.dad[k] = old <=> k = t.lson[old] \/ k = t.rson[old])
  <2>. SUFFICES ASSUME NEW k \in Node, k # old, k # new
                PROVE  t.dad[k] = old <=> k = t.lson[old] \/ k = t.rson[old]
    OBVIOUS
  <2>1. t.dad[k] = old => k \in InTree(t)
    BY <1>1 DEF InTree
  <2>2. t.dad[k] = old => k = t.lson[old] \/ k = t.rson[old]
    BY <1>1, <2>1 DEF WellLinked, HasDad
  <2>3. k = t.lson[old] \/ k = t.rson[old] => t.dad[k] = old
    BY DEF WellLinked, HasSons
  <2>4. QED
    BY <2>2, <2>3
<1>6. \A k \in Node : dads[k] = IF k = old THEN NIL ELSE IF k = new THEN t.dad[old]
                                ELSE IF t.dad[k] = old THEN new ELSE t.dad[k]
  <2>. SUFFICES ASSUME NEW k \in Node
                PROVE  dads[k] = IF k = old THEN NIL ELSE IF k = new THEN t.dad[old]
                                 ELSE IF t.dad[k] = old THEN new ELSE t.dad[k]
    OBVIOUS
  <2>1. dads[k] = IF k = old THEN NIL
                  ELSE IF k = t.lson[old] \/ k = t.rson[old] THEN new
                  ELSE IF k = new THEN d ELSE t.dad[k]
    BY <1>1, <1>2, <1>3 DEF Arrays
  <2>. HIDE DEF dads
  <2>2. QED
    BY <1>2, <1>5, <2>1
<1>7. /\ \A k \in 0 .. N : lsons[k] = IF k = new THEN t.lson[old] ELSE t.lson[k]
      /\ \A k \in (0 .. N) \union Roots :
           rsons[k] = IF k = new THEN t.rson[old] ELSE t.rson[k]
  BY DEF Arrays
<1>8. CASE t.rson[d] = old
  <2>1. u.dad = dads /\ u.lson = lsons /\ u.rson = [rsons EXCEPT ![d] = new]
        /\ u = [lson |-> u.lson, rson |-> u.rson, dad |-> u.dad]
    BY <1>8 DEF Replace, Arrays
  <2>. HIDE DEF u, dads, lsons, rsons, d
  <2>2. \A k \in (0 .. N) \union Roots : u.rson[k] = IF k = d THEN new ELSE rsons[k]
    BY <1>4, <2>1
  <2>3. u \in Arrays
    <3>1. u.rson \in [(0 .. N) \union Roots -> 0 .. N]
      BY ONLY <1>2, <1>4, <2>1
    <3>2. QED
      BY ONLY <1>4, <2>1, <3>1 DEF Arrays
  <2>4. u.lson[new] = t.lson[old] /\ u.rson[new] = t.rson[old]
    BY <1>2, <1>7, <2>1, <2>2
  <2>5. ASSUME NEW k \in InTree(t) \ {old}
        PROVE  /\ u.lson[k] = IF t.lson[k] = old THEN new ELSE t.lson[k]
               /\ u.rson[k] = IF t.rson[k] = old THEN new ELSE t.rson[k]
    <3>1. k \in 0 .. N /\ k # new
      BY DEF InTree
    <3>2. t.lson[k] # old
      BY <1>1, <1>8
    <3>3. u.lson[k] = t.lson[k]
      BY <1>7, <2>1, <3>1
    <3>4. t.rson[k] = old <=> k = d
      BY <1>1, <1>8
    <3>5. QED
      BY <1>7, <2>2, <3>1, <3>2, <3>3, <3>4
  <2>6. ASSUME NEW b \in Bytes
        PROVE  u.rson[Root(b)]
                 = IF t.rson[Root(b)] = old THEN new ELSE t.rson[Root(b)]
    BY <1>1, <1>2, <1>7, <1>8, <2>2
  <2>7. Substituted(t, u, old, new)
    BY <1>6, <2>1, <2>4, <2>5, <2>6 DEF Substituted
  <2>8. QED
    BY <2>3, <2>7 DEF u
<1>9. CASE t.rson[d] # old
  <2>0. d \in Node /\ t.lson[d] = old /\ d \in 0 .. N /\ d \notin Roots
    BY <1>1, <1>9
  <2>1. u.dad = dads /\ u.rson = rsons /\ u.lson = [lsons EXCEPT ![d] = new]
        /\ u = [lson |-> u.lson, rson |-> u.rson, dad |-> u.dad]
    BY <1>9 DEF Replace, Arrays
  <2>. HIDE DEF u, dads, lsons, rsons, d
  <2>2. \A k \in 0 .. N : u.lson[k] = IF k = d THEN new ELSE lsons[k]
    BY <1>4, <2>1
  <2>3. u \in Arrays
    <3>1. u.lson \in [0 .. N -> 0 .. N]
      BY ONLY <1>2, <1>4, <2>1
    <3>2. QED
      BY ONLY <1>4, <2>1, <3>1 DEF Arrays
  <2>4. u.lson[new] = t.lson[old] /\ u.rson[new] = t.rson[old]
    BY <1>2, <1>7, <2>1, <2>2
  <2>5. ASSUME NEW k \in InTree(t) \ {old}
        PROVE  /\ u.lson[k] = IF t.lson[k] = old THEN new ELSE t.lson[k]
               /\ u.rson[k] = IF t.rson[k] = old THEN new ELSE t.rson[k]
    <3>1. k \in 0 .. N /\ k # new
      BY DEF InTree
    <3>2. t.rson[k] # old
      BY <1>1, <1>9
    <3>3. u.rson[k] = t.rson[k]
      BY <1>7, <2>1, <3>1
    <3>4. t.lson[k] = old <=> k = d
      BY <1>1, <2>0
    <3>5. QED
      BY <1>7, <2>2, <3>1, <3>2, <3>3, <3>4
  <2>6. ASSUME NEW b \in Bytes
        PROVE  u.rson[Root(b)]
                 = IF t.rson[Root(b)] = old THEN new ELSE t.rson[Root(b)]
    <3>1. Root(b) # d /\ Root(b) # new /\ Root(b) \in Roots
      BY <2>0
    <3>2. QED
      BY <1>1, <1>7, <2>1, <3>1
  <2>7. Substituted(t, u, old, new)
    BY <1>6, <2>1, <2>4, <2>5, <2>6 DEF Substituted
  <2>8. QED
    BY <2>3, <2>7 DEF u
<1>. QED
  BY <1>8, <1>9

(* last is the greatest node on the left of n.                              *)
LastOf(t, D, c, lt, n) ==
  /\ last \in D[t.lson[n]] /\ t.rson[last] = NIL /\ c[last] = c[n]
  /\ \A m \in D[t.lson[n]] : m = last \/ <<m, last>> \in lt

(* How the nodes that a deletion moves lie to each other.                   *)
LEMMA LastPlace ==
  ASSUME NEW t, NEW c, NEW D, NEW lt, NEW n \in InTree(t),
         t \in Arrays, WellLinked(t, c), Sorted(t, D, c, lt), StrictOrder(lt),
         t.lson[n] # NIL, t.rson[n] # NIL, LastOf(t, D, c, lt, n)
  PROVE  LET l == t.lson[n]
             g == t.rson[n]
             d == t.dad[n]
             e == t.dad[last]
             h == t.lson[last]
         IN  /\ l \in InTree(t) /\ g \in InTree(t) /\ last \in InTree(t)
             /\ n \notin D[l] /\ n \notin D[g] /\ D[l] \intersect D[g] = {}
             /\ l \in D[l] /\ g \in D[g] /\ l # g /\ t.dad[l] = n /\ t.dad[g] = n
             /\ last # n /\ last # g /\ last # d /\ d \notin D[l] /\ d \notin D[g] /\ d # n
             /\ h # NIL => h \in InTree(t) /\ t.dad[h] = last /\ h \in D[l]
             /\ h # last /\ h # e /\ h # n /\ h # g /\ h # l /\ h # d
             /\ last # l => /\ e \in D[l] /\ e \in InTree(t) /\ e # last
                            /\ t.rson[e] = last /\ t.lson[e] # last
             /\ last = l => e = n
<1>. DEFINE l == t.lson[n]
            g == t.rson[n]
            d == t.dad[n]
            e == t.dad[last]
            h == t.lson[last]
<1>. USE Places
<1>1. /\ n \in D[n] /\ n \notin D[l] /\ n \notin D[g] /\ D[l] \intersect D[g] = {}
      /\ \A m \in {l, g} : m # n /\ d # m
      /\ d # n
  BY ONLY NoCycle, n \in InTree(t), WellLinked(t, c), Sorted(t, D, c, lt), StrictOrder(lt)
<1>2. n \in Node /\ HasDad(t, c, n) /\ HasSons(t, n) /\ n # NIL
  BY DEF InTree, WellLinked
<1>3. /\ l \in InTree(t) /\ g \in InTree(t) /\ t.dad[l] = n /\ t.dad[g] = n
      /\ l \in Node /\ g \in Node
  BY <1>2 DEF HasSons, InTree
<1>4. ASSUME NEW k \in InTree(t)
      PROVE  /\ k \in D[k] /\ Nested(t, D, k) /\ Branches(t, D, k) /\ Between(t, D, lt, k)
             /\ k # NIL /\ HasSons(t, k) /\ HasDad(t, c, k) /\ k \in Node
  BY DEF Sorted, Branches, InTree, WellLinked
<1>5. l \in D[l] /\ g \in D[g] /\ l # g
  BY <1>1, <1>3, <1>4
<1>6. last \in D[l] /\ last \in InTree(t) /\ D[last] \subseteq D[l]
  BY <1>3, <1>4 DEF Nested, LastOf
<1>7. last # n /\ last # g
  BY <1>1, <1>5, <1>6
<1>8. D[n] = {n} \union D[l] \union D[g]
  BY <1>4 DEF Branches
<1>9. ASSUME d \in D[l] \/ d \in D[g] PROVE FALSE
  <2>1. d \in InTree(t) /\ D[d] \subseteq D[l] \union D[g]
    BY <1>3, <1>4, <1>9 DEF Nested
  <2>2. d \in Node /\ n \in {t.lson[d], t.rson[d]}
    BY <1>2, <1>4, <2>1 DEF HasDad
  <2>3. n \in D[d]
    BY <1>1, <1>4, <2>1, <2>2 DEF Branches
  <2>4. QED
    BY <1>1, <2>1, <2>3
<1>10. last # d
  BY <1>6, <1>9
<1>11. last \in D[last] /\ last \notin D[h] /\ h # last /\ e # h /\ e # last
  <2>0. last \in InTree(t)
    BY <1>6
  <2>1. /\ last \in D[last] /\ last \notin D[h]
        /\ \A m \in {h, t.rson[last]} : m # last /\ e # m
        /\ e # last
    BY ONLY NoCycle, <2>0, WellLinked(t, c), Sorted(t, D, c, lt), StrictOrder(lt)
  <2>2. QED
    BY <2>1
<1>12. ASSUME h # NIL PROVE h \in InTree(t) /\ t.dad[h] = last /\ h \in D[l]
  <2>1. h \in InTree(t) /\ t.dad[h] = last
    BY <1>4, <1>6, <1>12 DEF HasSons, InTree
  <2>2. h \in D[last]
    BY <1>4, <1>6, <2>1 DEF Branches
  <2>3. QED
    BY <1>6, <2>1, <2>2
<1>13. h # n /\ h # g /\ h # l /\ h # d
  <2>1. CASE h = NIL
    BY <1>2, <1>3, <2>1 DEF InTree
  <2>2. CASE h # NIL
    BY <1>1, <1>3, <1>5, <1>7, <1>9, <1>12, <2>2
  <2>3. QED
    BY <2>1, <2>2
<1>14. ASSUME last # l
       PROVE  /\ e \in D[l] /\ e \in InTree(t) /\ e # last
              /\ t.rson[e] = last /\ t.lson[e] # last
  <2>1. e \in D[l] /\ e \in InTree(t)
    BY <1>3, <1>4, <1>6, <1>14 DEF Nested
  <2>2. <<e, last>> \in lt
    BY <1>11, <2>1 DEF LastOf
  <2>3. t.lson[e] # last
    <3>. SUFFICES ASSUME t.lson[e] = last PROVE FALSE
      OBVIOUS
    <3>1. <<last, e>> \in lt
      BY <1>4, <1>11, <2>1 DEF Between
    <3>2. last \in Node /\ e \in Node
      BY <1>4, <1>6, <2>1
    <3>3. QED
      BY <2>2, <3>1, <3>2 DEF StrictOrder
  <2>4. last \in {t.lson[e], t.rson[e]}
    BY <1>4, <1>6, <2>1 DEF HasDad
  <2>5. QED
    BY <1>11, <2>1, <2>3, <2>4
<1>15. last = l => e = n
  BY <1>3
<1>. QED
  BY <1>1, <1>3, <1>5, <1>6, <1>7, <1>9, <1>10, <1>11, <1>12, <1>13, <1>14, <1>15

(* A record of three arrays is told by its fields.                          *)
LEMMA RecordIs ==
  ASSUME NEW a, NEW b, NEW c, NEW t \in [lson : {a}, rson : {b}, dad : {c}]
  PROVE  t = [lson |-> a, rson |-> b, dad |-> c]
OBVIOUS

(* What the assignments make of the arrays that put q on top.               *)
LEMMA TopArrays ==
  ASSUME NEW a, NEW b, NEW c, NEW g, NEW q, NEW t,
         t = [lson |-> a, rson |-> b, dad |-> c]
  PROVE  [t EXCEPT !.rson[q] = g, !.dad[g] = q]
           = [lson |-> a, rson |-> [b EXCEPT ![q] = g], dad |-> [c EXCEPT ![g] = q]]
<1>. DEFINE z == [t EXCEPT !.rson[q] = g, !.dad[g] = q]
<1>1. z \in [lson : {a}, rson : {[b EXCEPT ![q] = g]}, dad : {[c EXCEPT ![g] = q]}]
  OBVIOUS
<1>. HIDE DEF z
<1>2. z = [lson |-> a, rson |-> [b EXCEPT ![q] = g], dad |-> [c EXCEPT ![g] = q]]
  BY <1>1, RecordIs
<1>. QED
  BY <1>2 DEF z

(* ... after they took it out of the left subtree.                          *)
LEMMA MovedArrays ==
  ASSUME NEW a, NEW b, NEW c, NEW e, NEW h, NEW l, NEW g, NEW q, NEW t,
         t = [lson |-> a, rson |-> b, dad |-> c]
  PROVE  [[t EXCEPT !.rson[e] = h, !.dad[h] = e, !.lson[q] = l, !.dad[l] = q]
           EXCEPT !.rson[q] = g, !.dad[g] = q]
           = [lson |-> [a EXCEPT ![q] = l],
              rson |-> [[b EXCEPT ![e] = h] EXCEPT ![q] = g],
              dad |-> [[[c EXCEPT ![h] = e] EXCEPT ![l] = q] EXCEPT ![g] = q]]
<1>. DEFINE z == [[t EXCEPT !.rson[e] = h, !.dad[h] = e, !.lson[q] = l, !.dad[l] = q]
                   EXCEPT !.rson[q] = g, !.dad[g] = q]
<1>1. z \in [lson : {[a EXCEPT ![q] = l]},
              rson : {[[b EXCEPT ![e] = h] EXCEPT ![q] = g]},
              dad : {[[[c EXCEPT ![h] = e] EXCEPT ![l] = q] EXCEPT ![g] = q]}]
  OBVIOUS
<1>. HIDE DEF z
<1>2. z = [lson |-> [a EXCEPT ![q] = l],
           rson |-> [[b EXCEPT ![e] = h] EXCEPT ![q] = g],
           dad |-> [[[c EXCEPT ![h] = e] EXCEPT ![l] = q] EXCEPT ![g] = q]]
  BY <1>1, RecordIs
<1>. QED
  BY <1>2 DEF z

Two(t, n) == t.dad[n] # NIL /\ t.lson[n] # NIL /\ t.rson[n] # NIL

(* With two sons, last is taken out of the tree and then takes the place of *)
(* the node.                                                                *)
LEMMA DeleteSubstitutes ==
  ASSUME NEW t, NEW c, NEW D, NEW lt, NEW n \in InTree(t),
         t \in Arrays, WellLinked(t, c), Sorted(t, D, c, lt), StrictOrder(lt),
         t.lson[n] # NIL, t.rson[n] # NIL, LastOf(t, D, c, lt, n)
  PROVE  /\ DeleteNode(t, n) \in Arrays
         /\ LET v == Unlink(t, last, t.lson[last])
            IN  /\ Spliced(t, v, last, t.lson[last])
                /\ Substituted(v, DeleteNode(t, n), n, last)
<1>. DEFINE l == t.lson[n]
            g == t.rson[n]
            d == t.dad[n]
            e == t.dad[last]
            h == t.lson[last]
            v == Unlink(t, last, h)
            u == DeleteNode(t, n)
<1>. USE Places
<1>1. /\ l \in InTree(t) /\ g \in InTree(t) /\ last \in InTree(t)
      /\ n \notin D[l] /\ n \notin D[g] /\ D[l] \intersect D[g] = {}
      /\ l \in D[l] /\ g \in D[g] /\ l # g /\ t.dad[l] = n /\ t.dad[g] = n
      /\ last # n /\ last # g /\ last # d /\ d \notin D[l] /\ d \notin D[g] /\ d # n
      /\ h # NIL => h \in InTree(t) /\ t.dad[h] = last /\ h \in D[l]
      /\ h # last /\ h # e /\ h # n /\ h # g /\ h # l /\ h # d
      /\ last # l => /\ e \in D[l] /\ e \in InTree(t) /\ e # last
                     /\ t.rson[e] = last /\ t.lson[e] # last
      /\ last = l => e = n
  BY LastPlace
<1>2. t.rson[last] = NIL
  BY DEF LastOf
<1>3. v \in Arrays /\ Spliced(t, v, last, h)
  BY <1>1, <1>2, UnlinkSplices
<1>4. /\ n \in Node /\ n # NIL /\ n \in 0 .. N /\ c[n] \in Bytes
      /\ d \in (0 .. N) \union Roots /\ d # NIL
      /\ d \in Roots => t.rson[d] = n /\ d = Root(c[n]) /\ d \notin 0 .. N
      /\ d \notin Roots => d \in InTree(t) /\ d \in Node /\ n \in {t.lson[d], t.rson[d]}
      /\ \A k \in InTree(t) : t.lson[k] = n \/ t.rson[k] = n => k = d
      /\ \A k \in InTree(t) : t.lson[k] = n => t.rson[k] # n
      /\ \A b \in Bytes : t.rson[Root(b)] = n => Root(b) = d
  BY DadPlace
<1>5. /\ l \in Node /\ g \in Node /\ last \in Node /\ l # NIL /\ g # NIL /\ last # NIL
      /\ l \in 0 .. N /\ g \in 0 .. N /\ last \in 0 .. N /\ h \in 0 .. N
      /\ t.dad[n] # NIL /\ d \in Nat /\ t.dad[last] # NIL /\ e \in Nat
      /\ h # NIL => h \in Node
  BY <1>1, <1>4 DEF InTree, Arrays
<1>6. InTree(v) = InTree(t) \ {last} /\ n \in InTree(v)
  <2>1. h # last
    BY <1>1
  <2>2. \A k \in Node : v.dad[k] = IF k = last THEN NIL
                                   ELSE IF k = h THEN e ELSE t.dad[k]
    BY <1>3 DEF Spliced
  <2>3. InTree(v) = InTree(t) \ {last}
    BY <1>1, <1>5, <2>2 DEF InTree
  <2>4. QED
    BY <1>1, <2>3
<1>7. DeleteNode(t, n)
        = Unlink([(IF last = l THEN t
                   ELSE [t EXCEPT !.rson[e] = h, !.dad[h] = e,
                                  !.lson[last] = l, !.dad[l] = last])
                  EXCEPT !.rson[last] = g, !.dad[g] = last], n, last)
  BY <1>5 DEF DeleteNode
<1>. DEFINE A == last # l
            dads == [(IF A THEN [[t.dad EXCEPT ![h] = e] EXCEPT ![l] = last] ELSE t.dad)
                     EXCEPT ![g] = last]
            lsons == IF A THEN [t.lson EXCEPT ![last] = l] ELSE t.lson
            rsons == [(IF A THEN [t.rson EXCEPT ![e] = h] ELSE t.rson) EXCEPT ![last] = g]
            w == [lson |-> lsons, rson |-> rsons, dad |-> dads]
<1>8. /\ dads \in [0 .. N -> Nat] /\ lsons \in [0 .. N -> 0 .. N]
      /\ rsons \in [(0 .. N) \union Roots -> 0 .. N]
      /\ \A k \in 0 .. N : dads[k] = IF k = g THEN last ELSE IF A /\ k = l THEN last
                                     ELSE IF A /\ k = h THEN e ELSE t.dad[k]
      /\ \A k \in 0 .. N : lsons[k] = IF A /\ k = last THEN l ELSE t.lson[k]
      /\ \A k \in (0 .. N) \union Roots :
           rsons[k] = IF k = last THEN g ELSE IF A /\ k = e THEN h ELSE t.rson[k]
  <2>1. CASE A
    <3>1. e \in 0 .. N
      BY <1>1, <2>1 DEF InTree
    <3>2. QED
      BY <1>1, <1>5, <2>1, <3>1 DEF Arrays
  <2>2. CASE ~A
    BY <1>1, <1>5, <2>2 DEF Arrays
  <2>3. QED
    BY <2>1, <2>2
<1>9. u = Unlink(w, n, last)
  <2>. DEFINE a1 == t.lson
              a2 == t.rson
              a3 == t.dad
  <2>0. t = [lson |-> a1, rson |-> a2, dad |-> a3]
    BY ONLY t \in Arrays DEF Arrays
  <2>00. /\ t.lson = a1 /\ t.rson = a2 /\ t.dad = a3
    OBVIOUS
  <2>. HIDE DEF l, g, e, h, u, a1, a2, a3
  <2>1. CASE A
    <3>. DEFINE z == [[t EXCEPT !.rson[e] = h, !.dad[h] = e,
                                !.lson[last] = l, !.dad[l] = last]
                       EXCEPT !.rson[last] = g, !.dad[g] = last]
    <3>0. z \in [lson : {[a1 EXCEPT ![last] = l]},
                 rson : {[[a2 EXCEPT ![e] = h] EXCEPT ![last] = g]},
                 dad : {[[[a3 EXCEPT ![h] = e] EXCEPT ![l] = last] EXCEPT ![g] = last]}]
      BY ONLY <2>0
    <3>. HIDE DEF z
    <3>1. z = [lson |-> [a1 EXCEPT ![last] = l],
               rson |-> [[a2 EXCEPT ![e] = h] EXCEPT ![last] = g],
               dad |-> [[[a3 EXCEPT ![h] = e] EXCEPT ![l] = last] EXCEPT ![g] = last]]
      BY ONLY <3>0, RecordIs
    <3>2. w = [lson |-> [t.lson EXCEPT ![last] = l],
               rson |-> [[t.rson EXCEPT ![e] = h] EXCEPT ![last] = g],
               dad |-> [[[t.dad EXCEPT ![h] = e] EXCEPT ![l] = last] EXCEPT ![g] = last]]
      BY <2>1, Zenon DEF w, lsons, rsons, dads
    <3>3. QED
      BY <1>7, <2>1, <2>00, <3>1, <3>2, Zenon DEF u, z
  <2>2. CASE ~A
    <3>. DEFINE z == [t EXCEPT !.rson[last] = g, !.dad[g] = last]
    <3>0. z \in [lson : {a1}, rson : {[a2 EXCEPT ![last] = g]},
                 dad : {[a3 EXCEPT ![g] = last]}]
      BY ONLY <2>0
    <3>. HIDE DEF z
    <3>1. z = [lson |-> a1, rson |-> [a2 EXCEPT ![last] = g],
               dad |-> [a3 EXCEPT ![g] = last]]
      BY ONLY <3>0, RecordIs
    <3>2. w = [lson |-> t.lson, rson |-> [t.rson EXCEPT ![last] = g],
               dad |-> [t.dad EXCEPT ![g] = last]]
      BY <2>2, Zenon DEF w, lsons, rsons, dads
    <3>3. QED
      BY <1>7, <2>2, <2>00, <3>1, <3>2, Zenon DEF u, z
  <2>3. QED
    BY <2>1, <2>2
<1>. HIDE DEF dads, lsons, rsons
<1>10. /\ dads[n] = d /\ rsons[d] = t.rson[d] /\ d # last /\ (A => d # e)
  <2>1. n # g /\ n # l /\ n # h
    BY <1>1, <1>4
  <2>2. d # last /\ (A => d # e)
    BY <1>1
  <2>3. QED
    BY <1>4, <1>8, <2>1, <2>2
<1>11. /\ u.dad = [[dads EXCEPT ![last] = d] EXCEPT ![n] = NIL]
       /\ u.lson = IF t.rson[d] = n THEN lsons ELSE [lsons EXCEPT ![d] = last]
       /\ u.rson = IF t.rson[d] = n THEN [rsons EXCEPT ![d] = last] ELSE rsons
       /\ u = [lson |-> u.lson, rson |-> u.rson, dad |-> u.dad]
  <2>1. w.dad = dads /\ w.lson = lsons /\ w.rson = rsons
    OBVIOUS
  <2>2. w.dad[n] = d /\ w.rson[d] = t.rson[d]
    BY <1>10, <2>1
  <2>. HIDE DEF u
  <2>3. u = LET up == [w EXCEPT !.dad[last] = d, !.dad[n] = NIL]
            IN  IF t.rson[d] = n THEN [up EXCEPT !.rson[d] = last]
                                 ELSE [up EXCEPT !.lson[d] = last]
    BY <1>9, <2>2 DEF Unlink
  <2>4. CASE t.rson[d] = n
    BY <2>3, <2>4
  <2>5. CASE t.rson[d] # n
    BY <2>3, <2>5
  <2>6. QED
    BY <2>4, <2>5
<1>. HIDE DEF u, w
<1>12. t.rson[d] # n => d \in 0 .. N /\ d \in Node /\ t.lson[d] = n /\ d \in InTree(t)
  BY <1>4
<1>13. u \in Arrays
  <2>0. d \in Nat /\ NIL \in Nat /\ last \in 0 .. N /\ n \in 0 .. N
    BY <1>4, <1>5, Sizes DEF NIL
  <2>. HIDE DEF d
  <2>1. u.dad \in [0 .. N -> Nat]
    BY ONLY <2>0, <1>8, <1>11
  <2>2. u.lson \in [0 .. N -> 0 .. N]
    BY ONLY <1>5, <1>8, <1>11, <1>12
  <2>3. u.rson \in [(0 .. N) \union Roots -> 0 .. N]
    BY ONLY <1>5, <1>8, <1>11, <1>4, ZenonT(40)
  <2>4. QED
    BY ONLY <1>11, <2>1, <2>2, <2>3 DEF Arrays
<1>14. ASSUME NEW k \in Node
       PROVE  u.dad[k] = IF k = n THEN NIL ELSE IF k = last THEN d
                         ELSE IF k = g THEN last ELSE IF A /\ k = l THEN last
                         ELSE IF A /\ k = h THEN e ELSE t.dad[k]
  <2>. DEFINE f == [dads EXCEPT ![last] = d]
  <2>1. \A j \in 0 .. N : f[j] = IF j = last THEN d ELSE dads[j]
    BY <1>8
  <2>2. DOMAIN f = 0 .. N /\ k \in 0 .. N
    BY <1>8
  <2>. HIDE DEF f, d, g, l, h, e
  <2>3. u.dad[k] = IF k = n THEN NIL ELSE f[k]
    BY ONLY <1>11, <2>2 DEF f
  <2>4. QED
    BY ONLY <1>8, <2>1, <2>2, <2>3
<1>15. \A k \in 0 .. N :
         u.lson[k] = IF k = d /\ t.rson[d] # n THEN last
                     ELSE IF A /\ k = last THEN l ELSE t.lson[k]
  <2>. HIDE DEF d
  <2>1. CASE t.rson[d] = n
    <3>1. u.lson = lsons
      BY <1>11, <2>1
    <3>2. ASSUME NEW k \in 0 .. N
          PROVE  u.lson[k] = IF A /\ k = last THEN l ELSE t.lson[k]
      BY ONLY <1>8, <3>1
    <3>. HIDE DEF A, l
    <3>3. QED
      BY ONLY <2>1, <3>2
  <2>2. CASE t.rson[d] # n
    <3>1. u.lson = [lsons EXCEPT ![d] = last] /\ d \in 0 .. N /\ d # last
      BY <1>10, <1>11, <1>12, <2>2
    <3>2. ASSUME NEW k \in 0 .. N
          PROVE  u.lson[k] = IF k = d THEN last ELSE lsons[k]
      BY ONLY <1>8, <3>1
    <3>3. \A k \in 0 .. N : lsons[k] = IF A /\ k = last THEN l ELSE t.lson[k]
      BY <1>8
    <3>. HIDE DEF A, l
    <3>4. QED
      BY ONLY <2>2, <3>1, <3>2, <3>3
  <2>3. QED
    BY <2>1, <2>2
<1>16. \A k \in (0 .. N) \union Roots :
         u.rson[k] = IF k = d /\ t.rson[d] = n THEN last
                     ELSE IF k = last THEN g ELSE IF A /\ k = e THEN h ELSE t.rson[k]
  <2>. HIDE DEF d
  <2>1. CASE t.rson[d] = n
    BY ONLY <1>4, <1>8, <1>10, <1>11, <2>1
  <2>2. CASE t.rson[d] # n
    BY ONLY <1>8, <1>10, <1>11, <2>2
  <2>3. QED
    BY <2>1, <2>2
<1>. HIDE DEF v
<1>17. /\ \A k \in Node : v.dad[k] = IF k = last THEN NIL ELSE IF k = h THEN e ELSE t.dad[k]
       /\ \A k \in InTree(t) \ {last} :
            /\ v.lson[k] = IF t.lson[k] = last THEN h ELSE t.lson[k]
            /\ v.rson[k] = IF t.rson[k] = last THEN h ELSE t.rson[k]
       /\ \A b \in Bytes :
            v.rson[Root(b)] = IF t.rson[Root(b)] = last THEN h ELSE t.rson[Root(b)]
  BY <1>3 DEF Spliced
<1>18. ASSUME NEW k \in InTree(t), k # last
       PROVE  t.lson[k] = last \/ t.rson[k] = last => k = e
  BY <1>18, <1>5 DEF WellLinked, HasSons
<1>19. ASSUME NEW k \in Node
       PROVE  u.dad[k] = IF k = n THEN NIL ELSE IF k = last THEN v.dad[n]
                         ELSE IF v.dad[k] = n THEN last ELSE v.dad[k]
  <2>1. t.dad[k] = n => k = l \/ k = g
    <3>1. t.dad[k] = n => k \in InTree(t)
      BY <1>4 DEF InTree
    <3>2. QED
      BY <1>4, <3>1 DEF WellLinked, HasDad
  <2>2. v.dad[n] = d
    BY <1>1, <1>4, <1>17
  <2>3. CASE k = n \/ k = last
    BY <1>1, <1>14, <2>2, <2>3
  <2>4. CASE k # n /\ k # last /\ k = h
    <3>1. v.dad[k] = e
      BY <1>17, <2>4
    <3>2. CASE A
      <4>1. k # g /\ k # l /\ e # n
        BY <1>1, <2>4, <3>2
      <4>2. QED
        BY <1>14, <2>4, <3>1, <3>2, <4>1
    <3>3. CASE ~A
      <4>1. k # g /\ e = n /\ t.dad[k] = last
        BY <1>1, <1>5, <1>4, <2>4, <3>3
      <4>2. QED
        BY <1>14, <2>4, <3>1, <3>3, <4>1
    <3>4. QED
      BY <3>2, <3>3
  <2>5. CASE k # n /\ k # last /\ k # h
    <3>1. v.dad[k] = t.dad[k]
      BY <1>17, <2>5
    <3>2. QED
      BY <1>1, <1>14, <2>1, <2>5, <3>1
  <2>6. QED
    BY <2>3, <2>4, <2>5
<1>20. u.lson[last] = v.lson[n] /\ u.rson[last] = v.rson[n]
  <2>1. v.lson[n] = (IF l = last THEN h ELSE l) /\ v.rson[n] = g
    BY <1>1, <1>17
  <2>2. u.rson[last] = g
    BY <1>5, <1>10, <1>16
  <2>3. u.lson[last] = IF A THEN l ELSE h
    BY <1>5, <1>10, <1>15
  <2>4. QED
    BY <2>1, <2>2, <2>3
<1>21. ASSUME NEW k \in InTree(v) \ {n}
       PROVE  /\ u.lson[k] = IF v.lson[k] = n THEN last ELSE v.lson[k]
              /\ u.rson[k] = IF v.rson[k] = n THEN last ELSE v.rson[k]
  <2>1. k \in InTree(t) /\ k # last /\ k # n /\ k \in 0 .. N
    BY <1>6 DEF InTree
  <2>2. /\ v.lson[k] = IF t.lson[k] = last THEN h ELSE t.lson[k]
        /\ v.rson[k] = IF t.rson[k] = last THEN h ELSE t.rson[k]
    BY <1>17, <2>1
  <2>3. h # n /\ last # n
    BY <1>1
  <2>4. u.lson[k] = IF v.lson[k] = n THEN last ELSE v.lson[k]
    <3>1. u.lson[k] = IF k = d /\ t.rson[d] # n THEN last ELSE t.lson[k]
      BY <1>15, <2>1
    <3>2. t.lson[k] # last
      BY <1>1, <1>18, <2>1
    <3>3. t.lson[k] = n <=> k = d /\ t.rson[d] # n
      BY <1>4, <1>12, <2>1
    <3>4. QED
      BY <2>2, <2>3, <3>1, <3>2, <3>3
  <2>5. u.rson[k] = IF v.rson[k] = n THEN last ELSE v.rson[k]
    <3>1. u.rson[k] = IF k = d /\ t.rson[d] = n THEN last
                      ELSE IF A /\ k = e THEN h ELSE t.rson[k]
      BY <1>16, <2>1
    <3>2. t.rson[k] = last <=> A /\ k = e
      BY <1>1, <1>18, <2>1
    <3>3. t.rson[k] = n <=> k = d /\ t.rson[d] = n
      BY <1>4, <2>1
    <3>4. QED
      BY <2>2, <2>3, <3>1, <3>2, <3>3
  <2>6. QED
    BY <2>4, <2>5
<1>22. ASSUME NEW b \in Bytes
       PROVE  u.rson[Root(b)]
                = IF v.rson[Root(b)] = n THEN last ELSE v.rson[Root(b)]
  <2>1. Root(b) \in Roots /\ Root(b) \notin 0 .. N
    OBVIOUS
  <2>2. Root(b) # last /\ (A => Root(b) # e)
    BY <1>1, <1>5, <2>1 DEF InTree
  <2>3. u.rson[Root(b)] = IF Root(b) = d /\ t.rson[d] = n THEN last ELSE t.rson[Root(b)]
    BY <1>16, <2>1, <2>2
  <2>4. t.rson[Root(b)] # last
    <3>. SUFFICES ASSUME t.rson[Root(b)] = last PROVE FALSE
      OBVIOUS
    <3>1. e = Root(b)
      BY <1>5 DEF WellLinked
    <3>2. QED
      BY <1>4, <2>1, <2>2, <3>1, <1>1
  <2>5. QED
    BY <1>4, <1>17, <2>3, <2>4
<1>23. Substituted(v, u, n, last)
  BY <1>5, <1>6, <1>19, <1>20, <1>21, <1>22 DEF Substituted
<1>. QED
  BY <1>3, <1>13, <1>23 DEF u, v

(* A deletion leaves the other nodes in trees that are linked and sorted.   *)
LEMMA DeleteSorts ==
  ASSUME NEW t, NEW c, NEW D, NEW lt, NEW n \in Node,
         t \in Arrays, WellLinked(t, c), Sorted(t, D, c, lt), StrictOrder(lt),
         Two(t, n) => LastOf(t, D, c, lt, n)
  PROVE  /\ DeleteNode(t, n) \in Arrays /\ WellLinked(DeleteNode(t, n), c)
         /\ InTree(DeleteNode(t, n)) = InTree(t) \ {n}
         /\ \E E : Sorted(DeleteNode(t, n), E, c, lt)
<1>. DEFINE u == DeleteNode(t, n)
            l == t.lson[n]
            g == t.rson[n]
            h == t.lson[last]
            v == Unlink(t, last, h)
<1>. USE Places
<1>1. CASE n \notin InTree(t)
  <2>1. u = t
    BY <1>1 DEF InTree, DeleteNode
  <2>2. InTree(t) = InTree(t) \ {n}
    BY <1>1
  <2>. HIDE DEF u
  <2>3. QED
    BY <2>1, <2>2 DEF u
<1>2. ASSUME NEW m, n \in InTree(t), u = Unlink(t, n, m),
             (l = NIL /\ g = m) \/ (g = NIL /\ l = m)
      PROVE  /\ u \in Arrays /\ WellLinked(u, c) /\ InTree(u) = InTree(t) \ {n}
             /\ \E E : Sorted(u, E, c, lt)
  <2>1. \A k \in {l, g} : k # n
    BY ONLY NoCycle, n \in InTree(t), WellLinked(t, c), Sorted(t, D, c, lt),
            StrictOrder(lt), <1>2, ZenonT(40)
  <2>2. n # m
    BY <1>2, <2>1
  <2>3. u \in Arrays /\ Spliced(t, u, n, m)
    BY <1>2, <2>2, UnlinkSplices
  <2>4. /\ WellLinked(u, c) /\ InTree(u) = InTree(t) \ {n}
        /\ Sorted(u, Without(D, n), c, lt)
    BY ONLY <2>3, SpliceSorts, WellLinked(t, c), Sorted(t, D, c, lt), StrictOrder(lt)
  <2>. HIDE DEF u
  <2>5. QED
    BY <2>3, <2>4
<1>3. CASE n \in InTree(t) /\ g = NIL
  <2>1. u = Unlink(t, n, l)
    BY <1>3 DEF DeleteNode, InTree
  <2>. HIDE DEF u, g, l
  <2>2. QED
    BY <1>2, <1>3, <2>1 DEF u
<1>4. CASE n \in InTree(t) /\ g # NIL /\ l = NIL
  <2>1. u = Unlink(t, n, g)
    BY <1>4 DEF DeleteNode, InTree
  <2>. HIDE DEF u, g, l
  <2>2. QED
    BY <1>2, <1>4, <2>1 DEF u
<1>5. CASE n \in InTree(t) /\ g # NIL /\ l # NIL
  <2>1. LastOf(t, D, c, lt, n)
    BY <1>5 DEF Two, InTree
  <2>2. u \in Arrays /\ Spliced(t, v, last, h) /\ Substituted(v, u, n, last)
    BY ONLY <1>5, <2>1, DeleteSubstitutes, t \in Arrays, WellLinked(t, c),
            Sorted(t, D, c, lt), StrictOrder(lt)
  <2>. DEFINE C == Without(D, last)
  <2>3. WellLinked(v, c) /\ InTree(v) = InTree(t) \ {last} /\ Sorted(v, C, c, lt)
    <3>. HIDE DEF v, h, u, l, g
    <3>1. Spliced(t, v, last, h)
      BY <2>2
    <3>2. /\ WellLinked(v, c) /\ InTree(v) = InTree(t) \ {last}
          /\ Sorted(v, Without(D, last), c, lt)
      BY ONLY <3>1, SpliceSorts, WellLinked(t, c), Sorted(t, D, c, lt), StrictOrder(lt)
    <3>3. QED
      BY <3>2
  <2>4. /\ l \in InTree(t) /\ g \in InTree(t) /\ last \in InTree(t)
        /\ l \in D[l] /\ l # g /\ last # n /\ last # g /\ t.dad[l] = n /\ t.dad[g] = n
        /\ h # NIL => h \in InTree(t) /\ t.dad[h] = last
    BY ONLY <1>5, <2>1, LastPlace, t \in Arrays, WellLinked(t, c),
            Sorted(t, D, c, lt), StrictOrder(lt)
  <2>5. ASSUME NEW k \in InTree(t)
        PROVE  /\ Nested(t, D, k) /\ Between(t, D, lt, k) /\ Branches(t, D, k)
               /\ k \in Node /\ k \in 0 .. N /\ k \in D[k] /\ D[k] \subseteq InTree(t)
               /\ t.lson[k] = NIL \/ t.lson[k] \in InTree(t)
               /\ t.rson[k] = NIL \/ t.rson[k] \in InTree(t)
    BY DEF Sorted, InTree, Branches, Nested, WellLinked, HasSons
  <2>6. D[NIL] = {} /\ h \in 0 .. N /\ D[h] \subseteq D[last]
    <3>1. D[NIL] = {} /\ h \in 0 .. N
      BY <2>4 DEF Sorted, InTree
    <3>2. h # NIL => h \in D[last]
      BY <2>4, <2>5 DEF Branches
    <3>3. D[h] \subseteq D[last]
      <4>1. CASE h = NIL
        BY <3>1, <4>1
      <4>2. CASE h # NIL
        BY <2>4, <2>5, <3>2, <4>2 DEF Nested
      <4>3. QED
        BY <4>1, <4>2
    <3>. HIDE DEF C, v, u, h
    <3>4. QED
      BY ONLY <3>1, <3>3
  <2>7. \A k \in 0 .. N : C[k] = D[k] \ {last}
    BY DEF Without
  <2>. HIDE DEF C, v, u
  <2>8. ASSUME NEW k \in InTree(t), k # last
        PROVE  /\ C[v.lson[k]] \subseteq D[t.lson[k]] \ {last}
               /\ C[v.rson[k]] \subseteq D[t.rson[k]] \ {last}
    <3>1. /\ v.lson[k] = IF t.lson[k] = last THEN h ELSE t.lson[k]
          /\ v.rson[k] = IF t.rson[k] = last THEN h ELSE t.rson[k]
      BY <2>2, <2>8 DEF Spliced
    <3>2. t.lson[k] \in 0 .. N /\ t.rson[k] \in 0 .. N
      BY <2>5
    <3>3. QED
      BY <2>6, <2>7, <3>1, <3>2
  <2>9. last \in D[l] /\ c[last] = c[n] /\ (\A m \in D[l] : m = last \/ <<m, last>> \in lt)
        /\ last \in Node
    BY <2>1, <2>4, <2>5 DEF LastOf
  <2>10. <<last, n>> \in lt
    BY <1>5, <2>5, <2>9 DEF Between
  <2>11. ASSUME NEW m \in D[g] PROVE <<last, m>> \in lt
    <3>1. <<n, m>> \in lt /\ m \in Node
      BY <1>5, <2>4, <2>5 DEF Between
    <3>2. QED
      BY <2>9, <2>10, <3>1 DEF StrictOrder
  <2>12. ASSUME NEW k \in InTree(v)
         PROVE  /\ n \in C[v.lson[k]] => <<last, k>> \in lt
                /\ n \in C[v.rson[k]] => <<k, last>> \in lt
    <3>1. k \in InTree(t) /\ k # last /\ k \in Node
      BY <2>3, <2>5
    <3>2. ASSUME n \in C[v.lson[k]] PROVE <<last, k>> \in lt
      <4>1. <<n, k>> \in lt
        BY <2>5, <2>8, <3>1, <3>2 DEF Between
      <4>2. QED
        BY <2>9, <2>10, <3>1, <4>1 DEF StrictOrder
    <3>3. ASSUME n \in C[v.rson[k]] PROVE <<k, last>> \in lt
      <4>1. n \in D[t.rson[k]] /\ t.rson[k] \in InTree(t)
        BY <2>5, <2>6, <2>8, <3>1, <3>3
      <4>2. last \in D[n] /\ D[n] \subseteq D[t.rson[k]]
        BY <1>5, <2>5, <2>9, <4>1 DEF Nested, Branches
      <4>3. QED
        BY <2>5, <3>1, <4>2 DEF Between
    <3>4. QED
      BY <3>2, <3>3
  <2>13. Fits(v, C, c, lt, n, last)
    <3>1. n \in InTree(t) /\ n # last
      BY <1>5, <2>4
    <3>2. C[v.lson[n]] \subseteq D[l] \ {last} /\ C[v.rson[n]] \subseteq D[g] \ {last}
      BY <2>8, <3>1
    <3>3. QED
      BY <2>9, <2>11, <2>12, <3>2 DEF Fits
  <2>14. /\ WellLinked(u, c) /\ InTree(u) = (InTree(v) \ {n}) \union {last}
         /\ Sorted(u, Swapped(C, n, last), c, lt)
    BY ONLY <2>2, <2>3, <2>13, SubstituteSorts, StrictOrder(lt)
  <2>15. InTree(u) = InTree(t) \ {n}
    BY <2>3, <2>4, <2>14
  <2>16. QED
    BY <2>2, <2>14, <2>15 DEF u
<1>. QED
  BY <1>1, <1>3, <1>4, <1>5
=============================================================================
