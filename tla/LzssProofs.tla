----------------------------- MODULE LzssProofs -----------------------------
(* What Lzss promises, for every size of the ring, every longest match and   *)
(* every input: the trees of the compressor stay search trees of the strings *)
(* that begin in the ring, no match in the text is longer than the one found *)
(* in them, and what the console decompresses is the input.                  *)
EXTENDS LzssTrees

-----------------------------------------------------------------------------
(* Strings. *)

(* The first i bytes of two strings are equal.                              *)
Agree(buf, a, b, i) == \A j \in 0 .. i - 1 : buf[a + j] = buf[b + j]

(* The order of two strings of F bytes, as Before has it.                   *)
Order(buf) ==
  {ab \in Node \X Node :
     \E i \in 0 .. F - 1 : Agree(buf, ab[1], ab[2], i)
                           /\ buf[ab[1] + i] < buf[ab[2] + i]}

Buffers == [0 .. N + F - 2 -> Bytes]

(* Bytes of a string are numbers.                                           *)
LEMMA Letters ==
  ASSUME NEW buf \in Buffers, NEW a \in Node, NEW i \in 0 .. F - 1
  PROVE  a + i \in 0 .. N + F - 2 /\ buf[a + i] \in Bytes /\ buf[a + i] \in Nat
<1>1. a + i \in 0 .. N + F - 2
  BY Sizes DEF Node
<1>2. Bytes \subseteq Nat
  BY LzssAssumption
<1>. QED
  BY <1>1, <1>2 DEF Buffers

(* Two strings that are not equal differ first in one byte.                 *)
LEMMA Differ ==
  ASSUME NEW buf \in Buffers, NEW a \in Node, NEW b \in Node,
         ~Agree(buf, a, b, F)
  PROVE  \E i \in 0 .. F - 1 : Agree(buf, a, b, i) /\ buf[a + i] # buf[b + i]
<1>. DEFINE T == {i \in 0 .. F - 1 : buf[a + i] # buf[b + i]}
<1>1. T # {} /\ T \subseteq Nat /\ F \in Nat
  BY Sizes DEF Agree
<1>2. PICK i \in T : \A j \in T : i <= j
  BY <1>1, Least
<1>3. i \in 0 .. F - 1 /\ buf[a + i] # buf[b + i]
  OBVIOUS
<1>4. Agree(buf, a, b, i)
  <2>. SUFFICES ASSUME NEW j \in 0 .. i - 1 PROVE buf[a + j] = buf[b + j]
    BY DEF Agree
  <2>1. j \in 0 .. F - 1 /\ ~(i <= j)
    BY <1>1, <1>3
  <2>2. j \notin T
    BY <1>2, <2>1
  <2>. QED
    BY <2>1, <2>2
<1>. QED
  BY <1>3, <1>4

(* What being in order means for two nodes.                                 *)
LEMMA InOrder ==
  ASSUME NEW buf \in Buffers, NEW a \in Node, NEW b \in Node
  PROVE  <<a, b>> \in Order(buf)
           <=> \E i \in 0 .. F - 1 : Agree(buf, a, b, i) /\ buf[a + i] < buf[b + i]
BY DEF Order

(* Strings are in one order or the other, or equal, and never in both.      *)
LEMMA OrderTotal ==
  ASSUME NEW buf \in Buffers, NEW a \in Node, NEW b \in Node
  PROVE  \/ <<a, b>> \in Order(buf) \/ <<b, a>> \in Order(buf)
         \/ Agree(buf, a, b, F)
<1>. SUFFICES ASSUME ~Agree(buf, a, b, F)
              PROVE  <<a, b>> \in Order(buf) \/ <<b, a>> \in Order(buf)
  OBVIOUS
<1>1. PICK i \in 0 .. F - 1 : Agree(buf, a, b, i) /\ buf[a + i] # buf[b + i]
  BY Differ
<1>2. Agree(buf, b, a, i)
  BY <1>1 DEF Agree
<1>3. buf[a + i] \in Nat /\ buf[b + i] \in Nat
  BY Letters
<1>4. buf[a + i] < buf[b + i] \/ buf[b + i] < buf[a + i]
  BY <1>1, <1>3
<1>. QED
  BY <1>1, <1>2, <1>4, InOrder

(* The order is strict.                                                     *)
LEMMA OrderStrict ==
  ASSUME NEW buf \in Buffers
  PROVE  StrictOrder(Order(buf))
<1>1. ASSUME NEW a \in Node, <<a, a>> \in Order(buf) PROVE FALSE
  <2>1. PICK i \in 0 .. F - 1 : buf[a + i] < buf[a + i]
    BY <1>1, InOrder
  <2>2. buf[a + i] \in Nat
    BY Letters
  <2>. QED
    BY <2>1, <2>2
<1>2. ASSUME NEW a \in Node, NEW b \in Node, NEW e \in Node,
             <<a, b>> \in Order(buf), <<b, e>> \in Order(buf)
      PROVE  <<a, e>> \in Order(buf)
  <2>1. PICK i \in 0 .. F - 1 : Agree(buf, a, b, i) /\ buf[a + i] < buf[b + i]
    BY <1>2, InOrder
  <2>2. PICK k \in 0 .. F - 1 : Agree(buf, b, e, k) /\ buf[b + k] < buf[e + k]
    BY <1>2, InOrder
  <2>3. /\ buf[a + i] \in Nat /\ buf[b + i] \in Nat /\ buf[e + i] \in Nat
        /\ buf[a + k] \in Nat /\ buf[b + k] \in Nat /\ buf[e + k] \in Nat
    BY Letters
  <2>4. CASE i < k
    <3>1. buf[b + i] = buf[e + i] /\ \A j \in 0 .. i - 1 : j \in 0 .. k - 1
      BY <2>2, <2>4 DEF Agree
    <3>2. Agree(buf, a, e, i)
      BY <2>1, <2>2, <3>1 DEF Agree
    <3>3. QED
      BY <2>1, <3>1, <3>2, InOrder
  <2>5. CASE k < i
    <3>1. buf[a + k] = buf[b + k] /\ \A j \in 0 .. k - 1 : j \in 0 .. i - 1
      BY <2>1, <2>5 DEF Agree
    <3>2. Agree(buf, a, e, k)
      BY <2>1, <2>2, <3>1 DEF Agree
    <3>3. QED
      BY <2>2, <3>1, <3>2, InOrder
  <2>6. CASE i = k
    <3>1. Agree(buf, a, e, i) /\ buf[a + i] < buf[e + i]
      BY <2>1, <2>2, <2>3, <2>6 DEF Agree
    <3>2. QED
      BY <3>1, InOrder
  <2>7. QED
    BY <2>4, <2>5, <2>6
<1>. QED
  BY <1>1, <1>2 DEF StrictOrder

(* A string between two others shares what they have in common.             *)
LEMMA Squeeze ==
  ASSUME NEW buf \in Buffers, NEW a \in Node, NEW b \in Node, NEW e \in Node,
         NEW n \in 0 .. F, Agree(buf, a, e, n),
         \/ <<a, b>> \in Order(buf) /\ <<b, e>> \in Order(buf)
         \/ <<e, b>> \in Order(buf) /\ <<b, a>> \in Order(buf)
  PROVE  Agree(buf, b, e, n)
<1>1. ASSUME NEW f \in Node, NEW g \in Node, Agree(buf, f, g, n),
             <<f, b>> \in Order(buf), <<b, g>> \in Order(buf)
      PROVE  Agree(buf, b, f, n)
  <2>1. PICK i \in 0 .. F - 1 : Agree(buf, f, b, i) /\ buf[f + i] < buf[b + i]
    BY <1>1, InOrder
  <2>2. PICK k \in 0 .. F - 1 : Agree(buf, b, g, k) /\ buf[b + k] < buf[g + k]
    BY <1>1, InOrder
  <2>3. /\ buf[f + i] \in Nat /\ buf[b + i] \in Nat /\ buf[g + i] \in Nat
        /\ buf[f + k] \in Nat /\ buf[b + k] \in Nat /\ buf[g + k] \in Nat
    BY Letters
  <2>4. CASE n <= i
    <3>1. \A j \in 0 .. n - 1 : j \in 0 .. i - 1
      BY <2>4
    <3>2. QED
      BY <2>1, <3>1 DEF Agree
  <2>5. CASE i < n
    <3>1. buf[f + i] = buf[g + i]
      BY <1>1, <2>5 DEF Agree
    <3>2. CASE i < k
      <4>1. buf[b + i] = buf[g + i]
        BY <2>2, <3>2 DEF Agree
      <4>2. QED
        BY <2>1, <2>3, <3>1, <4>1
    <3>3. CASE k <= i
      <4>1. buf[f + k] = buf[g + k]
        BY <1>1, <2>5, <3>3 DEF Agree
      <4>2. k < i => buf[f + k] = buf[b + k]
        BY <2>1 DEF Agree
      <4>3. QED
        BY <2>1, <2>2, <2>3, <3>3, <4>1, <4>2
    <3>4. QED
      BY <3>2, <3>3
  <2>6. QED
    BY <2>4, <2>5
<1>2. Agree(buf, e, a, n)
  BY DEF Agree
<1>3. CASE <<a, b>> \in Order(buf) /\ <<b, e>> \in Order(buf)
  <2>1. Agree(buf, b, a, n)
    BY <1>1, <1>3
  <2>2. QED
    BY <2>1 DEF Agree
<1>4. CASE <<e, b>> \in Order(buf) /\ <<b, a>> \in Order(buf)
  BY <1>1, <1>2, <1>4
<1>. QED
  BY <1>3, <1>4

(* The comparison of InsertNode finds how many bytes two strings have in    *)
(* common.                                                                  *)
LEMMA CommonIs ==
  ASSUME NEW a \in Node, NEW b \in Node, textBuf \in Buffers,
         textBuf[a] = textBuf[b]
  PROVE  /\ Common(a, b) \in 1 .. F /\ Agree(textBuf, a, b, Common(a, b))
         /\ Common(a, b) < F => textBuf[a + Common(a, b)] # textBuf[b + Common(a, b)]
<1>. DEFINE P(i) == /\ \A j \in 1 .. i - 1 : textBuf[a + j] = textBuf[b + j]
                    /\ i < F => textBuf[a + i] # textBuf[b + i]
<1>0. F \in Nat /\ 2 < F + 1 /\ a \in Nat /\ b \in Nat
  BY Sizes DEF Node
<1>1. \E i \in 1 .. F : P(i)
  <2>1. CASE Agree(textBuf, a, b, F)
    <3>1. F \in 1 .. F /\ \A j \in 1 .. F - 1 : j \in 0 .. F - 1
      BY <1>0
    <3>2. P(F)
      BY <2>1, <3>1, <1>0 DEF Agree
    <3>3. QED
      BY <3>1, <3>2
  <2>2. CASE ~Agree(textBuf, a, b, F)
    <3>1. PICK i \in 0 .. F - 1 : Agree(textBuf, a, b, i) /\ textBuf[a + i] # textBuf[b + i]
      BY <2>2, Differ
    <3>2. i # 0
      BY <1>0, <3>1
    <3>3. i \in 1 .. F /\ \A j \in 1 .. i - 1 : j \in 0 .. i - 1
      BY <1>0, <3>2
    <3>4. P(i)
      BY <3>1, <3>3 DEF Agree
    <3>5. QED
      BY <3>3, <3>4
  <2>3. QED
    BY <2>1, <2>2
<1>. DEFINE m == Common(a, b)
<1>2. m = CHOOSE i \in 1 .. F : P(i)
  BY DEF Common
<1>. HIDE DEF m
<1>3. m \in 1 .. F /\ P(m)
  BY <1>1, <1>2
<1>4. Agree(textBuf, a, b, m)
  <2>. SUFFICES ASSUME NEW j \in 0 .. m - 1 PROVE textBuf[a + j] = textBuf[b + j]
    BY DEF Agree
  <2>1. j = 0 \/ j \in 1 .. m - 1
    BY <1>3
  <2>2. QED
    BY <1>0, <1>3, <2>1
<1>. QED
  BY <1>3, <1>4 DEF m

(* Trees stay sorted when bytes change that belong to no string in them.    *)
LEMMA Carried ==
  ASSUME NEW t, NEW D, NEW buf \in Buffers, NEW new \in Buffers,
         WellLinked(t, buf), Sorted(t, D, buf, Order(buf)),
         \A n \in InTree(t) : \A i \in 0 .. F - 1 : new[n + i] = buf[n + i]
  PROVE  WellLinked(t, new) /\ Sorted(t, D, new, Order(new))
<1>1. ASSUME NEW n \in InTree(t) PROVE n \in Node /\ new[n] = buf[n]
  <2>1. n \in Node /\ 0 \in 0 .. F - 1 /\ n + 0 = n
    BY Sizes DEF InTree, Node
  <2>2. QED
    BY <2>1
<1>2. WellLinked(t, new)
  <2>1. ASSUME NEW n \in InTree(t) PROVE HasDad(t, new, n)
    <3>1. HasDad(t, buf, n)
      BY DEF WellLinked
    <3>2. CASE t.dad[n] \in InTree(t)
      <4>1. new[n] = buf[n] /\ new[t.dad[n]] = buf[t.dad[n]]
        BY <1>1, <3>2
      <4>2. QED
        BY <3>1, <4>1 DEF HasDad
    <3>3. CASE t.dad[n] \notin InTree(t)
      BY <1>1, <3>1, <3>3 DEF HasDad
    <3>4. QED
      BY <3>2, <3>3
  <2>2. QED
    BY <2>1 DEF WellLinked
<1>3. ASSUME NEW a \in InTree(t), NEW b \in InTree(t), <<a, b>> \in Order(buf)
      PROVE  <<a, b>> \in Order(new)
  <2>1. PICK i \in 0 .. F - 1 : Agree(buf, a, b, i) /\ buf[a + i] < buf[b + i]
    BY <1>1, <1>3, InOrder
  <2>2. \A j \in 0 .. i - 1 : j \in 0 .. F - 1
    BY Sizes
  <2>3. Agree(new, a, b, i) /\ new[a + i] < new[b + i]
    BY <2>1, <2>2 DEF Agree
  <2>4. QED
    BY <1>1, <2>3, InOrder
<1>4. ASSUME NEW n \in InTree(t) PROVE Between(t, D, Order(new), n)
  <2>1. /\ Between(t, D, Order(buf), n) /\ Branches(t, D, n) /\ Nested(t, D, n)
    BY DEF Sorted
  <2>2. D[t.lson[n]] \subseteq InTree(t) /\ D[t.rson[n]] \subseteq InTree(t)
    BY <2>1 DEF Branches, Nested
  <2>3. QED
    BY <1>3, <2>1, <2>2 DEF Between
<1>5. QED
  BY <1>1, <1>2, <1>4 DEF Sorted

(* A node without sons. *)
Cleared(t, k) == [t EXCEPT !.lson[k] = NIL, !.rson[k] = NIL]

(* ... and when sons are cleared of a node that is not in them.             *)
LEMMA Fresh ==
  ASSUME NEW t, NEW u, NEW D, NEW c, NEW lt, NEW k \in Node, k \notin InTree(t),
         t \in Arrays, WellLinked(t, c), Sorted(t, D, c, lt),
         u = Cleared(t, k)
  PROVE  /\ u \in Arrays /\ WellLinked(u, c) /\ Sorted(u, D, c, lt)
         /\ InTree(u) = InTree(t) /\ u.lson[k] = NIL /\ u.rson[k] = NIL
<1>. USE Places
<1>1. /\ u.dad = t.dad /\ u.lson = [t.lson EXCEPT ![k] = NIL]
      /\ u.rson = [t.rson EXCEPT ![k] = NIL] /\ u \in Arrays
  BY DEF Arrays, Cleared
<1>2. /\ u.lson[k] = NIL /\ u.rson[k] = NIL
      /\ \A n \in Node : n # k => u.lson[n] = t.lson[n] /\ u.rson[n] = t.rson[n]
      /\ \A b \in Bytes : u.rson[Root(b)] = t.rson[Root(b)]
  <2>1. /\ t.lson \in [0 .. N -> 0 .. N] /\ t.rson \in [(0 .. N) \union Roots -> 0 .. N]
        /\ k \in 0 .. N
    BY DEF Arrays
  <2>2. /\ \A n \in 0 .. N : u.lson[n] = IF n = k THEN NIL ELSE t.lson[n]
        /\ \A n \in (0 .. N) \union Roots : u.rson[n] = IF n = k THEN NIL ELSE t.rson[n]
    BY ONLY <1>1, <2>1
  <2>3. QED
    BY <2>1, <2>2
<1>3. InTree(u) = InTree(t)
  BY <1>1 DEF InTree
<1>4. ASSUME NEW n \in InTree(t)
      PROVE  n \in Node /\ n # k /\ u.lson[n] = t.lson[n] /\ u.rson[n] = t.rson[n]
  BY <1>2 DEF InTree
<1>5. WellLinked(u, c)
  <2>1. ASSUME NEW n \in InTree(t) PROVE HasSons(u, n)
    <3>1. HasSons(t, n)
      BY DEF WellLinked
    <3>2. QED
      BY <1>1, <1>4, <3>1 DEF HasSons
  <2>2. ASSUME NEW n \in InTree(t) PROVE HasDad(u, c, n)
    <3>1. HasDad(t, c, n)
      BY DEF WellLinked
    <3>2. QED
      BY <1>1, <1>2, <1>3, <1>4, <3>1 DEF HasDad
  <2>3. QED
    BY <1>1, <1>2, <1>3, <2>1, <2>2 DEF WellLinked
<1>6. ASSUME NEW n \in InTree(t)
      PROVE  /\ Branches(u, D, n) /\ Nested(u, D, n) /\ Between(u, D, lt, n)
             /\ n \in D[u.rson[Root(c[n])]]
  <2>1. /\ Branches(t, D, n) /\ Nested(t, D, n) /\ Between(t, D, lt, n)
        /\ n \in D[t.rson[Root(c[n])]] /\ c[n] \in Bytes
    BY DEF Sorted, WellLinked, HasDad
  <2>2. QED
    BY <1>1, <1>2, <1>3, <1>4, <2>1 DEF Branches, Nested, Between
<1>7. Sorted(u, D, c, lt)
  BY <1>3, <1>6 DEF Sorted
<1>. QED
  BY <1>1, <1>2, <1>3, <1>5, <1>7

-----------------------------------------------------------------------------
(* The text and the ring. *)

Control ==
  /\ bufin \in Seq(Bytes) /\ buflen \in Nat \ {0}
  /\ Len(bufin) = IF buflen < F THEN F ELSE buflen
  /\ bfin \in F .. Len(bufin) /\ len \in 0 .. F /\ (len = F \/ bfin >= buflen)
  /\ s = Pos(Sent + F) /\ r = Pos(Sent)
  /\ todo \in -F .. F + 1 /\ todo + len >= 0 /\ (todo > 0 => bfin = F /\ len = F)
  /\ pc \in {"next", "insert", "delete", "flags", "unit", "string", "done"}
  /\ pc = "delete" => todo < 0
  /\ pc = "insert" => len > 0 /\ todo # 1
  /\ pc \notin {"next", "insert", "delete"} => todo = 0 /\ len = 0

(* What the ring holds: the last N bytes read, and the first F - 1 cells    *)
(* once more as soon as they have been written.                             *)
Written ==
  /\ textBuf \in Buffers
  /\ \A k \in bfin - N .. bfin - 1 :
       /\ textBuf[Pos(k)] = TextAt(k)
       /\ k >= F /\ Pos(k) <= F - 2 => textBuf[N + Pos(k)] = TextAt(k)

(* Each byte of the text is one.                                            *)
LEMMA TextBytes ==
  ASSUME Control, NEW k \in Int, k < Len(bufin)
  PROVE  TextAt(k) \in Bytes
<1>1. Space \in Bytes
  BY LzssAssumption
<1>2. CASE k < 0
  BY <1>1, <1>2 DEF TextAt
<1>3. CASE k >= 0
  <2>1. bufin \in Seq(Bytes) /\ k + 1 \in 1 .. Len(bufin)
    BY <1>3 DEF Control
  <2>2. QED
    BY <1>3, <2>1 DEF TextAt
<1>. QED
  BY <1>2, <1>3

(* Different bytes less than N apart are in different cells.                *)
LEMMA Apart ==
  ASSUME NEW a \in Int, NEW b \in Int, a # b, a < b + N, b < a + N
  PROVE  Pos(a) # Pos(b)
<1>1. CASE a < b
  BY <1>1, Cells
<1>2. CASE b < a
  <2>1. Pos(a) # Pos(b)
    BY <1>2, Cells
  <2>2. QED
    BY <2>1
<1>. QED
  BY <1>1, <1>2

(* Both hold at first.                                                      *)
LEMMA RingBegins ==
  ASSUME Init
  PROVE  Control /\ Written
<1>. USE Sizes
<1>1. PICK input \in Inputs :
        /\ buflen = Len(input)
        /\ \E rest \in [1 .. (IF buflen < F THEN F - buflen ELSE 0) -> Bytes] :
             bufin = input \o rest
  BY DEF Init
<1>2. PICK rest \in [1 .. (IF buflen < F THEN F - buflen ELSE 0) -> Bytes] :
        bufin = input \o rest
  BY <1>1
<1>3. input \in Seq(Bytes) /\ input # <<>>
  BY LzssAssumption
<1>4. buflen \in Nat \ {0}
  BY <1>1, <1>3
<1>5. /\ rest \in Seq(Bytes)
      /\ Len(rest) = IF buflen < F THEN F - buflen ELSE 0
  <2>. DEFINE n == IF buflen < F THEN F - buflen ELSE 0
  <2>1. n \in Nat
    BY <1>4
  <2>2. rest \in [1 .. n -> Bytes]
    BY <1>2
  <2>. HIDE DEF n
  <2>3. rest \in Seq(Bytes) /\ Len(rest) = n
    BY <2>1, <2>2, SeqDef, LenProperties
  <2>4. QED
    BY <2>3 DEF n
<1>6. bufin \in Seq(Bytes) /\ Len(bufin) = IF buflen < F THEN F ELSE buflen
  BY <1>1, <1>2, <1>3, <1>4, <1>5
<1>7. /\ bfin = F /\ len = F /\ s = 0 /\ r = N - F /\ pc = "next" /\ todo = 1
      /\ textBuf = [i \in 0 .. N + F - 2 |->
                      IF i < N - F THEN Space ELSE IF i < N THEN bufin[i - (N - F) + 1] ELSE 0]
  BY DEF Init
<1>8. Sent = 0
  BY <1>7 DEF Sent
<1>9. Pos(0) = N - F /\ Pos(F) = 0
  <2>1. Pos(0) = N - F
    BY FirstCells
  <2>2. Pos(F - N) = 0
    <3>1. F - N \in F - N .. F - 1 /\ F - N + N - F = 0
      OBVIOUS
    <3>2. QED
      BY ONLY <3>1, FirstCells
  <2>4. Pos(F - N) = Pos(F)
    BY Cells
  <2>3. QED
    BY <2>1, <2>2, <2>4
<1>10. Control
  <2>1. bfin \in F .. Len(bufin)
    BY <1>4, <1>6, <1>7
  <2>2. s = Pos(Sent + F) /\ r = Pos(Sent)
    BY <1>7, <1>8, <1>9
  <2>3. /\ len \in 0 .. F /\ len = F /\ todo \in -F .. F + 1 /\ todo + len >= 0
        /\ (todo > 0 => bfin = F /\ len = F) /\ pc = "next"
    BY <1>7
  <2>4. QED
    BY ONLY <1>4, <1>6, <2>1, <2>2, <2>3 DEF Control
<1>11. textBuf \in Buffers
  <2>1. ASSUME NEW i \in 0 .. N + F - 2 PROVE textBuf[i] \in Bytes
    <3>1. Space \in Bytes /\ 0 \in Bytes
      BY LzssAssumption
    <3>2. CASE i < N - F \/ i >= N
      BY <1>7, <3>1, <3>2
    <3>3. CASE i >= N - F /\ i < N
      <4>1. i - (N - F) + 1 \in 1 .. Len(bufin)
        BY <1>4, <1>6, <3>3
      <4>2. bufin[i - (N - F) + 1] \in Bytes
        BY ONLY <1>6, <4>1, ElementOfSeq
      <4>3. QED
        BY <1>7, <3>3, <4>2
    <3>4. QED
      BY <3>2, <3>3
  <2>2. QED
    BY <1>7, <2>1 DEF Buffers
<1>12. ASSUME NEW k \in bfin - N .. bfin - 1
       PROVE  textBuf[Pos(k)] = TextAt(k) /\ ~(k >= F)
  <2>1. k \in F - N .. F - 1
    BY <1>7
  <2>2. Pos(k) = k + N - F /\ k + N - F \in 0 .. N + F - 2
    BY <2>1, FirstCells
  <2>3. k + N - F - (N - F) + 1 = k + 1
    BY <2>1
  <2>4. textBuf[k + N - F] = IF k < 0 THEN Space ELSE bufin[k + 1]
    BY <1>7, <2>1, <2>2, <2>3
  <2>5. QED
    BY <2>1, <2>2, <2>4 DEF TextAt
<1>. QED
  BY <1>10, <1>11, <1>12 DEF Written

(* Each step keeps them.                                                    *)
LEMMA ControlSteps ==
  ASSUME Control, matchLength \in 0 .. F, [Next]_vars
  PROVE  Control'
<1>. USE Sizes
<1>0. /\ bfin \in Nat /\ len \in Nat /\ todo \in Int /\ Sent \in Int
      /\ Len(bufin) \in Nat
  BY DEF Control, Sent
<1>1. ASSUME s' = Wrap(s + 1), r' = Wrap(r + 1), Sent' = Sent + 1
      PROVE  s' = Pos(Sent' + F) /\ r' = Pos(Sent')
  <2>1. Wrap(Pos(Sent + F) + 1) = Pos(Sent + F + 1) /\ Wrap(Pos(Sent) + 1) = Pos(Sent + 1)
    BY <1>0, NextCell
  <2>2. Sent' + F = Sent + F + 1
    BY <1>0, <1>1
  <2>3. QED
    BY <1>1, <2>1, <2>2 DEF Control
<1>2. CASE InsertFirst
  <2>1. /\ todo' \in -F .. F + 1 /\ todo' + len >= 0 /\ todo' # 1
        /\ (todo' > 0 => bfin = F /\ len = F)
    BY <1>2 DEF InsertFirst, Control
  <2>2. UNCHANGED <<inVars, bfin, s, r, len>> /\ pc' = "insert" /\ Sent' = Sent /\ len > 0
    BY <1>2 DEF InsertFirst, InsertNode, Sent, Control
  <2>3. QED
    BY <2>1, <2>2 DEF Control, inVars
<1>3. CASE Descend
  <2>1. /\ UNCHANGED <<todo, inVars, ringVars>> /\ pc' \in {"next", "insert"}
        /\ pc = "insert"
    BY <1>3 DEF Descend
  <2>2. Sent' = Sent
    BY <2>1 DEF Sent, ringVars
  <2>3. QED
    BY <2>1, <2>2 DEF Control, inVars, ringVars
<1>4. CASE SendUnit
  <2>1. UNCHANGED <<inVars, ringVars, pc>> /\ pc = "next" /\ len > 0 /\ todo' = -matchLength'
    BY <1>4 DEF SendUnit
  <2>2. Sent' = Sent
    BY <2>1 DEF Sent, ringVars
  <2>3. matchLength' \in 1 .. len
    <3>. DEFINE n == Smaller(matchLength, len)
    <3>1. n \in 0 .. len
      BY <1>0 DEF Smaller
    <3>2. matchLength' = (IF n <= Threshold THEN 1 ELSE n) /\ len > 0
      BY <1>4 DEF SendUnit
    <3>. HIDE DEF n
    <3>3. QED
      <4>1. len \in Nat /\ Threshold \in Nat \ {0}
        BY <1>0
      <4>2. QED
        BY ONLY <3>1, <3>2, <4>1
  <2>4. todo' \in -F .. F + 1 /\ todo' + len >= 0 /\ ~(todo' > 0)
    <3>1. len \in 0 .. F /\ F \in Nat
      BY DEF Control
    <3>2. PICK m \in 1 .. len : matchLength' = m
      BY <2>3
    <3>3. todo' = -m
      BY <2>1, <3>2
    <3>4. -m \in -F .. F + 1 /\ -m + len >= 0 /\ ~(-m > 0)
      BY ONLY <3>1, m \in 1 .. len
    <3>5. QED
      BY ONLY <3>3, <3>4
  <2>5. QED
    BY <2>1, <2>2, <2>4 DEF Control, inVars, ringVars
<1>5. CASE BeginDelete \/ WalkRight
  <2>1. UNCHANGED <<inVars, ringVars, todo>> /\ pc' = "delete" /\ todo < 0
    BY <1>5 DEF BeginDelete, WalkRight, Control
  <2>2. Sent' = Sent
    BY <2>1 DEF Sent, ringVars
  <2>3. QED
    BY <2>1, <2>2 DEF Control, inVars, ringVars
<1>6. CASE ShiftIn
  <2>1. /\ UNCHANGED <<inVars, len>> /\ pc' = "insert" /\ pc = "delete" /\ bfin' = bfin + 1
        /\ todo' = todo + 1 /\ bfin < buflen /\ s' = Wrap(s + 1) /\ r' = Wrap(r + 1)
    BY <1>6 DEF ShiftIn, InsertNode, Found
  <2>2. Sent' = Sent + 1 /\ len = F /\ todo < 0
    BY <1>0, <2>1 DEF Sent, Control
  <2>3. bfin' \in F .. Len(bufin) /\ todo' \in -F .. F + 1 /\ todo' + len >= 0 /\ ~(todo' > 0)
        /\ todo' # 1
    BY <1>0, <2>1, <2>2 DEF Control
  <2>4. s' = Pos(Sent' + F) /\ r' = Pos(Sent')
    BY <1>1, <2>1, <2>2
  <2>5. QED
    BY <2>1, <2>2, <2>3, <2>4 DEF Control, inVars
<1>7. CASE ShiftOut
  <2>1. /\ UNCHANGED <<inVars, bfin>> /\ pc = "delete" /\ len' = len - 1
        /\ pc' = (IF len' # 0 THEN "insert" ELSE "next")
        /\ todo' = todo + 1 /\ bfin >= buflen /\ s' = Wrap(s + 1) /\ r' = Wrap(r + 1)
    BY <1>7 DEF ShiftOut, InsertNode, Found
  <2>2. Sent' = Sent + 1 /\ todo < 0 /\ len > 0
    BY <1>0, <2>1 DEF Sent, Control
  <2>3. todo' \in -F .. F + 1 /\ todo' + len' >= 0 /\ ~(todo' > 0) /\ todo' # 1
        /\ len' \in 0 .. F
    BY <1>0, <2>1, <2>2 DEF Control
  <2>4. s' = Pos(Sent' + F) /\ r' = Pos(Sent')
    BY <1>1, <2>1, <2>2
  <2>5. QED
    BY <1>0, <2>1, <2>2, <2>3, <2>4 DEF Control, inVars
<1>8. CASE Finish
  <2>1. /\ UNCHANGED <<inVars, ringVars, todo>> /\ pc' = "flags" /\ todo = 0 /\ len = 0
    BY <1>8 DEF Finish
  <2>2. Sent' = Sent
    BY <2>1 DEF Sent, ringVars
  <2>3. QED
    BY <2>1, <2>2 DEF Control, inVars, ringVars
<1>9. CASE LzssDecodeVram
  <2>1. /\ UNCHANGED <<inVars, ringVars, todo>> /\ pc' \in {"flags", "unit", "string", "done"}
        /\ pc \in {"flags", "unit", "string"}
    BY <1>9 DEF LzssDecodeVram, ReadFlags, CopyByte, ReadPair, CopyString, DecodeDone, NextFlag
  <2>2. Sent' = Sent
    BY <2>1 DEF Sent, ringVars
  <2>3. QED
    BY <2>1, <2>2 DEF Control, inVars, ringVars
<1>10. CASE UNCHANGED vars
  <2>1. UNCHANGED <<inVars, ringVars, todo, pc>>
    BY <1>10 DEF vars
  <2>2. Sent' = Sent
    BY <2>1 DEF Sent, ringVars
  <2>3. QED
    BY <2>1, <2>2 DEF Control, inVars, ringVars
<1>. QED
  BY <1>2, <1>3, <1>4, <1>5, <1>6, <1>7, <1>8, <1>9, <1>10 DEF Next, Compress

(* What the ring holds moves on with it.                                    *)
LEMMA WrittenSteps ==
  ASSUME Control, Written, [Next]_vars
  PROVE  Written'
<1>. USE Sizes
<1>0. /\ bfin \in Nat /\ len \in Nat /\ Sent \in Int
      /\ Len(bufin) \in Nat
  BY DEF Control, Sent
<1>1. CASE ~ShiftIn
  <2>1. UNCHANGED <<bufin, bfin, textBuf>>
    BY <1>1 DEF Next, Compress, InsertFirst, Descend, SendUnit, BeginDelete, WalkRight, ShiftOut,
       Finish, LzssDecodeVram, ReadFlags, CopyByte, ReadPair, CopyString, DecodeDone,
       vars, inVars, ringVars
  <2>2. QED
    BY <2>1 DEF Written, TextAt
<1>2. CASE ShiftIn
  <2>1. /\ bfin < buflen /\ bfin' = bfin + 1 /\ bufin' = bufin
        /\ textBuf' = [i \in DOMAIN textBuf |->
                         IF i = s \/ (s < F - 1 /\ i = s + N) THEN bufin[bfin + 1]
                                                              ELSE textBuf[i]]
    BY <1>2 DEF ShiftIn, inVars
  <2>2. s = Pos(bfin) /\ s \in Node /\ DOMAIN textBuf = 0 .. N + F - 2
    <3>1. Sent + F = bfin
      BY <1>0, <2>1 DEF Control, Sent
    <3>2. s = Pos(bfin)
      BY <3>1 DEF Control
    <3>3. DOMAIN textBuf = 0 .. N + F - 2
      BY DEF Written, Buffers
    <3>4. QED
      BY <1>0, <3>2, <3>3, Cells
  <2>3. bufin[bfin + 1] = TextAt(bfin) /\ TextAt(bfin) \in Bytes
    <3>1. bfin < Len(bufin)
      BY <1>0, <2>1 DEF Control
    <3>2. QED
      BY <1>0, <3>1, TextBytes DEF TextAt
  <2>4. \A i \in 0 .. N + F - 2 :
          textBuf'[i] = IF i = s \/ (s < F - 1 /\ i = s + N) THEN TextAt(bfin) ELSE textBuf[i]
    BY <2>1, <2>2, <2>3
  <2>5. textBuf' \in Buffers
    <3>1. \A i \in 0 .. N + F - 2 : textBuf[i] \in Bytes
      BY DEF Written, Buffers
    <3>2. QED
      BY <2>1, <2>2, <2>3, <3>1 DEF Buffers
  <2>6. ASSUME NEW k \in bfin' - N .. bfin' - 1
        PROVE  /\ textBuf'[Pos(k)] = TextAt(k)
               /\ k >= F /\ Pos(k) <= F - 2 => textBuf'[N + Pos(k)] = TextAt(k)
    <3>1. k \in Int /\ Pos(k) \in Node
      BY <1>0, <2>1, Cells
    <3>2. Pos(k) \in 0 .. N + F - 2 /\ (Pos(k) <= F - 2 => N + Pos(k) \in 0 .. N + F - 2)
      BY <3>1 DEF Node
    <3>3. CASE k = bfin
      BY <2>2, <2>4, <3>2, <3>3 DEF Node
    <3>4. CASE k # bfin
      <4>1. Pos(k) # s /\ k \in bfin - N .. bfin - 1
        <5>1. k \in bfin - N .. bfin - 1 /\ k + N > bfin /\ k < bfin + N
          BY <1>0, <2>1, <3>1, <3>4
        <5>2. Pos(k) # Pos(bfin)
          BY <1>0, <3>1, <3>4, <5>1, Apart
        <5>3. QED
          BY <2>2, <5>1, <5>2
      <4>2. /\ textBuf[Pos(k)] = TextAt(k)
            /\ k >= F /\ Pos(k) <= F - 2 => textBuf[N + Pos(k)] = TextAt(k)
        BY <4>1 DEF Written
      <4>3. Pos(k) # s + N /\ N + Pos(k) # s /\ N + Pos(k) # s + N
        BY <2>2, <3>1, <4>1 DEF Node
      <4>4. QED
        BY <2>4, <3>2, <4>1, <4>2, <4>3
    <3>5. QED
      BY <3>3, <3>4
  <2>7. \A k \in Int : TextAt(k)' = TextAt(k)
    BY <2>1 DEF TextAt
  <2>8. ASSUME NEW k \in bfin' - N .. bfin' - 1
        PROVE  /\ textBuf'[Pos(k)] = TextAt(k)'
               /\ k >= F /\ Pos(k) <= F - 2 => textBuf'[N + Pos(k)] = TextAt(k)'
    BY <1>0, <2>1, <2>6 DEF TextAt
  <2>9. QED
    BY <2>5, <2>8 DEF Written
<1>. QED
  BY <1>1, <1>2

(* The string of a node is the text from its byte on, as far as it is read. *)
LEMMA StringsAre ==
  ASSUME Control, Written, NEW k \in Int, NEW i \in 0 .. F - 1,
         k >= F - N, k + i \in bfin - N .. bfin - 1, k < bfin
  PROVE  textBuf[Pos(k) + i] = TextAt(k + i)
<1>. USE Sizes
<1>1. /\ Pos(k) \in 0 .. N - 1 /\ k + i \in Int /\ i \in 0 .. N - 1
      /\ bfin \in Nat
  <2>1. Pos(k) \in Node /\ bfin \in F .. Len(bufin)
    BY Cells DEF Control
  <2>2. F <= N
    OBVIOUS
  <2>3. QED
    BY <2>1, <2>2 DEF Node
<1>2. CASE Pos(k) + i < N
  BY <1>1, <1>2, CellsOfString DEF Written
<1>3. CASE Pos(k) + i >= N
  <2>1. Pos(k + i) = Pos(k) + i - N
    BY <1>1, <1>3, CellsOfString
  <2>2. k + i >= F
    <3>1. CASE k <= F - 1
      <4>1. Pos(k) = k + N - F
        BY <3>1, FirstCells
      <4>2. QED
        BY <1>1, <1>3, <4>1
    <3>2. CASE k >= F
      BY <3>2
    <3>3. QED
      BY <3>1, <3>2
  <2>3. Pos(k + i) <= F - 2 /\ N + Pos(k + i) = Pos(k) + i
    BY <1>1, <2>1
  <2>4. QED
    BY <2>2, <2>3 DEF Written
<1>. QED
  BY <1>1, <1>2, <1>3

-----------------------------------------------------------------------------
(* The compressor's trees as they grow and shrink. *)

(* The byte of the text whose string is inserted, and those whose strings   *)
(* may be in the trees.                                                     *)
Key == IF todo > 0 THEN 1 - todo ELSE Sent

Live ==
  IF todo > 0 THEN (IF pc = "insert" THEN 2 - todo ELSE 1 - todo) .. -1
  ELSE {k \in -F .. (IF pc = "insert" \/ len = 0 THEN Sent - 1 ELSE Sent) : k >= Sent - (N - F)}

Nodes(K) == {Pos(k) : k \in K}

(* Where the search has come to the new string belongs, and what it has     *)
(* passed by has no more in common with it than the match found.            *)
Side == IF cmp >= 0 THEN tree.rson[p] ELSE tree.lson[p]

Seeking(D) ==
  /\ cmp \in Int
  /\ \/ p = Root(textBuf[key]) /\ cmp >= 0
     \/ /\ p \in InTree(tree) /\ textBuf[p] = textBuf[key]
        /\ IF cmp >= 0 THEN <<p, key>> \in Order(textBuf) ELSE <<key, p>> \in Order(textBuf)
  /\ Belongs(tree, D, Order(textBuf), p, key)
  /\ \A q \in InTree(tree) : \/ q \in D[Side]
                             \/ \A i \in 1 .. F : Agree(textBuf, q, key, i) => i <= matchLength

(* The search for the greatest node on the left of s.                       *)
Walking(D) ==
  /\ last \in D[tree.lson[s]] /\ textBuf[last] = textBuf[s]
  /\ \A q \in D[tree.lson[s]] : q \in D[last] \/ <<q, last>> \in Order(textBuf)

(* The match found is there.                                                *)
Matched ==
  /\ matchPosition \in Node /\ matchLength \in 0 .. F
  /\ (pc = "insert" \/ (pc = "next" /\ todo = 0 /\ len > 0)) =>
       /\ key = Pos(Key)
       /\ matchLength > 0 => /\ \E k \in Live : k # Key /\ matchPosition = Pos(k)
                             /\ Agree(textBuf, matchPosition, key, matchLength)
       /\ matchLength \in 1 .. F - 1 =>
            textBuf[matchPosition + matchLength] # textBuf[key + matchLength]

(* Each string that a match may begin with is in the trees, or one equal to *)
(* it that leaves them no sooner.                                           *)
Past == {k \in Live : k >= 0 \/ Sent <= N - 2 * F}

Covered ==
  \A k \in Past : \E m \in Live : /\ Pos(m) \in InTree(tree) /\ (k >= 0 => m >= k)
                                  /\ Agree(textBuf, Pos(m), Pos(k), F)

(* None of them has more in common with the text to be sent than is found.  *)
Unbeaten ==
  pc = "next" /\ todo = 0 /\ len > 0 =>
    \A k \in Past : \/ k = Key
                    \/ \A i \in 1 .. F : Agree(textBuf, Pos(k), key, i) => i <= matchLength

Trees ==
  /\ tree \in Arrays /\ WellLinked(tree, textBuf) /\ InTree(tree) \subseteq Nodes(Live)
  /\ last \in 0 .. N
  /\ pc = "insert" => tree.lson[key] = NIL /\ tree.rson[key] = NIL
  /\ \E D : /\ Sorted(tree, D, textBuf, Order(textBuf))
            /\ pc = "insert" => Seeking(D)
            /\ pc = "delete" /\ TwoSons(s) => Walking(D)

(* The string that is inserted is no other's.                               *)
LEMMA LiveKeys ==
  ASSUME Control
  PROVE  /\ Live \subseteq Int /\ Key \in Int
         /\ \A k \in Live : k <= Sent /\ k >= -F /\ Pos(k) \in Node
         /\ Pos(Key) \in Node
         /\ pc = "insert" => /\ Key \notin Live /\ Pos(Key) \notin Nodes(Live)
                             /\ todo > 0 => \A k \in Live : k > Key
                             /\ todo <= 0 => \A k \in Live : k < Key
<1>. USE Sizes
<1>1. /\ Sent \in Int /\ todo \in Int /\ Sent <= Len(bufin) /\ Len(bufin) \in Nat
      /\ todo > 0 => Sent = 0 /\ todo <= F + 1
      /\ Len(bufin) >= F /\ Sent >= 0
  BY DEF Control, Sent
<1>2. CASE todo > 0
  <2>1. Key = 1 - todo /\ Live = (IF pc = "insert" THEN 2 - todo ELSE 1 - todo) .. -1
    BY <1>2 DEF Key, Live
  <2>2. \A k \in Live : k \in Int /\ k <= Sent /\ k >= -F
    BY <1>1, <1>2, <2>1
  <2>3. Key \in Int /\ (pc = "insert" => \A k \in Live : k > Key /\ k < Key + N)
    BY <1>1, <1>2, <2>1
  <2>4. pc = "insert" => Key \notin Live /\ Pos(Key) \notin Nodes(Live)
    <3>. SUFFICES ASSUME pc = "insert", NEW k \in Live, Pos(Key) = Pos(k) \/ Key = k
                  PROVE  FALSE
      BY DEF Nodes
    <3>1. k \in Int /\ k > Key /\ k < Key + N
      BY <2>2, <2>3
    <3>2. QED
      BY <2>3, <3>1, Apart
  <2>. HIDE DEF Key, Live
  <2>5. QED
    <3>1. Pos(Key) \in Node /\ \A k \in Live : Pos(k) \in Node
      BY <2>2, <2>3, Cells
    <3>2. QED
      BY <1>1, <1>2, <2>2, <2>3, <2>4, <3>1
<1>3. CASE todo <= 0
  <2>1. /\ Key = Sent
        /\ Live = {k \in -F .. (IF pc = "insert" \/ len = 0 THEN Sent - 1 ELSE Sent) : k >= Sent - (N - F)}
    BY <1>1, <1>3 DEF Key, Live
  <2>2. \A k \in Live : /\ k \in Int /\ k >= -F /\ k >= Sent - (N - F) /\ k <= Sent
                        /\ pc = "insert" => k < Sent
    BY <1>1, <2>1
  <2>3. Pos(Key) \in Node /\ \A k \in Live : Pos(k) \in Node
    BY <1>1, <2>1, <2>2, Cells
  <2>4. pc = "insert" => Key \notin Live /\ Pos(Key) \notin Nodes(Live)
    <3>. SUFFICES ASSUME pc = "insert", NEW k \in Live, Pos(Key) = Pos(k) \/ Key = k
                  PROVE  FALSE
      BY DEF Nodes
    <3>1. k \in Int /\ k < Key /\ Key < k + N
      BY <1>1, <2>1, <2>2
    <3>2. QED
      BY <1>1, <2>1, <3>1, Apart
  <2>. HIDE DEF Key, Live
  <2>5. QED
    <3>1. Live \subseteq Int /\ Key \in Int /\ \A k \in Live : k <= Sent /\ k >= -F
      BY <1>1, <2>1, <2>2
    <3>2. pc = "insert" => \A k \in Live : k < Key
      BY <1>1, <2>1, <2>2
    <3>3. QED
      BY <1>1, <1>3, <2>3, <2>4, <3>1, <3>2
<1>. QED
  BY <1>1, <1>2, <1>3

(* The son the search goes on with belongs to the same tree.                *)
LEMMA SideIs ==
  ASSUME Control, Written, Trees, Matched, pc = "insert", NEW D,
         Sorted(tree, D, textBuf, Order(textBuf)), Seeking(D)
  PROVE  /\ key \in Node /\ key \notin InTree(tree) /\ textBuf[key] \in Bytes
         /\ (p \in InTree(tree) /\ p \notin Roots) \/ (p = Root(textBuf[key]) /\ cmp >= 0)
         /\ \/ Side = NIL
            \/ /\ Side \in InTree(tree) /\ textBuf[Side] = textBuf[key]
               /\ tree.dad[Side] = p
<1>. USE Places
<1>1. key = Pos(Key) /\ key \in Node /\ key \notin InTree(tree)
  <2>1. key = Pos(Key)
    BY DEF Matched
  <2>2. Pos(Key) \in Node /\ Pos(Key) \notin Nodes(Live)
    BY LiveKeys
  <2>3. InTree(tree) \subseteq Nodes(Live)
    BY DEF Trees
  <2>4. QED
    BY <2>1, <2>2, <2>3
<1>2. textBuf[key] \in Bytes
  <2>1. textBuf \in Buffers /\ 0 \in 0 .. F - 1 /\ key + 0 = key
    BY <1>1, Sizes DEF Written, Node
  <2>2. QED
    BY <1>1, <2>1, Letters
<1>3. (p \in InTree(tree) /\ p \notin Roots) \/ (p = Root(textBuf[key]) /\ cmp >= 0)
  <2>1. InTree(tree) \intersect Roots = {}
    BY DEF InTree, Roots
  <2>2. p \in InTree(tree) \/ (p = Root(textBuf[key]) /\ cmp >= 0)
    BY Zenon DEF Seeking
  <2>3. QED
    BY <2>1, <2>2
<1>4. ASSUME Side # NIL
      PROVE  Side \in InTree(tree) /\ textBuf[Side] = textBuf[key] /\ tree.dad[Side] = p
  <2>1. WellLinked(tree, textBuf)
    BY DEF Trees
  <2>2. CASE p \in InTree(tree) /\ p \notin Roots
    <3>1. HasSons(tree, p) /\ textBuf[p] = textBuf[key]
      <4>1. p # Root(textBuf[key])
        BY <1>2, <2>2
      <4>2. QED
        BY <2>1, <2>2, <4>1 DEF WellLinked, Seeking
    <3>2. Side \in Node /\ tree.dad[Side] = p
      BY <1>4, <3>1 DEF HasSons, Side
    <3>3. Side \in InTree(tree) /\ p \in Node
      BY <2>2, <3>2 DEF InTree
    <3>4. HasDad(tree, textBuf, Side)
      BY <2>1, <3>3 DEF WellLinked
    <3>5. textBuf[Side] = textBuf[p]
      BY <3>2, <3>3, <3>4 DEF HasDad
    <3>6. QED
      BY <3>1, <3>2, <3>3, <3>5
  <2>3. CASE p = Root(textBuf[key]) /\ cmp >= 0
    <3>1. Side = tree.rson[Root(textBuf[key])]
      BY <2>3 DEF Side
    <3>2. Side \in Node /\ tree.dad[Side] = p
      BY <1>2, <1>4, <2>1, <2>3, <3>1 DEF WellLinked
    <3>3. Side \in InTree(tree) /\ p \notin Node
      BY <1>2, <2>3, <3>2 DEF InTree
    <3>4. HasDad(tree, textBuf, Side)
      BY <2>1, <3>3 DEF WellLinked
    <3>5. textBuf[Side] \in Bytes /\ Root(textBuf[Side]) = Root(textBuf[key])
      BY <2>3, <3>2, <3>3, <3>4 DEF HasDad, InTree
    <3>6. QED
      BY <1>2, <3>2, <3>3, <3>5
  <2>4. QED
    BY <1>3, <2>2, <2>3
<1>. QED
  BY <1>1, <1>2, <1>3, <1>4

(* An empty place takes the new string.                                     *)
LEMMA Grafting ==
  ASSUME NEW t, NEW u, NEW c, NEW d, NEW a \in Node, NEW right \in BOOLEAN,
         t \in Arrays, a \notin InTree(t), c[a] \in Bytes,
         (d \in InTree(t) /\ c[d] = c[a]) \/ (d = Root(c[a]) /\ right),
         t.lson[a] = NIL, t.rson[a] = NIL,
         IF right THEN t.rson[d] = NIL ELSE t.lson[d] = NIL,
         u = IF right THEN [t EXCEPT !.rson[d] = a, !.dad[a] = d]
                      ELSE [t EXCEPT !.lson[d] = a, !.dad[a] = d]
  PROVE  u \in Arrays /\ Grafted(t, u, c, d, a, ~right)
<1>. USE Places
<1>1. /\ d \in (0 .. N) \union Roots /\ d \in Nat /\ a \in 0 .. N
      /\ ~right => d \in 0 .. N
      /\ t.lson \in [0 .. N -> 0 .. N] /\ t.rson \in [(0 .. N) \union Roots -> 0 .. N]
      /\ t.dad \in [0 .. N -> Nat]
  BY DEF InTree, Arrays
<1>2. /\ u.dad = [t.dad EXCEPT ![a] = d]
      /\ u.lson = IF right THEN t.lson ELSE [t.lson EXCEPT ![d] = a]
      /\ u.rson = IF right THEN [t.rson EXCEPT ![d] = a] ELSE t.rson
      /\ u = [lson |-> u.lson, rson |-> u.rson, dad |-> u.dad]
  <2>1. CASE right
    BY <2>1 DEF Arrays
  <2>2. CASE ~right
    BY <2>2 DEF Arrays
  <2>3. QED
    BY <2>1, <2>2
<1>3. /\ \A k \in 0 .. N : u.dad[k] = IF k = a THEN d ELSE t.dad[k]
      /\ \A k \in 0 .. N : u.lson[k] = IF ~right /\ k = d THEN a ELSE t.lson[k]
      /\ \A k \in (0 .. N) \union Roots : u.rson[k] = IF right /\ k = d THEN a ELSE t.rson[k]
  BY ONLY <1>1, <1>2
<1>4. u \in Arrays
  <2>1. u.dad \in [0 .. N -> Nat]
    BY ONLY <1>1, <1>2
  <2>2. u.lson \in [0 .. N -> 0 .. N]
    BY ONLY <1>1, <1>2
  <2>3. u.rson \in [(0 .. N) \union Roots -> 0 .. N]
    BY ONLY <1>1, <1>2
  <2>4. QED
    BY ONLY <1>2, <2>1, <2>2, <2>3 DEF Arrays
<1>5. \A k \in InTree(t) \union {a} : k \in 0 .. N
  BY DEF InTree
<1>. QED
  <2>1. \A k \in Node : u.dad[k] = IF k = a THEN d ELSE t.dad[k]
    BY <1>3
  <2>2. \A k \in InTree(t) \union {a} :
          /\ u.lson[k] = IF ~right /\ k = d THEN a ELSE t.lson[k]
          /\ u.rson[k] = IF ~~right /\ k = d THEN a ELSE t.rson[k]
    BY <1>3, <1>5
  <2>3. \A b \in Bytes :
          u.rson[Root(b)] = IF ~~right /\ Root(b) = d THEN a ELSE t.rson[Root(b)]
    BY <1>3
  <2>4. (d = Root(c[a]) /\ ~~right) \/ (d \in InTree(t) /\ c[d] = c[a])
    OBVIOUS
  <2>5. IF ~right THEN t.lson[d] = NIL ELSE t.rson[d] = NIL
    OBVIOUS
  <2>6. Grafted(t, u, c, d, a, ~right)
    BY <2>1, <2>2, <2>3, <2>4, <2>5, Zenon DEF Grafted
  <2>7. QED
    BY <1>4, <2>6


(* They hold at first.                                                      *)
LEMMA SearchBegins ==
  ASSUME Init
  PROVE  Trees /\ Matched /\ Covered /\ Unbeaten
<1>. USE Places
<1>1. /\ tree = [lson |-> [i \in 0 .. N |-> 0],
                 rson |-> [i \in (0 .. N) \union {Root(c) : c \in Bytes} |->
                             IF i > N THEN NIL ELSE 0],
                 dad  |-> [i \in 0 .. N |-> IF i < N THEN NIL ELSE 0]]
      /\ pc = "next" /\ todo = 1 /\ last = 0 /\ matchPosition = 0 /\ matchLength = 0
  BY DEF Init
<1>2. tree.lson = [i \in 0 .. N |-> 0]
  BY <1>1
<1>3. tree.dad = [i \in 0 .. N |-> IF i < N THEN NIL ELSE 0]
  BY <1>1
<1>4. tree.rson = [i \in (0 .. N) \union Roots |-> IF i > N THEN NIL ELSE 0]
  BY <1>1 DEF Roots
<1>5. N \in Nat /\ NIL = N /\ 0 \in 0 .. N /\ NIL \in 0 .. N /\ 0 \in Node
  BY Sizes DEF NIL, Node
<1>6. tree \in Arrays
  <2>1. tree = [lson |-> tree.lson, rson |-> tree.rson, dad |-> tree.dad]
    BY <1>1
  <2>2. tree.lson \in [0 .. N -> 0 .. N] /\ tree.dad \in [0 .. N -> Nat]
    BY <1>2, <1>3, <1>5
  <2>3. tree.rson \in [(0 .. N) \union Roots -> 0 .. N]
    BY <1>4, <1>5
  <2>4. QED
    BY ONLY <2>1, <2>2, <2>3 DEF Arrays
<1>7. InTree(tree) = {}
  BY <1>3, <1>5 DEF InTree, Node
<1>8. \A b \in Bytes : tree.rson[Root(b)] = NIL
  BY <1>4, <1>5 DEF Root, Roots
<1>9. Live = {}
  BY <1>1 DEF Live
<1>10. WellLinked(tree, textBuf)
  BY <1>7, <1>8 DEF WellLinked
<1>. DEFINE D == [k \in 0 .. N |-> {}]
<1>11. Sorted(tree, D, textBuf, Order(textBuf))
  BY <1>5, <1>7 DEF Sorted
<1>12. Trees
  BY <1>1, <1>5, <1>6, <1>7, <1>10, <1>11 DEF Trees
<1>. QED
  BY <1>1, <1>5, <1>9, <1>12, Sizes DEF Matched, Covered, Past, Unbeaten

(* The search for the place of a string begins at its root.                 *)
LEMMA InsertBegins ==
  ASSUME NEW t, NEW k \in Node, NEW D, InsertNode(t, k), textBuf' \in Buffers,
         t \in Arrays, WellLinked(t, textBuf'),
         Sorted(t, D, textBuf', Order(textBuf')), k \notin InTree(t)
  PROVE  /\ tree' \in Arrays /\ WellLinked(tree', textBuf') /\ InTree(tree') = InTree(t)
         /\ Sorted(tree', D, textBuf', Order(textBuf')) /\ Seeking(D)'
         /\ tree'.lson[key'] = NIL /\ tree'.rson[key'] = NIL
         /\ matchLength' = 0 /\ matchPosition' = matchPosition /\ key' = k /\ pc' = "insert"
<1>. USE Places
<1>1. /\ key' = k /\ p' = Root(textBuf'[k]) /\ cmp' = 1 /\ matchLength' = 0
      /\ tree' = [t EXCEPT !.lson[k] = NIL, !.rson[k] = NIL]
      /\ matchPosition' = matchPosition /\ pc' = "insert"
  BY DEF InsertNode
<1>2. /\ tree' \in Arrays /\ WellLinked(tree', textBuf')
      /\ Sorted(tree', D, textBuf', Order(textBuf'))
      /\ InTree(tree') = InTree(t) /\ tree'.lson[k] = NIL /\ tree'.rson[k] = NIL
  <2>. DEFINE c == textBuf'
              lt == Order(textBuf')
              u == tree'
  <2>1. u = Cleared(t, k)
    BY <1>1 DEF Cleared
  <2>2. WellLinked(t, c) /\ Sorted(t, D, c, lt)
    OBVIOUS
  <2>. HIDE DEF c, lt, u
  <2>3. /\ u \in Arrays /\ WellLinked(u, c) /\ Sorted(u, D, c, lt)
        /\ InTree(u) = InTree(t) /\ u.lson[k] = NIL /\ u.rson[k] = NIL
    BY ONLY k \in Node, k \notin InTree(t), t \in Arrays, <2>1, <2>2, Fresh
  <2>4. QED
    BY <2>3 DEF c, lt, u
<1>3. textBuf'[k] \in Bytes
  <2>1. 0 \in 0 .. F - 1 /\ k + 0 = k
    BY Sizes DEF Node
  <2>2. QED
    BY <2>1, Letters
<1>4. Belongs(tree', D, Order(textBuf'), p', key')
  <2>. SUFFICES ASSUME NEW m \in InTree(tree'),
                       p' \in D[tree'.lson[m]] \/ p' \in D[tree'.rson[m]]
                PROVE  FALSE
    BY DEF Belongs
  <2>1. D \in [0 .. N -> SUBSET Node] /\ m \in 0 .. N
    BY <1>2 DEF Sorted, InTree
  <2>2. tree'.lson[m] \in 0 .. N /\ tree'.rson[m] \in 0 .. N
    BY <1>2, <2>1 DEF Arrays
  <2>3. p' \in Node
    BY <2>1, <2>2
  <2>4. QED
    BY <1>1, <1>3, <2>3
<1>5. ASSUME NEW q \in InTree(tree'), NEW i \in 1 .. F, Agree(textBuf', q, key', i)
      PROVE  q \in D[Side']
  <2>1. 0 \in 0 .. i - 1 /\ q + 0 = q /\ k + 0 = k
    BY DEF InTree, Node
  <2>2. textBuf'[q] = textBuf'[k]
    BY <1>1, <1>5, <2>1 DEF Agree
  <2>3. Side' = tree'.rson[Root(textBuf'[k])]
    BY <1>1 DEF Side
  <2>4. QED
    BY <1>2, <2>2, <2>3 DEF Sorted
<1>6. Seeking(D)'
  <2>1. cmp' \in Int /\ cmp' >= 0 /\ p' = Root(textBuf'[key'])
    BY <1>1
  <2>2. \A q \in InTree(tree') :
          \/ q \in D[Side']
          \/ \A i \in 1 .. F : Agree(textBuf', q, key', i) => i <= matchLength'
    BY <1>5
  <2>. QED
    BY <1>4, <2>1, <2>2, Zenon DEF Seeking
<1>. QED
  BY <1>1, <1>2, <1>6

(* Equal strings have the same place in the order.                          *)
LEMMA EqualOrder ==
  ASSUME NEW buf \in Buffers, NEW a \in Node, NEW b \in Node, NEW e \in Node,
         Agree(buf, a, b, F)
  PROVE  /\ <<a, e>> \in Order(buf) <=> <<b, e>> \in Order(buf)
         /\ <<e, a>> \in Order(buf) <=> <<e, b>> \in Order(buf)
<1>1. ASSUME NEW f \in Node, NEW g \in Node, Agree(buf, f, g, F)
      PROVE  /\ <<f, e>> \in Order(buf) => <<g, e>> \in Order(buf)
             /\ <<e, f>> \in Order(buf) => <<e, g>> \in Order(buf)
  <2>0. ASSUME NEW i \in 0 .. F - 1
        PROVE  buf[f + i] = buf[g + i] /\ (\A j \in 0 .. i - 1 : j \in 0 .. F - 1)
    BY <1>1, Sizes DEF Agree
  <2>1. ASSUME <<f, e>> \in Order(buf) PROVE <<g, e>> \in Order(buf)
    <3>1. PICK i \in 0 .. F - 1 : Agree(buf, f, e, i) /\ buf[f + i] < buf[e + i]
      BY <2>1, InOrder
    <3>2. Agree(buf, g, e, i) /\ buf[g + i] < buf[e + i]
      BY <2>0, <3>1 DEF Agree
    <3>3. QED
      BY <3>2, InOrder
  <2>2. ASSUME <<e, f>> \in Order(buf) PROVE <<e, g>> \in Order(buf)
    <3>1. PICK i \in 0 .. F - 1 : Agree(buf, e, f, i) /\ buf[e + i] < buf[f + i]
      BY <2>2, InOrder
    <3>2. Agree(buf, e, g, i) /\ buf[e + i] < buf[g + i]
      BY <2>0, <3>1 DEF Agree
    <3>3. QED
      BY <3>2, InOrder
  <2>3. QED
    BY <2>1, <2>2
<1>2. Agree(buf, b, a, F)
  BY DEF Agree
<1>. QED
  BY <1>1, <1>2

(* A step of the search puts the string where there is no son, or goes on.  *)
LEMMA DescendIs ==
  ASSUME Descend
  PROVE  LET i == Common(key, Side)
         IN  /\ Side = NIL =>
                  /\ tree' = IF cmp >= 0 THEN [tree EXCEPT !.rson[p] = key, !.dad[key] = p]
                                         ELSE [tree EXCEPT !.lson[p] = key, !.dad[key] = p]
                  /\ pc' = "next" /\ UNCHANGED nodeVars
             /\ Side # NIL =>
                  /\ p' = Side /\ key' = key
                  /\ cmp' = IF i = F THEN 0 ELSE textBuf[key + i] - textBuf[Side + i]
                  /\ i > matchLength => matchPosition' = Side /\ matchLength' = i
                  /\ ~(i > matchLength) => UNCHANGED <<matchPosition, matchLength>>
                  /\ i = F => tree' = Replace(tree, Side, key) /\ pc' = "next"
                  /\ i # F => UNCHANGED <<tree, pc>>
             /\ pc = "insert" /\ UNCHANGED <<todo, last, inVars, ringVars>>
<1>1. (IF cmp >= 0 THEN tree["rson"] ELSE tree["lson"])[p] = Side
  BY DEF Side
<1>. DEFINE side == IF cmp >= 0 THEN "rson" ELSE "lson"
            son == tree[side][p]
            i == Common(key, son)
<1>2. son = Side
  BY <1>1
<1>3. IF son = NIL
      THEN /\ tree' = [tree EXCEPT ![side][p] = key, !.dad[key] = p]
           /\ pc' = "next" /\ UNCHANGED nodeVars
      ELSE /\ p' = son
           /\ cmp' = IF i = F THEN 0 ELSE textBuf[key + i] - textBuf[son + i]
           /\ IF i > matchLength
              THEN matchPosition' = son /\ matchLength' = i
              ELSE UNCHANGED <<matchPosition, matchLength>>
           /\ IF i = F THEN tree' = Replace(tree, son, key) /\ pc' = "next"
                       ELSE UNCHANGED <<tree, pc>>
           /\ UNCHANGED key
  BY Zenon DEF Descend
<1>4. pc = "insert" /\ UNCHANGED <<todo, last, inVars, ringVars>>
  BY DEF Descend
<1>5. ASSUME Side = NIL
      PROVE  tree' = IF cmp >= 0 THEN [tree EXCEPT !.rson[p] = key, !.dad[key] = p]
                                 ELSE [tree EXCEPT !.lson[p] = key, !.dad[key] = p]
  <2>1. tree' = [tree EXCEPT ![side][p] = key, !.dad[key] = p]
    BY <1>2, <1>3, <1>5
  <2>2. CASE cmp >= 0
    BY <2>1, <2>2, Zenon
  <2>3. CASE ~(cmp >= 0)
    BY <2>1, <2>3, Zenon
  <2>4. QED
    BY <2>2, <2>3
<1>. HIDE DEF son, side
<1>6. QED
  BY <1>2, <1>3, <1>4, <1>5

(* A string that has been inserted is one of those in the trees.            *)
LEMMA LiveGrows ==
  ASSUME Control, pc = "insert", pc' = "next", UNCHANGED <<todo, bfin, len>>
  PROVE  /\ Key' = Key /\ Sent' = Sent /\ Live' = Live \union {Key}
         /\ Past' \subseteq Past \union {Key}
<1>. USE Sizes
<1>1. /\ Sent \in Int /\ todo \in Int /\ todo # 1 /\ Sent >= 0 /\ len # 0
      /\ todo > 0 => Sent = 0 /\ todo <= F + 1
  BY DEF Control, Sent
<1>2. Sent' = Sent /\ Key' = Key
  BY DEF Sent, Key
<1>3. Live' = Live \union {Key}
  <2>1. CASE todo > 0
    <3>1. Live = (2 - todo) .. -1 /\ Key = 1 - todo
      BY <2>1 DEF Live, Key
    <3>2. Live' = (1 - todo) .. -1
      BY <2>1 DEF Live
    <3>3. QED
      BY <1>1, <2>1, <3>1, <3>2
  <2>2. CASE todo <= 0
    <3>1. Live = {k \in -F .. Sent - 1 : k >= Sent - (N - F)} /\ Key = Sent
      BY <1>1, <2>2 DEF Live, Key
    <3>2. Live' = {k \in -F .. Sent : k >= Sent - (N - F)}
      BY <1>1, <1>2, <2>2 DEF Live
    <3>3. QED
      BY <1>1, <3>1, <3>2
  <2>3. QED
    BY <1>1, <2>1, <2>2
<1>. QED
  BY <1>2, <1>3 DEF Past

(* A search that ends where there is no son leaves the string there.        *)
LEMMA DescendHangs ==
  ASSUME Control, Written, Trees, Matched, Covered, Descend, Side = NIL
  PROVE  Trees' /\ Matched' /\ Covered' /\ Unbeaten'
<1>. USE Places
<1>1. /\ tree' = IF cmp >= 0 THEN [tree EXCEPT !.rson[p] = key, !.dad[key] = p]
                             ELSE [tree EXCEPT !.lson[p] = key, !.dad[key] = p]
      /\ pc' = "next" /\ pc = "insert" /\ UNCHANGED <<nodeVars, todo, last, inVars, ringVars>>
  BY DescendIs
<1>2. PICK D : Sorted(tree, D, textBuf, Order(textBuf)) /\ Seeking(D)
  BY <1>1 DEF Trees
<1>3. /\ key \in Node /\ key \notin InTree(tree) /\ textBuf[key] \in Bytes
      /\ (p \in InTree(tree) /\ p \notin Roots) \/ (p = Root(textBuf[key]) /\ cmp >= 0)
  BY <1>1, <1>2, SideIs
<1>4. tree \in Arrays /\ WellLinked(tree, textBuf) /\ InTree(tree) \subseteq Nodes(Live)
      /\ tree.lson[key] = NIL /\ tree.rson[key] = NIL /\ last \in 0 .. N
  BY <1>1 DEF Trees
<1>5. /\ key' = key /\ p' = p /\ cmp' = cmp /\ matchPosition' = matchPosition
      /\ matchLength' = matchLength /\ textBuf' = textBuf /\ todo' = todo /\ last' = last
      /\ bfin' = bfin /\ len' = len /\ s' = s
  BY <1>1 DEF nodeVars, ringVars
<1>6. StrictOrder(Order(textBuf))
  BY OrderStrict DEF Written
<1>7. p \in InTree(tree) => /\ textBuf[p] = textBuf[key]
                            /\ IF cmp >= 0 THEN <<p, key>> \in Order(textBuf)
                                           ELSE <<key, p>> \in Order(textBuf)
  <2>1. p \in InTree(tree) => p # Root(textBuf[key])
    BY <1>3 DEF InTree
  <2>2. QED
    BY <1>2, <2>1 DEF Seeking
<1>8. Belongs(tree, D, Order(textBuf), p, key)
  BY <1>2 DEF Seeking
<1>9. tree' \in Arrays /\ Grafted(tree, tree', textBuf, p, key, ~(cmp >= 0))
  <2>. DEFINE right == cmp >= 0
              u == tree'
  <2>1. IF right THEN tree.rson[p] = NIL ELSE tree.lson[p] = NIL
    BY DEF Side
  <2>2. u = IF right THEN [tree EXCEPT !.rson[p] = key, !.dad[key] = p]
                     ELSE [tree EXCEPT !.lson[p] = key, !.dad[key] = p]
    BY <1>1
  <2>3. (p \in InTree(tree) /\ textBuf[p] = textBuf[key]) \/ (p = Root(textBuf[key]) /\ right)
    BY <1>3, <1>7
  <2>4. right \in BOOLEAN
    OBVIOUS
  <2>. HIDE DEF right, u
  <2>5. u \in Arrays /\ Grafted(tree, u, textBuf, p, key, ~right)
    BY ONLY <1>3, <1>4, <2>1, <2>2, <2>3, <2>4, Grafting, ZenonT(40)
  <2>6. QED
    BY <2>5 DEF right, u
<1>10. /\ WellLinked(tree', textBuf) /\ InTree(tree') = InTree(tree) \union {key}
       /\ \E E : Sorted(tree', E, textBuf, Order(textBuf))
  <2>. DEFINE left == ~(cmp >= 0)
              u == tree'
              lt == Order(textBuf)
  <2>1. p \in InTree(tree) => IF left THEN <<key, p>> \in lt ELSE <<p, key>> \in lt
    BY <1>7
  <2>2. left \in BOOLEAN /\ Grafted(tree, u, textBuf, p, key, left)
    BY <1>9
  <2>3. Belongs(tree, D, lt, p, key) /\ StrictOrder(lt) /\ Sorted(tree, D, textBuf, lt)
    BY <1>2, <1>6, <1>8
  <2>. HIDE DEF left, u, lt
  <2>4. /\ WellLinked(u, textBuf) /\ InTree(u) = InTree(tree) \union {key}
        /\ Sorted(u, Grown(D, p, key), textBuf, lt)
    BY ONLY <1>4, <2>1, <2>2, <2>3, GraftSorts
  <2>5. QED
    BY <2>4 DEF u, lt
<1>11. /\ Key' = Key /\ Sent' = Sent /\ Live' = Live \union {Key}
       /\ Past' \subseteq Past \union {Key}
  BY <1>1, <1>5, LiveGrows
<1>12. key = Pos(Key)
  BY <1>1 DEF Matched
<1>13. Trees'
  <2>1. InTree(tree') \subseteq Nodes(Live')
    BY <1>4, <1>10, <1>11, <1>12 DEF Nodes
  <2>2. QED
    BY <1>1, <1>4, <1>5, <1>9, <1>10, <2>1 DEF Trees
<1>14. Matched'
  <2>1. Pos(Key)' = Pos(Key)
    BY <1>11
  <2>2. QED
    BY <1>1, <1>5, <1>11, <1>12 DEF Matched
<1>15. Covered'
  <2>. SUFFICES ASSUME NEW k \in Past'
                PROVE  \E m \in Live' : /\ Pos(m) \in InTree(tree') /\ (k >= 0 => m >= k)
                                        /\ Agree(textBuf', Pos(m), Pos(k), F)
    BY DEF Covered
  <2>1. CASE k = Key
    <3>1. Key \in Live' /\ Pos(Key) \in InTree(tree') /\ Key \in Int
      BY <1>10, <1>11, <1>12, LiveKeys
    <3>2. Agree(textBuf', Pos(Key), Pos(Key), F)
      BY DEF Agree
    <3>3. QED
      BY <2>1, <3>1, <3>2
  <2>2. CASE k # Key
    <3>1. PICK m \in Live : /\ Pos(m) \in InTree(tree) /\ (k >= 0 => m >= k)
                            /\ Agree(textBuf, Pos(m), Pos(k), F)
      BY <1>11, <2>2 DEF Covered
    <3>2. QED
      BY <1>5, <1>10, <1>11, <3>1
  <2>3. QED
    BY <2>1, <2>2
<1>16. Unbeaten'
  <2>1. D[NIL] = {}
    BY <1>2 DEF Sorted
  <2>2. \A q \in InTree(tree) : \A i \in 1 .. F : Agree(textBuf, q, key, i) => i <= matchLength
    BY <1>2, <2>1 DEF Seeking
  <2>3. ASSUME NEW k \in Past', k # Key, NEW i \in 1 .. F, Agree(textBuf, Pos(k), key, i)
        PROVE  i <= matchLength
    <3>1. PICK m \in Live : /\ Pos(m) \in InTree(tree)
                            /\ Agree(textBuf, Pos(m), Pos(k), F)
      BY <1>11, <2>3 DEF Covered
    <3>2. \A j \in 0 .. i - 1 : j \in 0 .. F - 1
      BY Sizes
    <3>3. Agree(textBuf, Pos(m), key, i)
      BY <2>3, <3>1, <3>2 DEF Agree
    <3>4. QED
      BY <2>2, <3>1, <3>3
  <2>4. QED
    BY <1>5, <1>11, <2>3 DEF Unbeaten
<1>. QED
  BY <1>13, <1>14, <1>15, <1>16

(* Going on to a son, the search keeps what it is looking for below it, and *)
(* the longest match of all that it has passed by.                          *)
LEMMA DescendGoesOn ==
  ASSUME Control, Written, Trees, Matched, Covered, Descend, Side # NIL,
         Common(key, Side) # F
  PROVE  Trees' /\ Matched' /\ Covered' /\ Unbeaten'
<1>. USE Places
<1>. DEFINE i == Common(key, Side)
            n == Side
<1>1. /\ p' = n /\ key' = key /\ cmp' = textBuf[key + i] - textBuf[n + i]
      /\ i > matchLength => matchPosition' = n /\ matchLength' = i
      /\ ~(i > matchLength) => UNCHANGED <<matchPosition, matchLength>>
      /\ UNCHANGED <<tree, pc, todo, last, inVars, ringVars>> /\ pc = "insert"
  BY DescendIs
<1>2. PICK D : Sorted(tree, D, textBuf, Order(textBuf)) /\ Seeking(D)
  BY <1>1 DEF Trees
<1>3. /\ key \in Node /\ key \notin InTree(tree) /\ textBuf[key] \in Bytes
      /\ (p \in InTree(tree) /\ p \notin Roots) \/ (p = Root(textBuf[key]) /\ cmp >= 0)
      /\ n \in InTree(tree) /\ textBuf[n] = textBuf[key] /\ tree.dad[n] = p
  BY <1>1, <1>2, SideIs
<1>4. tree \in Arrays /\ WellLinked(tree, textBuf) /\ InTree(tree) \subseteq Nodes(Live)
  BY DEF Trees
<1>5. /\ textBuf' = textBuf /\ todo' = todo /\ bfin' = bfin /\ len' = len /\ s' = s
      /\ tree' = tree /\ pc' = pc /\ last' = last
  BY <1>1 DEF ringVars
<1>6. Sent' = Sent /\ Key' = Key /\ Live' = Live /\ Past' = Past
  BY <1>5 DEF Sent, Key, Live, Past
<1>7. StrictOrder(Order(textBuf)) /\ textBuf \in Buffers
  BY OrderStrict DEF Written
<1>8. n \in Node /\ n \in 0 .. N
  BY <1>3 DEF InTree
<1>9. i \in 1 .. F - 1 /\ Agree(textBuf, key, n, i) /\ textBuf[key + i] # textBuf[n + i]
  <2>1. textBuf[key] = textBuf[n]
    BY <1>3
  <2>2. /\ i \in 1 .. F /\ Agree(textBuf, key, n, i)
        /\ i < F => textBuf[key + i] # textBuf[n + i]
    BY ONLY <1>3, <1>7, <1>8, <2>1, CommonIs
  <2>3. i < F /\ i # F
    BY <2>2, Sizes
  <2>4. QED
    BY <2>2, <2>3, Sizes
<1>. HIDE DEF n, i
<1>10. textBuf[key + i] \in Nat /\ textBuf[n + i] \in Nat
  BY ONLY <1>3, <1>7, <1>8, <1>9, Letters, Sizes
<1>11. /\ cmp' \in Int
       /\ IF cmp' >= 0 THEN <<n, key>> \in Order(textBuf) ELSE <<key, n>> \in Order(textBuf)
  <2>1. i \in 0 .. F - 1 /\ Agree(textBuf, n, key, i)
    BY <1>9 DEF Agree
  <2>2. cmp' >= 0 => textBuf[n + i] < textBuf[key + i]
    BY <1>1, <1>9, <1>10
  <2>3. ~(cmp' >= 0) => textBuf[key + i] < textBuf[n + i]
    BY <1>1, <1>9, <1>10
  <2>4. QED
    BY <1>1, <1>3, <1>7, <1>8, <1>9, <1>10, <2>1, <2>2, <2>3, InOrder
<1>12. ASSUME NEW k \in InTree(tree)
       PROVE  /\ Nested(tree, D, k) /\ Between(tree, D, Order(textBuf), k) /\ Branches(tree, D, k)
              /\ k \in Node /\ k \in 0 .. N /\ k \in D[k] /\ D[k] \subseteq InTree(tree)
              /\ tree.lson[k] = NIL \/ tree.lson[k] \in InTree(tree)
              /\ tree.rson[k] = NIL \/ tree.rson[k] \in InTree(tree)
              /\ k \notin D[tree.lson[k]] /\ k \notin D[tree.rson[k]]
  <2>1. /\ Nested(tree, D, k) /\ Between(tree, D, Order(textBuf), k) /\ Branches(tree, D, k)
    BY <1>2 DEF Sorted
  <2>2. k \in Node /\ k \in 0 .. N /\ k \in D[k] /\ D[k] \subseteq InTree(tree)
    BY <2>1 DEF InTree, Branches, Nested
  <2>3. /\ tree.lson[k] = NIL \/ tree.lson[k] \in InTree(tree)
        /\ tree.rson[k] = NIL \/ tree.rson[k] \in InTree(tree)
    BY <1>4, <2>2 DEF WellLinked, HasSons, InTree
  <2>4. k \notin D[tree.lson[k]] /\ k \notin D[tree.rson[k]]
    BY <1>7, <2>1, <2>2 DEF Between, StrictOrder
  <2>5. QED
    BY <2>1, <2>2, <2>3, <2>4
<1>13. ASSUME NEW k \in InTree(tree), NEW m \in {tree.lson[k], tree.rson[k]}, n \in D[m], n # m
       PROVE  p \in D[m]
  <2>1. D[NIL] = {}
    BY <1>2 DEF Sorted
  <2>2. m \in InTree(tree)
    BY <1>12, <1>13, <2>1
  <2>3. Nested(tree, D, m)
    BY <1>12, <2>2
  <2>4. QED
    BY <1>3, <1>13, <2>3 DEF Nested
<1>14. ASSUME NEW k \in InTree(tree), n = tree.lson[k] \/ n = tree.rson[k]
       PROVE  p = k /\ (cmp >= 0 => n = tree.rson[k]) /\ (cmp < 0 => n = tree.lson[k])
  <2>1. HasSons(tree, k) /\ k \in InTree(tree)
    BY <1>4 DEF WellLinked
  <2>2. p = k
    BY <1>3, <1>8, <1>14, <2>1 DEF HasSons
  <2>3. cmp \in Int
    BY <1>2 DEF Seeking
  <2>4. QED
    BY <2>2, <2>3 DEF n, Side
<1>15. Belongs(tree, D, Order(textBuf), n, key)
  <2>1. Belongs(tree, D, Order(textBuf), p, key)
    BY <1>2 DEF Seeking
  <2>2. p \in InTree(tree) => IF cmp >= 0 THEN <<p, key>> \in Order(textBuf)
                                          ELSE <<key, p>> \in Order(textBuf)
    <3>1. p \in InTree(tree) => p # Root(textBuf[key])
      BY <1>3 DEF InTree
    <3>2. QED
      BY <1>2, <3>1 DEF Seeking
  <2>3. cmp \in Int
    BY <1>2 DEF Seeking
  <2>4. ASSUME NEW k \in InTree(tree), n \in D[tree.lson[k]] PROVE <<key, k>> \in Order(textBuf)
    <3>1. CASE n = tree.lson[k]
      <4>1. p = k /\ tree.lson[k] # tree.rson[k]
        <5>1. HasSons(tree, k)
          BY <1>4 DEF WellLinked
        <5>2. QED
          BY <1>8, <1>14, <3>1, <5>1 DEF HasSons
      <4>2. ~(cmp >= 0)
        BY <1>14, <2>3, <3>1, <4>1
      <4>3. QED
        BY <2>2, <4>1, <4>2
    <3>2. CASE n # tree.lson[k]
      BY <1>13, <2>1, <2>4, <3>2 DEF Belongs
    <3>3. QED
      BY <3>1, <3>2
  <2>5. ASSUME NEW k \in InTree(tree), n \in D[tree.rson[k]] PROVE <<k, key>> \in Order(textBuf)
    <3>1. CASE n = tree.rson[k]
      <4>1. p = k /\ tree.lson[k] # tree.rson[k]
        <5>1. HasSons(tree, k)
          BY <1>4 DEF WellLinked
        <5>2. QED
          BY <1>8, <1>14, <3>1, <5>1 DEF HasSons
      <4>2. cmp >= 0
        BY <1>14, <2>3, <3>1, <4>1
      <4>3. QED
        BY <2>2, <4>1, <4>2
    <3>2. CASE n # tree.rson[k]
      BY <1>13, <2>1, <2>5, <3>2 DEF Belongs
    <3>3. QED
      BY <3>1, <3>2
  <2>6. QED
    BY <2>4, <2>5 DEF Belongs
<1>16. matchLength \in 0 .. F /\ matchLength' \in 0 .. F /\ matchLength' >= i
       /\ matchLength' >= matchLength
  <2>1. matchLength \in 0 .. F
    BY DEF Matched
  <2>2. QED
    BY <1>1, <1>9, <2>1, Sizes
<1>17. Side' = IF cmp' >= 0 THEN tree.rson[n] ELSE tree.lson[n]
  BY <1>1, <1>5 DEF Side
<1>18. ASSUME NEW q \in InTree(tree), NEW j \in 1 .. F, Agree(textBuf, q, key, j),
              ~(q \in D[Side'])
       PROVE  j <= matchLength'
  <2>1. CASE q \notin D[n]
    <3>1. j <= matchLength
      BY <1>2, <1>18, <2>1 DEF Seeking, n
    <3>2. QED
      BY <1>16, <3>1
  <2>2. ASSUME Agree(textBuf, n, key, j) PROVE j <= i
    <3>1. SUFFICES ASSUME i < j PROVE FALSE
      BY <1>9
    <3>2. i \in 0 .. j - 1
      BY <1>9, <3>1
    <3>3. textBuf[n + i] = textBuf[key + i]
      BY <2>2, <3>2 DEF Agree
    <3>4. QED
      BY <1>9, <3>3
  <2>3. CASE q \in D[n] /\ q # n
    <3>1. q \in D[tree.lson[n]] \/ q \in D[tree.rson[n]]
      BY <1>3, <1>12, <2>3 DEF Branches
    <3>2. q \in Node
      BY <1>12
    <3>3. \/ <<q, n>> \in Order(textBuf) /\ <<n, key>> \in Order(textBuf)
          \/ <<key, n>> \in Order(textBuf) /\ <<n, q>> \in Order(textBuf)
      BY <1>3, <1>11, <1>12, <1>17, <1>18, <3>1 DEF Between
    <3>4. Agree(textBuf, n, key, j)
      <4>1. j \in 0 .. F /\ Agree(textBuf, q, key, j) /\ key \in Node
        BY <1>3, <1>18
      <4>2. QED
        BY ONLY <1>7, <1>8, <3>2, <3>3, <4>1, Squeeze
    <3>5. QED
      BY <1>9, <1>16, <2>2, <3>4
  <2>4. CASE q = n
    BY <1>9, <1>16, <1>18, <2>2, <2>4
  <2>5. QED
    BY <2>1, <2>3, <2>4
<1>19. Seeking(D)'
  <2>1. p' \in InTree(tree') /\ textBuf'[p'] = textBuf'[key']
    BY <1>1, <1>3, <1>5
  <2>2. IF cmp' >= 0 THEN <<p', key'>> \in Order(textBuf') ELSE <<key', p'>> \in Order(textBuf')
    BY <1>1, <1>5, <1>11
  <2>3. Belongs(tree', D, Order(textBuf'), p', key')
    BY <1>1, <1>5, <1>15
  <2>4. \A q \in InTree(tree') :
          \/ q \in D[Side']
          \/ \A j \in 1 .. F : Agree(textBuf', q, key', j) => j <= matchLength'
    BY <1>1, <1>5, <1>18
  <2>5. QED
    BY <1>11, <2>1, <2>2, <2>3, <2>4, Zenon DEF Seeking
<1>20. Trees'
  <2>1. tree.lson[key] = NIL /\ tree.rson[key] = NIL /\ last \in 0 .. N
    BY <1>1 DEF Trees
  <2>2. Nodes(Live') = Nodes(Live)
    BY <1>6
  <2>3. QED
    BY <1>1, <1>2, <1>4, <1>5, <1>19, <2>1, <2>2 DEF Trees
<1>21. Matched'
  <2>1. key = Pos(Key) /\ Key' = Key /\ Pos(Key') = Pos(Key)
    BY <1>1, <1>6 DEF Matched
  <2>2. CASE ~(i > matchLength)
    <3>1. matchPosition' = matchPosition /\ matchLength' = matchLength
      BY <1>1, <2>2
    <3>2. QED
      BY <1>1, <1>5, <1>6, <2>1, <3>1 DEF Matched
  <2>3. CASE i > matchLength
    <3>1. matchPosition' = n /\ matchLength' = i
      BY <1>1, <2>3
    <3>2. PICK k \in Live : n = Pos(k)
      BY <1>3, <1>4 DEF Nodes
    <3>3. Key \notin Live
      BY <1>1, LiveKeys
    <3>4. k # Key /\ Agree(textBuf, n, key, i) /\ textBuf[n + i] # textBuf[key + i]
      BY <1>9, <3>2, <3>3 DEF Agree
    <3>5. key' = Pos(Key') /\ k \in Live' /\ k # Key'
      BY <1>1, <1>6, <2>1, <3>2, <3>4
    <3>6. /\ Agree(textBuf', matchPosition', key', matchLength')
          /\ textBuf'[matchPosition' + matchLength'] # textBuf'[key' + matchLength']
      BY <1>1, <1>5, <3>1, <3>4
    <3>7. matchPosition' \in Node /\ matchPosition' = Pos(k)
      BY <1>8, <3>1, <3>2
    <3>8. QED
      BY <1>16, <3>5, <3>6, <3>7 DEF Matched
  <2>4. QED
    BY <2>2, <2>3
<1>22. Covered'
  BY <1>5, <1>6 DEF Covered
<1>23. Unbeaten'
  BY <1>1, <1>5 DEF Unbeaten
<1>. QED
  BY <1>20, <1>21, <1>22, <1>23

(* A search that finds an equal string ends by replacing it.                *)
LEMMA DescendReplaces ==
  ASSUME Control, Written, Trees, Matched, Covered, Descend, Side # NIL,
         Common(key, Side) = F
  PROVE  Trees' /\ Matched' /\ Covered' /\ Unbeaten'
<1>. USE Places
<1>. DEFINE n == Side
<1>1. /\ key' = key /\ tree' = Replace(tree, n, key) /\ pc' = "next"
      /\ F > matchLength => matchPosition' = n /\ matchLength' = F
      /\ ~(F > matchLength) => UNCHANGED <<matchPosition, matchLength>>
      /\ UNCHANGED <<todo, last, inVars, ringVars>> /\ pc = "insert"
  BY DescendIs
<1>2. PICK D : Sorted(tree, D, textBuf, Order(textBuf)) /\ Seeking(D)
  BY <1>1 DEF Trees
<1>3. /\ key \in Node /\ key \notin InTree(tree) /\ textBuf[key] \in Bytes
      /\ n \in InTree(tree) /\ textBuf[n] = textBuf[key] /\ tree.dad[n] = p
  BY <1>1, <1>2, SideIs
<1>4. tree \in Arrays /\ WellLinked(tree, textBuf) /\ InTree(tree) \subseteq Nodes(Live)
  BY DEF Trees
<1>5. /\ textBuf' = textBuf /\ todo' = todo /\ bfin' = bfin /\ len' = len /\ s' = s
      /\ last' = last
  BY <1>1 DEF ringVars
<1>7. StrictOrder(Order(textBuf)) /\ textBuf \in Buffers
  BY OrderStrict DEF Written
<1>8. n \in Node /\ n \in 0 .. N
  BY <1>3 DEF InTree
<1>9. Agree(textBuf, key, n, F) /\ Agree(textBuf, n, key, F)
  <2>1. textBuf[key] = textBuf[n]
    BY <1>3
  <2>2. Agree(textBuf, key, n, Common(key, n))
    BY ONLY <1>3, <1>7, <1>8, <2>1, CommonIs
  <2>3. QED
    BY <2>2 DEF Agree
<1>. HIDE DEF n
<1>10. ASSUME NEW e \in Node
       PROVE  /\ <<n, e>> \in Order(textBuf) => <<key, e>> \in Order(textBuf)
              /\ <<e, n>> \in Order(textBuf) => <<e, key>> \in Order(textBuf)
  BY ONLY <1>3, <1>7, <1>8, <1>9, e \in Node, EqualOrder
<1>11. ASSUME NEW k \in InTree(tree)
       PROVE  /\ Between(tree, D, Order(textBuf), k) /\ Branches(tree, D, k) /\ k \in Node
              /\ D[k] \subseteq Node
  BY <1>2 DEF Sorted, InTree, Nested
<1>12. Fits(tree, D, textBuf, Order(textBuf), n, key)
  <2>1. ASSUME NEW m \in D[tree.lson[n]] PROVE <<m, key>> \in Order(textBuf)
    BY <1>3, <1>10, <1>11 DEF Between, Branches
  <2>2. ASSUME NEW m \in D[tree.rson[n]] PROVE <<key, m>> \in Order(textBuf)
    BY <1>3, <1>10, <1>11 DEF Between, Branches
  <2>3. ASSUME NEW k \in InTree(tree)
        PROVE  /\ n \in D[tree.lson[k]] => <<key, k>> \in Order(textBuf)
               /\ n \in D[tree.rson[k]] => <<k, key>> \in Order(textBuf)
    BY <1>10, <1>11 DEF Between
  <2>4. QED
    BY <1>3, <2>1, <2>2, <2>3 DEF Fits
<1>13. tree' \in Arrays /\ Substituted(tree, tree', n, key)
  <2>1. tree.dad[n] # n /\ tree.lson[n] # n /\ tree.rson[n] # n
    <3>1. \A k \in {tree.lson[n], tree.rson[n]} : k # n
      BY ONLY NoCycle, <1>2, <1>3, <1>4, <1>7
    <3>2. tree.dad[n] # n
      BY ONLY NoCycle, <1>2, <1>3, <1>4, <1>7
    <3>3. QED
      BY <3>1, <3>2
  <2>2. Replace(tree, n, key) \in Arrays /\ Substituted(tree, Replace(tree, n, key), n, key)
    BY ONLY <1>3, <1>4, <2>1, ReplaceSubstitutes
  <2>3. QED
    BY <1>1, <2>2
<1>14. /\ WellLinked(tree', textBuf) /\ InTree(tree') = (InTree(tree) \ {n}) \union {key}
       /\ \E E : Sorted(tree', E, textBuf, Order(textBuf))
  <2>. DEFINE u == tree'
              lt == Order(textBuf)
  <2>1. Sorted(tree, D, textBuf, lt) /\ StrictOrder(lt) /\ Fits(tree, D, textBuf, lt, n, key)
        /\ Substituted(tree, u, n, key)
    BY <1>2, <1>7, <1>12, <1>13
  <2>. HIDE DEF u, lt
  <2>2. /\ WellLinked(u, textBuf) /\ InTree(u) = (InTree(tree) \ {n}) \union {key}
        /\ Sorted(u, Swapped(D, n, key), textBuf, lt)
    BY ONLY <1>4, <2>1, SubstituteSorts
  <2>3. QED
    BY <2>2 DEF u, lt
<1>15. /\ Key' = Key /\ Sent' = Sent /\ Live' = Live \union {Key}
       /\ Past' \subseteq Past \union {Key}
  BY <1>1, <1>5, LiveGrows
<1>16. key = Pos(Key) /\ matchLength \in 0 .. F
  BY <1>1 DEF Matched
<1>17. /\ Key \notin Live /\ Live \subseteq Int /\ Key \in Int
       /\ todo <= 0 => \A k \in Live : k < Key
       /\ todo > 0 => \A k \in Live : k < 0
       /\ todo \in Int
  <2>1. todo \in Int
    BY DEF Control
  <2>2. todo > 0 => \A k \in Live : k < 0
    BY <2>1 DEF Live
  <2>3. QED
    BY <1>1, <2>1, <2>2, LiveKeys
<1>18. Trees'
  <2>1. InTree(tree') \subseteq Nodes(Live')
    BY <1>4, <1>14, <1>15, <1>16 DEF Nodes
  <2>2. last \in 0 .. N
    BY DEF Trees
  <2>3. QED
    BY <1>1, <1>5, <1>13, <1>14, <2>1, <2>2 DEF Trees
<1>19. PICK o \in Live : n = Pos(o)
  BY <1>3, <1>4 DEF Nodes
<1>20. Matched'
  <2>1. key' = Pos(Key')
    BY <1>1, <1>15, <1>16
  <2>2. CASE F > matchLength
    <3>1. matchPosition' = n /\ matchLength' = F
      BY <1>1, <2>2
    <3>2. o # Key' /\ o \in Live' /\ matchPosition' = Pos(o)
      BY <1>15, <1>17, <1>19, <3>1
    <3>3. Agree(textBuf', matchPosition', key', matchLength')
      BY <1>1, <1>5, <1>9, <3>1
    <3>4. matchLength' \in 0 .. F /\ matchLength' \notin 1 .. F - 1 /\ matchPosition' \in Node
      BY <1>8, <3>1, Sizes
    <3>5. QED
      BY <2>1, <3>2, <3>3, <3>4 DEF Matched
  <2>3. CASE ~(F > matchLength)
    <3>1. matchPosition' = matchPosition /\ matchLength' = matchLength
      BY <1>1, <2>3
    <3>2. \A k : k \in Live => k \in Live'
      BY <1>15
    <3>3. QED
      BY <1>1, <1>5, <1>15, <2>1, <3>1, <3>2 DEF Matched
  <2>4. QED
    BY <2>2, <2>3
<1>21. Covered'
  <2>. SUFFICES ASSUME NEW k \in Past'
                PROVE  \E m \in Live' : /\ Pos(m) \in InTree(tree') /\ (k >= 0 => m >= k)
                                        /\ Agree(textBuf', Pos(m), Pos(k), F)
    BY DEF Covered
  <2>0. Key \in Live' /\ Pos(Key) \in InTree(tree')
    BY <1>14, <1>15, <1>16
  <2>1. CASE k = Key
    <3>2. Agree(textBuf', Pos(Key), Pos(Key), F)
      BY DEF Agree
    <3>3. QED
      BY <1>17, <2>0, <2>1, <3>2
  <2>2. CASE k # Key
    <3>1. PICK m \in Live : /\ Pos(m) \in InTree(tree) /\ (k >= 0 => m >= k)
                            /\ Agree(textBuf, Pos(m), Pos(k), F)
      BY <1>15, <2>2 DEF Covered
    <3>2. CASE Pos(m) # n
      BY <1>5, <1>14, <1>15, <3>1, <3>2
    <3>3. CASE Pos(m) = n
      <4>1. Agree(textBuf', Pos(Key), Pos(k), F)
        BY <1>5, <1>9, <1>16, <3>1, <3>3 DEF Agree
      <4>2. k \in Live
        BY <1>15, <2>2 DEF Past
      <4>3. k >= 0 => Key >= k
        BY <1>17, <4>2
      <4>4. QED
        BY <2>0, <4>1, <4>3
    <3>4. QED
      BY <3>2, <3>3
  <2>3. QED
    BY <2>1, <2>2
<1>22. Unbeaten'
  <2>1. matchLength' = F
    BY <1>1, <1>16, Sizes
  <2>2. QED
    BY <2>1 DEF Unbeaten
<1>. QED
  BY <1>18, <1>20, <1>21, <1>22

(* One of the first strings is taken up.                                    *)
LEMMA InsertFirstSearches ==
  ASSUME Control, Written, Trees, Matched, Covered, InsertFirst
  PROVE  Trees' /\ Matched' /\ Covered' /\ Unbeaten'
<1>. USE Sizes
<1>. DEFINE k == IF todo <= F THEN r - todo ELSE r
<1>1. /\ pc = "next" /\ todo > 0 /\ textBuf' = textBuf /\ InsertNode(tree, k)
      /\ todo' = (IF todo <= F THEN todo + 1 ELSE 0)
      /\ UNCHANGED <<last, inVars, bfin, s, r, len>>
  BY DEF InsertFirst
<1>2. /\ Sent = 0 /\ todo \in 1 .. F + 1 /\ r = Pos(0) /\ Sent' = 0
      /\ Pos(0) = N - F
  <2>1. Pos(0) = N - F
    BY FirstCells
  <2>2. QED
    BY <1>1, <2>1 DEF Control, Sent
<1>3. /\ Key' \in -F .. 0
      /\ Live' = Live
      /\ todo > F => Key' = 0 /\ Live = -F .. -1
      /\ todo <= F => Key' = -todo /\ Live = (1 - todo) .. -1
  <2>1. Live = (1 - todo) .. -1 /\ Key = 1 - todo
    BY <1>1 DEF Live, Key
  <2>2. pc' = "insert"
    BY <1>1 DEF InsertNode
  <2>3. CASE todo <= F
    <3>1. todo' = todo + 1
      BY <1>1, <2>3
    <3>2. Key' = 1 - (todo + 1) /\ Live' = (2 - (todo + 1)) .. -1
      BY <1>2, <2>2, <3>1 DEF Key, Live
    <3>3. QED
      BY <1>2, <2>1, <2>3, <3>2
  <2>4. CASE todo > F
    <3>1. todo' = 0 /\ todo = F + 1
      BY <1>1, <1>2, <2>4
    <3>2. Key' = 0 /\ Live' = {j \in -F .. 0 - 1 : j >= 0 - (N - F)}
      BY <1>2, <2>2, <3>1 DEF Key, Live
    <3>3. Live = -F .. -1
      BY <1>2, <2>1, <3>1
    <3>4. {j \in -F .. 0 - 1 : j >= 0 - (N - F)} = -F .. -1
      OBVIOUS
    <3>5. QED
      BY <1>2, <2>4, <3>2, <3>3, <3>4
  <2>5. QED
    BY <1>2, <2>3, <2>4
<1>4. k = Pos(Key') /\ k \in Node
  <2>1. CASE todo <= F
    <3>1. -todo \in F - N .. F - 1 /\ -todo + N - F = N - F - todo
      BY <1>2, <2>1
    <3>2. Pos(-todo) = N - F - todo
      BY <3>1, FirstCells
    <3>3. k = Pos(-todo) /\ -todo \in Int
      BY <1>2, <2>1, <3>2
    <3>4. QED
      BY <1>3, <2>1, <3>3, Cells
  <2>2. CASE todo > F
    BY <1>2, <1>3, <2>2, Cells
  <2>3. QED
    BY <1>2, <2>1, <2>2
<1>5. k \notin InTree(tree)
  <2>1. ASSUME NEW j \in Live PROVE Pos(j) # k
    <3>1. j \in -F .. -1 /\ Key' \in -F .. 0 /\ j # Key'
      <4>1. CASE todo > F
        BY <1>3, <4>1
      <4>2. CASE todo <= F
        BY <1>2, <1>3, <4>2
      <4>3. QED
        BY <1>2, <4>1, <4>2
    <3>2. PICK i \in -F .. 0 : i = Key'
      BY <3>1
    <3>3. Pos(i) # Pos(j)
      BY ONLY Apart, i \in -F .. 0, <3>1, <3>2, Sizes
    <3>4. QED
      BY <1>4, <3>2, <3>3
  <2>2. InTree(tree) \subseteq Nodes(Live)
    BY DEF Trees
  <2>3. QED
    BY <2>1, <2>2 DEF Nodes
<1>. HIDE DEF k
<1>6. tree \in Arrays /\ WellLinked(tree, textBuf') /\ last' \in 0 .. N
      /\ textBuf' \in Buffers /\ InTree(tree) \subseteq Nodes(Live')
  BY <1>1, <1>3 DEF Trees, Written
<1>7. PICK D : Sorted(tree, D, textBuf', Order(textBuf'))
  BY <1>1 DEF Trees
<1>8. /\ tree' \in Arrays /\ WellLinked(tree', textBuf') /\ InTree(tree') = InTree(tree)
      /\ Sorted(tree', D, textBuf', Order(textBuf')) /\ Seeking(D)'
      /\ tree'.lson[key'] = NIL /\ tree'.rson[key'] = NIL
      /\ matchLength' = 0 /\ matchPosition' = matchPosition /\ key' = k /\ pc' = "insert"
  BY ONLY <1>1, <1>4, <1>5, <1>6, <1>7, InsertBegins
<1>9. Trees'
  BY <1>6, <1>8 DEF Trees
<1>10. Matched'
  BY <1>4, <1>8 DEF Matched
<1>11. Covered'
  <2>1. Past' \subseteq Past
    BY <1>2, <1>3 DEF Past
  <2>2. QED
    BY <1>1, <1>3, <1>8, <2>1 DEF Covered
<1>12. Unbeaten'
  BY <1>8 DEF Unbeaten
<1>. QED
  BY <1>9, <1>10, <1>11, <1>12

(* Sending a unit changes neither trees nor ring.                           *)
LEMMA SendUnitSearches ==
  ASSUME Control, Written, Trees, Matched, Covered, SendUnit
  PROVE  Trees' /\ Matched' /\ Covered' /\ Unbeaten'
<1>. USE Sizes
<1>1. /\ pc = "next" /\ todo = 0 /\ len > 0 /\ len \in Nat /\ matchLength \in 0 .. F
      /\ UNCHANGED <<pc, inVars, ringVars, tree, last, key, p, cmp, matchPosition>>
      /\ todo' = -matchLength'
  BY DEF SendUnit, Control, Matched
<1>2. matchLength' \in 1 .. F
  <2>1. matchLength' = LET n == Smaller(matchLength, len)
                       IN  IF n <= Threshold THEN 1 ELSE n
    BY DEF SendUnit
  <2>2. QED
    BY <1>1, <2>1 DEF Smaller
<1>3. todo' < 0 /\ todo' \in Int
  <2>1. PICK n \in 1 .. F : matchLength' = n
    BY <1>2
  <2>2. todo' = -n
    BY <1>1, <2>1
  <2>3. QED
    BY <2>2
<1>4. textBuf' = textBuf /\ bfin' = bfin /\ len' = len /\ s' = s
  BY <1>1 DEF ringVars
<1>5. Sent' = Sent /\ Live' = Live /\ Past' = Past
  <2>1. Sent' = Sent
    BY <1>4 DEF Sent
  <2>2. Live' = Live
    BY <1>1, <1>3, <1>4, <2>1 DEF Live
  <2>3. QED
    BY <2>1, <2>2 DEF Past
<1>6. Trees'
  BY <1>1, <1>4, <1>5 DEF Trees
<1>7. Matched'
  <2>1. matchPosition' \in Node /\ matchLength' \in 0 .. F
    BY <1>1, <1>2 DEF Matched
  <2>2. pc' # "insert" /\ todo' # 0
    BY <1>1, <1>3
  <2>3. QED
    BY <2>1, <2>2 DEF Matched
<1>8. Covered'
  BY <1>1, <1>4, <1>5 DEF Covered
<1>9. Unbeaten'
  BY <1>3 DEF Unbeaten
<1>. QED
  BY <1>6, <1>7, <1>8, <1>9

(* Nor do the end of the compression and the decompression.                 *)
LEMMA OthersSearch ==
  ASSUME Control, Trees, Matched, Covered, Unbeaten,
         Finish \/ LzssDecodeVram \/ UNCHANGED vars
  PROVE  Trees' /\ Matched' /\ Covered' /\ Unbeaten'
<1>1. UNCHANGED <<todo, inVars, ringVars, findVars>>
  BY DEF Finish, LzssDecodeVram, ReadFlags, CopyByte, ReadPair, CopyString, DecodeDone, vars
<1>2. \/ pc' = pc
      \/ len = 0 /\ todo = 0 /\ pc \notin {"insert", "delete"} /\ pc' \notin {"insert", "delete"}
  BY DEF Finish, LzssDecodeVram, ReadFlags, CopyByte, ReadPair, CopyString, DecodeDone,
         NextFlag, vars, Control
<1>3. /\ textBuf' = textBuf /\ bfin' = bfin /\ len' = len /\ s' = s /\ todo' = todo
      /\ tree' = tree /\ last' = last /\ key' = key /\ p' = p /\ cmp' = cmp
      /\ matchPosition' = matchPosition /\ matchLength' = matchLength
  BY <1>1 DEF ringVars, findVars, nodeVars
<1>4. Sent' = Sent /\ Key' = Key
  BY <1>3 DEF Sent, Key
<1>5. Live' = Live
  BY <1>2, <1>3, <1>4 DEF Live
<1>6. Past' = Past
  BY <1>4, <1>5 DEF Past
<1>7. Covered'
  BY <1>3, <1>6, <1>5 DEF Covered
<1>8. CASE pc' = pc
  <2>1. ASSUME NEW D, Seeking(D) PROVE Seeking(D)'
    BY <1>3, <2>1 DEF Seeking, Side
  <2>2. ASSUME NEW D, Walking(D) PROVE Walking(D)'
    BY <1>3, <2>2 DEF Walking
  <2>3. TwoSons(s)' = TwoSons(s)
    BY <1>3 DEF TwoSons
  <2>4. Trees'
    BY <1>3, <1>5, <1>8, <2>1, <2>2, <2>3 DEF Trees
  <2>5. Matched'
    BY <1>3, <1>4, <1>5, <1>8 DEF Matched
  <2>6. Unbeaten'
    BY <1>3, <1>4, <1>6, <1>8 DEF Unbeaten
  <2>7. QED
    BY <1>7, <2>4, <2>5, <2>6
<1>9. CASE pc' # pc
  <2>1. len = 0 /\ pc' # "insert" /\ pc' # "delete" /\ ~(len' > 0)
    BY <1>2, <1>3, <1>9
  <2>2. Trees'
    BY <1>3, <1>5, <2>1 DEF Trees
  <2>3. Matched'
    BY <1>3, <2>1 DEF Matched
  <2>4. Unbeaten'
    BY <2>1 DEF Unbeaten
  <2>5. QED
    BY <1>7, <2>2, <2>3, <2>4
<1>. QED
  BY <1>8, <1>9

(* The search for the node that moves up begins ...                         *)
LEMMA BeginDeleteSearches ==
  ASSUME Control, Written, Trees, Matched, Covered, BeginDelete \/ WalkRight
  PROVE  Trees' /\ Matched' /\ Covered' /\ Unbeaten'
<1>. USE Places
<1>1. /\ UNCHANGED <<todo, inVars, ringVars, tree, nodeVars>> /\ pc' = "delete" /\ todo < 0
      /\ pc \in {"next", "delete"}
  BY DEF BeginDelete, WalkRight, Control
<1>2. /\ textBuf' = textBuf /\ bfin' = bfin /\ len' = len /\ s' = s /\ todo' = todo
      /\ tree' = tree /\ key' = key
      /\ matchPosition' = matchPosition /\ matchLength' = matchLength
  BY <1>1 DEF ringVars, nodeVars
<1>3. Sent' = Sent /\ Live' = Live /\ Past' = Past
  <2>1. Sent' = Sent
    BY <1>2 DEF Sent
  <2>2. Live' = Live
    BY <1>1, <1>2, <2>1 DEF Live
  <2>3. QED
    BY <2>1, <2>2 DEF Past
<1>4. PICK D : Sorted(tree, D, textBuf, Order(textBuf))
               /\ (pc = "delete" /\ TwoSons(s) => Walking(D))
  BY DEF Trees
<1>5. tree \in Arrays /\ WellLinked(tree, textBuf) /\ InTree(tree) \subseteq Nodes(Live)
      /\ last \in 0 .. N
  BY DEF Trees
<1>6. s \in Node /\ s \in 0 .. N
  <2>1. Sent + F \in Int
    BY Sizes DEF Control, Sent
  <2>2. QED
    BY <2>1, Cells DEF Control
<1>7. StrictOrder(Order(textBuf))
  BY OrderStrict DEF Written
<1>8. ASSUME NEW k \in InTree(tree)
      PROVE  /\ Nested(tree, D, k) /\ Between(tree, D, Order(textBuf), k) /\ Branches(tree, D, k)
             /\ k \in Node /\ k \in 0 .. N /\ k \in D[k] /\ D[k] \subseteq InTree(tree)
             /\ HasSons(tree, k)
  BY <1>4, <1>5 DEF Sorted, InTree, Branches, Nested, WellLinked
<1>9. ASSUME NEW k \in InTree(tree), NEW m \in {tree.lson[k], tree.rson[k]}, m # NIL
      PROVE  m \in InTree(tree) /\ textBuf[m] = textBuf[k] /\ m \in D[m]
  <2>1. m \in Node /\ tree.dad[m] = k /\ k \in Node
    BY <1>8, <1>9 DEF HasSons
  <2>2. m \in InTree(tree)
    BY <2>1 DEF InTree
  <2>3. HasDad(tree, textBuf, m)
    BY <1>5, <2>2 DEF WellLinked
  <2>4. QED
    BY <1>8, <2>1, <2>2, <2>3 DEF HasDad
<1>10. last' \in 0 .. N
  <2>1. CASE BeginDelete
    BY <1>5, <1>6, <2>1 DEF BeginDelete, Arrays
  <2>2. CASE WalkRight
    BY <1>5, <2>2 DEF WalkRight, Arrays
  <2>3. QED
    BY <2>1, <2>2
<1>11. ASSUME TwoSons(s) PROVE Walking(D)'
  <2>1. s \in InTree(tree) /\ tree.lson[s] # NIL
    BY <1>6, <1>11 DEF TwoSons, InTree
  <2>. DEFINE l == tree.lson[s]
  <2>2. l \in InTree(tree) /\ textBuf[l] = textBuf[s] /\ l \in D[l]
    BY <1>9, <2>1
  <2>. HIDE DEF l
  <2>3. CASE BeginDelete
    <3>1. last' = l
      BY <2>3 DEF BeginDelete, l
    <3>2. QED
      BY <1>2, <2>2, <3>1 DEF Walking, l
  <2>4. CASE WalkRight
    <3>. DEFINE m == tree.rson[last]
    <3>1. last' = m /\ m # NIL /\ Walking(D)
      BY <1>4, <1>11, <2>4 DEF WalkRight
    <3>2. last \in InTree(tree) /\ last \in D[l] /\ textBuf[last] = textBuf[s]
      BY <1>8, <2>2, <3>1 DEF Walking, l
    <3>3. m \in InTree(tree) /\ textBuf[m] = textBuf[s] /\ m \in D[m]
      BY <1>9, <3>1, <3>2
    <3>4. D[last] = {last} \union D[tree.lson[last]] \union D[m] /\ D[last] \subseteq D[l]
      BY <1>8, <2>2, <3>2 DEF Branches, Nested
    <3>5. <<last, m>> \in Order(textBuf)
      BY <1>8, <3>2, <3>3 DEF Between
    <3>6. ASSUME NEW q \in D[l] PROVE q \in D[m] \/ <<q, m>> \in Order(textBuf)
      <4>1. q \in Node /\ last \in Node /\ m \in Node
        BY <1>8, <2>2, <3>2, <3>3
      <4>2. <<q, last>> \in Order(textBuf) => <<q, m>> \in Order(textBuf)
        BY <1>7, <3>5, <4>1 DEF StrictOrder
      <4>3. CASE q \in D[last]
        BY <1>8, <3>2, <3>4, <3>5, <4>2, <4>3 DEF Between
      <4>4. CASE q \notin D[last]
        BY <3>1, <4>2, <4>4 DEF Walking, l
      <4>5. QED
        BY <4>3, <4>4
    <3>. HIDE DEF m
    <3>7. QED
      BY <1>2, <3>1, <3>3, <3>4, <3>6 DEF Walking, l
  <2>5. QED
    BY <2>3, <2>4
<1>12. Trees'
  <2>1. TwoSons(s)' = TwoSons(s)
    BY <1>2 DEF TwoSons
  <2>2. Sorted(tree', D, textBuf', Order(textBuf')) /\ WellLinked(tree', textBuf')
        /\ tree' \in Arrays /\ InTree(tree') \subseteq Nodes(Live')
    BY <1>2, <1>3, <1>4, <1>5
  <2>3. QED
    BY <1>1, <1>10, <1>11, <2>1, <2>2 DEF Trees
<1>13. Matched'
  BY <1>1, <1>2 DEF Matched
<1>14. Covered'
  BY <1>2, <1>3 DEF Covered
<1>15. Unbeaten'
  BY <1>1 DEF Unbeaten
<1>. QED
  BY <1>12, <1>13, <1>14, <1>15

(* ... and ends at the greatest one on the left.                            *)
LEMMA WalkEnds ==
  ASSUME Control, Written, Trees, Found, NEW D, Sorted(tree, D, textBuf, Order(textBuf)),
         TwoSons(s) => Walking(D), Two(tree, s)
  PROVE  LastOf(tree, D, textBuf, Order(textBuf), s)
<1>1. TwoSons(s)
  BY DEF Two, TwoSons
<1>2. tree.rson[last] = NIL /\ Walking(D)
  BY <1>1 DEF Found
<1>3. s \in Node
  <2>1. Sent + F \in Int
    BY Sizes DEF Control, Sent
  <2>2. QED
    BY <2>1, Cells DEF Control
<1>4. tree.lson[s] \in InTree(tree)
  <2>1. s \in InTree(tree) /\ tree.lson[s] # NIL
    BY <1>3 DEF Two, InTree
  <2>2. HasSons(tree, s)
    BY <2>1 DEF Trees, WellLinked
  <2>3. QED
    BY <1>3, <2>1, <2>2, Places DEF HasSons, InTree
<1>5. last \in InTree(tree)
  BY <1>2, <1>4 DEF Walking, Sorted, Nested
<1>6. D[NIL] = {} /\ Branches(tree, D, last) /\ Between(tree, D, Order(textBuf), last)
  BY <1>5 DEF Sorted
<1>. QED
  BY <1>2, <1>6 DEF LastOf, Walking, Branches, Between

(* What is left when the oldest string is deleted.                          *)
LEMMA Deleted ==
  ASSUME Control, Written, Trees, Found
  PROVE  LET t == DeleteNode(tree, s)
         IN  /\ t \in Arrays /\ WellLinked(t, textBuf) /\ InTree(t) = InTree(tree) \ {s}
             /\ \E D : Sorted(t, D, textBuf, Order(textBuf))
             /\ s \in Node
<1>1. PICK D : /\ Sorted(tree, D, textBuf, Order(textBuf))
               /\ TwoSons(s) => Walking(D)
  BY DEF Trees, Found
<1>2. Two(tree, s) => LastOf(tree, D, textBuf, Order(textBuf), s)
  BY <1>1, WalkEnds
<1>3. s \in Node
  <2>1. Sent + F \in Int
    BY Sizes DEF Control, Sent
  <2>2. QED
    BY <2>1, Cells DEF Control
<1>4. StrictOrder(Order(textBuf)) /\ tree \in Arrays /\ WellLinked(tree, textBuf)
  BY OrderStrict DEF Written, Trees
<1>. DEFINE lt == Order(textBuf)
<1>5. Sorted(tree, D, textBuf, lt) /\ StrictOrder(lt)
      /\ (Two(tree, s) => LastOf(tree, D, textBuf, lt, s))
  BY <1>1, <1>2, <1>4
<1>. HIDE DEF lt
<1>6. /\ DeleteNode(tree, s) \in Arrays /\ WellLinked(DeleteNode(tree, s), textBuf)
      /\ InTree(DeleteNode(tree, s)) = InTree(tree) \ {s}
      /\ \E E : Sorted(DeleteNode(tree, s), E, textBuf, lt)
  BY ONLY <1>3, <1>4, <1>5, DeleteSorts
<1>. QED
  BY <1>3, <1>6 DEF lt

(* The ring moves on by one byte.                                           *)
LEMMA ShiftLive ==
  ASSUME Control, pc = "delete", Sent' = Sent + 1, todo' = todo + 1, len > 0,
         \/ pc' = "insert"
         \/ pc' = "next" /\ len' = 0
  PROVE  /\ s = Pos(Sent - (N - F)) /\ Sent \in Int
         /\ \A k \in Live : k \in Int /\ k >= Sent - (N - F) /\ k <= Sent /\ k >= -F
         /\ Live' = {k \in Live : k # Sent - (N - F)}
         /\ \A k \in Live' : Pos(k) # s
         /\ \A k \in Live : k \in Live' <=> k >= Sent + 1 - (N - F)
         /\ Past' \subseteq Past /\ \A k \in Past' : k < 0 => Sent + 1 <= N - 2 * F
         /\ Key' = Sent + 1
<1>. USE Sizes
<1>1. Sent \in Int /\ todo \in Int /\ todo < 0 /\ Sent >= 0
  BY DEF Control, Sent
<1>2. Live = {k \in -F .. Sent : k >= Sent - (N - F)}
  BY <1>1 DEF Live, Control
<1>3. Live' = {k \in -F .. Sent : k >= Sent + 1 - (N - F)}
  <2>1. ~(todo' > 0) /\ Sent' - 1 = Sent
    BY <1>1
  <2>2. Live' = {k \in -F .. Sent' - 1 : k >= Sent' - (N - F)}
    BY <2>1 DEF Live
  <2>3. QED
    BY <1>1, <2>1, <2>2
<1>4. s = Pos(Sent - (N - F))
  <2>1. Sent + F - N = Sent - (N - F) /\ Sent + F \in Int
    BY <1>1
  <2>2. Pos(Sent + F - N) = Pos(Sent + F)
    <3>1. PICK k \in Int : k = Sent + F
      BY <2>1
    <3>2. Pos(k - N) = Pos(k)
      BY Cells
    <3>3. k - N = Sent + F - N
      BY <1>1, <3>1
    <3>4. QED
      BY ONLY <3>1, <3>2, <3>3
  <2>3. QED
    BY <2>1, <2>2 DEF Control
<1>5. \A k \in Live : k \in Int /\ k >= Sent - (N - F) /\ k <= Sent /\ k >= -F
  BY <1>1, <1>2
<1>6. Live' = {k \in Live : k # Sent - (N - F)}
  BY <1>1, <1>2, <1>3
<1>7. ASSUME NEW k \in Live' PROVE Pos(k) # s
  <2>1. k \in Int /\ k > Sent - (N - F) /\ k < Sent - (N - F) + N
    BY <1>1, <1>3
  <2>2. QED
    BY <1>1, <1>4, <2>1, Apart
<1>8. Past' \subseteq Past /\ \A k \in Past' : k < 0 => Sent + 1 <= N - 2 * F
  <2>1. Past' = {k \in Live' : k >= 0 \/ Sent + 1 <= N - 2 * F}
    BY DEF Past
  <2>2. QED
    BY <1>1, <1>2, <1>3, <2>1 DEF Past
<1>9. Key' = Sent + 1
  BY <1>1 DEF Key
<1>10. \A k \in Live : k \in Live' <=> k >= Sent + 1 - (N - F)
  BY <1>1, <1>2, <1>3
<1>. QED
  BY <1>1, <1>4, <1>5, <1>6, <1>7, <1>8, <1>9, <1>10

(* What is covered stays so, since the string that leaves is the oldest.    *)
LEMMA ShiftCovers ==
  ASSUME Control, Covered, pc = "delete", Sent' = Sent + 1, todo' = todo + 1, len > 0,
         \/ pc' = "insert"
         \/ pc' = "next" /\ len' = 0,
         InTree(tree') = InTree(tree) \ {s},
         \A k \in Live' : \A i \in 0 .. F - 1 : textBuf'[Pos(k) + i] = textBuf[Pos(k) + i]
  PROVE  Covered'
<1>. USE Sizes
<1>1. /\ Sent \in Int
      /\ \A k \in Live : k \in Int /\ k >= Sent - (N - F) /\ k <= Sent /\ k >= -F
      /\ \A k \in Live' : Pos(k) # s
      /\ \A k \in Live : k \in Live' <=> k >= Sent + 1 - (N - F)
      /\ Past' \subseteq Past /\ \A k \in Past' : k < 0 => Sent + 1 <= N - 2 * F
      /\ Live' \subseteq Live
  BY ShiftLive
<1>. SUFFICES ASSUME NEW k \in Past'
              PROVE  \E m \in Live' : /\ Pos(m) \in InTree(tree') /\ (k >= 0 => m >= k)
                                      /\ Agree(textBuf', Pos(m), Pos(k), F)
  BY DEF Covered
<1>2. PICK m \in Live : /\ Pos(m) \in InTree(tree) /\ (k >= 0 => m >= k)
                        /\ Agree(textBuf, Pos(m), Pos(k), F)
  BY <1>1 DEF Covered
<1>3. k \in Live' /\ k \in Live /\ k >= Sent + 1 - (N - F)
  <2>1. k \in Live'
    BY DEF Past
  <2>2. QED
    BY <1>1, <2>1
<1>4. m \in Live'
  <2>1. k \in Int /\ m \in Int /\ m >= -F
    BY <1>1, <1>3
  <2>2. CASE k >= 0
    BY <1>1, <1>2, <1>3, <2>1, <2>2
  <2>3. CASE k < 0
    <3>1. Sent + 1 - (N - F) <= -F
      BY <1>1, <2>3
    <3>2. QED
      BY <1>1, <2>1, <3>1
  <2>4. QED
    BY <2>1, <2>2, <2>3
<1>5. Pos(m) \in InTree(tree')
  BY <1>1, <1>2, <1>4
<1>6. Agree(textBuf', Pos(m), Pos(k), F)
  BY <1>2, <1>3, <1>4 DEF Agree
<1>. QED
  BY <1>2, <1>4, <1>5, <1>6

(* The oldest string leaves, and a new one is taken up with the new byte.   *)
LEMMA ShiftInSearches ==
  ASSUME Control, Written, Trees, Matched, Covered, ShiftIn
  PROVE  Trees' /\ Matched' /\ Covered' /\ Unbeaten'
<1>. USE Sizes
<1>. DEFINE t == DeleteNode(tree, s)
            k == Pos(Sent + 1)
<1>1. /\ pc = "delete" /\ bfin' = bfin + 1 /\ todo' = todo + 1 /\ len' = len /\ bfin < buflen
      /\ r' = Wrap(r + 1) /\ InsertNode(t, r') /\ last' = last /\ Found /\ bufin' = bufin
      /\ pc' = "insert"
  BY DEF ShiftIn, Found, InsertNode, inVars
<1>2. /\ Sent \in Int /\ bfin \in Nat /\ len = F /\ len > 0 /\ Sent' = Sent + 1
      /\ bfin = Sent + F /\ Len(bufin) \in Nat /\ bfin \in F .. Len(bufin)
  <2>1. bfin \in Nat /\ len \in Nat /\ (len = F \/ bfin >= buflen) /\ buflen \in Nat
        /\ bfin \in F .. Len(bufin) /\ Len(bufin) \in Nat
    BY DEF Control
  <2>2. len = F /\ Sent = bfin - F /\ Sent' = bfin + 1 - F
    BY <1>1, <2>1 DEF Sent
  <2>3. QED
    BY <2>1, <2>2
<1>3. /\ s = Pos(Sent - (N - F))
      /\ \A j \in Live : j \in Int /\ j >= Sent - (N - F) /\ j <= Sent /\ j >= -F
      /\ Live' = {j \in Live : j # Sent - (N - F)}
      /\ \A j \in Live' : Pos(j) # s
      /\ \A j \in Live : j \in Live' <=> j >= Sent + 1 - (N - F)
      /\ Key' = Sent + 1
  BY <1>1, <1>2, ShiftLive
<1>4. r' = k /\ k \in Node /\ k = Pos(Key')
  <2>1. Wrap(Pos(Sent) + 1) = Pos(Sent + 1) /\ Pos(Sent + 1) \in Node
    <3>1. Sent \in Int /\ Sent + 1 \in Int
      BY <1>2
    <3>2. QED
      BY ONLY <3>1, NextCell, Cells
  <2>2. r = Pos(Sent)
    BY DEF Control
  <2>3. QED
    BY <1>1, <1>3, <2>1, <2>2
<1>5. Written' /\ textBuf' \in Buffers /\ textBuf \in Buffers
  BY WrittenSteps DEF Next, Compress, Written
<1>6. ASSUME NEW j \in Live', NEW i \in 0 .. F - 1
      PROVE  textBuf'[Pos(j) + i] = textBuf[Pos(j) + i]
  <2>1. /\ j \in Int /\ j >= F - N /\ j < bfin /\ j >= Sent + 1 - (N - F) /\ j <= Sent
        /\ j + i \in bfin + 1 - N .. bfin - 1 /\ j + i \in bfin - N .. bfin - 1
    BY <1>2, <1>3
  <2>2. textBuf[Pos(j) + i] = TextAt(j + i)
    BY ONLY <2>1, Control, Written, i \in 0 .. F - 1, StringsAre
  <2>3. textBuf'[Pos(j) + i] = TextAt(j + i)
    <3>1. bfin' \in Nat /\ i \in 0 .. N - 1
      BY <1>1, <1>2
    <3>2. /\ Pos(j) + i < N => Pos(j + i) = Pos(j) + i
          /\ Pos(j) + i >= N => Pos(j + i) = Pos(j) + i - N
      BY <2>1, <3>1, CellsOfString
    <3>3. j + i \in bfin' - N .. bfin' - 1
      BY <1>1, <1>2, <2>1
    <3>4. /\ textBuf'[Pos(j + i)] = TextAt(j + i)
          /\ j + i >= F /\ Pos(j + i) <= F - 2 => textBuf'[N + Pos(j + i)] = TextAt(j + i)
      <4>1. \A a \in Int : TextAt(a)' = TextAt(a)
        BY <1>1 DEF TextAt
      <4>2. /\ textBuf'[Pos(j + i)] = TextAt(j + i)'
            /\ j + i >= F /\ Pos(j + i) <= F - 2 => textBuf'[N + Pos(j + i)] = TextAt(j + i)'
        BY <1>5, <3>3 DEF Written
      <4>3. QED
        BY <1>1, <4>2 DEF TextAt
    <3>5. Pos(j) \in Node
      BY <2>1, Cells
    <3>6. CASE Pos(j) + i < N
      BY <3>2, <3>4, <3>6
    <3>7. CASE Pos(j) + i >= N
      <4>1. Pos(j + i) = Pos(j) + i - N /\ Pos(j) \in 0 .. N - 1
        BY <3>2, <3>5, <3>7 DEF Node
      <4>2. Pos(j + i) <= F - 2 /\ N + Pos(j + i) = Pos(j) + i
        BY <4>1
      <4>3. j + i >= F
        <5>1. CASE j <= F - 1
          <6>1. Pos(j) = j + N - F
            BY <2>1, <5>1, FirstCells
          <6>2. QED
            BY <2>1, <3>7, <6>1
        <5>2. CASE j >= F
          BY <2>1, <5>2
        <5>3. QED
          BY <2>1, <5>1, <5>2
      <4>4. QED
        BY <3>4, <4>2, <4>3
    <3>8. QED
      BY <3>5, <3>6, <3>7 DEF Node
  <2>4. QED
    BY <2>2, <2>3
<1>7. /\ t \in Arrays /\ WellLinked(t, textBuf) /\ InTree(t) = InTree(tree) \ {s}
      /\ \E D : Sorted(t, D, textBuf, Order(textBuf))
  BY <1>1, Deleted
<1>. HIDE DEF t, k
<1>8. InTree(t) \subseteq Nodes(Live')
  <2>1. InTree(tree) \subseteq Nodes(Live)
    BY DEF Trees
  <2>2. QED
    BY <1>3, <1>7, <2>1 DEF Nodes
<1>9. PICK D : Sorted(t, D, textBuf, Order(textBuf))
  BY <1>7
<1>10. WellLinked(t, textBuf') /\ Sorted(t, D, textBuf', Order(textBuf'))
  <2>1. \A n \in InTree(t) : \A i \in 0 .. F - 1 : textBuf'[n + i] = textBuf[n + i]
    BY <1>6, <1>8 DEF Nodes
  <2>. DEFINE new == textBuf'
  <2>2. new \in Buffers /\ \A n \in InTree(t) : \A i \in 0 .. F - 1 : new[n + i] = textBuf[n + i]
    BY <1>5, <2>1
  <2>. HIDE DEF new
  <2>3. WellLinked(t, new) /\ Sorted(t, D, new, Order(new))
    BY ONLY <1>5, <1>7, <1>9, <2>2, Carried
  <2>4. QED
    BY <2>3 DEF new
<1>11. k \notin InTree(t)
  <2>1. ASSUME NEW j \in Live' PROVE Pos(j) # k
    <3>1. j \in Int /\ j < Sent + 1 /\ Sent + 1 < j + N /\ Sent + 1 \in Int
      BY <1>2, <1>3
    <3>2. QED
      BY ONLY <3>1, Apart, Sizes DEF k
  <2>2. QED
    BY <1>8, <2>1 DEF Nodes
<1>12. /\ tree' \in Arrays /\ WellLinked(tree', textBuf') /\ InTree(tree') = InTree(t)
       /\ Sorted(tree', D, textBuf', Order(textBuf')) /\ Seeking(D)'
       /\ tree'.lson[key'] = NIL /\ tree'.rson[key'] = NIL
       /\ matchLength' = 0 /\ matchPosition' = matchPosition /\ key' = k /\ pc' = "insert"
  <2>1. InsertNode(t, k)
    BY <1>1, <1>4
  <2>2. QED
    BY ONLY <1>4, <1>5, <1>7, <1>10, <1>11, <2>1, InsertBegins
<1>13. Trees'
  <2>1. last' \in 0 .. N
    BY <1>1 DEF Trees
  <2>2. InTree(tree') \subseteq Nodes(Live')
    BY <1>8, <1>12
  <2>3. QED
    BY <1>12, <2>1, <2>2 DEF Trees
<1>14. Matched'
  <2>1. matchPosition' \in Node /\ matchLength' = 0 /\ key' = Pos(Key')
    BY <1>4, <1>12 DEF Matched
  <2>2. QED
    BY <2>1 DEF Matched
<1>15. Covered'
  <2>1. InTree(tree') = InTree(tree) \ {s}
    BY <1>7, <1>12
  <2>2. QED
    BY <1>1, <1>2, <1>6, <2>1, ShiftCovers
<1>16. Unbeaten'
  BY <1>1 DEF Unbeaten
<1>. QED
  BY <1>13, <1>14, <1>15, <1>16

(* After the end of the input the oldest string leaves and no byte comes.   *)
LEMMA ShiftOutSearches ==
  ASSUME Control, Written, Trees, Matched, Covered, ShiftOut
  PROVE  Trees' /\ Matched' /\ Covered' /\ Unbeaten'
<1>. USE Sizes
<1>. DEFINE t == DeleteNode(tree, s)
            k == Pos(Sent + 1)
<1>1. /\ pc = "delete" /\ bfin' = bfin /\ todo' = todo + 1 /\ len' = len - 1
      /\ r' = Wrap(r + 1) /\ last' = last /\ Found /\ textBuf' = textBuf
      /\ len' # 0 => InsertNode(t, r') /\ pc' = "insert"
      /\ len' = 0 => tree' = t /\ pc' = "next" /\ UNCHANGED nodeVars
  BY DEF ShiftOut, Found, InsertNode
<1>2. /\ Sent \in Int /\ len > 0 /\ Sent' = Sent + 1 /\ len \in Nat
  <2>1. bfin \in Nat /\ len \in Nat /\ todo < 0 /\ todo + len >= 0 /\ todo \in Int
    BY <1>1 DEF Control
  <2>2. Sent = bfin - len /\ Sent' = bfin - (len - 1)
    BY <1>1 DEF Sent
  <2>3. QED
    BY <2>1, <2>2
<1>3. /\ s = Pos(Sent - (N - F))
      /\ \A j \in Live : j \in Int /\ j >= Sent - (N - F) /\ j <= Sent /\ j >= -F
      /\ Live' = {j \in Live : j # Sent - (N - F)}
      /\ \A j \in Live' : Pos(j) # s
      /\ \A j \in Live : j \in Live' <=> j >= Sent + 1 - (N - F)
      /\ Key' = Sent + 1
  BY <1>1, <1>2, ShiftLive
<1>4. r' = k /\ k \in Node /\ k = Pos(Key')
  <2>1. Wrap(Pos(Sent) + 1) = Pos(Sent + 1) /\ Pos(Sent + 1) \in Node
    <3>1. Sent \in Int /\ Sent + 1 \in Int
      BY <1>2
    <3>2. QED
      BY ONLY <3>1, NextCell, Cells
  <2>2. r = Pos(Sent)
    BY DEF Control
  <2>3. QED
    BY <1>1, <1>3, <2>1, <2>2
<1>5. textBuf' \in Buffers /\ textBuf \in Buffers
  BY <1>1 DEF Written
<1>7. /\ t \in Arrays /\ WellLinked(t, textBuf) /\ InTree(t) = InTree(tree) \ {s}
      /\ \E D : Sorted(t, D, textBuf, Order(textBuf))
  BY <1>1, Deleted
<1>. HIDE DEF t, k
<1>8. InTree(t) \subseteq Nodes(Live') /\ last' \in 0 .. N
  <2>1. InTree(tree) \subseteq Nodes(Live)
    BY DEF Trees
  <2>2. QED
    BY <1>1, <1>3, <1>7, <2>1 DEF Nodes, Trees
<1>9. PICK D : Sorted(t, D, textBuf', Order(textBuf'))
  BY <1>1, <1>7
<1>10. InTree(tree') = InTree(t) => Covered'
  BY <1>1, <1>2, <1>7, ShiftCovers
<1>11. CASE len' = 0
  <2>1. tree' = t /\ pc' = "next" /\ matchPosition' = matchPosition /\ matchLength' = matchLength
    BY <1>1, <1>11 DEF nodeVars
  <2>2. Trees'
    BY <1>1, <1>7, <1>8, <1>9, <2>1 DEF Trees
  <2>3. Matched'
    <3>1. matchPosition' \in Node /\ matchLength' \in 0 .. F
      BY <2>1 DEF Matched
    <3>2. QED
      BY <1>11, <2>1, <3>1 DEF Matched
  <2>4. Unbeaten'
    BY <1>11 DEF Unbeaten
  <2>5. QED
    BY <1>10, <2>1, <2>2, <2>3, <2>4
<1>12. CASE len' # 0
  <2>1. k \notin InTree(t)
    <3>1. ASSUME NEW j \in Live' PROVE Pos(j) # k
      <4>1. j \in Int /\ j < Sent + 1 /\ Sent + 1 < j + N /\ Sent + 1 \in Int
        BY <1>2, <1>3
      <4>2. QED
        BY ONLY <4>1, Apart, Sizes DEF k
    <3>2. QED
      BY <1>8, <3>1 DEF Nodes
  <2>2. /\ tree' \in Arrays /\ WellLinked(tree', textBuf') /\ InTree(tree') = InTree(t)
        /\ Sorted(tree', D, textBuf', Order(textBuf')) /\ Seeking(D)'
        /\ tree'.lson[key'] = NIL /\ tree'.rson[key'] = NIL
        /\ matchLength' = 0 /\ matchPosition' = matchPosition /\ key' = k /\ pc' = "insert"
    <3>1. InsertNode(t, k) /\ WellLinked(t, textBuf')
      BY <1>1, <1>4, <1>7, <1>12
    <3>2. QED
      BY ONLY <1>4, <1>5, <1>7, <1>9, <2>1, <3>1, InsertBegins
  <2>3. Trees'
    BY <1>8, <2>2 DEF Trees
  <2>4. Matched'
    <3>1. matchPosition' \in Node /\ matchLength' = 0 /\ key' = Pos(Key')
      BY <1>4, <2>2 DEF Matched
    <3>2. QED
      BY <3>1 DEF Matched
  <2>5. Unbeaten'
    BY <2>2 DEF Unbeaten
  <2>6. QED
    BY <1>10, <2>2, <2>3, <2>4, <2>5
<1>. QED
  BY <1>11, <1>12

-----------------------------------------------------------------------------
(* What the trees and the match are good for. *)

Searches == Control /\ Written /\ Trees /\ Matched /\ Covered /\ Unbeaten

(* Each step keeps the trees sorted and the match the longest.              *)
LEMMA SearchSteps ==
  ASSUME Searches, [Next]_vars
  PROVE  Searches'
<1>1. Control /\ Written /\ Trees /\ Matched /\ Covered /\ Unbeaten
  BY DEF Searches
<1>2. Control'
  <2>1. matchLength \in 0 .. F
    BY <1>1 DEF Matched
  <2>2. QED
    BY <1>1, <2>1, ControlSteps
<1>3. Written'
  BY <1>1, WrittenSteps
<1>4. Trees' /\ Matched' /\ Covered' /\ Unbeaten'
  <2>1. CASE InsertFirst
    BY <1>1, <2>1, InsertFirstSearches
  <2>2. CASE Descend
    BY <1>1, <2>2, DescendHangs, DescendGoesOn, DescendReplaces
  <2>3. CASE SendUnit
    BY <1>1, <2>3, SendUnitSearches
  <2>4. CASE BeginDelete \/ WalkRight
    BY <1>1, <2>4, BeginDeleteSearches
  <2>5. CASE ShiftIn
    BY <1>1, <2>5, ShiftInSearches
  <2>6. CASE ShiftOut
    BY <1>1, <2>6, ShiftOutSearches
  <2>7. CASE Finish \/ LzssDecodeVram \/ UNCHANGED vars
    BY <1>1, <2>7, OthersSearch
  <2>8. QED
    BY <2>1, <2>2, <2>3, <2>4, <2>5, <2>6, <2>7 DEF Next, Compress
<1>. QED
  BY <1>2, <1>3, <1>4 DEF Searches

(* The compressor's ring, trees and matches are as described, always.       *)
THEOREM AlwaysSearches == Spec => []Searches
<1>1. Init => Searches
  BY RingBegins, SearchBegins DEF Searches
<1>2. Searches /\ [Next]_vars => Searches'
  BY SearchSteps
<1>. QED
  BY <1>1, <1>2, PTL DEF Spec

(* There are sets of nodes that satisfy the definition of Below, whatever   *)
(* the arrays hold.                                                         *)
LEMMA Reachable ==
  ASSUME NEW t \in Arrays
  PROVE  \E f : f = [q \in 0 .. N |->
                       IF q = NIL THEN {} ELSE {q} \union f[t.lson[q]] \union f[t.rson[q]]]
<1>. DEFINE Z == 0 .. N
            Closed == {G \in [Z -> SUBSET Z] :
                         \A q \in Z : q # NIL =>
                           {q} \union G[t.lson[q]] \union G[t.rson[q]] \subseteq G[q]}
            f == [q \in Z |-> {m \in Z : q # NIL /\ \A G \in Closed : m \in G[q]}]
            H == [q \in Z |-> IF q = NIL THEN {} ELSE {q} \union f[t.lson[q]] \union f[t.rson[q]]]
<1>1. \A q \in Z : t.lson[q] \in Z /\ t.rson[q] \in Z
  BY DEF Arrays
<1>. HIDE DEF Z
<1>2. \A q \in Z : f[q] \subseteq Z /\ f[NIL] = {}
  <2>1. NIL \in Z
    BY Places DEF Z
  <2>2. QED
    BY <2>1
<1>3. ASSUME NEW q \in Z, q # NIL
      PROVE  {q} \union f[t.lson[q]] \union f[t.rson[q]] \subseteq f[q]
  <2>1. ASSUME NEW G \in Closed
        PROVE  {q} \union f[t.lson[q]] \union f[t.rson[q]] \subseteq G[q]
    <3>1. f[t.lson[q]] \subseteq G[t.lson[q]] /\ f[t.rson[q]] \subseteq G[t.rson[q]]
      BY <1>1
    <3>2. {q} \union G[t.lson[q]] \union G[t.rson[q]] \subseteq G[q]
      BY <1>3
    <3>3. QED
      BY <3>1, <3>2
  <2>2. {q} \union f[t.lson[q]] \union f[t.rson[q]] \subseteq Z
    BY <1>1, <1>2
  <2>. HIDE DEF Closed
  <2>3. \A m \in {q} \union f[t.lson[q]] \union f[t.rson[q]] :
          m \in Z /\ \A G \in Closed : m \in G[q]
    BY <2>1, <2>2
  <2>4. f[q] = {m \in Z : \A G \in Closed : m \in G[q]}
    BY <1>3
  <2>. HIDE DEF f
  <2>5. QED
    BY <2>3, <2>4
<1>. HIDE DEF f
<1>4. H \in [Z -> SUBSET Z]
  BY <1>1, <1>2
<1>5. ASSUME NEW q \in Z PROVE H[q] \subseteq f[q]
  BY <1>3
<1>6. \A q \in Z : q # NIL => {q} \union H[t.lson[q]] \union H[t.rson[q]] \subseteq H[q]
  <2>. SUFFICES ASSUME NEW q \in Z, q # NIL
                PROVE  {q} \union H[t.lson[q]] \union H[t.rson[q]] \subseteq H[q]
    OBVIOUS
  <2>1. H[t.lson[q]] \subseteq f[t.lson[q]] /\ H[t.rson[q]] \subseteq f[t.rson[q]]
    BY <1>1, <1>5
  <2>2. H[q] = {q} \union f[t.lson[q]] \union f[t.rson[q]]
    OBVIOUS
  <2>. HIDE DEF H
  <2>3. QED
    BY <2>1, <2>2
<1>7. H \in Closed
  BY <1>4, <1>6
<1>8. ASSUME NEW q \in Z PROVE f[q] \subseteq H[q]
  <2>1. \A m \in f[q] : \A G \in Closed : m \in G[q]
    BY DEF f
  <2>. HIDE DEF Closed, H
  <2>2. QED
    BY <1>7, <2>1
<1>9. f = H
  <2>1. \A q \in Z : f[q] = H[q]
    BY <1>5, <1>8
  <2>2. f = [q \in Z |-> f[q]] /\ H = [q \in Z |-> H[q]]
    BY DEF f
  <2>. HIDE DEF H
  <2>3. QED
    BY <2>1, <2>2
<1>. QED
  BY <1>9 DEF Z

(* The nodes below one in the trees are those that the order knows of.      *)
LEMMA BelowIs ==
  ASSUME tree \in Arrays, WellLinked(tree, textBuf), NEW D, NEW lt,
         Sorted(tree, D, textBuf, lt), StrictOrder(lt),
         NEW n, n \in InTree(tree) \/ n = NIL
  PROVE  Below(n) = D[n]
<1>. USE Places
<1>. DEFINE P(f) == f = [q \in 0 .. N |->
                           IF q = NIL THEN {}
                           ELSE {q} \union f[tree.lson[q]] \union f[tree.rson[q]]]
            b == CHOOSE f : P(f)
<1>1. \E f : P(f)
  BY Reachable
<1>2. Below(n) = b[n]
  BY DEF Below
<1>. HIDE DEF b
<1>3. P(b)
  <2>. HIDE DEF P
  <2>1. QED
    BY <1>1 DEF b
<1>4. \A q \in 0 .. N : b[q] = IF q = NIL THEN {}
                               ELSE {q} \union b[tree.lson[q]] \union b[tree.rson[q]]
  BY <1>3, Zenon
<1>. HIDE DEF P
<1>5. D[NIL] = {} /\ b[NIL] = {}
  BY <1>4 DEF Sorted
<1>6. ASSUME NEW k \in InTree(tree)
      PROVE  /\ k \in Node /\ k \in 0 .. N /\ k # NIL
             /\ D[k] = {k} \union D[tree.lson[k]] \union D[tree.rson[k]]
             /\ k \notin D[tree.lson[k]] /\ k \notin D[tree.rson[k]] /\ D[k] \subseteq Node
             /\ tree.lson[k] = NIL \/ tree.lson[k] \in InTree(tree)
             /\ tree.rson[k] = NIL \/ tree.rson[k] \in InTree(tree)
  <2>1. k \in Node /\ k # NIL /\ k \in 0 .. N
    BY DEF InTree
  <2>2. Branches(tree, D, k) /\ Nested(tree, D, k) /\ Between(tree, D, lt, k)
    BY DEF Sorted
  <2>3. k \notin D[tree.lson[k]] /\ k \notin D[tree.rson[k]]
    BY <2>1, <2>2 DEF Between, StrictOrder
  <2>4. HasSons(tree, k)
    BY DEF WellLinked
  <2>5. /\ tree.lson[k] = NIL \/ tree.lson[k] \in InTree(tree)
        /\ tree.rson[k] = NIL \/ tree.rson[k] \in InTree(tree)
    BY <2>1, <2>4 DEF HasSons, InTree
  <2>6. D[k] \subseteq Node
    BY <2>2 DEF Nested, InTree
  <2>7. QED
    BY <2>1, <2>2, <2>3, <2>5, <2>6 DEF Branches
<1>7. \A k \in InTree(tree) : IsFiniteSet(D[k]) /\ Cardinality(D[k]) \in Nat
  <2>1. IsFiniteSet(Node)
    BY FS_Interval, Sizes DEF Node
  <2>2. QED
    BY <1>6, <2>1, FS_Subset, FS_CardinalityType
<1>8. ASSUME NEW k \in InTree(tree), NEW m \in InTree(tree), D[m] \subseteq D[k], k \notin D[m],
             k \in D[k]
      PROVE  Cardinality(D[m]) < Cardinality(D[k])
  <2>1. Cardinality(D[m]) <= Cardinality(D[k]) /\ Cardinality(D[m]) # Cardinality(D[k])
    BY <1>7, <1>8, FS_Subset
  <2>2. QED
    BY <1>7, <2>1
<1>. DEFINE T == {Cardinality(D[k]) : k \in {k \in InTree(tree) : b[k] # D[k]}}
<1>9. T = {}
  <2>. SUFFICES ASSUME T # {} PROVE FALSE
    OBVIOUS
  <2>1. T \subseteq Nat
    BY <1>7
  <2>2. PICK i \in T : \A j \in T : i <= j
    BY <2>1, Least
  <2>3. PICK k \in InTree(tree) : b[k] # D[k] /\ i = Cardinality(D[k])
    OBVIOUS
  <2>4. ASSUME NEW m \in {tree.lson[k], tree.rson[k]} PROVE b[m] = D[m]
    <3>1. CASE m = NIL
      BY <1>5, <3>1
    <3>2. CASE m # NIL
      <4>1. m \in InTree(tree) /\ D[m] \subseteq D[k] /\ k \notin D[m] /\ k \in D[k]
        BY <1>6, <3>2
      <4>2. Cardinality(D[m]) < Cardinality(D[k])
        BY <1>8, <4>1
      <4>3. Cardinality(D[m]) \notin T
        BY <1>7, <2>2, <2>3, <4>1, <4>2
      <4>4. QED
        BY <4>1, <4>3
    <3>3. QED
      BY <3>1, <3>2
  <2>5. b[k] = {k} \union b[tree.lson[k]] \union b[tree.rson[k]]
    BY <1>4, <1>6
  <2>6. QED
    BY <1>6, <2>3, <2>4, <2>5
<1>10. \A k \in InTree(tree) : b[k] = D[k]
  BY <1>9
<1>. QED
  BY <1>2, <1>5, <1>10

(* After any number of insertions, replacements and deletions the trees are *)
(* search trees of strings in the ring: SearchTree holds always.            *)
THEOREM TreesSorted == Spec => []SearchTree
<1>. USE Places
<1>1. ASSUME Searches PROVE SearchTree
  <2>0. tree \in Arrays /\ WellLinked(tree, textBuf) /\ textBuf \in Buffers
    BY <1>1 DEF Searches, Trees, Written
  <2>1. PICK D : Sorted(tree, D, textBuf, Order(textBuf))
    BY <1>1 DEF Searches, Trees
  <2>2. StrictOrder(Order(textBuf))
    BY <2>0, OrderStrict
  <2>3. ASSUME NEW node \in {q \in Node : tree.dad[q] # NIL}
        PROVE  /\ IF tree.dad[node] > N
                  THEN tree.dad[node] = Root(textBuf[node]) /\ tree.rson[tree.dad[node]] = node
                  ELSE node \in {tree.lson[tree.dad[node]], tree.rson[tree.dad[node]]}
               /\ \A q \in Below(tree.lson[node]) : tree.dad[q] # NIL /\ Before(q, node)
               /\ \A q \in Below(tree.rson[node]) : tree.dad[q] # NIL /\ Before(node, q)
    <3>1. node \in InTree(tree) /\ node \in Node
      BY DEF InTree
    <3>2. HasDad(tree, textBuf, node) /\ HasSons(tree, node)
      BY <2>0, <3>1 DEF WellLinked
    <3>3. IF tree.dad[node] > N
          THEN tree.dad[node] = Root(textBuf[node]) /\ tree.rson[tree.dad[node]] = node
          ELSE node \in {tree.lson[tree.dad[node]], tree.rson[tree.dad[node]]}
      <4>1. CASE tree.dad[node] \in InTree(tree)
        <5>1. tree.dad[node] \in Node
          BY <4>1 DEF InTree
        <5>2. ~(tree.dad[node] > N) /\ \A a \in Bytes : tree.dad[node] # Root(a)
          BY <5>1, Sizes DEF Node
        <5>3. QED
          BY <3>2, <5>2 DEF HasDad
      <4>2. CASE tree.dad[node] \notin InTree(tree)
        <5>1. /\ textBuf[node] \in Bytes /\ tree.dad[node] = Root(textBuf[node])
              /\ tree.rson[Root(textBuf[node])] = node
          BY <3>2, <4>2 DEF HasDad
        <5>2. tree.dad[node] > N
          <6>1. textBuf[node] \in Nat /\ N \in Nat
            BY <5>1, LzssAssumption
          <6>2. ASSUME NEW b \in Nat PROVE Root(b) > N
            BY <6>1 DEF Root
          <6>3. Root(textBuf[node]) > N
            BY <6>1, <6>2
          <6>4. QED
            BY <5>1, <6>3
        <5>3. QED
          BY <5>1, <5>2
      <4>3. QED
        BY <4>1, <4>2
    <3>4. ASSUME NEW m \in {tree.lson[node], tree.rson[node]} PROVE Below(m) = D[m]
      <4>1. m \in InTree(tree) \/ m = NIL
        BY <3>1, <3>2 DEF HasSons, InTree
      <4>. DEFINE lt == Order(textBuf)
      <4>2. Sorted(tree, D, textBuf, lt) /\ StrictOrder(lt)
        BY <2>1, <2>2
      <4>. HIDE DEF lt
      <4>3. QED
        BY ONLY <2>0, <4>1, <4>2, BelowIs
    <3>5. Between(tree, D, Order(textBuf), node) /\ Branches(tree, D, node)
          /\ D[node] \subseteq InTree(tree)
      BY <2>1, <3>1 DEF Sorted, Nested
    <3>6. ASSUME NEW q \in Node, NEW m \in Node, <<q, m>> \in Order(textBuf)
          PROVE  Before(q, m)
      BY <3>6 DEF Order, Before, Agree
    <3>7. ASSUME NEW q \in Below(tree.lson[node]) PROVE tree.dad[q] # NIL /\ Before(q, node)
      <4>1. q \in D[tree.lson[node]] /\ q \in InTree(tree)
        BY <3>4, <3>5 DEF Branches
      <4>2. QED
        BY <3>1, <3>5, <3>6, <4>1 DEF Between, InTree
    <3>8. ASSUME NEW q \in Below(tree.rson[node]) PROVE tree.dad[q] # NIL /\ Before(node, q)
      <4>1. q \in D[tree.rson[node]] /\ q \in InTree(tree)
        BY <3>4, <3>5 DEF Branches
      <4>2. QED
        BY <3>1, <3>5, <3>6, <4>1 DEF Between, InTree
    <3>9. QED
      BY <3>3, <3>7, <3>8
  <2>4. QED
    BY <2>3, Zenon DEF SearchTree
<1>2. Searches => SearchTree
  BY <1>1
<1>. QED
  BY <1>2, AlwaysSearches, PTL

(* The greatest number of a set is one of it that no other exceeds.         *)
LEMMA MaxIs ==
  ASSUME NEW T, NEW top \in Nat, T \subseteq 0 .. top, T # {}
  PROVE  Max(T) \in T /\ \A j \in T : j <= Max(T)
<1>1. \E i \in T : \A j \in T : j <= i
  BY Greatest
<1>2. \E i \in T : \A j \in T : i >= j
  BY <1>1
<1>3. Max(T) \in T /\ \A j \in T : Max(T) >= j
  BY <1>2 DEF Max
<1>. QED
  BY <1>3

(* The match found is in the text, as long as it is said to be, and no      *)
(* other of the last N - F bytes has a longer one: LongestMatch holds       *)
(* always.                                                                  *)
THEOREM MatchLongest == Spec => []LongestMatch
<1>. USE Sizes
<1>1. ASSUME Searches, pc = "next", todo = 0, len > 0
      PROVE  LET back == Wrap(r - matchPosition)
                 n == Smaller(matchLength, len)
             IN  /\ n > 0 => back \in 1 .. N - F /\ Longest(Sent - back) = n
                 /\ \A d \in 1 .. N - F :
                      Sent - d >= 0 \/ Sent <= N - 2 * F => Longest(Sent - d) <= n
  <2>. DEFINE n == Smaller(matchLength, len)
              S0 == Sent
              Same0(k) == {l \in 0 .. len : \A j \in 0 .. l - 1 : TextAt(k + j) = TextAt(S0 + j)}
  <2>1. Control /\ Written /\ Trees /\ Matched /\ Covered /\ Unbeaten
    BY <1>1 DEF Searches
  <2>2. /\ S0 \in Nat /\ len \in 1 .. F /\ bfin = S0 + len /\ bfin \in Nat /\ r = Pos(S0)
        /\ matchLength \in 0 .. F /\ key = Pos(S0) /\ Key = S0 /\ matchPosition \in Node
    <3>1. bfin \in Nat /\ len \in 1 .. F /\ bfin >= F /\ r = Pos(S0)
      BY <1>1, <2>1 DEF Control
    <3>2. Key = S0
      BY <1>1 DEF Key
    <3>3. key = Pos(Key) /\ matchLength \in 0 .. F /\ matchPosition \in Node
      BY <1>1, <2>1 DEF Matched
    <3>4. QED
      BY <3>1, <3>2, <3>3 DEF Sent
  <2>3. Live = {k \in -F .. S0 : k >= S0 - (N - F)}
    BY <1>1 DEF Live
  <2>4. \A k : Longest(k) = Max(Same0(k))
    BY DEF Longest
  <2>. HIDE DEF S0
  <2>5. ASSUME NEW k \in Live, NEW j \in 0 .. len - 1
        PROVE  textBuf[Pos(k) + j] = TextAt(k + j)
    <3>1. /\ k \in Int /\ k >= F - N /\ k < bfin /\ j \in 0 .. F - 1
          /\ k + j \in bfin - N .. bfin - 1
      BY <2>2, <2>3
    <3>2. QED
      BY ONLY <2>1, <3>1, StringsAre
  <2>6. S0 \in Live
    BY <2>2, <2>3
  <2>7. n \in 0 .. len /\ n <= matchLength /\ (n < len => n = matchLength)
    BY <2>2 DEF Smaller
  <2>. HIDE DEF n
  <2>8. ASSUME NEW k \in Int
        PROVE  Max(Same0(k)) \in Same0(k) /\ \A l \in Same0(k) : l <= Max(Same0(k))
    <3>. DEFINE T == Same0(k)
    <3>1. T \subseteq 0 .. len /\ len \in Nat
      BY <2>2
    <3>2. 0 \in T
      BY <2>2
    <3>. HIDE DEF T
    <3>3. Max(T) \in T /\ \A l \in T : l <= Max(T)
      BY <3>1, <3>2, MaxIs
    <3>4. QED
      BY <3>3 DEF T
  <2>9. ASSUME n > 0
        PROVE  /\ Wrap(r - matchPosition) \in 1 .. N - F
               /\ Longest(S0 - Wrap(r - matchPosition)) = n
    <3>1. PICK k \in Live : k # S0 /\ matchPosition = Pos(k)
      BY <1>1, <2>1, <2>2, <2>7, <2>9 DEF Matched
    <3>2. /\ Agree(textBuf, Pos(k), Pos(S0), matchLength)
          /\ matchLength < F => textBuf[Pos(k) + matchLength] # textBuf[Pos(S0) + matchLength]
      BY <1>1, <2>1, <2>2, <2>7, <2>9, <3>1 DEF Matched
    <3>3. k \in Int /\ S0 - k \in 1 .. N - F
      BY <2>2, <2>3, <3>1
    <3>4. Wrap(r - matchPosition) = S0 - k
      <4>1. PICK d \in 0 .. N - 1 : d = S0 - k
        BY <3>3
      <4>2. Wrap(Pos(S0) - Pos(S0 - d)) = d
        BY <2>2, CellsBack
      <4>3. S0 - d = k
        BY <2>2, <3>3, <4>1
      <4>4. QED
        BY <2>2, <3>1, <4>1, <4>2, <4>3
    <3>5. S0 - (S0 - k) = k
      BY <2>2, <3>3
    <3>6. n \in Same0(k)
      <4>1. ASSUME NEW j \in 0 .. n - 1 PROVE TextAt(k + j) = TextAt(S0 + j)
        <5>1. j \in 0 .. len - 1 /\ j \in 0 .. matchLength - 1
          BY <2>2, <2>7
        <5>2. textBuf[Pos(k) + j] = textBuf[Pos(S0) + j]
          BY <3>2, <5>1 DEF Agree
        <5>3. QED
          BY <2>5, <2>6, <5>1, <5>2
      <4>2. QED
        BY <2>7, <4>1
    <3>7. ASSUME NEW l \in Same0(k), l > n PROVE FALSE
      <4>1. n \in 0 .. l - 1 /\ n \in 0 .. len - 1 /\ n = matchLength /\ matchLength < F
        BY <2>2, <2>7, <3>7
      <4>2. TextAt(k + n) = TextAt(S0 + n)
        BY <4>1
      <4>3. textBuf[Pos(k) + n] = textBuf[Pos(S0) + n]
        BY <2>5, <2>6, <4>1, <4>2
      <4>4. QED
        BY <3>2, <4>1, <4>3
    <3>8. Max(Same0(k)) = n
      <4>1. Max(Same0(k)) \in Same0(k) /\ n <= Max(Same0(k))
        BY <2>8, <3>3, <3>6
      <4>2. Max(Same0(k)) \in 0 .. len /\ ~(Max(Same0(k)) > n)
        BY <3>7, <4>1
      <4>. HIDE DEF Same0
      <4>3. QED
        BY <2>2, <2>7, <4>1, <4>2
    <3>. HIDE DEF Same0
    <3>9. Longest(k) = n
      BY <2>4, <3>8
    <3>10. QED
      BY <3>3, <3>4, <3>5, <3>9
  <2>10. ASSUME NEW k \in Past, k # S0, NEW l \in Same0(k) PROVE l <= n
    <3>. SUFFICES ASSUME l > 0 PROVE l <= matchLength
      <4>1. l \in 0 .. len
        OBVIOUS
      <4>2. QED
        BY <2>2, <2>7, <4>1
    <3>1. k \in Live /\ l \in 1 .. F /\ l \in 1 .. len
      BY <2>2 DEF Past
    <3>2. ASSUME NEW j \in 0 .. l - 1 PROVE textBuf[Pos(k) + j] = textBuf[key + j]
      <4>1. j \in 0 .. len - 1 /\ TextAt(k + j) = TextAt(S0 + j)
        BY <2>2
      <4>2. QED
        BY <2>2, <2>5, <2>6, <3>1, <4>1
    <3>3. Agree(textBuf, Pos(k), key, l)
      BY <3>2 DEF Agree
    <3>4. QED
      BY <1>1, <2>1, <2>2, <2>10, <3>1, <3>3 DEF Unbeaten
  <2>11. ASSUME NEW d \in 1 .. N - F, S0 - d >= 0 \/ S0 <= N - 2 * F
         PROVE  Longest(S0 - d) <= n
    <3>1. S0 - d \in Int /\ S0 - d # S0
      BY <2>2
    <3>2. Max(Same0(S0 - d)) \in Same0(S0 - d)
      BY <2>8, <3>1
    <3>3. CASE S0 - d >= -F
      <4>1. S0 - d \in Live
        BY <2>2, <2>3, <3>3
      <4>2. S0 - d \in Past
        BY <2>11, <4>1 DEF Past, S0
      <4>3. \A l \in Same0(S0 - d) : l <= n
        BY <2>10, <3>1, <4>2
      <4>. HIDE DEF Same0
      <4>4. QED
        BY <2>4, <3>2, <4>3
    <3>4. CASE S0 - d < -F
      <4>1. S0 <= N - 2 * F
        BY <2>2, <2>11, <3>4
      <4>2. -F \in Live /\ -F # S0
        BY <2>2, <2>3, <4>1
      <4>3. -F \in Past
        BY <4>1, <4>2 DEF Past, S0
      <4>4. ASSUME NEW l \in Same0(S0 - d) PROVE l \in Same0(-F)
        <5>1. ASSUME NEW j \in 0 .. l - 1 PROVE TextAt(-F + j) = TextAt(S0 + j)
          <6>1. TextAt((S0 - d) + j) = TextAt(S0 + j)
            OBVIOUS
          <6>2. (S0 - d) + j < 0 /\ -F + j < 0
            BY <2>2, <3>4
          <6>3. TextAt((S0 - d) + j) = Space /\ TextAt(-F + j) = Space
            BY <6>2 DEF TextAt
          <6>4. QED
            BY <6>1, <6>3
        <5>2. QED
          BY <5>1
      <4>5. \A l \in Same0(S0 - d) : l <= n
        BY <2>10, <4>2, <4>3, <4>4
      <4>. HIDE DEF Same0
      <4>6. QED
        BY <2>4, <3>2, <4>5
    <3>5. QED
      BY <2>2, <3>1, <3>3, <3>4
  <2>12. QED
    BY <2>9, <2>11 DEF n, S0
<1>2. Searches => LongestMatch
  BY <1>1, Zenon DEF LongestMatch
<1>. QED
  BY <1>2, AlwaysSearches, PTL

-----------------------------------------------------------------------------
(* What is sent.  A spot is where a unit begins: at is the byte of the text  *)
(* it begins with, off the number of bytes sent before it, place its place   *)
(* in its group and head the index of the group's flags byte.                *)

Spots ==
  {g \in [at : Nat, off : Nat, place : 1 .. Units, head : Nat] :
     IF g.place = 1 THEN g.head = g.off + 1 ELSE g.head \in 1 .. g.off}

First == [at |-> 0, off |-> 0, place |-> 1, head |-> 1]

(* The first byte of a unit follows, in a new group, the flags byte.        *)
ByteOf(g) == IF g.place = 1 THEN g.off + 2 ELSE g.off + 1
Bit(c, i) == (c \div Masks[i]) % 2
Succeeds(g, h) ==
  /\ h.place = IF g.place = Units THEN 1 ELSE g.place + 1
  /\ h.place # 1 => h.head = g.head

(* The unit between two spots: a byte of the text, or n bytes of it that are *)
(* those from m on.                                                          *)
Letter(out, txt, g, h) ==
  /\ Bit(out[g.head], g.place) = 1 /\ h.at = g.at + 1 /\ h.off = ByteOf(g)
  /\ out[ByteOf(g)] = txt[g.at]

Pair(out, txt, g, h, m, n) ==
  /\ Bit(out[g.head], g.place) = 0 /\ h.at = g.at + n /\ h.off = ByteOf(g) + 1
  /\ n \in Threshold + 1 .. F
  /\ m \in Int /\ m < g.at /\ m >= g.at - (N - F) /\ m >= -F
  /\ out[ByteOf(g)] = Pos(m) % PosLow
  /\ out[ByteOf(g) + 1] = (Pos(m) \div PosLow) * LenCodes + (n - (Threshold + 1))
  /\ \A j \in 0 .. n - 1 : txt[m + j] = txt[g.at + j]

Stands(out, txt, g, h) ==
  Succeeds(g, h) /\ (Letter(out, txt, g, h) \/ \E m, n : Pair(out, txt, g, h, m, n))

(* From the first spot, units lead to the last one, e.                      *)
Chain(G, e, out, txt) ==
  /\ G \subseteq Spots /\ e \in G /\ First \in G
  /\ \A g \in G : /\ g.at <= e.at /\ g.off <= e.off
                  /\ g = e \/ \E h \in G : Stands(out, txt, g, h)

(* The spots before e are in earlier groups, or earlier in its own.         *)
Ordered(G, e) ==
  \A g \in G : \/ g.head < e.head /\ g.off < e.head
               \/ g.head = e.head /\ (g = e \/ g.place < e.place)

Text == [k \in Int |-> TextAt(k)]
Out == bufout \o codeBuf

(* The number of bytes of the text that are sent.                           *)
Reached == IF todo > 0 THEN 0 ELSE Sent - todo

Coded(G, e) ==
  /\ Chain(G, e, Out, Text) /\ Ordered(G, e)
  /\ e.at = Reached /\ mask = Masks[e.place] /\ e.head = Len(bufout) + 1
  /\ e.off = IF e.place = 1 THEN Len(bufout) ELSE Len(bufout) + Len(codeBuf)

Codes ==
  pc \in {"next", "insert", "delete"} =>
    /\ bufout \in Seq(Nat) /\ codeBuf \in Seq(Nat) /\ Len(codeBuf) > 0 /\ codeBuf[1] < mask
    /\ mask = 1 <=> Len(codeBuf) = 1
    /\ \E G, e : Coded(G, e)

(* The masks are those of bits: powers of two.                              *)
LEMMA MaskIs ==
  /\ Units \in Nat \ {0} /\ Masks[1] = 1
  /\ \A i \in 1 .. Units : Masks[i] \in Nat \ {0}
  /\ \A i \in 1 .. Units : i < Units => Masks[i + 1] = 2 * Masks[i]
  /\ \A i, j \in 1 .. Units : i < j => Masks[i] < Masks[j] /\ Masks[j] % (2 * Masks[i]) = 0
<1>1. Masks \in Seq(Nat \ {0}) /\ Masks # <<>>
  BY LzssAssumption
<1>2. Units \in Nat /\ Units # 0
  <2>1. Len(Masks) \in Nat /\ Len(Masks) # 0
    BY <1>1, LenProperties, EmptySeq
  <2>. QED
    BY <2>1 DEF Units
<1>3. \A i \in 1 .. Units : Masks[i] \in Nat \ {0}
  BY <1>1, ElementOfSeq DEF Units
<1>4. \A i \in 1 .. Units : i < Units => i \in 1 .. Units - 1
  BY <1>2
<1>5. \A i \in 1 .. Units - 1 : Masks[i + 1] = 2 * Masks[i]
  BY LzssAssumption
<1>6. \A i, j \in 1 .. Units : i < j => Masks[i] < Masks[j] /\ Masks[j] % (2 * Masks[i]) = 0
  BY LzssAssumption
<1>7. Masks[1] = 1
  BY LzssAssumption
<1>. QED
  BY <1>2, <1>3, <1>4, <1>5, <1>6, <1>7

(* A multiple of twice a mask does not touch its bit.                       *)
LEMMA BitKept ==
  ASSUME NEW n \in Nat \ {0}, NEW c \in Nat, NEW z \in Nat, z % (2 * n) = 0
  PROVE  ((c + z) \div n) % 2 = (c \div n) % 2
<1>. DEFINE d == c \div n
            a == c % n
            h == d \div 2
            o == d % 2
            k == z \div (2 * n)
<1>1. /\ d \in Int /\ a \in 0 .. n - 1 /\ c = n * d + a
      /\ h \in Int /\ o \in 0 .. 1 /\ d = 2 * h + o
  OBVIOUS
<1>2. k \in Int /\ z = (2 * n) * k
  <2>1. 2 * n \in Nat \ {0}
    OBVIOUS
  <2>2. PICK b \in Nat \ {0} : b = 2 * n
    BY <2>1
  <2>3. z \div b \in Int /\ z = b * (z \div b) + (z % b)
    BY <2>2
  <2>4. QED
    BY <2>2, <2>3
<1>. HIDE DEF d, a, h, o, k
<1>3. c + z = n * (d + 2 * k) + a
  BY <1>1, <1>2
<1>4. d + 2 * k \in Int
  BY <1>1, <1>2
<1>5. (c + z) \div n = d + 2 * k
  <2>1. PICK q \in Int : q = d + 2 * k
    BY <1>4
  <2>2. c + z = n * q + a
    BY <1>3, <2>1
  <2>3. a \in 0 .. n - 1
    BY <1>1
  <2>4. (n * q + a) \div n = q
    BY ONLY <2>3, q \in Int, n \in Nat \ {0}, Division
  <2>5. QED
    BY <2>1, <2>2, <2>4
<1>6. d + 2 * k = 2 * (h + k) + o /\ h + k \in Int
  BY <1>1, <1>2
<1>7. (d + 2 * k) % 2 = o
  BY <1>1, <1>6, Division
<1>. QED
  BY <1>1, <1>5, <1>7 DEF d, o

(* A unit still stands for the same when only other bits of its flags byte  *)
(* and bytes after it change.                                               *)
LEMMA StandsStill ==
  ASSUME NEW g \in Spots, NEW h \in Spots, NEW out, NEW o2, NEW txt,
         Stands(out, txt, g, h),
         \A i \in 1 .. h.off : i # g.head => o2[i] = out[i],
         Bit(o2[g.head], g.place) = Bit(out[g.head], g.place)
  PROVE  Stands(o2, txt, g, h)
<1>1. /\ g.off \in Nat /\ g.head \in Nat /\ ByteOf(g) \in Nat /\ ByteOf(g) >= 1
      /\ ByteOf(g) > g.head
  BY DEF Spots, ByteOf
<1>2. CASE Letter(out, txt, g, h)
  <2>1. ByteOf(g) \in 1 .. h.off /\ ByteOf(g) # g.head
    BY <1>1, <1>2 DEF Letter
  <2>2. o2[ByteOf(g)] = out[ByteOf(g)]
    BY <2>1
  <2>3. Letter(o2, txt, g, h)
    BY <1>2, <2>2 DEF Letter
  <2>4. QED
    BY <2>3 DEF Stands
<1>3. CASE \E m, n : Pair(out, txt, g, h, m, n)
  <2>1. PICK m, n : Pair(out, txt, g, h, m, n)
    BY <1>3
  <2>2. h.off = ByteOf(g) + 1
    BY <2>1 DEF Pair
  <2>3. /\ ByteOf(g) \in 1 .. h.off /\ ByteOf(g) # g.head
        /\ ByteOf(g) + 1 \in 1 .. h.off /\ ByteOf(g) + 1 # g.head
    BY <1>1, <2>2
  <2>4. o2[ByteOf(g)] = out[ByteOf(g)] /\ o2[ByteOf(g) + 1] = out[ByteOf(g) + 1]
    BY <2>3
  <2>5. Pair(o2, txt, g, h, m, n)
    BY <2>1, <2>4 DEF Pair
  <2>6. QED
    BY <2>5 DEF Stands
<1>. QED
  BY <1>2, <1>3 DEF Stands

(* The same of all units but the last spot's, which begins with the end.    *)
LEMMA ChainGrows ==
  ASSUME NEW G, NEW e, NEW f \in Spots, NEW out, NEW o2, NEW txt,
         Chain(G, e, out, txt), Ordered(G, e), Stands(o2, txt, e, f),
         e.at <= f.at, e.off <= f.off,
         \A i \in 1 .. e.off : i # e.head => o2[i] = out[i],
         \A i \in 1 .. e.place - 1 : Bit(o2[e.head], i) = Bit(out[e.head], i)
  PROVE  Chain(G \union {f}, f, o2, txt)
<1>1. e \in Spots /\ G \subseteq Spots /\ First \in G /\ e \in G
  BY DEF Chain
<1>2. ASSUME NEW g \in G, g # e PROVE \E h \in G : Stands(o2, txt, g, h)
  <2>1. PICK h \in G : Stands(out, txt, g, h)
    BY <1>2 DEF Chain
  <2>2. /\ g \in Spots /\ h \in Spots /\ h.off <= e.off /\ h.off \in Nat /\ e.off \in Nat
        /\ g.place \in Nat /\ g.place >= 1 /\ e.place \in Nat /\ h.head \in Nat /\ g.head \in Nat
        /\ e.head \in Nat
    BY <1>1 DEF Chain, Spots
  <2>3. CASE g.head = e.head
    <3>1. g.place < e.place
      BY <1>2, <2>3, <2>2 DEF Ordered
    <3>2. Bit(o2[g.head], g.place) = Bit(out[g.head], g.place)
      BY <2>2, <2>3, <3>1
    <3>3. \A i \in 1 .. h.off : i # g.head => o2[i] = out[i]
      BY <2>2, <2>3
    <3>4. QED
      BY <2>1, <2>2, <3>2, <3>3, StandsStill
  <2>4. CASE g.head # e.head
    <3>1. g.head < e.head /\ g.off < e.head
      BY <2>4 DEF Ordered
    <3>2. h.off < e.head
      <4>1. CASE h.head = e.head
        <5>1. h.place = 1
          BY <2>1, <2>4, <4>1 DEF Stands, Succeeds
        <5>2. QED
          BY <2>2, <4>1, <5>1 DEF Spots
      <4>2. CASE h.head # e.head
        BY <4>2 DEF Ordered
      <4>3. QED
        BY <4>1, <4>2
    <3>3. \A i \in 1 .. h.off : o2[i] = out[i]
      BY <2>2, <3>2
    <3>4. g.head \in 1 .. h.off
      <4>1. h.off >= ByteOf(g)
        BY <2>1, <2>2 DEF Stands, Letter, Pair, ByteOf, Spots
      <4>2. QED
        BY <2>2, <4>1 DEF ByteOf, Spots
    <3>5. QED
      BY <2>1, <2>2, <3>3, <3>4, StandsStill
  <2>5. QED
    BY <2>3, <2>4
<1>3. ASSUME NEW g \in G \union {f}
      PROVE  /\ g.at <= f.at /\ g.off <= f.off
             /\ g = f \/ \E h \in G \union {f} : Stands(o2, txt, g, h)
  <2>1. CASE g = f
    BY <2>1 DEF Spots
  <2>2. CASE g \in G
    <3>1. g.at <= e.at /\ g.off <= e.off
      BY <2>2 DEF Chain
    <3>2. g.at <= f.at /\ g.off <= f.off
      BY <1>1, <2>2, <3>1 DEF Spots
    <3>3. \E h \in G \union {f} : Stands(o2, txt, g, h)
      <4>1. CASE g = e
        BY <4>1
      <4>2. CASE g # e
        BY <1>2, <2>2, <4>2
      <4>3. QED
        BY <4>1, <4>2
    <3>4. QED
      BY <3>2, <3>3
  <2>3. QED
    BY <2>1, <2>2
<1>. QED
  BY <1>1, <1>3 DEF Chain

(* The new last spot comes after all others.                                *)
LEMMA OrderGrows ==
  ASSUME NEW G, NEW e, NEW f \in Spots, NEW out, NEW txt,
         Chain(G, e, out, txt), Ordered(G, e), Succeeds(e, f),
         e.off <= f.off, f.place = 1 => e.head <= f.off
  PROVE  Ordered(G \union {f}, f)
<1>1. e \in Spots /\ G \subseteq Spots
  BY DEF Chain
<1>2. ASSUME NEW g \in G
      PROVE  \/ g.head < f.head /\ g.off < f.head
             \/ g.head = f.head /\ g.place < f.place
  <2>1. /\ g.head \in Nat /\ g.off \in Nat /\ g.place \in Nat /\ e.head \in Nat /\ e.off \in Nat
        /\ e.place \in 1 .. Units /\ f.head \in Nat /\ f.off \in Nat /\ g.off <= e.off
        /\ Units \in Nat
    BY <1>1, MaskIs DEF Chain, Spots
  <2>2. CASE f.place = 1
    <3>1. f.head = f.off + 1 /\ e.head <= f.off
      BY <2>2 DEF Spots
    <3>2. g.head <= e.head
      BY <2>1 DEF Ordered
    <3>3. QED
      BY <2>1, <3>1, <3>2
  <2>3. CASE f.place # 1
    <3>1. f.head = e.head /\ f.place = e.place + 1
      BY <2>3 DEF Succeeds
    <3>2. QED
      BY <2>1, <3>1 DEF Ordered
  <2>4. QED
    BY <2>2, <2>3
<1>. QED
  BY <1>2 DEF Ordered

-----------------------------------------------------------------------------
(* One unit more. *)

(* The elements of two sequences joined.                                    *)
LEMMA Joined ==
  ASSUME NEW T, NEW a \in Seq(T), NEW b \in Seq(T)
  PROVE  /\ a \o b \in Seq(T) /\ Len(a \o b) = Len(a) + Len(b)
         /\ \A i \in 1 .. Len(a) : (a \o b)[i] = a[i]
         /\ \A i \in 1 .. Len(b) : (a \o b)[Len(a) + i] = b[i]
OBVIOUS

(* u is c with d added to its first byte, and more bytes.                   *)
Prolongs(u, c, d) ==
  /\ u \in Seq(Nat) /\ Len(u) >= Len(c) /\ u[1] = c[1] + d
  /\ \A i \in 2 .. Len(c) : u[i] = c[i]

Puts(o2, sent, d) ==
  /\ \A i \in 1 .. Len(bufout) + Len(codeBuf) : i # Len(bufout) + 1 => o2[i] = Out[i]
  /\ Out[Len(bufout) + 1] = codeBuf[1] /\ o2[Len(bufout) + 1] = codeBuf[1] + d
  /\ \A i \in 1 .. Len(sent) : o2[Len(bufout) + i] = sent[i]

(* What is sent after a unit, with its bytes behind the others and d, its   *)
(* flag, in the flags byte of its group.                                    *)
LEMMA SentBytes ==
  ASSUME bufout \in Seq(Nat), codeBuf \in Seq(Nat), Len(codeBuf) > 0,
         NEW sent, NEW d \in Nat, Prolongs(sent, codeBuf, d),
         NEW o2, o2 = bufout \o sent \/ o2 = (bufout \o sent) \o << 0 >>
  PROVE  Puts(o2, sent, d)
<1>0. /\ sent \in Seq(Nat) /\ Len(sent) >= Len(codeBuf) /\ sent[1] = codeBuf[1] + d
      /\ \A i \in 2 .. Len(codeBuf) : sent[i] = codeBuf[i]
  BY DEF Prolongs
<1>. DEFINE b == Len(bufout)
            n == Len(codeBuf)
            k == Len(sent)
<1>1. b \in Nat /\ n \in Nat \ {0} /\ k \in Nat /\ k >= n
  BY <1>0, LenProperties
<1>2. /\ \A i \in 1 .. b : Out[i] = bufout[i]
      /\ \A i \in 1 .. n : Out[b + i] = codeBuf[i]
  BY Joined DEF Out
<1>3. /\ bufout \o sent \in Seq(Nat) /\ Len(bufout \o sent) = b + k
      /\ \A i \in 1 .. b : (bufout \o sent)[i] = bufout[i]
      /\ \A i \in 1 .. k : (bufout \o sent)[b + i] = sent[i]
  BY <1>0, Joined
<1>4. \A i \in 1 .. b + k : o2[i] = (bufout \o sent)[i]
  <2>1. CASE o2 = bufout \o sent
    BY <2>1
  <2>2. CASE o2 = (bufout \o sent) \o <<0>>
    <3>1. <<0>> \in Seq(Nat)
      OBVIOUS
    <3>2. \A i \in 1 .. Len(bufout \o sent) : ((bufout \o sent) \o <<0>>)[i] = (bufout \o sent)[i]
      BY <1>3, <3>1, Joined
    <3>3. QED
      BY <1>3, <2>2, <3>2
  <2>3. QED
    BY <2>1, <2>2
<1>. HIDE DEF b, n, k
<1>5. /\ \A i \in 1 .. b : o2[i] = bufout[i]
      /\ \A i \in 1 .. k : o2[b + i] = sent[i]
  <2>1. \A i \in 1 .. b : i \in 1 .. b + k
    BY <1>1
  <2>2. \A i \in 1 .. k : b + i \in 1 .. b + k
    BY <1>1
  <2>3. QED
    BY <1>3, <1>4, <2>1, <2>2
<1>6. ASSUME NEW i \in 1 .. b + n, i # b + 1 PROVE o2[i] = Out[i]
  <2>1. CASE i <= b
    <3>1. i \in 1 .. b
      BY <1>1, <2>1
    <3>2. QED
      BY <1>2, <1>5, <3>1
  <2>2. CASE i > b
    <3>1. PICK j \in 2 .. n : i = b + j
      <4>1. i - b \in 2 .. n /\ i = b + (i - b)
        BY <1>1, <1>6, <2>2
      <4>2. QED
        BY <4>1
    <3>2. j \in 1 .. n /\ j \in 1 .. k /\ sent[j] = codeBuf[j]
      BY <1>0, <1>1 DEF n
    <3>3. QED
      BY <1>2, <1>5, <3>1, <3>2
  <2>3. QED
    BY <1>1, <2>1, <2>2
<1>7. 1 \in 1 .. n /\ 1 \in 1 .. k
  BY <1>1
<1>8. Out[b + 1] = codeBuf[1] /\ o2[b + 1] = codeBuf[1] + d
  BY <1>0, <1>2, <1>5, <1>7
<1>. QED
  BY <1>5, <1>6, <1>8 DEF b, n, k, Puts

(* The spot after the last one: in the same group, or in the next.          *)
After(e, at, off) ==
  [at |-> at, off |-> off, place |-> IF e.place = Units THEN 1 ELSE e.place + 1,
   head |-> IF e.place = Units THEN off + 1 ELSE e.head]

(* It is a spot, and succeeds the last one.                                 *)
LEMMA AfterSpot ==
  ASSUME NEW e \in Spots, NEW at \in Nat, NEW off \in Nat, e.head <= off
  PROVE  After(e, at, off) \in Spots /\ Succeeds(e, After(e, at, off))
<1>1. Units \in Nat \ {0} /\ e.place \in 1 .. Units /\ e.head \in Nat /\ e.head >= 1
  BY MaskIs DEF Spots
<1>. DEFINE f == After(e, at, off)
<1>2. /\ f.at = at /\ f.off = off
      /\ f.place = (IF e.place = Units THEN 1 ELSE e.place + 1)
      /\ f.head = (IF e.place = Units THEN off + 1 ELSE e.head)
      /\ f \in [at : {f.at}, off : {f.off}, place : {f.place}, head : {f.head}]
  BY DEF After
<1>. HIDE DEF f
<1>3. f.place \in 1 .. Units /\ f.head \in Nat
  BY <1>1, <1>2
<1>4. f \in [at : Nat, off : Nat, place : 1 .. Units, head : Nat]
  BY <1>2, <1>3
<1>5. IF f.place = 1 THEN f.head = f.off + 1 ELSE f.head \in 1 .. f.off
  BY <1>1, <1>2
<1>6. f \in Spots
  BY <1>4, <1>5 DEF Spots
<1>7. Succeeds(e, f)
  BY <1>1, <1>2 DEF Succeeds
<1>. QED
  BY <1>6, <1>7 DEF f

(* The flag of a unit is in its place, and no other changes.                *)
LEMMA FlagSet ==
  ASSUME NEW i \in 1 .. Units, NEW c \in Nat, c < Masks[i]
  PROVE  /\ Bit(c + Masks[i], i) = 1 /\ Bit(c, i) = 0
         /\ \A j \in 1 .. i - 1 : Bit(c + Masks[i], j) = Bit(c, j)
<1>1. Masks[i] \in Nat \ {0} /\ Units \in Nat
  BY MaskIs
<1>2. PICK n \in Nat \ {0} : n = Masks[i]
  BY <1>1
<1>3. c \in 0 .. n - 1 /\ c + n = n * 1 + c /\ c = n * 0 + c
  BY <1>2
<1>4. (c + n) \div n = 1 /\ c \div n = 0
  <2>1. (n * 1 + c) \div n = 1 /\ (n * 0 + c) \div n = 0
    BY <1>3, Division
  <2>2. QED
    BY <1>3, <2>1
<1>5. Bit(c + Masks[i], i) = 1 /\ Bit(c, i) = 0
  BY <1>2, <1>4 DEF Bit
<1>6. ASSUME NEW j \in 1 .. i - 1 PROVE Bit(c + Masks[i], j) = Bit(c, j)
  <2>1. j \in 1 .. Units /\ j < i
    BY <1>1
  <2>2. Masks[j] \in Nat \ {0} /\ Masks[i] % (2 * Masks[j]) = 0
    BY <2>1, MaskIs
  <2>3. QED
    BY <1>1, <2>2, BitKept DEF Bit
<1>. QED
  BY <1>5, <1>6

(* Where the last spot is, from mask and the lengths of the buffers.        *)
LEMMA LastSpot ==
  ASSUME NEW G, NEW e, Coded(G, e), bufout \in Seq(Nat), codeBuf \in Seq(Nat),
         Len(codeBuf) > 0, mask = 1 <=> Len(codeBuf) = 1
  PROVE  /\ e \in Spots /\ e.place \in 1 .. Units /\ e.at \in Nat
         /\ e.off \in Nat /\ e.off <= Len(bufout) + Len(codeBuf)
         /\ e.place = 1 <=> Len(codeBuf) = 1
         /\ mask = Masks[Units] <=> e.place = Units
         /\ ByteOf(e) = Len(bufout) + Len(codeBuf) + 1
<1>1. e \in Spots /\ Len(bufout) \in Nat /\ Len(codeBuf) \in Nat
  BY LenProperties DEF Coded, Chain
<1>2. e.place \in 1 .. Units /\ e.at \in Nat /\ e.off \in Nat /\ Units \in Nat \ {0}
  BY <1>1, MaskIs DEF Spots
<1>3. mask = Masks[e.place]
  BY DEF Coded
<1>4. mask = 1 <=> e.place = 1
  <2>1. CASE e.place = 1
    BY <1>3, <2>1, MaskIs
  <2>2. CASE e.place # 1
    <3>1. 1 \in 1 .. Units /\ 1 < e.place
      BY <1>2, <2>2
    <3>2. Masks[1] < Masks[e.place] /\ Masks[1] = 1
      BY <1>2, <3>1, MaskIs
    <3>3. QED
      BY <1>3, <2>2, <3>2
  <2>3. QED
    BY <2>1, <2>2
<1>5. mask = Masks[Units] <=> e.place = Units
  <2>1. CASE e.place = Units
    BY <1>3, <2>1
  <2>2. CASE e.place # Units
    <3>1. Units \in 1 .. Units /\ e.place < Units
      BY <1>2, <2>2
    <3>2. Masks[e.place] < Masks[Units] /\ Masks[e.place] \in Nat
      BY <1>2, <3>1, MaskIs
    <3>3. QED
      BY <1>3, <2>2, <3>2
  <2>3. QED
    BY <2>1, <2>2
<1>6. e.off = IF e.place = 1 THEN Len(bufout) ELSE Len(bufout) + Len(codeBuf)
  BY DEF Coded
<1>7. e.place = 1 <=> Len(codeBuf) = 1
  BY <1>4
<1>8. e.off <= Len(bufout) + Len(codeBuf) /\ ByteOf(e) = Len(bufout) + Len(codeBuf) + 1
  <2>1. CASE e.place = 1
    <3>1. e.off = Len(bufout) /\ Len(codeBuf) = 1 /\ ByteOf(e) = e.off + 2
      BY <1>6, <1>7, <2>1 DEF ByteOf
    <3>2. QED
      BY <1>1, <3>1
  <2>2. CASE e.place # 1
    <3>1. e.off = Len(bufout) + Len(codeBuf) /\ ByteOf(e) = e.off + 1
      BY <1>6, <2>2 DEF ByteOf
    <3>2. QED
      BY <1>1, <3>1
  <2>3. QED
    BY <2>1, <2>2
<1>. QED
  BY <1>1, <1>2, <1>5, <1>7, <1>8

(* The bytes that a unit adds.                                              *)
Lettered(c, d, b) == [c EXCEPT ![1] = @ + d] \o <<b>>

(* A byte sent as it is sets its flag and comes last.                       *)
LEMMA LetterBytes ==
  ASSUME NEW c \in Seq(Nat), Len(c) > 0, NEW d \in Nat, NEW b \in Nat,
         NEW u, u = Lettered(c, d, b)
  PROVE  Prolongs(u, c, d) /\ Len(u) = Len(c) + 1 /\ u[Len(c) + 1] = b
<1>. DEFINE z == [c EXCEPT ![1] = @ + d]
<1>1. Len(c) \in Nat /\ 1 \in 1 .. Len(c) /\ c[1] \in Nat
  BY LenProperties, ElementOfSeq
<1>2. z \in Seq(Nat) /\ Len(z) = Len(c) /\ z[1] = c[1] + d /\ \A i \in 2 .. Len(c) : z[i] = c[i]
  BY <1>1
<1>3. <<b>> \in Seq(Nat) /\ Len(<<b>>) = 1 /\ <<b>>[1] = b
  OBVIOUS
<1>4. u = z \o <<b>>
  BY DEF Lettered
<1>. HIDE DEF z
<1>5. /\ z \o <<b>> \in Seq(Nat) /\ Len(z \o <<b>>) = Len(c) + 1
      /\ \A i \in 1 .. Len(c) : (z \o <<b>>)[i] = z[i]
      /\ (z \o <<b>>)[Len(c) + 1] = b
  BY <1>2, <1>3, Joined
<1>6. \A i \in 2 .. Len(c) : i \in 1 .. Len(c)
  BY <1>1
<1>. QED
  BY <1>1, <1>2, <1>4, <1>5, <1>6 DEF Prolongs

Paired(c, a, b) == c \o <<a, b>>

(* A pair sets no flag, and its two bytes come last.                        *)
LEMMA PairBytes ==
  ASSUME NEW c \in Seq(Nat), Len(c) > 0, NEW a \in Nat, NEW b \in Nat,
         NEW u, u = Paired(c, a, b)
  PROVE  /\ Prolongs(u, c, 0) /\ Len(u) = Len(c) + 2
         /\ u[Len(c) + 1] = a /\ u[Len(c) + 2] = b
<1>1. Len(c) \in Nat /\ 1 \in 1 .. Len(c) /\ c[1] \in Nat
  BY LenProperties, ElementOfSeq
<1>2. <<a, b>> \in Seq(Nat) /\ Len(<<a, b>>) = 2 /\ <<a, b>>[1] = a /\ <<a, b>>[2] = b
  OBVIOUS
<1>3. /\ u \in Seq(Nat) /\ Len(u) = Len(c) + 2
      /\ \A i \in 1 .. Len(c) : u[i] = c[i]
      /\ u[Len(c) + 1] = a /\ u[Len(c) + 2] = b
  <2>1. u = c \o <<a, b>>
    BY DEF Paired
  <2>2. QED
    BY <1>2, <2>1, Joined
<1>4. \A i \in 2 .. Len(c) : i \in 1 .. Len(c)
  BY <1>1
<1>. QED
  BY <1>1, <1>3, <1>4 DEF Prolongs

(* The match that a pair stands for is in the text.                         *)
LEMMA MatchInText ==
  ASSUME Control, Written, Matched, pc = "next", todo = 0, len > 0,
         NEW n \in Nat \ {0}, n <= matchLength, n <= len
  PROVE  \E m \in Int : /\ matchPosition = Pos(m) /\ m < Sent /\ m >= Sent - (N - F) /\ m >= -F
                        /\ \A j \in 0 .. n - 1 : TextAt(m + j) = TextAt(Sent + j)
<1>. USE Sizes
<1>1. /\ Sent \in Nat /\ len \in 1 .. F /\ bfin = Sent + len /\ bfin \in Nat
      /\ matchLength \in 0 .. F /\ key = Pos(Sent)
  <2>1. bfin \in Nat /\ len \in 1 .. F /\ bfin >= F
    BY DEF Control
  <2>2. Key = Sent
    BY DEF Key
  <2>3. key = Pos(Key) /\ matchLength \in 0 .. F
    BY DEF Matched
  <2>4. QED
    BY <2>1, <2>2, <2>3 DEF Sent
<1>2. Live = {k \in -F .. Sent : k >= Sent - (N - F)}
  BY DEF Live
<1>3. /\ \E k \in Live : k # Sent /\ matchPosition = Pos(k)
      /\ Agree(textBuf, matchPosition, key, matchLength)
  <2>1. matchLength > 0 /\ Key = Sent
    BY <1>1 DEF Key
  <2>2. QED
    BY <2>1 DEF Matched
<1>4. PICK m \in Live : m # Sent /\ matchPosition = Pos(m)
  BY <1>3
<1>5. m \in Int /\ m < Sent /\ m >= Sent - (N - F) /\ m >= -F
  BY <1>1, <1>2, <1>4
<1>6. ASSUME NEW j \in 0 .. n - 1 PROVE TextAt(m + j) = TextAt(Sent + j)
  <2>1. j \in 0 .. F - 1 /\ j \in 0 .. matchLength - 1 /\ j < len
    BY <1>1
  <2>2. textBuf[Pos(m) + j] = textBuf[Pos(Sent) + j]
    BY <1>1, <1>3, <1>4, <2>1 DEF Agree
  <2>3. m >= F - N /\ m + j \in bfin - N .. bfin - 1 /\ m < bfin
    BY <1>1, <1>5, <2>1
  <2>4. Sent >= F - N /\ Sent + j \in bfin - N .. bfin - 1 /\ Sent < bfin
    BY <1>1, <2>1
  <2>5. textBuf[Pos(m) + j] = TextAt(m + j)
    BY <1>5, <2>1, <2>3, StringsAre
  <2>6. textBuf[Pos(Sent) + j] = TextAt(Sent + j)
    BY <1>1, <2>1, <2>4, StringsAre
  <2>7. QED
    BY <2>2, <2>5, <2>6
<1>. QED
  BY <1>4, <1>5, <1>6

(* A unit that is sent stands between the last spot and a new one.          *)
LEMMA SendUnitCodes ==
  ASSUME Control, Written, Matched, Codes, SendUnit
  PROVE  Codes'
<1>. USE Sizes
<1>. DEFINE n == Smaller(matchLength, len)
            sent == IF n <= Threshold
                    THEN [codeBuf EXCEPT ![1] = @ + mask] \o <<textBuf[r]>>
                    ELSE codeBuf \o << matchPosition % PosLow,
                                       (matchPosition \div PosLow) * LenCodes
                                         + (n - (Threshold + 1)) >>
            B == Len(bufout)
            C == Len(codeBuf)
            k == IF n <= Threshold THEN 1 ELSE n
            d == IF n <= Threshold THEN mask ELSE 0
            o == Out'
            txt == Text
<1>1. /\ pc = "next" /\ todo = 0 /\ len \in 1 .. F /\ matchLength \in 0 .. F
      /\ UNCHANGED <<pc, inVars, ringVars, tree, last, key, p, cmp, matchPosition>>
      /\ matchLength' = k /\ todo' = -matchLength'
      /\ IF mask = Masks[Units]
         THEN bufout' = bufout \o sent /\ codeBuf' = <<0>> /\ mask' = 1
         ELSE codeBuf' = sent /\ mask' = 2 * mask /\ bufout' = bufout
  <2>1. pc = "next" /\ todo = 0 /\ len \in 1 .. F /\ matchLength \in 0 .. F
    BY DEF SendUnit, Control, Matched
  <2>2. /\ UNCHANGED <<pc, inVars, ringVars, tree, last, key, p, cmp, matchPosition>>
        /\ matchLength' = k /\ todo' = -matchLength'
    BY DEF SendUnit
  <2>3. IF mask = Masks[Units]
        THEN bufout' = bufout \o sent /\ codeBuf' = <<0>> /\ mask' = 1
        ELSE codeBuf' = sent /\ mask' = 2 * mask /\ bufout' = bufout
    BY DEF SendUnit
  <2>4. QED
    BY <2>1, <2>2, <2>3
<1>. HIDE DEF n, sent, k, d, o
<1>2. /\ bufout \in Seq(Nat) /\ codeBuf \in Seq(Nat) /\ C > 0 /\ codeBuf[1] < mask
      /\ mask = 1 <=> C = 1
  BY <1>1 DEF Codes
<1>3. PICK G, e : Coded(G, e)
  BY <1>1 DEF Codes
<1>4. /\ e \in Spots /\ e.place \in 1 .. Units /\ e.at \in Nat
      /\ e.off \in Nat /\ e.off <= B + C
      /\ e.place = 1 <=> C = 1
      /\ mask = Masks[Units] <=> e.place = Units
      /\ ByteOf(e) = B + C + 1 /\ B \in Nat /\ C \in Nat
  BY <1>2, <1>3, LastSpot, LenProperties
<1>. HIDE DEF B, C, txt
<1>5. /\ Chain(G, e, Out, txt) /\ Ordered(G, e) /\ mask = Masks[e.place] /\ e.head = B + 1
      /\ e.at = Sent /\ Sent \in Nat
  <2>1. Reached = Sent - 0 /\ Sent \in Int
    BY <1>1 DEF Reached, Control, Sent
  <2>2. QED
    BY <1>3, <1>4, <2>1 DEF Coded, B, txt
<1>6. mask \in Nat \ {0} /\ codeBuf[1] \in Nat /\ Units \in Nat \ {0}
  <2>1. 1 \in 1 .. Len(codeBuf)
    BY <1>2, <1>4 DEF C
  <2>2. codeBuf[1] \in Nat
    BY <1>2, <2>1, ElementOfSeq
  <2>3. QED
    BY <1>4, <1>5, <2>2, MaskIs
<1>7. n \in 0 .. F /\ n <= len /\ n <= matchLength /\ k \in 1 .. F
  BY <1>1 DEF Smaller, n, k
<1>8. textBuf[r] = TextAt(Sent) /\ textBuf[r] \in Nat
  <2>1. Sent \in bfin - N .. bfin - 1 /\ Sent \in Int /\ Sent < Len(bufin) /\ r = Pos(Sent)
    BY <1>1 DEF Control, Sent
  <2>2. Bytes \subseteq Nat
    BY LzssAssumption
  <2>3. QED
    BY <2>1, <2>2, TextBytes DEF Written
<1>9. /\ matchPosition % PosLow \in Nat
      /\ (matchPosition \div PosLow) * LenCodes + (n - (Threshold + 1)) \in Int
      /\ n > Threshold => (matchPosition \div PosLow) * LenCodes + (n - (Threshold + 1)) \in Nat
  <2>1. matchPosition \in Nat
    BY DEF Matched, Node
  <2>2. matchPosition % PosLow \in Nat /\ matchPosition \div PosLow \in Nat
    BY <2>1
  <2>3. PICK q \in Nat : q = matchPosition \div PosLow
    BY <2>2
  <2>4. q * LenCodes \in Nat
    BY <2>3
  <2>5. n - (Threshold + 1) \in Int /\ (n > Threshold => n - (Threshold + 1) \in Nat)
    BY <1>7
  <2>6. QED
    BY <2>2, <2>3, <2>4, <2>5
<1>10. /\ Prolongs(sent, codeBuf, d)
       /\ Len(sent) = (IF n <= Threshold THEN C + 1 ELSE C + 2)
       /\ n <= Threshold => sent[C + 1] = TextAt(Sent)
       /\ n > Threshold => /\ sent[C + 1] = matchPosition % PosLow
                           /\ sent[C + 2] = (matchPosition \div PosLow) * LenCodes
                                              + (n - (Threshold + 1))
  <2>1. CASE n <= Threshold
    <3>1. sent = [codeBuf EXCEPT ![1] = @ + mask] \o <<textBuf[r]>> /\ d = mask /\ ~(n > Threshold)
      BY <1>7, <2>1 DEF sent, d
    <3>2. PICK a \in Nat, b \in Nat : a = mask /\ b = textBuf[r]
      BY <1>6, <1>8
    <3>3. sent = Lettered(codeBuf, a, b)
      BY <3>1, <3>2 DEF Lettered
    <3>4. Prolongs(sent, codeBuf, a) /\ Len(sent) = Len(codeBuf) + 1 /\ sent[Len(codeBuf) + 1] = b
      <4>1. codeBuf \in Seq(Nat) /\ Len(codeBuf) > 0
        BY <1>2 DEF C
      <4>2. QED
        BY ONLY <3>3, <4>1, a \in Nat, b \in Nat, LetterBytes
    <3>5. QED
      BY ONLY <1>8, <2>1, <3>1, <3>2, <3>4 DEF C
  <2>2. CASE n > Threshold
    <3>1. /\ d = 0 /\ ~(n <= Threshold)
          /\ sent = codeBuf \o << matchPosition % PosLow,
                                  (matchPosition \div PosLow) * LenCodes
                                    + (n - (Threshold + 1)) >>
      BY <1>7, <2>2 DEF sent, d
    <3>2. PICK a, b \in Nat : /\ a = matchPosition % PosLow
                              /\ b = (matchPosition \div PosLow) * LenCodes
                                       + (n - (Threshold + 1))
      BY <1>9, <2>2
    <3>3. sent = Paired(codeBuf, a, b)
      BY <3>1, <3>2 DEF Paired
    <3>4. /\ Prolongs(sent, codeBuf, 0) /\ Len(sent) = Len(codeBuf) + 2
          /\ sent[Len(codeBuf) + 1] = a /\ sent[Len(codeBuf) + 2] = b
      <4>1. codeBuf \in Seq(Nat) /\ Len(codeBuf) > 0
        BY <1>2 DEF C
      <4>2. QED
        BY ONLY <3>3, <4>1, <3>2, PairBytes
    <3>5. QED
      BY ONLY <2>2, <3>1, <3>2, <3>4 DEF C
  <2>3. QED
    BY <1>7, <2>1, <2>2
<1>11. o = IF mask = Masks[Units] THEN (bufout \o sent) \o <<0>> ELSE bufout \o sent
  <2>1. CASE mask = Masks[Units]
    BY <1>1, <2>1 DEF Out, o
  <2>2. CASE mask # Masks[Units]
    BY <1>1, <2>2 DEF Out, o
  <2>3. QED
    BY <2>1, <2>2
<1>12. /\ \A i \in 1 .. B + C : i # B + 1 => o[i] = Out[i]
       /\ Out[B + 1] = codeBuf[1] /\ o[B + 1] = codeBuf[1] + d
       /\ \A i \in 1 .. Len(sent) : o[B + i] = sent[i]
  <2>1. d \in Nat
    BY <1>6 DEF d
  <2>2. o = bufout \o sent \/ o = (bufout \o sent) \o <<0>>
    BY <1>11
  <2>3. bufout \in Seq(Nat) /\ codeBuf \in Seq(Nat) /\ Len(codeBuf) > 0
    BY <1>2 DEF C
  <2>4. Puts(o, sent, d)
    BY ONLY <1>10, <2>1, <2>2, <2>3, SentBytes
  <2>5. QED
    BY ONLY <2>4 DEF B, C, Puts
<1>. DEFINE S == Len(sent)
<1>13. /\ e.at = Sent /\ Sent \in Nat /\ B \in Nat /\ C \in Nat \ {0} /\ e.off \in Nat
       /\ e.off <= B + C /\ e.head = B + 1 /\ k \in 1 .. F /\ S \in {C + 1, C + 2}
       /\ (n <= Threshold => S = C + 1 /\ k = 1 /\ d = mask)
       /\ (n > Threshold => S = C + 2 /\ k = n /\ d = 0)
       /\ n \in 0 .. F
  <2>1. C \in Nat \ {0}
    BY <1>2, <1>4
  <2>2. n <= Threshold => ~(n > Threshold)
    BY <1>7
  <2>3. n > Threshold => ~(n <= Threshold)
    BY <1>7
  <2>4. (n <= Threshold => S = C + 1 /\ k = 1 /\ d = mask)
        /\ (n > Threshold => S = C + 2 /\ k = n /\ d = 0)
    BY <1>10, <2>2, <2>3 DEF k, d
  <2>5. S \in {C + 1, C + 2}
    BY <1>10
  <2>6. QED
    <3>1. /\ e.at = Sent /\ Sent \in Nat /\ B \in Nat /\ e.off \in Nat
          /\ e.off <= B + C /\ e.head = B + 1 /\ k \in 1 .. F /\ n \in 0 .. F
      <4>1. e.at = Sent /\ Sent \in Nat /\ e.head = B + 1
        BY <1>5
      <4>2. B \in Nat /\ e.off \in Nat /\ e.off <= B + C
        BY <1>4
      <4>3. QED
        BY <1>7, <4>1, <4>2
    <3>2. QED
      BY ONLY <2>1, <2>4, <2>5, <3>1
<1>. HIDE DEF S
<1>14. PICK f : f = After(e, Sent + k, B + S)
  OBVIOUS
<1>15. /\ f \in Spots /\ Succeeds(e, f) /\ f.at = Sent + k /\ f.off = B + S
       /\ f.place = (IF e.place = Units THEN 1 ELSE e.place + 1)
       /\ f.head = (IF e.place = Units THEN f.off + 1 ELSE e.head)
  <2>1. Sent + k \in Nat /\ B + S \in Nat /\ e.head <= B + S
    BY ONLY <1>13, F \in Nat
  <2>2. QED
    <3>1. f \in Spots /\ Succeeds(e, f)
      BY <1>4, <1>14, <2>1, AfterSpot
    <3>2. /\ f.at = Sent + k /\ f.off = B + S
          /\ f.place = (IF e.place = Units THEN 1 ELSE e.place + 1)
          /\ f.head = (IF e.place = Units THEN B + S + 1 ELSE e.head)
      BY <1>14 DEF After
    <3>3. QED
      BY <3>1, <3>2
<1>16. Stands(o, txt, e, f)
  <2>0. Sent \in Int /\ txt = [i \in Int |-> TextAt(i)] /\ o[e.head] = codeBuf[1] + d
    BY <1>5, <1>12 DEF Text, txt
  <2>1. CASE n <= Threshold
    <3>1. S = C + 1 /\ k = 1 /\ d = mask /\ C + 1 \in 1 .. S
      BY ONLY <1>13, <2>1
    <3>2. o[ByteOf(e)] = TextAt(Sent)
      <4>1. ByteOf(e) = B + (C + 1)
        BY <1>4
      <4>2. QED
        BY <1>10, <1>12, <2>1, <3>1, <4>1 DEF S
    <3>3. Bit(o[e.head], e.place) = 1
      BY <1>2, <1>4, <1>5, <1>6, <2>0, <3>1, FlagSet
    <3>4. f.at = e.at + 1 /\ f.off = ByteOf(e)
      BY <1>4, <1>15, <1>13, <3>1
    <3>5. Letter(o, txt, e, f)
      BY <1>5, <2>0, <3>2, <3>3, <3>4 DEF Letter
    <3>6. QED
      BY <1>15, <3>5 DEF Stands
  <2>2. CASE n > Threshold
    <3>1. /\ S = C + 2 /\ k = n /\ d = 0 /\ C + 1 \in 1 .. S
          /\ C + 2 \in 1 .. S /\ n \in Threshold + 1 .. F /\ n \in Nat \ {0}
      BY ONLY <1>13, <2>2, Threshold \in Nat \ {0}, F \in Nat \ {0}
    <3>2. PICK m \in Int : /\ matchPosition = Pos(m) /\ m < Sent /\ m >= Sent - (N - F) /\ m >= -F
                           /\ \A j \in 0 .. n - 1 : TextAt(m + j) = TextAt(Sent + j)
      <4>1. len > 0
        BY <1>1
      <4>2. QED
        BY <1>1, <1>7, <3>1, <4>1, MatchInText
    <3>3. o[ByteOf(e)] = sent[C + 1] /\ o[ByteOf(e) + 1] = sent[C + 2]
      <4>1. ByteOf(e) = B + (C + 1) /\ ByteOf(e) + 1 = B + (C + 2)
        BY <1>4
      <4>2. QED
        BY <1>12, <3>1, <4>1 DEF S
    <3>4. Bit(o[e.head], e.place) = 0
      <4>1. o[e.head] = codeBuf[1]
        BY <1>6, <2>0, <3>1
      <4>2. QED
        BY <1>2, <1>4, <1>5, <1>6, <4>1, FlagSet
    <3>5. f.at = e.at + n /\ f.off = ByteOf(e) + 1
      BY <1>4, <1>15, <1>13, <3>1
    <3>6. /\ o[ByteOf(e)] = Pos(m) % PosLow
          /\ o[ByteOf(e) + 1] = (Pos(m) \div PosLow) * LenCodes + (n - (Threshold + 1))
      BY <1>10, <2>2, <3>2, <3>3
    <3>7. \A j \in 0 .. n - 1 : txt[m + j] = txt[e.at + j]
      BY <1>5, <2>0, <3>1, <3>2
    <3>8. m < e.at /\ m >= e.at - (N - F)
      BY <1>5, <3>2
    <3>9. Pair(o, txt, e, f, m, n)
      BY ONLY <3>1, <3>2, <3>4, <3>5, <3>6, <3>7, <3>8 DEF Pair
    <3>10. QED
      BY <1>15, <3>9 DEF Stands
  <2>3. QED
    BY <1>7, <2>1, <2>2
<1>17. /\ e.at <= f.at /\ e.off <= f.off /\ e.head <= f.off
  <2>1. f.at = Sent + k /\ f.off = B + S
    BY <1>15
  <2>2. QED
    BY ONLY <1>13, <2>1, F \in Nat
<1>18. \A i \in 1 .. e.place - 1 : Bit(o[e.head], i) = Bit(Out[e.head], i)
  <2>1. Out[e.head] = codeBuf[1] /\ o[e.head] = codeBuf[1] + d
    BY <1>5, <1>12
  <2>2. CASE d = 0
    <3>1. o[e.head] = Out[e.head]
      BY <1>6, <2>1, <2>2
    <3>2. QED
      BY <3>1
  <2>3. CASE d = mask
    <3>1. codeBuf[1] \in Nat /\ codeBuf[1] < Masks[e.place] /\ d = Masks[e.place]
      BY <1>2, <1>5, <1>6, <2>3
    <3>2. \A i \in 1 .. e.place - 1 :
            Bit(codeBuf[1] + Masks[e.place], i) = Bit(codeBuf[1], i)
      BY <1>4, <3>1, FlagSet
    <3>3. QED
      BY <2>1, <3>1, <3>2
  <2>4. QED
    BY <2>2, <2>3 DEF d
<1>19. \A i \in 1 .. e.off : i # e.head => o[i] = Out[i]
  <2>1. \A i \in 1 .. e.off : i \in 1 .. B + C
    BY ONLY <1>13
  <2>2. QED
    BY ONLY <1>12, <1>13, <2>1
<1>20. Chain(G \union {f}, f, o, txt) /\ Ordered(G \union {f}, f)
  <2>1. Chain(G \union {f}, f, o, txt)
    BY <1>5, <1>15, <1>16, <1>17, <1>18, <1>19, ChainGrows
  <2>2. Ordered(G \union {f}, f)
    BY <1>5, <1>15, <1>17, OrderGrows
  <2>3. QED
    BY <2>1, <2>2
<1>21. Text' = txt /\ Reached' = Sent + k /\ pc' = "next"
  <2>1. Text' = Text
    BY <1>1 DEF Text, TextAt, inVars
  <2>2. Sent' = Sent
    BY <1>1 DEF Sent, ringVars
  <2>3. todo' = -k
    BY <1>1
  <2>4. PICK t \in Int : t = todo'
    BY <1>7, <2>3
  <2>5. t = -k /\ ~(t > 0) /\ Sent \in Int
    BY <1>4, <1>5, <1>7, <2>3, <2>4
  <2>6. Reached' = Sent - t
    BY <2>2, <2>4, <2>5 DEF Reached
  <2>7. QED
    <3>1. Sent - t = Sent + k
      BY ONLY <1>13, <2>5, t \in Int, F \in Nat
    <3>2. pc' = "next"
      BY <1>1
    <3>3. Reached' = Sent + k
      BY ONLY <2>6, <3>1
    <3>4. QED
      BY ONLY <2>1, <3>2, <3>3 DEF txt
<1>22. /\ bufout' \in Seq(Nat) /\ codeBuf' \in Seq(Nat) /\ Len(codeBuf') > 0
       /\ codeBuf'[1] < mask'
       /\ mask' = 1 <=> Len(codeBuf') = 1
       /\ mask' = Masks[f.place] /\ f.head = Len(bufout') + 1
       /\ f.off = IF f.place = 1 THEN Len(bufout') ELSE Len(bufout') + Len(codeBuf')
  <2>0. bufout \o sent \in Seq(Nat) /\ Len(bufout \o sent) = B + S /\ S \in Nat
    BY <1>2, <1>10, Joined, LenProperties DEF B, S, Prolongs
  <2>1. CASE mask = Masks[Units]
    <3>1. /\ bufout' = bufout \o sent /\ codeBuf' = <<0>> /\ mask' = 1 /\ e.place = Units
          /\ f.place = 1 /\ f.head = f.off + 1
      BY <1>1, <1>4, <1>15, <2>1
    <3>2. <<0>> \in Seq(Nat) /\ Len(<<0>>) = 1 /\ <<0>>[1] = 0
      OBVIOUS
    <3>3. QED
      BY <1>15, <2>0, <3>1, <3>2, MaskIs
  <2>2. CASE mask # Masks[Units]
    <3>1. /\ bufout' = bufout /\ codeBuf' = sent /\ mask' = 2 * mask /\ e.place # Units
          /\ f.place = e.place + 1 /\ f.head = e.head
      BY <1>1, <1>4, <1>15, <2>2
    <3>2. Masks[e.place + 1] = 2 * Masks[e.place]
      <4>1. e.place < Units
        BY <1>4, <1>6, <3>1
      <4>2. QED
        BY <1>4, <4>1, MaskIs
    <3>3. sent[1] < 2 * mask
      <4>1. sent[1] = codeBuf[1] + d /\ (d = mask \/ d = 0)
        BY <1>10 DEF d, Prolongs
      <4>2. QED
        BY <1>2, <1>6, <4>1
    <3>4. S > 1 /\ 2 * mask # 1 /\ f.place # 1
      <4>1. S > 1
        BY ONLY <1>13
      <4>2. 2 * mask # 1
        BY <1>6
      <4>3. f.place # 1
        BY <1>4, <3>1
      <4>4. QED
        BY <4>1, <4>2, <4>3
    <3>5. mask' = Masks[f.place] /\ f.off = B + S /\ e.head = B + 1
      BY <1>5, <1>15, <3>1, <3>2
    <3>6. QED
      <4>1. bufout' \in Seq(Nat) /\ codeBuf' \in Seq(Nat)
        BY <1>2, <1>10, <3>1 DEF Prolongs
      <4>2. codeBuf'[1] < mask'
        BY <3>1, <3>3
      <4>3. Len(codeBuf') = S /\ Len(bufout') = B /\ S # 1 /\ S > 0
        <5>1. Len(codeBuf') = S /\ Len(bufout') = B
          BY <3>1 DEF B, S
        <5>2. QED
          BY ONLY <1>13, <3>4, <5>1
      <4>4. mask' # 1
        BY <3>1, <3>4
      <4>5. f.head = Len(bufout') + 1
        BY <3>1, <3>5, <4>3
      <4>6. f.off = IF f.place = 1 THEN Len(bufout') ELSE Len(bufout') + Len(codeBuf')
        BY <3>4, <3>5, <4>3
      <4>7. QED
        BY <3>5, <4>1, <4>2, <4>3, <4>4, <4>5, <4>6
  <2>3. QED
    BY <2>1, <2>2
<1>23. Coded(G \union {f}, f)'
  <2>1. Chain(G \union {f}, f, Out', Text')
    BY <1>20, <1>21 DEF o
  <2>2. f.at = Reached'
    BY <1>15, <1>21
  <2>3. QED
    BY <1>20, <1>22, <2>1, <2>2 DEF Coded
<1>24. (\E H, g : Coded(H, g))'
  BY <1>23
<1>. QED
  <2>1. bufout' \in Seq(Nat) /\ codeBuf' \in Seq(Nat) /\ Len(codeBuf') > 0 /\ codeBuf'[1] < mask'
    BY <1>22
  <2>2. mask' = 1 <=> Len(codeBuf') = 1
    BY <1>22
  <2>3. QED
    BY ONLY <1>24, <2>1, <2>2 DEF Codes

(* The steps in between send nothing.                                       *)
LEMMA SendsNothing ==
  ASSUME Codes, UNCHANGED <<bufin, codeVars>>, Reached' = Reached,
         pc \in {"next", "insert", "delete"}
  PROVE  Codes'
<1>1. /\ bufout \in Seq(Nat) /\ codeBuf \in Seq(Nat) /\ Len(codeBuf) > 0 /\ codeBuf[1] < mask
      /\ mask = 1 <=> Len(codeBuf) = 1
      /\ \E G, e : Coded(G, e)
  BY DEF Codes
<1>2. bufout' = bufout /\ codeBuf' = codeBuf /\ mask' = mask /\ Out' = Out /\ Text' = Text
  BY DEF codeVars, Out, Text, TextAt
<1>3. PICK G, e : Coded(G, e)
  BY <1>1
<1>4. Coded(G, e)'
  BY <1>2, <1>3 DEF Coded
<1>5. (\E H, g : Coded(H, g))'
  BY <1>4
<1>. QED
  BY <1>1, <1>2, <1>5 DEF Codes

(* At first nothing is sent, and the first spot is the last one.            *)
LEMMA CodesBegin ==
  ASSUME Init
  PROVE  Codes
<1>1. bufout = <<>> /\ codeBuf = <<0>> /\ mask = 1 /\ todo = 1
  BY DEF Init
<1>2. /\ <<>> \in Seq(Nat) /\ <<0>> \in Seq(Nat) /\ Len(<<0>>) = 1 /\ <<0>>[1] = 0
      /\ Len(<<>>) = 0
  OBVIOUS
<1>3. /\ First.at = 0 /\ First.off = 0 /\ First.place = 1 /\ First.head = 1
      /\ First \in Spots
  BY MaskIs DEF First, Spots
<1>4. Chain({First}, First, Out, Text)
  BY <1>3 DEF Chain
<1>5. Ordered({First}, First)
  BY DEF Ordered
<1>6. Reached = 0
  BY <1>1 DEF Reached
<1>7. Coded({First}, First)
  BY <1>1, <1>2, <1>3, <1>4, <1>5, <1>6, MaskIs DEF Coded
<1>8. \E G, e : Coded(G, e)
  BY <1>7
<1>. QED
  BY <1>1, <1>2, <1>8 DEF Codes

(* Each step of the compressor leaves a chain of units.                     *)
LEMMA CodesSteps ==
  ASSUME Searches, Codes, Compress
  PROVE  Codes'
<1>. USE Sizes
<1>1. Control /\ Written /\ Matched
  BY DEF Searches
<1>2. /\ Sent \in Int /\ todo \in Int /\ bfin \in Int /\ len \in Int
  BY <1>1 DEF Control, Sent
<1>3. CASE InsertFirst
  <2>1. /\ UNCHANGED <<bufin, codeVars>> /\ pc = "next" /\ todo > 0 /\ Sent' = Sent
        /\ todo' = IF todo <= F THEN todo + 1 ELSE 0
    BY <1>3 DEF InsertFirst, inVars, Sent
  <2>2. Sent = 0
    BY <1>1, <1>2, <2>1 DEF Control, Sent
  <2>3. Reached' = Reached
    <3>1. Reached = 0
      BY <2>1 DEF Reached
    <3>2. CASE todo <= F
      <4>1. todo' > 0
        BY <1>2, <2>1, <3>2
      <4>2. QED
        BY <3>1, <4>1 DEF Reached
    <3>3. CASE ~(todo <= F)
      <4>1. todo' = 0 /\ Sent' = 0
        BY <2>1, <2>2, <3>3
      <4>2. Reached' = 0 - 0
        BY <4>1 DEF Reached
      <4>3. QED
        BY <3>1, <4>2
    <3>4. QED
      BY <3>2, <3>3
  <2>4. QED
    BY <2>1, <2>3, SendsNothing
<1>4. CASE Descend \/ BeginDelete \/ WalkRight
  <2>1. /\ UNCHANGED <<bufin, codeVars, todo, bfin, len>>
        /\ pc \in {"next", "insert", "delete"}
    BY <1>4 DEF Descend, BeginDelete, WalkRight, inVars, ringVars
  <2>2. Reached' = Reached
    BY <2>1 DEF Reached, Sent
  <2>3. QED
    BY <2>1, <2>2, SendsNothing
<1>5. CASE ShiftIn \/ ShiftOut
  <2>1. /\ UNCHANGED <<bufin, codeVars>> /\ pc = "delete" /\ todo' = todo + 1
        /\ bfin' - len' = bfin - len + 1
    BY <1>2, <1>5 DEF ShiftIn, ShiftOut, Found, inVars
  <2>2. todo < 0
    BY <1>1, <2>1 DEF Control
  <2>3. Reached' = Reached
    BY <1>2, <2>1, <2>2 DEF Reached, Sent
  <2>4. QED
    BY <2>1, <2>3, SendsNothing
<1>6. CASE SendUnit
  BY <1>1, <1>6, SendUnitCodes
<1>7. CASE Finish
  BY <1>7 DEF Finish, Codes
<1>. QED
  BY <1>3, <1>4, <1>5, <1>6, <1>7 DEF Compress

(* The units from the first spot to the end of what was sent stand for the  *)
(* whole input.                                                             *)
Packed(G, e) == Chain(G, e, bufout, Text) /\ e.at = bfin /\ e.off = Len(bufout)

(* Finish leaves such a chain, whether or not a group was begun.            *)
LEMMA FinishPacks ==
  ASSUME Control, Codes, Finish
  PROVE  bufout' \in Seq(Nat) /\ (\E G, e : Packed(G, e))'
<1>. DEFINE B == Len(bufout)
            C == Len(codeBuf)
            o == bufout'
<1>1. /\ pc = "next" /\ todo = 0 /\ len = 0
      /\ o = IF Len(codeBuf) > 1 THEN bufout \o codeBuf ELSE bufout
      /\ UNCHANGED <<bufin, bfin>>
  BY DEF Finish, inVars, ringVars
<1>. HIDE DEF o
<1>2. /\ bufout \in Seq(Nat) /\ codeBuf \in Seq(Nat) /\ Len(codeBuf) > 0
      /\ mask = 1 <=> Len(codeBuf) = 1
  BY <1>1 DEF Codes
<1>3. PICK G, e : Coded(G, e)
  BY <1>1 DEF Codes
<1>4. /\ e \in Spots /\ e.off \in Nat /\ B \in Nat /\ C \in Nat /\ C > 0
      /\ e.place = 1 <=> C = 1
  BY <1>2, <1>3, LastSpot, LenProperties
<1>5. /\ Chain(G, e, Out, Text) /\ Ordered(G, e) /\ e.head = B + 1 /\ e.at = bfin
      /\ e.off = IF e.place = 1 THEN B ELSE B + C
  <2>1. Reached = bfin
    BY <1>1 DEF Reached, Sent, Control
  <2>2. QED
    BY <1>3, <2>1 DEF Coded
<1>. HIDE DEF C
<1>6. o \in Seq(Nat) /\ Len(o) = e.off /\ Chain(G, e, o, Text)
  <2>1. CASE C > 1
    <3>1. o = Out
      BY <1>1, <2>1 DEF Out, C
    <3>2. Out \in Seq(Nat) /\ Len(Out) = B + C
      BY <1>2, Joined DEF Out, C
    <3>3. e.place # 1
      <4>1. C # 1
        BY <1>4, <2>1
      <4>2. QED
        BY <1>4, <4>1
    <3>4. QED
      BY <1>5, <3>1, <3>2, <3>3
  <2>2. CASE ~(C > 1)
    <3>1. o = bufout /\ e.place = 1 /\ e.off = B
      <4>1. C = 1
        BY <1>4, <2>2
      <4>2. o = bufout
        BY <1>1, <2>2 DEF C
      <4>3. e.place = 1
        BY <1>4, <4>1
      <4>4. QED
        BY <1>5, <4>1, <4>2, <4>3
    <3>2. \A i \in 1 .. B : o[i] = Out[i]
      <4>1. \A i \in 1 .. Len(bufout) : (bufout \o codeBuf)[i] = bufout[i]
        BY <1>2, Joined
      <4>2. QED
        BY <3>1, <4>1 DEF Out
    <3>3. G \subseteq Spots /\ e \in G /\ First \in G
      BY <1>5 DEF Chain
    <3>4. ASSUME NEW g \in G, g # e PROVE \E h \in G : Stands(o, Text, g, h)
      <4>1. PICK h \in G : Stands(Out, Text, g, h)
        BY <1>5, <3>4 DEF Chain
      <4>2. /\ g \in Spots /\ h \in Spots /\ h.off \in Nat /\ h.off <= B
            /\ g.head \in Nat /\ g.place \in Nat /\ g.place >= 1 /\ g.head >= 1
        BY <1>5, <3>1, <3>3 DEF Chain, Spots
      <4>3. g.head < e.head
        BY <3>1, <3>4, <4>2, <1>5 DEF Ordered
      <4>4. \A i \in 1 .. h.off : o[i] = Out[i]
        BY <1>4, <3>2, <4>2
      <4>5. g.head \in 1 .. B
        BY <1>4, <1>5, <4>2, <4>3
      <4>6. Bit(o[g.head], g.place) = Bit(Out[g.head], g.place)
        BY <3>2, <4>5
      <4>7. QED
        BY <4>1, <4>2, <4>4, <4>6, StandsStill
    <3>5. Chain(G, e, o, Text)
      BY <1>5, <3>3, <3>4 DEF Chain
    <3>6. QED
      BY <1>2, <3>1, <3>5
  <2>3. QED
    BY <2>1, <2>2
<1>7. Text' = Text /\ bfin' = bfin
  BY <1>1 DEF Text, TextAt
<1>8. Packed(G, e)'
  BY <1>5, <1>6, <1>7 DEF Packed, o
<1>. QED
  BY <1>6, <1>8 DEF o

-----------------------------------------------------------------------------
(* The console's memories.  At is the number of bytes it has written. *)

At == 2 * vmadd + flip

(* What arrives for a byte of the text.                                     *)
Alike(b, c) == b = c \/ (c = Space /\ b = 0)

Memory ==
  /\ vmadd \in Nat /\ flip \in {0, 1} /\ offs = Pos(At) /\ strptr \in Node
  /\ DOMAIN ring = Node /\ DOMAIN vram = 0 .. Len(bufin) - 1
  /\ \A k \in At - N .. At - 1 : k >= F - N => Alike(ring[Pos(k)], TextAt(k))
  /\ \A k \in 0 .. At - 1 : Alike(vram[k], TextAt(k))

(* The ring of the console is as that of the compressor, but for zeros in   *)
(* the place of spaces.                                                     *)
LEMMA MemoryBegins ==
  ASSUME Init
  PROVE  Memory /\ At = 0 /\ x = 0 /\ y = 0
<1>. USE Sizes
<1>1. /\ x = 0 /\ y = 0 /\ vmadd = 0 /\ flip = 0 /\ offs = N - F /\ strptr = 0
      /\ ring = [i \in Node |-> IF i < N - F THEN 0 ELSE Unwritten]
      /\ DOMAIN vram = 0 .. Len(bufin) - 1
  BY DEF Init
<1>2. At = 0
  BY <1>1 DEF At
<1>3. Pos(0) = N - F /\ 0 \in Node
  BY FirstCells DEF Node
<1>4. ASSUME NEW k \in At - N .. At - 1, k >= F - N
      PROVE  Alike(ring[Pos(k)], TextAt(k))
  <2>1. k \in F - N .. -1 /\ k \in Int
    BY <1>2, <1>4
  <2>2. Pos(k) = k + N - F
    BY <2>1, FirstCells
  <2>3. Pos(k) \in Node /\ Pos(k) < N - F
    BY <2>1, <2>2 DEF Node
  <2>4. ring[Pos(k)] = 0 /\ TextAt(k) = Space
    BY <1>1, <2>1, <2>3 DEF TextAt
  <2>5. QED
    BY <2>4 DEF Alike
<1>5. DOMAIN ring = Node
  BY <1>1
<1>6. \A k \in 0 .. At - 1 : Alike(vram[k], TextAt(k))
  BY <1>2
<1>. QED
  BY <1>1, <1>2, <1>3, <1>4, <1>5, <1>6 DEF Memory

(* The bytes for VMDATAL go to even cells of the ring: the next one need    *)
(* not wrap.                                                                *)
LEMMA EvenCells ==
  ASSUME NEW v \in Nat
  PROVE  Wrap(Pos(2 * v) + 1) = Pos(2 * v) + 1
<1>. USE Sizes
<1>1. PICK a \in Int, b \in Int : N = 2 * a /\ F = 2 * b
  <2>1. N \div 2 \in Int /\ N = 2 * (N \div 2) + (N % 2)
    OBVIOUS
  <2>2. F \div 2 \in Int /\ F = 2 * (F \div 2) + (F % 2)
    OBVIOUS
  <2>3. QED
    BY <2>1, <2>2
<1>2. PICK c \in Int : 2 * v + N - F = N * c + Pos(2 * v)
  <2>1. 2 * v + N - F \in Int
    OBVIOUS
  <2>2. QED
    BY <2>1, Wraps DEF Pos
<1>3. Pos(2 * v) \in 0 .. N - 1
  BY Cells DEF Node
<1>4. Pos(2 * v) # N - 1
  <2>1. PICK g \in Int : g = a * c
    OBVIOUS
  <2>2. N * c = 2 * g
    BY <1>1, <2>1
  <2>3. PICK i \in Int : i = Pos(2 * v)
    BY <1>3
  <2>4. 2 * v + 2 * a - 2 * b = 2 * g + i
    BY <1>1, <1>2, <2>2, <2>3
  <2>5. i # 2 * a - 1
    BY ONLY <2>4, v \in Nat, a \in Int, b \in Int, g \in Int, i \in Int
  <2>6. QED
    BY <1>1, <2>3, <2>5
<1>5. Pos(2 * v) + 1 \in Node /\ Pos(2 * v) + 1 = N * 0 + (Pos(2 * v) + 1)
      /\ Pos(2 * v) + 1 \in Int /\ 0 \in Int
  BY <1>3, <1>4 DEF Node
<1>6. Same(Pos(2 * v) + 1, Pos(2 * v) + 1)
  BY <1>5, Zenon DEF Same
<1>. QED
  BY <1>5, <1>6, WrapIs

(* The next byte of the text is written where it belongs.                   *)
LEMMA ByteWritten ==
  ASSUME Memory, At < Len(bufin), Len(bufin) \in Nat,
         NEW b, NEW offset, WriteByte(b, offset), Alike(b, TextAt(At)),
         offset = (IF flip = 0 THEN offs + 1 ELSE Wrap(offs + 1)) \/ offset = Wrap(offs + 1),
         bufin' = bufin, strptr' \in Node
  PROVE  Memory' /\ At' = At + 1
<1>. USE Sizes
<1>1. At \in Nat /\ At + 1 \in Nat
  BY DEF Memory, At
<1>2. vmadd' \in Nat /\ flip' \in {0, 1} /\ At' = At + 1
  BY DEF Memory, WriteByte, At
<1>3. offset = Pos(At + 1)
  <2>1. Wrap(offs + 1) = Pos(At + 1)
    BY <1>1, NextCell DEF Memory
  <2>2. flip = 0 => Wrap(offs + 1) = offs + 1
    <3>1. SUFFICES ASSUME flip = 0 PROVE Wrap(offs + 1) = offs + 1
      OBVIOUS
    <3>2. vmadd \in Nat /\ offs = Pos(At)
      BY DEF Memory
    <3>3. offs = Pos(2 * vmadd)
      BY <3>1, <3>2 DEF At
    <3>4. QED
      BY <3>2, <3>3, EvenCells
  <2>3. QED
    BY <2>1, <2>2
<1>4. /\ Pos(At) \in Node /\ offs = Pos(At) /\ offs' = offset
      /\ ring' = [ring EXCEPT ![Pos(At)] = b] /\ DOMAIN ring = Node
      /\ vram' = [vram EXCEPT ![At] = b] /\ DOMAIN vram = 0 .. Len(bufin) - 1
  BY <1>1, Cells DEF Memory, WriteByte, At
<1>5. /\ DOMAIN ring' = Node /\ ring'[Pos(At)] = b
      /\ \A c \in Node : c # Pos(At) => ring'[c] = ring[c]
  BY <1>4
<1>6. /\ DOMAIN vram' = 0 .. Len(bufin) - 1 /\ vram'[At] = b
      /\ \A i \in 0 .. At - 1 : vram'[i] = vram[i]
  <2>1. At \in 0 .. Len(bufin) - 1
    BY <1>1
  <2>2. \A i \in 0 .. At - 1 : i # At /\ i \in 0 .. Len(bufin) - 1
    BY <1>1
  <2>3. QED
    BY <1>4, <2>1, <2>2
<1>7. PICK D \in Nat : D = At
  BY <1>1
<1>8. ASSUME NEW k \in D + 1 - N .. D, k >= F - N
      PROVE  Alike(ring'[Pos(k)], TextAt(k))
  <2>1. CASE k = D
    BY <1>5, <1>7, <2>1
  <2>2. CASE k # D
    <3>1. k \in D - N .. D - 1 /\ k \in Int /\ k < D + N /\ D < k + N /\ D \in Int
      BY <2>2
    <3>2. Pos(k) # Pos(D) /\ Pos(k) \in Node
      BY <2>2, <3>1, Apart, Cells
    <3>3. Alike(ring[Pos(k)], TextAt(k))
      BY <1>7, <1>8, <3>1 DEF Memory
    <3>4. QED
      BY <1>5, <1>7, <3>2, <3>3
  <2>3. QED
    BY <2>1, <2>2
<1>9. ASSUME NEW k \in 0 .. D
      PROVE  Alike(vram'[k], TextAt(k))
  <2>1. CASE k = D
    BY <1>6, <1>7, <2>1
  <2>2. CASE k # D
    <3>1. k \in 0 .. D - 1
      BY <2>2
    <3>2. QED
      BY <1>6, <1>7, <3>1 DEF Memory
  <2>3. QED
    BY <2>1, <2>2
<1>10. \A k : TextAt(k)' = TextAt(k)
  BY DEF TextAt
<1>11. /\ \A k \in At' - N .. At' - 1 : k >= F - N => Alike(ring'[Pos(k)], TextAt(k)')
       /\ \A k \in 0 .. At' - 1 : Alike(vram'[k], TextAt(k)')
  <2>1. At' - N = D + 1 - N /\ At' - 1 = D
    BY <1>2, <1>7
  <2>2. QED
    BY <1>8, <1>9, <1>10, <2>1
<1>. QED
  BY <1>2, <1>3, <1>4, <1>5, <1>6, <1>11 DEF Memory, Alike

-----------------------------------------------------------------------------
(* What the console reads: the units, one after the other. *)

Coding == {"next", "insert", "delete"}

AtGroup(g) == g.place = 1 /\ g.at = At /\ g.off = y

(* The next unit of a group; if it is the last spot there is none.          *)
AtUnit(g, e) ==
  /\ g.at = At /\ y = ByteOf(g) - 1 /\ (g = e => g.place # 1)
  /\ flags = bufout[g.head] \div Masks[g.place] /\ cnt2 = Units + 1 - g.place

(* The string between g and h, of which strlen bytes are left.              *)
InString(g, h, m, n) ==
  /\ Succeeds(g, h) /\ Pair(bufout, Text, g, h, m, n)
  /\ At - g.at \in 0 .. n - 1 /\ strlen = n - (At - g.at) /\ strptr = Pos(m + (At - g.at))
  /\ y = h.off /\ cnt2 = Units + 1 - g.place
  /\ flags = (bufout[g.head] \div Masks[g.place]) \div 2

Spotted(G, e) ==
  /\ pc = "flags" => \E g \in G : AtGroup(g)
  /\ pc = "unit" => \E g \in G : AtUnit(g, e)
  /\ pc = "string" => \E g, h \in G : \E m, n : InString(g, h, m, n)
  /\ pc = "done" => At = bfin /\ x = 0

Reads ==
  IF pc \in Coding THEN At = 0 /\ x = 0 /\ y = 0
  ELSE /\ bufout \in Seq(Nat) /\ x = Len(bufout) - y
       /\ \E G, e : Packed(G, e) /\ Spotted(G, e)

(* The same chain after a step of the console.                              *)
LEMMA StillPacked ==
  ASSUME NEW G, NEW e, Packed(G, e), UNCHANGED <<bufin, bufout, bfin>>
  PROVE  Packed(G, e)' /\ Text' = Text
<1>1. Text' = Text
  BY DEF Text, TextAt
<1>. QED
  BY <1>1 DEF Packed

(* A spot that is not the last one is followed by a unit.                   *)
LEMMA UnitFollows ==
  ASSUME NEW G, NEW e, Packed(G, e), Control, bufout \in Seq(Nat), NEW g \in G, g # e
  PROVE  /\ g \in Spots /\ ByteOf(g) \in 1 .. Len(bufout) /\ bufout[ByteOf(g)] \in Nat
         /\ bufout[g.head] \in Nat
         /\ \E h \in G : /\ h \in Spots /\ h.at <= bfin /\ h.off <= Len(bufout)
                         /\ Stands(bufout, Text, g, h)
<1>1. /\ G \subseteq Spots /\ e.at = bfin /\ e.off = Len(bufout) /\ Len(bufout) \in Nat
      /\ \A i \in G : i.at <= e.at /\ i.off <= e.off
  BY LenProperties DEF Packed, Chain
<1>2. PICK h \in G : Stands(bufout, Text, g, h)
  BY DEF Packed, Chain
<1>3. /\ g \in Spots /\ h \in Spots /\ h.off \in Nat /\ h.off <= Len(bufout) /\ h.at <= bfin
  BY <1>1 DEF Spots
<1>4. ByteOf(g) \in Nat /\ ByteOf(g) >= 1 /\ g.head \in Nat /\ g.head >= 1 /\ g.head < ByteOf(g)
  BY <1>3 DEF ByteOf, Spots
<1>5. h.off >= ByteOf(g)
  <2>1. h.off = ByteOf(g) \/ h.off = ByteOf(g) + 1
    BY <1>2 DEF Stands, Letter, Pair
  <2>2. QED
    BY <1>3, <1>4, <2>1
<1>6. ByteOf(g) \in 1 .. Len(bufout) /\ g.head \in 1 .. Len(bufout)
  BY <1>1, <1>3, <1>4, <1>5
<1>7. bufout[ByteOf(g)] \in Nat /\ bufout[g.head] \in Nat
  BY <1>6, ElementOfSeq
<1>. QED
  BY <1>2, <1>3, <1>6, <1>7

(* After a unit comes the next one of the group, or the next group.         *)
LEMMA NextUnit ==
  ASSUME NEW G, NEW e, NEW g \in Spots, NEW h \in G, h \in Spots, Succeeds(g, h),
         bufout[g.head] \in Nat, bufout' = bufout, cnt2 = Units + 1 - g.place, NextFlag,
         h.at = At', y' = h.off, flags' = (bufout[g.head] \div Masks[g.place]) \div 2
  PROVE  Spotted(G, e)'
<1>1. Units \in Nat /\ g.place \in 1 .. Units
  BY MaskIs DEF Spots
<1>2. CASE g.place = Units
  <2>1. h.place = 1 /\ cnt2 = 1
    BY <1>1, <1>2 DEF Succeeds
  <2>2. pc' = "flags"
    BY <2>1 DEF NextFlag
  <2>3. AtGroup(h)'
    BY <2>1 DEF AtGroup
  <2>4. (\E i \in G : AtGroup(i))'
    BY <2>3
  <2>5. QED
    BY <2>2, <2>4 DEF Spotted
<1>3. CASE g.place # Units
  <2>1. h.place = g.place + 1 /\ h.place # 1 /\ h.head = g.head /\ cnt2 # 1
    BY <1>1, <1>3 DEF Succeeds
  <2>2. pc' = "unit" /\ cnt2' = Units + 1 - h.place
    <3>1. pc' = "unit" /\ cnt2' = cnt2 - 1
      BY <2>1 DEF NextFlag
    <3>2. cnt2 - 1 = Units + 1 - h.place
      BY <1>1, <2>1
    <3>3. QED
      BY <3>1, <3>2
  <2>3. y' = ByteOf(h) - 1
    BY <2>1 DEF ByteOf, Spots
  <2>4. flags' = bufout[h.head] \div Masks[h.place]
    <3>1. Masks[g.place] \in Nat \ {0} /\ Masks[h.place] = 2 * Masks[g.place]
      <4>1. g.place < Units
        BY <1>1, <1>3
      <4>2. QED
        BY <1>1, <2>1, <4>1, MaskIs
    <3>2. flags' = bufout[g.head] \div (2 * Masks[g.place])
      BY <3>1, HalfQuotient
    <3>3. QED
      BY <2>1, <3>1, <3>2
  <2>5. AtUnit(h, e)'
    BY <2>1, <2>2, <2>3, <2>4 DEF AtUnit
  <2>6. (\E i \in G : AtUnit(i, e))'
    BY <2>5
  <2>7. QED
    BY <2>2, <2>6 DEF Spotted
<1>. QED
  BY <1>2, <1>3

(* What a step of the console begins with, and what it leaves alone.        *)
LEMMA Reading ==
  ASSUME Control, Reads, LzssDecodeVram
  PROVE  /\ pc \notin Coding /\ UNCHANGED <<bufin, bufout, bfin>>
         /\ bufout \in Seq(Nat) /\ Len(bufout) \in Nat /\ x = Len(bufout) - y
         /\ \E G, e : Packed(G, e) /\ Spotted(G, e)
<1>1. pc \notin Coding /\ UNCHANGED <<bufin, bufout, bfin>>
  BY DEF LzssDecodeVram, ReadFlags, CopyByte, ReadPair, CopyString, DecodeDone, Coding,
     inVars, ringVars, codeVars
<1>2. /\ bufout \in Seq(Nat) /\ x = Len(bufout) - y
      /\ \E G, e : Packed(G, e) /\ Spotted(G, e)
  BY <1>1 DEF Reads
<1>. QED
  BY <1>1, <1>2, LenProperties

(* A flags byte is read: it is that of the group that begins.               *)
LEMMA ReadFlagsReads ==
  ASSUME Control, Reads, Memory, ReadFlags
  PROVE  Reads' /\ Memory'
<1>0. LzssDecodeVram
  BY DEF LzssDecodeVram
<1>1. /\ UNCHANGED <<bufin, bufout, bfin>> /\ bufout \in Seq(Nat) /\ Len(bufout) \in Nat
      /\ x = Len(bufout) - y
  BY <1>0, Reading
<1>2. PICK G, e : Packed(G, e) /\ Spotted(G, e)
  BY <1>0, Reading
<1>3. /\ pc = "flags" /\ x # 0 /\ pc' = "unit" /\ flags' = bufout[y + 1] /\ y' = y + 1
      /\ x' = x - 1 /\ cnt2' = Units /\ UNCHANGED <<copyVars, outVars>>
  BY DEF ReadFlags
<1>4. At' = At /\ Memory'
  BY <1>1, <1>3 DEF Memory, At, outVars, copyVars, TextAt
<1>5. PICK g \in G : AtGroup(g)
  BY <1>2, <1>3 DEF Spotted
<1>6. /\ e.off = Len(bufout) /\ g \in Spots /\ g.place = 1 /\ g.at = At /\ g.off = y /\ y \in Nat
      /\ g.head = y + 1
  BY <1>2, <1>5 DEF Packed, Chain, AtGroup, Spots
<1>7. g # e
  BY <1>1, <1>3, <1>6
<1>8. bufout[g.head] \in Nat
  BY <1>1, <1>2, <1>7, UnitFollows
<1>9. flags' = bufout[g.head] \div Masks[g.place]
  <2>1. flags' = bufout[g.head] /\ Masks[g.place] = 1
    BY <1>3, <1>6, MaskIs
  <2>2. bufout[g.head] = 1 * bufout[g.head] + 0
    BY <1>8
  <2>3. bufout[g.head] \div 1 = bufout[g.head]
    BY <1>8
  <2>4. QED
    BY <2>1, <2>3
<1>10. y' = ByteOf(g) - 1 /\ cnt2' = Units + 1 - g.place
  BY <1>3, <1>6, MaskIs DEF ByteOf
<1>11. AtUnit(g, e)'
  BY <1>1, <1>4, <1>6, <1>7, <1>9, <1>10 DEF AtUnit
<1>12. (\E i \in G : AtUnit(i, e))'
  BY <1>11
<1>13. Spotted(G, e)'
  BY <1>3, <1>12 DEF Spotted
<1>14. (\E H, f : Packed(H, f) /\ Spotted(H, f))'
  BY <1>1, <1>2, <1>13, StillPacked
<1>15. x' = Len(bufout') - y'
  BY <1>1, <1>3, <1>6
<1>. QED
  BY <1>1, <1>3, <1>4, <1>14, <1>15 DEF Reads, Coding

(* The next unit, which is there as long as there are bytes, and its flag.  *)
LEMMA UnitRead ==
  ASSUME Control, bufout \in Seq(Nat), Len(bufout) \in Nat, x = Len(bufout) - y,
         NEW G, NEW e, Packed(G, e), NEW g \in G, AtUnit(g, e)
  PROVE  /\ g \in Spots /\ e.at = bfin /\ ByteOf(g) = y + 1 /\ y \in Nat /\ g.at = At
         /\ IF x = 0 THEN g = e
            ELSE g # e /\ flags = bufout[g.head] \div Masks[g.place]
                 /\ Bit(bufout[g.head], g.place) = flags % 2
<1>1. /\ g \in Spots /\ e \in Spots /\ e.off = Len(bufout) /\ e.at = bfin
  BY DEF Packed, Chain
<1>2. g.at = At /\ y = ByteOf(g) - 1 /\ (g = e => g.place # 1)
      /\ flags = bufout[g.head] \div Masks[g.place]
  BY DEF AtUnit
<1>3. ByteOf(g) \in Nat /\ ByteOf(g) >= 1
  BY <1>1 DEF ByteOf, Spots
<1>4. CASE x = 0
  <2>1. y = Len(bufout) /\ ~(ByteOf(g) \in 1 .. Len(bufout))
    BY <1>2, <1>3, <1>4
  <2>2. g = e
    BY <2>1, UnitFollows
  <2>3. QED
    BY <1>1, <1>2, <1>3, <1>4, <2>2
<1>5. CASE x # 0
  <2>1. g # e
    <3>1. SUFFICES ASSUME g = e PROVE FALSE
      OBVIOUS
    <3>2. ByteOf(g) = e.off + 1
      BY <1>2, <3>1 DEF ByteOf
    <3>3. QED
      BY <1>1, <1>2, <1>5, <3>2
  <2>2. QED
    BY <1>1, <1>2, <1>3, <1>5, <2>1 DEF Bit
<1>. QED
  BY <1>4, <1>5

(* A byte that was sent as it is: it is the next one of the text.           *)
LEMMA CopyByteReads ==
  ASSUME Control, Reads, Memory, CopyByte
  PROVE  Reads' /\ Memory'
<1>0. LzssDecodeVram
  BY DEF LzssDecodeVram
<1>1. /\ UNCHANGED <<bufin, bufout, bfin>> /\ bufout \in Seq(Nat) /\ Len(bufout) \in Nat
      /\ x = Len(bufout) - y
  BY <1>0, Reading
<1>2. PICK G, e : Packed(G, e) /\ Spotted(G, e)
  BY <1>0, Reading
<1>3. /\ pc = "unit" /\ x # 0 /\ flags % 2 = 1 /\ flags' = flags \div 2 /\ y' = y + 1
      /\ x' = x - 1 /\ UNCHANGED copyVars /\ NextFlag
      /\ WriteByte(bufout[y + 1], IF flip = 0 THEN offs + 1 ELSE Wrap(offs + 1))
  BY DEF CopyByte
<1>4. PICK g \in G : AtUnit(g, e)
  BY <1>2, <1>3 DEF Spotted
<1>5. /\ g \in Spots /\ ByteOf(g) = y + 1 /\ y \in Nat /\ g.at = At /\ g # e /\ e.at = bfin
      /\ flags = bufout[g.head] \div Masks[g.place] /\ Bit(bufout[g.head], g.place) = 1
  BY <1>1, <1>2, <1>3, <1>4, UnitRead
<1>6. bufout[g.head] \in Nat
  BY <1>1, <1>2, <1>5, UnitFollows
<1>7. PICK h \in G : /\ h \in Spots /\ h.at <= bfin /\ h.off <= Len(bufout)
                     /\ Stands(bufout, Text, g, h)
  BY <1>1, <1>2, <1>5, UnitFollows
<1>8. Succeeds(g, h) /\ Letter(bufout, Text, g, h)
  <2>1. \A m, n : ~Pair(bufout, Text, g, h, m, n)
    BY <1>5 DEF Pair
  <2>2. QED
    BY <1>7, <2>1 DEF Stands
<1>9. h.at = At + 1 /\ h.off = y + 1 /\ bufout[y + 1] = TextAt(At)
  <2>1. At \in Int
    BY <1>5 DEF Spots
  <2>2. QED
    BY <1>5, <1>8, <2>1 DEF Letter, Text
<1>10. At < Len(bufin) /\ Len(bufin) \in Nat
  <2>1. bfin \in Nat /\ bfin <= Len(bufin) /\ At \in Nat /\ Len(bufin) \in Nat
    BY <1>5, Sizes DEF Control, Spots
  <2>2. QED
    BY <1>7, <1>9, <2>1
<1>11. Memory' /\ At' = At + 1
  <2>1. Alike(bufout[y + 1], TextAt(At))
    BY <1>9 DEF Alike
  <2>2. strptr' \in Node
    BY <1>3 DEF Memory, copyVars
  <2>3. QED
    BY <1>1, <1>3, <1>10, <2>1, <2>2, ByteWritten
<1>12. Spotted(G, e)'
  <2>1. cnt2 = Units + 1 - g.place
    BY <1>4 DEF AtUnit
  <2>2. h.at = At' /\ y' = h.off /\ flags' = (bufout[g.head] \div Masks[g.place]) \div 2
    BY <1>3, <1>5, <1>9, <1>11
  <2>3. QED
    BY <1>1, <1>3, <1>5, <1>6, <1>7, <1>8, <2>1, <2>2, NextUnit
<1>13. (\E H, f : Packed(H, f) /\ Spotted(H, f))'
  BY <1>1, <1>2, <1>12, StillPacked
<1>14. x' = Len(bufout') - y' /\ pc' \notin Coding
  BY <1>1, <1>3, <1>5 DEF NextFlag, Coding
<1>. QED
  BY <1>1, <1>11, <1>13, <1>14 DEF Reads

(* A pair: where its string is in the ring, and how long it is.             *)
LEMMA ReadPairReads ==
  ASSUME Control, Reads, Memory, ReadPair
  PROVE  Reads' /\ Memory'
<1>. USE Sizes
<1>0. LzssDecodeVram
  BY DEF LzssDecodeVram
<1>1. /\ UNCHANGED <<bufin, bufout, bfin>> /\ bufout \in Seq(Nat) /\ Len(bufout) \in Nat
      /\ x = Len(bufout) - y
  BY <1>0, Reading
<1>2. PICK G, e : Packed(G, e) /\ Spotted(G, e)
  BY <1>0, Reading
<1>3. /\ pc = "unit" /\ x # 0 /\ flags % 2 = 0 /\ flags' = flags \div 2 /\ y' = y + 2
      /\ x' = x - 2 /\ pc' = "string" /\ cnt2' = cnt2 /\ UNCHANGED outVars
      /\ strptr' = (bufout[y + 2] \div LenCodes) * PosLow + bufout[y + 1]
      /\ strlen' = (bufout[y + 2] % LenCodes) + Threshold + 1
  BY DEF ReadPair
<1>4. PICK g \in G : AtUnit(g, e)
  BY <1>2, <1>3 DEF Spotted
<1>5. /\ g \in Spots /\ ByteOf(g) = y + 1 /\ y \in Nat /\ g.at = At /\ g # e /\ e.at = bfin
      /\ flags = bufout[g.head] \div Masks[g.place] /\ Bit(bufout[g.head], g.place) = 0
  BY <1>1, <1>2, <1>3, <1>4, UnitRead
<1>6. PICK h \in G : /\ h \in Spots /\ h.at <= bfin /\ h.off <= Len(bufout)
                     /\ Stands(bufout, Text, g, h)
  BY <1>1, <1>2, <1>5, UnitFollows
<1>7. Succeeds(g, h) /\ \E m, n : Pair(bufout, Text, g, h, m, n)
  <2>1. ~Letter(bufout, Text, g, h)
    BY <1>5 DEF Letter
  <2>2. QED
    BY <1>6, <2>1 DEF Stands
<1>8. PICK m, n : Pair(bufout, Text, g, h, m, n)
  BY <1>7
<1>9. /\ m \in Int /\ n \in Threshold + 1 .. F /\ h.off = y + 2
      /\ bufout[y + 1] = Pos(m) % PosLow
      /\ bufout[y + 2] = (Pos(m) \div PosLow) * LenCodes + (n - (Threshold + 1))
  BY <1>5, <1>8 DEF Pair
<1>10. PICK i \in Nat : i = Pos(m)
  BY <1>9, Cells DEF Node
<1>11. PICK q \in Nat, a \in Nat : q = i \div PosLow /\ a = i % PosLow /\ i = PosLow * q + a
  OBVIOUS
<1>12. PICK d \in Nat : d = n - (Threshold + 1) /\ d \in 0 .. LenCodes - 1
  BY <1>9 DEF LenCodes
<1>13. bufout[y + 2] = LenCodes * q + d
  BY <1>9, <1>10, <1>11, <1>12
<1>14. (LenCodes * q + d) % LenCodes = d /\ (LenCodes * q + d) \div LenCodes = q
  <2>1. LenCodes \in Nat \ {0} /\ q \in Int /\ d \in 0 .. LenCodes - 1
    BY <1>12
  <2>2. QED
    BY ONLY <2>1, Division
<1>15. strptr' = Pos(m) /\ strlen' = n
  <2>1. strptr' = q * PosLow + a
    BY <1>3, <1>9, <1>10, <1>11, <1>13, <1>14
  <2>2. strlen' = d + Threshold + 1
    BY <1>3, <1>13, <1>14
  <2>3. strptr' = i
    <3>1. PICK b \in Int : b = PosLow * q
      OBVIOUS
    <3>2. q * PosLow = b
      BY <3>1
    <3>3. QED
      BY <1>11, <2>1, <3>1, <3>2
  <2>4. d + Threshold + 1 = n
    <3>1. n \in Int
      BY <1>9
    <3>2. QED
      BY <1>12, <3>1
  <2>5. QED
    BY <1>10, <2>2, <2>3, <2>4
<1>16. Memory' /\ At' = At
  <2>1. strptr' \in Node
    BY <1>9, <1>15, Cells
  <2>2. QED
    BY <1>1, <1>3, <2>1 DEF Memory, At, outVars, TextAt
<1>17. InString(g, h, m, n)'
  <2>1. At \in Int /\ At - g.at = 0 /\ m + (At - g.at) = m /\ n - (At - g.at) = n
        /\ 0 \in 0 .. n - 1
    BY <1>5, <1>9 DEF Spots
  <2>2. y' = h.off /\ cnt2' = Units + 1 - g.place
    BY <1>3, <1>4, <1>9 DEF AtUnit
  <2>3. flags' = (bufout[g.head] \div Masks[g.place]) \div 2
    BY <1>3, <1>5
  <2>4. Pair(bufout', Text', g, h, m, n)
    BY <1>1, <1>2, <1>8, StillPacked
  <2>5. QED
    BY <1>1, <1>7, <1>15, <1>16, <2>1, <2>2, <2>3, <2>4 DEF InString
<1>18. (\E u, v \in G : \E k, z : InString(u, v, k, z))'
  BY <1>17
<1>19. Spotted(G, e)'
  BY <1>3, <1>18 DEF Spotted
<1>20. (\E H, f : Packed(H, f) /\ Spotted(H, f))'
  BY <1>1, <1>2, <1>19, StillPacked
<1>21. x' = Len(bufout') - y' /\ pc' \notin Coding
  BY <1>1, <1>3, <1>5 DEF Coding
<1>. QED
  BY <1>1, <1>16, <1>20, <1>21 DEF Reads

(* A byte of the string: it is in the ring, and the next one of the text.   *)
LEMMA CopyStringReads ==
  ASSUME Control, Reads, Memory, CopyString
  PROVE  Reads' /\ Memory'
<1>. USE Sizes
<1>0. LzssDecodeVram
  BY DEF LzssDecodeVram
<1>1. /\ UNCHANGED <<bufin, bufout, bfin>> /\ bufout \in Seq(Nat) /\ Len(bufout) \in Nat
      /\ x = Len(bufout) - y
  BY <1>0, Reading
<1>2. PICK G, e : Packed(G, e) /\ Spotted(G, e)
  BY <1>0, Reading
<1>3. /\ pc = "string" /\ UNCHANGED <<x, y, flags>>
      /\ WriteByte(ring[strptr], Wrap(offs + 1))
      /\ strptr' = Wrap(strptr + 1) /\ strlen' = strlen - 1
      /\ IF strlen = 1 THEN NextFlag ELSE pc' = pc /\ cnt2' = cnt2
  BY DEF CopyString
<1>4. PICK g \in G, h \in G : \E m, n : InString(g, h, m, n)
  BY <1>2, <1>3 DEF Spotted
<1>5. PICK m, n : InString(g, h, m, n)
  BY <1>4
<1>6. PICK j : j = At - g.at
  OBVIOUS
<1>7. /\ Succeeds(g, h) /\ Pair(bufout, Text, g, h, m, n)
      /\ j \in 0 .. n - 1 /\ strlen = n - j /\ strptr = Pos(m + j)
      /\ y = h.off /\ cnt2 = Units + 1 - g.place
      /\ flags = (bufout[g.head] \div Masks[g.place]) \div 2
  BY <1>5, <1>6 DEF InString
<1>8. /\ g \in Spots /\ h \in Spots /\ g.at \in Nat /\ h.at <= bfin /\ n \in Nat
      /\ h.at = g.at + n /\ h.off <= Len(bufout)
      /\ m \in Int /\ m < g.at /\ m >= g.at - (N - F) /\ m >= -F
      /\ \A i \in 0 .. n - 1 : Text[m + i] = Text[g.at + i]
  <2>1. /\ g \in Spots /\ h \in Spots /\ g.at \in Nat /\ h.at <= bfin /\ h.off <= Len(bufout)
    BY <1>2 DEF Packed, Chain, Spots
  <2>2. /\ n \in Threshold + 1 .. F /\ h.at = g.at + n
        /\ m \in Int /\ m < g.at /\ m >= g.at - (N - F) /\ m >= -F
        /\ \A i \in 0 .. n - 1 : Text[m + i] = Text[g.at + i]
    BY <1>7 DEF Pair
  <2>3. n \in Nat
    BY <2>2
  <2>4. QED
    BY <2>1, <2>2, <2>3
<1>9. At \in Nat /\ At = g.at + j /\ j \in Nat
  <2>1. At \in Nat
    BY DEF Memory, At
  <2>2. j \in Nat
    BY <1>7, <1>8
  <2>3. QED
    BY <1>6, <1>8, <2>1, <2>2
<1>10. At < Len(bufin) /\ Len(bufin) \in Nat
  <2>1. bfin \in Nat /\ bfin <= Len(bufin) /\ Len(bufin) \in Nat
    BY DEF Control
  <2>2. At < h.at /\ h.at \in Nat
    <3>1. j < n /\ h.at = g.at + n /\ g.at \in Nat /\ n \in Nat
      BY <1>7, <1>8
    <3>2. QED
      BY ONLY <1>9, <3>1
  <2>3. h.at <= bfin
    BY <1>8
  <2>4. QED
    BY ONLY <1>9, <2>1, <2>2, <2>3
<1>11. Alike(ring[strptr], TextAt(At))
  <2>1. m + j \in Int /\ m + j \in At - N .. At - 1 /\ m + j >= F - N
    <3>1. m \in Int /\ m < g.at /\ m >= g.at - (N - F) /\ m >= -F /\ g.at \in Nat
      BY <1>8
    <3>2. QED
      BY ONLY <1>9, <3>1, Sizes
  <2>2. Alike(ring[Pos(m + j)], TextAt(m + j))
    BY <2>1 DEF Memory
  <2>3. TextAt(m + j) = TextAt(At)
    <3>1. Text[m + j] = Text[g.at + j]
      BY <1>7, <1>8
    <3>2. QED
      BY <1>9, <2>1, <3>1 DEF Text
  <2>4. QED
    BY <1>7, <2>2, <2>3
<1>12. strptr' = Pos(m + j + 1) /\ strptr' \in Node
  <2>1. m + j \in Int /\ m + j + 1 \in Int
    BY <1>8, <1>9
  <2>2. QED
    BY <1>3, <1>7, <2>1, NextCell, Cells
<1>13. Memory' /\ At' = At + 1
  BY <1>1, <1>3, <1>10, <1>11, <1>12, ByteWritten
<1>14. Spotted(G, e)'
  <2>1. CASE strlen = 1
    <3>1. h.at = At' /\ NextFlag
      <4>1. n - j = 1 /\ n \in Nat /\ g.at \in Nat /\ h.at = g.at + n
        BY <1>7, <1>8, <2>1
      <4>2. NextFlag
        BY <1>3, <2>1
      <4>3. h.at = At + 1
        BY ONLY <1>9, <4>1
      <4>4. QED
        BY <1>13, <4>2, <4>3
    <3>2. bufout[g.head] \in Nat
      <4>1. g # e
        BY <1>2, <1>7, <1>8 DEF Packed
      <4>2. QED
        BY <1>1, <1>2, <4>1, UnitFollows
    <3>3. y' = h.off /\ flags' = (bufout[g.head] \div Masks[g.place]) \div 2
      BY <1>3, <1>7
    <3>4. QED
      BY <1>1, <1>7, <1>8, <3>1, <3>2, <3>3, NextUnit
  <2>2. CASE strlen # 1
    <3>1. pc' = "string" /\ cnt2' = cnt2
      BY <1>3, <2>2
    <3>2. At' - g.at = j + 1 /\ j + 1 \in 0 .. n - 1 /\ strlen' = n - (j + 1)
      <4>1. n - j # 1 /\ n \in Nat /\ g.at \in Nat /\ j \in 0 .. n - 1
        BY <1>7, <1>8, <2>2
      <4>2. strlen' = n - j - 1 /\ At' = At + 1
        BY <1>3, <1>7, <1>13
      <4>3. QED
        BY ONLY <1>9, <4>1, <4>2
    <3>3. strptr' = Pos(m + (j + 1))
      <4>1. m + (j + 1) = m + j + 1
        BY <1>8, <1>9
      <4>2. QED
        BY <1>12, <4>1
    <3>4. Pair(bufout', Text', g, h, m, n)
      BY <1>1, <1>2, <1>7, StillPacked
    <3>5. InString(g, h, m, n)'
      BY <1>1, <1>3, <1>7, <3>1, <3>2, <3>3, <3>4 DEF InString
    <3>6. (\E a, b \in G : \E k, z : InString(a, b, k, z))'
      BY <3>5
    <3>7. QED
      BY <3>1, <3>6 DEF Spotted
  <2>3. QED
    BY <2>1, <2>2
<1>15. (\E H, f : Packed(H, f) /\ Spotted(H, f))'
  BY <1>1, <1>2, <1>14, StillPacked
<1>16. x' = Len(bufout') - y' /\ pc' \notin Coding
  BY <1>1, <1>3 DEF Coding, NextFlag
<1>. QED
  BY <1>1, <1>13, <1>15, <1>16 DEF Reads

(* The end: all of the input has arrived.                                   *)
LEMMA DecodeDoneReads ==
  ASSUME Control, Reads, Memory, DecodeDone
  PROVE  Reads' /\ Memory'
<1>0. LzssDecodeVram
  BY DEF LzssDecodeVram
<1>1. /\ UNCHANGED <<bufin, bufout, bfin>> /\ bufout \in Seq(Nat) /\ Len(bufout) \in Nat
      /\ x = Len(bufout) - y
  BY <1>0, Reading
<1>2. PICK G, e : Packed(G, e) /\ Spotted(G, e)
  BY <1>0, Reading
<1>3. pc \in {"flags", "unit"} /\ x = 0 /\ pc' = "done" /\ UNCHANGED <<readVars, copyVars, outVars>>
  BY DEF DecodeDone, decVars
<1>4. At' = At /\ Memory' /\ x' = x /\ y' = y
  BY <1>1, <1>3 DEF Memory, At, readVars, copyVars, outVars, TextAt
<1>5. At = bfin
  <2>1. CASE pc = "flags"
    <3>1. PICK g \in G : AtGroup(g)
      BY <1>2, <2>1 DEF Spotted
    <3>2. /\ g \in Spots /\ g.place = 1 /\ g.at = At /\ g.off = y /\ y \in Nat
          /\ e.off = Len(bufout) /\ e.at = bfin
      BY <1>2, <3>1 DEF AtGroup, Packed, Chain, Spots
    <3>3. g = e
      <4>1. y = Len(bufout) /\ ByteOf(g) = y + 2
        BY <1>1, <1>3, <3>2 DEF ByteOf
      <4>2. ~(ByteOf(g) \in 1 .. Len(bufout))
        BY <1>1, <4>1
      <4>3. QED
        BY <1>1, <1>2, <4>2, UnitFollows
    <3>4. QED
      BY <3>2, <3>3
  <2>2. CASE pc = "unit"
    <3>1. PICK g \in G : AtUnit(g, e)
      BY <1>2, <2>2 DEF Spotted
    <3>2. QED
      BY <1>1, <1>2, <1>3, <3>1, UnitRead
  <2>3. QED
    BY <1>3, <2>1, <2>2
<1>6. Spotted(G, e)'
  BY <1>1, <1>3, <1>4, <1>5 DEF Spotted
<1>7. (\E H, f : Packed(H, f) /\ Spotted(H, f))'
  BY <1>1, <1>2, <1>6, StillPacked
<1>. QED
  BY <1>1, <1>3, <1>4, <1>7 DEF Reads, Coding

(* The compressor does not touch the console, and leaves it a chain.        *)
LEMMA CompressReads ==
  ASSUME Control, Codes, Reads, Memory, Compress
  PROVE  Reads' /\ Memory'
<1>1. /\ pc \in Coding /\ bufin' = bufin /\ UNCHANGED <<y, copyVars, outVars>>
      /\ Finish \/ (pc' \in Coding /\ x' = x)
  BY DEF Compress, InsertFirst, Descend, SendUnit, BeginDelete, WalkRight, ShiftIn, ShiftOut,
     Finish, InsertNode, Found, Coding, inVars, decVars, readVars
<1>2. At' = At /\ Memory' /\ y' = y
  BY <1>1 DEF Memory, At, copyVars, outVars, TextAt
<1>3. At = 0 /\ x = 0 /\ y = 0
  BY <1>1 DEF Reads
<1>4. CASE pc' \in Coding /\ x' = x
  BY <1>2, <1>3, <1>4 DEF Reads
<1>5. CASE Finish
  <2>1. pc' = "flags" /\ x' = Len(bufout')
    BY <1>5 DEF Finish
  <2>2. bufout' \in Seq(Nat) /\ (\E G, e : Packed(G, e))'
    BY <1>5, FinishPacks
  <2>3. PICK G, e : Packed(G, e)'
    BY <2>2
  <2>4. First \in G /\ First.at = 0 /\ First.off = 0 /\ First.place = 1
    BY <2>3 DEF Packed, Chain, First
  <2>5. AtGroup(First)'
    BY <1>2, <1>3, <2>4 DEF AtGroup
  <2>6. (\E g \in G : AtGroup(g))'
    BY <2>4, <2>5
  <2>7. Spotted(G, e)'
    BY <2>1, <2>6 DEF Spotted
  <2>8. (\E H, f : Packed(H, f) /\ Spotted(H, f))'
    BY <2>3, <2>7
  <2>9. x' = Len(bufout') - y'
    <3>1. Len(bufout') \in Nat
      BY <2>2, LenProperties
    <3>2. QED
      BY <1>2, <1>3, <2>1, <3>1
  <2>10. QED
    BY <1>2, <2>1, <2>2, <2>8, <2>9 DEF Reads, Coding
<1>. QED
  BY <1>1, <1>4, <1>5

(* What is compressed, sent and read.                                       *)
Transmits == Searches /\ Codes /\ Memory /\ Reads

(* Each step of either program keeps it.                                    *)
LEMMA TransmitSteps ==
  ASSUME Transmits, [Next]_vars
  PROVE  Transmits'
<1>1. Searches /\ Control /\ Codes /\ Memory /\ Reads
  BY DEF Transmits, Searches
<1>2. Searches'
  BY <1>1, SearchSteps
<1>3. CASE Compress
  BY <1>1, <1>2, <1>3, CodesSteps, CompressReads DEF Transmits
<1>4. CASE LzssDecodeVram
  <2>1. Reads' /\ Memory'
    BY <1>1, <1>4, ReadFlagsReads, CopyByteReads, ReadPairReads, CopyStringReads,
       DecodeDoneReads DEF LzssDecodeVram
  <2>2. pc' \in {"flags", "unit", "string", "done"}
    BY <1>4 DEF LzssDecodeVram, ReadFlags, CopyByte, ReadPair, CopyString, DecodeDone, NextFlag
  <2>3. Codes'
    BY <2>2 DEF Codes
  <2>4. QED
    BY <1>2, <2>1, <2>3 DEF Transmits
<1>5. CASE UNCHANGED vars
  <2>1. UNCHANGED <<pc, todo, bufin, bfin, len, bufout, codeBuf, mask>>
    BY <1>5 DEF vars, inVars, ringVars, codeVars
  <2>2. UNCHANGED <<x, y, flags, cnt2, strptr, strlen, offs, ring, flip, vmadd, vram>>
    BY <1>5 DEF vars, decVars, readVars, copyVars, outVars
  <2>3. Codes'
    <3>1. CASE pc \in Coding
      <4>1. Reached' = Reached
        BY <2>1 DEF Reached, Sent
      <4>2. QED
        BY <1>1, <2>1, <3>1, <4>1, SendsNothing DEF Coding, codeVars
    <3>2. CASE pc \notin Coding
      BY <2>1, <3>2 DEF Codes, Coding
    <3>3. QED
      BY <3>1, <3>2
  <2>4. Memory'
    BY <1>1, <2>1, <2>2 DEF Memory, At, TextAt
  <2>5. Reads'
    <3>1. At' = At
      BY <2>2 DEF At
    <3>2. CASE pc \in Coding
      BY <1>1, <2>1, <2>2, <3>1, <3>2 DEF Reads
    <3>3. CASE pc \notin Coding
      <4>1. PICK G, e : Packed(G, e) /\ Spotted(G, e)
        BY <1>1, <3>3 DEF Reads
      <4>2. Packed(G, e)' /\ Text' = Text
        BY <2>1, <4>1, StillPacked
      <4>3. Spotted(G, e)'
        BY <2>1, <2>2, <3>1, <4>1, <4>2 DEF Spotted, AtGroup, AtUnit, InString
      <4>4. (\E H, f : Packed(H, f) /\ Spotted(H, f))'
        BY <4>2, <4>3
      <4>5. QED
        BY <1>1, <2>1, <2>2, <3>3, <4>4 DEF Reads
    <3>4. QED
      BY <3>2, <3>3
  <2>6. QED
    BY <1>2, <2>3, <2>4, <2>5 DEF Transmits
<1>. QED
  BY <1>3, <1>4, <1>5 DEF Next

(* What is sent is a chain of units that stand for the input, and the       *)
(* console has written what those stand for that it has read.               *)
THEOREM AlwaysTransmits == Spec => []Transmits
<1>1. Init => Transmits
  <2>1. SUFFICES ASSUME Init PROVE Transmits
    OBVIOUS
  <2>2. Searches
    BY <2>1, RingBegins, SearchBegins DEF Searches
  <2>3. Codes
    BY <2>1, CodesBegin
  <2>4. Memory /\ At = 0 /\ x = 0 /\ y = 0 /\ pc = "next"
    BY <2>1, MemoryBegins DEF Init
  <2>5. Reads
    BY <2>4 DEF Reads, Coding
  <2>6. QED
    BY <2>2, <2>3, <2>4, <2>5 DEF Transmits
<1>2. Transmits /\ [Next]_vars => Transmits'
  BY TransmitSteps
<1>. QED
  BY <1>1, <1>2, PTL DEF Spec

(* What arrives in VRAM is the input, but for spaces copied from the first  *)
(* contents of the ring: Decoded holds always.                              *)
THEOREM InputArrives == Spec => []Decoded
<1>1. ASSUME Transmits, pc = "done", NEW i \in 0 .. buflen - 1
      PROVE  vram[i] = bufin[i + 1] \/ (bufin[i + 1] = Space /\ vram[i] = 0)
  <2>1. Control /\ Memory /\ Reads
    BY <1>1 DEF Transmits, Searches
  <2>2. buflen \in Nat /\ bfin \in Int /\ bfin >= buflen
    BY <1>1, <2>1, Sizes DEF Control
  <2>3. At = bfin
    BY <1>1, <2>1 DEF Reads, Coding, Spotted
  <2>4. i \in 0 .. At - 1 /\ ~(i < 0)
    BY <2>2, <2>3
  <2>5. Alike(vram[i], bufin[i + 1])
    BY <2>1, <2>4 DEF Memory, TextAt
  <2>6. QED
    BY <2>5 DEF Alike
<1>2. Transmits => Decoded
  BY <1>1 DEF Decoded
<1>. QED
  BY <1>2, AlwaysTransmits, PTL

(* The console never reads more than was sent.                              *)
LEMMA BytesLeft ==
  ASSUME Control, Reads, pc \notin Coding
  PROVE  x \in 0 .. Len(bufout)
<1>1. bufout \in Seq(Nat) /\ Len(bufout) \in Nat /\ x = Len(bufout) - y
  BY LenProperties DEF Reads
<1>2. PICK G, e : Packed(G, e) /\ Spotted(G, e)
  BY DEF Reads
<1>3. /\ G \subseteq Spots /\ e.off = Len(bufout)
      /\ \A g \in G : g.off \in Nat /\ g.off <= Len(bufout)
  BY <1>2 DEF Packed, Chain, Spots
<1>4. CASE pc = "flags"
  <2>1. PICK g \in G : AtGroup(g)
    BY <1>2, <1>4 DEF Spotted
  <2>2. QED
    BY <1>1, <1>3, <2>1 DEF AtGroup
<1>5. CASE pc = "unit"
  <2>1. PICK g \in G : AtUnit(g, e)
    BY <1>2, <1>5 DEF Spotted
  <2>2. ByteOf(g) - 1 \in 0 .. Len(bufout)
    <3>1. CASE g = e
      <4>1. g.place # 1
        BY <2>1, <3>1 DEF AtUnit
      <4>2. ByteOf(g) = g.off + 1
        BY <4>1 DEF ByteOf
      <4>3. QED
        BY <1>1, <1>3, <3>1, <4>2
    <3>2. CASE g # e
      <4>1. ByteOf(g) \in 1 .. Len(bufout)
        BY <1>1, <1>2, <3>2, UnitFollows
      <4>2. QED
        BY <1>1, <4>1
    <3>3. QED
      BY <3>1, <3>2
  <2>3. QED
    BY <1>1, <2>1, <2>2 DEF AtUnit
<1>6. CASE pc = "string"
  <2>1. PICK g \in G, h \in G : \E m, n : InString(g, h, m, n)
    BY <1>2, <1>6 DEF Spotted
  <2>2. y = h.off
    BY <2>1 DEF InString
  <2>3. QED
    BY <1>1, <1>3, <2>2
<1>7. CASE pc = "done"
  BY <1>1, <1>2, <1>7 DEF Spotted
<1>. QED
  BY <1>4, <1>5, <1>6, <1>7 DEF Control, Coding

(* The compressor and the console keep their types: no index leaves the     *)
(* ring, the trees, VRAM or what was sent.                                  *)
THEOREM TypesLzss == Spec => []LzssTypeOK
<1>1. Transmits => LzssTypeOK
  <2>1. SUFFICES ASSUME Transmits PROVE LzssTypeOK
    OBVIOUS
  <2>2. Control /\ Written /\ Trees /\ Matched /\ Memory
    BY <2>1 DEF Transmits, Searches
  <2>3. bfin \in Int /\ len \in Int
    BY <2>2 DEF Control
  <2>4. s \in Node /\ r \in Node
    <3>1. Sent \in Int /\ Sent + F \in Int
      BY <2>3, Sizes DEF Sent
    <3>2. QED
      BY <2>2, <3>1, Cells DEF Control
  <2>5. offs \in Node
    <3>1. At \in Int
      BY <2>2 DEF Memory, At
    <3>2. QED
      BY <2>2, <3>1, Cells DEF Memory
  <2>6. DOMAIN textBuf = 0 .. N + F - 2
    BY <2>2 DEF Written, Buffers
  <2>7. DOMAIN tree.lson = 0 .. N /\ DOMAIN tree.dad = 0 .. N /\ last \in 0 .. N
    BY <2>2 DEF Trees, Arrays
  <2>8. x \in 0 .. Len(bufout)
    <3>1. CASE pc \in Coding
      <4>1. x = 0 /\ Codes
        BY <2>1, <3>1 DEF Transmits, Reads
      <4>2. Len(bufout) \in Nat
        BY <3>1, <4>1, LenProperties DEF Codes, Coding
      <4>3. QED
        BY <4>1, <4>2
    <3>2. CASE pc \notin Coding
      <4>1. Reads
        BY <2>1 DEF Transmits
      <4>2. Control
        BY <2>2
      <4>3. QED
        BY <3>2, <4>1, <4>2, BytesLeft
    <3>3. QED
      BY <3>1, <3>2
  <2>9. QED
    BY <2>2, <2>4, <2>5, <2>6, <2>7, <2>8 DEF LzssTypeOK, Control, Matched, Memory
<1>. QED
  BY <1>1, AlwaysTransmits, PTL
=============================================================================
