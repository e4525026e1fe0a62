---------------------------- MODULE ScreenProofs ----------------------------
(* What the picture processor shows: the sprites as the calls placed them,  *)
(* the texts whole, and the graphics that were uploaded, until an interrupt *)
(* tears a copy that has not waited for it, for every size of its memories  *)
(* and of the map, and every set of texts, positions and tiles.             *)
EXTENDS VBlankProofs

-----------------------------------------------------------------------------
(* Sprites.                                                                 *)

(* The fields of a sprite, and what each can hold.                          *)
Fields == {"x", "y", "x9", "size", "tile", "ninth", "flip"}

FieldValues ==
  [x |-> 0 .. 255, y |-> 0 .. 255, x9 |-> 0 .. 1, size |-> 0 .. 1,
   tile |-> 0 .. 255, ninth |-> 0 .. 1, flip |-> SUBSET {"h", "v"}]

(* What a store to oamMemory can change of a sprite.                        *)
IsUpdate(u) == DOMAIN u \subseteq Fields /\ \A f \in DOMAIN u : u[f] \in FieldValues[f]

(* The records of such fields: what calls store, and what they promise.     *)
AnyValue == UNION {FieldValues[f] : f \in Fields}

Updates == {u \in UNION {[D -> AnyValue] : D \in SUBSET Fields} : IsUpdate(u)}

(* The stores of the sprite functions.                                      *)
SpriteStores == {"oam"} \X Sprites \X Updates

(* A record of fields in their ranges is an update, whatever its fields are.*)
LEMMA UpdateMembers ==
  /\ \A u \in Updates : IsUpdate(u) /\ u = [f \in DOMAIN u |-> u[f]]
  /\ \A D \in SUBSET Fields : \A u :
       DOMAIN u = D /\ IsUpdate(u) /\ u = [f \in D |-> u[f]] => u \in Updates
<1>1. ASSUME NEW u \in Updates PROVE IsUpdate(u) /\ u = [f \in DOMAIN u |-> u[f]]
  BY DEF Updates
<1>2. ASSUME NEW D \in SUBSET Fields, NEW u, DOMAIN u = D, IsUpdate(u), u = [f \in D |-> u[f]]
      PROVE u \in Updates
  <2>1. \A f \in D : u[f] \in AnyValue
    BY <1>2 DEF AnyValue, IsUpdate
  <2>2. u \in [D -> AnyValue]
    BY <1>2, <2>1
  <2>3. QED
    BY <1>2, <2>2 DEF Updates
<1>3. QED
  BY <1>1, <1>2

(* A sprite is an update of all fields, and conversely.                     *)
LEMMA CellMembers ==
  /\ \A c \in SpriteCell : c \in Updates /\ DOMAIN c = Fields
  /\ \A u \in Updates : DOMAIN u = Fields => u \in SpriteCell
<1>. DEFINE B == 0 .. 255
            O == 0 .. 1
            P == SUBSET {"h", "v"}
<1>. HIDE DEF B, O, P
<1>1. /\ SpriteCell = [x : B, y : B, x9 : O, size : O, tile : B, ninth : O, flip : P]
      /\ FieldValues = [x |-> B, y |-> B, x9 |-> O, size |-> O, tile |-> B,
                        ninth |-> O, flip |-> P]
  BY DEF SpriteCell, FieldValues, B, O, P
<1>2. ASSUME NEW c \in SpriteCell PROVE c \in Updates /\ DOMAIN c = Fields
  <2>1. DOMAIN c = Fields /\ IsUpdate(c) /\ c = [f \in Fields |-> c[f]]
    BY <1>1 DEF Fields, IsUpdate
  <2>2. QED
    BY <2>1, UpdateMembers
<1>3. ASSUME NEW u \in Updates, DOMAIN u = Fields PROVE u \in SpriteCell
  <2>1. IsUpdate(u) /\ u = [f \in Fields |-> u[f]]
    BY <1>3, UpdateMembers
  <2>2. QED
    BY <1>1, <2>1 DEF Fields, IsUpdate
<1>4. QED
  BY <1>2, <1>3

(* The fields of one update over another.                                   *)
LEMMA OverFields ==
  ASSUME NEW u \in Updates, NEW w \in Updates
  PROVE  /\ Over(u, w) \in Updates /\ DOMAIN Over(u, w) = DOMAIN u \union DOMAIN w
         /\ \A f \in DOMAIN u : Over(u, w)[f] = u[f]
         /\ \A f \in DOMAIN w \ DOMAIN u : Over(u, w)[f] = w[f]
<1>. DEFINE o == Over(u, w)
<1>1. /\ DOMAIN o = DOMAIN u \union DOMAIN w
      /\ \A f \in DOMAIN u : o[f] = u[f]
      /\ \A f \in DOMAIN w \ DOMAIN u : o[f] = w[f]
      /\ o = [f \in DOMAIN o |-> o[f]]
  BY DEF Over
<1>. HIDE DEF o
<1>2. IsUpdate(o)
  BY <1>1, UpdateMembers DEF IsUpdate
<1>3. o \in Updates
  BY <1>1, <1>2, UpdateMembers DEF IsUpdate
<1>4. QED
  BY <1>1, <1>3 DEF o

(* The fields of an update over a sprite.                                   *)
LEMMA OverCell ==
  ASSUME NEW u \in Updates, NEW c \in SpriteCell
  PROVE  /\ Over(u, c) \in SpriteCell
         /\ \A f \in Fields : Over(u, c)[f] = IF f \in DOMAIN u THEN u[f] ELSE c[f]
<1>1. c \in Updates /\ DOMAIN c = Fields /\ DOMAIN u \subseteq Fields
  BY CellMembers, UpdateMembers DEF IsUpdate
<1>2. /\ Over(u, c) \in Updates /\ DOMAIN Over(u, c) = Fields
      /\ \A f \in DOMAIN u : Over(u, c)[f] = u[f]
      /\ \A f \in Fields \ DOMAIN u : Over(u, c)[f] = c[f]
  BY <1>1, OverFields
<1>3. QED
  BY <1>2, CellMembers

(* Sprites are equal if their fields are.                                   *)
LEMMA SameCell ==
  ASSUME NEW c \in SpriteCell, NEW d \in SpriteCell, \A f \in Fields : c[f] = d[f]
  PROVE  c = d
<1>1. /\ DOMAIN c = Fields /\ c = [f \in Fields |-> c[f]]
      /\ DOMAIN d = Fields /\ d = [f \in Fields |-> d[f]]
  BY CellMembers, UpdateMembers
<1>2. QED
  BY <1>1

(* A run of stores to sprite i that leaves it with these fields: every      *)
(* field's last store has the value.                                        *)
Makes(s, i, fields) ==
  /\ s \in Seq(SpriteStores) /\ fields \in Updates /\ s # <<>>
  /\ \A k \in 1 .. Len(s) : s[k][2] = i /\ DOMAIN s[k][3] \subseteq DOMAIN fields
  /\ \A f \in DOMAIN fields :
       \E k \in 1 .. Len(s) :
         /\ f \in DOMAIN s[k][3] /\ s[k][3][f] = fields[f]
         /\ \A m \in k + 1 .. Len(s) : f \notin DOMAIN s[m][3]

(* One store makes the fields it stores.                                    *)
LEMMA OneStore ==
  ASSUME NEW i \in Sprites, NEW u \in Updates
  PROVE  Makes(Oam(i, u), i, u)
<1>1. Oam(i, u) \in Seq(SpriteStores) /\ Oam(i, u) # <<>>
  BY DEF Oam, SpriteStores
<1>2. Len(Oam(i, u)) = 1 /\ Oam(i, u)[1][2] = i /\ Oam(i, u)[1][3] = u
  BY DEF Oam
<1>3. QED
  BY <1>1, <1>2 DEF Makes

(* A run of stores after another makes its fields over those of the other.  *)
LEMMA MoreStores ==
  ASSUME NEW i, NEW s, NEW a, NEW t, NEW b, Makes(s, i, a), Makes(t, i, b)
  PROVE  Makes(s \o t, i, Over(b, a))
<1>. DEFINE st == s \o t
            o == Over(b, a)
<1>1. s \in Seq(SpriteStores) /\ t \in Seq(SpriteStores) /\ a \in Updates /\ b \in Updates
  BY DEF Makes
<1>2. /\ st \in Seq(SpriteStores) /\ Len(st) = Len(s) + Len(t)
      /\ \A k \in 1 .. Len(s) : st[k] = s[k]
      /\ \A k \in 1 .. Len(t) : st[Len(s) + k] = t[k]
      /\ Len(s) \in Nat /\ Len(t) \in Nat
  BY <1>1
<1>3. /\ o \in Updates /\ DOMAIN o = DOMAIN b \union DOMAIN a
      /\ \A f \in DOMAIN b : o[f] = b[f]
      /\ \A f \in DOMAIN a \ DOMAIN b : o[f] = a[f]
  BY <1>1, OverFields
<1>. HIDE DEF st, o
<1>4. ASSUME NEW k \in 1 .. Len(st)
      PROVE  st[k][2] = i /\ DOMAIN st[k][3] \subseteq DOMAIN o
  <2>1. CASE k \in 1 .. Len(s)
    BY <1>2, <1>3, <2>1, SMTT(60) DEF Makes
  <2>2. CASE k \notin 1 .. Len(s)
    <3>1. PICK j \in 1 .. Len(t) : k = Len(s) + j
      <4>1. k - Len(s) \in 1 .. Len(t) /\ k = Len(s) + (k - Len(s))
        BY <1>2, <2>2
      <4>2. QED
        BY <4>1
    <3>2. QED
      BY <1>2, <1>3, <3>1 DEF Makes
  <2>3. QED
    BY <2>1, <2>2
<1>5. ASSUME NEW f \in DOMAIN o
      PROVE  \E k \in 1 .. Len(st) :
               /\ f \in DOMAIN st[k][3] /\ st[k][3][f] = o[f]
               /\ \A m \in k + 1 .. Len(st) : f \notin DOMAIN st[m][3]
  <2>1. CASE f \in DOMAIN b
    <3>1. PICK j \in 1 .. Len(t) :
            /\ f \in DOMAIN t[j][3] /\ t[j][3][f] = b[f]
            /\ \A m \in j + 1 .. Len(t) : f \notin DOMAIN t[m][3]
      BY <2>1 DEF Makes
    <3>2. Len(s) + j \in 1 .. Len(st) /\ st[Len(s) + j] = t[j]
      BY <1>2
    <3>3. ASSUME NEW m \in Len(s) + j + 1 .. Len(st) PROVE f \notin DOMAIN st[m][3]
      <4>1. m - Len(s) \in j + 1 .. Len(t) /\ m = Len(s) + (m - Len(s))
            /\ m - Len(s) \in 1 .. Len(t)
        BY <1>2
      <4>2. st[m] = t[m - Len(s)]
        BY <1>2, <4>1
      <4>3. QED
        BY <3>1, <4>1, <4>2
    <3>4. QED
      BY <1>3, <2>1, <3>1, <3>2, <3>3
  <2>2. CASE f \notin DOMAIN b
    <3>1. f \in DOMAIN a
      BY <1>3, <2>2
    <3>2. PICK j \in 1 .. Len(s) :
            /\ f \in DOMAIN s[j][3] /\ s[j][3][f] = a[f]
            /\ \A m \in j + 1 .. Len(s) : f \notin DOMAIN s[m][3]
      BY <3>1 DEF Makes
    <3>3. j \in 1 .. Len(st) /\ st[j] = s[j]
      BY <1>2
    <3>4. ASSUME NEW m \in j + 1 .. Len(st) PROVE f \notin DOMAIN st[m][3]
      <4>1. CASE m \in 1 .. Len(s)
        BY <1>2, <3>2, <4>1
      <4>2. CASE m \notin 1 .. Len(s)
        <5>1. m - Len(s) \in 1 .. Len(t) /\ m = Len(s) + (m - Len(s))
          BY <1>2, <4>2
        <5>2. st[m] = t[m - Len(s)]
          BY <1>2, <5>1
        <5>3. QED
          BY <2>2, <5>1, <5>2 DEF Makes
      <4>3. QED
        BY <4>1, <4>2
    <3>5. QED
      BY <1>3, <2>2, <3>1, <3>2, <3>3, <3>4
  <2>3. QED
    BY <2>1, <2>2
<1>6. st # <<>>
  BY <1>2 DEF Makes
<1>7. QED
  BY <1>2, <1>3, <1>4, <1>5, <1>6 DEF Makes, st, o

(* Updates of the same fields with the same values are equal.               *)
LEMMA SameUpdate ==
  ASSUME NEW u \in Updates, NEW w \in Updates, DOMAIN u = DOMAIN w,
         \A f \in DOMAIN u : u[f] = w[f]
  PROVE  u = w
<1>1. u = [f \in DOMAIN u |-> u[f]] /\ w = [f \in DOMAIN w |-> w[f]]
  BY UpdateMembers
<1>2. QED
  BY <1>1

(* The fields calls store are in range.                                     *)
LEMMA ScreenNumbers ==
  /\ \A p \in Positions : /\ p.x % 256 \in 0 .. 255 /\ p.y \in 0 .. 255
                          /\ (p.x \div 256) % 2 = IF p.x > 255 THEN 1 ELSE 0
                          /\ p.x \div 256 = IF p.x > 255 THEN 1 ELSE 0
  /\ \A g \in Offsets : g % 256 \in 0 .. 255 /\ g \div 256 \in 0 .. 1
  /\ 1 \in 0 .. 255 /\ 240 \in 0 .. 255
<1>1. \A n \in 0 .. 511 : /\ n % 256 \in 0 .. 255 /\ n \div 256 \in 0 .. 1
                          /\ (n \div 256) % 2 = IF n > 255 THEN 1 ELSE 0
                          /\ n \div 256 = IF n > 255 THEN 1 ELSE 0
  OBVIOUS
<1>2. \A n \in 0 .. 239 : n \in 0 .. 255
  OBVIOUS
<1>3. 1 \in 0 .. 255 /\ 240 \in 0 .. 255
  OBVIOUS
<1>. DEFINE X == 0 .. 511
            Y == 0 .. 239
            B == 0 .. 255
<1>4. \A p \in Positions : p.x \in X /\ p.y \in Y
  <2>. HIDE DEF X, Y
  <2>1. Positions \subseteq [x : X, y : Y]
    BY VBlankAssumption DEF VBlankAssumption, X, Y
  <2>2. QED
    BY <2>1
<1>5. Offsets \subseteq X
  BY VBlankAssumption DEF VBlankAssumption
<1>. HIDE DEF X, Y
<1>6. QED
  BY <1>1, <1>2, <1>3, <1>4, <1>5, SMTT(60) DEF X, Y

(* The records of a single field.                                           *)
LEMMA UpdateRecords ==
  /\ \A v \in 0 .. 255 : [x |-> v] \in Updates /\ [y |-> v] \in Updates
  /\ \A v \in 0 .. 255 : [tile |-> v] \in Updates
  /\ \A v \in 0 .. 1 : [x9 |-> v] \in Updates /\ [size |-> v] \in Updates
  /\ \A v \in 0 .. 1 : [ninth |-> v] \in Updates
  /\ \A v \in SUBSET {"h", "v"} : [flip |-> v] \in Updates
<1>. DEFINE B == 0 .. 255
            O == 0 .. 1
            P == SUBSET {"h", "v"}
<1>. HIDE DEF B, O, P
<1>2. FieldValues = [x |-> B, y |-> B, x9 |-> O, size |-> O, tile |-> B,
                     ninth |-> O, flip |-> P]
  BY DEF FieldValues, B, O, P
<1>3. ASSUME NEW u, DOMAIN u \subseteq Fields, IsUpdate(u), u = [f \in DOMAIN u |-> u[f]]
      PROVE  u \in Updates
  BY <1>3, UpdateMembers
<1>. USE <1>2, <1>3 DEF IsUpdate, Fields
<1>4. ASSUME NEW v \in B PROVE [x |-> v] \in Updates
  OBVIOUS
<1>5. ASSUME NEW v \in B PROVE [y |-> v] \in Updates
  OBVIOUS
<1>6. ASSUME NEW v \in B PROVE [tile |-> v] \in Updates
  OBVIOUS
<1>7. ASSUME NEW v \in O PROVE [x9 |-> v] \in Updates
  OBVIOUS
<1>8. ASSUME NEW v \in O PROVE [size |-> v] \in Updates
  OBVIOUS
<1>9. ASSUME NEW v \in O PROVE [ninth |-> v] \in Updates
  OBVIOUS
<1>10. ASSUME NEW v \in P PROVE [flip |-> v] \in Updates
  OBVIOUS
<1>11. QED
  BY ONLY <1>4, <1>5, <1>6, <1>7, <1>8, <1>9, <1>10 DEF B, O, P

(* Fields put together.                                                     *)
LEMMA Joined ==
  ASSUME NEW u \in Updates, NEW w \in Updates, NEW c,
         c = [f \in DOMAIN u \union DOMAIN w |-> c[f]],
         \A f \in DOMAIN w : c[f] = w[f],
         \A f \in DOMAIN u \ DOMAIN w : c[f] = u[f]
  PROVE  c \in Updates
<1>1. IsUpdate(u) /\ IsUpdate(w)
  BY UpdateMembers
<1>. DEFINE D == DOMAIN u \union DOMAIN w
<1>. HIDE DEF D
<1>2. DOMAIN c = D /\ c = [f \in D |-> c[f]]
  BY DEF D
<1>3. D \in SUBSET Fields /\ IsUpdate(c)
  BY <1>1, <1>2 DEF IsUpdate, D
<1>4. QED
  BY <1>2, <1>3, UpdateMembers

(* Two runs of stores to a sprite, one after the other.                     *)
LEMMA StoresFollow ==
  ASSUME NEW i, NEW s, NEW a, NEW t, NEW b, NEW c,
         Makes(s, i, a), Makes(t, i, b),
         c = [f \in DOMAIN a \union DOMAIN b |-> c[f]],
         \A f \in DOMAIN b : c[f] = b[f],
         \A f \in DOMAIN a \ DOMAIN b : c[f] = a[f]
  PROVE  Makes(s \o t, i, c)
<1>1. a \in Updates /\ b \in Updates
  BY DEF Makes
<1>2. /\ Over(b, a) \in Updates /\ DOMAIN Over(b, a) = DOMAIN b \union DOMAIN a
      /\ \A f \in DOMAIN b : Over(b, a)[f] = b[f]
      /\ \A f \in DOMAIN a \ DOMAIN b : Over(b, a)[f] = a[f]
  BY <1>1, OverFields
<1>3. c \in Updates
  BY <1>1, Joined
<1>4. Over(b, a) = c
  <2>. DEFINE o == Over(b, a)
  <2>. HIDE DEF o
  <2>1. DOMAIN c = DOMAIN a \union DOMAIN b
    OBVIOUS
  <2>2. o \in Updates /\ DOMAIN o = DOMAIN c /\ \A f \in DOMAIN o : o[f] = c[f]
    BY <1>2, <2>1 DEF o
  <2>3. o = c
    BY <1>3, <2>2, SameUpdate
  <2>4. QED
    BY <2>3 DEF o
<1>5. QED
  BY <1>4, MoreStores

(* Fields c are those of b, and those of a that b does not have.            *)
Joins(a, b, c) ==
  /\ c = [f \in DOMAIN a \union DOMAIN b |-> c[f]]
  /\ \A f \in DOMAIN b : c[f] = b[f]
  /\ \A f \in DOMAIN a \ DOMAIN b : c[f] = a[f]

(* Two runs of stores make the fields of both put together.                 *)
LEMMA JoinedStores ==
  ASSUME NEW i, NEW s, NEW a, NEW t, NEW b, NEW c,
         Makes(s, i, a), Makes(t, i, b), Joins(a, b, c)
  PROVE  Makes(s \o t, i, c)
  BY StoresFollow DEF Joins

(* oamSetXY and oamSetXYEx leave a sprite at its place.                     *)
LEMMA Placing ==
  ASSUME NEW i \in Sprites, NEW p \in Positions
  PROVE  /\ Makes(oamSetXY(i, p), i, At(p))
         /\ Makes(oamSetXYEx(i, p), i, At(p))
<1>. DEFINE X == p.x % 256
            Y == p.y
            H == IF p.x > 255 THEN 1 ELSE 0
            x == [x |-> X]
            xy == [x |-> X, y |-> Y]
            at == [x |-> X, y |-> Y, x9 |-> H]
            at0 == [x |-> X, y |-> Y, x9 |-> 0]
            h == [x9 |-> H]
            h0 == [x9 |-> 0]
            s == oamSetXY(i, p)
<1>1. /\ X \in 0 .. 255 /\ Y \in 0 .. 255 /\ H \in 0 .. 1
      /\ (p.x \div 256) % 2 = H /\ p.x \div 256 = H
  BY ScreenNumbers
<1>2. s = Oam(i, xy) \o Oam(i, h) /\ At(p) = at
  BY <1>1 DEF oamSetXY, At, Low
<1>3. oamSetXYEx(i, p) = (s \o Oam(i, h0)) \o Oam(i, h)
  BY <1>1 DEF oamSetXYEx
<1>. HIDE DEF X, Y, H, s
<1>4. /\ xy \in Updates /\ h \in Updates /\ h0 \in Updates
  <2>1. x \in Updates /\ [y |-> Y] \in Updates /\ h \in Updates /\ h0 \in Updates
    BY <1>1, 0 \in 0 .. 1, UpdateRecords
  <2>2. Joins(x, [y |-> Y], xy)
    BY DEF Joins
  <2>3. xy \in Updates
    <3>. HIDE DEF x, xy
    <3>1. QED
      BY <2>1, <2>2, Joined DEF Joins
  <2>4. QED
    BY <2>1, <2>3
<1>5. Joins(xy, h, at) /\ Joins(at, h0, at0) /\ Joins(at0, h, at)
  BY DEF Joins
<1>. HIDE DEF xy, h, h0, at, at0
<1>6. Makes(Oam(i, xy), i, xy) /\ Makes(Oam(i, h), i, h) /\ Makes(Oam(i, h0), i, h0)
  BY <1>4, OneStore
<1>7. Makes(s, i, at)
  BY <1>2, <1>5, <1>6, JoinedStores
<1>8. Makes(s \o Oam(i, h0), i, at0)
  BY <1>5, <1>6, <1>7, JoinedStores
<1>9. Makes((s \o Oam(i, h0)) \o Oam(i, h), i, at)
  BY <1>5, <1>6, <1>8, JoinedStores
<1>10. QED
  BY <1>2, <1>3, <1>7, <1>9 DEF s

(* oamHide leaves a sprite hidden or not.                                   *)
LEMMA HidingStores ==
  ASSUME NEW i \in Sprites, NEW hide \in {0, 1}
  PROVE  Makes(oamHide(i, hide), i, Hiding(hide))
<1>. DEFINE h0 == [x9 |-> 0]
            a == [x9 |-> 1]
            b == [x |-> 1]
            ab == [x9 |-> 1, x |-> 1]
            c == [y |-> 240]
            abc == [x9 |-> 1, x |-> 1, y |-> 240]
<1>1. /\ oamHide(i, hide) = IF hide = 0 THEN Oam(i, h0)
                            ELSE (Oam(i, a) \o Oam(i, b)) \o Oam(i, c)
      /\ Hiding(hide) = IF hide = 0 THEN h0 ELSE abc
  BY DEF oamHide, Hiding
<1>2. a \in Updates /\ b \in Updates /\ c \in Updates /\ h0 \in Updates
  <2>1. 1 \in 0 .. 255 /\ 240 \in 0 .. 255 /\ 0 \in 0 .. 1 /\ 1 \in 0 .. 1
    OBVIOUS
  <2>2. QED
    BY <2>1, UpdateRecords
<1>3. Joins(a, b, ab) /\ Joins(ab, c, abc)
  BY DEF Joins
<1>. HIDE DEF h0, a, b, ab, c, abc
<1>4. Makes(Oam(i, a), i, a) /\ Makes(Oam(i, b), i, b) /\ Makes(Oam(i, c), i, c)
      /\ Makes(Oam(i, h0), i, h0)
  BY <1>2, OneStore
<1>5. Makes(Oam(i, a) \o Oam(i, b), i, ab)
  BY <1>3, <1>4, JoinedStores
<1>6. Makes((Oam(i, a) \o Oam(i, b)) \o Oam(i, c), i, abc)
  BY <1>3, <1>4, <1>5, JoinedStores
<1>7. QED
  BY <1>1, <1>4, <1>6

(* Fields that both records do not have can be put together in either order.*)
LEMMA OverJoins ==
  ASSUME NEW u, NEW w, DOMAIN u \intersect DOMAIN w = {}
  PROVE  Joins(u, w, Over(u, w)) /\ Joins(w, u, Over(u, w))
  BY DEF Over, Joins

(* oamSetEx leaves a sprite with its size, hidden or not.                   *)
LEMMA Sizing ==
  ASSUME NEW i \in Sprites, NEW size \in {0, 1}, NEW hide \in {0, 1}
  PROVE  Makes(oamSetEx(i, size, hide), i, Over([size |-> size], Hiding(hide)))
<1>. DEFINE z == [size |-> 0]
            o == [size |-> 1]
            u == [size |-> size]
            s == Oam(i, z) \o (IF size = 0 THEN <<>> ELSE Oam(i, o))
            t == oamHide(i, hide)
            w == Hiding(hide)
<1>1. z \in Updates /\ o \in Updates
  BY 0 \in 0 .. 1, 1 \in 0 .. 1, UpdateRecords
<1>2. Joins(z, o, o) /\ u = IF size = 0 THEN z ELSE o
  BY DEF Joins
<1>3. DOMAIN u \intersect DOMAIN w = {}
  BY DEF Hiding
<1>4. oamSetEx(i, size, hide) = s \o t
  BY DEF oamSetEx
<1>. HIDE DEF z, o, u, t, w
<1>5. Makes(s, i, u)
  <2>1. Makes(Oam(i, z), i, z) /\ Makes(Oam(i, o), i, o)
    BY <1>1, OneStore
  <2>2. Makes(Oam(i, z) \o Oam(i, o), i, o)
    BY <1>2, <2>1, JoinedStores
  <2>3. Oam(i, z) \o <<>> = Oam(i, z)
    BY <2>1 DEF Makes
  <2>4. QED
    BY <1>2, <2>1, <2>2, <2>3
<1>6. Makes(t, i, w)
  BY HidingStores DEF t, w
<1>7. Joins(u, w, Over(u, w))
  BY <1>3, OverJoins
<1>. HIDE DEF s
<1>8. Makes(s \o t, i, Over(u, w))
  BY <1>5, <1>6, <1>7, JoinedStores
<1>9. QED
  BY <1>4, <1>8 DEF u, w

(* The calls for a sprite's tile and its flips.                             *)
LEMMA Tiling ==
  ASSUME NEW i \in Dressed, NEW g \in Offsets
  PROVE  Makes(oamSetGfxOffset(i, g), i, Tile(g))
<1>. DEFINE G == g % 256
            N == g \div 256
            t == [tile |-> G]
            n == [ninth |-> N]
<1>1. /\ G \in 0 .. 255 /\ N \in 0 .. 1 /\ i \in Sprites
  BY ScreenNumbers, VBlankAssumption DEF VBlankAssumption
<1>2. oamSetGfxOffset(i, g) = Oam(i, t) \o Oam(i, n)
  BY DEF oamSetGfxOffset
<1>3. Joins(t, n, Tile(g))
  <2>1. Tile(g) = [tile |-> G, ninth |-> N]
    BY DEF Tile
  <2>. HIDE DEF G, N
  <2>2. QED
    BY <2>1 DEF Joins
<1>4. t \in Updates /\ n \in Updates
  BY <1>1, UpdateRecords, ZenonT(60)
<1>. HIDE DEF t, n
<1>5. Makes(Oam(i, t), i, t) /\ Makes(Oam(i, n), i, n)
  BY <1>1, <1>4, OneStore
<1>6. QED
  BY <1>2, <1>3, <1>5, JoinedStores

(* oamFlip leaves a sprite with its flips, through one that has none.       *)
LEMMA Flipping ==
  ASSUME NEW i \in Dressed, NEW flip \in SUBSET {"h", "v"}
  PROVE  Makes(oamFlip(i, flip), i, Turned(flip))
<1>. DEFINE none == [flip |-> {}]
            u == [flip |-> {"h"}]
            f == [flip |-> flip]
<1>1. i \in Sprites
  BY VBlankAssumption DEF VBlankAssumption
<1>2. oamFlip(i, flip) =
        (Oam(i, none) \o (IF "h" \in flip THEN Oam(i, u) ELSE <<>>))
        \o (IF "v" \in flip THEN Oam(i, f) ELSE <<>>)
  BY DEF oamFlip, Turned
<1>3. none \in Updates /\ u \in Updates /\ f \in Updates
  BY {} \in SUBSET {"h", "v"}, {"h"} \in SUBSET {"h", "v"}, UpdateRecords
<1>4. /\ Joins(none, u, u) /\ Joins(none, f, f) /\ Joins(u, f, f)
      /\ flip \in {{}, {"h"}, {"v"}, {"h", "v"}}
  BY DEF Joins
<1>5. flip = {} => f = none
  OBVIOUS
<1>6. flip = {"h"} => f = u
  OBVIOUS
<1>. HIDE DEF none, f, u
<1>7. /\ Makes(Oam(i, none), i, none) /\ Makes(Oam(i, u), i, u)
      /\ Makes(Oam(i, f), i, f)
  BY <1>1, <1>3, OneStore
<1>8. Makes(Oam(i, none) \o Oam(i, u), i, u) /\ Makes(Oam(i, none) \o Oam(i, f), i, f)
  BY <1>4, <1>7, JoinedStores
<1>9. Makes((Oam(i, none) \o Oam(i, u)) \o Oam(i, f), i, f)
  BY <1>4, <1>7, <1>8, JoinedStores
<1>10. /\ Oam(i, none) \o <<>> = Oam(i, none)
       /\ (Oam(i, none) \o Oam(i, u)) \o <<>> = Oam(i, none) \o Oam(i, u)
  BY <1>7, <1>8 DEF Makes
<1>11. Makes(oamFlip(i, flip), i, f)
  <2>1. CASE flip = {}
    BY <1>2, <1>5, <1>7, <1>10, <2>1
  <2>2. CASE flip = {"h"}
    BY <1>2, <1>6, <1>8, <1>10, <2>2
  <2>3. CASE flip = {"v"}
    BY <1>2, <1>8, <1>10, <2>3
  <2>4. CASE flip = {"h", "v"}
    BY <1>2, <1>9, <2>4
  <2>5. QED
    BY <1>4, <2>1, <2>2, <2>3, <2>4
<1>12. QED
  BY <1>11 DEF f, Turned

(* The calls that set where a sprite is and what it shows.                  *)
LEMMA Dressing ==
  ASSUME NEW i \in Dressed, NEW p \in Positions, NEW g \in Offsets,
         NEW flip \in SUBSET {"h", "v"}
  PROVE  /\ Makes(oamSetAttr(i, p, g, flip), i,
                  Over(At(p), Over(Tile(g), Turned(flip))))
         /\ Makes(oamSet(i, p, g, flip), i,
                  Over(Low(p), Over(Tile(g), Turned(flip))))
<1>. DEFINE X == p.x % 256
            Y == p.y
            H == IF p.x > 255 THEN 1 ELSE 0
            G == g % 256
            N == g \div 256
            x == [x |-> X]
            y == [y |-> Y]
            xy == [x |-> X, y |-> Y]
            h == [x9 |-> H]
            t == [tile |-> G]
            n == [ninth |-> N]
            tn == [tile |-> G, ninth |-> N]
            none == [flip |-> {}]
            f == [flip |-> flip]
            nf == [ninth |-> N, flip |-> flip]
            xyt == [x |-> X, y |-> Y, tile |-> G]
            set == [x |-> X, y |-> Y, tile |-> G, ninth |-> N, flip |-> flip]
            tnz == [tile |-> G, ninth |-> N, flip |-> {}]
            xytnz == [x |-> X, y |-> Y, tile |-> G, ninth |-> N, flip |-> {}]
            xyhtnz == [x |-> X, y |-> Y, x9 |-> H, tile |-> G, ninth |-> N, flip |-> {}]
            all == [x |-> X, y |-> Y, x9 |-> H, tile |-> G, ninth |-> N, flip |-> flip]
<1>1. /\ X \in 0 .. 255 /\ Y \in 0 .. 255 /\ H \in 0 .. 1
      /\ (p.x \div 256) % 2 = H
      /\ G \in 0 .. 255 /\ N \in 0 .. 1
  BY ScreenNumbers
<1>2. /\ oamSetAttr(i, p, g, flip) =
           ((Oam(i, xy) \o Oam(i, Over(Tile(g), none))) \o Oam(i, h)) \o Oam(i, f)
      /\ oamSet(i, p, g, flip) =
           ((Oam(i, x) \o Oam(i, y)) \o Oam(i, t)) \o Oam(i, nf)
  BY <1>1, ZenonT(60) DEF oamSetAttr, oamSet, Low, Turned
<1>3. /\ Tile(g) = tn /\ Over(tn, none) = tnz
      /\ Over(Low(p), Over(Tile(g), Turned(flip))) = set
      /\ Over(At(p), Over(Tile(g), Turned(flip))) = all
  <2>1. At(p) = [x |-> X, y |-> Y, x9 |-> H] /\ Tile(g) = tn /\ Low(p) = xy
        /\ Turned(flip) = f
    BY DEF At, Tile, Low, Turned
  <2>. HIDE DEF X, Y, H, G, N
  <2>2. /\ Over(tn, none) = tnz /\ Over(xy, Over(tn, f)) = set
        /\ Over([x |-> X, y |-> Y, x9 |-> H], Over(tn, f)) = all
    BY DEF Over
  <2>3. QED
    BY <2>1, <2>2 DEF X, Y
<1>. HIDE DEF X, Y, H, G, N
<1>4. Joins(x, y, xy) /\ Joins(t, n, tn) /\ Joins(n, f, nf)
  BY DEF Joins
<1>5. Joins(xy, t, xyt) /\ Joins(xyt, nf, set)
  BY DEF Joins
<1>6. Joins(tn, none, tnz) /\ Joins(xy, tnz, xytnz) /\ Joins(xytnz, h, xyhtnz)
  BY SMTT(60) DEF Joins
<1>7. Joins(xyhtnz, f, all)
  BY DEF Joins
<1>8. /\ x \in Updates /\ y \in Updates /\ h \in Updates /\ t \in Updates /\ n \in Updates
      /\ none \in Updates /\ f \in Updates
  BY <1>1, {} \in SUBSET {"h", "v"}, UpdateRecords, ZenonT(60)
<1>9. i \in Sprites
  BY VBlankAssumption DEF VBlankAssumption
<1>. HIDE DEF x, y, xy, h, t, n, tn, none, f, nf, xyt, set, tnz, xytnz, xyhtnz, all
<1>10. /\ xy \in Updates /\ tn \in Updates /\ nf \in Updates /\ tnz \in Updates
  <2>1. xy \in Updates /\ tn \in Updates /\ nf \in Updates
    BY <1>4, <1>8, Joined, ZenonT(60) DEF Joins
  <2>2. tnz \in Updates
    BY <1>6, <1>8, <2>1, Joined DEF Joins
  <2>3. QED
    BY <2>1, <2>2
<1>11. /\ Makes(Oam(i, x), i, x) /\ Makes(Oam(i, y), i, y) /\ Makes(Oam(i, xy), i, xy)
       /\ Makes(Oam(i, h), i, h) /\ Makes(Oam(i, t), i, t) /\ Makes(Oam(i, n), i, n)
       /\ Makes(Oam(i, f), i, f) /\ Makes(Oam(i, nf), i, nf) /\ Makes(Oam(i, tnz), i, tnz)
  BY <1>8, <1>9, <1>10, OneStore
<1>12. Makes(oamSet(i, p, g, flip), i, set)
  <2>1. Makes(Oam(i, x) \o Oam(i, y), i, xy)
    BY <1>4, <1>11, JoinedStores
  <2>2. Makes((Oam(i, x) \o Oam(i, y)) \o Oam(i, t), i, xyt)
    BY <1>5, <1>11, <2>1, JoinedStores
  <2>3. QED
    BY <1>2, <1>5, <1>11, <2>2, JoinedStores
<1>13. Makes(oamSetAttr(i, p, g, flip), i, all)
  <2>1. Makes(Oam(i, xy) \o Oam(i, tnz), i, xytnz)
    BY <1>6, <1>11, JoinedStores
  <2>2. Makes((Oam(i, xy) \o Oam(i, tnz)) \o Oam(i, h), i, xyhtnz)
    BY <1>6, <1>11, <2>1, JoinedStores
  <2>3. Makes(((Oam(i, xy) \o Oam(i, tnz)) \o Oam(i, h)) \o Oam(i, f), i, all)
    BY <1>7, <1>11, <2>2, JoinedStores
  <2>4. Over(Tile(g), none) = tnz
    BY <1>3
  <2>5. QED
    BY <1>2, <2>3, <2>4
<1>14. QED
  BY <1>3, <1>12, <1>13 DEF f

(* What a call of the library promises of its stores: they are about its    *)
(* sprites and fields, and the last store to each has the value asked for.  *)
Keeps(c) ==
  /\ c.stores \in Seq(SpriteStores) /\ c.stores # <<>>
  /\ c.about \subseteq Sprites /\ c.for \in Updates
  /\ \A k \in 1 .. Len(c.stores) :
       c.stores[k][2] \in c.about /\ DOMAIN c.stores[k][3] \subseteq DOMAIN c.for
  /\ \A i \in c.about, f \in DOMAIN c.for :
       \E k \in 1 .. Len(c.stores) :
         /\ c.stores[k][2] = i
         /\ f \in DOMAIN c.stores[k][3] /\ c.stores[k][3][f] = c.for[f]
         /\ \A m \in k + 1 .. Len(c.stores) :
              c.stores[m][2] = i => f \notin DOMAIN c.stores[m][3]

(* A call about one sprite keeps its promise if its stores make its fields. *)
LEMMA OneSprite ==
  ASSUME NEW c, NEW i \in Sprites, c.about = {i}, Makes(c.stores, i, c.for)
  PROVE  Keeps(c)
  BY DEF Makes, Keeps

(* The four stores of oamSetEx(i, 0, 1).                                    *)
LEMMA FourStores ==
  ASSUME NEW i
  PROVE  /\ oamSetEx(i, 0, 1)[1] = <<"oam", i, [size |-> 0]>>
         /\ oamSetEx(i, 0, 1)[2] = <<"oam", i, [x9 |-> 1]>>
         /\ oamSetEx(i, 0, 1)[3] = <<"oam", i, [x |-> 1]>>
         /\ oamSetEx(i, 0, 1)[4] = <<"oam", i, [y |-> 240]>>
<1>. DEFINE a == <<"oam", i, [size |-> 0]>>
            b == <<"oam", i, [x9 |-> 1]>>
            c == <<"oam", i, [x |-> 1]>>
            d == <<"oam", i, [y |-> 240]>>
<1>1. oamSetEx(i, 0, 1) = (<<a>> \o <<>>) \o ((<<b>> \o <<c>>) \o <<d>>)
  BY DEF oamSetEx, oamHide, Oam
<1>. HIDE DEF a, b, c, d
<1>. DEFINE S == {a, b, c, d}
            A == <<a>> \o <<>>
            BC == <<b>> \o <<c>>
<1>2. ASSUME NEW e \in S
      PROVE  <<e>> \in Seq(S) /\ Len(<<e>>) = 1 /\ <<e>>[1] = e
  OBVIOUS
<1>3. a \in S /\ b \in S /\ c \in S /\ d \in S
  OBVIOUS
<1>. HIDE DEF S
<1>4. \A s, t \in Seq(S) :
        /\ s \o t \in Seq(S) /\ Len(s \o t) = Len(s) + Len(t)
        /\ \A k \in 1 .. Len(s) : (s \o t)[k] = s[k]
        /\ \A k \in 1 .. Len(t) : (s \o t)[Len(s) + k] = t[k]
        /\ s \o <<>> = s
  OBVIOUS
<1>5. A = <<a>>
  BY <1>2, <1>3, <1>4
<1>6. BC \in Seq(S) /\ Len(BC) = 2 /\ BC[1] = b /\ BC[2] = c
  BY <1>2, <1>3, <1>4
<1>. DEFINE D == <<d>>
<1>7. /\ D \in Seq(S) /\ Len(D) = 1 /\ D[1] = d
      /\ A \in Seq(S) /\ Len(A) = 1 /\ A[1] = a
  BY <1>2, <1>3, <1>5
<1>. DEFINE Z == BC \o D
            s == A \o Z
<1>. HIDE DEF A, BC, D
<1>8. Z \in Seq(S) /\ Len(Z) = 3 /\ Z[3] = d /\ Z[1] = b /\ Z[2] = c
  <2>1. /\ Z \in Seq(S) /\ Len(Z) = Len(BC) + Len(D)
        /\ \A k \in 1 .. Len(BC) + Len(D) :
             Z[k] = IF k <= Len(BC) THEN BC[k] ELSE D[k - Len(BC)]
    BY <1>6, <1>7, ConcatProperties, Zenon
  <2>. HIDE DEF Z
  <2>2. QED
    BY <1>6, <1>7, <2>1
<1>. HIDE DEF Z
<1>9. s[1] = a /\ s[2] = b /\ s[3] = c /\ s[4] = d
  <2>1. \A k \in 1 .. Len(A) + Len(Z) :
          s[k] = IF k <= Len(A) THEN A[k] ELSE Z[k - Len(A)]
    BY <1>7, <1>8, ConcatProperties, Zenon
  <2>. HIDE DEF s
  <2>2. QED
    BY <1>7, <1>8, <2>1
<1>11. oamSetEx(i, 0, 1) = s
  BY <1>1 DEF A, BC, D, Z
<1>. HIDE DEF s
<1>12. QED
  BY <1>9, <1>11 DEF a, b, c, d

(* The sprite and the number of a store of oamClear, from its place.        *)
LEMMA Quarters ==
  ASSUME NEW n \in Nat, NEW k \in 1 .. 4 * n
  PROVE  /\ (k - 1) \div 4 \in 0 .. n - 1 /\ (k - 1) % 4 \in 0 .. 3
         /\ k = 4 * ((k - 1) \div 4) + ((k - 1) % 4) + 1
<1>. DEFINE j == k - 1
            q == j \div 4
            r == j % 4
<1>1. j \in Nat /\ j < 4 * n /\ k = j + 1
  OBVIOUS
<1>. HIDE DEF j
<1>2. q \in Int /\ r \in 0 .. 3 /\ j = 4 * q + r
  BY <1>1
<1>. HIDE DEF q, r
<1>3. q \in 0 .. n - 1
  BY <1>1, <1>2
<1>4. QED
  BY <1>1, <1>2, <1>3 DEF j, q, r

(* The place of a store of oamClear, from its sprite and its number.        *)
LEMMA QuarterOf ==
  ASSUME NEW n \in Nat, NEW i \in 0 .. n - 1, NEW r \in 0 .. 3
  PROVE  /\ 4 * i + r + 1 \in 1 .. 4 * n
         /\ (4 * i + r + 1 - 1) \div 4 = i /\ (4 * i + r + 1 - 1) % 4 = r
  OBVIOUS

(* The calls hide sprites in their order, with the four stores of each.     *)
LEMMA Clearing ==
  ASSUME NEW n \in 0 .. NSprites
  PROVE  Keeps([stores |-> oamClear(0, n), for |-> Over([size |-> 0], Hiding(1)),
                about |-> IF n = 0 THEN Sprites ELSE 0 .. n - 1])
<1>. DEFINE last == IF n = 0 THEN NSprites ELSE n
            s == oamClear(0, n)
            for == Over([size |-> 0], Hiding(1))
            about == IF n = 0 THEN Sprites ELSE 0 .. n - 1
            fields == <<[size |-> 0], [x9 |-> 1], [x |-> 1], [y |-> 240]>>
            F(r) == fields[r + 1]
<1>1. last \in Nat \ {0} /\ last <= NSprites /\ NSprites \in Nat /\ about = 0 .. last - 1
  BY PpuAssumption DEF Sprites
<1>2. /\ DOMAIN for = {"size", "x9", "x", "y"}
      /\ for["size"] = 0 /\ for["x9"] = 1 /\ for["x"] = 1 /\ for["y"] = 240
      /\ for = [f \in {"size", "x9", "x", "y"} |-> for[f]]
  BY DEF Over, Hiding
<1>3. s = [k \in 1 .. 4 * last |-> oamSetEx(0 + ((k - 1) \div 4), 0, 1)[1 + ((k - 1) % 4)]]
  <2>1. last - 0 = last
    BY <1>1
  <2>2. QED
    BY <2>1 DEF oamClear
<1>4. /\ F(0) = [size |-> 0] /\ F(1) = [x9 |-> 1] /\ F(2) = [x |-> 1] /\ F(3) = [y |-> 240]
      /\ \A r \in 0 .. 3 : r \in {0, 1, 2, 3}
  OBVIOUS
<1>5. \A r \in 0 .. 3 : F(r) \in Updates
  <2>1. 1 \in 0 .. 255 /\ 240 \in 0 .. 255 /\ 0 \in 0 .. 1 /\ 1 \in 0 .. 1
    OBVIOUS
  <2>2. /\ [size |-> 0] \in Updates /\ [x9 |-> 1] \in Updates
        /\ [x |-> 1] \in Updates /\ [y |-> 240] \in Updates
    <3>1. [size |-> 0] \in Updates
      BY ONLY <2>1, UpdateRecords
    <3>2. [x9 |-> 1] \in Updates
      BY ONLY <2>1, UpdateRecords
    <3>3. [x |-> 1] \in Updates
      BY ONLY <2>1, UpdateRecords
    <3>4. [y |-> 240] \in Updates
      BY ONLY <2>1, UpdateRecords
    <3>5. QED
      BY ONLY <3>1, <3>2, <3>3, <3>4
  <2>3. F(0) \in Updates /\ F(1) \in Updates /\ F(2) \in Updates /\ F(3) \in Updates
    BY ONLY <1>4, <2>2
  <2>4. QED
    BY ONLY <1>4, <2>3
<1>6. ASSUME NEW i \in 0 .. last - 1, NEW r \in 0 .. 3
      PROVE  oamSetEx(i, 0, 1)[1 + r] = <<"oam", i, F(r)>>
  BY <1>4, FourStores
<1>. HIDE DEF last, s, for, about, F
<1>7. ASSUME NEW k \in 1 .. 4 * last
      PROVE  /\ (k - 1) \div 4 \in 0 .. last - 1 /\ (k - 1) % 4 \in 0 .. 3
             /\ k = 4 * ((k - 1) \div 4) + ((k - 1) % 4) + 1
             /\ s[k] = <<"oam", (k - 1) \div 4, F((k - 1) % 4)>>
  <2>. DEFINE i == (k - 1) \div 4
              r == (k - 1) % 4
  <2>1. i \in 0 .. last - 1 /\ r \in 0 .. 3 /\ k = 4 * i + r + 1
    BY <1>1, Quarters
  <2>2. s[k] = oamSetEx(0 + i, 0, 1)[1 + r]
    BY <1>3
  <2>. HIDE DEF i, r
  <2>3. 0 + i = i
    BY <2>1
  <2>4. QED
    BY <1>6, <2>1, <2>2, <2>3 DEF i, r
<1>8. ASSUME NEW i \in 0 .. last - 1, NEW r \in 0 .. 3
      PROVE  4 * i + r + 1 \in 1 .. 4 * last /\ s[4 * i + r + 1] = <<"oam", i, F(r)>>
  <2>. DEFINE k == 4 * i + r + 1
  <2>1. k \in 1 .. 4 * last /\ (k - 1) \div 4 = i /\ (k - 1) % 4 = r
    BY <1>1, QuarterOf
  <2>. HIDE DEF k
  <2>2. QED
    BY <1>7, <2>1 DEF k
<1>9. s \in Seq(SpriteStores) /\ Len(s) = 4 * last /\ s # <<>>
  <2>1. ASSUME NEW k \in 1 .. 4 * last PROVE s[k] \in SpriteStores
    <3>. DEFINE i == (k - 1) \div 4
                r == (k - 1) % 4
    <3>1. i \in 0 .. last - 1 /\ r \in 0 .. 3 /\ s[k] = <<"oam", i, F(r)>>
      BY <1>7
    <3>. HIDE DEF i, r
    <3>2. i \in Sprites
      BY <1>1, <3>1 DEF Sprites
    <3>3. F(r) \in Updates
      BY <1>5, <3>1
    <3>4. QED
      BY <3>1, <3>2, <3>3 DEF SpriteStores
  <2>2. s = [k \in 1 .. 4 * last |-> s[k]]
    BY <1>3
  <2>3. 4 * last \in Nat /\ 4 * last # 0
    BY <1>1
  <2>4. QED
    BY <2>1, <2>2, <2>3
<1>10. about \subseteq Sprites
  BY <1>1 DEF Sprites
<1>11. for \in Updates
  <2>. DEFINE B == 0 .. 255
              O == 0 .. 1
              P == SUBSET {"h", "v"}
  <2>1. 1 \in B /\ 240 \in B /\ 0 \in O /\ 1 \in O
    OBVIOUS
  <2>. HIDE DEF B, O, P
  <2>2. FieldValues = [x |-> B, y |-> B, x9 |-> O, size |-> O, tile |-> B,
                       ninth |-> O, flip |-> P]
    BY DEF FieldValues, B, O, P
  <2>3. IsUpdate(for) /\ DOMAIN for \subseteq Fields
    BY <1>2, <2>1, <2>2 DEF IsUpdate, Fields
  <2>4. QED
    BY <1>2, <2>3, UpdateMembers
<1>12. ASSUME NEW k \in 1 .. Len(s)
       PROVE  s[k][2] \in about /\ DOMAIN s[k][3] \subseteq DOMAIN for
  <2>1. \A r \in 0 .. 3 : DOMAIN F(r) \subseteq DOMAIN for
    BY <1>2, <1>4
  <2>2. QED
    BY <1>1, <1>7, <1>9, <2>1, SMTT(60)
<1>13. ASSUME NEW i \in about, NEW f \in DOMAIN for
       PROVE  \E k \in 1 .. Len(s) :
                /\ s[k][2] = i
                /\ f \in DOMAIN s[k][3] /\ s[k][3][f] = for[f]
                /\ \A m \in k + 1 .. Len(s) : s[m][2] = i => f \notin DOMAIN s[m][3]
  <2>1. PICK r \in 0 .. 3 : /\ f \in DOMAIN F(r) /\ F(r)[f] = for[f]
                            /\ \A q \in 0 .. 3 : q # r => f \notin DOMAIN F(q)
    <3>1. 0 \in 0 .. 3 /\ 1 \in 0 .. 3 /\ 2 \in 0 .. 3 /\ 3 \in 0 .. 3
      OBVIOUS
    <3>2. QED
      BY <1>2, <1>4, <3>1
  <2>. DEFINE k == 4 * i + r + 1
  <2>2. k \in 1 .. Len(s) /\ s[k] = <<"oam", i, F(r)>> /\ k \in Nat
    <3>1. i \in 0 .. last - 1
      BY <1>1
    <3>2. k \in 1 .. 4 * last /\ s[k] = <<"oam", i, F(r)>>
      BY <1>8, <3>1
    <3>. HIDE DEF k
    <3>3. QED
      BY <1>1, <1>9, <3>2
  <2>3. ASSUME NEW m \in k + 1 .. Len(s), s[m][2] = i PROVE f \notin DOMAIN s[m][3]
    <3>. DEFINE q == (m - 1) % 4
                j == (m - 1) \div 4
    <3>1. m \in 1 .. 4 * last /\ m > k
      BY <1>9, <2>2
    <3>2. /\ q \in 0 .. 3 /\ m = 4 * j + q + 1 /\ s[m] = <<"oam", j, F(q)>>
      BY <1>7, <3>1
    <3>. HIDE DEF q, j
    <3>3. j = i
      BY <2>3, <3>2
    <3>4. q # r
      BY <1>1, <3>1, <3>2, <3>3
    <3>5. QED
      BY <2>1, <3>2, <3>4
  <2>. HIDE DEF k
  <2>4. QED
    BY <2>1, <2>2, <2>3
<1>14. QED
  BY <1>9, <1>10, <1>11, <1>12, <1>13 DEF Keeps, s, for, about

(* So does every call.                                                      *)
LEMMA CallsKeep ==
  \A c \in Moves \union Shows : Keeps(c)
<1>1. ASSUME NEW i \in Sprites, NEW s, NEW u, Makes(s, i, u)
      PROVE  Keeps(About(i, s, u))
  BY <1>1, OneSprite DEF About
<1>2. Dressed \subseteq Sprites
  BY VBlankAssumption DEF VBlankAssumption
<1>3. \A i \in Sprites, p \in Positions : Keeps(About(i, oamSetXY(i, p), At(p)))
                                         /\ Keeps(About(i, oamSetXYEx(i, p), At(p)))
  BY <1>1, Placing
<1>4. \A i \in Sprites, hide \in {0, 1} :
        Keeps(About(i, oamSetVisible(i, hide), Hiding(hide)))
  BY <1>1, HidingStores DEF oamSetVisible
<1>5. \A i \in Sprites, size, hide \in {0, 1} :
        Keeps(About(i, oamSetEx(i, size, hide), Over([size |-> size], Hiding(hide))))
  BY <1>1, Sizing
<1>6. ASSUME NEW c \in Moves PROVE Keeps(c)
  BY <1>3, <1>4, <1>5, Clearing DEF Moves
<1>7. \A i \in Dressed, p \in Positions, g \in Offsets, flip \in Flips :
        /\ Keeps(About(i, oamSetAttr(i, p, g, flip),
                       Over(At(p), Over(Tile(g), Turned(flip)))))
        /\ Keeps(About(i, oamSet(i, p, g, flip),
                       Over(Low(p), Over(Tile(g), Turned(flip)))))
  BY <1>1, <1>2, Dressing DEF Flips
<1>8. \A i \in Dressed, g \in Offsets : Keeps(About(i, oamSetGfxOffset(i, g), Tile(g)))
  BY <1>1, <1>2, Tiling
<1>9. \A i \in Dressed, flip \in Flips :
        Keeps(About(i, oamFlip(i, flip), Turned(flip)))
  BY <1>1, <1>2, Flipping DEF Flips
<1>10. ASSUME NEW c \in Shows PROVE Keeps(c)
  BY <1>7, <1>8, <1>9 DEF Shows
<1>11. QED
  BY <1>6, <1>10

(* A pending store to field f of sprite i.                                  *)
Writes(store, i, f) == store[2] = i /\ f \in DOMAIN store[3]

(* When the pending stores are done, field f of sprite i is as placed.      *)
Settles(i, f) ==
  \/ /\ oamMemory[i][f] = placed[i][f]
     /\ \A k \in 1 .. Len(stores) : ~Writes(stores[k], i, f)
  \/ \E k \in 1 .. Len(stores) :
       /\ Writes(stores[k], i, f) /\ stores[k][3][f] = placed[i][f]
       /\ \A m \in k + 1 .. Len(stores) : ~Writes(stores[m], i, f)

(* While a sprite function runs, its pending stores are those that bring    *)
(* oamMemory to what the call is for; otherwise it is there.                *)
SpriteInv ==
  /\ oamMemory \in [Sprites -> SpriteCell] /\ placed \in [Sprites -> SpriteCell]
  /\ pc = "sprite" => /\ stores \in Seq(SpriteStores) /\ stores # <<>>
                      /\ \A i \in Sprites, f \in Fields : Settles(i, f)
  /\ pc # "sprite" => oamMemory = placed

(* All sprites are hidden at first.                                         *)
LEMMA InitSprites == Init => SpriteInv
<1>. SUFFICES ASSUME Init PROVE SpriteInv
  OBVIOUS
<1>1. Hidden \in SpriteCell
  <2>. DEFINE B == 0 .. 255
              O == 0 .. 1
              P == SUBSET {"h", "v"}
  <2>1. 0 \in B /\ 1 \in B /\ 240 \in B /\ 0 \in O /\ 1 \in O /\ {} \in P
    OBVIOUS
  <2>. HIDE DEF B, O, P
  <2>2. SpriteCell = [x : B, y : B, x9 : O, size : O, tile : B, ninth : O, flip : P]
    BY DEF SpriteCell, B, O, P
  <2>3. QED
    BY <2>1, <2>2 DEF Hidden
<1>2. oamMemory = [i \in Sprites |-> Hidden] /\ placed = oamMemory /\ pc = "loop"
  BY DEF Init
<1>3. QED
  BY <1>1, <1>2 DEF SpriteInv

(* Steps that leave the sprites and the pending stores alone.               *)
LEMMA SpritesLeft ==
  ASSUME SpriteInv, UNCHANGED <<oamMemory, placed>>,
         pc = "sprite" => pc' = pc /\ stores' = stores,
         pc # "sprite" => pc' # "sprite"
  PROVE  SpriteInv'
<1>1. CASE pc = "sprite"
  BY <1>1 DEF SpriteInv, Settles
<1>2. CASE pc # "sprite"
  BY <1>2 DEF SpriteInv
<1>3. QED
  BY <1>1, <1>2

(* A call promises what its stores will do.                                 *)
LEMMA SpritesCalled == SpriteInv /\ SpriteCall => SpriteInv'
<1>. SUFFICES ASSUME SpriteInv, SpriteCall PROVE SpriteInv'
  OBVIOUS
<1>1. pc = "loop" /\ pc' = "sprite" /\ oamMemory' = oamMemory
  BY DEF SpriteCall, Call
<1>2. PICK c \in Moves \union Shows : Make(c)
  BY DEF SpriteCall
<1>3. Keeps(c)
  BY CallsKeep
<1>4. /\ oamMemory = placed /\ placed \in [Sprites -> SpriteCell]
      /\ oamMemory \in [Sprites -> SpriteCell]
  BY <1>1 DEF SpriteInv
<1>. DEFINE fields == c.for
            about == c.about
            s == c.stores
<1>5. /\ stores' = s
      /\ placed' = [i \in Sprites |-> IF i \in about THEN Over(fields, placed[i])
                                                     ELSE placed[i]]
  BY <1>2 DEF Make
<1>6. /\ s \in Seq(SpriteStores) /\ s # <<>> /\ fields \in Updates
      /\ \A k \in 1 .. Len(s) : s[k][2] \in about /\ DOMAIN s[k][3] \subseteq DOMAIN fields
      /\ \A i \in about, f \in DOMAIN fields :
           \E k \in 1 .. Len(s) :
             /\ s[k][2] = i /\ f \in DOMAIN s[k][3] /\ s[k][3][f] = fields[f]
             /\ \A m \in k + 1 .. Len(s) : s[m][2] = i => f \notin DOMAIN s[m][3]
  <2>1. s \in Seq(SpriteStores) /\ s # <<>> /\ fields \in Updates
    BY <1>3 DEF Keeps
  <2>2. \A k \in 1 .. Len(s) : s[k][2] \in about /\ DOMAIN s[k][3] \subseteq DOMAIN fields
    BY <1>3 DEF Keeps
  <2>3. \A i \in about, f \in DOMAIN fields :
           \E k \in 1 .. Len(s) :
             /\ s[k][2] = i /\ f \in DOMAIN s[k][3] /\ s[k][3][f] = fields[f]
             /\ \A m \in k + 1 .. Len(s) : s[m][2] = i => f \notin DOMAIN s[m][3]
    BY <1>3 DEF Keeps
  <2>4. QED
    BY <2>1, <2>2, <2>3
<1>. HIDE DEF s, about, fields
<1>7. ASSUME NEW i \in Sprites
      PROVE  /\ placed'[i] \in SpriteCell
             /\ \A f \in Fields : placed'[i][f] =
                  IF i \in about /\ f \in DOMAIN fields THEN fields[f] ELSE placed[i][f]
  <2>1. placed[i] \in SpriteCell
    BY <1>4
  <2>2. /\ Over(fields, placed[i]) \in SpriteCell
        /\ \A f \in Fields : Over(fields, placed[i])[f] =
             IF f \in DOMAIN fields THEN fields[f] ELSE placed[i][f]
    BY <1>6, <2>1, OverCell
  <2>3. QED
    BY <1>5, <2>1, <2>2
<1>8. ASSUME NEW i \in Sprites, NEW f \in Fields PROVE Settles(i, f)'
  <2>1. CASE i \in about /\ f \in DOMAIN fields
    <3>1. PICK k \in 1 .. Len(s) :
            /\ s[k][2] = i /\ f \in DOMAIN s[k][3] /\ s[k][3][f] = fields[f]
            /\ \A m \in k + 1 .. Len(s) : s[m][2] = i => f \notin DOMAIN s[m][3]
      BY <1>6, <2>1
    <3>2. s[k][3][f] = placed'[i][f]
      BY <1>7, <2>1, <3>1
    <3>3. \A m \in k + 1 .. Len(s) : ~Writes(s[m], i, f)
      BY <3>1 DEF Writes
    <3>4. QED
      BY <1>5, <3>1, <3>2, <3>3 DEF Settles, Writes
  <2>2. CASE ~(i \in about /\ f \in DOMAIN fields)
    <3>1. oamMemory'[i][f] = placed'[i][f]
      BY <1>1, <1>4, <1>7, <2>2
    <3>2. \A k \in 1 .. Len(s) : ~Writes(s[k], i, f)
      BY <1>6, <2>2 DEF Writes
    <3>3. QED
      BY <1>5, <3>1, <3>2 DEF Settles
  <2>3. QED
    BY <2>1, <2>2
<1>9. placed' \in [Sprites -> SpriteCell] /\ oamMemory' \in [Sprites -> SpriteCell]
  BY <1>1, <1>4, <1>5, <1>7
<1>10. QED
  BY <1>1, <1>5, <1>6, <1>8, <1>9 DEF SpriteInv

(* A store brings oamMemory one step nearer.                                *)
LEMMA SpriteStored == SpriteInv /\ SpriteStore => SpriteInv'
<1>. SUFFICES ASSUME SpriteInv, SpriteStore PROVE SpriteInv'
  OBVIOUS
<1>1. /\ pc = "sprite" /\ stores \in Seq(SpriteStores) /\ stores # <<>>
      /\ \A i \in Sprites, f \in Fields : Settles(i, f)
      /\ oamMemory \in [Sprites -> SpriteCell] /\ placed \in [Sprites -> SpriteCell]
  BY DEF SpriteInv, SpriteStore
<1>. DEFINE j == Head(stores)[2]
            u == Head(stores)[3]
            t == Tail(stores)
<1>2. /\ oamMemory' = [oamMemory EXCEPT ![j] = Over(u, @)]
      /\ stores' = t /\ pc' = (IF Len(stores) = 1 THEN "loop" ELSE pc)
      /\ placed' = placed
  BY DEF SpriteStore
<1>3. /\ Head(stores) \in SpriteStores /\ Head(stores) = stores[1]
      /\ t \in Seq(SpriteStores) /\ Len(stores) \in Nat \ {0} /\ Len(t) = Len(stores) - 1
      /\ \A k \in 1 .. Len(stores) - 1 : t[k] = stores[k + 1]
      /\ Len(stores) # 1 => t # <<>>
  BY <1>1, OneStoreLess
<1>4. j \in Sprites /\ u \in Updates
  BY <1>3 DEF SpriteStores
<1>. HIDE DEF t
<1>5. /\ Over(u, oamMemory[j]) \in SpriteCell
      /\ \A f \in Fields : Over(u, oamMemory[j])[f] =
           IF f \in DOMAIN u THEN u[f] ELSE oamMemory[j][f]
  <2>1. oamMemory[j] \in SpriteCell
    BY <1>1, <1>4
  <2>. HIDE DEF j, u
  <2>2. QED
    BY <1>4, <2>1, OverCell
<1>6. oamMemory' \in [Sprites -> SpriteCell]
  BY <1>1, <1>2, <1>5
<1>7. ASSUME NEW i \in Sprites, NEW f \in Fields
      PROVE  oamMemory'[i][f] = IF Writes(stores[1], i, f) THEN stores[1][3][f]
                                                           ELSE oamMemory[i][f]
  <2>1. CASE i = j
    BY <1>1, <1>2, <1>3, <1>4, <1>5, <2>1 DEF Writes
  <2>2. CASE i # j
    BY <1>1, <1>2, <1>3, <2>2 DEF Writes
  <2>3. QED
    BY <2>1, <2>2
<1>. HIDE DEF j, u
<1>8. ASSUME NEW i \in Sprites, NEW f \in Fields PROVE Settles(i, f)'
  <2>1. CASE \A k \in 1 .. Len(stores) : ~Writes(stores[k], i, f)
    <3>1. oamMemory[i][f] = placed[i][f]
      BY <1>1, <2>1 DEF Settles
    <3>2. oamMemory'[i][f] = placed'[i][f]
      BY <1>2, <1>3, <1>7, <2>1, <3>1
    <3>3. \A k \in 1 .. Len(t) : ~Writes(t[k], i, f)
      BY <1>3, <2>1
    <3>4. QED
      BY <1>2, <3>2, <3>3 DEF Settles
  <2>2. CASE ~\A k \in 1 .. Len(stores) : ~Writes(stores[k], i, f)
    <3>1. PICK k \in 1 .. Len(stores) :
            /\ Writes(stores[k], i, f) /\ stores[k][3][f] = placed[i][f]
            /\ \A m \in k + 1 .. Len(stores) : ~Writes(stores[m], i, f)
      BY <1>1, <2>2 DEF Settles
    <3>2. CASE k = 1
      <4>1. oamMemory'[i][f] = placed'[i][f]
        BY <1>2, <1>7, <3>1, <3>2
      <4>2. \A m \in 1 .. Len(t) : ~Writes(t[m], i, f)
        BY <1>3, <3>1, <3>2
      <4>3. QED
        BY <1>2, <4>1, <4>2 DEF Settles
    <3>3. CASE k # 1
      <4>1. k - 1 \in 1 .. Len(t) /\ t[k - 1] = stores[k]
        BY <1>3, <3>3
      <4>2. ASSUME NEW m \in (k - 1) + 1 .. Len(t) PROVE ~Writes(t[m], i, f)
        <5>1. m \in 1 .. Len(stores) - 1 /\ m + 1 \in k + 1 .. Len(stores)
          BY <1>3, <3>3, <4>2
        <5>2. QED
          BY <1>3, <3>1, <5>1
      <4>3. QED
        BY <1>2, <3>1, <4>1, <4>2 DEF Settles, Writes
    <3>4. QED
      BY <3>2, <3>3
  <2>3. QED
    BY <2>1, <2>2
<1>9. CASE Len(stores) = 1
  <2>1. Len(t) = 0
    BY <1>3, <1>9
  <2>2. ASSUME NEW i \in Sprites, NEW f \in Fields
        PROVE  oamMemory'[i][f] = placed'[i][f]
    BY <1>2, <1>8, <2>1 DEF Settles
  <2>3. ASSUME NEW i \in Sprites PROVE oamMemory'[i] = placed'[i]
    <3>1. oamMemory'[i] \in SpriteCell /\ placed'[i] \in SpriteCell
      BY <1>1, <1>2, <1>6
    <3>2. QED
      BY <2>2, <3>1, SameCell
  <2>4. oamMemory' = placed'
    BY <1>1, <1>2, <1>6, <2>3
  <2>5. QED
    BY <1>1, <1>2, <1>6, <1>9, <2>4 DEF SpriteInv
<1>10. CASE Len(stores) # 1
  BY <1>1, <1>2, <1>3, <1>6, <1>8, <1>10 DEF SpriteInv
<1>11. QED
  BY <1>9, <1>10

(* Every step keeps the invariant of the sprites.                           *)
LEMMA SpriteStep == TypeInv /\ SpriteInv /\ [Next]_vars => SpriteInv'
<1>. SUFFICES ASSUME TypeInv, SpriteInv, [Next]_vars PROVE SpriteInv'
  OBVIOUS
<1>1. "sprite" \notin Loaders
  BY VBlankAssumption DEF VBlankAssumption
<1>2. then # "sprite"
  BY <1>1 DEF TypeInv
<1>3. CASE SpriteCall
  BY <1>3, SpritesCalled
<1>4. CASE SpriteStore
  BY <1>4, SpriteStored
<1>5. ASSUME VBlank \/ UNCHANGED vars \/ (Program /\ ~SpriteCall /\ ~SpriteStore)
      PROVE  /\ UNCHANGED <<oamMemory, placed>>
             /\ pc = "sprite" => pc' = pc /\ stores' = stores
             /\ pc # "sprite" => pc' # "sprite"
  <2>1. CASE VBlank
    BY <1>2, <2>1 DEF VBlank, NmiTaken, oamVars
  <2>2. CASE UNCHANGED vars
    BY <2>2 DEF vars, oamVars, ctlVars
  <2>3. CASE \/ WaitForVBlank \/ consoleDrawText \/ PrintChar \/ DrawDone
             \/ UpdateDone \/ bgSetGfxPtr \/ UploadCopies \/ CopyStore \/ NmiStore
    BY <1>1, <1>2, <2>3 DEF WaitForVBlank, consoleDrawText, Call, PrintChar, DrawDone,
       UpdateDone, bgSetGfxPtr, UploadCopies, CopyStore, NmiStore, oamVars, ctlVars
  <2>4. CASE \/ consoleUpdate \/ bgInitTileSetData \/ UploadCall \/ setBrightness
             \/ nmiSet \/ padsCall \/ LoadKeys \/ PadsReturn \/ padsClear
    BY <2>4 DEF consoleUpdate, bgInitTileSetData, UploadCall, setBrightness, nmiSet,
       padsCall, Call, LoadKeys, PadsReturn, padsClear, oamVars, ctlVars
  <2>5. QED
    BY <1>5, <2>1, <2>2, <2>3, <2>4 DEF Program
<1>6. QED
  BY <1>3, <1>4, <1>5, SpritesLeft DEF Next

(* The invariant of the sprites holds throughout.                           *)
LEMMA SpritesSettle == Spec => []SpriteInv
<1>1. QED
  BY InitSprites, SpriteStep, Typed, PTL DEF Spec, Init

(* Each interrupt shows the sprites of complete calls as they were placed,  *)
(* for every number of sprites and every set of positions and tiles,        *)
(* wherever the interrupt falls between the stores of a call.               *)
THEOREM SpritesCorrect == Spec => SpritesShownAsPlaced
<1>. DEFINE Shown == VBlank => \A i \in Sprites \ Moving : hw'.oam[i] = placed[i]
<1>1. TypeInv /\ SpriteInv => [Shown]_vars
  <2>. SUFFICES ASSUME TypeInv, SpriteInv, VBlank, NEW i \in Sprites \ Moving
                PROVE  hw'.oam[i] = placed[i]
    OBVIOUS
  <2>1. hw'.oam[i] = oamMemory[i]
    BY HandlerCopies DEF TypeInv
  <2>2. CASE pc # "sprite"
    BY <2>1, <2>2 DEF SpriteInv
  <2>3. CASE pc = "sprite"
    <3>1. \A k \in DOMAIN stores : stores[k][2] # i
      BY <2>3 DEF Moving
    <3>2. DOMAIN stores = 1 .. Len(stores)
      BY <2>3 DEF SpriteInv
    <3>3. \A f \in Fields : oamMemory[i][f] = placed[i][f]
      BY <2>3, <3>1, <3>2 DEF SpriteInv, Settles, Writes
    <3>4. oamMemory[i] \in SpriteCell /\ placed[i] \in SpriteCell
      BY DEF SpriteInv
    <3>5. QED
      BY <2>1, <3>3, <3>4, SameCell
  <2>4. QED
    BY <2>2, <2>3
<1>2. [][Shown]_vars <=> SpritesShownAsPlaced
  BY DEF SpritesShownAsPlaced
<1>. HIDE DEF Shown
<1>3. QED
  BY <1>1, <1>2, Typed, SpritesSettle, PTL

-----------------------------------------------------------------------------
(* Every variable keeps its type: a sprite is one that OAM can hold after   *)
(* every store of every call, a pad has the buttons of a pad, and the       *)
(* program is where its control flow allows.                                *)
THEOREM TypeCorrect == Spec => []VBlankTypeOK
<1>1. TypeInv /\ PollInv /\ SpriteInv => VBlankTypeOK
  BY DEF TypeInv, Shape, PollInv, PadsTrackScans, SpriteInv, VBlankTypeOK
<1>2. QED
  BY <1>1, Typed, PollCorrect, SpritesSettle, PTL

-----------------------------------------------------------------------------
(* Texts and graphics.  An interrupt within a copy that had not waited for  *)
(* it spoils the memories; until then:                                      *)

(* What a cell of the map can hold.                                         *)
Cell == {Blank} \union Characters

(* The flag and the texts.                                                  *)
TextInv ==
  /\ fontMap \in [Cells -> Cell] /\ committed \in [Cells -> Cell]
  /\ text \in Seq(Characters)
  /\ (dirty = 2) = (pc = "print")
  /\ dirty # 2 => committed = fontMap
  /\ dirty # 0 => "text" \in program
  /\ dirty = 0 \/ pc = "updated" => Screen = fontMap

(* No memory holds garbage.                                                 *)
Clean ==
  /\ \A a \in DOMAIN hw.vram : hw.vram[a] # Garbage
  /\ \A a \in DOMAIN hw.cgram : hw.cgram[a] # Garbage
  /\ \A i \in Sprites : hw.oam[i] # Garbage

(* The graphics shown are there.                                            *)
Kept ==
  /\ hw.nba = GfxAddr \/ (hw.obsel = GfxAddr /\ FitsInVBlank) => GfxLoaded /\ PalLoaded
  /\ hw.nba34 = GfxAddr => GfxLoaded

(* That many words can still come before the picture, or the screen is off. *)
Ahead(k) == hw.inidisp = 0 \/ k <= hw.left

(* The uploads that are not cut short.                                      *)
Assured(l) == l = "bgInitTileSet" \/ FitsInVBlank

(* A function that uploads graphics waits, or has just been woken.          *)
Waiting ==
  /\ pc = "wai" => then \in {"loop"} \union Loaders
  /\ pc = "wai" /\ then = "bgInitTileSet" => hw.inidisp = 0
  /\ pc \in Loaders => fresh /\ (Assured(pc) => Ahead(Len(Gfx) + Len(Pal)))

(* The last of the stores c, of which there are len; n have been made.      *)
Remain(c, len, n) ==
  /\ Len(stores) = len - n
  /\ \A k \in 1 .. len - n : stores[k] = c[n + k]

(* A copy that has not waited for the interrupt, with the screen off: no    *)
(* interrupt has come since its first store.                                *)
Unwaited(c) ==
  /\ hw.inidisp = 0
  /\ \E n \in 0 .. 6 : Remain(c, 7, n) /\ Programmed(hw, c, n)

(* consoleUpdate is copying the map, bgInitTileSetData its tiles.           *)
Updating == then = "updated" /\ Unwaited(FontCopy)
Retiling == then = "tiled" /\ Unwaited(GfxCopy)

(* A function that uploads graphics is copying them, then the palette, and  *)
(* then shows them, without an interrupt.                                   *)
Uploading ==
  /\ then = "loop" /\ fresh
  /\ \E l \in Loaders, n \in 0 .. 14 :
       /\ Remain(Upload[l], 15, n)
       /\ n \in 0 .. 6 => Programmed(hw, GfxCopy, n)
       /\ n \in 7 .. 13 => Programmed(hw, PalCopy, n - 7)
       /\ Assured(l) => /\ n \in 0 .. 6 => Ahead(Len(Gfx) + Len(Pal))
                        /\ n \in 7 .. 13 => Ahead(Len(Pal))
                        /\ n \in 7 .. 14 => GfxLoaded
                        /\ n = 14 => PalLoaded

Copying ==
  /\ pc = "copy" => Updating \/ Retiling \/ Uploading
  /\ pc = "tiled" => GfxLoaded

(* What holds of texts, memories and the copies under way.                  *)
Unspoilt == TextInv /\ Clean /\ Kept /\ Waiting /\ Copying

ScreenInv == torn \/ Unspoilt

(* The program uploads by DMA only: LzssDecodeVram writes to where the      *)
(* interrupt has left the address register.                                 *)
ByDma == "bgInitTileSetLz" \notin Loaders

(* Where the areas are.                                                     *)
LEMMA Areas ==
  /\ \A c \in Cells : MapAddr + c \in MapAddr .. MapAddr + MapLen - 1
  /\ \A c \in Cells : MapAddr + c \in 0 .. VramLen - 1
  /\ \A c \in Cells : MapAddr + c \notin GfxAddr .. GfxAddr + Len(Gfx) - 1
  /\ \A k \in 1 .. Len(Gfx) : GfxAddr + k - 1 \in GfxAddr .. GfxAddr + Len(Gfx) - 1
  /\ \A k \in 1 .. Len(Gfx) : GfxAddr + k - 1 \in 0 .. VramLen - 1
  /\ \A k \in 1 .. Len(Gfx) : GfxAddr + k - 1 \notin MapAddr .. MapAddr + MapLen - 1
  /\ \A k \in 1 .. Len(Pal) : k - 1 \in 0 .. CgramLen - 1
<1>1. /\ MapAddr \in Nat /\ MapAddr + MapLen <= VramLen /\ MapLen \in Nat \ {0}
      /\ GfxAddr \in Nat /\ GfxAddr + Len(Gfx) <= VramLen
      /\ GfxAddr + Len(Gfx) <= MapAddr \/ MapAddr + MapLen <= GfxAddr
      /\ Len(Pal) <= CgramLen /\ Len(Gfx) \in Nat /\ Len(Pal) \in Nat
      /\ VramLen \in Nat /\ CgramLen \in Nat
  BY Buffers, MemoryAssumption, PpuAssumption DEF MemoryAssumption
<1>2. QED
  BY <1>1 DEF Cells

(* What the three copies make of the memories.                              *)
LEMMA FontCopied ==
  ASSUME NEW v, NEW w, w = Copied(v, VramLen, MapAddr, mem["font"], MapLen)
  PROVE  /\ \A c \in Cells : w[MapAddr + c] = fontMap[c]
         /\ \A a \in 0 .. VramLen - 1 : w[a] = v[a] \/ \E c \in Cells : w[a] = fontMap[c]
         /\ \A k \in 1 .. Len(Gfx) : w[GfxAddr + k - 1] = v[GfxAddr + k - 1]
<1>1. /\ MapLen \in Nat \ {0} /\ Len(mem["font"]) = MapLen /\ MapAddr \in Nat
      /\ \A k \in 1 .. MapLen : mem["font"][k] = fontMap[k - 1]
  BY Buffers, MemoryAssumption DEF MemoryAssumption
<1>. DEFINE m == mem["font"]
<1>2. \A a \in 0 .. VramLen - 1 :
        w[a] = IF a \in MapAddr .. MapAddr + MapLen - 1 THEN m[a - MapAddr + 1] ELSE v[a]
  BY <1>1 DEF Copied
<1>. HIDE DEF m
<1>3. ASSUME NEW c \in Cells PROVE w[MapAddr + c] = fontMap[c]
  <2>1. c + 1 \in 1 .. MapLen /\ (MapAddr + c) - MapAddr + 1 = c + 1 /\ (c + 1) - 1 = c
    BY <1>1 DEF Cells
  <2>2. w[MapAddr + c] = m[(MapAddr + c) - MapAddr + 1]
    <3>. DEFINE a == MapAddr + c
    <3>1. a \in 0 .. VramLen - 1 /\ a \in MapAddr .. MapAddr + MapLen - 1
      BY Areas
    <3>. HIDE DEF a
    <3>2. w[a] = m[a - MapAddr + 1]
      BY <1>2, <3>1
    <3>3. QED
      BY <3>2 DEF a
  <2>3. m[c + 1] = fontMap[(c + 1) - 1]
    BY <1>1, <2>1 DEF m
  <2>4. QED
    BY <2>1, <2>2, <2>3
<1>4. ASSUME NEW a \in 0 .. VramLen - 1, w[a] # v[a]
      PROVE  \E c \in Cells : w[a] = fontMap[c]
  <2>1. a \in MapAddr .. MapAddr + MapLen - 1
    BY <1>2, <1>4
  <2>2. a - MapAddr \in Cells /\ MapAddr + (a - MapAddr) = a
    BY <1>1, <2>1 DEF Cells
  <2>3. QED
    BY <1>3, <2>2
<1>5. \A k \in 1 .. Len(Gfx) : w[GfxAddr + k - 1] = v[GfxAddr + k - 1]
  BY <1>2, Areas
<1>6. QED
  BY <1>3, <1>4, <1>5

(* What a copy of the graphics, of which n words are taken, makes of VRAM.  *)
LEMMA GfxCopied ==
  ASSUME NEW v, NEW w, NEW n \in 0 .. Len(Gfx), w = Copied(v, VramLen, GfxAddr, Gfx, n)
  PROVE  /\ n = Len(Gfx) => \A k \in 1 .. Len(Gfx) : w[GfxAddr + k - 1] = Gfx[k]
         /\ \A k \in 1 .. Len(Gfx) : v[GfxAddr + k - 1] = Gfx[k] => w[GfxAddr + k - 1] = Gfx[k]
         /\ \A a \in 0 .. VramLen - 1 : w[a] = v[a] \/ w[a] \in Graphics
         /\ \A c \in Cells : w[MapAddr + c] = v[MapAddr + c]
<1>1. /\ GfxAddr \in Nat /\ Len(Gfx) \in Nat
      /\ \A k \in 1 .. Len(Gfx) : Gfx[k] \in Graphics
  BY Buffers, MemoryAssumption DEF MemoryAssumption
<1>2. \A a \in 0 .. VramLen - 1 :
        w[a] = IF a \in GfxAddr .. GfxAddr + n - 1 THEN Gfx[a - GfxAddr + 1] ELSE v[a]
  BY DEF Copied
<1>3. ASSUME NEW k \in 1 .. Len(Gfx)
      PROVE  w[GfxAddr + k - 1] = IF k \in 1 .. n THEN Gfx[k] ELSE v[GfxAddr + k - 1]
  <2>. DEFINE a == GfxAddr + k - 1
  <2>1. /\ a \in 0 .. VramLen - 1 /\ (a \in GfxAddr .. GfxAddr + n - 1) = (k \in 1 .. n)
        /\ a - GfxAddr + 1 = k
    BY <1>1, Areas
  <2>. HIDE DEF a
  <2>2. w[a] = IF k \in 1 .. n THEN Gfx[k] ELSE v[a]
    BY <1>2, <2>1
  <2>3. QED
    BY <2>2 DEF a
<1>4. ASSUME NEW a \in 0 .. VramLen - 1, w[a] # v[a] PROVE w[a] \in Graphics
  <2>1. a - GfxAddr + 1 \in 1 .. Len(Gfx) /\ w[a] = Gfx[a - GfxAddr + 1]
    BY <1>1, <1>2, <1>4
  <2>2. QED
    BY <1>1, <2>1
<1>5. ASSUME NEW c \in Cells PROVE w[MapAddr + c] = v[MapAddr + c]
  <2>. DEFINE a == MapAddr + c
  <2>1. a \in 0 .. VramLen - 1 /\ a \notin GfxAddr .. GfxAddr + Len(Gfx) - 1
    BY Areas
  <2>. HIDE DEF a
  <2>2. w[a] = v[a]
    BY <1>1, <1>2, <2>1
  <2>3. QED
    BY <2>2 DEF a
<1>6. QED
  BY <1>3, <1>4, <1>5

(* What such a copy of the palette makes of CGRAM.                          *)
LEMMA PalCopied ==
  ASSUME NEW v, NEW w, NEW n \in 0 .. Len(Pal), w = Copied(v, CgramLen, 0, Pal, n)
  PROVE  /\ n = Len(Pal) => \A k \in 1 .. Len(Pal) : w[k - 1] = Pal[k]
         /\ \A k \in 1 .. Len(Pal) : v[k - 1] = Pal[k] => w[k - 1] = Pal[k]
         /\ \A a \in 0 .. CgramLen - 1 : w[a] = v[a] \/ w[a] \in Graphics
<1>1. Len(Pal) \in Nat /\ \A k \in 1 .. Len(Pal) : Pal[k] \in Graphics
  BY Buffers, MemoryAssumption DEF MemoryAssumption
<1>2. \A a \in 0 .. CgramLen - 1 :
        w[a] = IF a \in 0 .. 0 + n - 1 THEN Pal[a - 0 + 1] ELSE v[a]
  BY DEF Copied
<1>3. ASSUME NEW k \in 1 .. Len(Pal)
      PROVE  w[k - 1] = IF k \in 1 .. n THEN Pal[k] ELSE v[k - 1]
  <2>. DEFINE a == k - 1
  <2>1. /\ a \in 0 .. CgramLen - 1 /\ (a \in 0 .. 0 + n - 1) = (k \in 1 .. n)
        /\ a - 0 + 1 = k
    BY <1>1, Areas
  <2>. HIDE DEF a
  <2>2. w[a] = IF k \in 1 .. n THEN Pal[k] ELSE v[a]
    BY <1>2, <2>1
  <2>3. QED
    BY <2>2 DEF a
<1>4. ASSUME NEW a \in 0 .. CgramLen - 1, w[a] # v[a] PROVE w[a] \in Graphics
  <2>1. a - 0 + 1 \in 1 .. Len(Pal) /\ w[a] = Pal[a - 0 + 1]
    BY <1>1, <1>2, <1>4
  <2>2. QED
    BY <1>1, <2>1
<1>5. QED
  BY <1>3, <1>4

(* What the buffers hold is not garbage.                                    *)
LEMMA NoGarbage ==
  /\ \A g \in Graphics : g # Garbage
  /\ \A c \in Cell : c # Garbage
  /\ \A s \in SpriteCell : s # Garbage
  BY MemoryAssumption DEF MemoryAssumption, Cell

(* Steps that leave the memories alone.                                     *)
LEMMA MemoriesLeft ==
  ASSUME Shape(hw), Shape(hw'), SameMemories(hw', hw), program' = program
  PROVE  /\ Screen' = Screen /\ (Clean => Clean') /\ (Kept => Kept')
         /\ (GfxLoaded => GfxLoaded') /\ (PalLoaded => PalLoaded')
<1>1. /\ hw'.vram = hw.vram /\ hw'.cgram = hw.cgram /\ hw'.oam = hw.oam
      /\ hw'.obsel = hw.obsel /\ hw'.nba = hw.nba /\ hw'.nba34 = hw.nba34
  BY DEF SameMemories, SameShown
<1>2. (GfxLoaded => GfxLoaded') /\ (PalLoaded => PalLoaded')
  BY <1>1 DEF GfxLoaded, PalLoaded
<1>3. FitsInVBlank' = FitsInVBlank
  BY DEF FitsInVBlank
<1>4. Kept => Kept'
  BY <1>1, <1>2, <1>3 DEF Kept
<1>5. QED
  BY <1>1, <1>2, <1>4 DEF Screen, Clean

(* The memories are clear at first, as is the map.                          *)
LEMMA InitScreen == Init => Unspoilt
<1>. SUFFICES ASSUME Init PROVE Unspoilt
  OBVIOUS
<1>1. /\ fontMap = [c \in Cells |-> Blank] /\ committed = fontMap /\ dirty = 0
      /\ hw.vram = [a \in 0 .. VramLen - 1 |-> Blank]
      /\ hw.cgram = [a \in 0 .. CgramLen - 1 |-> Blank]
      /\ hw.oam = [i \in Sprites |-> Hidden]
      /\ hw.obsel = 0 /\ hw.nba = 0 /\ hw.nba34 = 0
      /\ pc = "loop" /\ text = <<>>
  BY DEF Init
<1>2. Screen = fontMap
  <2>1. \A c \in Cells : hw.vram[MapAddr + c] = Blank
    BY <1>1, Areas
  <2>2. QED
    BY <1>1, <2>1 DEF Screen
<1>3. "loop" \notin Loaders
  BY VBlankAssumption DEF VBlankAssumption
<1>4. TextInv
  BY <1>1, <1>2, <1>3 DEF TextInv, Cell
<1>5. Clean
  <2>1. Blank # Garbage
    BY NoGarbage DEF Cell
  <2>2. oamMemory \in [Sprites -> SpriteCell] /\ hw.oam = oamMemory
    BY InitSprites DEF SpriteInv, Init
  <2>3. \A i \in Sprites : hw.oam[i] # Garbage
    BY <2>2, NoGarbage
  <2>4. QED
    BY <1>1, <2>1, <2>3 DEF Clean
<1>6. Kept
  BY <1>1, MemoryAssumption DEF MemoryAssumption, Kept
<1>7. QED
  BY <1>1, <1>3, <1>4, <1>5, <1>6 DEF Unspoilt, Waiting, Copying

(* The map copied to VRAM is seen, and nothing else changes there.          *)
LEMMA MapShown ==
  ASSUME Unspoilt, program' = program, Shape(hw), Shape(hw'), SameShown(hw', hw),
         hw'.vram = Copied(hw.vram, VramLen, MapAddr, mem["font"], MapLen),
         hw'.cgram = hw.cgram, \A i \in Sprites : hw'.oam[i] # Garbage
  PROVE  /\ Screen' = fontMap /\ Clean' /\ Kept'
         /\ (GfxLoaded => GfxLoaded') /\ (PalLoaded => PalLoaded')
<1>. DEFINE v == hw.vram
            w == hw'.vram
<1>1. w = Copied(v, VramLen, MapAddr, mem["font"], MapLen)
  OBVIOUS
<1>2. /\ fontMap \in [Cells -> Cell] /\ Clean /\ Kept
      /\ DOMAIN v = 0 .. VramLen - 1 /\ DOMAIN w = 0 .. VramLen - 1
  BY DEF Unspoilt, TextInv, Shape
<1>. HIDE DEF v, w
<1>3. /\ \A c \in Cells : w[MapAddr + c] = fontMap[c]
      /\ \A a \in 0 .. VramLen - 1 : w[a] = v[a] \/ \E c \in Cells : w[a] = fontMap[c]
      /\ \A k \in 1 .. Len(Gfx) : w[GfxAddr + k - 1] = v[GfxAddr + k - 1]
  BY <1>1, FontCopied
<1>4. Screen' = fontMap
  <2>1. Screen' = [c \in Cells |-> w[MapAddr + c]]
    BY DEF Screen, w
  <2>2. QED
    BY <1>2, <1>3, <2>1
<1>5. (GfxLoaded => GfxLoaded') /\ (PalLoaded => PalLoaded')
  BY <1>3 DEF GfxLoaded, PalLoaded, v, w
<1>6. Clean'
  <2>1. \A a \in 0 .. VramLen - 1 : v[a] # Garbage
    BY <1>2 DEF Clean, v
  <2>2. \A c \in Cells : fontMap[c] # Garbage
    BY <1>2, NoGarbage
  <2>3. \A a \in 0 .. VramLen - 1 : w[a] # Garbage
    BY <1>3, <2>1, <2>2
  <2>4. QED
    BY <1>2, <2>3 DEF Clean, w
<1>7. Kept'
  <2>1. FitsInVBlank' = FitsInVBlank
    BY DEF FitsInVBlank
  <2>2. QED
    BY <1>2, <1>5, <2>1 DEF Kept, SameShown
<1>8. QED
  BY <1>4, <1>5, <1>6, <1>7

(* What is left of the VBlank after the handler is enough for an upload of  *)
(* graphics that fits.                                                      *)
LEMMA EnoughLeft ==
  ASSUME TextInv, FitsInVBlank,
         \/ hw'.left = Room - NSprites
         \/ hw'.left = (Room - NSprites) - MapLen /\ dirty = 1
  PROVE  Len(Gfx) + Len(Pal) <= hw'.left
<1>1. /\ Room \in Nat /\ NSprites \in Nat /\ MapLen \in Nat
      /\ Len(Gfx) \in Nat /\ Len(Pal) \in Nat
  BY Buffers, RoomAssumption, PpuAssumption DEF RoomAssumption
<1>2. dirty = 1 => "text" \in program
  BY DEF TextInv
<1>3. NSprites + Len(Gfx) + Len(Pal) <= Room
  BY <1>1 DEF FitsInVBlank
<1>4. dirty = 1 => NSprites + MapLen + Len(Gfx) + Len(Pal) <= Room
  BY <1>1, <1>2 DEF FitsInVBlank
<1>5. QED
  BY <1>1, <1>3, <1>4

(* No step clears what an interrupt has spoilt, or changes the program.     *)
LEMMA ProgramStays ==
  ASSUME [Next]_vars
  PROVE  program' = program /\ (VBlank \/ torn' = torn) /\ (torn => torn')
<1>1. CASE VBlank
  BY <1>1 DEF VBlank
<1>2. CASE UNCHANGED vars
  BY <1>2 DEF vars, ctlVars
<1>3. CASE \/ WaitForVBlank \/ consoleDrawText \/ PrintChar \/ DrawDone
           \/ consoleUpdate \/ UpdateDone \/ bgInitTileSetData \/ bgSetGfxPtr
           \/ UploadCall \/ UploadCopies \/ CopyStore
  BY <1>3 DEF WaitForVBlank, consoleDrawText, PrintChar, DrawDone, consoleUpdate,
     UpdateDone, bgInitTileSetData, bgSetGfxPtr, UploadCall, UploadCopies, CopyStore,
     Call, ctlVars
<1>4. CASE \/ setBrightness \/ nmiSet \/ NmiStore \/ SpriteCall \/ SpriteStore
           \/ padsCall \/ LoadKeys \/ PadsReturn \/ padsClear
  BY <1>4 DEF setBrightness, nmiSet, NmiStore, SpriteCall, SpriteStore, padsCall,
     LoadKeys, PadsReturn, padsClear, Call, ctlVars
<1>5. QED
  BY <1>1, <1>2, <1>3, <1>4 DEF Next, Program

(* An interrupt that tears no copy finds the screen off or no store made.   *)
LEMMA UnwaitedStays ==
  ASSUME NEW c, IsCopy(c), c[1][1] = "vmadd", Unwaited(c), stores \in Seq(HwStores),
         stores # <<>>, Head(stores)[1] = "vmadd", hw'.inidisp = hw.inidisp,
         stores' = stores
  PROVE  \E n \in 0 .. 6 : /\ hw'.inidisp = 0 /\ n = 0
                           /\ Len(stores) = 7 - n /\ \A k \in 1 .. 7 - n : stores[k] = c[n + k]
<1>1. PICK n \in 0 .. 6 : Remain(c, 7, n)
  BY DEF Unwaited
<1>2. stores[1] = c[n + 1]
  BY <1>1 DEF Remain
<1>3. Head(stores) = stores[1]
  BY OneStoreLess
<1>4. n = 0
  <2>1. c[n + 1][1] = c[1][1] /\ c[n + 1][1] # "mdmaen"
    BY <1>2, <1>3
  <2>2. n + 1 \in 1 .. 6
    BY <2>1, n + 1 = 7 \/ n + 1 \in 1 .. 6 DEF IsCopy
  <2>3. n + 1 = 1
    BY <2>1, <2>2 DEF IsCopy
  <2>4. QED
    BY <2>3
<1>5. QED
  BY <1>1, <1>4 DEF Unwaited, Remain

(* The interrupt shows the map as the last complete text left it.           *)
LEMMA ScreenInterrupted ==
  ASSUME TypeInv, SpriteInv, Unspoilt, VBlank, ~torn', ByDma
  PROVE  Unspoilt' /\ (Screen' = Screen \/ Screen' = committed)
<1>1. /\ Shape(hw') /\ hw'.oam = [i \in Sprites |-> oamMemory[i]]
      /\ hw'.cgram = hw.cgram /\ SameShown(hw', hw) /\ hw'.inidisp = hw.inidisp
      /\ \/ /\ hw'.vram = hw.vram /\ dirty' = dirty
            /\ hw'.left = Room - NSprites
         \/ /\ hw'.vram = Copied(hw.vram, VramLen, MapAddr, mem["font"], MapLen)
            /\ dirty = 1 /\ dirty' = 0
            /\ hw'.left = (Room - NSprites) - MapLen
  BY HandlerCopies DEF TypeInv
<1>2. /\ fresh => pc = "wai"
      /\ fresh' = TRUE /\ pc' = (IF pc = "wai" THEN then ELSE pc)
      /\ UNCHANGED <<fontMap, committed, text, then, stores, program>>
      /\ ~Tearing
  BY DEF VBlank, NmiTaken
<1>3. /\ "wai" \notin Loaders /\ "print" \notin Loaders /\ "copy" \notin Loaders
      /\ "updated" \notin Loaders /\ "tiled" \notin Loaders /\ "loop" \notin Loaders
      /\ Loaders \subseteq {"oamInitGfxSet", "bgInitTileSet"}
  BY VBlankAssumption DEF VBlankAssumption, ByDma
<1>4. /\ TextInv /\ Clean /\ Kept /\ Waiting /\ Copying
      /\ fontMap \in [Cells -> Cell] /\ oamMemory \in [Sprites -> SpriteCell]
      /\ Shape(hw) /\ \A i \in Sprites : hw'.oam[i] # Garbage
  BY <1>1, NoGarbage DEF Unspoilt, TextInv, SpriteInv, TypeInv
<1>5. /\ pc \notin Loaders /\ pc' # "wai"
      /\ pc \in {"copy", "print", "updated", "tiled"} \/ pc' \in {"copy", "print", "updated", "tiled"}
           => pc' = pc
  BY <1>2, <1>3, <1>4 DEF Waiting
<1>6. Screen' = Screen \/ (Screen' = fontMap /\ dirty = 1 /\ dirty' = 0)
  BY <1>1, <1>2, <1>4, MapShown DEF Screen
<1>7. (GfxLoaded => GfxLoaded') /\ Clean' /\ Kept'
  <2>1. CASE hw'.vram = hw.vram
    <3>1. (GfxLoaded => GfxLoaded') /\ (PalLoaded => PalLoaded')
      BY <1>1, <2>1 DEF GfxLoaded, PalLoaded
    <3>2. FitsInVBlank' = FitsInVBlank
      BY <1>2 DEF FitsInVBlank
    <3>3. Kept'
      BY <1>1, <1>4, <3>1, <3>2 DEF Kept, SameShown
    <3>4. Clean'
      BY <1>1, <1>4, <2>1 DEF Clean
    <3>5. QED
      BY <3>1, <3>3, <3>4
  <2>2. CASE hw'.vram = Copied(hw.vram, VramLen, MapAddr, mem["font"], MapLen)
    BY <1>1, <1>2, <1>4, <2>2, MapShown
  <2>3. QED
    BY <1>1, <2>1, <2>2
<1>8. TextInv'
  <2>1. CASE Screen' = Screen /\ dirty' = dirty
    BY <1>2, <1>4, <1>5, <2>1 DEF TextInv
  <2>2. CASE Screen' = fontMap /\ dirty = 1 /\ dirty' = 0
    BY <1>2, <1>4, <1>5, <2>2 DEF TextInv
  <2>3. dirty' = dirty => Screen' = Screen
    BY <1>1, <1>6 DEF Screen
  <2>4. dirty' # dirty => Screen' = fontMap /\ dirty = 1 /\ dirty' = 0
    BY <1>1, <1>2, <1>4, MapShown
  <2>5. QED
    BY <2>1, <2>2, <2>3, <2>4
<1>9. Waiting'
  <2>1. ASSUME pc' \in Loaders
        PROVE  fresh' /\ (Assured(pc)' => Ahead(Len(Gfx) + Len(Pal))')
    <3>1. pc = "wai" /\ pc' = then
      BY <1>2, <1>5, <2>1
    <3>2. CASE then = "bgInitTileSet"
      <4>1. hw'.inidisp = 0
        BY <1>1, <1>4, <3>1, <3>2 DEF Waiting
      <4>2. QED
        BY <1>2, <4>1 DEF Ahead
    <3>3. CASE then # "bgInitTileSet"
      <4>1. Assured(pc)' => FitsInVBlank'
        BY <3>1, <3>3 DEF Assured
      <4>2. FitsInVBlank => Len(Gfx) + Len(Pal) <= hw'.left
        BY <1>1, <1>4, EnoughLeft
      <4>3. FitsInVBlank' = FitsInVBlank
        BY <1>2 DEF FitsInVBlank
      <4>4. QED
        BY <1>2, <4>1, <4>2, <4>3 DEF Ahead
    <3>4. QED
      BY <3>2, <3>3
  <2>2. QED
    BY <1>5, <2>1 DEF Waiting
<1>10. Copying'
  <2>1. ASSUME pc' = "copy" PROVE Updating' \/ Retiling'
    <3>1. pc = "copy" /\ ~fresh
      BY <1>2, <1>5, <2>1
    <3>2. Updating \/ Retiling
      BY <1>4, <3>1 DEF Copying, Uploading
    <3>3. Head(stores)[1] = "vmadd" /\ stores \in Seq(HwStores) /\ stores # <<>>
      BY <1>2, <3>1, <3>2 DEF Tearing, Updating, Retiling, TypeInv
    <3>4. /\ IsCopy(FontCopy) /\ FontCopy[1][1] = "vmadd"
          /\ IsCopy(GfxCopy) /\ GfxCopy[1][1] = "vmadd"
      BY Copies, Buffers DEF FontCopy, GfxCopy, dmaCopyVram
    <3>5. ASSUME NEW c \in {FontCopy, GfxCopy}, Unwaited(c)
          PROVE  /\ hw'.inidisp = 0 /\ Len(stores) = 7 - 0
                 /\ \A k \in 1 .. 7 - 0 : stores[k] = c[0 + k]
      BY <1>1, <1>2, <3>3, <3>4, <3>5, UnwaitedStays
    <3>6. CASE Updating
      <4>1. Remain(FontCopy, 7, 0)' /\ Programmed(hw, FontCopy, 0)' /\ hw'.inidisp = 0
        BY <1>2, <3>5, <3>6 DEF Updating, Remain, Programmed, FontCopy
      <4>2. QED
        BY <1>2, <3>6, <4>1, 0 \in 0 .. 6 DEF Updating, Unwaited
    <3>7. CASE Retiling
      <4>1. Remain(GfxCopy, 7, 0)' /\ Programmed(hw, GfxCopy, 0)' /\ hw'.inidisp = 0
        BY <1>2, <3>5, <3>7 DEF Retiling, Remain, Programmed, GfxCopy
      <4>2. QED
        BY <1>2, <3>7, <4>1, 0 \in 0 .. 6 DEF Retiling, Unwaited
    <3>8. QED
      BY <3>2, <3>6, <3>7
  <2>2. ASSUME pc' = "tiled" PROVE GfxLoaded'
    BY <1>4, <1>5, <1>7, <2>2 DEF Copying
  <2>3. QED
    BY <2>1, <2>2 DEF Copying
<1>11. Screen' = Screen \/ Screen' = committed
  BY <1>4, <1>6 DEF TextInv
<1>12. QED
  BY <1>7, <1>8, <1>9, <1>10, <1>11 DEF Unspoilt

(* One store less remains.                                                  *)
LEMMA OneRemains ==
  ASSUME NEW c, NEW len \in Nat, NEW n \in 0 .. len - 1,
         stores \in Seq(HwStores), stores # <<>>, Remain(c, len, n),
         stores' = Tail(stores)
  PROVE  /\ Head(stores) = c[n + 1] /\ Remain(c, len, n + 1)'
         /\ (Len(stores) = 1) = (n + 1 = len)
<1>. DEFINE t == Tail(stores)
<1>1. /\ Head(stores) = stores[1] /\ Len(t) = Len(stores) - 1
      /\ \A k \in 1 .. Len(stores) - 1 : t[k] = stores[k + 1]
  BY OneStoreLess
<1>2. Len(stores) = len - n /\ \A k \in 1 .. len - n : stores[k] = c[n + k]
  BY DEF Remain
<1>3. Head(stores) = c[n + 1]
  BY <1>1, <1>2
<1>. HIDE DEF t
<1>4. Len(t) = len - (n + 1)
  BY <1>1, <1>2
<1>5. ASSUME NEW k \in 1 .. len - (n + 1) PROVE t[k] = c[(n + 1) + k]
  <2>1. k \in 1 .. Len(stores) - 1 /\ k + 1 \in 1 .. len - n /\ n + (k + 1) = (n + 1) + k
    BY <1>2
  <2>2. QED
    BY <1>1, <1>2, <2>1
<1>6. Remain(c, len, n + 1)'
  <2>1. stores' = t
    BY DEF t
  <2>2. QED
    BY <1>4, <1>5, <2>1 DEF Remain
<1>7. (Len(stores) = 1) = (n + 1 = len)
  BY <1>2
<1>8. QED
  BY <1>3, <1>6, <1>7

(* A store to a register of a copy that is under way, h being the picture   *)
(* processor when it is made.                                               *)
LEMMA CopyGoesOn ==
  ASSUME Shape(hw), Unspoilt, program' = program,
         NEW h, Shape(h), SameMemories(h, hw), NEW c, IsCopy(c), NEW n \in 0 .. 5,
         Programmed(h, c, n), hw' = Put(h, mem, c[n + 1])
  PROVE  /\ Shape(hw') /\ Programmed(hw', c, n + 1) /\ SameRoom(hw', h)
         /\ Screen' = Screen /\ Clean' /\ Kept'
         /\ (GfxLoaded => GfxLoaded') /\ (PalLoaded => PalLoaded')
<1>. DEFINE g == Put(h, mem, c[n + 1])
<1>1. Shape(g) /\ SameMemories(g, h) /\ SameRoom(g, h) /\ Programmed(g, c, n + 1)
  BY RegisterStored
<1>. HIDE DEF g
<1>2. hw' = g
  BY DEF g
<1>3. Shape(hw') /\ SameMemories(hw', hw) /\ Programmed(hw', c, n + 1)
  BY <1>1, <1>2 DEF SameMemories, SameShown
<1>4. QED
  BY <1>1, <1>2, <1>3, MemoriesLeft DEF Unspoilt

(* The last store of a copy of the map, with the screen off.                *)
LEMMA MapArrives ==
  ASSUME Shape(hw), Unspoilt, program' = program,
         NEW h, Shape(h), SameMemories(h, hw), h.inidisp = 0,
         Programmed(h, FontCopy, 6), hw' = Put(h, mem, FontCopy[7])
  PROVE  Screen' = fontMap /\ Clean' /\ Kept'
<1>. DEFINE src == "font"
            m == mem
<1>1. hw' = Transfer(h, m)
  BY DEF Put, FontCopy, dmaCopyVram
<1>2. /\ MapAddr \in Nat /\ MapAddr + Len(m[src]) <= VramLen
      /\ Len(m[src]) \in Nat \ {0} /\ Len(m[src]) = MapLen
      /\ Programmed(h, dmaCopyVram(src, MapAddr, Len(m[src])), 6)
  BY Buffers, MemoryAssumption DEF MemoryAssumption, FontCopy
<1>. HIDE DEF m, src
<1>3. VramMoved(Transfer(h, m), h, MapAddr, m[src])
  BY <1>2, VramTransfer
<1>4. Taken(h, Len(m[src])) = MapLen
  BY <1>2 DEF Taken
<1>5. /\ Shape(hw') /\ hw'.vram = Copied(hw.vram, VramLen, MapAddr, mem["font"], MapLen)
      /\ hw'.cgram = hw.cgram /\ hw'.oam = hw.oam /\ SameShown(hw', hw)
  BY <1>1, <1>3, <1>4 DEF VramMoved, SameMemories, SameShown, m, src
<1>6. \A i \in Sprites : hw'.oam[i] # Garbage
  BY <1>5 DEF Unspoilt, Clean
<1>7. QED
  BY <1>5, <1>6, MapShown

(* The last store of a copy of the graphics: they have arrived if as many   *)
(* words can come.                                                          *)
LEMMA GraphicsArrive ==
  ASSUME Shape(hw), Unspoilt, program' = program,
         NEW h, Shape(h), SameMemories(h, hw),
         Programmed(h, GfxCopy, 6), hw' = Put(h, mem, GfxCopy[7])
  PROVE  /\ Screen' = Screen /\ Clean' /\ Kept'
         /\ h.inidisp = 0 \/ Len(Gfx) <= h.left => GfxLoaded'
         /\ hw'.inidisp = h.inidisp
         /\ \A k \in Nat : Len(Gfx) + k <= h.left => k <= hw'.left
<1>. DEFINE src == "gfx"
            m == mem
            len == Len(Gfx)
            n == Taken(h, len)
            v == hw.vram
            w == hw'.vram
<1>1. hw' = Transfer(h, m)
  BY DEF Put, GfxCopy, dmaCopyVram
<1>2. /\ GfxAddr \in Nat /\ GfxAddr + Len(m[src]) <= VramLen
      /\ Len(m[src]) \in Nat \ {0} /\ m[src] = Gfx
      /\ Programmed(h, dmaCopyVram(src, GfxAddr, Len(m[src])), 6)
  BY Buffers, MemoryAssumption DEF MemoryAssumption, GfxCopy
<1>. HIDE DEF m, src
<1>3. VramMoved(Transfer(h, m), h, GfxAddr, m[src])
  BY <1>2, VramTransfer
<1>4. /\ n \in 0 .. len /\ (h.inidisp = 0 \/ len <= h.left => n = len)
      /\ len <= h.left => Left(h, len) = h.left - len
      /\ len \in Nat /\ h.left \in Nat
  <2>1. Len(Gfx) \in Nat
    BY Buffers
  <2>2. Room \in Nat
    BY RoomAssumption DEF RoomAssumption
  <2>3. /\ n \in 0 .. len /\ (h.inidisp = 0 \/ len <= h.left => n = len)
        /\ len <= h.left => Left(h, len) = h.left - len
    BY <2>1, WordsTaken
  <2>4. h.left \in Nat
    BY <2>2 DEF Shape
  <2>5. QED
    BY <2>1, <2>3, <2>4
<1>5. /\ Shape(hw') /\ w = Copied(v, VramLen, GfxAddr, Gfx, n)
      /\ hw'.cgram = hw.cgram /\ hw'.oam = hw.oam /\ SameShown(hw', hw)
      /\ hw'.inidisp = h.inidisp /\ hw'.left = Left(h, len)
  BY <1>1, <1>2, <1>3 DEF VramMoved, SameMemories, SameShown
<1>. HIDE DEF v, w, n
<1>6. /\ n = Len(Gfx) => \A k \in 1 .. Len(Gfx) : w[GfxAddr + k - 1] = Gfx[k]
      /\ \A k \in 1 .. Len(Gfx) : v[GfxAddr + k - 1] = Gfx[k] => w[GfxAddr + k - 1] = Gfx[k]
      /\ \A a \in 0 .. VramLen - 1 : w[a] = v[a] \/ w[a] \in Graphics
      /\ \A c \in Cells : w[MapAddr + c] = v[MapAddr + c]
  BY <1>4, <1>5, GfxCopied
<1>7. Clean /\ Kept /\ DOMAIN v = 0 .. VramLen - 1 /\ DOMAIN w = 0 .. VramLen - 1
  BY <1>5 DEF Unspoilt, Shape, v, w
<1>8. (GfxLoaded => GfxLoaded') /\ (PalLoaded => PalLoaded') /\ (n = len => GfxLoaded')
  BY <1>5, <1>6 DEF GfxLoaded, PalLoaded, v, w
<1>9. Screen' = Screen
  BY <1>6 DEF Screen, v, w
<1>10. Clean'
  <2>1. \A a \in 0 .. VramLen - 1 : v[a] # Garbage
    BY <1>7 DEF Clean, v
  <2>2. \A a \in 0 .. VramLen - 1 : w[a] # Garbage
    BY <1>6, <2>1, NoGarbage
  <2>3. QED
    BY <1>5, <1>7, <2>2 DEF Clean, w
<1>11. Kept'
  <2>1. FitsInVBlank' = FitsInVBlank
    BY DEF FitsInVBlank
  <2>2. QED
    BY <1>5, <1>7, <1>8, <2>1 DEF Kept, SameShown
<1>12. \A k \in Nat : len + k <= h.left => k <= hw'.left
  BY <1>4, <1>5
<1>13. QED
  BY <1>4, <1>5, <1>8, <1>9, <1>10, <1>11, <1>12

(* The last store of a copy of the palette.                                 *)
LEMMA PaletteArrives ==
  ASSUME Shape(hw), Unspoilt, program' = program,
         NEW h, Shape(h), SameMemories(h, hw),
         Programmed(h, PalCopy, 6), hw' = Put(h, mem, PalCopy[7])
  PROVE  /\ Screen' = Screen /\ Clean' /\ Kept' /\ (GfxLoaded => GfxLoaded')
         /\ h.inidisp = 0 \/ Len(Pal) <= h.left => PalLoaded'
<1>. DEFINE src == "pal"
            m == mem
            n == Taken(h, Len(Pal))
            v == hw.cgram
            w == hw'.cgram
<1>1. hw' = Transfer(h, m)
  BY DEF Put, PalCopy, dmaCopyCGram
<1>2. /\ Len(m[src]) \in Nat \ {0} /\ Len(m[src]) <= CgramLen /\ m[src] = Pal
      /\ Programmed(h, dmaCopyCGram(src, 0, Len(m[src])), 6)
  BY Buffers, MemoryAssumption DEF MemoryAssumption, PalCopy
<1>. HIDE DEF m, src
<1>3. CgramMoved(Transfer(h, m), h, m[src])
  BY <1>2, CgramTransfer
<1>4. n \in 0 .. Len(Pal) /\ (h.inidisp = 0 \/ Len(Pal) <= h.left => n = Len(Pal))
  <2>1. Len(Pal) \in Nat
    BY Buffers
  <2>2. QED
    BY <2>1, WordsTaken
<1>5. /\ Shape(hw') /\ w = Copied(v, CgramLen, 0, Pal, n)
      /\ hw'.vram = hw.vram /\ hw'.oam = hw.oam /\ SameShown(hw', hw)
  BY <1>1, <1>2, <1>3 DEF CgramMoved, SameMemories, SameShown
<1>. HIDE DEF v, w, n
<1>6. /\ n = Len(Pal) => \A k \in 1 .. Len(Pal) : w[k - 1] = Pal[k]
      /\ \A k \in 1 .. Len(Pal) : v[k - 1] = Pal[k] => w[k - 1] = Pal[k]
      /\ \A a \in 0 .. CgramLen - 1 : w[a] = v[a] \/ w[a] \in Graphics
  BY <1>4, <1>5, PalCopied
<1>7. Clean /\ Kept /\ DOMAIN v = 0 .. CgramLen - 1 /\ DOMAIN w = 0 .. CgramLen - 1
  BY <1>5 DEF Unspoilt, Shape, v, w
<1>8. Screen' = Screen /\ (GfxLoaded => GfxLoaded')
  BY <1>5 DEF Screen, GfxLoaded
<1>9. (PalLoaded => PalLoaded') /\ (n = Len(Pal) => PalLoaded')
  BY <1>6 DEF PalLoaded, v, w
<1>10. Clean'
  <2>1. \A a \in 0 .. CgramLen - 1 : v[a] # Garbage
    BY <1>7 DEF Clean, v
  <2>2. \A a \in 0 .. CgramLen - 1 : w[a] # Garbage
    BY <1>6, <2>1, NoGarbage
  <2>3. QED
    BY <1>5, <1>7, <2>2 DEF Clean, w
<1>11. Kept'
  <2>1. FitsInVBlank' = FitsInVBlank
    BY DEF FitsInVBlank
  <2>2. QED
    BY <1>5, <1>7, <1>8, <1>9, <2>1 DEF Kept, SameShown
<1>12. QED
  BY <1>4, <1>8, <1>9, <1>10, <1>11

(* The store that shows the graphics.                                       *)
LEMMA GraphicsShown ==
  ASSUME Shape(hw), Unspoilt, program' = program,
         NEW h, Shape(h), SameMemories(h, hw), NEW r \in {"obsel", "nba"},
         r = "nba" \/ FitsInVBlank => GfxLoaded /\ PalLoaded,
         hw' = Put(h, mem, <<r, GfxAddr>>)
  PROVE  Screen' = Screen /\ Clean' /\ Kept'
<1>1. hw' = [h EXCEPT ![r] = GfxAddr]
  BY DEF Put
<1>2. hw'.vram = hw.vram /\ hw'.cgram = hw.cgram /\ hw'.oam = hw.oam
  BY <1>1 DEF Shape, SameMemories
<1>3. /\ hw'.nba34 = hw.nba34
      /\ r = "nba" => hw'.obsel = hw.obsel
      /\ r = "obsel" => hw'.nba = hw.nba
  BY <1>1 DEF Shape, Registers, SameMemories, SameShown
<1>4. Screen' = Screen /\ GfxLoaded' = GfxLoaded /\ PalLoaded' = PalLoaded
      /\ FitsInVBlank' = FitsInVBlank
  BY <1>2 DEF Screen, GfxLoaded, PalLoaded, FitsInVBlank
<1>5. Clean /\ Kept
  BY DEF Unspoilt
<1>6. Clean'
  BY <1>2, <1>5 DEF Clean
<1>7. Kept'
  BY <1>3, <1>4, <1>5 DEF Kept
<1>8. QED
  BY <1>4, <1>6, <1>7

(* What a store of a copy leaves of the texts.                              *)
LEMMA CopyTexts ==
  ASSUME Unspoilt, CopyStore, pc' \in {"copy", "updated", "tiled", "loop"},
         Screen' = Screen \/ Screen' = fontMap, pc' = "updated" => Screen' = fontMap
  PROVE  /\ TextInv' /\ Waiting' /\ committed' = committed
         /\ Screen' = Screen \/ Screen' = committed
<1>1. pc = "copy" /\ TextInv
  BY DEF CopyStore, Unspoilt
<1>2. UNCHANGED <<fontMap, dirty, text, committed, program>>
  BY DEF CopyStore, textVars
<1>3. /\ "copy" \notin Loaders /\ "updated" \notin Loaders /\ "tiled" \notin Loaders
      /\ "loop" \notin Loaders
  BY VBlankAssumption DEF VBlankAssumption
<1>4. TextInv'
  BY <1>1, <1>2 DEF TextInv
<1>5. Waiting'
  BY <1>3 DEF Waiting
<1>6. QED
  BY <1>1, <1>2, <1>4, <1>5 DEF TextInv

(* A store of a copy that has not waited; the last one moves the words.     *)
LEMMA UnwaitedStep ==
  ASSUME TypeInv, Unspoilt, CopyStore, NEW c \in {FontCopy, GfxCopy}, Unwaited(c)
  PROVE  \/ /\ Screen' = Screen /\ Clean' /\ Kept' /\ pc' = "copy"
            /\ \E n \in 0 .. 6 : /\ Remain(c, 7, n)' /\ Programmed(hw', c, n)
            /\ hw'.inidisp = 0
         \/ /\ Clean' /\ Kept' /\ pc' = then
            /\ c = FontCopy => Screen' = fontMap
            /\ c = GfxCopy => Screen' = Screen /\ GfxLoaded'
<1>. DEFINE h == Picture
<1>1. PICK n \in 0 .. 6 : Remain(c, 7, n) /\ Programmed(hw, c, n)
  BY DEF Unwaited
<1>2. /\ Shape(h) /\ SameMemories(h, hw) /\ h.inidisp = 0 /\ Shape(hw)
      /\ \A r \in Registers : h[r] = hw[r]
  BY PictureSame DEF TypeInv, Unwaited
<1>3. /\ stores \in Seq(HwStores) /\ stores # <<>> /\ stores' = Tail(stores)
      /\ hw' = Put(h, mem, Head(stores)) /\ pc = "copy"
      /\ pc' = (IF Len(stores) = 1 THEN then ELSE pc) /\ program' = program
  BY DEF CopyStore, TypeInv
<1>. HIDE DEF h
<1>4. /\ Head(stores) = c[n + 1] /\ Remain(c, 7, n + 1)'
      /\ (Len(stores) = 1) = (n = 6)
  <2>1. 7 \in Nat /\ n \in 0 .. 7 - 1 /\ Remain(c, 7, n) /\ (n + 1 = 7) = (n = 6)
    BY <1>1
  <2>2. /\ Head(stores) = c[n + 1] /\ Remain(c, 7, n + 1)'
        /\ (Len(stores) = 1) = (n + 1 = 7)
    BY <1>3, <2>1, OneRemains
  <2>3. QED
    BY <2>1, <2>2
<1>5. IsCopy(c)
  BY Copies, Buffers DEF FontCopy, GfxCopy
<1>6. Programmed(h, c, n)
  BY <1>1, <1>2, <1>5 DEF Programmed, IsCopy, Registers
<1>7. CASE n # 6
  <2>1. n \in 0 .. 5 /\ n + 1 \in 0 .. 6
    BY <1>7
  <2>2. /\ Programmed(hw', c, n + 1) /\ SameRoom(hw', h)
        /\ Screen' = Screen /\ Clean' /\ Kept'
    BY <1>2, <1>3, <1>4, <1>5, <1>6, <2>1, CopyGoesOn
  <2>3. QED
    BY <1>2, <1>3, <1>4, <1>7, <2>1, <2>2 DEF SameRoom
<1>8. CASE n = 6 /\ c = FontCopy
  <2>1. hw' = Put(h, mem, FontCopy[7]) /\ Programmed(h, FontCopy, 6)
    BY <1>3, <1>4, <1>6, <1>8
  <2>2. Screen' = fontMap /\ Clean' /\ Kept'
    BY <1>2, <1>3, <2>1, MapArrives
  <2>3. FontCopy # GfxCopy
    BY DEF FontCopy, GfxCopy, dmaCopyVram
  <2>4. QED
    BY <1>3, <1>4, <1>8, <2>2, <2>3
<1>9. CASE n = 6 /\ c = GfxCopy
  <2>1. hw' = Put(h, mem, GfxCopy[7]) /\ Programmed(h, GfxCopy, 6)
    BY <1>3, <1>4, <1>6, <1>9
  <2>2. Screen' = Screen /\ Clean' /\ Kept' /\ GfxLoaded'
    BY <1>2, <1>3, <2>1, GraphicsArrive
  <2>3. FontCopy # GfxCopy
    BY DEF FontCopy, GfxCopy, dmaCopyVram
  <2>4. QED
    BY <1>3, <1>4, <1>9, <2>2, <2>3
<1>10. QED
  BY <1>7, <1>8, <1>9

(* consoleUpdate copies the map.                                            *)
LEMMA UpdateCopies ==
  ASSUME TypeInv, Unspoilt, CopyStore, Updating
  PROVE  /\ Unspoilt' /\ committed' = committed
         /\ Screen' = Screen \/ Screen' = committed
<1>1. then = "updated" /\ then' = then /\ Unwaited(FontCopy)
  BY DEF Updating, CopyStore
<1>2. CASE /\ Screen' = Screen /\ Clean' /\ Kept' /\ pc' = "copy"
           /\ \E n \in 0 .. 6 : Remain(FontCopy, 7, n)' /\ Programmed(hw', FontCopy, n)
           /\ hw'.inidisp = 0
  <2>1. \A n \in 0 .. 6 : Programmed(hw, FontCopy, n)' = Programmed(hw', FontCopy, n)
    BY DEF Programmed, FontCopy
  <2>2. Updating'
    BY <1>1, <1>2, <2>1 DEF Updating, Unwaited
  <2>3. /\ TextInv' /\ Waiting' /\ committed' = committed
        /\ Screen' = Screen \/ Screen' = committed
    BY <1>2, CopyTexts
  <2>4. QED
    BY <1>2, <2>2, <2>3 DEF Unspoilt, Copying
<1>3. CASE Clean' /\ Kept' /\ pc' = "updated" /\ Screen' = fontMap
  <2>1. /\ TextInv' /\ Waiting' /\ committed' = committed
        /\ Screen' = Screen \/ Screen' = committed
    BY <1>3, CopyTexts
  <2>2. QED
    BY <1>3, <2>1 DEF Unspoilt, Copying
<1>4. QED
  BY <1>1, <1>2, <1>3, UnwaitedStep

(* bgInitTileSetData copies its tiles.                                      *)
LEMMA TilesCopied ==
  ASSUME TypeInv, Unspoilt, CopyStore, Retiling
  PROVE  /\ Unspoilt' /\ committed' = committed
         /\ Screen' = Screen \/ Screen' = committed
<1>1. then = "tiled" /\ then' = then /\ Unwaited(GfxCopy)
  BY DEF Retiling, CopyStore
<1>2. CASE /\ Screen' = Screen /\ Clean' /\ Kept' /\ pc' = "copy"
           /\ \E n \in 0 .. 6 : Remain(GfxCopy, 7, n)' /\ Programmed(hw', GfxCopy, n)
           /\ hw'.inidisp = 0
  <2>1. \A n \in 0 .. 6 : Programmed(hw, GfxCopy, n)' = Programmed(hw', GfxCopy, n)
    BY DEF Programmed, GfxCopy
  <2>2. Retiling'
    BY <1>1, <1>2, <2>1 DEF Retiling, Unwaited
  <2>3. /\ TextInv' /\ Waiting' /\ committed' = committed
        /\ Screen' = Screen \/ Screen' = committed
    BY <1>2, CopyTexts
  <2>4. QED
    BY <1>2, <2>2, <2>3 DEF Unspoilt, Copying
<1>3. CASE Clean' /\ Kept' /\ pc' = "tiled" /\ Screen' = Screen /\ GfxLoaded'
  <2>1. /\ TextInv' /\ Waiting' /\ committed' = committed
        /\ Screen' = Screen \/ Screen' = committed
    BY <1>3, CopyTexts
  <2>2. QED
    BY <1>3, <2>1 DEF Unspoilt, Copying
<1>4. QED
  BY <1>1, <1>2, <1>3, UnwaitedStep

(* Every store of an upload leaves the screen and keeps the invariant.      *)
LEMMA UploadStep ==
  ASSUME TypeInv, Unspoilt, CopyStore, ByDma, Uploading
  PROVE  Unspoilt' /\ Screen' = Screen /\ committed' = committed
<1>. DEFINE h == Picture
            Words == Len(Gfx) + Len(Pal)
<1>1. PICK l \in Loaders, n \in 0 .. 14 :
        /\ Remain(Upload[l], 15, n)
        /\ n \in 0 .. 6 => Programmed(hw, GfxCopy, n)
        /\ n \in 7 .. 13 => Programmed(hw, PalCopy, n - 7)
        /\ Assured(l) => /\ n \in 0 .. 6 => Ahead(Words)
                         /\ n \in 7 .. 13 => Ahead(Len(Pal))
                         /\ n \in 7 .. 14 => GfxLoaded
                         /\ n = 14 => PalLoaded
  BY DEF Uploading
<1>2. /\ stores \in Seq(HwStores) /\ stores # <<>> /\ stores' = Tail(stores)
      /\ hw' = Put(h, mem, Head(stores)) /\ pc = "copy"
      /\ pc' = (IF Len(stores) = 1 THEN then ELSE pc)
      /\ fresh' = (fresh /\ Head(stores)[1] # "vmdata") /\ fresh
      /\ program' = program /\ then' = "loop" /\ then = "loop"
  BY DEF CopyStore, TypeInv, Uploading
<1>3. /\ Shape(h) /\ SameMemories(h, hw) /\ Shape(hw)
      /\ \A r \in Registers : h[r] = hw[r]
      /\ h.inidisp = hw.inidisp /\ h.left = hw.left
  BY <1>2, PictureSame DEF TypeInv
<1>. HIDE DEF h
<1>4. /\ Head(stores) = Upload[l][n + 1] /\ Remain(Upload[l], 15, n + 1)'
      /\ (Len(stores) = 1) = (n = 14)
  <2>. DEFINE u == Upload[l]
  <2>1. 15 \in Nat /\ n \in 0 .. 15 - 1 /\ Remain(u, 15, n) /\ (n + 1 = 15) = (n = 14)
    BY <1>1
  <2>. HIDE DEF u
  <2>2. /\ Head(stores) = u[n + 1] /\ Remain(u, 15, n + 1)'
        /\ (Len(stores) = 1) = (n + 1 = 15)
    BY <1>2, <2>1, OneRemains
  <2>3. QED
    BY <2>1, <2>2 DEF u
<1>5. /\ \A k \in 1 .. 7 : Upload[l][k] = GfxCopy[k] /\ Upload[l][7 + k] = PalCopy[k]
      /\ Upload[l][15] = IF l = "bgInitTileSet" THEN <<"nba", GfxAddr>>
                                                ELSE <<"obsel", GfxAddr>>
  BY StoreSequences DEF ByDma
<1>6. IsCopy(GfxCopy) /\ IsCopy(PalCopy)
  BY Copies, Buffers DEF GfxCopy, PalCopy
<1>7. /\ n \in 0 .. 6 => Head(stores) = GfxCopy[n + 1]
      /\ n \in 7 .. 13 => Head(stores) = PalCopy[n - 6]
      /\ n = 14 => Head(stores) = IF l = "bgInitTileSet" THEN <<"nba", GfxAddr>>
                                                         ELSE <<"obsel", GfxAddr>>
  <2>1. n \in 0 .. 6 => n + 1 \in 1 .. 7
    OBVIOUS
  <2>2. n \in 7 .. 13 => n - 6 \in 1 .. 7 /\ 7 + (n - 6) = n + 1
    OBVIOUS
  <2>3. QED
    BY <1>4, <1>5, <2>1, <2>2
<1>8. Head(stores)[1] # "vmdata" /\ fresh'
  <2>1. \A k \in 1 .. 7 : GfxCopy[k][1] # "vmdata" /\ PalCopy[k][1] # "vmdata"
    <3>1. \A k \in 1 .. 7 : k = 7 \/ k \in 1 .. 6
      OBVIOUS
    <3>2. QED
      BY <1>6, <3>1 DEF IsCopy, Channel
  <2>2. n \in 0 .. 6 \/ n \in 7 .. 13 \/ n = 14
    OBVIOUS
  <2>3. CASE n \in 0 .. 6
    <3>1. n + 1 \in 1 .. 7 /\ Head(stores) = GfxCopy[n + 1]
      BY <1>7, <2>3
    <3>2. QED
      BY <1>2, <2>1, <3>1
  <2>4. CASE n \in 7 .. 13
    <3>1. n - 6 \in 1 .. 7 /\ Head(stores) = PalCopy[n - 6]
      BY <1>7, <2>4
    <3>2. QED
      BY <1>2, <2>1, <3>1
  <2>5. CASE n = 14
    <3>1. Head(stores) \in {<<"nba", GfxAddr>>, <<"obsel", GfxAddr>>}
      BY <1>7, <2>5
    <3>2. Head(stores)[1] \in {"nba", "obsel"}
      BY <3>1
    <3>3. QED
      BY <1>2, <3>2
  <2>6. QED
    BY <2>2, <2>3, <2>4, <2>5
<1>9. /\ n = 14 => pc' = "loop"
      /\ n # 14 => pc' = "copy" /\ n + 1 \in 0 .. 14
  BY <1>2, <1>4
<1>10. /\ \A k : Ahead(k) => h.inidisp = 0 \/ k <= h.left
       /\ FitsInVBlank' = FitsInVBlank /\ Assured(l)' = Assured(l)
  BY <1>2, <1>3 DEF Ahead, Assured, FitsInVBlank
<1>11. ASSUME Screen' = Screen, Clean', Kept',
              n # 14 =>
                /\ n + 1 \in 0 .. 6 => Programmed(hw', GfxCopy, n + 1)
                /\ n + 1 \in 7 .. 13 => Programmed(hw', PalCopy, (n + 1) - 7)
                /\ Assured(l) => /\ n + 1 \in 0 .. 6 => Ahead(Words)'
                                 /\ n + 1 \in 7 .. 13 => Ahead(Len(Pal))'
                                 /\ n + 1 \in 7 .. 14 => GfxLoaded'
                                 /\ n + 1 = 14 => PalLoaded'
       PROVE  Unspoilt' /\ Screen' = Screen /\ committed' = committed
  <2>1. TextInv' /\ Waiting' /\ committed' = committed
    BY <1>9, <1>11, CopyTexts
  <2>2. CASE n = 14
    BY <1>9, <1>11, <2>1, <2>2 DEF Unspoilt, Copying
  <2>3. CASE n # 14
    <3>1. /\ Programmed(hw', GfxCopy, n + 1) = Programmed(hw, GfxCopy, n + 1)'
          /\ Programmed(hw', PalCopy, (n + 1) - 7) = Programmed(hw, PalCopy, (n + 1) - 7)'
      BY DEF Programmed, GfxCopy, PalCopy
    <3>2. Uploading'
      BY <1>2, <1>4, <1>8, <1>9, <1>10, <1>11, <2>3, <3>1 DEF Uploading
    <3>3. QED
      BY <1>9, <1>11, <2>1, <2>3, <3>2 DEF Unspoilt, Copying
  <2>4. QED
    BY <2>2, <2>3
<1>12. /\ \A k \in 1 .. 6 : GfxCopy[k][1] \in Registers /\ PalCopy[k][1] \in Registers
       /\ n \in 0 .. 6 => Programmed(h, GfxCopy, n)
       /\ n \in 7 .. 13 => Programmed(h, PalCopy, n - 7)
  <2>1. \A k \in 1 .. 6 : GfxCopy[k][1] \in Registers /\ PalCopy[k][1] \in Registers
    BY <1>6 DEF IsCopy, Registers
  <2>2. \A i \in 0 .. 6 : /\ Programmed(hw, GfxCopy, i) => Programmed(h, GfxCopy, i)
                          /\ Programmed(hw, PalCopy, i) => Programmed(h, PalCopy, i)
    BY <1>3, <2>1 DEF Programmed
  <2>3. n \in 7 .. 13 => n - 7 \in 0 .. 6
    OBVIOUS
  <2>4. QED
    BY <1>1, <2>1, <2>2, <2>3
<1>13. \A k : SameRoom(hw', h) => Ahead(k)' = Ahead(k)
  BY <1>3 DEF SameRoom, Ahead
<1>14. CASE n \in 0 .. 5
  <2>1. n # 14 /\ n + 1 \in 0 .. 6 /\ n \in 0 .. 6 /\ n + 1 # 14
        /\ ~(n + 1 \in 7 .. 13) /\ ~(n + 1 \in 7 .. 14)
    BY <1>14
  <2>2. /\ Programmed(hw', GfxCopy, n + 1) /\ SameRoom(hw', h)
        /\ Screen' = Screen /\ Clean' /\ Kept'
    BY <1>2, <1>3, <1>6, <1>7, <1>12, <1>14, <2>1, CopyGoesOn
  <2>3. Assured(l) => Ahead(Words)'
    BY <1>1, <1>13, <2>1, <2>2
  <2>4. QED
    BY <1>11, <2>1, <2>2, <2>3
<1>15. CASE n = 6
  <2>1. n # 14 /\ n + 1 = 7 /\ n \in 0 .. 6 /\ (6 + 1) - 7 = 0
    BY <1>15
  <2>2. /\ Screen' = Screen /\ Clean' /\ Kept'
        /\ h.inidisp = 0 \/ Len(Gfx) <= h.left => GfxLoaded'
        /\ hw'.inidisp = h.inidisp
        /\ \A k \in Nat : Len(Gfx) + k <= h.left => k <= hw'.left
    BY <1>2, <1>3, <1>7, <1>12, <1>15, GraphicsArrive
  <2>3. Len(Gfx) \in Nat /\ Len(Pal) \in Nat /\ h.left \in Nat
    BY <1>3, Buffers, RoomAssumption DEF Shape, RoomAssumption
  <2>4. Assured(l) => GfxLoaded' /\ Ahead(Len(Pal))'
    <3>1. Assured(l) => h.inidisp = 0 \/ Words <= h.left
      BY <1>1, <1>10, <2>1
    <3>2. Words <= h.left => Len(Gfx) <= h.left /\ Len(Pal) <= hw'.left
      BY <2>2, <2>3
    <3>3. QED
      BY <2>2, <3>1, <3>2 DEF Ahead
  <2>5. Programmed(hw', PalCopy, (n + 1) - 7)
    BY <2>1 DEF Programmed
  <2>6. QED
    BY <1>11, <2>1, <2>2, <2>4, <2>5
<1>16. CASE n \in 7 .. 12
  <2>. DEFINE i == n - 7
  <2>1. /\ n \in 7 .. 13 /\ n \in 7 .. 14 /\ i \in 0 .. 5 /\ i + 1 = n - 6
        /\ n # 14 /\ n + 1 # 14 /\ ~(n + 1 \in 0 .. 6) /\ (n + 1) - 7 = i + 1
    BY <1>16
  <2>2. Programmed(h, PalCopy, i) /\ hw' = Put(h, mem, PalCopy[i + 1])
    BY <1>2, <1>7, <1>12, <2>1
  <2>. HIDE DEF i
  <2>3. /\ Programmed(hw', PalCopy, i + 1) /\ SameRoom(hw', h)
        /\ Screen' = Screen /\ Clean' /\ Kept' /\ (GfxLoaded => GfxLoaded')
    BY <1>2, <1>3, <1>6, <2>1, <2>2, CopyGoesOn
  <2>4. Assured(l) => Ahead(Len(Pal))' /\ GfxLoaded'
    BY <1>1, <1>13, <2>1, <2>3
  <2>5. QED
    BY <1>11, <2>1, <2>3, <2>4
<1>17. CASE n = 13
  <2>1. /\ Screen' = Screen /\ Clean' /\ Kept' /\ (GfxLoaded => GfxLoaded')
        /\ h.inidisp = 0 \/ Len(Pal) <= h.left => PalLoaded'
    <3>1. Programmed(h, PalCopy, 6) /\ hw' = Put(h, mem, PalCopy[7])
      BY <1>2, <1>7, <1>12, <1>17
    <3>2. QED
      BY <1>2, <1>3, <3>1, PaletteArrives
  <2>2. Assured(l) => GfxLoaded' /\ PalLoaded'
    BY <1>1, <1>10, <1>17, <2>1
  <2>3. QED
    BY <1>11, <1>17, <2>1, <2>2
<1>18. CASE n = 14
  <2>. DEFINE r == IF l = "bgInitTileSet" THEN "nba" ELSE "obsel"
  <2>1. hw' = Put(h, mem, <<r, GfxAddr>>) /\ r \in {"obsel", "nba"}
    BY <1>2, <1>7, <1>18
  <2>2. r = "nba" \/ FitsInVBlank => GfxLoaded /\ PalLoaded
    BY <1>1, <1>18 DEF Assured
  <2>. HIDE DEF r
  <2>3. Screen' = Screen /\ Clean' /\ Kept'
    BY <1>2, <1>3, <2>1, <2>2, GraphicsShown
  <2>4. QED
    BY <1>11, <1>18, <2>3
<1>19. QED
  <2>1. n \in 0 .. 5 \/ n = 6 \/ n \in 7 .. 12 \/ n = 13 \/ n = 14
    OBVIOUS
  <2>2. QED
    BY <1>14, <1>15, <1>16, <1>17, <1>18, <2>1

(* Steps of the program that copy nothing.                                  *)
LEMMA NothingCopied ==
  ASSUME TypeInv, Unspoilt, program' = program,
         hw' = hw \/ hw' = [hw EXCEPT !.inidisp = 0] \/ hw' = [hw EXCEPT !.inidisp = 15]
  PROVE  /\ Screen' = Screen /\ Clean' /\ Kept'
<1>1. Shape(hw)
  BY DEF TypeInv
<1>2. Shape(hw') /\ SameMemories(hw', hw)
  <2>1. CASE hw' = hw
    BY <1>1, <2>1 DEF SameMemories, SameShown
  <2>2. CASE hw' = [hw EXCEPT !.inidisp = 0]
    BY <1>1, <2>2, RegisterShape
  <2>3. CASE hw' = [hw EXCEPT !.inidisp = 15]
    BY <1>1, <2>3, RegisterShape
  <2>4. QED
    BY <2>1, <2>2, <2>3
<1>3. QED
  BY <1>1, <1>2, MemoriesLeft DEF Unspoilt

(* The texts are printed.                                                   *)
LEMMA TextsDrawn ==
  ASSUME TypeInv, Unspoilt, program' = program, consoleDrawText \/ PrintChar \/ DrawDone
  PROVE  Unspoilt' /\ Screen' = Screen /\ committed' \in [Cells -> Cell]
<1>1. hw' = hw
  BY DEF consoleDrawText, PrintChar, DrawDone
<1>2. Screen' = Screen /\ Clean' /\ Kept'
  BY <1>1, NothingCopied
<1>3. TextInv
  BY DEF Unspoilt
<1>4. "print" \notin Loaders /\ "loop" \notin Loaders
  BY VBlankAssumption DEF VBlankAssumption
<1>5. CASE consoleDrawText
  <2>1. PICK t \in Texts : text' = t[2]
    BY <1>5 DEF consoleDrawText
  <2>2. text' \in Seq(Characters)
    BY <2>1, VBlankAssumption DEF VBlankAssumption
  <2>3. /\ pc' = "print" /\ dirty' = 2 /\ UNCHANGED <<fontMap, committed, then>>
        /\ "text" \in program
    BY <1>5 DEF consoleDrawText, Call
  <2>4. TextInv'
    BY <1>3, <2>2, <2>3 DEF TextInv
  <2>5. Waiting' /\ Copying'
    BY <1>4, <2>3 DEF Waiting, Copying
  <2>6. QED
    BY <1>2, <1>3, <2>3, <2>4, <2>5 DEF Unspoilt, TextInv
<1>6. CASE PrintChar
  <2>1. /\ pc = "print" /\ text # <<>> /\ text' = Tail(text)
        /\ fontMap' = fontMap \/ fontMap' = [fontMap EXCEPT ![cell] = Head(text)]
        /\ UNCHANGED <<dirty, committed, pc, then>>
    BY <1>6 DEF PrintChar, ctlVars
  <2>2. Head(text) \in Characters /\ text' \in Seq(Characters)
    <3>1. text \in Seq(Characters)
      BY <1>3 DEF TextInv
    <3>2. QED
      BY <2>1, <3>1, OneStoreLess
  <2>3. fontMap' \in [Cells -> Cell]
    <3>1. fontMap \in [Cells -> Cell] /\ Head(text) \in Cell
      BY <1>3, <2>2 DEF TextInv, Cell
    <3>2. QED
      BY <2>1, <3>1
  <2>4. dirty = 2
    BY <1>3, <2>1 DEF TextInv
  <2>5. TextInv'
    BY <1>3, <2>1, <2>2, <2>3, <2>4 DEF TextInv
  <2>6. Waiting' /\ Copying'
    BY <1>4, <2>1 DEF Waiting, Copying
  <2>7. QED
    BY <1>2, <1>3, <2>1, <2>5, <2>6 DEF Unspoilt, TextInv
<1>7. CASE DrawDone
  <2>1. /\ pc = "print" /\ pc' = "loop" /\ dirty' = 1 /\ committed' = fontMap
        /\ UNCHANGED <<fontMap, text, then>>
    BY <1>7 DEF DrawDone
  <2>2. dirty = 2 /\ "text" \in program
    BY <1>3, <2>1 DEF TextInv
  <2>3. TextInv'
    BY <1>3, <2>1, <2>2 DEF TextInv
  <2>4. Waiting' /\ Copying'
    BY <1>4, <2>1 DEF Waiting, Copying
  <2>5. QED
    BY <1>2, <1>3, <2>1, <2>3, <2>4 DEF Unspoilt, TextInv
<1>8. QED
  BY <1>5, <1>6, <1>7

(* No store of a copy has been made yet.                                    *)
LEMMA UnwaitedBegins ==
  ASSUME NEW c \in {FontCopy, GfxCopy}, stores' = c, hw'.inidisp = 0
  PROVE  /\ hw'.inidisp = 0
         /\ \E n \in 0 .. 6 : Remain(c, 7, n)' /\ Programmed(hw', c, n)
<1>1. Len(c) = 7 - 0 /\ \A k \in 1 .. 7 - 0 : c[k] = c[0 + k]
  BY StoreSequences
<1>2. Remain(c, 7, 0)'
  BY <1>1 DEF Remain
<1>3. Programmed(hw', c, 0) /\ 0 \in 0 .. 6
  BY DEF Programmed
<1>4. QED
  BY <1>2, <1>3

(* consoleUpdate and bgInitTileSetData turn the screen off and begin.       *)
LEMMA UnwaitedCalls ==
  ASSUME TypeInv, Unspoilt, program' = program, consoleUpdate \/ bgInitTileSetData
  PROVE  Unspoilt' /\ Screen' = Screen /\ committed' = committed
<1>1. /\ pc = "loop" /\ UNCHANGED <<fontMap, dirty, committed, text>>
      /\ hw' = hw \/ hw' = [hw EXCEPT !.inidisp = 0]
  BY DEF consoleUpdate, bgInitTileSetData, Call, textVars
<1>2. /\ "copy" \notin Loaders /\ "loop" \notin Loaders
  BY VBlankAssumption DEF VBlankAssumption
<1>3. Screen' = Screen /\ Clean' /\ Kept'
  BY <1>1, NothingCopied
<1>4. TextInv /\ "inidisp" \in DOMAIN hw
  BY DEF Unspoilt, TypeInv, Shape, Registers
<1>5. /\ \A n \in 0 .. 6 : Programmed(hw, FontCopy, n)' = Programmed(hw', FontCopy, n)
      /\ \A n \in 0 .. 6 : Programmed(hw, GfxCopy, n)' = Programmed(hw', GfxCopy, n)
  BY DEF Programmed, FontCopy, GfxCopy
<1>6. CASE UNCHANGED <<pc, then>>
  <2>1. TextInv' /\ Waiting' /\ Copying'
    BY <1>1, <1>2, <1>3, <1>4, <1>6 DEF TextInv, Waiting, Copying
  <2>2. QED
    BY <1>1, <1>3, <2>1 DEF Unspoilt
<1>7. ASSUME pc' = "copy", Updating' \/ Retiling'
      PROVE  Unspoilt' /\ Screen' = Screen /\ committed' = committed
  <2>1. TextInv' /\ Waiting' /\ Copying'
    BY <1>1, <1>2, <1>3, <1>4, <1>7 DEF TextInv, Waiting, Copying
  <2>2. QED
    BY <1>1, <1>3, <2>1 DEF Unspoilt
<1>8. CASE /\ hw' = [hw EXCEPT !.inidisp = 0] /\ stores' = FontCopy
           /\ pc' = "copy" /\ then' = "updated"
  <2>1. hw'.inidisp = 0
    BY <1>4, <1>8
  <2>2. Updating'
    BY <1>5, <1>8, <2>1, UnwaitedBegins DEF Updating, Unwaited
  <2>3. QED
    BY <1>7, <1>8, <2>2
<1>9. CASE /\ hw' = [hw EXCEPT !.inidisp = 0] /\ stores' = GfxCopy
           /\ pc' = "copy" /\ then' = "tiled"
  <2>1. hw'.inidisp = 0
    BY <1>4, <1>9
  <2>2. Retiling'
    BY <1>5, <1>9, <2>1, UnwaitedBegins DEF Retiling, Unwaited
  <2>3. QED
    BY <1>7, <1>9, <2>2
<1>10. QED
  BY <1>6, <1>8, <1>9 DEF consoleUpdate, bgInitTileSetData, FontCopy, GfxCopy

(* A function that has waited begins its copies.                            *)
LEMMA CopiesBegin ==
  ASSUME TypeInv, Unspoilt, program' = program, ByDma, UploadCopies
  PROVE  Unspoilt' /\ Screen' = Screen /\ committed' = committed
<1>1. TextInv /\ Waiting
  BY DEF Unspoilt
<1>2. "copy" \notin Loaders /\ "loop" \notin Loaders /\ "print" \notin Loaders
      /\ "updated" \notin Loaders
  BY VBlankAssumption DEF VBlankAssumption
<1>3. /\ hw' = hw /\ pc \in Loaders /\ pc' = "copy" /\ then' = "loop"
      /\ stores' = Upload[pc] /\ UNCHANGED <<fresh, fontMap, dirty, committed, text>>
  BY DEF UploadCopies, textVars
<1>4. Screen' = Screen /\ Clean' /\ Kept'
  BY <1>3, NothingCopied
<1>5. TextInv'
  BY <1>1, <1>2, <1>3, <1>4 DEF TextInv
<1>6. Uploading'
  <2>1. PICK l \in Loaders : pc = l
    BY <1>3
  <2>2. Remain(Upload[l], 15, 0)'
    <3>. DEFINE u == Upload[l]
    <3>1. Len(u) = 15
      BY <2>1, StoreSequences DEF ByDma
    <3>2. stores' = u
      BY <1>3, <2>1
    <3>. HIDE DEF u
    <3>3. stores' = u /\ Len(u) = 15 - 0 /\ \A k \in 1 .. 15 - 0 : u[k] = u[0 + k]
      BY <3>1, <3>2
    <3>4. Remain(u, 15, 0)'
      BY <3>3 DEF Remain
    <3>5. QED
      BY <3>4 DEF u
  <2>3. fresh' /\ (Assured(l) => Ahead(Len(Gfx) + Len(Pal)))
    BY <1>1, <1>3, <2>1 DEF Waiting
  <2>4. /\ Assured(l)' = Assured(l)
        /\ Ahead(Len(Gfx) + Len(Pal))' = Ahead(Len(Gfx) + Len(Pal))
    BY <1>3 DEF Assured, FitsInVBlank, Ahead
  <2>5. Programmed(hw, GfxCopy, 0)'
    BY DEF Programmed
  <2>6. 0 \in 0 .. 14 /\ 0 \notin 7 .. 13 /\ 0 \notin 7 .. 14 /\ 0 # 14
    OBVIOUS
  <2>7. QED
    BY <1>3, <2>2, <2>3, <2>4, <2>5, <2>6 DEF Uploading
<1>7. Waiting'
  BY <1>2, <1>3 DEF Waiting
<1>8. QED
  BY <1>3, <1>4, <1>5, <1>6, <1>7 DEF Unspoilt, Copying

(* The tiles of the other background are shown.                             *)
LEMMA TilesShown ==
  ASSUME TypeInv, Unspoilt, program' = program, bgSetGfxPtr
  PROVE  Unspoilt' /\ Screen' = Screen /\ committed' = committed
<1>1. /\ hw' = [hw EXCEPT !.nba34 = GfxAddr] /\ pc = "tiled" /\ pc' = "loop"
      /\ UNCHANGED <<fontMap, dirty, committed, text, then>>
  BY DEF bgSetGfxPtr, textVars
<1>2. /\ hw'.vram = hw.vram /\ hw'.cgram = hw.cgram /\ hw'.oam = hw.oam
      /\ hw'.obsel = hw.obsel /\ hw'.nba = hw.nba
  BY <1>1 DEF TypeInv, Shape, Registers
<1>3. TextInv /\ Clean /\ Kept /\ GfxLoaded
  BY <1>1 DEF Unspoilt, Copying
<1>4. Screen' = Screen /\ Clean'
  BY <1>2, <1>3 DEF Screen, Clean
<1>5. Kept'
  <2>1. GfxLoaded' /\ (PalLoaded => PalLoaded') /\ FitsInVBlank' = FitsInVBlank
    BY <1>2, <1>3 DEF GfxLoaded, PalLoaded, FitsInVBlank
  <2>2. QED
    BY <1>2, <1>3, <2>1 DEF Kept
<1>6. "loop" \notin Loaders
  BY VBlankAssumption DEF VBlankAssumption
<1>7. TextInv' /\ Waiting' /\ Copying'
  BY <1>1, <1>3, <1>4, <1>6 DEF TextInv, Waiting, Copying
<1>8. QED
  BY <1>1, <1>4, <1>5, <1>7 DEF Unspoilt

(* The other steps of the program.                                          *)
LEMMA RestLeft ==
  ASSUME TypeInv, Unspoilt, program' = program, ByDma,
         \/ UNCHANGED vars
         \/ WaitForVBlank \/ UpdateDone \/ UploadCall \/ setBrightness \/ nmiSet
         \/ NmiStore \/ SpriteCall \/ SpriteStore
         \/ padsCall \/ LoadKeys \/ PadsReturn \/ padsClear
  PROVE  Unspoilt' /\ Screen' = Screen /\ committed' = committed
<1>1. TextInv
  BY DEF Unspoilt
<1>2. /\ "copy" \notin Loaders /\ "loop" \notin Loaders /\ "wai" \notin Loaders
      /\ "nmiSet" \notin Loaders /\ "sprite" \notin Loaders /\ "poll" \notin Loaders
  BY VBlankAssumption DEF VBlankAssumption
<1>3. hw' = hw \/ hw' = [hw EXCEPT !.inidisp = 0] \/ hw' = [hw EXCEPT !.inidisp = 15]
  BY DEF WaitForVBlank, UpdateDone, UploadCall, setBrightness, nmiSet, NmiStore,
     SpriteCall, SpriteStore, padsCall, LoadKeys, PadsReturn, padsClear, vars
<1>4. Screen' = Screen /\ Clean' /\ Kept'
  BY <1>3, NothingCopied
<1>5. CASE UNCHANGED vars
  <2>1. UNCHANGED <<fontMap, dirty, committed, text, pc, then, stores, fresh, hw>>
    BY <1>5 DEF vars, textVars, ctlVars
  <2>2. TextInv'
    BY <1>1, <1>4, <2>1 DEF TextInv
  <2>3. Waiting'
    BY <2>1 DEF Unspoilt, Waiting, Assured, Ahead, FitsInVBlank
  <2>4. Copying'
    <3>1. (Updating => Updating') /\ (Retiling => Retiling')
      BY <2>1 DEF Updating, Retiling, Unwaited, Remain, Programmed
    <3>2. Uploading => Uploading'
      BY <2>1, ZenonT(60) DEF Uploading, Remain, GfxLoaded, PalLoaded, Programmed,
         Assured, Ahead, FitsInVBlank
    <3>3. GfxLoaded => GfxLoaded'
      BY <2>1 DEF GfxLoaded
    <3>4. QED
      BY <2>1, <3>1, <3>2, <3>3 DEF Unspoilt, Copying
  <2>5. QED
    BY <1>4, <2>1, <2>2, <2>3, <2>4 DEF Unspoilt
<1>6. ASSUME TextInv', committed' = committed,
             pc' \in {"loop", "nmiSet", "sprite", "poll"} \/ (pc' = "wai" /\ Waiting')
      PROVE  Unspoilt' /\ Screen' = Screen /\ committed' = committed
  <2>1. Waiting'
    BY <1>2, <1>6 DEF Waiting
  <2>2. Copying'
    BY <1>6 DEF Copying
  <2>3. QED
    BY <1>4, <1>6, <2>1, <2>2 DEF Unspoilt
<1>7. CASE WaitForVBlank
  <2>1. /\ pc = "loop" /\ pc' = "wai" /\ then' = "loop"
        /\ UNCHANGED <<fontMap, dirty, committed, text>>
    BY <1>7 DEF WaitForVBlank, textVars
  <2>2. TextInv' /\ Waiting'
    BY <1>1, <1>2, <1>4, <2>1 DEF TextInv, Waiting
  <2>3. QED
    BY <1>6, <2>1, <2>2
<1>8. CASE UpdateDone
  <2>1. /\ pc = "updated" /\ pc' = "loop" /\ dirty' = 0
        /\ UNCHANGED <<fontMap, committed, text>>
    BY <1>8 DEF UpdateDone
  <2>2. TextInv'
    BY <1>1, <1>4, <2>1 DEF TextInv
  <2>3. QED
    BY <1>6, <2>1, <2>2
<1>9. CASE UploadCall
  <2>1. PICK l \in Loaders :
          /\ pc = "loop" /\ pc' = "wai" /\ then' = l
          /\ hw' = IF l = "oamInitGfxSet" THEN hw ELSE [hw EXCEPT !.inidisp = 0]
          /\ UNCHANGED <<fontMap, dirty, committed, text>>
    BY <1>9 DEF UploadCall, Call, textVars
  <2>2. TextInv'
    BY <1>1, <1>4, <2>1 DEF TextInv
  <2>3. l = "bgInitTileSet" => hw'.inidisp = 0
    BY <2>1 DEF TypeInv, Shape, Registers
  <2>4. Waiting'
    BY <1>2, <2>1, <2>3 DEF Waiting
  <2>5. QED
    BY <1>6, <2>1, <2>2, <2>4
<1>10. CASE setBrightness \/ padsClear
  <2>1. /\ pc = "loop" /\ pc' = "loop" /\ UNCHANGED <<fontMap, dirty, committed, text>>
    BY <1>10 DEF setBrightness, padsClear, Call, textVars
  <2>2. QED
    BY <1>1, <1>4, <1>6, <2>1 DEF TextInv
<1>11. CASE nmiSet \/ SpriteCall \/ padsCall
  <2>1. /\ pc = "loop" /\ pc' \in {"nmiSet", "sprite", "poll"}
        /\ UNCHANGED <<fontMap, dirty, committed, text>>
    BY <1>11 DEF nmiSet, SpriteCall, padsCall, Call, textVars
  <2>2. QED
    BY <1>1, <1>4, <1>6, <2>1 DEF TextInv
<1>12. CASE NmiStore \/ SpriteStore
  <2>1. /\ pc \in {"nmiSet", "sprite"} /\ pc' \in {"nmiSet", "sprite", "loop"}
        /\ UNCHANGED <<fontMap, dirty, committed, text>>
    BY <1>12 DEF NmiStore, SpriteStore, textVars
  <2>2. QED
    BY <1>1, <1>4, <1>6, <2>1 DEF TextInv
<1>13. CASE LoadKeys \/ PadsReturn
  <2>1. /\ pc = "poll" /\ pc' \in {"poll", "loop"}
        /\ UNCHANGED <<fontMap, dirty, committed, text>>
    BY <1>13 DEF LoadKeys, PadsReturn, textVars, ctlVars
  <2>2. QED
    BY <1>1, <1>4, <1>6, <2>1 DEF TextInv
<1>14. QED
  BY <1>5, <1>7, <1>8, <1>9, <1>10, <1>11, <1>12, <1>13

(* Until a copy is torn every step keeps the invariant, and shows the whole *)
(* text if it shows anything new.                                           *)
LEMMA ScreenStep ==
  ASSUME TypeInv, SpriteInv, Unspoilt, ByDma, [Next]_vars, ~torn'
  PROVE  /\ Unspoilt'
         /\ \/ Screen' = Screen
            \/ Screen' = committed /\ committed' = committed
         /\ committed' = committed \/ committed' \in [Cells -> Cell]
<1>1. program' = program
  BY ProgramStays
<1>2. CASE VBlank
  BY <1>2, ScreenInterrupted DEF VBlank
<1>3. CASE consoleDrawText \/ PrintChar \/ DrawDone
  BY <1>1, <1>3, TextsDrawn
<1>4. CASE consoleUpdate \/ bgInitTileSetData
  BY <1>1, <1>4, UnwaitedCalls
<1>5. CASE UploadCopies \/ bgSetGfxPtr
  BY <1>1, <1>5, CopiesBegin, TilesShown
<1>6. CASE CopyStore
  <2>1. Updating \/ Retiling \/ Uploading
    BY <1>6 DEF CopyStore, Unspoilt, Copying
  <2>2. committed' = committed
    BY <1>6 DEF CopyStore, textVars
  <2>3. QED
    BY <1>6, <2>1, <2>2, UpdateCopies, TilesCopied, UploadStep
<1>7. QED
  BY <1>1, <1>2, <1>3, <1>4, <1>5, <1>6, RestLeft DEF Next, Program

(* The invariant holds throughout.                                          *)
LEMMA ScreenHolds ==
  ASSUME ByDma
  PROVE  Spec => []ScreenInv
<1>1. TypeInv /\ SpriteInv /\ ScreenInv /\ [Next]_vars => ScreenInv'
  BY ScreenStep, ProgramStays DEF ScreenInv
<1>2. Init => ScreenInv
  BY InitScreen DEF ScreenInv
<1>3. QED
  BY <1>1, <1>2, Typed, SpritesSettle, PTL DEF Spec

(* Until an interrupt tears a copy that has not waited for it, a clean flag *)
(* means that the screen shows the map, for every map and every set of      *)
(* texts and of programs that upload by DMA.                                *)
THEOREM CleanMapCorrect ==
  ASSUME ByDma
  PROVE  Spec => []CleanMapShown
<1>1. ScreenInv => CleanMapShown
  BY DEF ScreenInv, Unspoilt, TextInv, CleanMapShown
<1>2. QED
  BY <1>1, ScreenHolds, PTL

(* Until then no memory holds a word that is in none of the buffers: the    *)
(* interrupt may come before the first store of a copy that does not wait,  *)
(* and the handler's own copies leave the channel for it to set up again.   *)
THEOREM WordsCorrect ==
  ASSUME ByDma
  PROVE  Spec => []NoForeignWord
<1>1. ScreenInv => NoForeignWord
  BY DEF ScreenInv, Unspoilt, Clean, NoForeignWord
<1>2. QED
  BY <1>1, ScreenHolds, PTL

(* Until then the graphics that are shown are whole: of backgrounds those   *)
(* of any length, which arrive while the screen is off, of sprites those    *)
(* that fit in a VBlank after what the handler copies.                      *)
THEOREM UploadsCorrect ==
  ASSUME ByDma
  PROVE  Spec => []UploadKept
<1>1. ScreenInv => UploadKept
  BY DEF ScreenInv, Unspoilt, Kept, UploadKept
<1>2. QED
  BY <1>1, ScreenHolds, PTL

(* The console implements TextScreen: a step that changes what is seen is a *)
(* whole drawing or a refresh, or tears a copy.                             *)
THEOREM TextScreenImplemented ==
  ASSUME ByDma
  PROVE  Spec => WholeTextsOnly
<1>1. Init => Text!Init
  <2>1. ASSUME Init PROVE Screen = fontMap
    BY <2>1, InitScreen DEF Unspoilt, TextInv, Init
  <2>2. QED
    BY <2>1 DEF Init, Text!Init
<1>2. TypeInv /\ SpriteInv /\ ScreenInv /\ [Next]_vars
        => [Text!Next]_<<committed, Screen, torn>>
  <2>1. SUFFICES ASSUME TypeInv, SpriteInv, ScreenInv, [Next]_vars
                 PROVE  [Text!Next]_<<committed, Screen, torn>>
    OBVIOUS
  <2>2. CASE torn'
    BY <2>2 DEF Text!Next, Text!Spoil
  <2>3. CASE ~torn'
    <3>1. Unspoilt /\ torn' = torn
      <4>1. ~torn
        BY <2>1, <2>3, ProgramStays
      <4>2. torn \in BOOLEAN /\ torn' \in BOOLEAN
        BY <2>1, TypeStep DEF TypeInv
      <4>3. torn = FALSE /\ torn' = FALSE
        BY <2>3, <4>1, <4>2
      <4>4. QED
        BY <2>1, <4>3 DEF ScreenInv
    <3>2. /\ \/ Screen' = Screen
             \/ Screen' = committed /\ committed' = committed
          /\ committed' = committed \/ committed' \in [Cells -> Cell]
      BY <2>1, <2>3, <3>1, ScreenStep
    <3>3. QED
      BY <3>1, <3>2 DEF Text!Next, Text!Draw, Text!Refresh, Cell
  <2>4. QED
    BY <2>2, <2>3
<1>3. Spec => []ScreenInv
  BY ScreenHolds
<1>4. QED
  BY <1>1, <1>2, <1>3, Typed, SpritesSettle, PTL
     DEF Spec, WholeTextsOnly, Text!Spec
=============================================================================
