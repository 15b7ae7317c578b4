-------------------------- MODULE MapReaderProofs ---------------------------
(***************************************************************************)
(* Reading a map cell by cell is exact whatever the width of a coordinate  *)
(* and the numbers of chunks and cells: each character comes into a place  *)
(* of its own, and the neighbours and the order of cells are right.        *)
(***************************************************************************)
EXTENDS MapReader, TLAPS

-----------------------------------------------------------------------------
(* Arithmetic.                                                             *)

LEMMA TimesMonotone ==
  ASSUME NEW k \in Nat, NEW a \in Int, NEW b \in Int, a <= b
  PROVE  k * a <= k * b
OBVIOUS

LEMMA TimesNext ==
  ASSUME NEW k \in Int, NEW c \in Int
  PROVE  k * c \in Int /\ (k + 1) * c = k * c + c
OBVIOUS

LEMMA Division ==
  ASSUME NEW n \in Nat, NEW d \in Nat, d > 0
  PROVE  /\ n = d * (n \div d) + (n % d)
         /\ n % d \in 0..(d - 1)
         /\ n \div d \in Nat
<1> DEFINE q == n \div d
<1>1. n = d * q + (n % d)
  OBVIOUS
<1>2. n % d \in 0..(d - 1)
  OBVIOUS
<1>3. q \in Int
  OBVIOUS
<1>4. ASSUME q < 0 PROVE FALSE
  <2>1. d * q <= d * (-1)
    BY <1>3, <1>4, TimesMonotone
  <2> QED BY <1>1, <1>2, <1>3, <2>1
<1> QED BY <1>1, <1>2, <1>3, <1>4

\* Numbers of two digits to the base b, c the lower digit.
LEMMA Digits ==
  ASSUME NEW b \in Nat, NEW c \in 0..(b - 1), NEW r \in Nat
  PROVE  (c + b * r) % b = c /\ (c + b * r) \div b = r
OBVIOUS

LEMMA DigitsOrder ==
  ASSUME NEW b \in Nat, NEW c1 \in 0..(b - 1), NEW c2 \in 0..(b - 1),
         NEW r1 \in Nat, NEW r2 \in Nat
  PROVE  (c1 + b * r1 < c2 + b * r2) <=> (r1 < r2 \/ (r1 = r2 /\ c1 < c2))
<1>1. ASSUME r1 < r2 PROVE c1 + b * r1 < c2 + b * r2
  <2>1. b * (r1 + 1) <= b * r2
    BY <1>1, TimesMonotone
  <2> QED BY <2>1
<1>2. ASSUME r2 < r1 PROVE c2 + b * r2 < c1 + b * r1
  <2>1. b * (r2 + 1) <= b * r1
    BY <1>2, TimesMonotone
  <2> QED BY <2>1
<1> QED BY <1>1, <1>2

LEMMA DigitsBound ==
  ASSUME NEW b \in Nat, NEW c \in 0..(b - 1), NEW m \in Nat, NEW r \in 0..(m - 1)
  PROVE  c + b * r \in 0..(b * m - 1)
<1>1. b * (r + 1) <= b * m
  BY TimesMonotone
<1>2. 0 <= b * r
  BY TimesMonotone
<1> QED BY <1>1, <1>2

LEMMA Reduced ==
  ASSUME NEW n \in Nat
  PROVE  n % WIDTH \in 0..MAX /\ (n < WIDTH => n % WIDTH = n)
BY WidthAssumption DEF MAX

LEMMA AtCoord ==
  ASSUME NEW r \in Nat, NEW c \in Nat, NEW l \in Nat
  PROVE  At(r, c, l) \in Coord
BY Reduced DEF At, Coord

LEMMA CoordFields ==
  ASSUME NEW a \in Coord
  PROVE  /\ a.row \in 0..MAX /\ a.col \in 0..MAX /\ a.layer \in 0..MAX
         /\ MAX \in Nat /\ MAX > 0 /\ WIDTH = MAX + 1
BY WidthAssumption DEF Coord, MAX

LEMMA CoordEqual ==
  ASSUME NEW a \in Coord, NEW b \in Coord, a.row = b.row, a.col = b.col, a.layer = b.layer
  PROVE  a = b
BY DEF Coord

\* A coordinate made of numbers small enough has those numbers.
LEMMA AtSmall ==
  ASSUME NEW r \in 0..MAX, NEW c \in 0..MAX, NEW l \in 0..MAX
  PROVE  At(r, c, l) = [row |-> r, col |-> c, layer |-> l]
<1>1. /\ r \in Nat /\ r < WIDTH
      /\ c \in Nat /\ c < WIDTH
      /\ l \in Nat /\ l < WIDTH
  BY WidthAssumption DEF MAX
<1> QED BY <1>1, Reduced DEF At

-----------------------------------------------------------------------------
(* The order of cells.                                                     *)

Before(a, b) ==
  \/ a.layer < b.layer
  \/ a.layer = b.layer /\ (a.row < b.row \/ (a.row = b.row /\ a.col < b.col))

\* Numbers of three digits, of cells whose columns are less than m and whose rows
\* are less than n, are ordered as the cells are.
LEMMA NumbersOrder ==
  ASSUME NEW m \in Nat, NEW n \in Nat, NEW a \in Coord, NEW b \in Coord,
         a.col < m, b.col < m, a.row < n, b.row < n
  PROVE  /\ (a.col + m * (a.row + n * a.layer) < b.col + m * (b.row + n * b.layer))
              <=> Before(a, b)
         /\ (a.col + m * (a.row + n * a.layer) = b.col + m * (b.row + n * b.layer))
              <=> a = b
<1> DEFINE high(x) == x.row + n * x.layer
           number(x) == x.col + m * high(x)
<1>1. /\ a.col \in 0..(m - 1) /\ a.row \in 0..(n - 1) /\ a.layer \in Nat
      /\ b.col \in 0..(m - 1) /\ b.row \in 0..(n - 1) /\ b.layer \in Nat
  BY CoordFields
<1>2. high(a) \in Nat /\ high(b) \in Nat
  BY <1>1, TimesMonotone
<1>3. /\ high(a) < high(b) <=> a.layer < b.layer \/ (a.layer = b.layer /\ a.row < b.row)
      /\ high(b) < high(a) <=> b.layer < a.layer \/ (b.layer = a.layer /\ b.row < a.row)
  <2>1. \A c1, c2 \in 0..(n - 1), r1, r2 \in Nat :
          (c1 + n * r1 < c2 + n * r2) <=> (r1 < r2 \/ (r1 = r2 /\ c1 < c2))
    BY DigitsOrder
  <2> QED BY <1>1, <2>1, Zenon
<1>4. /\ number(a) < number(b) <=> high(a) < high(b) \/ (high(a) = high(b) /\ a.col < b.col)
      /\ number(b) < number(a) <=> high(b) < high(a) \/ (high(b) = high(a) /\ b.col < a.col)
  <2> HIDE DEF high
  <2> QED BY <1>1, <1>2, DigitsOrder
<1>5. high(a) = high(b) <=> a.layer = b.layer /\ a.row = b.row
  <2>1. high(a) = high(b) => ~(high(a) < high(b)) /\ ~(high(b) < high(a))
    BY <1>2
  <2> QED BY <1>1, <1>3, <2>1
<1>6. number(a) < number(b) <=> Before(a, b)
  <2> HIDE DEF high, number
  <2> QED BY <1>1, <1>3, <1>4, <1>5 DEF Before
<1>7. number(b) < number(a) <=> Before(b, a)
  <2> HIDE DEF high, number
  <2> QED BY <1>1, <1>3, <1>4, <1>5 DEF Before
<1>8. number(a) \in Int /\ number(b) \in Int
  <2> HIDE DEF high
  <2> QED BY <1>1, <1>2
<1>9. number(a) = number(b) => a = b
  <2>1. number(a) = number(b) => ~Before(a, b) /\ ~Before(b, a)
    <3> HIDE DEF number
    <3> QED BY <1>6, <1>7, <1>8
  <2> HIDE DEF number
  <2> QED BY <1>1, <2>1, CoordEqual DEF Before
<1> QED BY <1>6, <1>9

LEMMA IndexForm ==
  ASSUME NEW a \in Coord, NEW s \in Coord
  PROVE  IndexByCoord(a, s) = GridIndex(a, s)
<1>1. /\ a.row \in Int /\ a.col \in Int /\ a.layer \in Int /\ s.row \in Int /\ s.col \in Int
  BY CoordFields
<1> QED BY <1>1 DEF IndexByCoord, GridIndex

LEMMA IndexOrder ==
  ASSUME NEW s \in Coord, NEW a \in Coord, NEW b \in Coord,
         InBounds(a, s), InBounds(b, s) \/ b = End(s)
  PROVE  /\ IndexByCoord(a, s) < IndexByCoord(b, s) <=> Before(a, b)
         /\ IndexByCoord(a, s) = IndexByCoord(b, s) <=> a = b
         /\ ToNumber(a) < ToNumber(b) <=> Before(a, b)
         /\ ToNumber(a) = ToNumber(b) <=> a = b
<1>1. /\ a.row \in 0..MAX /\ a.col \in 0..MAX /\ a.layer \in 0..MAX
      /\ s.row \in 0..MAX /\ s.col \in 0..MAX /\ s.layer \in 0..MAX
      /\ MAX \in Nat
  BY CoordFields
<1>2. b.row \in Nat /\ b.col \in Nat /\ b.layer \in Nat
  BY CoordFields
<1>3. a.row < s.row /\ a.col < s.col /\ s.layer > 0
  BY <1>1 DEF InBounds
<1>4. b.row < s.row /\ b.col < s.col
  <2>1. CASE InBounds(b, s)
    BY <2>1 DEF InBounds
  <2>2. CASE b = End(s)
    <3>1. b = At(0, 0, s.layer)
      BY <1>1, <1>3, <2>2 DEF End
    <3>2. 0 \in 0..MAX
      BY <1>1
    <3>3. b = [row |-> 0, col |-> 0, layer |-> s.layer]
      BY <1>1, <3>1, <3>2, AtSmall
    <3> QED BY <1>1, <1>3, <3>3
  <2> QED BY <2>1, <2>2
<1>5. /\ GridIndex(a, s) < GridIndex(b, s) <=> Before(a, b)
      /\ GridIndex(a, s) = GridIndex(b, s) <=> a = b
  BY <1>1, <1>3, <1>4, NumbersOrder DEF GridIndex
<1>6. /\ ToNumber(a) < ToNumber(b) <=> Before(a, b)
      /\ ToNumber(a) = ToNumber(b) <=> a = b
  <2>1. a.row < MAX /\ a.col < MAX /\ b.row < MAX /\ b.col < MAX
    BY <1>1, <1>2, <1>3, <1>4
  <2> QED BY <1>1, <2>1, NumbersOrder DEF ToNumber
<1> QED BY <1>5, <1>6, IndexForm

-----------------------------------------------------------------------------
(* The iterator.                                                           *)

LEMMA AdvanceIndex ==
  ASSUME NEW s \in Coord, NEW a \in Coord, InBounds(a, s)
  PROVE  /\ Advance(a, s) \in Coord
         /\ InBounds(Advance(a, s), s) \/ Advance(a, s) = End(s)
         /\ IndexByCoord(Advance(a, s), s) = IndexByCoord(a, s) + 1
<1> DEFINE b == Advance(a, s)
           rows(c) == c.layer * s.row + c.row
<1>1. /\ a.row \in Nat /\ a.col \in Nat /\ a.layer \in Nat
      /\ s.row \in 0..MAX /\ s.col \in 0..MAX /\ s.layer \in 0..MAX
      /\ MAX \in Nat /\ WIDTH = MAX + 1
  BY CoordFields
<1>2. a.row < s.row /\ a.col < s.col /\ a.layer < s.layer
  BY DEF InBounds
<1>3. (a.col + 1) % WIDTH = a.col + 1 /\ (a.row + 1) % WIDTH = a.row + 1
  BY <1>1, <1>2, Reduced
<1>4. IndexByCoord(a, s) = rows(a) * s.col + a.col
  BY DEF IndexByCoord
<1>5. rows(a) \in Int
  BY <1>1, TimesNext
<1>6. CASE a.col + 1 # s.col
  <2>1. b = [row |-> a.row, col |-> a.col + 1, layer |-> a.layer]
    <3>1. b = At(a.row, a.col + 1, a.layer)
      BY <1>3, <1>6 DEF Advance
    <3>2. a.row \in 0..MAX /\ a.col + 1 \in 0..MAX /\ a.layer \in 0..MAX
      BY <1>1, <1>2
    <3> HIDE DEF b
    <3> QED BY <3>1, <3>2, AtSmall
  <2>2. b \in Coord
    BY <1>1, <1>2, <2>1 DEF Coord
  <2>3. InBounds(b, s)
    BY <1>1, <1>2, <1>6, <2>1 DEF InBounds
  <2>4. IndexByCoord(b, s) = IndexByCoord(a, s) + 1
    <3>1. IndexByCoord(b, s) = rows(a) * s.col + (a.col + 1)
      <4> HIDE DEF b
      <4> QED BY <2>1 DEF IndexByCoord
    <3> HIDE DEF rows
    <3> QED BY <1>1, <1>4, <1>5, <3>1, TimesNext
  <2> QED BY <2>2, <2>3, <2>4
<1>7. CASE a.col + 1 = s.col /\ a.row + 1 # s.row
  <2>1. b = [row |-> a.row + 1, col |-> 0, layer |-> a.layer]
    <3>1. b = At(a.row + 1, 0, a.layer)
      BY <1>3, <1>7 DEF Advance
    <3>2. a.row + 1 \in 0..MAX /\ 0 \in 0..MAX /\ a.layer \in 0..MAX
      BY <1>1, <1>2
    <3> HIDE DEF b
    <3> QED BY <3>1, <3>2, AtSmall
  <2>2. b \in Coord
    BY <1>1, <1>2, <2>1 DEF Coord
  <2>3. InBounds(b, s)
    BY <1>1, <1>2, <1>7, <2>1 DEF InBounds
  <2>4. IndexByCoord(b, s) = IndexByCoord(a, s) + 1
    <3>1. IndexByCoord(b, s) = (a.layer * s.row + (a.row + 1)) * s.col + 0
      <4> HIDE DEF b
      <4> QED BY <2>1 DEF IndexByCoord
    <3>2. a.layer * s.row + (a.row + 1) = rows(a) + 1
      BY <1>1, TimesNext
    <3>3. (rows(a) + 1) * s.col = rows(a) * s.col + s.col /\ rows(a) * s.col \in Int
      <4> HIDE DEF rows
      <4> QED BY <1>1, <1>5, TimesNext
    <3> HIDE DEF rows, b
    <3> QED BY <1>1, <1>7, <1>4, <3>1, <3>2, <3>3
  <2> QED BY <2>2, <2>3, <2>4
<1>8. CASE a.col + 1 = s.col /\ a.row + 1 = s.row
  <2>1. b = At(0, 0, a.layer + 1)
    BY <1>3, <1>8 DEF Advance
  <2>2. b = [row |-> 0, col |-> 0, layer |-> a.layer + 1]
    BY <1>1, <1>2, <2>1, AtSmall
  <2>3. b \in Coord
    BY <1>1, <1>2, <2>2 DEF Coord
  <2>4. InBounds(b, s) \/ b = End(s)
    <3>1. CASE a.layer + 1 < s.layer
      BY <1>1, <1>2, <2>2, <3>1 DEF InBounds
    <3>2. CASE a.layer + 1 = s.layer
      BY <1>1, <1>2, <2>1, <3>2 DEF End
    <3> QED BY <1>1, <1>2, <3>1, <3>2
  <2>5. IndexByCoord(b, s) = IndexByCoord(a, s) + 1
    <3>1. IndexByCoord(b, s) = ((a.layer + 1) * s.row + 0) * s.col + 0
      <4> HIDE DEF b
      <4> QED BY <2>2 DEF IndexByCoord
    <3>2. (a.layer + 1) * s.row + 0 = rows(a) + 1
      BY <1>1, <1>8, TimesNext
    <3>3. (rows(a) + 1) * s.col = rows(a) * s.col + s.col /\ rows(a) * s.col \in Int
      <4> HIDE DEF rows
      <4> QED BY <1>1, <1>5, TimesNext
    <3> HIDE DEF rows, b
    <3> QED BY <1>1, <1>8, <1>4, <3>1, <3>2, <3>3
  <2> QED BY <2>3, <2>4, <2>5
<1> QED BY <1>1, <1>6, <1>7, <1>8

\* get_coord_by_index inverts get_index_by_coord, at the end of the range too.
LEMMA CoordOfIndex ==
  ASSUME NEW s \in Coord, s.row > 0, s.col > 0, s.layer > 0,
         NEW a \in Coord, InBounds(a, s) \/ a = End(s)
  PROVE  CoordByIndex(IndexByCoord(a, s), s) = a
<1> DEFINE n == IndexByCoord(a, s)
           low == a.col + s.col * a.row
<1>1. /\ a.row \in 0..MAX /\ a.col \in 0..MAX /\ a.layer \in 0..MAX
      /\ s.row \in 0..MAX /\ s.col \in 0..MAX /\ s.layer \in 0..MAX
      /\ MAX \in Nat
  BY CoordFields
<1>2. a.row < s.row /\ a.col < s.col
  <2>1. CASE InBounds(a, s)
    BY <2>1 DEF InBounds
  <2>2. CASE a = End(s)
    <3>1. a = At(0, 0, s.layer)
      BY <1>1, <2>2 DEF End
    <3> QED BY <1>1, <3>1, AtSmall
  <2> QED BY <2>1, <2>2
<1>3. low \in 0..(s.col * s.row - 1)
  BY <1>1, <1>2, DigitsBound
<1>4. s.row * s.col \in Nat /\ s.row * s.col = s.col * s.row
  BY <1>1, TimesMonotone
<1>5. n = low + (s.row * s.col) * a.layer
  BY <1>1 DEF IndexByCoord
<1>6. n % (s.row * s.col) = low /\ n \div (s.row * s.col) = a.layer
  <2> HIDE DEF n, low
  <2>1. low \in Nat /\ a.layer \in Nat
    BY <1>1, <1>3
  <2> DEFINE area == s.row * s.col
  <2>2. area \in Nat /\ low \in 0..(area - 1) /\ n = low + area * a.layer
    BY <1>3, <1>4, <1>5
  <2> HIDE DEF area
  <2>3. n % area = low /\ n \div area = a.layer
    BY <2>1, <2>2, Digits
  <2> QED BY <2>3 DEF area
<1>7. low % s.col = a.col /\ low \div s.col = a.row
  <2>1. s.col \in Nat /\ a.col \in 0..(s.col - 1) /\ a.row \in Nat
    BY <1>1, <1>2
  <2> QED BY <2>1, Digits
<1>8. CoordByIndex(n, s) = At(a.row, a.col, a.layer)
  <2> HIDE DEF n, low
  <2> QED BY <1>6, <1>7 DEF CoordByIndex
<1>9. At(a.row, a.col, a.layer) = a
  <2>1. At(a.row, a.col, a.layer) = [row |-> a.row, col |-> a.col, layer |-> a.layer]
    BY <1>1, AtSmall
  <2> QED BY <2>1 DEF Coord
<1> QED BY <1>8, <1>9

-----------------------------------------------------------------------------
(* The places of cells in the chunks.                                      *)

\* One coordinate of a cell of a grid of c chunks of k.
LEMMA ChunkAndInner ==
  ASSUME NEW c \in 0..MAX, NEW k \in 0..MAX, NEW n \in Nat, n < (c * k) % WIDTH
  PROVE  /\ n \div k \in 0..(c - 1) /\ n \div k \in 0..MAX
         /\ n % k \in 0..(k - 1) /\ n % k \in 0..MAX
         /\ n = k * (n \div k) + (n % k)
<1>1. MAX \in Nat /\ WIDTH = MAX + 1 /\ WIDTH \in Nat /\ WIDTH > 0
  BY WidthAssumption DEF MAX
<1>2. c \in Nat /\ k \in Nat
  BY <1>1
<1>3. c * k \in Nat /\ c * k = k * c
  BY <1>2, TimesMonotone
<1>4. (c * k) % WIDTH <= c * k
  <2> DEFINE m == c * k
  <2>1. m \in Nat
    BY <1>3
  <2> HIDE DEF m
  <2>2. m % WIDTH <= m
    <3>1. /\ m = WIDTH * (m \div WIDTH) + (m % WIDTH)
          /\ m % WIDTH \in Nat
          /\ m \div WIDTH \in Nat
      BY <1>1, <2>1, Division
    <3>2. WIDTH * 0 <= WIDTH * (m \div WIDTH)
      BY <1>1, <3>1, TimesMonotone
    <3> QED BY <1>1, <2>1
  <2> QED BY <2>2 DEF m
<1>5. n < k * c
  <2>1. (c * k) % WIDTH \in Int
    BY <1>1, <1>3
  <2> QED BY <1>3, <1>4, <2>1
<1>6. k > 0
  <2>1. CASE k = 0
    BY <1>2, <1>5, <2>1
  <2> QED BY <1>2, <2>1
<1>7. /\ n = k * (n \div k) + (n % k)
      /\ n % k \in 0..(k - 1)
      /\ n \div k \in Nat
  BY <1>2, <1>6, Division
<1>8. n \div k < c
  <2> DEFINE q == n \div k
             r == n % k
  <2>1. n = k * q + r /\ r \in Nat /\ q \in Nat
    BY <1>2, <1>7
  <2> HIDE DEF q, r
  <2>2. ASSUME c <= q PROVE FALSE
    <3>1. k * c <= k * q
      BY <1>2, <2>1, <2>2, TimesMonotone
    <3> QED BY <1>2, <1>3, <1>5, <2>1, <3>1
  <2>3. q < c
    BY <1>2, <2>1, <2>2
  <2> QED BY <2>3 DEF q
<1> QED BY <1>1, <1>2, <1>7, <1>8

LEMMA GridIndexInside ==
  ASSUME NEW s \in Coord, NEW a \in Coord, InBounds(a, s)
  PROVE  GridIndex(a, s) \in 0..(Area(s) - 1)
<1>1. /\ a.row \in Nat /\ a.col \in Nat /\ a.layer \in Nat
      /\ s.row \in Nat /\ s.col \in Nat /\ s.layer \in Nat
  BY CoordFields
<1>2. /\ a.row \in 0..(s.row - 1) /\ a.col \in 0..(s.col - 1)
      /\ a.layer \in 0..(s.layer - 1)
  BY <1>1 DEF InBounds
<1> DEFINE high == a.row + s.row * a.layer
<1>3. high \in 0..(s.row * s.layer - 1)
  BY <1>1, <1>2, DigitsBound
<1>4. s.row * s.layer \in Nat
  BY <1>1, TimesMonotone
<1>5. a.col + s.col * high \in 0..(s.col * (s.row * s.layer) - 1)
  <2> HIDE DEF high
  <2> QED BY <1>1, <1>2, <1>3, <1>4, DigitsBound
<1>6. Area(s) = s.col * (s.row * s.layer)
  BY <1>1 DEF Area
<1> QED BY <1>5, <1>6 DEF GridIndex

LEMMA PlaceParts ==
  ASSUME NEW c \in Coord, NEW k \in Coord, NEW a \in Coord, InBounds(a, FullSize(c, k))
  PROVE  /\ Chunk(a, k) \in Coord /\ InBounds(Chunk(a, k), c)
         /\ Inner(a, k) \in Coord /\ InBounds(Inner(a, k), k)
         /\ a.row = k.row * Chunk(a, k).row + Inner(a, k).row
         /\ a.col = k.col * Chunk(a, k).col + Inner(a, k).col
         /\ a.layer = k.layer * Chunk(a, k).layer + Inner(a, k).layer
<1>1. /\ a.row \in Nat /\ a.col \in Nat /\ a.layer \in Nat
      /\ c.row \in 0..MAX /\ c.col \in 0..MAX /\ c.layer \in 0..MAX
      /\ k.row \in 0..MAX /\ k.col \in 0..MAX /\ k.layer \in 0..MAX
  BY CoordFields
<1>2. /\ a.row < (c.row * k.row) % WIDTH
      /\ a.col < (c.col * k.col) % WIDTH
      /\ a.layer < (c.layer * k.layer) % WIDTH
  BY DEF InBounds, FullSize, At
<1>3. /\ a.row \div k.row \in 0..(c.row - 1) /\ a.row \div k.row \in 0..MAX
      /\ a.row % k.row \in 0..(k.row - 1) /\ a.row % k.row \in 0..MAX
      /\ a.row = k.row * (a.row \div k.row) + (a.row % k.row)
  BY <1>1, <1>2, ChunkAndInner
<1>4. /\ a.col \div k.col \in 0..(c.col - 1) /\ a.col \div k.col \in 0..MAX
      /\ a.col % k.col \in 0..(k.col - 1) /\ a.col % k.col \in 0..MAX
      /\ a.col = k.col * (a.col \div k.col) + (a.col % k.col)
  BY <1>1, <1>2, ChunkAndInner
<1>5. /\ a.layer \div k.layer \in 0..(c.layer - 1) /\ a.layer \div k.layer \in 0..MAX
      /\ a.layer % k.layer \in 0..(k.layer - 1) /\ a.layer % k.layer \in 0..MAX
      /\ a.layer = k.layer * (a.layer \div k.layer) + (a.layer % k.layer)
  BY <1>1, <1>2, ChunkAndInner
<1>6. Chunk(a, k) = [row |-> a.row \div k.row, col |-> a.col \div k.col,
                     layer |-> a.layer \div k.layer]
  BY <1>3, <1>4, <1>5, AtSmall, Zenon DEF Chunk
<1>7. Inner(a, k) = [row |-> a.row % k.row, col |-> a.col % k.col,
                     layer |-> a.layer % k.layer]
  BY <1>3, <1>4, <1>5, AtSmall, Zenon DEF Inner
<1>8. Chunk(a, k) \in Coord /\ Inner(a, k) \in Coord
  BY <1>3, <1>4, <1>5, <1>6, <1>7 DEF Coord
<1>9. InBounds(Chunk(a, k), c) /\ InBounds(Inner(a, k), k)
  <2>1. \A n \in Nat : \A m \in 0..(n - 1) : m < n
    OBVIOUS
  <2>2. /\ c.row \in Nat /\ c.col \in Nat /\ c.layer \in Nat
        /\ k.row \in Nat /\ k.col \in Nat /\ k.layer \in Nat
    BY CoordFields
  <2>3. /\ a.row \div k.row < c.row /\ a.col \div k.col < c.col
        /\ a.layer \div k.layer < c.layer
        /\ a.row % k.row < k.row /\ a.col % k.col < k.col
        /\ a.layer % k.layer < k.layer
    BY <1>3, <1>4, <1>5, <2>1, <2>2, Zenon
  <2>4. /\ Chunk(a, k).row = a.row \div k.row /\ Chunk(a, k).col = a.col \div k.col
        /\ Chunk(a, k).layer = a.layer \div k.layer
        /\ Inner(a, k).row = a.row % k.row /\ Inner(a, k).col = a.col % k.col
        /\ Inner(a, k).layer = a.layer % k.layer
    BY <1>6, <1>7
  <2> QED BY <2>3, <2>4 DEF InBounds
<1> QED BY <1>3, <1>4, <1>5, <1>6, <1>7, <1>8, <1>9

LEMMA PlaceInside ==
  ASSUME NEW c \in Coord, NEW k \in Coord, NEW a \in Coord, InBounds(a, FullSize(c, k))
  PROVE  Place(a, c, k) \in Places(c, k)
BY PlaceParts, GridIndexInside DEF Place, Places

\* No two cells of a grid share a place.
LEMMA PlaceDistinct ==
  ASSUME NEW c \in Coord, NEW k \in Coord,
         NEW a \in Coord, InBounds(a, FullSize(c, k)),
         NEW b \in Coord, InBounds(b, FullSize(c, k)),
         Place(a, c, k) = Place(b, c, k)
  PROVE  a = b
<1>1. /\ GridIndex(Chunk(a, k), c) = GridIndex(Chunk(b, k), c)
      /\ GridIndex(Inner(a, k), k) = GridIndex(Inner(b, k), k)
  BY DEF Place
<1>2. /\ c.row \in Nat /\ c.col \in Nat /\ k.row \in Nat /\ k.col \in Nat
  BY CoordFields
<1>3. Chunk(a, k) = Chunk(b, k)
  <2>1. /\ Chunk(a, k) \in Coord /\ Chunk(a, k).col < c.col /\ Chunk(a, k).row < c.row
        /\ Chunk(b, k) \in Coord /\ Chunk(b, k).col < c.col /\ Chunk(b, k).row < c.row
    BY PlaceParts DEF InBounds
  <2> QED BY <1>1, <1>2, <2>1, NumbersOrder DEF GridIndex
<1>4. Inner(a, k) = Inner(b, k)
  <2>1. /\ Inner(a, k) \in Coord /\ Inner(a, k).col < k.col /\ Inner(a, k).row < k.row
        /\ Inner(b, k) \in Coord /\ Inner(b, k).col < k.col /\ Inner(b, k).row < k.row
    BY PlaceParts DEF InBounds
  <2> QED BY <1>1, <1>2, <2>1, NumbersOrder DEF GridIndex
<1>5. /\ a.row = k.row * Chunk(a, k).row + Inner(a, k).row
      /\ a.col = k.col * Chunk(a, k).col + Inner(a, k).col
      /\ a.layer = k.layer * Chunk(a, k).layer + Inner(a, k).layer
  BY PlaceParts
<1>6. /\ b.row = k.row * Chunk(b, k).row + Inner(b, k).row
      /\ b.col = k.col * Chunk(b, k).col + Inner(b, k).col
      /\ b.layer = k.layer * Chunk(b, k).layer + Inner(b, k).layer
  BY PlaceParts
<1>7. a.row = b.row /\ a.col = b.col /\ a.layer = b.layer
  BY <1>3, <1>4, <1>5, <1>6, Zenon
<1> QED BY <1>7, CoordEqual

-----------------------------------------------------------------------------
(* The neighbours of a cell.                                               *)

\* A step of one coordinate that stays below t did not wrap around.
LEMMA OneStep ==
  ASSUME NEW t \in 0..MAX, NEW x \in Nat, NEW y \in Nat, x < t, y < t
  PROVE  /\ y = ((0 % WIDTH) + x) % WIDTH <=> y = x
         /\ y = ((1 % WIDTH) + x) % WIDTH <=> y = x + 1
         /\ y = ((MAX % WIDTH) + x) % WIDTH <=> y + 1 = x
<1>1. MAX \in Nat /\ MAX > 0 /\ WIDTH = MAX + 1 /\ WIDTH \in Nat /\ WIDTH > 0
  BY WidthAssumption DEF MAX
<1>2. 0 % WIDTH = 0 /\ 1 % WIDTH = 1 /\ MAX % WIDTH = MAX
  BY <1>1, Reduced
<1>3. (0 + x) % WIDTH = x /\ (1 + x) % WIDTH = x + 1
  BY <1>1, Reduced
<1>4. CASE x = 0
  BY <1>1, <1>2, <1>3, <1>4
<1>5. CASE x > 0
  <2>1. (MAX + x) % WIDTH = x - 1
    <3>1. MAX + x = (x - 1) + WIDTH * 1 /\ x - 1 \in 0..(WIDTH - 1)
      BY <1>1, <1>5
    <3> QED BY <1>1, <3>1, Digits
  <2> QED BY <1>1, <1>2, <1>3, <1>5, <2>1
<1> QED BY <1>4, <1>5

LEMMA PlusCoord ==
  ASSUME NEW p \in Coord, NEW r \in Nat, NEW c \in Nat, NEW l \in Nat
  PROVE  Plus(At(r, c, l), p) \in Coord
<1>1. Plus(At(r, c, l), p) = [row |-> ((r % WIDTH) + p.row) % WIDTH,
                              col |-> ((c % WIDTH) + p.col) % WIDTH,
                              layer |-> ((l % WIDTH) + p.layer) % WIDTH]
  BY DEF Plus, At
<1>2. /\ (r % WIDTH) + p.row \in Nat /\ (c % WIDTH) + p.col \in Nat
      /\ (l % WIDTH) + p.layer \in Nat
  BY CoordFields, Reduced
<1> QED BY <1>1, <1>2, Reduced DEF Coord

LEMMA PlusFields ==
  ASSUME NEW b \in Coord, NEW p \in Coord
  PROVE  \A r, c, l \in Nat :
           b = Plus(At(r, c, l), p) <=>
             /\ b.row = ((r % WIDTH) + p.row) % WIDTH
             /\ b.col = ((c % WIDTH) + p.col) % WIDTH
             /\ b.layer = ((l % WIDTH) + p.layer) % WIDTH
<1> TAKE r, c, l \in Nat
<1>1. Plus(At(r, c, l), p) = [row |-> ((r % WIDTH) + p.row) % WIDTH,
                              col |-> ((c % WIDTH) + p.col) % WIDTH,
                              layer |-> ((l % WIDTH) + p.layer) % WIDTH]
  BY DEF Plus, At
<1> DEFINE d == Plus(At(r, c, l), p)
<1>2. d \in Coord
  BY PlusCoord
<1>3. /\ d.row = ((r % WIDTH) + p.row) % WIDTH
      /\ d.col = ((c % WIDTH) + p.col) % WIDTH
      /\ d.layer = ((l % WIDTH) + p.layer) % WIDTH
  BY <1>1
<1>4. b = d <=> b.row = d.row /\ b.col = d.col /\ b.layer = d.layer
  <2> HIDE DEF d
  <2> QED BY <1>2, CoordEqual
<1> HIDE DEF d
<1>5. b = d <=> /\ b.row = ((r % WIDTH) + p.row) % WIDTH
                /\ b.col = ((c % WIDTH) + p.col) % WIDTH
                /\ b.layer = ((l % WIDTH) + p.layer) % WIDTH
  BY <1>3, <1>4
<1> QED BY <1>5 DEF d

LEMMA AdjacentMembers ==
  ASSUME NEW s \in Coord, NEW p \in Coord, InBounds(p, s), NEW b \in Coord, InBounds(b, s)
  PROVE  /\ b \in {Plus(d, p) : d \in ManhattanDeltas} <=>
              \/ b.row = p.row /\ b.layer = p.layer /\ (b.col + 1 = p.col \/ b.col = p.col + 1)
              \/ b.col = p.col /\ b.layer = p.layer /\ (b.row + 1 = p.row \/ b.row = p.row + 1)
              \/ b.row = p.row /\ b.col = p.col /\ (b.layer + 1 = p.layer \/ b.layer = p.layer + 1)
         /\ b \in {Plus(d, p) : d \in DiagonalDeltas} <=>
              /\ b.layer = p.layer
              /\ b.row + 1 = p.row \/ b.row = p.row + 1
              /\ b.col + 1 = p.col \/ b.col = p.col + 1
<1>1. /\ 0 \in Nat /\ 1 \in Nat /\ MAX \in Nat
      /\ s.row \in 0..MAX /\ s.col \in 0..MAX /\ s.layer \in 0..MAX
      /\ p.row \in Nat /\ p.col \in Nat /\ p.layer \in Nat
      /\ b.row \in Nat /\ b.col \in Nat /\ b.layer \in Nat
  BY CoordFields
<1>2. /\ p.row < s.row /\ b.row < s.row
      /\ p.col < s.col /\ b.col < s.col
      /\ p.layer < s.layer /\ b.layer < s.layer
  BY DEF InBounds
<1>3. /\ b.row = ((0 % WIDTH) + p.row) % WIDTH <=> b.row = p.row
      /\ b.row = ((1 % WIDTH) + p.row) % WIDTH <=> b.row = p.row + 1
      /\ b.row = ((MAX % WIDTH) + p.row) % WIDTH <=> b.row + 1 = p.row
  BY <1>1, <1>2, OneStep
<1>4. /\ b.col = ((0 % WIDTH) + p.col) % WIDTH <=> b.col = p.col
      /\ b.col = ((1 % WIDTH) + p.col) % WIDTH <=> b.col = p.col + 1
      /\ b.col = ((MAX % WIDTH) + p.col) % WIDTH <=> b.col + 1 = p.col
  BY <1>1, <1>2, OneStep
<1>5. /\ b.layer = ((0 % WIDTH) + p.layer) % WIDTH <=> b.layer = p.layer
      /\ b.layer = ((1 % WIDTH) + p.layer) % WIDTH <=> b.layer = p.layer + 1
      /\ b.layer = ((MAX % WIDTH) + p.layer) % WIDTH <=> b.layer + 1 = p.layer
  BY <1>1, <1>2, OneStep
<1>6. /\ b = Plus(At(0, MAX, 0), p) <=> b.row = p.row /\ b.col + 1 = p.col /\ b.layer = p.layer
      /\ b = Plus(At(MAX, 0, 0), p) <=> b.row + 1 = p.row /\ b.col = p.col /\ b.layer = p.layer
      /\ b = Plus(At(0, 1, 0), p) <=> b.row = p.row /\ b.col = p.col + 1 /\ b.layer = p.layer
      /\ b = Plus(At(1, 0, 0), p) <=> b.row = p.row + 1 /\ b.col = p.col /\ b.layer = p.layer
      /\ b = Plus(At(0, 0, 1), p) <=> b.row = p.row /\ b.col = p.col /\ b.layer = p.layer + 1
      /\ b = Plus(At(0, 0, MAX), p) <=> b.row = p.row /\ b.col = p.col /\ b.layer + 1 = p.layer
  <2>1. b = Plus(At(0, MAX, 0), p) <=>
          /\ b.row = ((0 % WIDTH) + p.row) % WIDTH
          /\ b.col = ((MAX % WIDTH) + p.col) % WIDTH
          /\ b.layer = ((0 % WIDTH) + p.layer) % WIDTH
    BY <1>1, PlusFields
  <2>2. b = Plus(At(MAX, 0, 0), p) <=>
          /\ b.row = ((MAX % WIDTH) + p.row) % WIDTH
          /\ b.col = ((0 % WIDTH) + p.col) % WIDTH
          /\ b.layer = ((0 % WIDTH) + p.layer) % WIDTH
    BY <1>1, PlusFields
  <2>3. b = Plus(At(0, 1, 0), p) <=>
          /\ b.row = ((0 % WIDTH) + p.row) % WIDTH
          /\ b.col = ((1 % WIDTH) + p.col) % WIDTH
          /\ b.layer = ((0 % WIDTH) + p.layer) % WIDTH
    BY <1>1, PlusFields
  <2>4. b = Plus(At(1, 0, 0), p) <=>
          /\ b.row = ((1 % WIDTH) + p.row) % WIDTH
          /\ b.col = ((0 % WIDTH) + p.col) % WIDTH
          /\ b.layer = ((0 % WIDTH) + p.layer) % WIDTH
    BY <1>1, PlusFields
  <2>5. b = Plus(At(0, 0, 1), p) <=>
          /\ b.row = ((0 % WIDTH) + p.row) % WIDTH
          /\ b.col = ((0 % WIDTH) + p.col) % WIDTH
          /\ b.layer = ((1 % WIDTH) + p.layer) % WIDTH
    BY <1>1, PlusFields
  <2>6. b = Plus(At(0, 0, MAX), p) <=>
          /\ b.row = ((0 % WIDTH) + p.row) % WIDTH
          /\ b.col = ((0 % WIDTH) + p.col) % WIDTH
          /\ b.layer = ((MAX % WIDTH) + p.layer) % WIDTH
    BY <1>1, PlusFields
  <2> QED BY <1>3, <1>4, <1>5, <2>1, <2>2, <2>3, <2>4, <2>5, <2>6
<1>7. /\ b = Plus(At(1, 1, 0), p) <=>
           b.row = p.row + 1 /\ b.col = p.col + 1 /\ b.layer = p.layer
      /\ b = Plus(At(MAX, 1, 0), p) <=>
           b.row + 1 = p.row /\ b.col = p.col + 1 /\ b.layer = p.layer
      /\ b = Plus(At(1, MAX, 0), p) <=>
           b.row = p.row + 1 /\ b.col + 1 = p.col /\ b.layer = p.layer
      /\ b = Plus(At(MAX, MAX, 0), p) <=>
           b.row + 1 = p.row /\ b.col + 1 = p.col /\ b.layer = p.layer
  <2>1. b = Plus(At(1, 1, 0), p) <=>
          /\ b.row = ((1 % WIDTH) + p.row) % WIDTH
          /\ b.col = ((1 % WIDTH) + p.col) % WIDTH
          /\ b.layer = ((0 % WIDTH) + p.layer) % WIDTH
    BY <1>1, PlusFields
  <2>2. b = Plus(At(MAX, 1, 0), p) <=>
          /\ b.row = ((MAX % WIDTH) + p.row) % WIDTH
          /\ b.col = ((1 % WIDTH) + p.col) % WIDTH
          /\ b.layer = ((0 % WIDTH) + p.layer) % WIDTH
    BY <1>1, PlusFields
  <2>3. b = Plus(At(1, MAX, 0), p) <=>
          /\ b.row = ((1 % WIDTH) + p.row) % WIDTH
          /\ b.col = ((MAX % WIDTH) + p.col) % WIDTH
          /\ b.layer = ((0 % WIDTH) + p.layer) % WIDTH
    BY <1>1, PlusFields
  <2>4. b = Plus(At(MAX, MAX, 0), p) <=>
          /\ b.row = ((MAX % WIDTH) + p.row) % WIDTH
          /\ b.col = ((MAX % WIDTH) + p.col) % WIDTH
          /\ b.layer = ((0 % WIDTH) + p.layer) % WIDTH
    BY <1>1, PlusFields
  <2> QED BY <1>3, <1>4, <1>5, <2>1, <2>2, <2>3, <2>4
<1>8. b \in {Plus(d, p) : d \in ManhattanDeltas} <=>
        \/ b = Plus(At(0, MAX, 0), p) \/ b = Plus(At(MAX, 0, 0), p)
        \/ b = Plus(At(0, 1, 0), p) \/ b = Plus(At(1, 0, 0), p)
        \/ b = Plus(At(0, 0, 1), p) \/ b = Plus(At(0, 0, MAX), p)
  BY DEF ManhattanDeltas
<1>9. b \in {Plus(d, p) : d \in DiagonalDeltas} <=>
        \/ b = Plus(At(1, 1, 0), p) \/ b = Plus(At(MAX, 1, 0), p)
        \/ b = Plus(At(1, MAX, 0), p) \/ b = Plus(At(MAX, MAX, 0), p)
  BY DEF DiagonalDeltas
<1> QED BY <1>6, <1>7, <1>8, <1>9

LEMMA AdjacentCoord ==
  ASSUME NEW p \in Coord, NEW d \in ManhattanDeltas \cup DiagonalDeltas
  PROVE  Plus(d, p) \in Coord
<1>1. PICK r \in Nat, c \in Nat, l \in Nat : d = At(r, c, l)
  <2>1. 0 \in Nat /\ 1 \in Nat /\ MAX \in Nat
    BY WidthAssumption DEF MAX
  <2> QED BY <2>1 DEF ManhattanDeltas, DiagonalDeltas
<1> QED BY <1>1, PlusCoord

-----------------------------------------------------------------------------
(* The loop.                                                               *)

LEMMA SizeCoord ==
  ASSUME chunks \in Coord, chunkSize \in Coord
  PROVE  size \in Coord
<1>1. /\ chunks.row \in Nat /\ chunks.col \in Nat /\ chunks.layer \in Nat
      /\ chunkSize.row \in Nat /\ chunkSize.col \in Nat /\ chunkSize.layer \in Nat
  BY CoordFields
<1>2. /\ chunks.row * chunkSize.row \in Nat /\ chunks.col * chunkSize.col \in Nat
      /\ chunks.layer * chunkSize.layer \in Nat
  BY <1>1, TimesMonotone
<1> QED BY <1>2, AtCoord DEF size, FullSize

LEMMA ZeroCoord == Begin \in Coord /\ Begin = [row |-> 0, col |-> 0, layer |-> 0]
BY AtCoord, AtSmall, WidthAssumption DEF Begin, MAX

\* An iterator that is inside the grid is not at the end of the range.
LEMMA InsideBeforeEnd ==
  ASSUME NEW s \in Coord, NEW a \in Coord, InBounds(a, s)
  PROVE  End(s) \in Coord /\ ~Same(a, End(s))
<1>1. /\ a.row \in Nat /\ a.col \in Nat /\ a.layer \in Nat
      /\ s.row \in Nat /\ s.col \in Nat /\ s.layer \in 0..MAX /\ 0 \in 0..MAX
  BY CoordFields
<1>2. End(s) = At(0, 0, s.layer)
  BY <1>1 DEF End, InBounds
<1>3. End(s) = [row |-> 0, col |-> 0, layer |-> s.layer] /\ End(s) \in Coord
  BY <1>1, <1>2, AtSmall, AtCoord
<1>4. a # End(s)
  BY <1>1, <1>3 DEF InBounds
<1> QED BY <1>3, <1>4, IndexOrder DEF Same

LEMMA Establish == Init => ReadInStep
<1> SUFFICES ASSUME Init PROVE ReadInStep
  OBVIOUS
<1>1. chunks \in Coord /\ chunkSize \in Coord /\ pos = Begin /\ read = 0
  BY DEF Init
<1>2. size \in Coord
  BY <1>1, SizeCoord
<1>3. data \in [Places(chunks, chunkSize) -> Nat \cup {NOTHING_READ}]
  BY DEF Init
<1>4. /\ size.row \in Nat /\ size.col \in Nat /\ size.layer \in Nat
  BY <1>2, CoordFields
<1>5. InBounds(pos, size) \/ pos = End(size)
  <2>1. CASE size.row = 0 \/ size.col = 0 \/ size.layer = 0
    BY <1>1, <2>1 DEF End
  <2>2. CASE ~(size.row = 0 \/ size.col = 0 \/ size.layer = 0)
    BY <1>1, <1>4, <2>2, ZeroCoord DEF InBounds
  <2> QED BY <2>1, <2>2
<1>6. IndexByCoord(pos, size) = 0
  <2>1. 0 * size.row + 0 = 0 /\ 0 * size.col + 0 = 0
    BY <1>4
  <2> QED BY <1>1, <2>1, ZeroCoord DEF IndexByCoord
<1>7. ASSUME NEW a \in Cells
      PROVE  data[Place(a, chunks, chunkSize)] =
               (IF IndexByCoord(a, size) < read THEN IndexByCoord(a, size) ELSE NOTHING_READ)
  <2>1. a \in Coord /\ InBounds(a, size)
    BY DEF Cells
  <2>2. data[Place(a, chunks, chunkSize)] = NOTHING_READ
    BY <1>1, <2>1, PlaceInside DEF Init, size
  <2>3. ~Before(a, Begin)
    BY <2>1, ZeroCoord, CoordFields DEF Before
  <2>4. ~(IndexByCoord(a, size) < read)
    BY <1>1, <1>2, <1>5, <1>6, <2>1, <2>3, ZeroCoord, IndexOrder
  <2> QED BY <2>2, <2>4
<1> QED BY <1>1, <1>3, <1>5, <1>6, <1>7, ZeroCoord DEF ReadInStep

LEMMA Preserve == ReadInStep /\ [Next]_vars => ReadInStep'
<1> SUFFICES ASSUME ReadInStep, [Next]_vars PROVE ReadInStep'
  OBVIOUS
<1>1. CASE UNCHANGED vars
  BY <1>1 DEF ReadInStep, vars, size, Cells
<1>2. CASE ReadCell
  <2>1. /\ chunks \in Coord /\ chunkSize \in Coord /\ pos \in Coord
        /\ data \in [Places(chunks, chunkSize) -> Nat \cup {NOTHING_READ}]
        /\ InBounds(pos, size) \/ pos = End(size)
        /\ read = IndexByCoord(pos, size)
    BY DEF ReadInStep
  <2>2. size \in Coord
    BY <2>1, SizeCoord
  <2>3. InBounds(pos, size)
    BY <1>2, <2>1 DEF ReadCell, Same
  <2>4. /\ chunks' = chunks /\ chunkSize' = chunkSize /\ size' = size
        /\ Cells' = Cells /\ pos' = Advance(pos, size) /\ read' = read + 1
        /\ data' = [data EXCEPT ![Place(pos, chunks, chunkSize)] = read]
    BY <1>2 DEF ReadCell, size, Cells
  <2>5. /\ pos' \in Coord
        /\ InBounds(pos', size) \/ pos' = End(size)
        /\ IndexByCoord(pos', size) = IndexByCoord(pos, size) + 1
    BY <2>1, <2>2, <2>3, <2>4, AdvanceIndex
  <2>6. read \in Nat
    <3>1. GridIndex(pos, size) \in Nat
      <4>1. Area(size) \in Int
        BY <2>2, CoordFields, TimesNext DEF Area
      <4> QED BY <2>1, <2>2, <2>3, <4>1, GridIndexInside
    <3> QED BY <2>1, <2>2, <3>1, IndexForm
  <2>7. data' \in [Places(chunks, chunkSize) -> Nat \cup {NOTHING_READ}]
    BY <2>1, <2>4, <2>6
  <2>8. ASSUME NEW a \in Cells
        PROVE  data'[Place(a, chunks, chunkSize)] =
                 (IF IndexByCoord(a, size) < read' THEN IndexByCoord(a, size)
                                                   ELSE NOTHING_READ)
    <3>1. a \in Coord /\ InBounds(a, size)
      BY DEF Cells
    <3>2. Place(a, chunks, chunkSize) \in Places(chunks, chunkSize)
      BY <2>1, <3>1, PlaceInside DEF size
    <3>3. data[Place(a, chunks, chunkSize)] =
            (IF IndexByCoord(a, size) < read THEN IndexByCoord(a, size) ELSE NOTHING_READ)
      BY DEF ReadInStep
    <3>4. CASE a = pos
      <4>1. data'[Place(a, chunks, chunkSize)] = read
        BY <2>1, <2>4, <3>2, <3>4
      <4> QED BY <2>1, <2>4, <2>6, <3>4, <4>1
    <3>5. CASE a # pos
      <4>1. Place(a, chunks, chunkSize) # Place(pos, chunks, chunkSize)
        BY <2>1, <2>3, <3>1, <3>5, PlaceDistinct DEF size
      <4>2. data'[Place(a, chunks, chunkSize)] = data[Place(a, chunks, chunkSize)]
        BY <2>1, <2>4, <3>2, <4>1
      <4>3. IndexByCoord(a, size) # read
        BY <2>1, <2>2, <3>1, <3>5, IndexOrder
      <4>4. IndexByCoord(a, size) \in Int
        BY <2>2, <3>1, CoordFields, TimesNext DEF IndexByCoord
      <4>5. IndexByCoord(a, size) < read + 1 <=> IndexByCoord(a, size) < read
        BY <2>6, <4>3, <4>4
      <4> QED BY <2>4, <3>3, <4>2, <4>5
    <3> QED BY <3>4, <3>5
  <2> QED BY <2>1, <2>4, <2>5, <2>7, <2>8 DEF ReadInStep
<1> QED BY <1>1, <1>2 DEF Next

-----------------------------------------------------------------------------
(***************************************************************************)
(* The theorems.                                                           *)
(***************************************************************************)

\* The inductive invariant holds for every width of a coordinate and every
\* number and size of chunks.
THEOREM Invariance == Spec => []ReadInStep
BY Establish, Preserve, PTL DEF Spec

\* No loop over the cells of a map leaves it, or touches a place its chunks do
\* not have.
THEOREM AlwaysStaysInside == Spec => []StaysInside
<1>1. ReadInStep => StaysInside
  <2> SUFFICES ASSUME ReadInStep, ~Same(pos, End(size))
               PROVE  InBounds(pos, size) /\ Place(pos, chunks, chunkSize) \in DOMAIN data
    BY DEF StaysInside
  <2>1. InBounds(pos, size)
    BY DEF ReadInStep, Same
  <2> QED BY <2>1, PlaceInside DEF ReadInStep, size
<1> QED BY <1>1, Invariance, PTL

\* Each character comes into a place of its own, in the order of the indices, and
\* the two conversions between cells and indices agree.
THEOREM EachCellAlwaysItsCharacter == Spec => []EachCellItsCharacter
<1>1. ReadInStep => EachCellItsCharacter
  <2> SUFFICES ASSUME ReadInStep PROVE EachCellItsCharacter
    OBVIOUS
  <2>1. size \in Coord
    BY SizeCoord DEF ReadInStep
  <2>2. ASSUME NEW a \in Cells
        PROVE  /\ size.row > 0 /\ size.col > 0 /\ size.layer > 0
               /\ a \in Coord /\ InBounds(a, size)
    BY <2>1, CoordFields DEF Cells, InBounds
  <2>3. Cells # {} => pos = CoordByIndex(read, size)
    BY <2>1, <2>2, CoordOfIndex DEF ReadInStep
  <2>4. ASSUME NEW a \in Cells
        PROVE  /\ CoordByIndex(IndexByCoord(a, size), size) = a
               /\ data[Place(a, chunks, chunkSize)] =
                    (IF IndexByCoord(a, size) < read THEN IndexByCoord(a, size)
                                                     ELSE NOTHING_READ)
    BY <2>1, <2>2, CoordOfIndex DEF ReadInStep
  <2> QED BY <2>3, <2>4 DEF EachCellItsCharacter
<1> QED BY <1>1, Invariance, PTL

\* However the unsigned arithmetic wraps around, get_adjacent gives the cells that
\* are next to a cell.
THEOREM NeighborsAlwaysExact == Spec => []NeighborsExact
<1>1. ReadInStep => NeighborsExact
  <2> SUFFICES ASSUME ReadInStep, pos \in Cells PROVE NeighborsExact
    BY DEF NeighborsExact
  <2> DEFINE gap(i, j) == IF i < j THEN j - i ELSE i - j
             near(a) == /\ a # pos
                        /\ gap(a.row, pos.row) <= 1 /\ gap(a.col, pos.col) <= 1
                        /\ gap(a.layer, pos.layer) <= 1
             straight(a) == gap(a.row, pos.row) + gap(a.col, pos.col)
                              + gap(a.layer, pos.layer) = 1
             manhattan == {Plus(d, pos) : d \in ManhattanDeltas}
             diagonal == {Plus(d, pos) : d \in DiagonalDeltas}
  <2>1. size \in Coord /\ pos \in Coord /\ InBounds(pos, size)
    BY SizeCoord DEF ReadInStep, Cells
  <2>2. ASSUME NEW a \in Cells
        PROVE  /\ a \in manhattan <=> near(a) /\ straight(a)
               /\ a \in manhattan \cup diagonal <=>
                    near(a) /\ (straight(a) \/ a.layer = pos.layer)
    <3>1. a \in Coord /\ InBounds(a, size)
      BY DEF Cells
    <3>2. /\ a.row \in Nat /\ a.col \in Nat /\ a.layer \in Nat
          /\ pos.row \in Nat /\ pos.col \in Nat /\ pos.layer \in Nat
      BY <2>1, <3>1, CoordFields
    <3>3. a = pos <=> a.row = pos.row /\ a.col = pos.col /\ a.layer = pos.layer
      BY <2>1, <3>1, CoordEqual
    <3>4. /\ a \in manhattan <=>
              \/ a.row = pos.row /\ a.layer = pos.layer
                 /\ (a.col + 1 = pos.col \/ a.col = pos.col + 1)
              \/ a.col = pos.col /\ a.layer = pos.layer
                 /\ (a.row + 1 = pos.row \/ a.row = pos.row + 1)
              \/ a.row = pos.row /\ a.col = pos.col
                 /\ (a.layer + 1 = pos.layer \/ a.layer = pos.layer + 1)
          /\ a \in diagonal <=>
              /\ a.layer = pos.layer
              /\ a.row + 1 = pos.row \/ a.row = pos.row + 1
              /\ a.col + 1 = pos.col \/ a.col = pos.col + 1
      BY <2>1, <3>1, AdjacentMembers
    <3>5. \A i, j \in Nat :
            /\ gap(i, j) \in Nat
            /\ gap(i, j) = 0 <=> i = j
            /\ gap(i, j) = 1 <=> (i + 1 = j \/ i = j + 1)
      OBVIOUS
    <3> HIDE DEF manhattan, diagonal, gap
    <3> DEFINE r == gap(a.row, pos.row)
               c == gap(a.col, pos.col)
               l == gap(a.layer, pos.layer)
    <3>6. r \in Nat /\ c \in Nat /\ l \in Nat
      BY <3>2, <3>5
    <3>7. /\ (r = 0 <=> a.row = pos.row) /\ (c = 0 <=> a.col = pos.col)
          /\ (l = 0 <=> a.layer = pos.layer)
          /\ r = 1 <=> (a.row + 1 = pos.row \/ a.row = pos.row + 1)
          /\ c = 1 <=> (a.col + 1 = pos.col \/ a.col = pos.col + 1)
          /\ l = 1 <=> (a.layer + 1 = pos.layer \/ a.layer = pos.layer + 1)
      BY <3>2, <3>5
    <3>8. /\ near(a) <=> a # pos /\ r <= 1 /\ c <= 1 /\ l <= 1
          /\ straight(a) <=> r + c + l = 1
      OBVIOUS
    <3> HIDE DEF near, straight, r, c, l
    <3>9. /\ a = pos <=> (r = 0 /\ c = 0 /\ l = 0)
          /\ a \in manhattan <=> \/ r = 0 /\ l = 0 /\ c = 1
                                 \/ c = 0 /\ l = 0 /\ r = 1
                                 \/ r = 0 /\ c = 0 /\ l = 1
          /\ a \in diagonal <=> (l = 0 /\ r = 1 /\ c = 1)
      BY <3>3, <3>4, <3>7
    <3> QED BY <3>6, <3>7, <3>8, <3>9
  <2>3. manhattan \subseteq Coord /\ diagonal \subseteq Coord
    BY <2>1, AdjacentCoord
  <2>4. /\ Adjacent(pos, FALSE, size) = {b \in manhattan : InBounds(b, size)}
        /\ Adjacent(pos, TRUE, size) = {b \in manhattan \cup diagonal : InBounds(b, size)}
    BY DEF Adjacent
  <2> HIDE DEF manhattan, diagonal, near, straight
  <2>5. Adjacent(pos, FALSE, size) = {a \in Cells : near(a) /\ straight(a)}
    BY <2>2, <2>3, <2>4 DEF Cells
  <2>6. Adjacent(pos, TRUE, size) =
          {a \in Cells : near(a) /\ (straight(a) \/ a.layer = pos.layer)}
    BY <2>2, <2>3, <2>4 DEF Cells
  <2> QED BY <2>5, <2>6 DEF NeighborsExact, near, straight
<1> QED BY <1>1, Invariance, PTL

\* The comparisons of coordinates tell the cells of a grid and the end of its
\* range apart, and order them as the iterator does.
THEOREM ToNumberAlwaysTellsApart == Spec => []ToNumberTellsApart
<1>1. ReadInStep => ToNumberTellsApart
  <2> SUFFICES ASSUME ReadInStep, NEW a \in Cells
               PROVE  /\ Same(a, pos) <=> a = pos
                      /\ pos \in Cells =>
                           (ToNumber(a) < ToNumber(pos) <=> IndexByCoord(a, size) < read)
    BY DEF ToNumberTellsApart
  <2>1. size \in Coord
    BY SizeCoord DEF ReadInStep
  <2>2. a \in Coord /\ InBounds(a, size)
    BY DEF Cells
  <2> QED BY <2>1, <2>2, IndexOrder DEF ReadInStep, Same
<1> QED BY <1>1, Invariance, PTL
=============================================================================
