--------------------------- MODULE Surfaces_proofs ---------------------------
(***************************************************************************)
(* The meshes of the graphics exercise close, for every number of bands    *)
(* that gives a sphere an inside.                                          *)
(***************************************************************************)
EXTENDS Surfaces, FiniteSetTheorems, TLAPS

USE BandsAssumption

-----------------------------------------------------------------------------
(* The grid of the sphere.                                                 *)

\* Vertex and point on latitude i and longitude j.
Grid(i, j) == i * Row + j
Pt(i, j) == <<i, IF i \in {0, LatitudeBands} \/ j = LongitudeBands THEN 0 ELSE j>>

\* The two triangles of a cell.
Upper(i, j) == <<Pt(i, j), Pt(i + 1, j), Pt(i, j + 1)>>
Lower(i, j) == <<Pt(i, j + 1), Pt(i + 1, j), Pt(i + 1, j + 1)>>

\* Quotient and remainder are unique.
LEMMA Euclid ==
  ASSUME NEW r \in Nat \ {0}, NEW i \in Nat, NEW j \in 0 .. r - 1
  PROVE  (i * r + j) \div r = i /\ (i * r + j) % r = j
OBVIOUS

LEMMA Divided ==
  ASSUME NEW a \in Nat, NEW r \in Nat \ {0}
  PROVE  /\ a \div r \in Nat /\ a % r \in 0 .. r - 1
         /\ a = r * (a \div r) + (a % r)
OBVIOUS

\* A smaller quotient.
LEMMA QuotientBelow ==
  ASSUME NEW n \in Nat, NEW r \in Nat \ {0}, NEW i \in Nat, NEW j \in 0 .. r - 1
  PROVE  i * r + j < n * r <=> i < n
<1>1. \A a \in Int : a >= 0 => a * r >= 0
  OBVIOUS
<1>2. CASE i < n
  <2>1. (n - i - 1) * r >= 0
    BY <1>1, <1>2
  <2>2. (n - i - 1) * r = n * r - i * r - r
    OBVIOUS
  <2> QED  BY <1>2, <2>1, <2>2
<1>3. CASE i >= n
  <2>1. (i - n) * r >= 0
    BY <1>1, <1>3
  <2>2. (i - n) * r = i * r - n * r
    OBVIOUS
  <2> QED  BY <1>3, <2>1, <2>2
<1> QED  BY <1>2, <1>3

LEMMA GridTyped ==
  ASSUME NEW i \in Nat, NEW j \in 0 .. LongitudeBands
  PROVE  Grid(i, j) \in Nat /\ Grid(i, j) \div Row = i /\ Grid(i, j) % Row = j
BY Euclid DEF Grid, Row

\* A vertex of the grid lies on its latitude and longitude.
LEMMA PointAt ==
  ASSUME NEW i \in 0 .. LatitudeBands, NEW j \in 0 .. LongitudeBands
  PROVE  SpherePoint(Grid(i, j)) = Pt(i, j)
<1>1. j % LongitudeBands = IF j = LongitudeBands THEN 0 ELSE j
  OBVIOUS
<1>2. Grid(i, j) \div Row = i /\ Grid(i, j) % Row = j
  BY GridTyped
<1> QED  BY <1>1, <1>2 DEF SpherePoint, Pt

\* The cell that an index belongs to.
LEMMA CellOf ==
  ASSUME NEW q \in 0 .. LatitudeBands * LongitudeBands - 1
  PROVE  /\ q \div LongitudeBands \in 0 .. LatitudeBands - 1
         /\ q % LongitudeBands \in 0 .. LongitudeBands - 1
         /\ q = (q \div LongitudeBands) * LongitudeBands + (q % LongitudeBands)
<1> DEFINE i == q \div LongitudeBands
           j == q % LongitudeBands
<1>0. q \in Nat /\ LongitudeBands \in Nat \ {0}
  OBVIOUS
<1>1. i \in Nat /\ j \in 0 .. LongitudeBands - 1 /\ q = LongitudeBands * i + j
  BY <1>0, Divided
<1> HIDE DEF i, j
<1>2. q = i * LongitudeBands + j
  BY <1>1
<1>3. i < LatitudeBands
  BY <1>1, <1>2, QuotientBelow
<1> QED  BY <1>1, <1>2, <1>3 DEF i, j

\* There is a cell for each latitude but the last and each longitude.
LEMMA CellAt ==
  ASSUME NEW i \in 0 .. LatitudeBands - 1, NEW j \in 0 .. LongitudeBands - 1
  PROVE  /\ i * LongitudeBands + j \in 0 .. LatitudeBands * LongitudeBands - 1
         /\ (i * LongitudeBands + j) \div LongitudeBands = i
         /\ (i * LongitudeBands + j) % LongitudeBands = j
<1>1. i * LongitudeBands + j < LatitudeBands * LongitudeBands
  BY QuotientBelow
<1>2. i * LongitudeBands \in Nat /\ LatitudeBands * LongitudeBands \in Nat
  OBVIOUS
<1>3. i * LongitudeBands + j \in 0 .. LatitudeBands * LongitudeBands - 1
  BY <1>1, <1>2
<1>4. i \in Nat /\ LongitudeBands \in Nat \ {0}
  OBVIOUS
<1> QED  BY <1>3, <1>4, Euclid

LEMMA IndexTyped ==
  /\ IndexCount \in Nat /\ Len(IndexData) = IndexCount
  /\ IndexCount = 4 * (LatitudeBands * LongitudeBands)
<1>1. IndexCount \in Nat
  BY DEF IndexCount
<1>2. IndexData = [k \in 1 .. IndexCount |-> IndexData[k]]
  BY DEF IndexData
<1>3. \A f, n : n \in Nat /\ f = [k \in 1 .. n |-> f[k]] => Len(f) = n
  OBVIOUS
<1> QED  BY <1>1, <1>2, <1>3 DEF IndexCount

\* The four indices of a cell are its corners.
LEMMA IndexAt ==
  ASSUME NEW q \in 0 .. LatitudeBands * LongitudeBands - 1
  PROVE  LET i == q \div LongitudeBands
             j == q % LongitudeBands
         IN  /\ IndexData[4 * q + 1] = Grid(i, j)
             /\ IndexData[4 * q + 2] = Grid(i + 1, j)
             /\ IndexData[4 * q + 3] = Grid(i, j + 1)
             /\ IndexData[4 * q + 4] = Grid(i + 1, j + 1)
<1> DEFINE i == q \div LongitudeBands
           j == q % LongitudeBands
           P == LatitudeBands * LongitudeBands
<1>1. i \in 0 .. LatitudeBands - 1 /\ j \in 0 .. LongitudeBands - 1
  BY CellOf
<1>2. P \in Nat /\ q \in 0 .. P - 1 /\ IndexCount = 4 * P
  BY IndexTyped
<1>3. ASSUME NEW k \in 1 .. IndexCount
      PROVE  IndexData[k] =
               ((((k - 1) \div 4) \div LongitudeBands) * Row + (((k - 1) \div 4) % LongitudeBands))
                 + (((k - 1) % 4) \div 2) + (((k - 1) % 4) % 2) * Row
  BY DEF IndexData
<1> HIDE DEF P
<1>4. ASSUME NEW c \in 0 .. 3
      PROVE  /\ 4 * q + c + 1 \in 1 .. IndexCount
             /\ (4 * q + c + 1 - 1) \div 4 = q /\ (4 * q + c + 1 - 1) % 4 = c
  BY <1>2
<1>5. ASSUME NEW c \in 0 .. 3
      PROVE  IndexData[4 * q + c + 1] = (i * Row + j) + (c \div 2) + (c % 2) * Row
  <2> DEFINE k == 4 * q + c + 1
  <2>1. k \in 1 .. IndexCount /\ (k - 1) \div 4 = q /\ (k - 1) % 4 = c
    BY <1>4
  <2> HIDE DEF k
  <2>2. IndexData[k] = (i * Row + j) + (c \div 2) + (c % 2) * Row
    BY <1>3, <2>1
  <2> QED  BY <2>2 DEF k
<1> HIDE DEF i, j
<1>6. IndexData[4 * q + 1] = Grid(i, j)
  <2>1. IndexData[4 * q + 0 + 1] = (i * Row + j) + (0 \div 2) + (0 % 2) * Row
    BY <1>5
  <2> QED  BY <1>1, <1>2, <2>1 DEF Grid, Row
<1>7. IndexData[4 * q + 2] = Grid(i + 1, j)
  <2>1. IndexData[4 * q + 1 + 1] = (i * Row + j) + (1 \div 2) + (1 % 2) * Row
    BY <1>5
  <2> QED  BY <1>1, <1>2, <2>1 DEF Grid, Row
<1>8. IndexData[4 * q + 3] = Grid(i, j + 1)
  <2>1. IndexData[4 * q + 2 + 1] = (i * Row + j) + (2 \div 2) + (2 % 2) * Row
    BY <1>5
  <2> QED  BY <1>1, <1>2, <2>1 DEF Grid, Row
<1>9. IndexData[4 * q + 4] = Grid(i + 1, j + 1)
  <2>1. IndexData[4 * q + 3 + 1] = (i * Row + j) + (3 \div 2) + (3 % 2) * Row
    BY <1>5
  <2> QED  BY <1>1, <1>2, <2>1 DEF Grid, Row
<1> QED  BY <1>6, <1>7, <1>8, <1>9 DEF i, j

-----------------------------------------------------------------------------
(* The strip of the sphere.                                                *)

\* The triangle that ends at the vertex k + 2.
StripTriangle(k) ==
  IF k % 2 = 1 THEN <<IndexData[k], IndexData[k + 1], IndexData[k + 2]>>
               ELSE <<IndexData[k + 1], IndexData[k], IndexData[k + 2]>>
UpperStrip(i, j) == <<Grid(i, j), Grid(i + 1, j), Grid(i, j + 1)>>
LowerStrip(i, j) == <<Grid(i, j + 1), Grid(i + 1, j), Grid(i + 1, j + 1)>>

LEMMA StripSet ==
  StripTriangles(IndexData) = { StripTriangle(k) : k \in 1 .. IndexCount - 2 }
BY IndexTyped DEF StripTriangles, StripTriangle

\* Two corners of a triangle that lie on one point.
Flat(t) == t[1] = t[2] \/ t[2] = t[3] \/ t[3] = t[1]

\* The first two triangles of a cell are its halves, the other two lead on to
\* the next cell and are flat.
LEMMA StripOfCell ==
  ASSUME NEW q \in 0 .. LatitudeBands * LongitudeBands - 1
  PROVE  LET i == q \div LongitudeBands
             j == q % LongitudeBands
         IN  /\ StripTriangle(4 * q + 1) = UpperStrip(i, j)
             /\ StripTriangle(4 * q + 2) = LowerStrip(i, j)
             /\ q + 1 < LatitudeBands * LongitudeBands =>
                  /\ Flat(Points(StripTriangle(4 * q + 3)))
                  /\ Flat(Points(StripTriangle(4 * q + 4)))
<1> DEFINE i == q \div LongitudeBands
           j == q % LongitudeBands
           P == LatitudeBands * LongitudeBands
<1>1. /\ i \in 0 .. LatitudeBands - 1 /\ j \in 0 .. LongitudeBands - 1
      /\ q = i * LongitudeBands + j
  BY CellOf
<1>2. /\ IndexData[4 * q + 1] = Grid(i, j) /\ IndexData[4 * q + 2] = Grid(i + 1, j)
      /\ IndexData[4 * q + 3] = Grid(i, j + 1) /\ IndexData[4 * q + 4] = Grid(i + 1, j + 1)
  BY IndexAt
<1>3. P \in Nat /\ q \in 0 .. P - 1
  OBVIOUS
<1> HIDE DEF P
<1>4. /\ (4 * q + 1) % 2 = 1 /\ (4 * q + 2) % 2 = 0
      /\ (4 * q + 3) % 2 = 1 /\ (4 * q + 4) % 2 = 0
      /\ 4 * q + 1 + 1 = 4 * q + 2 /\ 4 * q + 1 + 2 = 4 * q + 3 /\ 4 * q + 2 + 1 = 4 * q + 3
      /\ 4 * q + 2 + 2 = 4 * q + 4 /\ 4 * q + 3 + 1 = 4 * q + 4
      /\ 4 * q + 3 + 2 = 4 * (q + 1) + 1 /\ 4 * q + 4 + 1 = 4 * (q + 1) + 1
      /\ 4 * q + 4 + 2 = 4 * (q + 1) + 2
  BY <1>3
<1> HIDE DEF i, j
<1>5. StripTriangle(4 * q + 1) = UpperStrip(i, j)
  BY <1>2, <1>4 DEF StripTriangle, UpperStrip
<1>6. StripTriangle(4 * q + 2) = LowerStrip(i, j)
  BY <1>2, <1>4 DEF StripTriangle, LowerStrip
<1>7. ASSUME q + 1 < P
      PROVE  /\ Flat(Points(StripTriangle(4 * q + 3)))
             /\ Flat(Points(StripTriangle(4 * q + 4)))
  <2>1. PICK k \in 0 .. LatitudeBands, l \in 0 .. LongitudeBands :
          /\ IndexData[4 * (q + 1) + 1] = Grid(k, l)
          /\ IndexData[4 * (q + 1) + 2] = Grid(k + 1, l)
          /\ k + 1 \in 0 .. LatitudeBands
          /\ IF j + 1 < LongitudeBands THEN k = i /\ l = j + 1 ELSE k = i + 1 /\ l = 0
    <3> DEFINE a == (q + 1) \div LongitudeBands
               b == (q + 1) % LongitudeBands
    <3>1. q + 1 \in 0 .. P - 1
      BY <1>3, <1>7
    <3>2. /\ IndexData[4 * (q + 1) + 1] = Grid(a, b)
          /\ IndexData[4 * (q + 1) + 2] = Grid(a + 1, b)
      BY <3>1, IndexAt DEF P
    <3>3. a \in 0 .. LatitudeBands - 1 /\ b \in 0 .. LongitudeBands - 1
      BY <3>1, CellOf DEF P
    <3>4. IF j + 1 < LongitudeBands THEN a = i /\ b = j + 1 ELSE a = i + 1 /\ b = 0
      <4>1. CASE j + 1 < LongitudeBands
        <5>1. q + 1 = i * LongitudeBands + (j + 1)
          BY <1>1
        <5>2. j + 1 \in 0 .. LongitudeBands - 1 /\ i \in Nat /\ LongitudeBands \in Nat \ {0}
          BY <1>1, <4>1
        <5>3. /\ (i * LongitudeBands + (j + 1)) \div LongitudeBands = i
              /\ (i * LongitudeBands + (j + 1)) % LongitudeBands = j + 1
          BY <5>2, Euclid
        <5> QED  BY <4>1, <5>1, <5>3
      <4>2. CASE ~(j + 1 < LongitudeBands)
        <5>1. q + 1 = (i + 1) * LongitudeBands + 0
          BY <1>1, <4>2
        <5>2. 0 \in 0 .. LongitudeBands - 1 /\ i + 1 \in Nat /\ LongitudeBands \in Nat \ {0}
          BY <1>1
        <5>3. /\ ((i + 1) * LongitudeBands + 0) \div LongitudeBands = i + 1
              /\ ((i + 1) * LongitudeBands + 0) % LongitudeBands = 0
          BY <5>2, Euclid
        <5> QED  BY <4>2, <5>1, <5>3
      <4> QED  BY <4>1, <4>2
    <3> HIDE DEF a, b
    <3> QED  BY <3>2, <3>3, <3>4
  <2>2. /\ StripTriangle(4 * q + 3) = <<Grid(i, j + 1), Grid(i + 1, j + 1), Grid(k, l)>>
        /\ StripTriangle(4 * q + 4) = <<Grid(k, l), Grid(i + 1, j + 1), Grid(k + 1, l)>>
    BY <1>2, <1>4, <2>1 DEF StripTriangle
  <2>3. CASE j + 1 < LongitudeBands
    <3>1. k = i /\ l = j + 1
      BY <2>1, <2>3
    <3> QED  BY <2>2, <3>1 DEF Flat, Points
  <2>4. CASE ~(j + 1 < LongitudeBands)
    <3>1. k = i + 1 /\ l = 0 /\ j + 1 = LongitudeBands
      BY <1>1, <2>1, <2>4
    <3>2. SpherePoint(Grid(i + 1, j + 1)) = Pt(i + 1, j + 1) /\ SpherePoint(Grid(k, l)) = Pt(k, l)
      BY <1>1, <2>1, <3>1, PointAt
    <3>3. Pt(i + 1, j + 1) = Pt(k, l)
      BY <3>1 DEF Pt
    <3> QED  BY <2>2, <3>2, <3>3 DEF Flat, Points
  <2> QED  BY <2>3, <2>4
<1> QED  BY <1>5, <1>6, <1>7 DEF i, j, P

Uppers == { Upper(i, j) : i \in 1 .. LatitudeBands - 1, j \in 0 .. LongitudeBands - 1 }
Lowers == { Lower(i, j) : i \in 0 .. LatitudeBands - 2, j \in 0 .. LongitudeBands - 1 }

\* The points of the two halves of a cell.
LEMMA HalvesAt ==
  ASSUME NEW i \in 0 .. LatitudeBands - 1, NEW j \in 0 .. LongitudeBands - 1
  PROVE  /\ Points(UpperStrip(i, j)) = Upper(i, j)
         /\ Points(LowerStrip(i, j)) = Lower(i, j)
<1>1. /\ i \in 0 .. LatitudeBands /\ i + 1 \in 0 .. LatitudeBands
      /\ j \in 0 .. LongitudeBands /\ j + 1 \in 0 .. LongitudeBands
  OBVIOUS
<1>2. /\ SpherePoint(Grid(i, j)) = Pt(i, j) /\ SpherePoint(Grid(i + 1, j)) = Pt(i + 1, j)
      /\ SpherePoint(Grid(i, j + 1)) = Pt(i, j + 1)
      /\ SpherePoint(Grid(i + 1, j + 1)) = Pt(i + 1, j + 1)
  BY <1>1, PointAt
<1> QED  BY <1>2 DEF Points, UpperStrip, LowerStrip, Upper, Lower

\* The halves at a pole are flat where they would have two corners on it.
LEMMA FlatHalves ==
  ASSUME NEW i \in 0 .. LatitudeBands - 1, NEW j \in 0 .. LongitudeBands - 1
  PROVE  /\ Flat(Upper(i, j)) <=> i = 0
         /\ Flat(Lower(i, j)) <=> i = LatitudeBands - 1
<1>1. LongitudeBands \in Nat /\ LongitudeBands > 2 /\ LatitudeBands \in Nat /\ LatitudeBands > 1
  OBVIOUS
<1>2. Pt(i, j) # Pt(i + 1, j) /\ Pt(i + 1, j) # Pt(i, j + 1)
  BY DEF Pt
<1>3. Pt(i, j + 1) = Pt(i, j) <=> i = 0
  BY <1>1 DEF Pt
<1>4. Pt(i, j + 1) # Pt(i + 1, j) /\ Pt(i + 1, j + 1) # Pt(i, j + 1)
  BY DEF Pt
<1>5. Pt(i + 1, j) = Pt(i + 1, j + 1) <=> i = LatitudeBands - 1
  BY <1>1 DEF Pt
<1> HIDE DEF Pt
<1> QED  BY <1>2, <1>3, <1>4, <1>5 DEF Flat, Upper, Lower

\* The strip consists of the halves of its cells and of flat triangles.
LEMMA StripKinds ==
  ASSUME NEW t \in StripTriangles(IndexData), ~Flat(Points(t))
  PROVE  \E j \in 0 .. LongitudeBands - 1 :
           \/ \E i \in 1 .. LatitudeBands - 1 : t = UpperStrip(i, j)
           \/ \E i \in 0 .. LatitudeBands - 2 : t = LowerStrip(i, j)
<1> DEFINE P == LatitudeBands * LongitudeBands
<1>1. PICK k \in 1 .. IndexCount - 2 : t = StripTriangle(k)
  BY StripSet
<1>2. P \in Nat /\ IndexCount = 4 * P
  BY IndexTyped
<1> HIDE DEF P
<1>3. PICK q \in 0 .. P - 1 : k \in {4 * q + 1, 4 * q + 2, 4 * q + 3, 4 * q + 4}
  <2> DEFINE a == (k - 1) \div 4
  <2>1. a \in 0 .. P - 1 /\ k \in {4 * a + 1, 4 * a + 2, 4 * a + 3, 4 * a + 4}
    BY <1>1, <1>2
  <2> QED  BY <2>1
<1>4. k \in {4 * q + 3, 4 * q + 4} => q + 1 < P
  BY <1>1, <1>2, <1>3
<1> DEFINE i == q \div LongitudeBands
           j == q % LongitudeBands
<1>5. i \in 0 .. LatitudeBands - 1 /\ j \in 0 .. LongitudeBands - 1
  BY CellOf DEF P
<1>6. /\ StripTriangle(4 * q + 1) = UpperStrip(i, j)
      /\ StripTriangle(4 * q + 2) = LowerStrip(i, j)
      /\ q + 1 < P => /\ Flat(Points(StripTriangle(4 * q + 3)))
                      /\ Flat(Points(StripTriangle(4 * q + 4)))
  BY StripOfCell DEF P
<1> HIDE DEF i, j
<1>7. t = UpperStrip(i, j) \/ t = LowerStrip(i, j)
  BY <1>1, <1>3, <1>4, <1>6
<1>8. CASE t = UpperStrip(i, j)
  <2>1. i # 0
    BY <1>5, <1>8, HalvesAt, FlatHalves
  <2> QED  BY <1>5, <1>8, <2>1
<1>9. CASE t = LowerStrip(i, j)
  <2>1. i # LatitudeBands - 1
    BY <1>5, <1>9, HalvesAt, FlatHalves
  <2> QED  BY <1>5, <1>9, <2>1
<1> QED  BY <1>7, <1>8, <1>9

LEMMA StripHas ==
  ASSUME NEW i \in 0 .. LatitudeBands - 1, NEW j \in 0 .. LongitudeBands - 1
  PROVE  /\ UpperStrip(i, j) \in StripTriangles(IndexData)
         /\ LowerStrip(i, j) \in StripTriangles(IndexData)
<1> DEFINE P == LatitudeBands * LongitudeBands
           q == i * LongitudeBands + j
<1>1. q \in 0 .. P - 1 /\ q \div LongitudeBands = i /\ q % LongitudeBands = j
  BY CellAt
<1>2. /\ StripTriangle(4 * q + 1) = UpperStrip(i, j)
      /\ StripTriangle(4 * q + 2) = LowerStrip(i, j)
  BY <1>1, StripOfCell
<1>3. P \in Nat /\ IndexCount = 4 * P
  BY IndexTyped
<1> HIDE DEF P, q
<1>4. 4 * q + 1 \in 1 .. IndexCount - 2 /\ 4 * q + 2 \in 1 .. IndexCount - 2
  BY <1>1, <1>3
<1> QED  BY <1>2, <1>4, StripSet

\* What is drawn of the sphere.
LEMMA SphereProper == Proper(SphereTriangles) = Uppers \cup Lowers
<1>1. \A t : t \in Proper(SphereTriangles) <=> t \in SphereTriangles /\ ~Flat(t)
  BY DEF Proper, Flat
<1>2. ASSUME NEW t \in Proper(SphereTriangles)
      PROVE  t \in Uppers \cup Lowers
  <2>1. PICK s \in StripTriangles(IndexData) : t = Points(s)
    BY <1>1 DEF SphereTriangles
  <2>2. ~Flat(Points(s))
    BY <1>1, <2>1
  <2>3. PICK j \in 0 .. LongitudeBands - 1 :
          \/ \E i \in 1 .. LatitudeBands - 1 : s = UpperStrip(i, j)
          \/ \E i \in 0 .. LatitudeBands - 2 : s = LowerStrip(i, j)
    BY <2>2, StripKinds
  <2>4. ASSUME NEW i \in 1 .. LatitudeBands - 1, s = UpperStrip(i, j)
        PROVE  t \in Uppers
    <3>1. i \in 0 .. LatitudeBands - 1
      OBVIOUS
    <3> QED  BY <2>1, <2>4, <3>1, HalvesAt DEF Uppers
  <2>5. ASSUME NEW i \in 0 .. LatitudeBands - 2, s = LowerStrip(i, j)
        PROVE  t \in Lowers
    <3>1. i \in 0 .. LatitudeBands - 1
      OBVIOUS
    <3> QED  BY <2>1, <2>5, <3>1, HalvesAt DEF Lowers
  <2> QED  BY <2>3, <2>4, <2>5
<1>3. ASSUME NEW t \in Uppers
      PROVE  t \in Proper(SphereTriangles)
  <2>1. PICK i \in 1 .. LatitudeBands - 1, j \in 0 .. LongitudeBands - 1 : t = Upper(i, j)
    BY DEF Uppers
  <2>2. i \in 0 .. LatitudeBands - 1 /\ i # 0
    OBVIOUS
  <2> QED  BY <1>1, <2>1, <2>2, StripHas, HalvesAt, FlatHalves DEF SphereTriangles
<1>4. ASSUME NEW t \in Lowers
      PROVE  t \in Proper(SphereTriangles)
  <2>1. PICK i \in 0 .. LatitudeBands - 2, j \in 0 .. LongitudeBands - 1 : t = Lower(i, j)
    BY DEF Lowers
  <2>2. i \in 0 .. LatitudeBands - 1 /\ i # LatitudeBands - 1
    OBVIOUS
  <2> QED  BY <1>1, <2>1, <2>2, StripHas, HalvesAt, FlatHalves DEF SphereTriangles
<1> QED  BY <1>2, <1>3, <1>4

\* Every triangle of the sphere that is not flat is seen from outside.
LEMMA SphereFacesOut == SphereOutward
<1> SUFFICES ASSUME NEW t \in StripTriangles(IndexData), Proper({Points(t)}) # {}
             PROVE  SeenFromOutside(t)
  BY DEF SphereOutward
<1>1. ~Flat(Points(t))
  BY DEF Proper, Flat
<1>2. PICK j \in 0 .. LongitudeBands - 1 :
        \/ \E i \in 1 .. LatitudeBands - 1 : t = UpperStrip(i, j)
        \/ \E i \in 0 .. LatitudeBands - 2 : t = LowerStrip(i, j)
  BY <1>1, StripKinds
<1>3. ASSUME NEW i \in 0 .. LatitudeBands - 1
      PROVE  /\ Grid(i, j) \div Row = i /\ Grid(i, j) % Row = j
             /\ Grid(i + 1, j) \div Row = i + 1 /\ Grid(i + 1, j) % Row = j
             /\ Grid(i, j + 1) \div Row = i /\ Grid(i, j + 1) % Row = j + 1
             /\ Grid(i + 1, j + 1) \div Row = i + 1 /\ Grid(i + 1, j + 1) % Row = j + 1
  <2>1. i \in Nat /\ i + 1 \in Nat /\ j \in 0 .. LongitudeBands /\ j + 1 \in 0 .. LongitudeBands
    OBVIOUS
  <2> QED  BY <2>1, GridTyped
<1>4. ASSUME NEW i \in 1 .. LatitudeBands - 1, t = UpperStrip(i, j)
      PROVE  SeenFromOutside(t)
  <2>1. t[1] = Grid(i, j) /\ t[2] = Grid(i + 1, j) /\ t[3] = Grid(i, j + 1)
    BY <1>4 DEF UpperStrip
  <2>2. i \in 0 .. LatitudeBands - 1
    OBVIOUS
  <2>3. ((i + 1) - i) * ((j + 1) - j) - (i - i) * (j - j) > 0
    OBVIOUS
  <2> QED  BY <1>3, <2>1, <2>2, <2>3 DEF SeenFromOutside
<1>5. ASSUME NEW i \in 0 .. LatitudeBands - 2, t = LowerStrip(i, j)
      PROVE  SeenFromOutside(t)
  <2>1. t[1] = Grid(i, j + 1) /\ t[2] = Grid(i + 1, j) /\ t[3] = Grid(i + 1, j + 1)
    BY <1>5 DEF LowerStrip
  <2>2. i \in 0 .. LatitudeBands - 1
    OBVIOUS
  <2>3. ((i + 1) - i) * ((j + 1) - (j + 1)) - ((i + 1) - i) * (j - (j + 1)) > 0
    OBVIOUS
  <2> QED  BY <1>3, <2>1, <2>2, <2>3 DEF SeenFromOutside
<1> QED  BY <1>2, <1>4, <1>5

-----------------------------------------------------------------------------
(* The edges of the sphere.                                                *)

\* An edge by the latitudes and longitudes of its two ends.
Edge(a, b, c, d) == <<Pt(a, b), Pt(c, d)>>
Col(i, j) == IF i \in {0, LatitudeBands} \/ j = LongitudeBands THEN 0 ELSE j

LEMMA SameEdge ==
  ASSUME NEW a, NEW b, NEW c, NEW d, NEW k, NEW l, NEW m, NEW n,
         Edge(a, b, c, d) = Edge(k, l, m, n)
  PROVE  a = k /\ c = m /\ Col(a, b) = Col(k, l) /\ Col(c, d) = Col(m, n)
<1>1. Pt(a, b) = Pt(k, l) /\ Pt(c, d) = Pt(m, n)
  BY DEF Edge
<1> QED  BY <1>1 DEF Pt, Col

LEMMA UpperEdges ==
  ASSUME NEW i, NEW j, NEW e
  PROVE  e \in Edges(Upper(i, j)) <=>
           \/ e = Edge(i, j, i + 1, j)
           \/ e = Edge(i + 1, j, i, j + 1)
           \/ e = Edge(i, j + 1, i, j)
BY DEF Edges, Upper, Edge

LEMMA LowerEdges ==
  ASSUME NEW i, NEW j, NEW e
  PROVE  e \in Edges(Lower(i, j)) <=>
           \/ e = Edge(i, j + 1, i + 1, j)
           \/ e = Edge(i + 1, j, i + 1, j + 1)
           \/ e = Edge(i + 1, j + 1, i, j + 1)
BY DEF Edges, Lower, Edge

\* No two upper halves have an edge in the same direction.
LEMMA UpperApart ==
  ASSUME NEW i \in 1 .. LatitudeBands - 1, NEW k \in 1 .. LatitudeBands - 1,
         NEW j \in 0 .. LongitudeBands - 1, NEW l \in 0 .. LongitudeBands - 1,
         NEW e \in Edges(Upper(i, j)) \cap Edges(Upper(k, l))
  PROVE  i = k /\ j = l
<1>1. /\ \/ e = Edge(i, j, i + 1, j)
         \/ e = Edge(i + 1, j, i, j + 1)
         \/ e = Edge(i, j + 1, i, j)
      /\ \/ e = Edge(k, l, k + 1, l)
         \/ e = Edge(k + 1, l, k, l + 1)
         \/ e = Edge(k, l + 1, k, l)
  BY UpperEdges
<1>2. CASE e = Edge(i, j, i + 1, j)
  BY <1>1, <1>2, SameEdge DEF Col
<1>3. CASE e = Edge(i + 1, j, i, j + 1)
  BY <1>1, <1>3, SameEdge DEF Col
<1>4. CASE e = Edge(i, j + 1, i, j)
  BY <1>1, <1>4, SameEdge DEF Col
<1> QED  BY <1>1, <1>2, <1>3, <1>4

LEMMA LowerApart ==
  ASSUME NEW i \in 0 .. LatitudeBands - 2, NEW k \in 0 .. LatitudeBands - 2,
         NEW j \in 0 .. LongitudeBands - 1, NEW l \in 0 .. LongitudeBands - 1,
         NEW e \in Edges(Lower(i, j)) \cap Edges(Lower(k, l))
  PROVE  i = k /\ j = l
<1>1. /\ \/ e = Edge(i, j + 1, i + 1, j)
         \/ e = Edge(i + 1, j, i + 1, j + 1)
         \/ e = Edge(i + 1, j + 1, i, j + 1)
      /\ \/ e = Edge(k, l + 1, k + 1, l)
         \/ e = Edge(k + 1, l, k + 1, l + 1)
         \/ e = Edge(k + 1, l + 1, k, l + 1)
  BY LowerEdges
<1>2. CASE e = Edge(i, j + 1, i + 1, j)
  BY <1>1, <1>2, SameEdge DEF Col
<1>3. CASE e = Edge(i + 1, j, i + 1, j + 1)
  BY <1>1, <1>3, SameEdge DEF Col
<1>4. CASE e = Edge(i + 1, j + 1, i, j + 1)
  BY <1>1, <1>4, SameEdge DEF Col
<1> QED  BY <1>1, <1>2, <1>3, <1>4

LEMMA UpperLowerApart ==
  ASSUME NEW i \in 1 .. LatitudeBands - 1, NEW k \in 0 .. LatitudeBands - 2,
         NEW j \in 0 .. LongitudeBands - 1, NEW l \in 0 .. LongitudeBands - 1
  PROVE  Edges(Upper(i, j)) \cap Edges(Lower(k, l)) = {}
<1> SUFFICES ASSUME NEW e \in Edges(Upper(i, j)) \cap Edges(Lower(k, l)) PROVE FALSE
  OBVIOUS
<1>1. /\ \/ e = Edge(i, j, i + 1, j)
         \/ e = Edge(i + 1, j, i, j + 1)
         \/ e = Edge(i, j + 1, i, j)
      /\ \/ e = Edge(k, l + 1, k + 1, l)
         \/ e = Edge(k + 1, l, k + 1, l + 1)
         \/ e = Edge(k + 1, l + 1, k, l + 1)
  BY UpperEdges, LowerEdges
<1>2. CASE e = Edge(i, j, i + 1, j)
  BY <1>1, <1>2, SameEdge DEF Col
<1>3. CASE e = Edge(i + 1, j, i, j + 1)
  BY <1>1, <1>3, SameEdge DEF Col
<1>4. CASE e = Edge(i, j + 1, i, j)
  BY <1>1, <1>4, SameEdge DEF Col
<1> QED  BY <1>1, <1>2, <1>3, <1>4

\* The columns next to a column, around the sphere.
East(j) == IF j = LongitudeBands - 1 THEN 0 ELSE j + 1
West(j) == IF j = 0 THEN LongitudeBands - 1 ELSE j - 1

LEMMA Around ==
  ASSUME NEW i, NEW j \in 0 .. LongitudeBands - 1
  PROVE  /\ East(j) \in 0 .. LongitudeBands - 1 /\ West(j) \in 0 .. LongitudeBands - 1
         /\ Pt(i, East(j)) = Pt(i, j + 1) /\ Pt(i, West(j) + 1) = Pt(i, j)
BY DEF Pt, East, West

LEMMA Poles ==
  ASSUME NEW a, NEW b
  PROVE  Pt(0, a) = Pt(0, b) /\ Pt(LatitudeBands, a) = Pt(LatitudeBands, b)
BY DEF Pt

\* e runs along an edge of the sphere the other way.
Met(e) == \E t \in Uppers \cup Lowers : <<e[2], e[1]>> \in Edges(t)

LEMMA MetByUpper ==
  ASSUME NEW i \in 1 .. LatitudeBands - 1, NEW j \in 0 .. LongitudeBands - 1, NEW e,
         \/ <<e[2], e[1]>> = Edge(i, j, i + 1, j)
         \/ <<e[2], e[1]>> = Edge(i + 1, j, i, j + 1)
         \/ <<e[2], e[1]>> = Edge(i, j + 1, i, j)
  PROVE  Met(e)
<1>1. Upper(i, j) \in Uppers
  BY DEF Uppers
<1>2. <<e[2], e[1]>> \in Edges(Upper(i, j))
  BY UpperEdges
<1> QED  BY <1>1, <1>2 DEF Met

LEMMA MetByLower ==
  ASSUME NEW i \in 0 .. LatitudeBands - 2, NEW j \in 0 .. LongitudeBands - 1, NEW e,
         \/ <<e[2], e[1]>> = Edge(i, j + 1, i + 1, j)
         \/ <<e[2], e[1]>> = Edge(i + 1, j, i + 1, j + 1)
         \/ <<e[2], e[1]>> = Edge(i + 1, j + 1, i, j + 1)
  PROVE  Met(e)
<1>1. Lower(i, j) \in Lowers
  BY DEF Lowers
<1>2. <<e[2], e[1]>> \in Edges(Lower(i, j))
  BY LowerEdges
<1> QED  BY <1>1, <1>2 DEF Met

\* Each edge of an upper half is an edge of its neighbour in the other
\* direction.
LEMMA UpperMet ==
  ASSUME NEW i \in 1 .. LatitudeBands - 1, NEW j \in 0 .. LongitudeBands - 1,
         NEW e \in Edges(Upper(i, j))
  PROVE  Met(e)
<1>0. LatitudeBands \in Nat /\ LatitudeBands > 1
  OBVIOUS
<1>1. /\ East(j) \in 0 .. LongitudeBands - 1 /\ West(j) \in 0 .. LongitudeBands - 1
      /\ \A k : Pt(k, East(j)) = Pt(k, j + 1) /\ Pt(k, West(j) + 1) = Pt(k, j)
  BY Around
<1>2. CASE e = Edge(i, j, i + 1, j)
  <2>1. <<e[2], e[1]>> = <<Pt(i + 1, j), Pt(i, j)>>
    BY <1>2 DEF Edge
  <2>2. CASE i # LatitudeBands - 1
    <3>1. i \in 0 .. LatitudeBands - 2
      BY <1>0, <2>2
    <3>2. <<e[2], e[1]>> = Edge(i + 1, West(j) + 1, i, West(j) + 1)
      BY <1>1, <2>1 DEF Edge
    <3> QED  BY <1>1, <3>1, <3>2, MetByLower
  <2>3. CASE i = LatitudeBands - 1
    <3>1. i + 1 = LatitudeBands
      BY <1>0, <2>3
    <3>2. <<e[2], e[1]>> = Edge(i + 1, West(j), i, West(j) + 1)
      BY <1>1, <2>1, <3>1, Poles DEF Edge
    <3> QED  BY <1>1, <3>2, MetByUpper
  <2> QED  BY <2>2, <2>3
<1>3. CASE e = Edge(i + 1, j, i, j + 1)
  <2>1. <<e[2], e[1]>> = <<Pt(i, j + 1), Pt(i + 1, j)>>
    BY <1>3 DEF Edge
  <2>2. CASE i # LatitudeBands - 1
    <3>1. i \in 0 .. LatitudeBands - 2
      BY <1>0, <2>2
    <3>2. <<e[2], e[1]>> = Edge(i, j + 1, i + 1, j)
      BY <2>1 DEF Edge
    <3> QED  BY <3>1, <3>2, MetByLower
  <2>3. CASE i = LatitudeBands - 1
    <3>1. i + 1 = LatitudeBands
      BY <1>0, <2>3
    <3>2. <<e[2], e[1]>> = Edge(i, East(j), i + 1, East(j))
      BY <1>1, <2>1, <3>1, Poles DEF Edge
    <3> QED  BY <1>1, <3>2, MetByUpper
  <2> QED  BY <2>2, <2>3
<1>4. CASE e = Edge(i, j + 1, i, j)
  <2>1. i - 1 \in 0 .. LatitudeBands - 2 /\ (i - 1) + 1 = i
    BY <1>0
  <2>2. <<e[2], e[1]>> = Edge((i - 1) + 1, j, (i - 1) + 1, j + 1)
    BY <1>4, <2>1 DEF Edge
  <2> QED  BY <2>1, <2>2, MetByLower
<1> QED  BY <1>2, <1>3, <1>4, UpperEdges

LEMMA LowerMet ==
  ASSUME NEW i \in 0 .. LatitudeBands - 2, NEW j \in 0 .. LongitudeBands - 1,
         NEW e \in Edges(Lower(i, j))
  PROVE  Met(e)
<1>0. LatitudeBands \in Nat /\ LatitudeBands > 1
  OBVIOUS
<1>1. /\ East(j) \in 0 .. LongitudeBands - 1 /\ West(j) \in 0 .. LongitudeBands - 1
      /\ \A k : Pt(k, East(j)) = Pt(k, j + 1) /\ Pt(k, West(j) + 1) = Pt(k, j)
  BY Around
<1>2. CASE e = Edge(i, j + 1, i + 1, j)
  <2>1. <<e[2], e[1]>> = <<Pt(i + 1, j), Pt(i, j + 1)>>
    BY <1>2 DEF Edge
  <2>2. CASE i # 0
    <3>1. i \in 1 .. LatitudeBands - 1
      BY <1>0, <2>2
    <3>2. <<e[2], e[1]>> = Edge(i + 1, j, i, j + 1)
      BY <2>1 DEF Edge
    <3> QED  BY <3>1, <3>2, MetByUpper
  <2>3. CASE i = 0
    <3>1. <<e[2], e[1]>> = Edge(i + 1, West(j) + 1, i, West(j) + 1)
      BY <1>1, <2>1, <2>3, Poles DEF Edge
    <3> QED  BY <1>1, <3>1, MetByLower
  <2> QED  BY <2>2, <2>3
<1>3. CASE e = Edge(i + 1, j, i + 1, j + 1)
  <2>1. i + 1 \in 1 .. LatitudeBands - 1
    BY <1>0
  <2>2. <<e[2], e[1]>> = Edge(i + 1, j + 1, i + 1, j)
    BY <1>3 DEF Edge
  <2> QED  BY <2>1, <2>2, MetByUpper
<1>4. CASE e = Edge(i + 1, j + 1, i, j + 1)
  <2>1. <<e[2], e[1]>> = <<Pt(i, j + 1), Pt(i + 1, j + 1)>>
    BY <1>4 DEF Edge
  <2>2. CASE i # 0
    <3>1. i \in 1 .. LatitudeBands - 1
      BY <1>0, <2>2
    <3>2. <<e[2], e[1]>> = Edge(i, East(j), i + 1, East(j))
      BY <1>1, <2>1 DEF Edge
    <3> QED  BY <1>1, <3>1, <3>2, MetByUpper
  <2>3. CASE i = 0
    <3>1. <<e[2], e[1]>> = Edge(i, East(j) + 1, i + 1, East(j))
      BY <1>1, <2>1, <2>3, Poles DEF Edge
    <3> QED  BY <1>1, <3>1, MetByLower
  <2> QED  BY <2>2, <2>3
<1> QED  BY <1>2, <1>3, <1>4, LowerEdges

-----------------------------------------------------------------------------
(* Counting the edges.                                                     *)

\* Triangles that share no directed edge have three each.
LEMMA ThreeEdges ==
  ASSUME NEW T, IsFiniteSet(T), \A t \in T : ~Flat(t),
         \A s, t \in T : s # t => Edges(s) \cap Edges(t) = {}
  PROVE  LET edges == UNION { Edges(t) : t \in T } IN
         IsFiniteSet(edges) /\ Cardinality(edges) = 3 * Cardinality(T)
<1> DEFINE E == UNION { Edges(t) : t \in T }
           X == T \X (1 .. 3)
           Nth(t, m) == CASE m = 1 -> <<t[1], t[2]>> [] m = 2 -> <<t[2], t[3]>>
                          [] OTHER -> <<t[3], t[1]>>
           f == [x \in X |-> Nth(x[1], x[2])]
<1>1. IsFiniteSet(1 .. 3) /\ Cardinality(1 .. 3) = 3
  <2>1. 1 \in Int /\ 3 \in Int /\ ~(1 > 3) /\ 3 - 1 + 1 = 3
    OBVIOUS
  <2> QED  BY <2>1, FS_Interval
<1>2. IsFiniteSet(X) /\ Cardinality(X) = Cardinality(T) * 3
  BY <1>1, FS_Product
<1>3. ASSUME NEW t \in T, NEW m \in 1 .. 3
      PROVE  Nth(t, m) \in Edges(t)
  BY DEF Edges
<1>4. ASSUME NEW t \in T, NEW m \in 1 .. 3, NEW n \in 1 .. 3, Nth(t, m) = Nth(t, n)
      PROVE  m = n
  <2>1. t[1] # t[2] /\ t[2] # t[3] /\ t[3] # t[1]
    BY DEF Flat
  <2> QED  BY <1>4, <2>1
<1>5. ASSUME NEW t \in T, NEW e \in Edges(t)
      PROVE  \E m \in 1 .. 3 : e = Nth(t, m)
  <2>1. Nth(t, 1) = <<t[1], t[2]>> /\ Nth(t, 2) = <<t[2], t[3]>> /\ Nth(t, 3) = <<t[3], t[1]>>
    OBVIOUS
  <2>2. e = Nth(t, 1) \/ e = Nth(t, 2) \/ e = Nth(t, 3)
    BY <2>1 DEF Edges
  <2> HIDE DEF Nth
  <2>3. 1 \in 1 .. 3 /\ 2 \in 1 .. 3 /\ 3 \in 1 .. 3
    OBVIOUS
  <2> QED  BY <2>2, <2>3
<1> HIDE DEF Nth
<1>6. \A x \in X : x[1] \in T /\ x[2] \in 1 .. 3 /\ x = <<x[1], x[2]>>
  OBVIOUS
<1>7. f \in Bijection(X, E)
  <2>1. f \in [X -> E]
    BY <1>3, <1>6
  <2>2. ASSUME NEW x \in X, NEW y \in X, f[x] = f[y]
        PROVE  x = y
    <3>1. Nth(x[1], x[2]) \in Edges(x[1]) /\ Nth(y[1], y[2]) \in Edges(y[1])
      BY <1>3, <1>6
    <3>2. Nth(x[1], x[2]) = Nth(y[1], y[2])
      BY <2>2
    <3>3. x[1] = y[1]
      BY <1>6, <3>1, <3>2
    <3>4. x[2] = y[2]
      BY <1>4, <1>6, <3>2, <3>3
    <3> QED  BY <1>6, <3>3, <3>4
  <2>3. ASSUME NEW e \in E
        PROVE  \E x \in X : f[x] = e
    <3>1. PICK t \in T : e \in Edges(t)
      OBVIOUS
    <3>2. PICK m \in 1 .. 3 : e = Nth(t, m)
      BY <1>5, <3>1
    <3>3. <<t, m>> \in X /\ f[<<t, m>>] = e
      BY <3>2
    <3> QED  BY <3>3
  <2> HIDE DEF f, E, X
  <2> QED  BY <2>1, <2>2, <2>3 DEF Bijection, Injection, Surjection, IsInjective
<1> HIDE DEF f, E, X
<1>8. IsFiniteSet(E) /\ Cardinality(E) = Cardinality(X)
  <2>1. ExistsBijection(X, E)
    BY <1>7 DEF ExistsBijection
  <2> QED  BY <1>2, <2>1, FS_Bijection
<1>9. Cardinality(T) \in Nat
  BY FS_CardinalityType
<1> QED  BY <1>2, <1>8, <1>9 DEF E

\* The sphere has finitely many triangles.
LEMMA HalvesFinite == IsFiniteSet(Uppers \cup Lowers)
<1> DEFINE J == 0 .. LongitudeBands - 1
           I == 0 .. LatitudeBands
           X == I \X J
           U == { Upper(x[1], x[2]) : x \in X }
           D == { Lower(x[1], x[2]) : x \in X }
<1>1. IsFiniteSet(I) /\ IsFiniteSet(J)
  <2>1. 0 \in Int /\ LatitudeBands \in Int /\ LongitudeBands - 1 \in Int
    OBVIOUS
  <2> QED  BY <2>1, FS_Interval
<1>2. IsFiniteSet(X)
  BY <1>1, FS_Product
<1>3. Uppers \subseteq U
  <2>1. ASSUME NEW t \in Uppers PROVE t \in U
    <3>1. PICK i \in 1 .. LatitudeBands - 1, j \in J : t = Upper(i, j)
      BY DEF Uppers
    <3>2. <<i, j>> \in X /\ t = Upper(<<i, j>>[1], <<i, j>>[2])
      BY <3>1
    <3> HIDE DEF X
    <3> QED  BY <3>2
  <2> QED  BY <2>1
<1>4. Lowers \subseteq D
  <2>1. ASSUME NEW t \in Lowers PROVE t \in D
    <3>1. PICK i \in 0 .. LatitudeBands - 2, j \in J : t = Lower(i, j)
      BY DEF Lowers
    <3>2. <<i, j>> \in X /\ t = Lower(<<i, j>>[1], <<i, j>>[2])
      BY <3>1
    <3> HIDE DEF X
    <3> QED  BY <3>2
  <2> QED  BY <2>1
<1> DEFINE u == [x \in X |-> Upper(x[1], x[2])]
           d == [x \in X |-> Lower(x[1], x[2])]
<1> HIDE DEF X
<1>5. IsFiniteSet(U) /\ IsFiniteSet(D)
  <2>1. u \in Surjection(X, U) /\ d \in Surjection(X, D)
    BY DEF Surjection
  <2> HIDE DEF U, D, u, d
  <2> QED  BY <1>2, <2>1, FS_Surjection
<1> HIDE DEF U, D
<1>6. IsFiniteSet(Uppers) /\ IsFiniteSet(Lowers)
  BY <1>3, <1>4, <1>5, FS_Subset
<1> QED  BY <1>6, FS_Union

\* What closes a set of triangles.
LEMMA Closes ==
  ASSUME NEW T, Proper(T) # {}, IsFiniteSet(Proper(T)),
         \A s, t \in Proper(T) : s # t => Edges(s) \cap Edges(t) = {},
         \A t \in Proper(T) : \A e \in Edges(t) :
           \E s \in Proper(T) : <<e[2], e[1]>> \in Edges(s)
  PROVE  ClosedSurface(T)
<1> DEFINE P == Proper(T)
<1>1. \A t \in P : ~Flat(t)
  BY DEF Proper, Flat
<1> HIDE DEF P
<1>2. Cardinality(UNION { Edges(t) : t \in P }) = 3 * Cardinality(P)
  BY <1>1, ThreeEdges DEF P
<1> QED  BY <1>2 DEF ClosedSurface, P

\* The sphere is closed: each edge is shared by two triangles that run along it
\* in opposite directions, also where the longitudes meet and at the poles.
LEMMA SphereCloses == ClosedSurface(SphereTriangles)
<1> DEFINE T == Uppers \cup Lowers
<1>1. Proper(SphereTriangles) = T /\ IsFiniteSet(T)
  BY SphereProper, HalvesFinite
<1>2. T # {}
  <2>1. 0 \in 0 .. LatitudeBands - 2 /\ 0 \in 0 .. LongitudeBands - 1
    OBVIOUS
  <2>2. Lower(0, 0) \in Lowers
    BY <2>1 DEF Lowers
  <2> QED  BY <2>2
<1>3. ASSUME NEW s \in T, NEW t \in T, s # t
      PROVE  Edges(s) \cap Edges(t) = {}
  <2> SUFFICES ASSUME NEW e \in Edges(s) \cap Edges(t) PROVE FALSE
    OBVIOUS
  <2>1. ASSUME s \in Uppers, t \in Uppers PROVE FALSE
    BY <1>3, <2>1, UpperApart DEF Uppers
  <2>2. ASSUME s \in Lowers, t \in Lowers PROVE FALSE
    BY <1>3, <2>2, LowerApart DEF Lowers
  <2>3. ASSUME NEW a \in Uppers, NEW b \in Lowers
        PROVE  Edges(a) \cap Edges(b) = {}
    BY <2>3, UpperLowerApart DEF Uppers, Lowers
  <2> QED  BY <2>1, <2>2, <2>3
<1>4. ASSUME NEW t \in T, NEW e \in Edges(t)
      PROVE  Met(e)
  <2>1. CASE t \in Uppers
    BY <2>1, UpperMet DEF Uppers
  <2>2. CASE t \in Lowers
    BY <2>2, LowerMet DEF Lowers
  <2> QED  BY <2>1, <2>2
<1> HIDE DEF T
<1> QED  BY <1>1, <1>2, <1>3, <1>4, Closes DEF Met, T

-----------------------------------------------------------------------------
(* The cube.                                                               *)

\* The corners of the cube, and the ways along its edges: 12 is the way from
\* corner 1 to corner 2.
Corner == << <<1, 1, -1>>, <<1, -1, -1>>, <<-1, -1, -1>>, <<-1, 1, -1>>,
             <<1, 1, 1>>, <<1, -1, 1>>, <<-1, -1, 1>>, <<-1, 1, 1>> >>
Way(c) == <<Corner[c \div 10], Corner[c % 10]>>
Ways == << {12, 23, 31}, {34, 41, 13}, {65, 58, 86}, {87, 76, 68}, {56, 62, 25}, {21, 15, 52},
           {51, 14, 45}, {48, 85, 54}, {26, 67, 72}, {73, 32, 27}, {43, 37, 74}, {78, 84, 47} >>

CubeTriangles == { CubeTriangle(k) : k \in Parts }

\* The two triangles of a square.
LEMMA SquareHalves ==
  ASSUME NEW k \in Parts
  PROVE  LET s == CubeSquares[(k + 1) \div 2] IN
         CubeTriangle(k) = IF k % 2 = 1 THEN <<s[1], s[2], s[3]>> ELSE <<s[3], s[4], s[1]>>
<1>1. k % 2 = 1 \/ k % 2 = 0
  BY DEF Parts
<1> QED  BY <1>1 DEF CubeTriangle, SquareTriangles

LEMMA Squares ==
  /\ CubeSquares[1] = <<Corner[1], Corner[2], Corner[3], Corner[4]>>
  /\ CubeSquares[2] = <<Corner[6], Corner[5], Corner[8], Corner[7]>>
  /\ CubeSquares[3] = <<Corner[5], Corner[6], Corner[2], Corner[1]>>
  /\ CubeSquares[4] = <<Corner[5], Corner[1], Corner[4], Corner[8]>>
  /\ CubeSquares[5] = <<Corner[2], Corner[6], Corner[7], Corner[3]>>
  /\ CubeSquares[6] = <<Corner[4], Corner[3], Corner[7], Corner[8]>>
BY DEF CubeSquares, Corner

LEMMA CornersDiffer ==
  ASSUME NEW a \in 1 .. 8, NEW b \in 1 .. 8, Corner[a] = Corner[b]
  PROVE  a = b
BY DEF Corner

\* The twelve triangles.
LEMMA CubeTable ==
  /\ CubeTriangle(1) = <<Corner[1], Corner[2], Corner[3]>>
  /\ CubeTriangle(2) = <<Corner[3], Corner[4], Corner[1]>>
  /\ CubeTriangle(3) = <<Corner[6], Corner[5], Corner[8]>>
  /\ CubeTriangle(4) = <<Corner[8], Corner[7], Corner[6]>>
  /\ CubeTriangle(5) = <<Corner[5], Corner[6], Corner[2]>>
  /\ CubeTriangle(6) = <<Corner[2], Corner[1], Corner[5]>>
  /\ CubeTriangle(7) = <<Corner[5], Corner[1], Corner[4]>>
  /\ CubeTriangle(8) = <<Corner[4], Corner[8], Corner[5]>>
  /\ CubeTriangle(9) = <<Corner[2], Corner[6], Corner[7]>>
  /\ CubeTriangle(10) = <<Corner[7], Corner[3], Corner[2]>>
  /\ CubeTriangle(11) = <<Corner[4], Corner[3], Corner[7]>>
  /\ CubeTriangle(12) = <<Corner[7], Corner[8], Corner[4]>>
<1>1. /\ (1 + 1) \div 2 = 1 /\ (2 + 1) \div 2 = 1 /\ (3 + 1) \div 2 = 2 /\ (4 + 1) \div 2 = 2
      /\ (5 + 1) \div 2 = 3 /\ (6 + 1) \div 2 = 3 /\ (7 + 1) \div 2 = 4 /\ (8 + 1) \div 2 = 4
      /\ (9 + 1) \div 2 = 5 /\ (10 + 1) \div 2 = 5 /\ (11 + 1) \div 2 = 6 /\ (12 + 1) \div 2 = 6
  OBVIOUS
<1>2. /\ 1 % 2 = 1 /\ 3 % 2 = 1 /\ 5 % 2 = 1 /\ 7 % 2 = 1 /\ 9 % 2 = 1 /\ 11 % 2 = 1
      /\ 2 % 2 # 1 /\ 4 % 2 # 1 /\ 6 % 2 # 1 /\ 8 % 2 # 1 /\ 10 % 2 # 1 /\ 12 % 2 # 1
  OBVIOUS
<1>3. \A k \in 1 .. 12 : k \in Parts
  BY DEF Parts
<1>4. CubeTriangle(1) = <<Corner[1], Corner[2], Corner[3]>>
      /\ CubeTriangle(2) = <<Corner[3], Corner[4], Corner[1]>>
  BY <1>1, <1>2, <1>3, SquareHalves, Squares
<1>5. CubeTriangle(3) = <<Corner[6], Corner[5], Corner[8]>>
      /\ CubeTriangle(4) = <<Corner[8], Corner[7], Corner[6]>>
  BY <1>1, <1>2, <1>3, SquareHalves, Squares
<1>6. CubeTriangle(5) = <<Corner[5], Corner[6], Corner[2]>>
      /\ CubeTriangle(6) = <<Corner[2], Corner[1], Corner[5]>>
  BY <1>1, <1>2, <1>3, SquareHalves, Squares
<1>7. CubeTriangle(7) = <<Corner[5], Corner[1], Corner[4]>>
      /\ CubeTriangle(8) = <<Corner[4], Corner[8], Corner[5]>>
  BY <1>1, <1>2, <1>3, SquareHalves, Squares
<1>8. CubeTriangle(9) = <<Corner[2], Corner[6], Corner[7]>>
      /\ CubeTriangle(10) = <<Corner[7], Corner[3], Corner[2]>>
  BY <1>1, <1>2, <1>3, SquareHalves, Squares
<1>9. CubeTriangle(11) = <<Corner[4], Corner[3], Corner[7]>>
      /\ CubeTriangle(12) = <<Corner[7], Corner[8], Corner[4]>>
  BY <1>1, <1>2, <1>3, SquareHalves, Squares
<1> QED  BY <1>4, <1>5, <1>6, <1>7, <1>8, <1>9

\* No two triangles use an edge in the same direction, and each use is met.
LEMMA WaysApart ==
  ASSUME NEW k \in Parts, NEW l \in Parts, NEW c \in Ways[k] \cap Ways[l]
  PROVE  k = l
BY DEF Ways, Parts

LEMMA WaysMet ==
  ASSUME NEW k \in Parts, NEW c \in Ways[k]
  PROVE  /\ c \in 11 .. 88 /\ c \div 10 \in 1 .. 8 /\ c % 10 \in 1 .. 8
         /\ c \div 10 # c % 10
         /\ \E l \in Parts : 10 * (c % 10) + (c \div 10) \in Ways[l]
BY DEF Ways, Parts

\* A triangle of the cube goes three ways.
LEMMA WayAt ==
  ASSUME NEW x \in 1 .. 8, NEW y \in 1 .. 8
  PROVE  Way(10 * x + y) = <<Corner[x], Corner[y]>>
<1>1. (10 * x + y) \div 10 = x /\ (10 * x + y) % 10 = y
  OBVIOUS
<1> QED  BY <1>1 DEF Way

LEMMA ThreeWays ==
  ASSUME NEW k \in Parts, NEW a \in 1 .. 8, NEW b \in 1 .. 8, NEW c \in 1 .. 8,
         CubeTriangle(k) = <<Corner[a], Corner[b], Corner[c]>>,
         Ways[k] = {10 * a + b, 10 * b + c, 10 * c + a}
  PROVE  Edges(CubeTriangle(k)) = { Way(w) : w \in Ways[k] }
<1> DEFINE x == 10 * a + b
           y == 10 * b + c
           z == 10 * c + a
           t == CubeTriangle(k)
<1>1. Way(x) = <<Corner[a], Corner[b]>> /\ Way(y) = <<Corner[b], Corner[c]>>
      /\ Way(z) = <<Corner[c], Corner[a]>>
  BY WayAt
<1>2. t[1] = Corner[a] /\ t[2] = Corner[b] /\ t[3] = Corner[c]
  OBVIOUS
<1>3. Ways[k] = {x, y, z}
  OBVIOUS
<1> HIDE DEF t, x, y, z
<1>4. { Way(w) : w \in Ways[k] } = { Way(x), Way(y), Way(z) }
  BY <1>3
<1>5. Edges(t) = { Way(x), Way(y), Way(z) }
  BY <1>1, <1>2 DEF Edges
<1> QED  BY <1>4, <1>5 DEF t

LEMMA CubeEdges ==
  ASSUME NEW k \in Parts
  PROVE  Edges(CubeTriangle(k)) = { Way(c) : c \in Ways[k] }
<1>1. CASE k = 1
  <2>1. Ways[k] = {10 * 1 + 2, 10 * 2 + 3, 10 * 3 + 1}
    BY <1>1 DEF Ways
  <2>2. 1 \in 1 .. 8 /\ 2 \in 1 .. 8 /\ 3 \in 1 .. 8
    OBVIOUS
  <2>3. CubeTriangle(k) = <<Corner[1], Corner[2], Corner[3]>>
    BY <1>1, CubeTable
  <2> QED  BY <2>1, <2>2, <2>3, ThreeWays
<1>2. CASE k = 2
  <2>1. Ways[k] = {10 * 3 + 4, 10 * 4 + 1, 10 * 1 + 3}
    BY <1>2 DEF Ways
  <2>2. 3 \in 1 .. 8 /\ 4 \in 1 .. 8 /\ 1 \in 1 .. 8
    OBVIOUS
  <2>3. CubeTriangle(k) = <<Corner[3], Corner[4], Corner[1]>>
    BY <1>2, CubeTable
  <2> QED  BY <2>1, <2>2, <2>3, ThreeWays
<1>3. CASE k = 3
  <2>1. Ways[k] = {10 * 6 + 5, 10 * 5 + 8, 10 * 8 + 6}
    BY <1>3 DEF Ways
  <2>2. 6 \in 1 .. 8 /\ 5 \in 1 .. 8 /\ 8 \in 1 .. 8
    OBVIOUS
  <2>3. CubeTriangle(k) = <<Corner[6], Corner[5], Corner[8]>>
    BY <1>3, CubeTable
  <2> QED  BY <2>1, <2>2, <2>3, ThreeWays
<1>4. CASE k = 4
  <2>1. Ways[k] = {10 * 8 + 7, 10 * 7 + 6, 10 * 6 + 8}
    BY <1>4 DEF Ways
  <2>2. 8 \in 1 .. 8 /\ 7 \in 1 .. 8 /\ 6 \in 1 .. 8
    OBVIOUS
  <2>3. CubeTriangle(k) = <<Corner[8], Corner[7], Corner[6]>>
    BY <1>4, CubeTable
  <2> QED  BY <2>1, <2>2, <2>3, ThreeWays
<1>5. CASE k = 5
  <2>1. Ways[k] = {10 * 5 + 6, 10 * 6 + 2, 10 * 2 + 5}
    BY <1>5 DEF Ways
  <2>2. 5 \in 1 .. 8 /\ 6 \in 1 .. 8 /\ 2 \in 1 .. 8
    OBVIOUS
  <2>3. CubeTriangle(k) = <<Corner[5], Corner[6], Corner[2]>>
    BY <1>5, CubeTable
  <2> QED  BY <2>1, <2>2, <2>3, ThreeWays
<1>6. CASE k = 6
  <2>1. Ways[k] = {10 * 2 + 1, 10 * 1 + 5, 10 * 5 + 2}
    BY <1>6 DEF Ways
  <2>2. 2 \in 1 .. 8 /\ 1 \in 1 .. 8 /\ 5 \in 1 .. 8
    OBVIOUS
  <2>3. CubeTriangle(k) = <<Corner[2], Corner[1], Corner[5]>>
    BY <1>6, CubeTable
  <2> QED  BY <2>1, <2>2, <2>3, ThreeWays
<1>7. CASE k = 7
  <2>1. Ways[k] = {10 * 5 + 1, 10 * 1 + 4, 10 * 4 + 5}
    BY <1>7 DEF Ways
  <2>2. 5 \in 1 .. 8 /\ 1 \in 1 .. 8 /\ 4 \in 1 .. 8
    OBVIOUS
  <2>3. CubeTriangle(k) = <<Corner[5], Corner[1], Corner[4]>>
    BY <1>7, CubeTable
  <2> QED  BY <2>1, <2>2, <2>3, ThreeWays
<1>8. CASE k = 8
  <2>1. Ways[k] = {10 * 4 + 8, 10 * 8 + 5, 10 * 5 + 4}
    BY <1>8 DEF Ways
  <2>2. 4 \in 1 .. 8 /\ 8 \in 1 .. 8 /\ 5 \in 1 .. 8
    OBVIOUS
  <2>3. CubeTriangle(k) = <<Corner[4], Corner[8], Corner[5]>>
    BY <1>8, CubeTable
  <2> QED  BY <2>1, <2>2, <2>3, ThreeWays
<1>9. CASE k = 9
  <2>1. Ways[k] = {10 * 2 + 6, 10 * 6 + 7, 10 * 7 + 2}
    BY <1>9 DEF Ways
  <2>2. 2 \in 1 .. 8 /\ 6 \in 1 .. 8 /\ 7 \in 1 .. 8
    OBVIOUS
  <2>3. CubeTriangle(k) = <<Corner[2], Corner[6], Corner[7]>>
    BY <1>9, CubeTable
  <2> QED  BY <2>1, <2>2, <2>3, ThreeWays
<1>10. CASE k = 10
  <2>1. Ways[k] = {10 * 7 + 3, 10 * 3 + 2, 10 * 2 + 7}
    BY <1>10 DEF Ways
  <2>2. 7 \in 1 .. 8 /\ 3 \in 1 .. 8 /\ 2 \in 1 .. 8
    OBVIOUS
  <2>3. CubeTriangle(k) = <<Corner[7], Corner[3], Corner[2]>>
    BY <1>10, CubeTable
  <2> QED  BY <2>1, <2>2, <2>3, ThreeWays
<1>11. CASE k = 11
  <2>1. Ways[k] = {10 * 4 + 3, 10 * 3 + 7, 10 * 7 + 4}
    BY <1>11 DEF Ways
  <2>2. 4 \in 1 .. 8 /\ 3 \in 1 .. 8 /\ 7 \in 1 .. 8
    OBVIOUS
  <2>3. CubeTriangle(k) = <<Corner[4], Corner[3], Corner[7]>>
    BY <1>11, CubeTable
  <2> QED  BY <2>1, <2>2, <2>3, ThreeWays
<1>12. CASE k = 12
  <2>1. Ways[k] = {10 * 7 + 8, 10 * 8 + 4, 10 * 4 + 7}
    BY <1>12 DEF Ways
  <2>2. 7 \in 1 .. 8 /\ 8 \in 1 .. 8 /\ 4 \in 1 .. 8
    OBVIOUS
  <2>3. CubeTriangle(k) = <<Corner[7], Corner[8], Corner[4]>>
    BY <1>12, CubeTable
  <2> QED  BY <2>1, <2>2, <2>3, ThreeWays
<1> QED  BY <1>1, <1>2, <1>3, <1>4, <1>5, <1>6, <1>7, <1>8, <1>9, <1>10, <1>11, <1>12 DEF Parts

\* The two ends of a way tell which one it is.
LEMMA WaysDiffer ==
  ASSUME NEW k \in Parts, NEW l \in Parts, NEW c \in Ways[k], NEW e \in Ways[l], Way(c) = Way(e)
  PROVE  c = e
<1>1. c \in Nat /\ e \in Nat
  BY WaysMet
<1>2. c \div 10 = e \div 10 /\ c % 10 = e % 10
  BY WaysMet, CornersDiffer DEF Way
<1>3. c = 10 * (c \div 10) + (c % 10) /\ e = 10 * (e \div 10) + (e % 10)
  BY <1>1
<1> QED  BY <1>2, <1>3

LEMMA CubeFinite == IsFiniteSet(CubeTriangles)
<1> DEFINE f == [k \in Parts |-> CubeTriangle(k)]
<1>1. f \in Surjection(Parts, CubeTriangles)
  BY DEF Surjection, CubeTriangles
<1>2. IsFiniteSet(Parts)
  <2>1. 1 \in Int /\ 12 \in Int
    OBVIOUS
  <2> QED  BY <2>1, FS_Interval DEF Parts
<1> QED  BY <1>1, <1>2, FS_Surjection

\* The cube is closed: each edge of a square and each diagonal is run along
\* twice, in opposite directions.
LEMMA CubeCloses == ClosedSurface(CubeTriangles)
<1>1. \A k \in Parts : Proper({CubeTriangle(k)}) = {CubeTriangle(k)}
  <2> SUFFICES ASSUME NEW k \in Parts PROVE ~Flat(CubeTriangle(k))
    BY DEF Proper, Flat
  <2> DEFINE t == CubeTriangle(k)
  <2>1. ASSUME NEW e \in Edges(t) PROVE e[1] # e[2]
    <3>1. PICK c \in Ways[k] : e = Way(c)
      BY <2>1, CubeEdges
    <3> QED  BY <3>1, WaysMet, CornersDiffer DEF Way
  <2> HIDE DEF t
  <2>2. ~Flat(t)
    BY <2>1 DEF Edges, Flat
  <2> QED  BY <2>2 DEF t
<1>2. Proper(CubeTriangles) = CubeTriangles
  BY <1>1 DEF Proper, CubeTriangles
<1>3. CubeTriangles # {}
  <2>1. 1 \in Parts
    BY DEF Parts
  <2> QED  BY <2>1 DEF CubeTriangles
<1>4. ASSUME NEW s \in CubeTriangles, NEW t \in CubeTriangles, s # t
      PROVE  Edges(s) \cap Edges(t) = {}
  <2>1. PICK k \in Parts : s = CubeTriangle(k)
    BY DEF CubeTriangles
  <2>2. PICK l \in Parts : t = CubeTriangle(l)
    BY DEF CubeTriangles
  <2>3. ASSUME NEW e \in Edges(s) \cap Edges(t) PROVE FALSE
    <3>1. PICK c \in Ways[k] : e = Way(c)
      BY <2>1, CubeEdges
    <3>2. PICK d \in Ways[l] : e = Way(d)
      BY <2>2, CubeEdges
    <3>3. c = d
      BY <3>1, <3>2, WaysDiffer
    <3>4. k = l
      BY <3>3, WaysApart
    <3> QED  BY <1>4, <2>1, <2>2, <3>4
  <2> QED  BY <2>3
<1>5. ASSUME NEW t \in CubeTriangles, NEW e \in Edges(t)
      PROVE  \E s \in CubeTriangles : <<e[2], e[1]>> \in Edges(s)
  <2>1. PICK k \in Parts : t = CubeTriangle(k)
    BY DEF CubeTriangles
  <2>2. PICK c \in Ways[k] : e = Way(c)
    BY <2>1, CubeEdges
  <2>3. /\ c \div 10 \in 1 .. 8 /\ c % 10 \in 1 .. 8
        /\ \E l \in Parts : 10 * (c % 10) + (c \div 10) \in Ways[l]
    BY WaysMet
  <2>4. PICK l \in Parts : 10 * (c % 10) + (c \div 10) \in Ways[l]
    BY <2>3
  <2>5. <<e[2], e[1]>> = Way(10 * (c % 10) + (c \div 10))
    <3> DEFINE a == c % 10
               b == c \div 10
    <3>1. a \in 1 .. 8 /\ b \in 1 .. 8
      BY <2>3
    <3>2. <<e[2], e[1]>> = <<Corner[a], Corner[b]>>
      BY <2>2 DEF Way
    <3> HIDE DEF a, b
    <3>3. (10 * a + b) \div 10 = a /\ (10 * a + b) % 10 = b
      BY <3>1
    <3>4. Way(10 * a + b) = <<Corner[a], Corner[b]>>
      BY <3>3 DEF Way
    <3> QED  BY <3>2, <3>4 DEF a, b
  <2>6. <<e[2], e[1]>> \in Edges(CubeTriangle(l))
    BY <2>4, <2>5, CubeEdges
  <2> QED  BY <2>6 DEF CubeTriangles
<1> QED  BY <1>2, <1>3, <1>4, <1>5, CubeFinite, Closes

\* The front of every triangle of the cube turns away from its middle.
LEMMA CubeOutward ==
  ASSUME NEW k \in Parts, NEW i \in 1 .. 3
  PROVE  Dot(FaceNormal(CubeTriangle(k)), CubeTriangle(k)[i]) > 0
<1>1. CASE k = 1
  <2>1. CubeTriangle(k) = <<<<1, 1, -1>>, <<1, -1, -1>>, <<-1, -1, -1>>>>
    BY <1>1, CubeTable DEF Corner
  <2>2. FaceNormal(CubeTriangle(k)) = <<0, 0, -4>>
    BY <2>1 DEF FaceNormal, Cross, Minus
  <2> QED  BY <2>1, <2>2 DEF Dot
<1>2. CASE k = 2
  <2>1. CubeTriangle(k) = <<<<-1, -1, -1>>, <<-1, 1, -1>>, <<1, 1, -1>>>>
    BY <1>2, CubeTable DEF Corner
  <2>2. FaceNormal(CubeTriangle(k)) = <<0, 0, -4>>
    BY <2>1 DEF FaceNormal, Cross, Minus
  <2> QED  BY <2>1, <2>2 DEF Dot
<1>3. CASE k = 3
  <2>1. CubeTriangle(k) = <<<<1, -1, 1>>, <<1, 1, 1>>, <<-1, 1, 1>>>>
    BY <1>3, CubeTable DEF Corner
  <2>2. FaceNormal(CubeTriangle(k)) = <<0, 0, 4>>
    BY <2>1 DEF FaceNormal, Cross, Minus
  <2> QED  BY <2>1, <2>2 DEF Dot
<1>4. CASE k = 4
  <2>1. CubeTriangle(k) = <<<<-1, 1, 1>>, <<-1, -1, 1>>, <<1, -1, 1>>>>
    BY <1>4, CubeTable DEF Corner
  <2>2. FaceNormal(CubeTriangle(k)) = <<0, 0, 4>>
    BY <2>1 DEF FaceNormal, Cross, Minus
  <2> QED  BY <2>1, <2>2 DEF Dot
<1>5. CASE k = 5
  <2>1. CubeTriangle(k) = <<<<1, 1, 1>>, <<1, -1, 1>>, <<1, -1, -1>>>>
    BY <1>5, CubeTable DEF Corner
  <2>2. FaceNormal(CubeTriangle(k)) = <<4, 0, 0>>
    BY <2>1 DEF FaceNormal, Cross, Minus
  <2> QED  BY <2>1, <2>2 DEF Dot
<1>6. CASE k = 6
  <2>1. CubeTriangle(k) = <<<<1, -1, -1>>, <<1, 1, -1>>, <<1, 1, 1>>>>
    BY <1>6, CubeTable DEF Corner
  <2>2. FaceNormal(CubeTriangle(k)) = <<4, 0, 0>>
    BY <2>1 DEF FaceNormal, Cross, Minus
  <2> QED  BY <2>1, <2>2 DEF Dot
<1>7. CASE k = 7
  <2>1. CubeTriangle(k) = <<<<1, 1, 1>>, <<1, 1, -1>>, <<-1, 1, -1>>>>
    BY <1>7, CubeTable DEF Corner
  <2>2. FaceNormal(CubeTriangle(k)) = <<0, 4, 0>>
    BY <2>1 DEF FaceNormal, Cross, Minus
  <2> QED  BY <2>1, <2>2 DEF Dot
<1>8. CASE k = 8
  <2>1. CubeTriangle(k) = <<<<-1, 1, -1>>, <<-1, 1, 1>>, <<1, 1, 1>>>>
    BY <1>8, CubeTable DEF Corner
  <2>2. FaceNormal(CubeTriangle(k)) = <<0, 4, 0>>
    BY <2>1 DEF FaceNormal, Cross, Minus
  <2> QED  BY <2>1, <2>2 DEF Dot
<1>9. CASE k = 9
  <2>1. CubeTriangle(k) = <<<<1, -1, -1>>, <<1, -1, 1>>, <<-1, -1, 1>>>>
    BY <1>9, CubeTable DEF Corner
  <2>2. FaceNormal(CubeTriangle(k)) = <<0, -4, 0>>
    BY <2>1 DEF FaceNormal, Cross, Minus
  <2> QED  BY <2>1, <2>2 DEF Dot
<1>10. CASE k = 10
  <2>1. CubeTriangle(k) = <<<<-1, -1, 1>>, <<-1, -1, -1>>, <<1, -1, -1>>>>
    BY <1>10, CubeTable DEF Corner
  <2>2. FaceNormal(CubeTriangle(k)) = <<0, -4, 0>>
    BY <2>1 DEF FaceNormal, Cross, Minus
  <2> QED  BY <2>1, <2>2 DEF Dot
<1>11. CASE k = 11
  <2>1. CubeTriangle(k) = <<<<-1, 1, -1>>, <<-1, -1, -1>>, <<-1, -1, 1>>>>
    BY <1>11, CubeTable DEF Corner
  <2>2. FaceNormal(CubeTriangle(k)) = <<-4, 0, 0>>
    BY <2>1 DEF FaceNormal, Cross, Minus
  <2> QED  BY <2>1, <2>2 DEF Dot
<1>12. CASE k = 12
  <2>1. CubeTriangle(k) = <<<<-1, -1, 1>>, <<-1, 1, 1>>, <<-1, 1, -1>>>>
    BY <1>12, CubeTable DEF Corner
  <2>2. FaceNormal(CubeTriangle(k)) = <<-4, 0, 0>>
    BY <2>1 DEF FaceNormal, Cross, Minus
  <2> QED  BY <2>1, <2>2 DEF Dot
<1> QED  BY <1>1, <1>2, <1>3, <1>4, <1>5, <1>6, <1>7, <1>8, <1>9, <1>10, <1>11, <1>12 DEF Parts

\* The corners of the six squares.
SquareCorners == << <<1, 2, 3, 4>>, <<6, 5, 8, 7>>, <<5, 6, 2, 1>>,
                    <<5, 1, 4, 8>>, <<2, 6, 7, 3>>, <<4, 3, 7, 8>> >>

\* A square's two triangles have the same texture where they meet.
LEMMA TextureWhole ==
  ASSUME NEW k \in Parts, NEW l \in Parts, NEW i \in 1 .. 3, NEW j \in 1 .. 3,
         (k + 1) \div 2 = (l + 1) \div 2, CubeTriangle(k)[i] = CubeTriangle(l)[j]
  PROVE  PartTexture(k)[i] = PartTexture(l)[j]
<1> DEFINE q == (k + 1) \div 2
           s == CubeSquares[q]
           At(m) == <<IF m % 2 = 1 THEN 1 ELSE 3, IF m % 2 = 1 THEN 2 ELSE 4, IF m % 2 = 1 THEN 3 ELSE 1>>
           Tex == << <<0, 0>>, <<0, 1>>, <<1, 1>>, <<1, 0>> >>
<1>1. q \in 1 .. 6
  BY DEF Parts
<1>2. \A a, b \in 1 .. 4 : s[a] = s[b] => a = b
  <2> HIDE DEF q
  <2> SUFFICES ASSUME NEW a \in 1 .. 4, NEW b \in 1 .. 4, s[a] = s[b] PROVE a = b
    OBVIOUS
  <2>1. \A c \in 1 .. 4 : s[c] = Corner[SquareCorners[q][c]]
    BY <1>1, Squares DEF SquareCorners
  <2>2. /\ SquareCorners[q][a] \in 1 .. 8 /\ SquareCorners[q][b] \in 1 .. 8
        /\ SquareCorners[q][a] = SquareCorners[q][b] => a = b
    BY <1>1 DEF SquareCorners
  <2>3. Corner[SquareCorners[q][a]] = Corner[SquareCorners[q][b]]
    BY <2>1
  <2> QED  BY <2>2, <2>3, CornersDiffer
<1>3. ASSUME NEW m \in Parts, NEW n \in 1 .. 3, (m + 1) \div 2 = q
      PROVE  /\ At(m)[n] \in 1 .. 4
             /\ CubeTriangle(m)[n] = s[At(m)[n]]
             /\ PartTexture(m)[n] = Tex[At(m)[n]]
  <2>1. m % 2 = 1 \/ m % 2 = 0
    BY DEF Parts
  <2>2. At(m)[n] \in 1 .. 4
    BY <2>1
  <2>3. CubeTriangle(m)[n] = s[At(m)[n]]
    <3>1. CubeTriangle(m) = IF m % 2 = 1 THEN <<s[1], s[2], s[3]>> ELSE <<s[3], s[4], s[1]>>
      BY <1>3, SquareHalves
    <3> HIDE DEF s, q
    <3> QED  BY <3>1
  <2>4. PartTexture(m)[n] = Tex[At(m)[n]]
    <3> HIDE DEF s, q
    <3> QED  BY <2>1 DEF PartTexture, SquareTexture
  <2> QED  BY <2>2, <2>3, <2>4
<1> HIDE DEF At, Tex, s
<1>4. s[At(k)[i]] = s[At(l)[j]]
  BY <1>3
<1>5. At(k)[i] = At(l)[j]
  BY <1>2, <1>3, <1>4
<1> QED  BY <1>3, <1>5
=============================================================================
