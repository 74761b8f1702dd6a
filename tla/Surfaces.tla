------------------------------ MODULE Surfaces ------------------------------
(***************************************************************************)
(* The triangle meshes of the graphics exercise: the sphere of             *)
(* szenegraph/sphereNode.ts, one indexed triangle strip over a grid of     *)
(* latitudes and longitudes, and the cube of szenegraph/cubeNode.ts, six   *)
(* squares of two triangles each.  A vertex is abstracted to the point of  *)
(* the surface it lies on.                                                 *)
(***************************************************************************)
EXTENDS Integers, Sequences, FiniteSets

CONSTANTS
  LatitudeBands,   \* 100 in the code
  LongitudeBands   \* 100 in the code

\* With fewer there is no inside.
ASSUME BandsAssumption ==
  /\ LatitudeBands \in Nat \ {0, 1}
  /\ LongitudeBands \in Nat \ {0, 1, 2}

-----------------------------------------------------------------------------
\* The sphere.
Row == LongitudeBands + 1
SphereVertices == (LatitudeBands + 1) * Row
IndexCount == 4 * (LatitudeBands * LongitudeBands)

\* Vertex v lies on latitude v \div Row and longitude v % Row; the ends of a
\* latitude coincide, and so do all vertices of a pole.
SpherePoint(v) ==
  LET i == v \div Row
      j == v % Row
  IN  <<i, IF i \in {0, LatitudeBands} THEN 0 ELSE j % LongitudeBands>>

\* Defective variant: idx1 and idx2 change places.
IndexDataTurned ==
  [k \in 1 .. IndexCount |->
     LET cell == (k - 1) \div 4
         corner == (k - 1) % 4
         idx0 == (cell \div LongitudeBands) * Row + (cell % LongitudeBands)
     IN  idx0 + (corner % 2) + (corner \div 2) * Row]

\* idx0, idx1, idx2, idx3 of every cell, row by row.
IndexData ==
  [k \in 1 .. IndexCount |->
     LET cell == (k - 1) \div 4
         corner == (k - 1) % 4
         idx0 == (cell \div LongitudeBands) * Row + (cell % LongitudeBands)
     IN  idx0 + (corner \div 2) + (corner % 2) * Row]

\* gl.TRIANGLE_STRIP: every vertex makes a triangle with its two
\* predecessors, and every second triangle is turned round.
StripTriangles(index) ==
  { IF k % 2 = 1 THEN <<index[k], index[k + 1], index[k + 2]>>
                 ELSE <<index[k + 1], index[k], index[k + 2]>>
      : k \in 1 .. Len(index) - 2 }

Points(t) == <<SpherePoint(t[1]), SpherePoint(t[2]), SpherePoint(t[3])>>
SphereTriangles == { Points(t) : t \in StripTriangles(IndexData) }

-----------------------------------------------------------------------------
\* The cube: corners as signs of height/2, width/2 and depth/2.
CubeSquares ==
  LET v1 == <<1, 1, -1>>    v2 == <<1, -1, -1>>
      v3 == <<-1, -1, -1>>  v4 == <<-1, 1, -1>>
      v5 == <<1, 1, 1>>     v6 == <<1, -1, 1>>
      v7 == <<-1, -1, 1>>   v8 == <<-1, 1, 1>>
  IN  << <<v1, v2, v3, v4>>, <<v6, v5, v8, v7>>, <<v5, v6, v2, v1>>,
         <<v5, v1, v4, v8>>, <<v2, v6, v7, v3>>, <<v4, v3, v7, v8>> >>

\* new Square(v1, v2, v3, v4)
SquareTriangles(s) == << <<s[1], s[2], s[3]>>, <<s[3], s[4], s[1]>> >>

\* What Square.draw uploads for its two triangles.
SquareTexture == << << <<0, 0>>, <<0, 1>>, <<1, 1>> >>,
                    << <<1, 1>>, <<1, 0>>, <<0, 0>> >> >>

Parts == 1 .. 12
CubeTriangle(part) == SquareTriangles(CubeSquares[(part + 1) \div 2])[2 - (part % 2)]
PartTexture(part) == SquareTexture[2 - (part % 2)]

Minus(a, b) == [i \in 1 .. 3 |-> a[i] - b[i]]
Cross(a, b) == <<a[2] * b[3] - a[3] * b[2],
                 a[3] * b[1] - a[1] * b[3],
                 a[1] * b[2] - a[2] * b[1]>>
Dot(a, b) == a[1] * b[1] + a[2] * b[2] + a[3] * b[3]
FaceNormal(t) == Cross(Minus(t[2], t[1]), Minus(t[3], t[1]))

-----------------------------------------------------------------------------
\* Reference definition: a closed surface seen from outside.  Every edge of a
\* proper triangle is used once in each direction, by two neighbours.
Proper(triangles) == { t \in triangles : t[1] # t[2] /\ t[2] # t[3] /\ t[3] # t[1] }
Edges(t) == { <<t[1], t[2]>>, <<t[2], t[3]>>, <<t[3], t[1]>> }

\* A triangle of grid vertices is seen from outside as it turns from growing
\* latitudes to growing longitudes (x = sin(phi), z = cos(phi) at the equator).
SeenFromOutside(t) ==
  LET south(k) == (t[k] \div Row) - (t[1] \div Row)
      east(k) == (t[k] % Row) - (t[1] % Row)
  IN  south(2) * east(3) - south(3) * east(2) > 0

SphereOutward ==
  \A t \in StripTriangles(IndexData) : Proper({Points(t)}) # {} => SeenFromOutside(t)

ClosedSurface(triangles) ==
  LET proper == Proper(triangles)
      edges == UNION { Edges(t) : t \in proper }
  IN  /\ proper # {}
      /\ Cardinality(edges) = 3 * Cardinality(proper)
      /\ \A e \in edges : <<e[2], e[1]>> \in edges
=============================================================================
