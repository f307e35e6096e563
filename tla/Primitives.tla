----------------------------- MODULE Primitives -----------------------------
(* generate_plane: a grid of vertices, row by row from an accumulated        *)
(* position, then two triangles for every cell; generate_cube: six faces of  *)
(* four vertices from tables. A plane's lengths are in steps of its grid, a  *)
(* cube's in half edges.                                                     *)
EXTENDS Integers, Sequences

CONSTANTS Resolutions  \* the resolutions a plane is asked for: <<width, height>>

VARIABLES phase,      \* "start", "vertices", "cells" or "made"
          shape,      \* "none", "plane" or "cube"
          width, height,                         \* a plane's resolution
          x, y,                                  \* the loops' counters
          position, texCoord,                    \* the accumulators
          positions, normals, texCoords,         \* of each vertex
          triangles                              \* three vertices each, from 0

request == <<shape, width, height>>
mesh    == <<positions, normals, texCoords, triangles>>
vars    == <<phase, request, x, y, position, texCoord, mesh>>

Point(i, j, k) == [x |-> i, y |-> j, z |-> k]

Init == /\ phase = "start"
        /\ shape = "none" /\ width = 0 /\ height = 0
        /\ x = 0 /\ y = 0
        /\ position = Point(0, 0, 0) /\ texCoord = [u |-> 0, v |-> 0]
        /\ positions = <<>> /\ normals = <<>> /\ texCoords = <<>> /\ triangles = <<>>

-----------------------------------------------------------------------------
(* generate_plane() *)

BeginPlane(resolution) == /\ phase = "start"
                          /\ shape' = "plane"
                          /\ width' = resolution[1] /\ height' = resolution[2]
                          /\ phase' = "vertices"
                          /\ UNCHANGED <<x, y, position, texCoord, mesh>>

PushVertex ==
  /\ phase = "vertices"
  /\ y < height + 1
  /\ x < width + 1
  /\ positions' = Append(positions, position)
  /\ normals' = Append(normals, Point(0, 1, 0))
  /\ texCoords' = Append(texCoords, texCoord)
  /\ position' = [position EXCEPT !.x = @ + 1]
  /\ texCoord' = [texCoord EXCEPT !.u = @ + 1]
  /\ x' = x + 1
  /\ UNCHANGED <<phase, request, y, triangles>>

\* Mutant: the row does not begin at the offset again.
MutEndRow_NoReset ==
  /\ phase = "vertices"
  /\ y < height + 1
  /\ x = width + 1
  /\ position' = [position EXCEPT !.z = @ + 1]
  /\ texCoord' = [texCoord EXCEPT !.v = @ + 1]
  /\ x' = 0
  /\ y' = y + 1
  /\ UNCHANGED <<phase, request, mesh>>

(* The position goes back to the row's begin, the texture coordinate does    *)
(* not: u goes on from row to row.                                           *)
EndRow ==
  /\ phase = "vertices"
  /\ y < height + 1
  /\ x = width + 1
  /\ position' = [position EXCEPT !.x = 0, !.z = @ + 1]
  /\ texCoord' = [texCoord EXCEPT !.v = @ + 1]
  /\ x' = 0
  /\ y' = y + 1
  /\ UNCHANGED <<phase, request, mesh>>

EndVertices == /\ phase = "vertices"
               /\ y = height + 1
               /\ phase' = "cells"
               /\ x' = 0 /\ y' = 0
               /\ UNCHANGED <<request, position, texCoord, mesh>>

(* The vertex at the column i of the row j.                                  *)
Corner(i, j) == i + j * (width + 1)

CellTriangles ==
  LET v0 == Corner(x, y)
      v1 == v0 + width + 1
      v2 == v0 + width + 2
      v3 == v0 + 1
  IN <<<<v0, v1, v2>>, <<v2, v3, v0>>>>

PushCell ==
  /\ phase = "cells"
  /\ y < height
  /\ x < width
  /\ triangles' = triangles \o CellTriangles
  /\ x' = x + 1
  /\ UNCHANGED <<phase, request, y, position, texCoord, positions, normals, texCoords>>

EndCells ==
  /\ phase = "cells"
  /\ y < height
  /\ x = width
  /\ x' = 0
  /\ y' = y + 1
  /\ UNCHANGED <<phase, request, position, texCoord, mesh>>

EndPlane == /\ phase = "cells"
            /\ y = height
            /\ phase' = "made"
            /\ UNCHANGED <<request, x, y, position, texCoord, mesh>>

-----------------------------------------------------------------------------
(* generate_cube() *)

(* Top, bottom, south, north, east and west, four vertices each.             *)
CubePositions ==
  <<Point(-1, 1, -1),  Point(1, 1, -1),   Point(1, 1, 1),   Point(-1, 1, 1),
    Point(-1, -1, 1),  Point(1, -1, 1),   Point(1, -1, -1), Point(-1, -1, -1),
    Point(-1, -1, -1), Point(1, -1, -1),  Point(1, 1, -1),  Point(-1, 1, -1),
    Point(1, -1, 1),   Point(-1, -1, 1),  Point(-1, 1, 1),  Point(1, 1, 1),
    Point(1, -1, -1),  Point(1, -1, 1),   Point(1, 1, 1),   Point(1, 1, -1),
    Point(-1, -1, 1),  Point(-1, -1, -1), Point(-1, 1, -1), Point(-1, 1, 1)>>

CubeNormals ==
  LET ofFace == <<Point(0, 1, 0), Point(0, -1, 0), Point(0, 0, -1), Point(0, 0, 1),
                  Point(1, 0, 0), Point(-1, 0, 0)>>
  IN [i \in 1 .. 24 |-> ofFace[((i - 1) \div 4) + 1]]

CubeTriangles ==
  [t \in 1 .. 12 |-> LET v == 4 * ((t - 1) \div 2)
                     IN IF t % 2 = 1 THEN <<v, v + 1, v + 2>> ELSE <<v + 2, v + 3, v>>]

GenerateCube ==
  /\ phase = "start"
  /\ shape' = "cube"
  /\ positions' = CubePositions
  /\ normals' = CubeNormals
  /\ texCoords' = [i \in 1 .. 24 |-> [u |-> 0, v |-> 0]]
  /\ triangles' = CubeTriangles
  /\ phase' = "made"
  /\ UNCHANGED <<width, height, x, y, position, texCoord>>

Next == \/ \E r \in Resolutions : BeginPlane(r)
        \/ PushVertex \/ EndRow \/ EndVertices \/ PushCell \/ EndCells \/ EndPlane
        \/ GenerateCube

Spec == Init /\ [][Next]_vars

-----------------------------------------------------------------------------
At(v) == positions[v + 1]

Minus(p, q) == Point(p.x - q.x, p.y - q.y, p.z - q.z)

Dot(p, q) == p.x * q.x + p.y * q.y + p.z * q.z

Cross(p, q) == Point(p.y * q.z - p.z * q.y, p.z * q.x - p.x * q.z, p.x * q.y - p.y * q.x)

(* How a triangle lies to the normal of its first vertex: above 0 when its   *)
(* corners run counter-clockwise around it in right-handed coordinates.      *)
Facing(t) == Dot(Cross(Minus(At(t[2]), At(t[1])), Minus(At(t[3]), At(t[1]))), normals[t[1] + 1])

(* All triangles of a mesh face the same way.                                *)
FacesAlike ==
  \/ \A t \in DOMAIN triangles : Facing(triangles[t]) > 0
  \/ \A t \in DOMAIN triangles : Facing(triangles[t]) < 0

(* The sides of the triangles from corner to corner, by where the corners    *)
(* are.                                                                      *)
Sides == {<<t, c>> : t \in DOMAIN triangles, c \in 1 .. 3}
Side(s) == <<At(triangles[s[1]][s[2]]), At(triangles[s[1]][(s[2] % 3) + 1])>>

OnBorder(side) ==
  /\ shape = "plane"
  /\ \/ side[1].x = side[2].x /\ side[1].x \in {0, width}
     \/ side[1].z = side[2].z /\ side[1].z \in {0, height}

(* A finished mesh has neither hole nor overlap: no side is used twice in    *)
(* one direction, and whatever side is not the way back of another one is on *)
(* the border of the plane; a cube is closed.                                *)
Watertight ==
  phase = "made" =>
    \A s \in Sides :
      /\ \A o \in Sides : Side(o) = Side(s) => o = s
      /\ OnBorder(Side(s)) \/ \E o \in Sides : Side(o) = <<Side(s)[2], Side(s)[1]>>
=============================================================================
