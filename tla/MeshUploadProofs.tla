-------------------------- MODULE MeshUploadProofs --------------------------
(* What a mesh goes through, for every directory of input files, every       *)
(* resolution of a plane and every moment at which the engine may open a     *)
(* file: RoundTrip, OverreadOnlyWhenTorn, DrawnInRange and Watertight. The   *)
(* inductive invariant UploadInv has a part for the asset tool (ToolInv:     *)
(* every file is a beginning of a mesh that is sound), one for the           *)
(* generators (ShapeInv: the grid is filled and covered up to where the      *)
(* loops are) and one for apply() (ApplyInv: lists and buffers fit).         *)
EXTENDS MeshUpload, SequenceTheorems, WellFoundedInduction, TLAPS

(* A set of numbers that is not empty has a least one. *)
LEMMA LeastNumber ==
  ASSUME NEW T \in SUBSET Nat, T # {}
  PROVE  \E a \in T : \A b \in T : a <= b
<1> DEFINE R == OpToRel(<, Nat)
<1>1. IsWellFoundedOn(R, Nat)
  BY NatLessThanWellFounded
<1>2. \A a, b \in Nat : b < a => <<b, a>> \in R
  BY DEF OpToRel
<1> HIDE DEF R
<1>3. PICK a \in T : \A b \in T : ~(<<b, a>> \in R)
  BY <1>1, WFMin
<1>4. ASSUME NEW b \in T PROVE a <= b
  <2>1. a \in Nat /\ b \in Nat /\ ~(<<b, a>> \in R)
    BY <1>3
  <2>2. ~(b < a)
    BY <1>2, <2>1
  <2> QED BY <2>1, <2>2
<1> QED BY <1>4

(* Induction, over a set instead of a predicate. *)
LEMMA SetInduction ==
  ASSUME NEW S, 0 \in S, \A k \in Nat : k \in S => k + 1 \in S
  PROVE  \A k \in Nat : k \in S
<1> SUFFICES ASSUME Nat \ S # {} PROVE FALSE
  OBVIOUS
<1>1. PICK a \in Nat \ S : \A b \in Nat \ S : a <= b
  BY LeastNumber
<1>2. a - 1 \in Nat /\ a - 1 + 1 = a
  BY <1>1
<1>3. a - 1 \in S
  BY <1>1, <1>2
<1> QED BY <1>1, <1>2, <1>3

(* FlattenSeq of sequences over S is a sequence over S: its recursive        *)
(* function exists, and so do its values.                                    *)
LEMMA FlattenSeqType ==
  ASSUME NEW S, NEW seqs \in Seq(Seq(S))
  PROVE  FlattenSeq(seqs) \in Seq(S)
<1> DEFINE n         == Len(seqs)
           Val(f, i) == IF i = 1 THEN seqs[i] ELSE f[i - 1] \o seqs[i]
           Rec(f, k) == \A i \in 1 .. k : f[i] = Val(f, i)
           flat      == CHOOSE f : f = [i \in 1 .. n |-> Val(f, i)]
<1>1. n \in Nat /\ \A i \in 1 .. n : seqs[i] \in Seq(S)
  BY LenProperties, ElementOfSeq
<1>2. CASE n = 0
  <2>1. FlattenSeq(seqs) = seqs /\ seqs = <<>>
    BY <1>2, EmptySeq DEF FlattenSeq
  <2> QED BY <2>1, EmptySeq
<1>3. CASE n > 0
  <2>1. FlattenSeq(seqs) = flat[n]
    BY <1>3 DEF FlattenSeq
  <2> HIDE DEF n
  <2>2. \A f : Val(f, 1) = seqs[1]
    OBVIOUS
  <2>4. \A f, g : \A i \in 1 .. n : (i > 1 => f[i - 1] = g[i - 1]) => Val(f, i) = Val(g, i)
    OBVIOUS
  <2>5. \A f : \A i \in 1 .. n : (i > 1 => f[i - 1] \in Seq(S)) => Val(f, i) \in Seq(S)
    <3> SUFFICES ASSUME NEW f, NEW i \in 1 .. n, i > 1 => f[i - 1] \in Seq(S)
                 PROVE  Val(f, i) \in Seq(S)
      OBVIOUS
    <3>1. CASE i = 1
      BY <1>1, <3>1
    <3>2. CASE i > 1
      <4>1. f[i - 1] \in Seq(S) /\ seqs[i] \in Seq(S)
        BY <1>1, <3>2
      <4>2. f[i - 1] \o seqs[i] \in Seq(S)
        BY <4>1, ConcatProperties
      <4> QED BY <3>2, <4>2
    <3> QED BY <3>1, <3>2
  <2> HIDE DEF Val
  <2> DEFINE T == {k \in Nat : k <= n => \E f \in [1 .. k -> Seq(S)] : Rec(f, k)}
  <2>6. 0 \in T
    <3>1. [i \in 1 .. 0 |-> <<>>] \in [1 .. 0 -> Seq(S)]
      OBVIOUS
    <3>2. Rec([i \in 1 .. 0 |-> <<>>], 0)
      OBVIOUS
    <3> HIDE DEF Rec
    <3> QED BY <3>1, <3>2
  <2>7. ASSUME NEW k \in Nat, k \in T PROVE k + 1 \in T
    <3> HIDE DEF Rec
    <3> SUFFICES ASSUME k + 1 <= n PROVE \E f \in [1 .. k + 1 -> Seq(S)] : Rec(f, k + 1)
      BY <2>7
    <3>1. k \in 0 .. n - 1 /\ k <= n /\ k + 1 \in 1 .. n /\ (k + 1 > 1 => k \in 1 .. k)
      BY <1>1
    <3>2. PICK f \in [1 .. k -> Seq(S)] : Rec(f, k)
      BY <2>7, <3>1
    <3> DEFINE g == [i \in 1 .. k + 1 |-> IF i = k + 1 THEN Val(f, i) ELSE f[i]]
    <3>3. Val(f, k + 1) \in Seq(S)
      <4>1. k + 1 > 1 => f[k + 1 - 1] \in Seq(S)
        BY <3>1
      <4> QED BY <2>5, <3>1, <4>1
    <3>4. g \in [1 .. k + 1 -> Seq(S)]
      BY <3>3
    <3>5. \A i \in 1 .. k + 1 : i > 1 => g[i - 1] = f[i - 1]
      OBVIOUS
    <3>6. g[k + 1] = Val(f, k + 1) /\ \A i \in 1 .. k : g[i] = f[i]
      OBVIOUS
    <3> HIDE DEF g
    <3>7. \A i \in 1 .. k + 1 : Val(g, i) = Val(f, i)
      <4>1. \A i \in 1 .. k + 1 : i \in 1 .. n
        BY <1>1, <3>1
      <4> QED BY <2>4, <3>5, <4>1
    <3>8. \A i \in 1 .. k : f[i] = Val(f, i)
      BY <3>2 DEF Rec
    <3>9. Rec(g, k + 1)
      BY <3>6, <3>7, <3>8 DEF Rec
    <3> QED BY <3>4, <3>9
  <2> HIDE DEF T
  <2>8. n \in T
    BY <1>1, <2>6, <2>7, SetInduction
  <2>9. PICK f \in [1 .. n -> Seq(S)] : Rec(f, n)
    <3> HIDE DEF Rec
    <3> QED BY <1>1, <2>8 DEF T
  <2>10. f = [i \in 1 .. n |-> Val(f, i)]
    BY <2>9
  <2>11. flat = [i \in 1 .. n |-> Val(flat, i)]
    BY <2>10
  <2> HIDE DEF flat
  <2>12. \A i \in 1 .. n : flat[i] = Val(flat, i)
    BY <2>11
  <2> DEFINE U == {k \in Nat : k \in 1 .. n => flat[k] \in Seq(S)}
  <2>13. 0 \in U
    OBVIOUS
  <2>14. ASSUME NEW k \in Nat, k \in U PROVE k + 1 \in U
    <3> SUFFICES ASSUME k + 1 \in 1 .. n PROVE flat[k + 1] \in Seq(S)
      OBVIOUS
    <3>1. k + 1 > 1 => flat[k + 1 - 1] \in Seq(S)
      <4>1. k \in 1 .. n => flat[k] \in Seq(S)
        BY <2>14
      <4>2. k + 1 - 1 = k /\ (k + 1 > 1 => k \in 1 .. n)
        BY <1>1
      <4> QED BY <4>1, <4>2
    <3>2. Val(flat, k + 1) \in Seq(S)
      BY <2>5, <3>1
    <3> QED BY <2>12, <3>2
  <2> HIDE DEF U
  <2>15. n \in U
    BY <1>1, <2>13, <2>14, SetInduction
  <2> QED BY <1>1, <1>3, <2>1, <2>15 DEF U
<1> QED BY <1>1, <1>2, <1>3

-----------------------------------------------------------------------------
(* A scene's meshes as the import leaves them. *)
Processed(scene) == {ProcessMesh(m) : m \in Range(scene.meshes)}

(* The import's walk over the nodes ends, and finds nothing but the meshes   *)
(* of the scene.                                                             *)
LEMMA ProcessNodeType ==
  ASSUME NEW k \in DOMAIN Inputs
  PROVE  ProcessNode(Inputs[k].scene) \in Seq(Processed(Inputs[k].scene))
<1> DEFINE scene     == Inputs[k].scene
           node      == scene.nodes
           N         == Len(node)
           M         == Processed(scene)
           Own(n)    == [i \in DOMAIN node[n].meshes |->
                           ProcessMesh(scene.meshes[node[n].meshes[i]])]
           Sub(f, n) == [i \in DOMAIN node[n].children |-> f[node[n].children[i]]]
           Val(f, n) == Own(n) \o FlattenSeq(Sub(f, n))
           Rec(f, j) == \A n \in N - j + 1 .. N : f[n] = Val(f, n)
           meshes    == CHOOSE f : f = [n \in DOMAIN node |-> Val(f, n)]
<1>1. ProcessNode(scene) = meshes[1]
  BY DEF ProcessNode
<1>2. /\ N \in Nat /\ N >= 1 /\ DOMAIN node = 1 .. N
      /\ \A n \in 1 .. N : /\ node[n].meshes \in Seq(DOMAIN scene.meshes)
                           /\ node[n].children \in Seq(n + 1 .. N)
  <2>1. node \in Seq(Range(node)) /\ node # <<>>
    BY InputsAssumption
  <2>2. N \in Nat /\ N # 0 /\ DOMAIN node = 1 .. N
    BY <2>1, LenProperties, EmptySeq
  <2> QED BY <2>2, InputsAssumption
<1>3. \A n \in 1 .. N : Own(n) \in Seq(M)
  <2> SUFFICES ASSUME NEW n \in 1 .. N PROVE Own(n) \in Seq(M)
    OBVIOUS
  <2> DEFINE own == node[n].meshes
  <2>1. own \in Seq(DOMAIN scene.meshes)
    BY <1>2
  <2>2. Len(own) \in Nat /\ DOMAIN own = 1 .. Len(own)
    BY <2>1, LenProperties
  <2>3. \A i \in 1 .. Len(own) : ProcessMesh(scene.meshes[own[i]]) \in M
    <3>1. \A i \in 1 .. Len(own) : own[i] \in DOMAIN scene.meshes
      BY <2>1, ElementOfSeq
    <3> QED BY <3>1 DEF Processed, Range
  <2>4. [i \in 1 .. Len(own) |-> ProcessMesh(scene.meshes[own[i]])] \in Seq(M)
    <3> HIDE DEF own, M, scene
    <3> QED BY <2>2, <2>3, IsASeq
  <2> QED BY <2>2, <2>4
<1>4. ASSUME NEW f, NEW n \in 1 .. N, \A m \in n + 1 .. N : f[m] \in Seq(M)
      PROVE  Val(f, n) \in Seq(M)
  <2> DEFINE below == node[n].children
  <2>1. Len(below) \in Nat /\ DOMAIN below = 1 .. Len(below)
        /\ \A i \in 1 .. Len(below) : below[i] \in n + 1 .. N
    <3>1. below \in Seq(n + 1 .. N)
      BY <1>2
    <3> QED BY <3>1, LenProperties, ElementOfSeq
  <2>2. Sub(f, n) \in Seq(Seq(M))
    <3>1. \A i \in 1 .. Len(below) : f[below[i]] \in Seq(M)
      BY <1>4, <2>1
    <3>2. [i \in 1 .. Len(below) |-> f[below[i]]] \in Seq(Seq(M))
      <4> HIDE DEF below, M
      <4> QED BY <2>1, <3>1, IsASeq
    <3> QED BY <2>1, <3>2
  <2>3. FlattenSeq(Sub(f, n)) \in Seq(M)
    <3> HIDE DEF Sub, M
    <3> QED BY <2>2, FlattenSeqType
  <2>4. Own(n) \in Seq(M)
    BY <1>3
  <2> HIDE DEF Own, Sub, M
  <2> QED BY <2>3, <2>4, ConcatProperties
<1>5. ASSUME NEW f, NEW g, NEW n \in 1 .. N, \A m \in n + 1 .. N : f[m] = g[m]
      PROVE  Val(f, n) = Val(g, n)
  <2>1. \A i \in DOMAIN node[n].children : node[n].children[i] \in n + 1 .. N
    <3>1. node[n].children \in Seq(n + 1 .. N)
      BY <1>2
    <3> QED BY <3>1, LenProperties, ElementOfSeq
  <2>2. \A i \in DOMAIN node[n].children : f[node[n].children[i]] = g[node[n].children[i]]
    BY <1>5, <2>1
  <2>3. Sub(f, n) = Sub(g, n)
    BY <2>2
  <2> HIDE DEF Own, Sub
  <2> QED BY <2>3
<1> HIDE DEF Val, M, node, N
<1> DEFINE T == {j \in Nat : j <= N => \E f \in [N - j + 1 .. N -> Seq(M)] : Rec(f, j)}
<1>6. 0 \in T
  <2>1. [n \in N - 0 + 1 .. N |-> <<>>] \in [N - 0 + 1 .. N -> Seq(M)]
    BY <1>2
  <2>2. Rec([n \in N - 0 + 1 .. N |-> <<>>], 0)
    BY <1>2
  <2> HIDE DEF Rec
  <2> QED BY <2>1, <2>2
<1>7. ASSUME NEW j \in Nat, j \in T PROVE j + 1 \in T
  <2> HIDE DEF Rec
  <2> SUFFICES ASSUME j + 1 <= N
               PROVE  \E f \in [N - (j + 1) + 1 .. N -> Seq(M)] : Rec(f, j + 1)
    BY <1>7
  <2>1. j <= N /\ N - j \in 1 .. N /\ N - (j + 1) + 1 = N - j
        /\ \A n \in N - j .. N : n = N - j \/ n \in N - j + 1 .. N
    BY <1>2
  <2>2. PICK f \in [N - j + 1 .. N -> Seq(M)] : Rec(f, j)
    BY <1>7, <2>1
  <2> DEFINE g == [n \in N - j .. N |-> IF n = N - j THEN Val(f, n) ELSE f[n]]
  <2>3. Val(f, N - j) \in Seq(M)
    <3>1. \A m \in N - j + 1 .. N : f[m] \in Seq(M)
      OBVIOUS
    <3> QED BY <1>4, <2>1, <3>1
  <2>4. g \in [N - j .. N -> Seq(M)]
    BY <2>1, <2>3
  <2>5. g[N - j] = Val(f, N - j) /\ \A n \in N - j + 1 .. N : g[n] = f[n]
    BY <1>2, <2>1
  <2> HIDE DEF g
  <2>6. \A n \in N - j .. N : Val(g, n) = Val(f, n)
    <3> SUFFICES ASSUME NEW n \in N - j .. N PROVE Val(g, n) = Val(f, n)
      OBVIOUS
    <3>1. n \in 1 .. N /\ \A m \in n + 1 .. N : m \in N - j + 1 .. N
      BY <1>2, <2>1
    <3> QED BY <1>5, <2>5, <3>1
  <2>7. \A n \in N - j + 1 .. N : f[n] = Val(f, n)
    BY <2>2 DEF Rec
  <2>8. Rec(g, j + 1)
    BY <2>1, <2>5, <2>6, <2>7 DEF Rec
  <2> QED BY <2>1, <2>4, <2>8
<1> HIDE DEF T
<1>8. N \in T
  BY <1>2, <1>6, <1>7, SetInduction
<1>9. PICK f \in [1 .. N -> Seq(M)] : Rec(f, N)
  <2>1. N - N + 1 = 1
    BY <1>2
  <2> HIDE DEF Rec
  <2> QED BY <1>2, <1>8, <2>1 DEF T
<1>10. f = [n \in DOMAIN node |-> Val(f, n)]
  BY <1>2, <1>9
<1>11. meshes = [n \in DOMAIN node |-> Val(meshes, n)]
  BY <1>10
<1> HIDE DEF meshes
<1>12. \A n \in 1 .. N : meshes[n] = Val(meshes, n)
  BY <1>2, <1>11
<1> DEFINE U == {j \in Nat : j <= N => \A n \in N - j + 1 .. N : meshes[n] \in Seq(M)}
<1>13. 0 \in U
  BY <1>2
<1>14. ASSUME NEW j \in Nat, j \in U PROVE j + 1 \in U
  <2> SUFFICES ASSUME j + 1 <= N, NEW n \in N - (j + 1) + 1 .. N
               PROVE  meshes[n] \in Seq(M)
    BY <1>14
  <2>1. n \in 1 .. N /\ j <= N /\ \A m \in n + 1 .. N : m \in N - j + 1 .. N
    BY <1>2
  <2>2. \A m \in n + 1 .. N : meshes[m] \in Seq(M)
    BY <1>14, <2>1
  <2> QED BY <1>4, <1>12, <2>1, <2>2
<1> HIDE DEF U
<1>15. N \in U
  BY <1>2, <1>13, <1>14, SetInduction
<1>16. meshes[1] \in Seq(M)
  BY <1>2, <1>15 DEF U
<1> QED BY <1>1, <1>16 DEF M

(* A mesh as the import makes it: attributes for every position, indices of  *)
(* positions, one submesh.                                                   *)
Sound(m) ==
  /\ m = [positions |-> m.positions, normals |-> m.normals, texCoords |-> m.texCoords,
          triangles |-> m.triangles, submeshes |-> m.submeshes]
  /\ m.positions \in Seq(Range(m.positions))
  /\ m.normals \in Seq(Range(m.normals)) /\ Len(m.normals) = Len(m.positions)
  /\ m.texCoords \in Seq(Range(m.texCoords)) /\ Len(m.texCoords) = Len(m.positions)
  /\ m.triangles \in Seq(0 .. Len(m.positions) - 1)
  /\ m.submeshes \in Seq(Range(m.submeshes)) /\ Len(m.submeshes) = 1

(* A function on the first n numbers is a sequence of its values. *)
LEMMA FunctionIsSeq ==
  ASSUME NEW n \in Nat, NEW f, DOMAIN f = 1 .. n, f = [i \in 1 .. n |-> f[i]]
  PROVE  f \in Seq(Range(f)) /\ Len(f) = n
<1>1. \A i \in 1 .. n : f[i] \in Range(f)
  BY DEF Range
<1> DEFINE R == Range(f)
<1>2. f \in [1 .. n -> R]
  BY <1>1
<1> HIDE DEF R
<1>3. f \in Seq(R)
  BY <1>2, SeqDef
<1> QED BY <1>3, LenProperties DEF R

(* An attribute has a value for every vertex, whether the input had it or not. *)
LEMMA AttributeIsSeq ==
  ASSUME NEW m, m.numVertices \in Nat, NEW has, NEW kind
  PROVE  /\ Attribute(m, has, kind) \in Seq(Range(Attribute(m, has, kind)))
         /\ Len(Attribute(m, has, kind)) = m.numVertices
<1> DEFINE a == Attribute(m, has, kind)
<1>1. DOMAIN a = 1 .. m.numVertices /\ a = [i \in 1 .. m.numVertices |-> a[i]]
  BY DEF Attribute
<1> HIDE DEF a
<1>2. a \in Seq(Range(a)) /\ Len(a) = m.numVertices
  BY <1>1, FunctionIsSeq
<1> QED BY <1>2 DEF a

(* Faces of any length make a triangle of places that exist.                 *)
LEMMA ProcessedIsSound ==
  ASSUME NEW k \in DOMAIN Inputs, NEW p \in Processed(Inputs[k].scene)
  PROVE  Sound(p)
<1>1. PICK m \in Range(Inputs[k].scene.meshes) : p = ProcessMesh(m)
  BY DEF Processed
<1> DEFINE V == m.numVertices
           F == Len(m.faces)
<1>2. /\ V \in Nat /\ m.faces \in Seq(Seq(0 .. V - 1))
      /\ \A f \in DOMAIN m.faces : Len(m.faces[f]) \in 1 .. 3
  BY InputsAssumption
<1>3. F \in Nat /\ DOMAIN m.faces = 1 .. F /\ \A f \in 1 .. F : m.faces[f] \in Seq(0 .. V - 1)
  BY <1>2, LenProperties, ElementOfSeq
<1> HIDE DEF F
<1>4. /\ p.positions \in Seq(Range(p.positions)) /\ Len(p.positions) = V
      /\ p.normals \in Seq(Range(p.normals)) /\ Len(p.normals) = V
      /\ p.texCoords \in Seq(Range(p.texCoords)) /\ Len(p.texCoords) = V
  <2>1. /\ p.positions = Attribute(m, TRUE, "position")
        /\ p.normals = Attribute(m, m.hasNormals, "normal")
        /\ p.texCoords = Attribute(m, m.hasTexCoords, "texCoord")
    BY <1>1 DEF ProcessMesh
  <2> QED BY <1>2, <2>1, AttributeIsSeq
<1>5. p.triangles \in Seq(0 .. V - 1)
  <2> DEFINE index(j) == Corner(m.faces[((j - 1) \div 3) + 1], ((j - 1) % 3) + 1)
  <2>1. p.triangles = [j \in 1 .. 3 * F |-> index(j)]
    BY <1>1 DEF ProcessMesh, F
  <2>2. ASSUME NEW j \in 1 .. 3 * F PROVE index(j) \in 0 .. V - 1
    <3>1. ((j - 1) \div 3) + 1 \in 1 .. F /\ ((j - 1) % 3) + 1 \in 1 .. 3
      BY <1>3
    <3>2. PICK f \in 1 .. F : f = ((j - 1) \div 3) + 1
      BY <3>1
    <3>3. PICK c \in 1 .. 3 : c = ((j - 1) % 3) + 1
      BY <3>1
    <3>4. m.faces[f] \in Seq(0 .. V - 1) /\ Len(m.faces[f]) \in 1 .. 3
      BY <1>2, <1>3
    <3>5. /\ DOMAIN m.faces[f] = 1 .. Len(m.faces[f])
          /\ \A i \in 1 .. Len(m.faces[f]) : m.faces[f][i] \in 0 .. V - 1
      BY <3>4, LenProperties, ElementOfSeq
    <3>6. V > 0
      <4>1. m.faces[f][1] \in 0 .. V - 1
        BY <3>4, <3>5
      <4> QED BY <1>2, <4>1
    <3>7. Corner(m.faces[f], c) \in 0 .. V - 1
      <4>1. PICK face : face = m.faces[f]
        OBVIOUS
      <4>3. CASE c \in DOMAIN face
        <5>1. Corner(face, c) = face[c]
          BY <4>3 DEF Corner
        <5>2. face[c] \in 0 .. V - 1
          BY <3>5, <4>1, <4>3
        <5> QED BY <4>1, <5>1, <5>2
      <4>4. CASE c \notin DOMAIN face
        <5>1. Corner(face, c) = 0
          BY <4>4 DEF Corner
        <5>2. 0 \in 0 .. V - 1
          BY <1>2, <3>6
        <5> QED BY <4>1, <5>1, <5>2
      <4> QED BY <4>3, <4>4
    <3> QED BY <3>2, <3>3, <3>7
  <2>3. PICK n \in Nat : n = 3 * F
    BY <1>3
  <2> HIDE DEF index
  <2>4. [j \in 1 .. n |-> index(j)] \in [1 .. n -> 0 .. V - 1]
    BY <2>2, <2>3
  <2>5. [j \in 1 .. n |-> index(j)] \in Seq(0 .. V - 1)
    BY <2>4, SeqDef
  <2> QED BY <2>1, <2>3, <2>5
<1>6. p.submeshes \in Seq(Range(p.submeshes)) /\ Len(p.submeshes) = 1
  <2> DEFINE s == [indexOffset |-> 0, indexCount |-> 3 * Len(m.faces)]
  <2>1. p.submeshes = <<s>>
    BY <1>1 DEF ProcessMesh
  <2> HIDE DEF s
  <2>2. DOMAIN <<s>> = 1 .. 1 /\ <<s>> = [i \in 1 .. 1 |-> <<s>>[i]]
    OBVIOUS
  <2> QED BY <2>1, <2>2, FunctionIsSeq
<1>7. p = [positions |-> p.positions, normals |-> p.normals, texCoords |-> p.texCoords,
           triangles |-> p.triangles, submeshes |-> p.submeshes]
  BY <1>1 DEF ProcessMesh
<1> QED BY <1>4, <1>5, <1>6, <1>7 DEF Sound

-----------------------------------------------------------------------------
(* The optimised format. *)

Values(m) == Nat \cup Range(m.positions) \cup Range(m.normals) \cup Range(m.texCoords)
                 \cup Range(m.submeshes)

-----------------------------------------------------------------------------
(* What was written stays where it is. *)
Begins(front, items) == \A i \in 1 .. Len(front) : items[i] = front[i]

(* The list is at the place, behind its length. *)
Holds(items, place, list) ==
  items[place] = Len(list) /\ \A i \in 1 .. Len(list) : items[place + i] = list[i]

(* A list is written behind what was written already.                        *)
LEMMA BehindList ==
  ASSUME NEW S, Nat \subseteq S, NEW front \in Seq(S), NEW list \in Seq(S)
  PROVE  /\ front \o Listed(list) \in Seq(S)
         /\ Len(front \o Listed(list)) = Len(front) + Len(list) + 1
         /\ Begins(front, front \o Listed(list))
         /\ Holds(front \o Listed(list), Len(front) + 1, list)
<1> DEFINE count == <<Len(list)>>
           l     == count \o list
           b     == front \o l
<1>1. Len(front) \in Nat /\ Len(list) \in Nat
  BY LenProperties
<1>2. l = Listed(list)
  BY DEF Listed
<1>3. count \in Seq(S) /\ Len(count) = 1 /\ count[1] = Len(list)
  BY <1>1
<1> HIDE DEF count
<1>4. /\ l \in Seq(S) /\ Len(l) = Len(count) + Len(list)
      /\ \A i \in 1 .. Len(count) + Len(list) :
           l[i] = IF i <= Len(count) THEN count[i] ELSE list[i - Len(count)]
  BY <1>3, ConcatProperties
<1> HIDE DEF l
<1>5. /\ Len(l) = Len(list) + 1
      /\ \A i \in 1 .. Len(list) + 1 : l[i] = IF i <= 1 THEN count[i] ELSE list[i - 1]
  BY <1>1, <1>3, <1>4
<1>6. l[1] = Len(list) /\ \A i \in 1 .. Len(list) : l[1 + i] = list[i]
  <2>1. l[1] = Len(list)
    BY <1>1, <1>3, <1>5
  <2>2. ASSUME NEW i \in 1 .. Len(list) PROVE l[1 + i] = list[i]
    <3>1. 1 + i \in 1 .. Len(list) + 1 /\ ~(1 + i <= 1) /\ 1 + i - 1 = i
      BY <1>1
    <3>2. l[1 + i] = list[1 + i - 1]
      BY <1>5, <3>1
    <3> QED BY <3>1, <3>2
  <2> QED BY <2>1, <2>2
<1>7. /\ b \in Seq(S) /\ Len(b) = Len(front) + Len(l)
      /\ \A i \in 1 .. Len(front) + Len(l) :
           b[i] = IF i <= Len(front) THEN front[i] ELSE l[i - Len(front)]
  <2>1. front \in Seq(S) /\ l \in Seq(S)
    BY <1>4
  <2> QED BY <2>1, ConcatProperties
<1> HIDE DEF b
<1> DEFINE n == Len(front)
           p == Len(list)
<1>8. /\ Len(b) = n + p + 1
      /\ \A i \in 1 .. n + p + 1 : b[i] = IF i <= n THEN front[i] ELSE l[i - n]
  BY <1>1, <1>5, <1>7
<1>9. Begins(front, b)
  <2>1. \A i \in 1 .. n : i \in 1 .. n + p + 1 /\ i <= n
    BY <1>1
  <2> QED BY <1>8, <2>1 DEF Begins
<1>10. Holds(b, n + 1, list)
  <2>1. ASSUME NEW i \in 0 .. p PROVE b[n + 1 + i] = l[1 + i]
    <3>1. /\ n + 1 + i \in 1 .. n + p + 1 /\ ~(n + 1 + i <= n)
          /\ n + 1 + i - n = 1 + i
      BY <1>1
    <3>2. b[n + 1 + i] = l[n + 1 + i - n]
      BY <1>8, <3>1
    <3> QED BY <3>1, <3>2
  <2>2. 0 \in 0 .. p /\ n + 1 + 0 = n + 1 /\ 1 + 0 = 1
    BY <1>1
  <2>3. b[n + 1] = l[1]
    BY <2>1, <2>2
  <2>4. \A i \in 1 .. p : b[n + 1 + i] = l[1 + i]
    BY <2>1
  <2> QED BY <1>6, <2>3, <2>4 DEF Holds
<1> QED BY <1>2, <1>7, <1>8, <1>9, <1>10 DEF b

(* What a list of the front held, the whole holds.                           *)
LEMMA HoldsLater ==
  ASSUME NEW front, NEW items, NEW place \in Nat \ {0}, NEW list, Len(list) \in Nat,
         Len(front) \in Nat, place + Len(list) <= Len(front),
         Begins(front, items), Holds(front, place, list)
  PROVE  Holds(items, place, list)
<1>1. place \in 1 .. Len(front) /\ \A i \in 1 .. Len(list) : place + i \in 1 .. Len(front)
  OBVIOUS
<1> QED BY <1>1 DEF Begins, Holds

(* The count of submeshes survives the byte it is written in. *)
LEMMA OneIsOne == 1 % Byte = 1
BY InputsAssumption

(* Where the five lists of a file begin. *)
LEMMA Places ==
  ASSUME NEW V \in Nat, NEW F \in Nat
  PROVE  /\ 3 * V + 3 \in Nat /\ 3 * V + F + 4 \in Nat
         /\ V + 2 \in Nat \ {0} /\ 2 * V + 3 \in Nat \ {0} /\ 3 * V + 4 \in Nat \ {0}
         /\ 1 + V <= 3 * V + F + 4
         /\ V + 2 + V <= 3 * V + F + 4 /\ 2 * V + 3 + V <= 3 * V + F + 4
         /\ 3 * V + 4 + F <= 3 * V + F + 4
         /\ 3 * V + 3 + F + 1 = 3 * V + F + 4 /\ 3 * V + 3 + 1 = 3 * V + 4
OBVIOUS

(* A mesh with V vertices and F indices, and where its items lie in e.       *)
LaidOut(m, e, V, F) ==
  /\ V \in Nat /\ F \in Nat
  /\ m.positions \in Seq(Range(m.positions)) /\ Len(m.positions) = V
  /\ m.normals \in Seq(Range(m.normals)) /\ Len(m.normals) = V
  /\ m.texCoords \in Seq(Range(m.texCoords)) /\ Len(m.texCoords) = V
  /\ m.triangles \in Seq(0 .. V - 1) /\ Len(m.triangles) = F
  /\ m.submeshes \in Seq(Range(m.submeshes)) /\ Len(m.submeshes) = 1
  /\ e \in Seq(Values(m)) /\ Len(e) = 3 * V + F + 6
  /\ Holds(e, 1, m.positions) /\ Holds(e, V + 2, m.normals)
  /\ Holds(e, 2 * V + 3, m.texCoords) /\ Holds(e, 3 * V + 4, m.triangles)
  /\ Holds(e, 3 * V + F + 5, m.submeshes)

(* Where the items of a file lie. *)
LEMMA Layout ==
  ASSUME NEW m, Sound(m)
  PROVE  LaidOut(m, Exported(m), Len(m.positions), Len(m.triangles))
<1>0. PICK e, V, F : e = Exported(m) /\ V = Len(m.positions) /\ F = Len(m.triangles)
  OBVIOUS
<1> DEFINE S  == Values(m)
           e1 == Listed(m.positions)
           e2 == e1 \o Listed(m.normals)
           e3 == e2 \o Listed(m.texCoords)
           e4 == e3 \o Listed(m.triangles)
           e5 == e4 \o Listed(m.submeshes)
<1>1. V \in Nat /\ F \in Nat
  <2>1. m.positions \in Seq(Range(m.positions)) /\ m.triangles \in Seq(0 .. Len(m.positions) - 1)
    BY DEF Sound
  <2> QED BY <1>0, <2>1, LenProperties
<1>2. /\ Nat \subseteq S /\ m.positions \in Seq(S) /\ m.normals \in Seq(S)
      /\ m.texCoords \in Seq(S) /\ m.triangles \in Seq(S) /\ m.submeshes \in Seq(S)
  <2>1. /\ Nat \subseteq S /\ Range(m.positions) \subseteq S /\ Range(m.normals) \subseteq S
        /\ Range(m.texCoords) \subseteq S /\ Range(m.submeshes) \subseteq S
    BY DEF Values
  <2>2. 0 .. V - 1 \subseteq S
    BY <1>1, <2>1
  <2> HIDE DEF S
  <2>3. m.positions \in Seq(S) /\ m.normals \in Seq(S) /\ m.texCoords \in Seq(S)
    BY <2>1, SeqMonotonic DEF Sound
  <2>4. m.triangles \in Seq(S) /\ m.submeshes \in Seq(S)
    BY <1>0, <2>1, <2>2, SeqMonotonic DEF Sound
  <2> QED BY <2>1, <2>3, <2>4
<1>3. /\ Len(m.positions) = V /\ Len(m.normals) = V /\ Len(m.texCoords) = V
      /\ Len(m.triangles) = F /\ Len(m.submeshes) = 1
  BY <1>0 DEF Sound
<1> HIDE DEF S
<1>5. e1 \in Seq(S) /\ Len(e1) = V + 1 /\ Holds(e1, 1, m.positions)
  <2>1. <<>> \in Seq(S) /\ Len(<<>>) = 0
    BY EmptySeq
  <2>2. m.positions \in Seq(S) /\ Nat \subseteq S
    BY <1>2
  <2> DEFINE b == <<>> \o Listed(m.positions)
  <2> HIDE DEF e1, e2, e3, e4, e5
  <2>3. /\ b \in Seq(S) /\ Len(b) = Len(<<>>) + Len(m.positions) + 1
        /\ Holds(b, Len(<<>>) + 1, m.positions)
    BY <2>1, <2>2, BehindList
  <2>4. Listed(m.positions) \in Seq(S)
    <3>1. <<V>> \in Seq(S)
      BY <1>1, <1>2
    <3> QED BY <2>2, <3>1, ConcatProperties DEF Listed
  <2>5. b = e1
    BY <2>4, ConcatEmptySeq DEF e1
  <2> HIDE DEF b
  <2>6. 0 + V + 1 = V + 1 /\ 0 + 1 = 1
    BY <1>1
  <2> QED BY <1>3, <2>1, <2>3, <2>5, <2>6
<1> HIDE DEF e1
<1>6. /\ e2 \in Seq(S) /\ Len(e2) = 2 * V + 2 /\ Begins(e1, e2)
      /\ Holds(e2, V + 2, m.normals)
  <2>1. m.normals \in Seq(S) /\ e1 \in Seq(S) /\ Nat \subseteq S
    BY <1>2, <1>5
  <2> HIDE DEF e3, e4, e5
  <2>2. /\ e2 \in Seq(S) /\ Len(e2) = Len(e1) + Len(m.normals) + 1 /\ Begins(e1, e2)
        /\ Holds(e2, Len(e1) + 1, m.normals)
    BY <2>1, BehindList
  <2> HIDE DEF e2
  <2>3. Len(e1) = V + 1 /\ Len(m.normals) = V
    BY <1>3, <1>5
  <2>4. V + 1 + V + 1 = 2 * V + 2 /\ V + 1 + 1 = V + 2
    BY <1>1
  <2> QED BY <2>2, <2>3, <2>4
<1> HIDE DEF e2
<1>7. /\ e3 \in Seq(S) /\ Len(e3) = 3 * V + 3 /\ Begins(e2, e3)
      /\ Holds(e3, 2 * V + 3, m.texCoords)
  <2>1. m.texCoords \in Seq(S) /\ e2 \in Seq(S) /\ Nat \subseteq S
    BY <1>2, <1>6
  <2> HIDE DEF e4, e5
  <2>2. /\ e3 \in Seq(S) /\ Len(e3) = Len(e2) + Len(m.texCoords) + 1 /\ Begins(e2, e3)
        /\ Holds(e3, Len(e2) + 1, m.texCoords)
    BY <2>1, BehindList
  <2> HIDE DEF e3
  <2>3. Len(e2) = 2 * V + 2 /\ Len(m.texCoords) = V
    BY <1>3, <1>6
  <2>4. 2 * V + 2 + V + 1 = 3 * V + 3 /\ 2 * V + 2 + 1 = 2 * V + 3
    BY <1>1
  <2> QED BY <2>2, <2>3, <2>4
<1> HIDE DEF e3
<1>8. /\ e4 \in Seq(S) /\ Len(e4) = 3 * V + F + 4 /\ Begins(e3, e4)
      /\ Holds(e4, 3 * V + 4, m.triangles)
  <2>1. m.triangles \in Seq(S) /\ e3 \in Seq(S) /\ Nat \subseteq S
    BY <1>2, <1>7
  <2> HIDE DEF e5
  <2>2. /\ e4 \in Seq(S) /\ Len(e4) = Len(e3) + Len(m.triangles) + 1 /\ Begins(e3, e4)
        /\ Holds(e4, Len(e3) + 1, m.triangles)
    BY <2>1, BehindList
  <2> HIDE DEF e4
  <2>3. Len(e3) = 3 * V + 3 /\ Len(m.triangles) = F
    BY <1>3, <1>7
  <2>4. 3 * V + 3 + F + 1 = 3 * V + F + 4 /\ 3 * V + 3 + 1 = 3 * V + 4
    BY <1>1, Places
  <2> QED BY <2>2, <2>3, <2>4
<1> HIDE DEF e4
<1>9. /\ e5 \in Seq(S) /\ Len(e5) = 3 * V + F + 6 /\ Begins(e4, e5)
      /\ Holds(e5, 3 * V + F + 5, m.submeshes)
  <2>1. m.submeshes \in Seq(S) /\ e4 \in Seq(S) /\ Nat \subseteq S
    BY <1>2, <1>8
  <2> HIDE DEF S
  <2>2. /\ e5 \in Seq(S) /\ Len(e5) = Len(e4) + Len(m.submeshes) + 1 /\ Begins(e4, e5)
        /\ Holds(e5, Len(e4) + 1, m.submeshes)
    BY <2>1, BehindList
  <2> HIDE DEF e5
  <2>3. Len(e4) = 3 * V + F + 4 /\ Len(m.submeshes) = 1
    BY <1>3, <1>8
  <2>4. 3 * V + F + 4 + 1 + 1 = 3 * V + F + 6 /\ 3 * V + F + 4 + 1 = 3 * V + F + 5
    BY <1>1
  <2> QED BY <2>2, <2>3, <2>4
<1> HIDE DEF e5
<1>10. Holds(e2, 1, m.positions)
  <2>1. V \in Nat /\ V + 1 \in Nat /\ 1 + V <= V + 1 /\ 1 \in Nat \ {0}
    BY <1>1
  <2> QED BY <2>1, <1>5, <1>6, <1>3, HoldsLater
<1>11. Holds(e3, 1, m.positions) /\ Holds(e3, V + 2, m.normals)
  <2>1. /\ V \in Nat /\ 2 * V + 2 \in Nat /\ 1 + V <= 2 * V + 2 /\ 1 \in Nat \ {0}
        /\ V + 2 \in Nat \ {0} /\ V + 2 + V <= 2 * V + 2
    BY <1>1
  <2>2. Holds(e3, 1, m.positions)
    BY <2>1, <1>6, <1>7, <1>10, <1>3, HoldsLater
  <2>3. Holds(e3, V + 2, m.normals)
    BY <2>1, <1>3, <1>6, <1>7, HoldsLater
  <2> QED BY <2>2, <2>3
<1>12. Holds(e4, 1, m.positions) /\ Holds(e4, V + 2, m.normals) /\ Holds(e4, 2 * V + 3, m.texCoords)
  <2>1. /\ V \in Nat /\ 3 * V + 3 \in Nat /\ 1 + V <= 3 * V + 3 /\ 1 \in Nat \ {0}
        /\ V + 2 \in Nat \ {0} /\ V + 2 + V <= 3 * V + 3
        /\ 2 * V + 3 \in Nat \ {0} /\ 2 * V + 3 + V <= 3 * V + 3
    BY <1>1
  <2>2. Holds(e4, 1, m.positions)
    BY <2>1, <1>7, <1>8, <1>11, <1>3, HoldsLater
  <2>3. Holds(e4, V + 2, m.normals)
    BY <2>1, <1>3, <1>7, <1>8, <1>11, HoldsLater
  <2>4. Holds(e4, 2 * V + 3, m.texCoords)
    BY <2>1, <1>3, <1>7, <1>8, HoldsLater
  <2> QED BY <2>2, <2>3, <2>4
<1>13. Holds(e5, 1, m.positions) /\ Holds(e5, V + 2, m.normals) /\ Holds(e5, 2 * V + 3, m.texCoords)
  <2>0. V \in Nat /\ 1 \in Nat \ {0}
    BY <1>1
  <2>1. /\ 3 * V + F + 4 \in Nat /\ 1 + V <= 3 * V + F + 4
        /\ V + 2 \in Nat \ {0} /\ V + 2 + V <= 3 * V + F + 4
        /\ 2 * V + 3 \in Nat \ {0} /\ 2 * V + 3 + V <= 3 * V + F + 4
    BY <1>1, Places
  <2>2. Holds(e5, 1, m.positions)
    BY <2>0, <2>1, <1>8, <1>9, <1>12, <1>3, HoldsLater
  <2>3. Holds(e5, V + 2, m.normals)
    BY <2>0, <2>1, <1>3, <1>8, <1>9, <1>12, HoldsLater
  <2>4. Holds(e5, 2 * V + 3, m.texCoords)
    BY <2>0, <2>1, <1>3, <1>8, <1>9, <1>12, HoldsLater
  <2> QED BY <2>2, <2>3, <2>4
<1>14. Holds(e5, 3 * V + 4, m.triangles)
  <2>1. /\ F \in Nat /\ 3 * V + F + 4 \in Nat /\ 3 * V + 4 + F <= 3 * V + F + 4
        /\ 3 * V + 4 \in Nat \ {0}
    BY <1>1, Places
  <2> QED BY <2>1, <1>8, <1>9, <1>3, HoldsLater
<1>15. e = e5
  <2>1. e = e4 \o <<Len(m.submeshes) % Byte>> \o m.submeshes
    BY <1>0 DEF Exported, e4, e3, e2, e1
  <2>2. Len(m.submeshes) % Byte = Len(m.submeshes)
    BY <1>3, OneIsOne
  <2> DEFINE c == <<Len(m.submeshes)>>
  <2>3. e = (e4 \o c) \o m.submeshes
    BY <2>1, <2>2
  <2> HIDE DEF e4, c
  <2>4. (e4 \o c) \o m.submeshes = e4 \o (c \o m.submeshes)
    <3>1. e4 \in Seq(S) /\ c \in Seq(S) /\ m.submeshes \in Seq(S)
      <4>1. Len(m.submeshes) \in Nat
        BY <1>3
      <4>2. c \in Seq(S)
        BY <1>2, <4>1 DEF c
      <4> QED BY <1>2, <1>8, <4>2
    <3> DEFINE sub == m.submeshes
    <3> HIDE DEF sub
    <3>2. (e4 \o c) \o sub = e4 \o (c \o sub)
      <4>1. e4 \in Seq(S) /\ c \in Seq(S) /\ sub \in Seq(S)
        BY <3>1 DEF sub
      <4> HIDE DEF S
      <4>2. \A q, r, s \in Seq(S) : (q \o r) \o s = q \o (r \o s)
        BY ConcatAssociative
      <4> QED BY <4>1, <4>2
    <3> QED BY <3>2 DEF sub
  <2>5. c \o m.submeshes = Listed(m.submeshes)
    BY DEF Listed, c
  <2> QED BY <2>3, <2>4, <2>5 DEF e5
<1>16. /\ m.positions \in Seq(Range(m.positions)) /\ m.normals \in Seq(Range(m.normals))
       /\ m.texCoords \in Seq(Range(m.texCoords)) /\ m.triangles \in Seq(0 .. V - 1)
       /\ m.submeshes \in Seq(Range(m.submeshes))
  BY <1>0 DEF Sound
<1>17. LaidOut(m, e, V, F)
  BY <1>1, <1>3, <1>9, <1>13, <1>14, <1>15, <1>16 DEF S, LaidOut
<1> QED BY <1>0, <1>17

(* The first n items of e are those of the file.                             *)
Part(items, e, n) == DOMAIN items = 1 .. n /\ \A i \in 1 .. n : items[i] = e[i]

(* Behind the end of the file there is an empty list.                        *)
LEMMA ReadBehind ==
  ASSUME NEW items, NEW n \in Nat, DOMAIN items = 1 .. n,
         NEW start \in Nat, start > n, NEW none
  PROVE  /\ ReadList(items, start, none).list = <<>>
         /\ ReadList(items, start, none).end = start + 1
<1>1. ~(start \in DOMAIN items)
  OBVIOUS
<1> QED BY <1>1 DEF ReadList

(* As much of the list at start as n items hold, and none for the others.    *)
PartRead(r, list, start, n, none) ==
  /\ r.list \in Seq(Range(r.list)) /\ Len(r.list) = Len(list)
  /\ \A i \in 1 .. Len(list) :
       /\ start + i <= n => r.list[i] = list[i]
       /\ start + i > n => r.list[i] = none
  /\ r.end = start + Len(list) + 1

(* A list whose length is there has that length. *)
LEMMA ReadPart ==
  ASSUME NEW items, NEW e, NEW n \in Nat, Part(items, e, n), NEW none,
         NEW start \in Nat \ {0}, start <= n, NEW list, Holds(e, start, list),
         Len(list) \in Nat
  PROVE  PartRead(ReadList(items, start, none), list, start, n, none)
<1>1. start \in DOMAIN items /\ items[start] = Len(list)
  BY DEF Part, Holds
<1>2. \A i \in 1 .. Len(list) :
        /\ start + i \in DOMAIN items <=> start + i <= n
        /\ start + i <= n => items[start + i] = list[i]
  <2> SUFFICES ASSUME NEW i \in 1 .. Len(list)
               PROVE  /\ start + i \in DOMAIN items <=> start + i <= n
                      /\ start + i <= n => items[start + i] = list[i]
    OBVIOUS
  <2>1. start + i \in DOMAIN items <=> start + i <= n
    BY DEF Part
  <2>2. e[start + i] = list[i]
    BY DEF Holds
  <2>3. start + i \in DOMAIN items => items[start + i] = e[start + i]
    BY DEF Part
  <2> QED BY <2>1, <2>2, <2>3
<1> DEFINE L == Len(list)
           read == [i \in 1 .. L |-> IF start + i \in DOMAIN items THEN items[start + i] ELSE none]
<1>3. ReadList(items, start, none) = [list |-> read, end |-> start + L + 1]
  BY <1>1 DEF ReadList
<1>4. DOMAIN read = 1 .. L /\ read = [i \in 1 .. L |-> read[i]]
  OBVIOUS
<1>5. \A i \in 1 .. L : /\ start + i <= n => read[i] = list[i]
                        /\ start + i > n => read[i] = none
  <2> SUFFICES ASSUME NEW i \in 1 .. L
               PROVE  /\ start + i <= n => read[i] = list[i]
                      /\ start + i > n => read[i] = none
    OBVIOUS
  <2>1. start + i > n => ~(start + i <= n)
    OBVIOUS
  <2> QED BY <1>2, <2>1
<1> HIDE DEF read
<1>6. read \in Seq(Range(read)) /\ Len(read) = L
  BY <1>4, FunctionIsSeq
<1> QED BY <1>3, <1>5, <1>6 DEF PartRead

(* A list that is there to its last item. *)
LEMMA ReadWhole ==
  ASSUME NEW items, NEW e, NEW n \in Nat, Part(items, e, n), NEW none,
         NEW start \in Nat \ {0}, NEW S, NEW list \in Seq(S), Holds(e, start, list),
         start + Len(list) <= n
  PROVE  /\ ReadList(items, start, none).list = list
         /\ ReadList(items, start, none).end = start + Len(list) + 1
<1>1. Len(list) \in Nat /\ list = [i \in 1 .. Len(list) |-> list[i]]
  <2>1. Len(list) \in Nat /\ list \in [1 .. Len(list) -> S]
    BY LenProperties
  <2> QED BY <2>1
<1>2. start <= n /\ \A i \in 1 .. Len(list) : start + i <= n
  BY <1>1
<1> DEFINE l == ReadList(items, start, none).list
<1>3. /\ l \in Seq(Range(l)) /\ Len(l) = Len(list)
      /\ \A i \in 1 .. Len(list) : start + i <= n => l[i] = list[i]
      /\ ReadList(items, start, none).end = start + Len(list) + 1
  <2>1. PartRead(ReadList(items, start, none), list, start, n, none)
    BY <1>1, <1>2, ReadPart
  <2> QED BY <2>1 DEF PartRead
<1> HIDE DEF l
<1>4. l \in [1 .. Len(list) -> Range(l)]
  BY <1>3, LenProperties
<1>5. l = list
  BY <1>1, <1>2, <1>3, <1>4
<1> QED BY <1>3, <1>5 DEF l

(* What the import makes of the first n items of a mesh.                     *)
LEMMA ReadPrefix ==
  ASSUME NEW m, NEW e, NEW V, NEW F, LaidOut(m, e, V, F), NEW n \in Nat,
         NEW items, Part(items, e, n), NEW r, r = ReadMesh(items)
  PROVE  /\ r.positions \in Seq(Range(r.positions)) /\ r.normals \in Seq(Range(r.normals))
         /\ r.texCoords \in Seq(Range(r.texCoords))
         /\ r.triangles \in Seq(Nat)
         /\ r.triangles # <<>> =>
              /\ Len(r.positions) = V /\ Len(r.normals) = V
              /\ r.triangles \in Seq(0 .. V - 1)
         /\ Len(r.normals) > Len(r.texCoords) => n \in V + 2 .. V + V + 2
         /\ n = 3 * V + F + 6 =>
              r = [positions |-> m.positions, normals |-> m.normals, texCoords |-> m.texCoords,
                   triangles |-> m.triangles, submeshes |-> m.submeshes]
<1> DEFINE rP == ReadList(items, 1, Zero)
           rN == ReadList(items, rP.end, Zero)
           rT == ReadList(items, rN.end, Zero)
           rI == ReadList(items, rT.end, 0)
           rS == ReadList(items, rI.end, [indexOffset |-> 0, indexCount |-> 0])
<1>1. /\ r.positions = rP.list /\ r.normals = rN.list /\ r.texCoords = rT.list
      /\ r.triangles = rI.list /\ r.submeshes = rS.list
      /\ r = [positions |-> r.positions, normals |-> r.normals, texCoords |-> r.texCoords,
              triangles |-> r.triangles, submeshes |-> r.submeshes]
  BY DEF ReadMesh
<1> HIDE DEF rP, rN, rT, rI, rS
<1>2. V \in Nat /\ F \in Nat
  BY DEF LaidOut
<1>3. n \in Nat /\ DOMAIN items = 1 .. n
  BY DEF Part
<1>4. /\ m.positions \in Seq(Range(m.positions)) /\ Len(m.positions) = V
      /\ m.normals \in Seq(Range(m.normals)) /\ Len(m.normals) = V
      /\ m.texCoords \in Seq(Range(m.texCoords)) /\ Len(m.texCoords) = V
      /\ m.triangles \in Seq(0 .. V - 1) /\ Len(m.triangles) = F
      /\ m.submeshes \in Seq(Range(m.submeshes)) /\ Len(m.submeshes) = 1
  BY DEF LaidOut
<1>16. /\ Holds(e, 1, m.positions) /\ Holds(e, V + 2, m.normals)
       /\ Holds(e, 2 * V + 3, m.texCoords) /\ Holds(e, 3 * V + 4, m.triangles)
       /\ Holds(e, 3 * V + F + 5, m.submeshes)
  BY DEF LaidOut
<1>5. Len(<<>>) = 0 /\ \A S : <<>> \in Seq(S)
  BY EmptySeq
<1>6. CASE n = 0
  <2>1. rP.list = <<>> /\ rP.end = 2
    <3>1. 1 \in Nat /\ 1 > n /\ 1 + 1 = 2
      BY <1>6
    <3>2. rP.list = <<>> /\ rP.end = 1 + 1
      BY <1>3, <3>1, ReadBehind DEF rP
    <3> QED BY <3>1, <3>2
  <2>2. rN.list = <<>> /\ rN.end = 3
    <3>1. rP.end \in Nat /\ rP.end > n /\ rP.end + 1 = 3
      BY <1>6, <2>1
    <3> QED BY <1>3, <3>1, ReadBehind DEF rN
  <2>3. rT.list = <<>> /\ rT.end = 4
    <3>1. rN.end \in Nat /\ rN.end > n /\ rN.end + 1 = 4
      BY <1>6, <2>2
    <3> QED BY <1>3, <3>1, ReadBehind DEF rT
  <2>4. rI.list = <<>>
    <3>1. rT.end \in Nat /\ rT.end > n
      BY <1>6, <2>3
    <3> QED BY <1>3, <3>1, ReadBehind DEF rI
  <2>5. n # 3 * V + F + 6
    BY <1>2, <1>6
  <2> QED BY <1>1, <1>2, <1>5, <2>1, <2>2, <2>3, <2>4, <2>5
<1>7. ASSUME n >= 1
      PROVE  rP.list \in Seq(Range(rP.list)) /\ Len(rP.list) = V /\ rP.end = V + 2
  <2>1. 1 \in Nat \ {0} /\ 1 <= n /\ Len(m.positions) \in Nat /\ 1 + V + 1 = V + 2
    BY <1>2, <1>4, <1>7
  <2>2. Holds(e, 1, m.positions)
    BY <1>2, <1>16
  <2>3. /\ rP.list \in Seq(Range(rP.list)) /\ Len(rP.list) = Len(m.positions)
        /\ rP.end = 1 + Len(m.positions) + 1
    <3>1. PartRead(ReadList(items, 1, Zero), m.positions, 1, n, Zero)
      BY <2>1, <2>2, ReadPart
    <3> QED BY <3>1 DEF rP, PartRead
  <2> QED BY <1>4, <2>1, <2>3
<1>8. CASE n >= 1 /\ n < V + 2
  <2>1. rP.end \in Nat /\ rP.end > n /\ rP.end + 1 = V + 3
    BY <1>2, <1>3, <1>7, <1>8
  <2>2. rN.list = <<>> /\ rN.end = V + 3
    BY <1>3, <2>1, ReadBehind DEF rN
  <2>3. rN.end \in Nat /\ rN.end > n /\ rN.end + 1 = V + 4
    BY <1>2, <1>3, <1>8, <2>2
  <2>4. rT.list = <<>> /\ rT.end = V + 4
    BY <1>3, <2>3, ReadBehind DEF rT
  <2>5. rT.end \in Nat /\ rT.end > n
    BY <1>2, <1>3, <1>8, <2>4
  <2>6. rI.list = <<>>
    BY <1>3, <2>5, ReadBehind DEF rI
  <2>7. n # 3 * V + F + 6
    BY <1>2, <1>3, <1>8
  <2> QED BY <1>1, <1>2, <1>5, <1>7, <1>8, <2>2, <2>4, <2>6, <2>7
<1>9. ASSUME n >= V + 2
      PROVE  rN.list \in Seq(Range(rN.list)) /\ Len(rN.list) = V /\ rN.end = 2 * V + 3
  <2>1. n >= 1
    BY <1>2, <1>3, <1>9
  <2>2. rP.end = V + 2
    BY <1>7, <2>1
  <2>3. rP.end \in Nat \ {0} /\ rP.end <= n /\ V + 2 + V + 1 = 2 * V + 3
    BY <1>2, <1>9, <2>2
  <2>4. Holds(e, rP.end, m.normals) /\ Len(m.normals) \in Nat
    BY <1>2, <1>16, <1>4, <2>2
  <2>5. /\ rN.list \in Seq(Range(rN.list)) /\ Len(rN.list) = Len(m.normals)
        /\ rN.end = rP.end + Len(m.normals) + 1
    <3>1. PICK s : s = rP.end
      OBVIOUS
    <3>2. s \in Nat \ {0} /\ s <= n /\ Holds(e, s, m.normals)
      BY <2>3, <2>4, <3>1
    <3>3. PartRead(ReadList(items, s, Zero), m.normals, s, n, Zero)
      BY <2>4, <3>2, ReadPart
    <3> QED BY <3>1, <3>3 DEF rN, PartRead
  <2> QED BY <1>4, <2>2, <2>3, <2>5
<1>10. CASE n >= V + 2 /\ n < 2 * V + 3
  <2>1. n >= 1 /\ n # 3 * V + F + 6 /\ n \in V + 2 .. V + V + 2
    BY <1>2, <1>3, <1>10
  <2>2. /\ rP.list \in Seq(Range(rP.list)) /\ rN.list \in Seq(Range(rN.list))
        /\ Len(rP.list) = V /\ Len(rN.list) = V /\ rN.end = 2 * V + 3
    BY <1>7, <1>9, <1>10, <2>1
  <2>3. rN.end \in Nat /\ rN.end > n /\ rN.end + 1 = 2 * V + 4
    BY <1>2, <1>3, <1>10, <2>2
  <2>4. rT.list = <<>> /\ rT.end = 2 * V + 4
    BY <1>3, <2>3, ReadBehind DEF rT
  <2>5. rT.end \in Nat /\ rT.end > n
    BY <1>2, <1>3, <1>10, <2>4
  <2>6. rI.list = <<>>
    BY <1>3, <2>5, ReadBehind DEF rI
  <2> QED BY <1>1, <1>2, <1>5, <2>1, <2>2, <2>4, <2>6
<1>11. ASSUME n >= 2 * V + 3
       PROVE  rT.list \in Seq(Range(rT.list)) /\ Len(rT.list) = V /\ rT.end = 3 * V + 4
  <2>1. n >= V + 2
    BY <1>2, <1>3, <1>11
  <2>2. rN.end = 2 * V + 3
    BY <1>9, <2>1
  <2>3. rN.end \in Nat \ {0} /\ rN.end <= n /\ 2 * V + 3 + V + 1 = 3 * V + 4
    BY <1>2, <1>11, <2>2
  <2>4. Holds(e, rN.end, m.texCoords) /\ Len(m.texCoords) \in Nat
    BY <1>2, <1>16, <1>4, <2>2
  <2>5. /\ rT.list \in Seq(Range(rT.list)) /\ Len(rT.list) = Len(m.texCoords)
        /\ rT.end = rN.end + Len(m.texCoords) + 1
    <3>1. PICK s : s = rN.end
      OBVIOUS
    <3>2. s \in Nat \ {0} /\ s <= n /\ Holds(e, s, m.texCoords)
      BY <2>3, <2>4, <3>1
    <3>3. PartRead(ReadList(items, s, Zero), m.texCoords, s, n, Zero)
      BY <2>4, <3>2, ReadPart
    <3> QED BY <3>1, <3>3 DEF rT, PartRead
  <2> QED BY <1>4, <2>2, <2>3, <2>5
<1>12. ASSUME n >= 2 * V + 3
       PROVE  /\ n >= 1 /\ n >= V + 2
              /\ rP.list \in Seq(Range(rP.list)) /\ rN.list \in Seq(Range(rN.list))
              /\ rT.list \in Seq(Range(rT.list))
              /\ Len(rP.list) = V /\ Len(rN.list) = V /\ Len(rT.list) = V
  <2>1. n >= 1 /\ n >= V + 2
    BY <1>2, <1>3, <1>12
  <2> QED BY <1>7, <1>9, <1>11, <1>12, <2>1
<1>13. CASE n >= 2 * V + 3 /\ n < 3 * V + 4
  <2>1. rT.end = 3 * V + 4
    BY <1>11, <1>13
  <2>2. rT.end \in Nat /\ rT.end > n /\ n # 3 * V + F + 6
    BY <1>2, <1>3, <1>13, <2>1
  <2>3. rI.list = <<>>
    BY <1>3, <2>2, ReadBehind DEF rI
  <2>4. /\ rP.list \in Seq(Range(rP.list)) /\ rN.list \in Seq(Range(rN.list))
        /\ rT.list \in Seq(Range(rT.list))
        /\ Len(rP.list) = V /\ Len(rN.list) = V /\ Len(rT.list) = V
    BY <1>12, <1>13
  <2>5. ~(V > V)
    BY <1>2
  <2> QED BY <1>1, <1>2, <1>5, <2>2, <2>3, <2>4, <2>5
<1>14. CASE n >= 3 * V + 4
  <2>1. n >= 2 * V + 3
    BY <1>2, <1>3, <1>14
  <2>2. rT.end = 3 * V + 4
    BY <1>11, <2>1
  <2>3. rT.end \in Nat \ {0} /\ rT.end <= n
    BY <1>2, <1>14, <2>2
  <2>4. Holds(e, rT.end, m.triangles) /\ Len(m.triangles) \in Nat
    BY <1>2, <1>16, <1>4, <2>2
  <2>5. /\ rI.list \in Seq(Range(rI.list)) /\ Len(rI.list) = Len(m.triangles)
        /\ \A i \in 1 .. Len(m.triangles) :
             /\ rT.end + i <= n => rI.list[i] = m.triangles[i]
             /\ rT.end + i > n => rI.list[i] = 0
        /\ rI.end = rT.end + Len(m.triangles) + 1
    <3>1. PICK s : s = rT.end
      OBVIOUS
    <3>2. s \in Nat \ {0} /\ s <= n /\ Holds(e, s, m.triangles)
      BY <2>3, <2>4, <3>1
    <3>3. PartRead(ReadList(items, s, 0), m.triangles, s, n, 0)
      BY <2>4, <3>2, ReadPart
    <3> QED BY <3>1, <3>3 DEF rI, PartRead
  <2>6. \A i \in 1 .. F : m.triangles[i] \in 0 .. V - 1
    BY <1>4, ElementOfSeq
  <2>7. \A i \in 1 .. F : rI.list[i] \in 0 .. V - 1
    <3> SUFFICES ASSUME NEW i \in 1 .. F PROVE rI.list[i] \in 0 .. V - 1
      OBVIOUS
    <3>1. m.triangles[i] \in 0 .. V - 1
      BY <2>6
    <3>2. 0 \in 0 .. V - 1
      BY <1>2, <3>1
    <3>3. rT.end + i <= n \/ rT.end + i > n
      BY <1>2, <1>3, <2>3
    <3>4. rI.list[i] = m.triangles[i] \/ rI.list[i] = 0
      BY <1>4, <2>5, <3>3
    <3> QED BY <3>1, <3>2, <3>4
  <2>8. rI.list \in Seq(0 .. V - 1)
    <3>1. rI.list \in [1 .. F -> Range(rI.list)]
      BY <1>4, <2>5, LenProperties
    <3>2. rI.list \in [1 .. F -> 0 .. V - 1]
      BY <2>7, <3>1
    <3> QED BY <1>2, <3>2, SeqDef
  <2>9. rI.list \in Seq(Nat)
    <3>1. 0 .. V - 1 \subseteq Nat
      BY <1>2
    <3> QED BY <2>8, <3>1, SeqMonotonic
  <2>10. /\ rP.list \in Seq(Range(rP.list)) /\ rN.list \in Seq(Range(rN.list))
        /\ rT.list \in Seq(Range(rT.list))
        /\ Len(rP.list) = V /\ Len(rN.list) = V /\ Len(rT.list) = V
    BY <1>12, <2>1
  <2>11. ASSUME n = 3 * V + F + 6
         PROVE r = [positions |-> m.positions, normals |-> m.normals, texCoords |-> m.texCoords,
                    triangles |-> m.triangles, submeshes |-> m.submeshes]
    <3>1. /\ 1 + V <= n /\ V + 2 + V <= n /\ 2 * V + 3 + V <= n /\ 3 * V + 4 + F <= n
          /\ 3 * V + F + 5 + 1 <= n /\ 3 * V + 4 + F + 1 = 3 * V + F + 5
      BY <1>2, <2>11
    <3>2. rP.list = m.positions
      <4>1. 1 \in Nat \ {0} /\ 1 + Len(m.positions) <= n
        BY <1>4, <3>1
      <4>2. Holds(e, 1, m.positions) /\ m.positions \in Seq(Range(m.positions))
        BY <1>2, <1>16, <1>4
      <4> QED BY <1>3, <4>1, <4>2, ReadWhole DEF rP
    <3>3. rN.list = m.normals
      <4>1. rP.end = V + 2
        BY <1>7, <1>12, <2>1
      <4>2. rP.end \in Nat \ {0} /\ rP.end + Len(m.normals) <= n
        BY <1>2, <1>4, <3>1, <4>1
      <4>3. Holds(e, rP.end, m.normals) /\ m.normals \in Seq(Range(m.normals))
        BY <1>2, <1>16, <1>4, <4>1
      <4> QED BY <1>3, <4>2, <4>3, ReadWhole DEF rN
    <3>4. rT.list = m.texCoords
      <4>1. rN.end = 2 * V + 3
        BY <1>9, <1>12, <2>1
      <4>2. rN.end \in Nat \ {0} /\ rN.end + Len(m.texCoords) <= n
        BY <1>2, <1>4, <3>1, <4>1
      <4>3. Holds(e, rN.end, m.texCoords) /\ m.texCoords \in Seq(Range(m.texCoords))
        BY <1>2, <1>16, <1>4, <4>1
      <4> QED BY <1>3, <4>2, <4>3, ReadWhole DEF rT
    <3>5. rI.list = m.triangles
      <4>1. rT.end + Len(m.triangles) <= n
        BY <1>4, <2>2, <3>1
      <4>2. m.triangles \in Seq(0 .. V - 1)
        BY <1>4
      <4> QED BY <1>3, <2>3, <2>4, <4>1, <4>2, ReadWhole DEF rI
    <3>6. rS.list = m.submeshes
      <4>1. rI.end = 3 * V + F + 5
        BY <1>4, <2>2, <2>5, <3>1
      <4>2. rI.end \in Nat \ {0} /\ rI.end + Len(m.submeshes) <= n
        BY <1>2, <1>4, <3>1, <4>1
      <4>3. Holds(e, rI.end, m.submeshes) /\ m.submeshes \in Seq(Range(m.submeshes))
        BY <1>2, <1>16, <1>4, <4>1
      <4> QED BY <1>3, <4>2, <4>3, ReadWhole DEF rS
    <3> QED BY <1>1, <3>2, <3>3, <3>4, <3>5, <3>6
  <2>12. ~(V > V)
    BY <1>2
  <2> QED BY <1>1, <1>2, <2>8, <2>9, <2>10, <2>11, <2>12
<1>15. \/ n = 0
       \/ (n >= 1 /\ n < V + 2)
       \/ (n >= V + 2 /\ n < 2 * V + 3)
       \/ (n >= 2 * V + 3 /\ n < 3 * V + 4)
       \/ n >= 3 * V + 4
  BY <1>2, <1>3
<1> QED BY <1>6, <1>8, <1>10, <1>13, <1>14, <1>15

-----------------------------------------------------------------------------
(* A mesh that was sound is laid out in its file.                            *)
LEMMA SoundIsLaidOut ==
  ASSUME NEW m, Sound(m)
  PROVE  /\ LaidOut(m, Exported(m), Len(m.positions), Len(m.triangles))
         /\ Exported(m) \in Seq(Values(m))
         /\ Len(Exported(m)) = 3 * Len(m.positions) + Len(m.triangles) + 6
BY Layout DEF LaidOut

(* What the tool has of a file: a beginning of the mesh it was opened for,   *)
(* and the whole once it was closed.                                         *)
FileInv(items, m, closed) ==
  /\ Sound(m)
  /\ items \in Seq(Values(m))
  /\ Len(items) <= Len(Exported(m))
  /\ Begins(items, Exported(m))
  /\ closed => Len(items) = Len(Exported(m))

ToolInv ==
  /\ at \in Nat \ {0} /\ mesh \in Nat \ {0}
  /\ imported \in Seq(Range(imported)) /\ \A i \in 1 .. Len(imported) : Sound(imported[i])
  /\ DOMAIN source = DOMAIN disk /\ <<>> \notin DOMAIN disk
  /\ status = "import" => name = <<>>
  /\ name # <<>> => name \in DOMAIN disk /\ mesh <= Len(imported) /\ source[name] = imported[mesh]
  /\ \A f \in DOMAIN disk : FileInv(disk[f], source[f], f # name)

(* An empty directory has nothing to break. *)
LEMMA ToolInit == Init => ToolInv
<1> SUFFICES ASSUME Init PROVE ToolInv
  OBVIOUS
<1>1. imported \in Seq(Range(imported)) /\ Len(imported) = 0
  BY EmptySeq DEF Init
<1>2. DOMAIN source = {} /\ DOMAIN disk = {}
  BY DEF Init
<1>3. at \in Nat \ {0} /\ mesh \in Nat \ {0} /\ name = <<>>
  BY DEF Init
<1> QED BY <1>1, <1>2, <1>3 DEF ToolInv

(* No step of the tool breaks what it has of a file. *)
LEMMA ToolStep == ToolInv /\ [Next]_vars => ToolInv'
<1> SUFFICES ASSUME ToolInv, [Next]_vars PROVE ToolInv'
  OBVIOUS
<1>1. CASE Import
  <2>1. /\ at <= Len(Inputs) /\ imported' \in {ProcessNode(Inputs[at].scene), <<>>} /\ mesh' = 1
        /\ UNCHANGED <<at, name, disk, source>>
    BY <1>1 DEF Import
  <2>2. name = <<>> /\ at \in Nat \ {0}
    BY <1>1 DEF Import, ToolInv
  <2>3. at \in DOMAIN Inputs
    <3>1. Inputs \in Seq(Range(Inputs))
      BY InputsAssumption
    <3>2. Len(Inputs) \in Nat /\ DOMAIN Inputs = 1 .. Len(Inputs)
      BY <3>1, LenProperties
    <3> QED BY <2>1, <2>2, <3>2
  <2>10. PICK k \in DOMAIN Inputs : k = at
    BY <2>3
  <2>4. PICK l : l = imported'
    OBVIOUS
  <2>5. l \in Seq(Processed(Inputs[k].scene))
    <3>1. l = ProcessNode(Inputs[k].scene) \/ l = <<>>
      BY <2>1, <2>4, <2>10
    <3>2. ProcessNode(Inputs[k].scene) \in Seq(Processed(Inputs[k].scene))
      BY ProcessNodeType
    <3>3. <<>> \in Seq(Processed(Inputs[k].scene))
      BY EmptySeq
    <3> QED BY <3>1, <3>2, <3>3
  <2>6. l \in Seq(Range(l)) /\ \A i \in 1 .. Len(l) : Sound(l[i])
    <3>1. \A i \in 1 .. Len(l) : l[i] \in Processed(Inputs[k].scene)
      BY <2>5, ElementOfSeq
    <3>2. \A i \in 1 .. Len(l) : Sound(l[i])
      BY <3>1, ProcessedIsSound
    <3> QED BY <2>5, <3>2, SeqOfRange
  <2>7. imported' \in Seq(Range(imported')) /\ \A i \in 1 .. Len(imported') : Sound(imported'[i])
    BY <2>4, <2>6
  <2>8. name' = <<>> /\ at' \in Nat \ {0} /\ mesh' \in Nat \ {0}
    BY <2>1, <2>2
  <2>9. /\ DOMAIN source' = DOMAIN disk' /\ <<>> \notin DOMAIN disk'
        /\ \A f \in DOMAIN disk' : FileInv(disk'[f], source'[f], f # name')
    BY <2>1 DEF ToolInv
  <2> QED BY <2>7, <2>8, <2>9 DEF ToolInv
<1>2. CASE Open
  <2>1. /\ name = <<>> /\ mesh <= Len(imported) /\ status = "export"
        /\ name' = <<Inputs[at].stem, Suffix>>
        /\ disk' = [f \in DOMAIN disk \cup {name'} |-> IF f = name' THEN <<>> ELSE disk[f]]
        /\ source' = [f \in DOMAIN disk' |-> IF f = name' THEN imported[mesh] ELSE source[f]]
        /\ UNCHANGED <<status, at, imported, mesh>>
    BY <1>2 DEF Open
  <2>2. PICK opened : opened = name'
    OBVIOUS
  <2>3. opened # <<>>
    BY <2>1, <2>2
  <2>4. PICK m : m = imported[mesh]
    OBVIOUS
  <2>5. Sound(m)
    <3>1. mesh \in 1 .. Len(imported)
      <4>1. Len(imported) \in Nat /\ mesh \in Nat \ {0}
        BY LenProperties DEF ToolInv
      <4> QED BY <2>1, <4>1
    <3> QED BY <2>4, <3>1 DEF ToolInv
  <2>6. FileInv(<<>>, m, FALSE)
    <3>1. <<>> \in Seq(Values(m)) /\ Len(<<>>) = 0
      BY EmptySeq
    <3>2. Len(Exported(m)) \in Nat
      BY <2>5, SoundIsLaidOut, LenProperties
    <3>3. Begins(<<>>, Exported(m))
      BY <3>1 DEF Begins
    <3> QED BY <2>5, <3>1, <3>2, <3>3 DEF FileInv
  <2>7. /\ DOMAIN disk' = DOMAIN disk \cup {opened} /\ DOMAIN source' = DOMAIN disk'
        /\ disk'[opened] = <<>> /\ source'[opened] = m
        /\ \A f \in DOMAIN disk : f # opened => disk'[f] = disk[f] /\ source'[f] = source[f]
    BY <2>1, <2>2, <2>4
  <2>8. \A f \in DOMAIN disk' : FileInv(disk'[f], source'[f], f # name')
    <3> SUFFICES ASSUME NEW f \in DOMAIN disk' PROVE FileInv(disk'[f], source'[f], f # name')
      OBVIOUS
    <3>1. CASE f = opened
      <4>1. disk'[f] = <<>> /\ source'[f] = m /\ (f # name') = FALSE
        BY <2>2, <2>7, <3>1
      <4> QED BY <2>6, <4>1
    <3>2. CASE f # opened
      <4>1. f \in DOMAIN disk /\ disk'[f] = disk[f] /\ source'[f] = source[f]
        BY <2>7, <3>2
      <4>2. FileInv(disk[f], source[f], f # name) /\ f # name
        BY <2>1, <4>1 DEF ToolInv
      <4>3. (f # name') = TRUE /\ (f # name) = TRUE
        BY <2>2, <3>2, <4>2
      <4> QED BY <4>1, <4>2, <4>3
    <3> QED BY <3>1, <3>2
  <2>9. <<>> \notin DOMAIN disk' /\ status' # "import"
    BY <2>1, <2>3, <2>7 DEF ToolInv
  <2>10. name' \in DOMAIN disk' /\ mesh' <= Len(imported') /\ source'[name'] = imported'[mesh']
    BY <2>1, <2>2, <2>4, <2>7
  <2>11. /\ at' \in Nat \ {0} /\ mesh' \in Nat \ {0}
         /\ imported' \in Seq(Range(imported'))
         /\ \A i \in 1 .. Len(imported') : Sound(imported'[i])
    BY <2>1 DEF ToolInv
  <2> QED BY <2>7, <2>8, <2>9, <2>10, <2>11 DEF ToolInv
<1>3. CASE Write
  <2>1. /\ name # <<>> /\ status = "export"
        /\ Len(disk[name]) < Len(Exported(imported[mesh]))
        /\ disk' = [disk EXCEPT ![name] = Append(@, Exported(imported[mesh])[Len(@) + 1])]
        /\ UNCHANGED <<status, at, imported, mesh, name, source>>
    BY <1>3 DEF Write
  <2>2. name \in DOMAIN disk /\ source[name] = imported[mesh] /\ mesh <= Len(imported)
    BY <2>1 DEF ToolInv
  <2>3. PICK n, m, old, next : /\ n = name /\ m = imported[mesh] /\ old = disk[name]
                               /\ next = Exported(m)[Len(old) + 1]
    OBVIOUS
  <2>4. Sound(m) /\ FileInv(old, m, FALSE)
    <3>1. FileInv(old, m, n # name)
      BY <2>2, <2>3 DEF ToolInv
    <3> QED BY <2>3, <3>1 DEF FileInv
  <2>5. disk' = [disk EXCEPT ![n] = Append(old, next)] /\ Len(old) < Len(Exported(m))
    BY <2>1, <2>3
  <2>6. FileInv(Append(old, next), m, FALSE)
    <3>1. old \in Seq(Values(m)) /\ Exported(m) \in Seq(Values(m)) /\ Begins(old, Exported(m))
      BY <2>4, SoundIsLaidOut DEF FileInv
    <3> DEFINE e == Exported(m)
               S == Values(m)
    <3>2. Len(old) \in Nat /\ Len(e) \in Nat
      BY <3>1, LenProperties
    <3>3. next \in S
      <4>1. Len(old) + 1 \in 1 .. Len(e)
        BY <2>5, <3>2
      <4> HIDE DEF e, S
      <4>2. e[Len(old) + 1] \in S
        BY <3>1, <4>1, ElementOfSeq DEF e, S
      <4> QED BY <2>3, <4>2 DEF e
    <3> HIDE DEF e, S
    <3>5. /\ Append(old, next) \in Seq(S) /\ Len(Append(old, next)) = Len(old) + 1
          /\ \A i \in 1 .. Len(old) : Append(old, next)[i] = old[i]
          /\ Append(old, next)[Len(old) + 1] = next
      <4>1. old \in Seq(S)
        BY <3>1 DEF S
      <4> QED BY <3>3, <4>1, AppendProperties
    <3> DEFINE new == Append(old, next)
    <3> HIDE DEF new
    <3>6. Begins(new, e)
      <4> SUFFICES ASSUME NEW i \in 1 .. Len(new) PROVE e[i] = new[i]
        BY DEF Begins
      <4>1. CASE i = Len(old) + 1
        BY <2>3, <3>5, <4>1 DEF e, new
      <4>2. CASE i \in 1 .. Len(old)
        <5>1. new[i] = old[i]
          BY <3>5, <4>2 DEF new
        <5>2. e[i] = old[i]
          BY <3>1, <4>2 DEF Begins, e
        <5> QED BY <5>1, <5>2
      <4>3. i = Len(old) + 1 \/ i \in 1 .. Len(old)
        BY <3>2, <3>5 DEF new
      <4> QED BY <4>1, <4>2, <4>3
    <3>7. Len(new) <= Len(e)
      BY <2>5, <3>2, <3>5 DEF e, new
    <3> QED BY <2>4, <3>5, <3>6, <3>7 DEF FileInv, new, e, S
  <2>7. DOMAIN disk' = DOMAIN disk /\ disk'[n] = Append(old, next)
        /\ \A f \in DOMAIN disk : f # n => disk'[f] = disk[f]
    BY <2>2, <2>3, <2>5
  <2>8. \A f \in DOMAIN disk' : FileInv(disk'[f], source'[f], f # name')
    <3> SUFFICES ASSUME NEW f \in DOMAIN disk PROVE FileInv(disk'[f], source'[f], f # name')
      BY <2>7
    <3>1. source'[f] = source[f] /\ name' = n
      BY <2>1, <2>3
    <3>2. CASE f = n
      <4>1. disk'[f] = Append(old, next) /\ source'[f] = m /\ (f # name') = FALSE
        BY <2>2, <2>3, <2>7, <3>1, <3>2
      <4> QED BY <2>6, <4>1
    <3>3. CASE f # n
      <4>1. FileInv(disk[f], source[f], f # name)
        BY DEF ToolInv
      <4> QED BY <2>3, <2>7, <3>1, <3>3, <4>1
    <3> QED BY <3>2, <3>3
  <2>9. /\ DOMAIN source' = DOMAIN disk' /\ <<>> \notin DOMAIN disk'
        /\ name' \in DOMAIN disk' /\ mesh' <= Len(imported') /\ source'[name'] = imported'[mesh']
        /\ status' # "import"
    BY <2>1, <2>2, <2>7 DEF ToolInv
  <2>10. /\ at' \in Nat \ {0} /\ mesh' \in Nat \ {0}
         /\ imported' \in Seq(Range(imported'))
         /\ \A i \in 1 .. Len(imported') : Sound(imported'[i])
    BY <2>1 DEF ToolInv
  <2> QED BY <2>8, <2>9, <2>10 DEF ToolInv
<1>4. CASE Close
  <2>1. /\ name # <<>> /\ status = "export" /\ Len(disk[name]) = Len(Exported(imported[mesh]))
        /\ name' = <<>> /\ mesh' = mesh + 1
        /\ UNCHANGED <<status, at, imported, disk, source>>
    BY <1>4 DEF Close
  <2>2. name \in DOMAIN disk /\ source[name] = imported[mesh]
    BY <2>1 DEF ToolInv
  <2>3. \A f \in DOMAIN disk' : FileInv(disk'[f], source'[f], f # name')
    <3> SUFFICES ASSUME NEW f \in DOMAIN disk PROVE FileInv(disk[f], source[f], TRUE)
      <4>1. \A f \in DOMAIN disk : (f # name') = TRUE
        BY <2>1 DEF ToolInv
      <4> QED BY <2>1, <4>1
    <3>1. FileInv(disk[f], source[f], f # name)
      BY DEF ToolInv
    <3>2. CASE f = name
      BY <2>1, <2>2, <3>1, <3>2 DEF FileInv
    <3>3. CASE f # name
      BY <3>1, <3>3 DEF FileInv
    <3> QED BY <3>2, <3>3
  <2>4. at' \in Nat \ {0} /\ mesh' \in Nat \ {0}
    BY <2>1 DEF ToolInv
  <2>5. /\ imported' \in Seq(Range(imported')) /\ \A i \in 1 .. Len(imported') : Sound(imported'[i])
        /\ DOMAIN source' = DOMAIN disk' /\ <<>> \notin DOMAIN disk'
    BY <2>1 DEF ToolInv
  <2> QED BY <2>1, <2>3, <2>4, <2>5 DEF ToolInv
<1>5. CASE NextInput
  <2>1. name = <<>> /\ at' = at + 1 /\ UNCHANGED <<imported, mesh, name, disk, source>>
    BY <1>5 DEF NextInput
  <2>2. at' \in Nat \ {0}
    BY <2>1 DEF ToolInv
  <2> QED BY <2>1, <2>2 DEF ToolInv
<1>6. CASE Killed
  <2>1. status' # "import" /\ UNCHANGED <<at, imported, mesh, name, disk, source>>
    BY <1>6 DEF Killed
  <2> QED BY <2>1 DEF ToolInv
<1>7. CASE UNCHANGED vars
  BY <1>7 DEF ToolInv, vars
<1> QED BY <1>1, <1>2, <1>3, <1>4, <1>5, <1>6, <1>7 DEF Next, Finished

(* A file that was closed is the whole of its mesh. *)
LEMMA ToolInvRoundTrip == ToolInv => RoundTrip
<1> SUFFICES ASSUME ToolInv, NEW f \in DOMAIN disk, Closed(f) PROVE ReadMesh(disk[f]) = source[f]
  BY DEF RoundTrip
<1> DEFINE m == source[f]
           items == disk[f]
<1>1. FileInv(items, m, f # name) /\ f # name
  BY DEF ToolInv, Closed
<1> HIDE DEF m, items
<1>2. /\ Sound(m) /\ items \in Seq(Values(m)) /\ Begins(items, Exported(m))
      /\ Len(items) = Len(Exported(m))
  BY <1>1 DEF FileInv
<1>3. Part(items, Exported(m), Len(items)) /\ Len(items) \in Nat
  BY <1>2, LenProperties DEF Part, Begins
<1>4. /\ LaidOut(m, Exported(m), Len(m.positions), Len(m.triangles))
      /\ Len(items) = 3 * Len(m.positions) + Len(m.triangles) + 6
  BY <1>2, SoundIsLaidOut
<1>5. ReadMesh(items) =
        [positions |-> m.positions, normals |-> m.normals, texCoords |-> m.texCoords,
         triangles |-> m.triangles, submeshes |-> m.submeshes]
  <2>1. PICK e, V, F, n, r : /\ e = Exported(m) /\ V = Len(m.positions) /\ F = Len(m.triangles)
                             /\ n = Len(items) /\ r = ReadMesh(items)
    OBVIOUS
  <2>2. LaidOut(m, e, V, F) /\ Part(items, e, n) /\ n \in Nat /\ n = 3 * V + F + 6
    BY <1>3, <1>4, <2>1
  <2>3. r = ReadMesh(items)
    BY <2>1
  <2>4. r = [positions |-> m.positions, normals |-> m.normals, texCoords |-> m.texCoords,
             triangles |-> m.triangles, submeshes |-> m.submeshes]
    BY <2>2, <2>3, ReadPrefix
  <2> QED BY <2>3, <2>4
<1>6. ReadMesh(items) = m
  BY <1>2, <1>5 DEF Sound
<1> QED BY <1>6 DEF m, items

-----------------------------------------------------------------------------
(* Columns i below R and rows j, row by row up to the column X of the row Y. *)
Before(R, X, Y, i, j) == i \in 0 .. R - 1 /\ j \in Nat /\ (j < Y \/ (j = Y /\ i < X))

(* One column on, one more is before. *)
LEMMA BeforeNext ==
  ASSUME NEW R \in Nat, NEW X \in Nat, NEW Y \in Nat, X < R, NEW i, NEW j
  PROVE  Before(R, X + 1, Y, i, j) <=> Before(R, X, Y, i, j) \/ (i = X /\ j = Y)
BY DEF Before

(* The end of a row is the begin of the next. *)
LEMMA BeforeRow ==
  ASSUME NEW R \in Nat, NEW Y \in Nat, NEW i, NEW j
  PROVE  Before(R, R, Y, i, j) <=> Before(R, 0, Y + 1, i, j)
BY DEF Before

(* The place of a grid's vertex among its positions, and where it is.        *)
Place(W, i, j) == i + j * (W + 1)
Vertex(i, j)   == Shapes!Point(i, 0, j)

(* The places of a vertex's neighbours. *)
LEMMA PlaceNext ==
  ASSUME NEW W \in Nat, NEW i \in Nat, NEW j \in Nat
  PROVE  /\ Place(W, i, j) \in Nat
         /\ Place(W, i + 1, j) = Place(W, i, j) + 1
         /\ Place(W, i, j + 1) = Place(W, i, j) + W + 1
         /\ Place(W, i + 1, j + 1) = Place(W, i, j) + W + 2
         /\ Place(W, W + 1, j) = Place(W, 0, j + 1)
<1>1. PICK k : k = j * (W + 1)
  OBVIOUS
<1>2. k \in Nat /\ (j + 1) * (W + 1) = k + W + 1
  BY <1>1
<1> QED BY <1>1, <1>2 DEF Place

(* The vertices before X, Y are where they belong.                           *)
Filled(ps, W, X, Y) ==
  \A i, j : Before(W + 1, X, Y, i, j) =>
    Place(W, i, j) + 1 \in 1 .. Len(ps) /\ ps[Place(W, i, j) + 1] = Vertex(i, j)

(* A vertex appended is where it belongs. *)
LEMMA FilledNext ==
  ASSUME NEW S, NEW ps \in Seq(S), NEW W \in Nat, NEW X \in Nat, NEW Y \in Nat, X < W + 1,
         Len(ps) = Place(W, X, Y), Filled(ps, W, X, Y), Vertex(X, Y) \in S
  PROVE  Filled(Append(ps, Vertex(X, Y)), W, X + 1, Y)
<1> DEFINE qs == Append(ps, Vertex(X, Y))
<1>1. /\ Len(qs) = Len(ps) + 1 /\ Len(ps) \in Nat
      /\ \A k \in 1 .. Len(ps) : qs[k] = ps[k]
      /\ qs[Len(ps) + 1] = Vertex(X, Y)
  BY AppendProperties, LenProperties
<1> HIDE DEF qs
<1> SUFFICES ASSUME NEW i, NEW j, Before(W + 1, X + 1, Y, i, j)
             PROVE  Place(W, i, j) + 1 \in 1 .. Len(qs) /\ qs[Place(W, i, j) + 1] = Vertex(i, j)
  BY DEF Filled, qs
<1>2. W + 1 \in Nat
  OBVIOUS
<1>3. Before(W + 1, X, Y, i, j) \/ (i = X /\ j = Y)
  BY <1>2, BeforeNext
<1>4. CASE Before(W + 1, X, Y, i, j)
  <2>1. PICK k : k = Place(W, i, j) + 1
    OBVIOUS
  <2>2. k \in 1 .. Len(ps) /\ ps[k] = Vertex(i, j)
    BY <1>4, <2>1 DEF Filled
  <2> QED BY <1>1, <2>1, <2>2
<1>5. CASE i = X /\ j = Y
  BY <1>1, <1>5
<1> QED BY <1>3, <1>4, <1>5

(* A row that is full is before the next one's begin. *)
LEMMA FilledRow ==
  ASSUME NEW ps, NEW W \in Nat, NEW Y \in Nat, Filled(ps, W, W + 1, Y)
  PROVE  Filled(ps, W, 0, Y + 1)
<1>1. W + 1 \in Nat
  OBVIOUS
<1>2. \A i, j : Before(W + 1, 0, Y + 1, i, j) => Before(W + 1, W + 1, Y, i, j)
  BY <1>1, BeforeRow
<1> QED BY <1>2 DEF Filled

FullGrid(ps, W, H) == Filled(ps, W, 0, H + 1)

(* In a grid that is full places tell vertices apart.                        *)
LEMMA PlacesDiffer ==
  ASSUME NEW ps, NEW W \in Nat, NEW H \in Nat, FullGrid(ps, W, H),
         NEW i \in 0 .. W, NEW j \in 0 .. H, NEW k \in 0 .. W, NEW l \in 0 .. H,
         Place(W, i, j) = Place(W, k, l)
  PROVE  i = k /\ j = l
<1>1. Before(W + 1, 0, H + 1, i, j) /\ Before(W + 1, 0, H + 1, k, l)
  BY DEF Before
<1>2. Vertex(i, j) = Vertex(k, l)
  BY <1>1 DEF Filled, FullGrid
<1>3. Vertex(i, j).x = i /\ Vertex(i, j).z = j /\ Vertex(k, l).x = k /\ Vertex(k, l).z = l
  BY DEF Vertex, Shapes!Point
<1> QED BY <1>2, <1>3

(* The two triangles of a cell.                                              *)
Lower(W, i, j) == <<Place(W, i, j), Place(W, i, j + 1), Place(W, i + 1, j + 1)>>
Upper(W, i, j) == <<Place(W, i + 1, j + 1), Place(W, i + 1, j), Place(W, i, j)>>

(* The triangles are those of the cells before X, Y, each once.              *)
OfCells(ts, W, X, Y) ==
  \A t \in 1 .. Len(ts) : \E i, j : /\ Before(W, X, Y, i, j)
                                    /\ ts[t] = Lower(W, i, j) \/ ts[t] = Upper(W, i, j)
EveryCell(ts, W, X, Y) ==
  \A i, j : Before(W, X, Y, i, j) => /\ \E t \in 1 .. Len(ts) : ts[t] = Lower(W, i, j)
                                     /\ \E t \in 1 .. Len(ts) : ts[t] = Upper(W, i, j)
Once(ts) == \A t, u \in 1 .. Len(ts) : ts[t] = ts[u] => t = u

Covered(ts, W, X, Y) == OfCells(ts, W, X, Y) /\ EveryCell(ts, W, X, Y) /\ Once(ts)

(* Cells of a row that is full are before the next one's begin. *)
LEMMA CoveredRow ==
  ASSUME NEW ts, NEW W \in Nat, NEW Y \in Nat, Covered(ts, W, W, Y)
  PROVE  Covered(ts, W, 0, Y + 1)
<1>1. \A i, j : Before(W, 0, Y + 1, i, j) <=> Before(W, W, Y, i, j)
  BY BeforeRow
<1>2. OfCells(ts, W, 0, Y + 1)
  BY <1>1 DEF Covered, OfCells
<1>3. EveryCell(ts, W, 0, Y + 1)
  BY <1>1 DEF Covered, EveryCell
<1> QED BY <1>2, <1>3 DEF Covered

(* A lower triangle is never an upper one. *)
LEMMA LowerIsNotUpper ==
  ASSUME NEW W \in Nat, NEW i \in Nat, NEW j \in Nat, NEW k \in Nat, NEW l \in Nat
  PROVE  Lower(W, i, j) # Upper(W, k, l)
<1>1. PICK a, b : a = Place(W, i, j) /\ b = Place(W, k, l)
  OBVIOUS
<1>3. /\ a \in Nat /\ b \in Nat
      /\ Place(W, i, j + 1) = a + W + 1
      /\ Place(W, k + 1, l + 1) = b + W + 2 /\ Place(W, k + 1, l) = b + 1
  BY <1>1, PlaceNext
<1>4. ~(a = b + W + 2 /\ a + W + 1 = b + 1)
  BY <1>3
<1>5. Lower(W, i, j)[1] = a /\ Lower(W, i, j)[2] = a + W + 1
  BY <1>1, <1>3 DEF Lower
<1>6. Upper(W, k, l)[1] = b + W + 2 /\ Upper(W, k, l)[2] = b + 1
  BY <1>3 DEF Upper
<1> QED BY <1>4, <1>5, <1>6

IsCell(W, H, i, j) == i \in 0 .. W - 1 /\ j \in 0 .. H - 1

(* Triangles of two cells are different.                                     *)
LEMMA TrianglesDiffer ==
  ASSUME NEW ps, NEW W \in Nat, NEW H \in Nat, FullGrid(ps, W, H),
         NEW i, NEW j, IsCell(W, H, i, j), NEW k, NEW l, IsCell(W, H, k, l)
  PROVE  /\ Lower(W, i, j) = Lower(W, k, l) => i = k /\ j = l
         /\ Upper(W, i, j) = Upper(W, k, l) => i = k /\ j = l
<1>1. i \in 0 .. W /\ j \in 0 .. H /\ k \in 0 .. W /\ l \in 0 .. H
  BY DEF IsCell
<1>2. Place(W, i, j) = Place(W, k, l) => i = k /\ j = l
  BY <1>1, PlacesDiffer
<1>3. /\ Lower(W, i, j)[1] = Place(W, i, j) /\ Lower(W, k, l)[1] = Place(W, k, l)
      /\ Upper(W, i, j)[3] = Place(W, i, j) /\ Upper(W, k, l)[3] = Place(W, k, l)
  BY DEF Lower, Upper
<1> QED BY <1>2, <1>3

(* The two triangles appended are those of the next cell. *)
LEMMA CoveredNext ==
  ASSUME NEW S, NEW ts \in Seq(S), NEW W \in Nat, NEW H \in Nat, NEW X \in Nat, NEW Y \in Nat,
         X < W, Y < H, NEW ps, FullGrid(ps, W, H), Covered(ts, W, X, Y),
         Lower(W, X, Y) \in S, Upper(W, X, Y) \in S
  PROVE  Covered(ts \o <<Lower(W, X, Y), Upper(W, X, Y)>>, W, X + 1, Y)
<1> DEFINE new == <<Lower(W, X, Y), Upper(W, X, Y)>>
           us  == ts \o new
           n   == Len(ts)
<1>1. n \in Nat
  BY LenProperties
<1>2. /\ Len(us) = n + 2 /\ \A t \in 1 .. n : us[t] = ts[t]
      /\ us[n + 1] = Lower(W, X, Y) /\ us[n + 2] = Upper(W, X, Y)
  <2> DEFINE a == Lower(W, X, Y)
             b == Upper(W, X, Y)
  <2>1. a \in S /\ b \in S
    OBVIOUS
  <2> HIDE DEF a, b
  <2>2. <<a, b>> \in Seq(S) /\ Len(<<a, b>>) = 2 /\ <<a, b>>[1] = a /\ <<a, b>>[2] = b
    BY <2>1
  <2> DEFINE ab == <<a, b>>
  <2> HIDE DEF ab
  <2>3. /\ Len(ts \o ab) = Len(ts) + Len(ab)
        /\ \A t \in 1 .. Len(ts) + Len(ab) :
             (ts \o ab)[t] = IF t <= Len(ts) THEN ts[t] ELSE ab[t - Len(ts)]
    BY <2>2, ConcatProperties DEF ab
  <2>4. us = ts \o ab
    BY DEF ab, a, b
  <2> HIDE DEF us
  <2>5. /\ Len(us) = n + 2
        /\ \A t \in 1 .. n + 2 : us[t] = IF t <= n THEN ts[t] ELSE ab[t - n]
    BY <2>2, <2>3, <2>4 DEF ab
  <2> HIDE DEF n
  <2>6. \A t \in 1 .. n : t \in 1 .. n + 2 /\ t <= n
    BY <1>1
  <2>7. us[n + 1] = ab[1] /\ us[n + 2] = ab[2]
    <3>1. PICK k, l : k = n + 1 /\ l = n + 2
      OBVIOUS
    <3>2. /\ k \in 1 .. n + 2 /\ ~(k <= n) /\ k - n = 1
          /\ l \in 1 .. n + 2 /\ ~(l <= n) /\ l - n = 2
      BY <1>1, <3>1
    <3>3. us[k] = ab[k - n] /\ us[l] = ab[l - n]
      BY <2>5, <3>2
    <3> QED BY <3>1, <3>2, <3>3
  <2>8. \A t \in 1 .. n : us[t] = ts[t]
    BY <2>5, <2>6
  <2> QED BY <2>2, <2>5, <2>7, <2>8 DEF ab, a, b
<1> HIDE DEF us, n
<1>3. \A i, j : Before(W, X, Y, i, j) => i \in 0 .. W - 1 /\ j \in 0 .. H - 1
  BY DEF Before
<1>4. X \in 0 .. W - 1 /\ Y \in 0 .. H - 1 /\ ~Before(W, X, Y, X, Y)
  BY DEF Before
<1>5. \A i, j : Before(W, X + 1, Y, i, j) <=> Before(W, X, Y, i, j) \/ (i = X /\ j = Y)
  BY BeforeNext
<1>6. \A t \in 1 .. n + 2 : t \in 1 .. n \/ t = n + 1 \/ t = n + 2
  BY <1>1
<1>7. 1 .. n \subseteq 1 .. n + 2 /\ n + 1 \in 1 .. n + 2 /\ n + 2 \in 1 .. n + 2 /\ n + 1 # n + 2
  BY <1>1
<1>8. ASSUME NEW t \in 1 .. n + 2
      PROVE  \E i, j : /\ Before(W, X + 1, Y, i, j)
                       /\ us[t] = Lower(W, i, j) \/ us[t] = Upper(W, i, j)
  <2>1. CASE t \in 1 .. n
    <3>1. \E i, j : Before(W, X, Y, i, j) /\ (ts[t] = Lower(W, i, j) \/ ts[t] = Upper(W, i, j))
      BY <2>1 DEF Covered, OfCells, n
    <3> QED BY <1>2, <1>5, <2>1, <3>1
  <2>2. CASE t = n + 1 \/ t = n + 2
    BY <1>2, <1>5, <2>2
  <2> QED BY <1>6, <2>1, <2>2
<1>9. ASSUME NEW i, NEW j, Before(W, X + 1, Y, i, j)
      PROVE  /\ \E t \in 1 .. n + 2 : us[t] = Lower(W, i, j)
             /\ \E t \in 1 .. n + 2 : us[t] = Upper(W, i, j)
  <2>1. CASE Before(W, X, Y, i, j)
    <3>1. /\ \E t \in 1 .. n : ts[t] = Lower(W, i, j)
          /\ \E t \in 1 .. n : ts[t] = Upper(W, i, j)
      BY <2>1 DEF Covered, EveryCell, n
    <3> QED BY <1>2, <1>7, <3>1
  <2>2. CASE i = X /\ j = Y
    BY <1>2, <1>7, <2>2
  <2> QED BY <1>5, <1>9, <2>1, <2>2
<1>10. ASSUME NEW t \in 1 .. n
       PROVE  ts[t] # Lower(W, X, Y) /\ ts[t] # Upper(W, X, Y)
  <2>1. PICK i, j : Before(W, X, Y, i, j) /\ (ts[t] = Lower(W, i, j) \/ ts[t] = Upper(W, i, j))
    BY DEF Covered, OfCells, n
  <2>2. i \in 0 .. W - 1 /\ j \in 0 .. H - 1 /\ ~(i = X /\ j = Y)
    BY <1>3, <1>4, <2>1
  <2>3. /\ Lower(W, i, j) = Lower(W, X, Y) => i = X /\ j = Y
        /\ Upper(W, i, j) = Upper(W, X, Y) => i = X /\ j = Y
        /\ Lower(W, i, j) # Upper(W, X, Y) /\ Lower(W, X, Y) # Upper(W, i, j)
    <3>1. IsCell(W, H, X, Y) /\ IsCell(W, H, i, j)
      BY <1>4, <2>2 DEF IsCell
    <3>2. /\ Lower(W, i, j) = Lower(W, X, Y) => i = X /\ j = Y
          /\ Upper(W, i, j) = Upper(W, X, Y) => i = X /\ j = Y
      BY <3>1, TrianglesDiffer
    <3>3. i \in Nat /\ j \in Nat
      BY <2>2
    <3>4. Lower(W, i, j) # Upper(W, X, Y) /\ Lower(W, X, Y) # Upper(W, i, j)
      BY <3>3, LowerIsNotUpper
    <3> QED BY <3>2, <3>4
  <2> QED BY <2>1, <2>2, <2>3
<1>11. Lower(W, X, Y) # Upper(W, X, Y)
  BY LowerIsNotUpper
<1>12. ASSUME NEW t \in 1 .. n + 2, NEW u \in 1 .. n + 2, us[t] = us[u]
       PROVE  t = u
  <2>1. CASE t \in 1 .. n /\ u \in 1 .. n
    <3>1. ts[t] = ts[u]
      BY <1>2, <1>12, <2>1
    <3> QED BY <2>1, <3>1 DEF Covered, Once, n
  <2>2. CASE t \in 1 .. n /\ (u = n + 1 \/ u = n + 2)
    BY <1>2, <1>10, <1>12, <2>2
  <2>3. CASE u \in 1 .. n /\ (t = n + 1 \/ t = n + 2)
    BY <1>2, <1>10, <1>12, <2>3
  <2>4. CASE (t = n + 1 \/ t = n + 2) /\ (u = n + 1 \/ u = n + 2)
    BY <1>2, <1>11, <1>12, <2>4
  <2> QED BY <1>6, <2>1, <2>2, <2>3, <2>4
<1>13. OfCells(us, W, X + 1, Y)
  BY <1>2, <1>8 DEF OfCells
<1>14. EveryCell(us, W, X + 1, Y)
  BY <1>2, <1>9 DEF EveryCell
<1>15. Once(us)
  BY <1>2, <1>12 DEF Once
<1> QED BY <1>13, <1>14, <1>15 DEF Covered, us, new

(* The side of a triangle from its corner c, by where its ends are.          *)
SideAt(ps, ts, t, c) == <<ps[ts[t][c] + 1], ps[ts[t][(c % 3) + 1] + 1]>>

(* The sides of the cell i, j: three of its lower, three of its upper        *)
(* triangle.                                                                 *)
PlaneSide(k, i, j) ==
  CASE k = 1 -> <<Vertex(i, j), Vertex(i, j + 1)>>
    [] k = 2 -> <<Vertex(i, j + 1), Vertex(i + 1, j + 1)>>
    [] k = 3 -> <<Vertex(i + 1, j + 1), Vertex(i, j)>>
    [] k = 4 -> <<Vertex(i + 1, j + 1), Vertex(i + 1, j)>>
    [] k = 5 -> <<Vertex(i + 1, j), Vertex(i, j)>>
    [] k = 6 -> <<Vertex(i, j), Vertex(i + 1, j + 1)>>

(* The six sides, spelled out. *)
LEMMA PlaneSidesAre ==
  ASSUME NEW i, NEW j
  PROVE  /\ PlaneSide(1, i, j) = <<Vertex(i, j), Vertex(i, j + 1)>>
         /\ PlaneSide(2, i, j) = <<Vertex(i, j + 1), Vertex(i + 1, j + 1)>>
         /\ PlaneSide(3, i, j) = <<Vertex(i + 1, j + 1), Vertex(i, j)>>
         /\ PlaneSide(4, i, j) = <<Vertex(i + 1, j + 1), Vertex(i + 1, j)>>
         /\ PlaneSide(5, i, j) = <<Vertex(i + 1, j), Vertex(i, j)>>
         /\ PlaneSide(6, i, j) = <<Vertex(i, j), Vertex(i + 1, j + 1)>>
BY DEF PlaneSide

(* The corners of a cell are where they belong. *)
LEMMA CornersOfCell ==
  ASSUME NEW ps, NEW W \in Nat, NEW H \in Nat, FullGrid(ps, W, H),
         NEW i, NEW j, IsCell(W, H, i, j)
  PROVE  /\ ps[Place(W, i, j) + 1] = Vertex(i, j)
         /\ ps[Place(W, i, j + 1) + 1] = Vertex(i, j + 1)
         /\ ps[Place(W, i + 1, j) + 1] = Vertex(i + 1, j)
         /\ ps[Place(W, i + 1, j + 1) + 1] = Vertex(i + 1, j + 1)
<1> DEFINE B(k, l) == Before(W + 1, 0, H + 1, k, l)
<1>1. i \in 0 .. W - 1 /\ j \in 0 .. H - 1
  BY DEF IsCell
<1>2. B(i, j) /\ B(i, j + 1) /\ B(i + 1, j) /\ B(i + 1, j + 1)
  BY <1>1 DEF Before
<1>3. \A k, l : B(k, l) => ps[Place(W, k, l) + 1] = Vertex(k, l)
  BY DEF FullGrid, Filled
<1> HIDE DEF B
<1> QED BY <1>2, <1>3

(* The sides of a cell's two triangles. *)
LEMMA SidesOfCell ==
  ASSUME NEW ps, NEW W \in Nat, NEW H \in Nat, FullGrid(ps, W, H),
         NEW i, NEW j, IsCell(W, H, i, j), NEW ts, NEW t
  PROVE  /\ ts[t] = Lower(W, i, j) => \A c \in 1 .. 3 : SideAt(ps, ts, t, c) = PlaneSide(c, i, j)
         /\ ts[t] = Upper(W, i, j) =>
              \A c \in 1 .. 3 : SideAt(ps, ts, t, c) = PlaneSide(c + 3, i, j)
<1>1. /\ ps[Place(W, i, j) + 1] = Vertex(i, j)
      /\ ps[Place(W, i, j + 1) + 1] = Vertex(i, j + 1)
      /\ ps[Place(W, i + 1, j) + 1] = Vertex(i + 1, j)
      /\ ps[Place(W, i + 1, j + 1) + 1] = Vertex(i + 1, j + 1)
  BY CornersOfCell
<1>2. /\ PlaneSide(1, i, j) = <<Vertex(i, j), Vertex(i, j + 1)>>
      /\ PlaneSide(2, i, j) = <<Vertex(i, j + 1), Vertex(i + 1, j + 1)>>
      /\ PlaneSide(3, i, j) = <<Vertex(i + 1, j + 1), Vertex(i, j)>>
      /\ PlaneSide(4, i, j) = <<Vertex(i + 1, j + 1), Vertex(i + 1, j)>>
      /\ PlaneSide(5, i, j) = <<Vertex(i + 1, j), Vertex(i, j)>>
      /\ PlaneSide(6, i, j) = <<Vertex(i, j), Vertex(i + 1, j + 1)>>
  BY PlaneSidesAre
<1>3. /\ SideAt(ps, ts, t, 1) = <<ps[ts[t][1] + 1], ps[ts[t][2] + 1]>>
      /\ SideAt(ps, ts, t, 2) = <<ps[ts[t][2] + 1], ps[ts[t][3] + 1]>>
      /\ SideAt(ps, ts, t, 3) = <<ps[ts[t][3] + 1], ps[ts[t][1] + 1]>>
  <2>1. (1 % 3) + 1 = 2 /\ (2 % 3) + 1 = 3 /\ (3 % 3) + 1 = 1
    OBVIOUS
  <2> QED BY <2>1 DEF SideAt
<1>4. ASSUME ts[t] = Lower(W, i, j), NEW c \in 1 .. 3
      PROVE  SideAt(ps, ts, t, c) = PlaneSide(c, i, j)
  <2>1. /\ ts[t][1] = Place(W, i, j) /\ ts[t][2] = Place(W, i, j + 1)
        /\ ts[t][3] = Place(W, i + 1, j + 1)
    BY <1>4 DEF Lower
  <2>2. c = 1 \/ c = 2 \/ c = 3
    BY <1>4
  <2> QED BY <1>1, <1>2, <1>3, <2>1, <2>2
<1>5. ASSUME ts[t] = Upper(W, i, j), NEW c \in 1 .. 3
      PROVE  SideAt(ps, ts, t, c) = PlaneSide(c + 3, i, j)
  <2>1. /\ ts[t][1] = Place(W, i + 1, j + 1) /\ ts[t][2] = Place(W, i + 1, j)
        /\ ts[t][3] = Place(W, i, j)
    BY <1>5 DEF Upper
  <2>2. (c = 1 /\ c + 3 = 4) \/ (c = 2 /\ c + 3 = 5) \/ (c = 3 /\ c + 3 = 6)
    BY <1>5
  <2> QED BY <1>1, <1>2, <1>3, <2>1, <2>2
<1> QED BY <1>4, <1>5

(* The same, for one triangle. *)
IsLower(ts, W, t, i, j) == ts[t] = Lower(W, i, j)
IsUpper(ts, W, t, i, j) == ts[t] = Upper(W, i, j)
LowerSide(ps, ts, t, i, j) == \A c \in 1 .. 3 : SideAt(ps, ts, t, c) = PlaneSide(c, i, j)
UpperSide(ps, ts, t, i, j) == \A c \in 1 .. 3 : SideAt(ps, ts, t, c) = PlaneSide(c + 3, i, j)

(* A lower triangle has the first three sides of its cell. *)
LEMMA LowerSides ==
  ASSUME NEW ps, NEW W \in Nat, NEW H \in Nat, FullGrid(ps, W, H),
         NEW i, NEW j, IsCell(W, H, i, j), NEW ts, NEW t, IsLower(ts, W, t, i, j)
  PROVE  LowerSide(ps, ts, t, i, j)
BY SidesOfCell DEF IsLower, LowerSide

(* An upper triangle has the other three. *)
LEMMA UpperSides ==
  ASSUME NEW ps, NEW W \in Nat, NEW H \in Nat, FullGrid(ps, W, H),
         NEW i, NEW j, IsCell(W, H, i, j), NEW ts, NEW t, IsUpper(ts, W, t, i, j)
  PROVE  UpperSide(ps, ts, t, i, j)
BY SidesOfCell DEF IsUpper, UpperSide

(* The direction of a side and where it begins say which one it is.          *)
SameSide(a, i, j, b, k, l) == /\ a \in 1 .. 6 /\ b \in 1 .. 6
                              /\ i \in Nat /\ j \in Nat /\ k \in Nat /\ l \in Nat
                              /\ PlaneSide(a, i, j) = PlaneSide(b, k, l)

(* Where a side goes says whose it is. *)
LEMMA PlaneSidesDiffer ==
  ASSUME NEW a, NEW b, NEW i, NEW j, NEW k, NEW l, SameSide(a, i, j, b, k, l)
  PROVE  a = b /\ i = k /\ j = l
<1>0. /\ a \in 1 .. 6 /\ b \in 1 .. 6 /\ i \in Nat /\ j \in Nat /\ k \in Nat /\ l \in Nat
      /\ PlaneSide(a, i, j) = PlaneSide(b, k, l)
  BY DEF SameSide
<1> DEFINE Ends(s) == <<s[1].x, s[1].z, s[2].x, s[2].z>>
           Spot(c, m, n) == CASE c = 1 -> <<m, n, m, n + 1>>
                              [] c = 2 -> <<m, n + 1, m + 1, n + 1>>
                              [] c = 3 -> <<m + 1, n + 1, m, n>>
                              [] c = 4 -> <<m + 1, n + 1, m + 1, n>>
                              [] c = 5 -> <<m + 1, n, m, n>>
                              [] c = 6 -> <<m, n, m + 1, n + 1>>
<1>1. \A m, n : Vertex(m, n).x = m /\ Vertex(m, n).z = n
  BY DEF Vertex, Shapes!Point
<1>2. ASSUME NEW c \in 1 .. 6, NEW m, NEW n PROVE Ends(PlaneSide(c, m, n)) = Spot(c, m, n)
  <2>1. c = 1 \/ c = 2 \/ c = 3 \/ c = 4 \/ c = 5 \/ c = 6
    BY <1>2
  <2> QED BY <1>1, <2>1, PlaneSidesAre
<1>3. Spot(a, i, j) = Spot(b, k, l)
  <2> HIDE DEF Ends, Spot
  <2>1. Ends(PlaneSide(a, i, j)) = Spot(a, i, j) /\ Ends(PlaneSide(b, k, l)) = Spot(b, k, l)
    BY <1>0, <1>2
  <2> QED BY <1>0, <2>1
<1>4. a = 1 \/ a = 2 \/ a = 3 \/ a = 4 \/ a = 5 \/ a = 6
  BY <1>0
<1>5. b = 1 \/ b = 2 \/ b = 3 \/ b = 4 \/ b = 5 \/ b = 6
  BY <1>0
<1> HIDE DEF Ends
<1> QED BY <1>0, <1>3, <1>4, <1>5

(* No side is used twice; a side that is not on the edge has its way back.   *)
SidesOnce(ps, ts) ==
  \A t, u \in 1 .. Len(ts), c, d \in 1 .. 3 :
    SideAt(ps, ts, t, c) = SideAt(ps, ts, u, d) => t = u /\ c = d
HasWayBack(ps, ts, side) ==
  \E u \in 1 .. Len(ts), d \in 1 .. 3 : SideAt(ps, ts, u, d) = <<side[2], side[1]>>
OnEdge(W, H, side) ==
  \/ side[1].x = side[2].x /\ side[1].x \in {0, W}
  \/ side[1].z = side[2].z /\ side[1].z \in {0, H}

(* A grid has neither hole nor overlap. *)
LEMMA PlaneWatertight ==
  ASSUME NEW ps, NEW W \in Nat, NEW H \in Nat, FullGrid(ps, W, H), NEW ts, Covered(ts, W, 0, H)
  PROVE  /\ SidesOnce(ps, ts)
         /\ \A t \in 1 .. Len(ts), c \in 1 .. 3 :
              \/ OnEdge(W, H, SideAt(ps, ts, t, c))
              \/ HasWayBack(ps, ts, SideAt(ps, ts, t, c))
<1> DEFINE T        == 1 .. Len(ts)
           Is(t, c, k, i, j) == /\ k \in 1 .. 6 /\ IsCell(W, H, i, j)
                                /\ SideAt(ps, ts, t, c) = PlaneSide(k, i, j)
                                /\ \/ k = c /\ ts[t] = Lower(W, i, j)
                                   \/ k = c + 3 /\ ts[t] = Upper(W, i, j)
<1>1. \A i, j : Before(W, 0, H, i, j) <=> IsCell(W, H, i, j)
  BY DEF Before, IsCell
<1>2. ASSUME NEW t \in T, NEW c \in 1 .. 3
      PROVE  \E k, i, j : Is(t, c, k, i, j)
  <2>1. PICK i, j : IsCell(W, H, i, j) /\ (ts[t] = Lower(W, i, j) \/ ts[t] = Upper(W, i, j))
    BY <1>1 DEF Covered, OfCells
  <2>2. c \in 1 .. 6 /\ c + 3 \in 1 .. 6
    BY <1>2
  <2>3. CASE ts[t] = Lower(W, i, j)
    <3>1. SideAt(ps, ts, t, c) = PlaneSide(c, i, j)
      <4> HIDE DEF T, Is
      <4>1. IsLower(ts, W, t, i, j)
        BY <2>3 DEF IsLower
      <4>2. LowerSide(ps, ts, t, i, j)
        BY <2>1, <4>1, LowerSides
      <4> QED BY <4>2 DEF LowerSide
    <3>2. Is(t, c, c, i, j)
      BY <2>1, <2>2, <2>3, <3>1
    <3> QED BY <3>2
  <2>4. CASE ts[t] = Upper(W, i, j)
    <3>1. SideAt(ps, ts, t, c) = PlaneSide(c + 3, i, j)
      <4> HIDE DEF T, Is
      <4>1. IsUpper(ts, W, t, i, j)
        BY <2>4 DEF IsUpper
      <4>2. UpperSide(ps, ts, t, i, j)
        BY <2>1, <4>1, UpperSides
      <4> QED BY <4>2 DEF UpperSide
    <3>2. Is(t, c, c + 3, i, j)
      BY <2>1, <2>2, <2>4, <3>1
    <3> QED BY <3>2
  <2> QED BY <2>1, <2>3, <2>4
<1>3. ASSUME NEW k \in 1 .. 6, NEW i, NEW j, IsCell(W, H, i, j)
      PROVE  \E t \in T, c \in 1 .. 3 : SideAt(ps, ts, t, c) = PlaneSide(k, i, j)
  <2>1. PICK t \in T : ts[t] = Lower(W, i, j)
    BY <1>1, <1>3 DEF Covered, EveryCell
  <2>2. PICK u \in T : ts[u] = Upper(W, i, j)
    BY <1>1, <1>3 DEF Covered, EveryCell
  <2>3. /\ \A c \in 1 .. 3 : SideAt(ps, ts, t, c) = PlaneSide(c, i, j)
        /\ \A c \in 1 .. 3 : SideAt(ps, ts, u, c) = PlaneSide(c + 3, i, j)
    <3> HIDE DEF T, Is
    <3>1. IsLower(ts, W, t, i, j) /\ IsUpper(ts, W, u, i, j)
      BY <2>1, <2>2 DEF IsLower, IsUpper
    <3>2. LowerSide(ps, ts, t, i, j)
      BY <1>3, <3>1, LowerSides
    <3>3. UpperSide(ps, ts, u, i, j)
      BY <1>3, <3>1, UpperSides
    <3> QED BY <3>2, <3>3 DEF LowerSide, UpperSide
  <2>4. k \in 1 .. 3 \/ (k - 3 \in 1 .. 3 /\ k - 3 + 3 = k)
    BY <1>3
  <2>5. CASE k \in 1 .. 3
    BY <2>3, <2>5
  <2>6. CASE k - 3 \in 1 .. 3 /\ k - 3 + 3 = k
    <3>1. PICK c \in 1 .. 3 : c = k - 3 /\ c + 3 = k
      BY <2>6
    <3> QED BY <2>3, <3>1
  <2> QED BY <2>4, <2>5, <2>6
<1>4. ASSUME NEW t \in T, NEW u \in T, NEW c \in 1 .. 3, NEW d \in 1 .. 3,
             SideAt(ps, ts, t, c) = SideAt(ps, ts, u, d)
      PROVE  t = u /\ c = d
  <2>1. PICK k, i, j : Is(t, c, k, i, j)
    BY <1>2
  <2>2. PICK m, p, q : Is(u, d, m, p, q)
    BY <1>2
  <2>3. i \in Nat /\ j \in Nat /\ p \in Nat /\ q \in Nat
    BY <2>1, <2>2 DEF IsCell
  <2>4. k \in 1 .. 6 /\ m \in 1 .. 6 /\ PlaneSide(k, i, j) = PlaneSide(m, p, q)
    BY <1>4, <2>1, <2>2
  <2>5. k = m /\ i = p /\ j = q
    <3> HIDE DEF Is, T
    <3>1. SameSide(k, i, j, m, p, q)
      BY <2>3, <2>4 DEF SameSide
    <3> QED BY <3>1, PlaneSidesDiffer
  <2>6. \/ k = c /\ k = d /\ ts[t] = ts[u]
        \/ k = c + 3 /\ k = d + 3 /\ ts[t] = ts[u]
    <3>1. \/ k = c /\ ts[t] = Lower(W, i, j)
          \/ k = c + 3 /\ ts[t] = Upper(W, i, j)
      BY <2>1
    <3>2. \/ k = d /\ ts[u] = Lower(W, i, j)
          \/ k = d + 3 /\ ts[u] = Upper(W, i, j)
      BY <2>2, <2>5
    <3>3. ~(k = c /\ k = d + 3) /\ ~(k = c + 3 /\ k = d)
      BY <1>4
    <3> QED BY <3>1, <3>2, <3>3
  <2>7. t = u
    BY <2>6 DEF Covered, Once
  <2>8. c = d
    BY <1>4, <2>6
  <2> QED BY <2>7, <2>8
<1>5. ASSUME NEW t \in T, NEW c \in 1 .. 3, NEW side, side = SideAt(ps, ts, t, c)
      PROVE  \/ side[1].x = side[2].x /\ side[1].x \in {0, W}
             \/ side[1].z = side[2].z /\ side[1].z \in {0, H}
             \/ \E u \in T, d \in 1 .. 3 : SideAt(ps, ts, u, d) = <<side[2], side[1]>>
  <2>1. PICK k, i, j : Is(t, c, k, i, j)
    BY <1>2
  <2>2. k \in 1 .. 6 /\ IsCell(W, H, i, j) /\ side = PlaneSide(k, i, j)
    BY <1>5, <2>1
  <2>3. i \in 0 .. W - 1 /\ j \in 0 .. H - 1
    BY <2>2 DEF IsCell
  <2> HIDE DEF Is, T
  <2>4. \A m, n : Vertex(m, n).x = m /\ Vertex(m, n).z = n
    BY DEF Vertex, Shapes!Point
  <2>5. CASE k = 1
    <3>1. side = <<Vertex(i, j), Vertex(i, j + 1)>>
      BY <2>2, <2>5, PlaneSidesAre
    <3>2. CASE i = 0
      BY <2>4, <3>1, <3>2
    <3>3. CASE i # 0
      <4>1. PICK p : p = i - 1
        OBVIOUS
      <4>2. IsCell(W, H, p, j) /\ p + 1 = i
        BY <2>3, <3>3, <4>1 DEF IsCell
      <4>3. PlaneSide(4, p, j) = <<Vertex(i, j + 1), Vertex(i, j)>>
        BY <4>2, PlaneSidesAre
      <4>4. PICK u \in T, d \in 1 .. 3 : SideAt(ps, ts, u, d) = PlaneSide(4, p, j)
        BY <1>3, <4>2
      <4> QED BY <3>1, <4>3, <4>4
    <3> QED BY <3>2, <3>3
  <2>6. CASE k = 2
    <3>1. side = <<Vertex(i, j + 1), Vertex(i + 1, j + 1)>>
      BY <2>2, <2>6, PlaneSidesAre
    <3>2. CASE j + 1 = H
      BY <2>4, <3>1, <3>2
    <3>3. CASE j + 1 # H
      <4>1. PICK q : q = j + 1
        OBVIOUS
      <4>2. IsCell(W, H, i, q)
        BY <2>3, <3>3, <4>1 DEF IsCell
      <4>3. PlaneSide(5, i, q) = <<Vertex(i + 1, j + 1), Vertex(i, j + 1)>>
        BY <4>1, PlaneSidesAre
      <4>4. PICK u \in T, d \in 1 .. 3 : SideAt(ps, ts, u, d) = PlaneSide(5, i, q)
        BY <1>3, <4>2
      <4> QED BY <3>1, <4>3, <4>4
    <3> QED BY <3>2, <3>3
  <2>7. CASE k = 3
    <3>1. side = <<Vertex(i + 1, j + 1), Vertex(i, j)>>
      BY <2>2, <2>7, PlaneSidesAre
    <3>2. PlaneSide(6, i, j) = <<Vertex(i, j), Vertex(i + 1, j + 1)>>
      BY PlaneSidesAre
    <3>3. PICK u \in T, d \in 1 .. 3 : SideAt(ps, ts, u, d) = PlaneSide(6, i, j)
      BY <1>3, <2>2
    <3> QED BY <3>1, <3>2, <3>3
  <2>8. CASE k = 4
    <3>1. side = <<Vertex(i + 1, j + 1), Vertex(i + 1, j)>>
      BY <2>2, <2>8, PlaneSidesAre
    <3>2. CASE i + 1 = W
      BY <2>4, <3>1, <3>2
    <3>3. CASE i + 1 # W
      <4>1. PICK p : p = i + 1
        OBVIOUS
      <4>2. IsCell(W, H, p, j)
        BY <2>3, <3>3, <4>1 DEF IsCell
      <4>3. PlaneSide(1, p, j) = <<Vertex(i + 1, j), Vertex(i + 1, j + 1)>>
        BY <4>1, PlaneSidesAre
      <4>4. PICK u \in T, d \in 1 .. 3 : SideAt(ps, ts, u, d) = PlaneSide(1, p, j)
        BY <1>3, <4>2
      <4> QED BY <3>1, <4>3, <4>4
    <3> QED BY <3>2, <3>3
  <2>9. CASE k = 5
    <3>1. side = <<Vertex(i + 1, j), Vertex(i, j)>>
      BY <2>2, <2>9, PlaneSidesAre
    <3>2. CASE j = 0
      BY <2>4, <3>1, <3>2
    <3>3. CASE j # 0
      <4>1. PICK q : q = j - 1
        OBVIOUS
      <4>2. IsCell(W, H, i, q) /\ q + 1 = j
        BY <2>3, <3>3, <4>1 DEF IsCell
      <4>3. PlaneSide(2, i, q) = <<Vertex(i, j), Vertex(i + 1, j)>>
        BY <4>2, PlaneSidesAre
      <4>4. PICK u \in T, d \in 1 .. 3 : SideAt(ps, ts, u, d) = PlaneSide(2, i, q)
        BY <1>3, <4>2
      <4> QED BY <3>1, <4>3, <4>4
    <3> QED BY <3>2, <3>3
  <2>10. CASE k = 6
    <3>1. side = <<Vertex(i, j), Vertex(i + 1, j + 1)>>
      BY <2>2, <2>10, PlaneSidesAre
    <3>2. PlaneSide(3, i, j) = <<Vertex(i + 1, j + 1), Vertex(i, j)>>
      BY PlaneSidesAre
    <3>3. PICK u \in T, d \in 1 .. 3 : SideAt(ps, ts, u, d) = PlaneSide(3, i, j)
      BY <1>3, <2>2
    <3> QED BY <3>1, <3>2, <3>3
  <2>11. k = 1 \/ k = 2 \/ k = 3 \/ k = 4 \/ k = 5 \/ k = 6
    BY <2>2
  <2> QED BY <2>5, <2>6, <2>7, <2>8, <2>9, <2>10, <2>11
<1> HIDE DEF Is
<1>6. SidesOnce(ps, ts)
  BY <1>4 DEF SidesOnce
<1>7. ASSUME NEW t \in T, NEW c \in 1 .. 3
      PROVE  OnEdge(W, H, SideAt(ps, ts, t, c)) \/ HasWayBack(ps, ts, SideAt(ps, ts, t, c))
  <2>1. PICK side : side = SideAt(ps, ts, t, c)
    OBVIOUS
  <2>2. OnEdge(W, H, side) \/ HasWayBack(ps, ts, side)
    BY <1>5, <2>1 DEF OnEdge, HasWayBack
  <2> QED BY <2>1, <2>2
<1> QED BY <1>6, <1>7

-----------------------------------------------------------------------------
(* The corners of a cube, by where they are.                                 *)
CubeCorner(k) ==
  CASE k = 1 -> Shapes!Point(-1, -1, -1)
    [] k = 2 -> Shapes!Point(-1, -1, 1)
    [] k = 3 -> Shapes!Point(-1, 1, -1)
    [] k = 4 -> Shapes!Point(-1, 1, 1)
    [] k = 5 -> Shapes!Point(1, -1, -1)
    [] k = 6 -> Shapes!Point(1, -1, 1)
    [] k = 7 -> Shapes!Point(1, 1, -1)
    [] k = 8 -> Shapes!Point(1, 1, 1)

(* The corners each triangle of a cube runs through.                         *)
CubeRun ==
  <<<<3, 7, 8>>, <<8, 4, 3>>, <<2, 6, 5>>, <<5, 1, 2>>,
    <<1, 5, 7>>, <<7, 3, 1>>, <<6, 2, 4>>, <<4, 8, 6>>,
    <<5, 6, 8>>, <<8, 7, 5>>, <<2, 1, 3>>, <<3, 4, 2>>>>

(* The twelve triangles by the places of their vertices. *)
LEMMA CubeTrianglesAre ==
  /\ Shapes!CubeTriangles[1] = <<0, 1, 2>>
  /\ Shapes!CubeTriangles[2] = <<2, 3, 0>>
  /\ Shapes!CubeTriangles[3] = <<4, 5, 6>>
  /\ Shapes!CubeTriangles[4] = <<6, 7, 4>>
  /\ Shapes!CubeTriangles[5] = <<8, 9, 10>>
  /\ Shapes!CubeTriangles[6] = <<10, 11, 8>>
  /\ Shapes!CubeTriangles[7] = <<12, 13, 14>>
  /\ Shapes!CubeTriangles[8] = <<14, 15, 12>>
  /\ Shapes!CubeTriangles[9] = <<16, 17, 18>>
  /\ Shapes!CubeTriangles[10] = <<18, 19, 16>>
  /\ Shapes!CubeTriangles[11] = <<20, 21, 22>>
  /\ Shapes!CubeTriangles[12] = <<22, 23, 20>>
BY DEF Shapes!CubeTriangles

(* The twenty-four vertices by the corners they are at. *)
LEMMA CubePositionsAre ==
  /\ Len(Shapes!CubePositions) = 24
  /\ Shapes!CubePositions[1] = CubeCorner(3)
  /\ Shapes!CubePositions[2] = CubeCorner(7)
  /\ Shapes!CubePositions[3] = CubeCorner(8)
  /\ Shapes!CubePositions[4] = CubeCorner(4)
  /\ Shapes!CubePositions[5] = CubeCorner(2)
  /\ Shapes!CubePositions[6] = CubeCorner(6)
  /\ Shapes!CubePositions[7] = CubeCorner(5)
  /\ Shapes!CubePositions[8] = CubeCorner(1)
  /\ Shapes!CubePositions[9] = CubeCorner(1)
  /\ Shapes!CubePositions[10] = CubeCorner(5)
  /\ Shapes!CubePositions[11] = CubeCorner(7)
  /\ Shapes!CubePositions[12] = CubeCorner(3)
  /\ Shapes!CubePositions[13] = CubeCorner(6)
  /\ Shapes!CubePositions[14] = CubeCorner(2)
  /\ Shapes!CubePositions[15] = CubeCorner(4)
  /\ Shapes!CubePositions[16] = CubeCorner(8)
  /\ Shapes!CubePositions[17] = CubeCorner(5)
  /\ Shapes!CubePositions[18] = CubeCorner(6)
  /\ Shapes!CubePositions[19] = CubeCorner(8)
  /\ Shapes!CubePositions[20] = CubeCorner(7)
  /\ Shapes!CubePositions[21] = CubeCorner(2)
  /\ Shapes!CubePositions[22] = CubeCorner(1)
  /\ Shapes!CubePositions[23] = CubeCorner(3)
  /\ Shapes!CubePositions[24] = CubeCorner(4)
<1> DEFINE C(k) == CubeCorner(k)
<1>1. /\ C(1) = Shapes!Point(-1, -1, -1)
      /\ C(2) = Shapes!Point(-1, -1, 1)
      /\ C(3) = Shapes!Point(-1, 1, -1)
      /\ C(4) = Shapes!Point(-1, 1, 1)
      /\ C(5) = Shapes!Point(1, -1, -1)
      /\ C(6) = Shapes!Point(1, -1, 1)
      /\ C(7) = Shapes!Point(1, 1, -1)
      /\ C(8) = Shapes!Point(1, 1, 1)
  BY DEF CubeCorner
<1> HIDE DEF C
<1>2. Shapes!CubePositions =
  <<C(3), C(7), C(8), C(4), C(2), C(6), C(5), C(1),
    C(1), C(5), C(7), C(3), C(6), C(2), C(4), C(8),
    C(5), C(6), C(8), C(7), C(2), C(1), C(3), C(4)>>
  BY <1>1 DEF Shapes!CubePositions
<1> QED BY <1>2 DEF C

(* From which corner to which a side of a cube's triangle goes.              *)
CubeGoes(t, c) == <<CubeRun[t][c], CubeRun[t][(c % 3) + 1]>>

(* The thirty-six sides. *)
LEMMA CubeGoesAre ==
  /\ CubeGoes(1, 1) = <<3, 7>> /\ CubeGoes(1, 2) = <<7, 8>> /\ CubeGoes(1, 3) = <<8, 3>>
  /\ CubeGoes(2, 1) = <<8, 4>> /\ CubeGoes(2, 2) = <<4, 3>> /\ CubeGoes(2, 3) = <<3, 8>>
  /\ CubeGoes(3, 1) = <<2, 6>> /\ CubeGoes(3, 2) = <<6, 5>> /\ CubeGoes(3, 3) = <<5, 2>>
  /\ CubeGoes(4, 1) = <<5, 1>> /\ CubeGoes(4, 2) = <<1, 2>> /\ CubeGoes(4, 3) = <<2, 5>>
  /\ CubeGoes(5, 1) = <<1, 5>> /\ CubeGoes(5, 2) = <<5, 7>> /\ CubeGoes(5, 3) = <<7, 1>>
  /\ CubeGoes(6, 1) = <<7, 3>> /\ CubeGoes(6, 2) = <<3, 1>> /\ CubeGoes(6, 3) = <<1, 7>>
  /\ CubeGoes(7, 1) = <<6, 2>> /\ CubeGoes(7, 2) = <<2, 4>> /\ CubeGoes(7, 3) = <<4, 6>>
  /\ CubeGoes(8, 1) = <<4, 8>> /\ CubeGoes(8, 2) = <<8, 6>> /\ CubeGoes(8, 3) = <<6, 4>>
  /\ CubeGoes(9, 1) = <<5, 6>> /\ CubeGoes(9, 2) = <<6, 8>> /\ CubeGoes(9, 3) = <<8, 5>>
  /\ CubeGoes(10, 1) = <<8, 7>> /\ CubeGoes(10, 2) = <<7, 5>> /\ CubeGoes(10, 3) = <<5, 8>>
  /\ CubeGoes(11, 1) = <<2, 1>> /\ CubeGoes(11, 2) = <<1, 3>> /\ CubeGoes(11, 3) = <<3, 2>>
  /\ CubeGoes(12, 1) = <<3, 4>> /\ CubeGoes(12, 2) = <<4, 2>> /\ CubeGoes(12, 3) = <<2, 3>>
<1>1. (1 % 3) + 1 = 2 /\ (2 % 3) + 1 = 3 /\ (3 % 3) + 1 = 1
  OBVIOUS
<1>2. CubeRun[1] = <<3, 7, 8>>
  BY DEF CubeRun
<1>3. CubeRun[2] = <<8, 4, 3>>
  BY DEF CubeRun
<1>4. CubeRun[3] = <<2, 6, 5>>
  BY DEF CubeRun
<1>5. CubeRun[4] = <<5, 1, 2>>
  BY DEF CubeRun
<1>6. CubeRun[5] = <<1, 5, 7>>
  BY DEF CubeRun
<1>7. CubeRun[6] = <<7, 3, 1>>
  BY DEF CubeRun
<1>8. CubeRun[7] = <<6, 2, 4>>
  BY DEF CubeRun
<1>9. CubeRun[8] = <<4, 8, 6>>
  BY DEF CubeRun
<1>10. CubeRun[9] = <<5, 6, 8>>
  BY DEF CubeRun
<1>11. CubeRun[10] = <<8, 7, 5>>
  BY DEF CubeRun
<1>12. CubeRun[11] = <<2, 1, 3>>
  BY DEF CubeRun
<1>13. CubeRun[12] = <<3, 4, 2>>
  BY DEF CubeRun
<1> QED BY <1>1, <1>2, <1>3, <1>4, <1>5, <1>6, <1>7, <1>8, <1>9, <1>10, <1>11, <1>12,
           <1>13 DEF CubeGoes

(* No two of them go from the same corner to the same corner. *)
LEMMA CubeGoesOnce ==
  ASSUME NEW t \in 1 .. 12, NEW u \in 1 .. 12, NEW c \in 1 .. 3, NEW d \in 1 .. 3,
         CubeGoes(t, c) = CubeGoes(u, d)
  PROVE  t = u /\ c = d
<1> DEFINE Step(s)  == 9 * s[1] + s[2]
           Owner(n) ==
             CASE n = 34 -> <<1, 1>>
               [] n = 71 -> <<1, 2>>
               [] n = 75 -> <<1, 3>>
               [] n = 76 -> <<2, 1>>
               [] n = 39 -> <<2, 2>>
               [] n = 35 -> <<2, 3>>
               [] n = 24 -> <<3, 1>>
               [] n = 59 -> <<3, 2>>
               [] n = 47 -> <<3, 3>>
               [] n = 46 -> <<4, 1>>
               [] n = 11 -> <<4, 2>>
               [] n = 23 -> <<4, 3>>
               [] n = 14 -> <<5, 1>>
               [] n = 52 -> <<5, 2>>
               [] n = 64 -> <<5, 3>>
               [] n = 66 -> <<6, 1>>
               [] n = 28 -> <<6, 2>>
               [] n = 16 -> <<6, 3>>
               [] n = 56 -> <<7, 1>>
               [] n = 22 -> <<7, 2>>
               [] n = 42 -> <<7, 3>>
               [] n = 44 -> <<8, 1>>
               [] n = 78 -> <<8, 2>>
               [] n = 58 -> <<8, 3>>
               [] n = 51 -> <<9, 1>>
               [] n = 62 -> <<9, 2>>
               [] n = 77 -> <<9, 3>>
               [] n = 79 -> <<10, 1>>
               [] n = 68 -> <<10, 2>>
               [] n = 53 -> <<10, 3>>
               [] n = 19 -> <<11, 1>>
               [] n = 12 -> <<11, 2>>
               [] n = 29 -> <<11, 3>>
               [] n = 31 -> <<12, 1>>
               [] n = 38 -> <<12, 2>>
               [] n = 21 -> <<12, 3>>
<1>1. ASSUME NEW p \in 1 .. 12, NEW e \in 1 .. 3
      PROVE  Owner(Step(CubeGoes(p, e))) = <<p, e>>
  <2>1. e = 1 \/ e = 2 \/ e = 3
    BY <1>1
  <2>2. CASE p = 1
    <3>1. Step(CubeGoes(1, 1)) = 34 /\ Step(CubeGoes(1, 2)) = 71 /\ Step(CubeGoes(1, 3)) = 75
      BY CubeGoesAre
    <3>2. Owner(34) = <<1, 1>> /\ Owner(71) = <<1, 2>> /\ Owner(75) = <<1, 3>>
      OBVIOUS
    <3> HIDE DEF Owner, Step
    <3> QED BY <2>1, <2>2, <3>1, <3>2
  <2>3. CASE p = 2
    <3>1. Step(CubeGoes(2, 1)) = 76 /\ Step(CubeGoes(2, 2)) = 39 /\ Step(CubeGoes(2, 3)) = 35
      BY CubeGoesAre
    <3>2. Owner(76) = <<2, 1>> /\ Owner(39) = <<2, 2>> /\ Owner(35) = <<2, 3>>
      OBVIOUS
    <3> HIDE DEF Owner, Step
    <3> QED BY <2>1, <2>3, <3>1, <3>2
  <2>4. CASE p = 3
    <3>1. Step(CubeGoes(3, 1)) = 24 /\ Step(CubeGoes(3, 2)) = 59 /\ Step(CubeGoes(3, 3)) = 47
      BY CubeGoesAre
    <3>2. Owner(24) = <<3, 1>> /\ Owner(59) = <<3, 2>> /\ Owner(47) = <<3, 3>>
      OBVIOUS
    <3> HIDE DEF Owner, Step
    <3> QED BY <2>1, <2>4, <3>1, <3>2
  <2>5. CASE p = 4
    <3>1. Step(CubeGoes(4, 1)) = 46 /\ Step(CubeGoes(4, 2)) = 11 /\ Step(CubeGoes(4, 3)) = 23
      BY CubeGoesAre
    <3>2. Owner(46) = <<4, 1>> /\ Owner(11) = <<4, 2>> /\ Owner(23) = <<4, 3>>
      OBVIOUS
    <3> HIDE DEF Owner, Step
    <3> QED BY <2>1, <2>5, <3>1, <3>2
  <2>6. CASE p = 5
    <3>1. Step(CubeGoes(5, 1)) = 14 /\ Step(CubeGoes(5, 2)) = 52 /\ Step(CubeGoes(5, 3)) = 64
      BY CubeGoesAre
    <3>2. Owner(14) = <<5, 1>> /\ Owner(52) = <<5, 2>> /\ Owner(64) = <<5, 3>>
      OBVIOUS
    <3> HIDE DEF Owner, Step
    <3> QED BY <2>1, <2>6, <3>1, <3>2
  <2>7. CASE p = 6
    <3>1. Step(CubeGoes(6, 1)) = 66 /\ Step(CubeGoes(6, 2)) = 28 /\ Step(CubeGoes(6, 3)) = 16
      BY CubeGoesAre
    <3>2. Owner(66) = <<6, 1>> /\ Owner(28) = <<6, 2>> /\ Owner(16) = <<6, 3>>
      OBVIOUS
    <3> HIDE DEF Owner, Step
    <3> QED BY <2>1, <2>7, <3>1, <3>2
  <2>8. CASE p = 7
    <3>1. Step(CubeGoes(7, 1)) = 56 /\ Step(CubeGoes(7, 2)) = 22 /\ Step(CubeGoes(7, 3)) = 42
      BY CubeGoesAre
    <3>2. Owner(56) = <<7, 1>> /\ Owner(22) = <<7, 2>> /\ Owner(42) = <<7, 3>>
      OBVIOUS
    <3> HIDE DEF Owner, Step
    <3> QED BY <2>1, <2>8, <3>1, <3>2
  <2>9. CASE p = 8
    <3>1. Step(CubeGoes(8, 1)) = 44 /\ Step(CubeGoes(8, 2)) = 78 /\ Step(CubeGoes(8, 3)) = 58
      BY CubeGoesAre
    <3>2. Owner(44) = <<8, 1>> /\ Owner(78) = <<8, 2>> /\ Owner(58) = <<8, 3>>
      OBVIOUS
    <3> HIDE DEF Owner, Step
    <3> QED BY <2>1, <2>9, <3>1, <3>2
  <2>10. CASE p = 9
    <3>1. Step(CubeGoes(9, 1)) = 51 /\ Step(CubeGoes(9, 2)) = 62 /\ Step(CubeGoes(9, 3)) = 77
      BY CubeGoesAre
    <3>2. Owner(51) = <<9, 1>> /\ Owner(62) = <<9, 2>> /\ Owner(77) = <<9, 3>>
      OBVIOUS
    <3> HIDE DEF Owner, Step
    <3> QED BY <2>1, <2>10, <3>1, <3>2
  <2>11. CASE p = 10
    <3>1. Step(CubeGoes(10, 1)) = 79 /\ Step(CubeGoes(10, 2)) = 68 /\ Step(CubeGoes(10, 3)) = 53
      BY CubeGoesAre
    <3>2. Owner(79) = <<10, 1>> /\ Owner(68) = <<10, 2>> /\ Owner(53) = <<10, 3>>
      OBVIOUS
    <3> HIDE DEF Owner, Step
    <3> QED BY <2>1, <2>11, <3>1, <3>2
  <2>12. CASE p = 11
    <3>1. Step(CubeGoes(11, 1)) = 19 /\ Step(CubeGoes(11, 2)) = 12 /\ Step(CubeGoes(11, 3)) = 29
      BY CubeGoesAre
    <3>2. Owner(19) = <<11, 1>> /\ Owner(12) = <<11, 2>> /\ Owner(29) = <<11, 3>>
      OBVIOUS
    <3> HIDE DEF Owner, Step
    <3> QED BY <2>1, <2>12, <3>1, <3>2
  <2>13. CASE p = 12
    <3>1. Step(CubeGoes(12, 1)) = 31 /\ Step(CubeGoes(12, 2)) = 38 /\ Step(CubeGoes(12, 3)) = 21
      BY CubeGoesAre
    <3>2. Owner(31) = <<12, 1>> /\ Owner(38) = <<12, 2>> /\ Owner(21) = <<12, 3>>
      OBVIOUS
    <3> HIDE DEF Owner, Step
    <3> QED BY <2>1, <2>13, <3>1, <3>2
  <2>14. p = 1 \/ p = 2 \/ p = 3 \/ p = 4 \/ p = 5 \/ p = 6 \/ p = 7
         \/ p = 8 \/ p = 9 \/ p = 10 \/ p = 11 \/ p = 12
    BY <1>1
  <2> HIDE DEF Owner, Step
  <2> QED BY <2>2, <2>3, <2>4, <2>5, <2>6, <2>7, <2>8, <2>9, <2>10, <2>11, <2>12, <2>13, <2>14
<1> HIDE DEF Owner, Step
<1>2. <<t, c>> = <<u, d>>
  BY <1>1
<1> QED BY <1>2

(* Every one has its way back. *)
LEMMA CubeGoesBack ==
  ASSUME NEW t \in 1 .. 12, NEW c \in 1 .. 3
  PROVE  \E u \in 1 .. 12, d \in 1 .. 3 :
           CubeGoes(u, d) = <<CubeGoes(t, c)[2], CubeGoes(t, c)[1]>>
<1> DEFINE Back(p, e) == <<CubeGoes(p, e)[2], CubeGoes(p, e)[1]>>
<1>1. c = 1 \/ c = 2 \/ c = 3
  OBVIOUS
<1>2. CASE t = 1
  <2>1. /\ CubeGoes(6, 1) = Back(1, 1)
        /\ CubeGoes(10, 1) = Back(1, 2)
        /\ CubeGoes(2, 3) = Back(1, 3)
    BY CubeGoesAre
  <2> HIDE DEF Back
  <2>2. \E u \in 1 .. 12, d \in 1 .. 3 : CubeGoes(u, d) = Back(t, c)
    BY <1>1, <1>2, <2>1
  <2> QED BY <2>2 DEF Back
<1>3. CASE t = 2
  <2>1. /\ CubeGoes(8, 1) = Back(2, 1)
        /\ CubeGoes(12, 1) = Back(2, 2)
        /\ CubeGoes(1, 3) = Back(2, 3)
    BY CubeGoesAre
  <2> HIDE DEF Back
  <2>2. \E u \in 1 .. 12, d \in 1 .. 3 : CubeGoes(u, d) = Back(t, c)
    BY <1>1, <1>3, <2>1
  <2> QED BY <2>2 DEF Back
<1>4. CASE t = 3
  <2>1. /\ CubeGoes(7, 1) = Back(3, 1)
        /\ CubeGoes(9, 1) = Back(3, 2)
        /\ CubeGoes(4, 3) = Back(3, 3)
    BY CubeGoesAre
  <2> HIDE DEF Back
  <2>2. \E u \in 1 .. 12, d \in 1 .. 3 : CubeGoes(u, d) = Back(t, c)
    BY <1>1, <1>4, <2>1
  <2> QED BY <2>2 DEF Back
<1>5. CASE t = 4
  <2>1. /\ CubeGoes(5, 1) = Back(4, 1)
        /\ CubeGoes(11, 1) = Back(4, 2)
        /\ CubeGoes(3, 3) = Back(4, 3)
    BY CubeGoesAre
  <2> HIDE DEF Back
  <2>2. \E u \in 1 .. 12, d \in 1 .. 3 : CubeGoes(u, d) = Back(t, c)
    BY <1>1, <1>5, <2>1
  <2> QED BY <2>2 DEF Back
<1>6. CASE t = 5
  <2>1. /\ CubeGoes(4, 1) = Back(5, 1)
        /\ CubeGoes(10, 2) = Back(5, 2)
        /\ CubeGoes(6, 3) = Back(5, 3)
    BY CubeGoesAre
  <2> HIDE DEF Back
  <2>2. \E u \in 1 .. 12, d \in 1 .. 3 : CubeGoes(u, d) = Back(t, c)
    BY <1>1, <1>6, <2>1
  <2> QED BY <2>2 DEF Back
<1>7. CASE t = 6
  <2>1. /\ CubeGoes(1, 1) = Back(6, 1)
        /\ CubeGoes(11, 2) = Back(6, 2)
        /\ CubeGoes(5, 3) = Back(6, 3)
    BY CubeGoesAre
  <2> HIDE DEF Back
  <2>2. \E u \in 1 .. 12, d \in 1 .. 3 : CubeGoes(u, d) = Back(t, c)
    BY <1>1, <1>7, <2>1
  <2> QED BY <2>2 DEF Back
<1>8. CASE t = 7
  <2>1. /\ CubeGoes(3, 1) = Back(7, 1)
        /\ CubeGoes(12, 2) = Back(7, 2)
        /\ CubeGoes(8, 3) = Back(7, 3)
    BY CubeGoesAre
  <2> HIDE DEF Back
  <2>2. \E u \in 1 .. 12, d \in 1 .. 3 : CubeGoes(u, d) = Back(t, c)
    BY <1>1, <1>8, <2>1
  <2> QED BY <2>2 DEF Back
<1>9. CASE t = 8
  <2>1. /\ CubeGoes(2, 1) = Back(8, 1)
        /\ CubeGoes(9, 2) = Back(8, 2)
        /\ CubeGoes(7, 3) = Back(8, 3)
    BY CubeGoesAre
  <2> HIDE DEF Back
  <2>2. \E u \in 1 .. 12, d \in 1 .. 3 : CubeGoes(u, d) = Back(t, c)
    BY <1>1, <1>9, <2>1
  <2> QED BY <2>2 DEF Back
<1>10. CASE t = 9
  <2>1. /\ CubeGoes(3, 2) = Back(9, 1)
        /\ CubeGoes(8, 2) = Back(9, 2)
        /\ CubeGoes(10, 3) = Back(9, 3)
    BY CubeGoesAre
  <2> HIDE DEF Back
  <2>2. \E u \in 1 .. 12, d \in 1 .. 3 : CubeGoes(u, d) = Back(t, c)
    BY <1>1, <1>10, <2>1
  <2> QED BY <2>2 DEF Back
<1>11. CASE t = 10
  <2>1. /\ CubeGoes(1, 2) = Back(10, 1)
        /\ CubeGoes(5, 2) = Back(10, 2)
        /\ CubeGoes(9, 3) = Back(10, 3)
    BY CubeGoesAre
  <2> HIDE DEF Back
  <2>2. \E u \in 1 .. 12, d \in 1 .. 3 : CubeGoes(u, d) = Back(t, c)
    BY <1>1, <1>11, <2>1
  <2> QED BY <2>2 DEF Back
<1>12. CASE t = 11
  <2>1. /\ CubeGoes(4, 2) = Back(11, 1)
        /\ CubeGoes(6, 2) = Back(11, 2)
        /\ CubeGoes(12, 3) = Back(11, 3)
    BY CubeGoesAre
  <2> HIDE DEF Back
  <2>2. \E u \in 1 .. 12, d \in 1 .. 3 : CubeGoes(u, d) = Back(t, c)
    BY <1>1, <1>12, <2>1
  <2> QED BY <2>2 DEF Back
<1>13. CASE t = 12
  <2>1. /\ CubeGoes(2, 2) = Back(12, 1)
        /\ CubeGoes(7, 2) = Back(12, 2)
        /\ CubeGoes(11, 3) = Back(12, 3)
    BY CubeGoesAre
  <2> HIDE DEF Back
  <2>2. \E u \in 1 .. 12, d \in 1 .. 3 : CubeGoes(u, d) = Back(t, c)
    BY <1>1, <1>13, <2>1
  <2> QED BY <2>2 DEF Back
<1>14. t = 1 \/ t = 2 \/ t = 3 \/ t = 4 \/ t = 5 \/ t = 6 \/ t = 7
       \/ t = 8 \/ t = 9 \/ t = 10 \/ t = 11 \/ t = 12
  OBVIOUS
<1> QED BY <1>2, <1>3, <1>4, <1>5, <1>6, <1>7, <1>8, <1>9, <1>10, <1>11, <1>12, <1>13, <1>14

(* Corners of different numbers are at different places. *)
LEMMA CubeCornersDiffer ==
  ASSUME NEW k \in 1 .. 8, NEW l \in 1 .. 8, CubeCorner(k) = CubeCorner(l)
  PROVE  k = l
<1> DEFINE N(p) == 4 * p.x + 2 * p.y + p.z
<1>1. /\ N(CubeCorner(1)) = -7
      /\ N(CubeCorner(2)) = -5
      /\ N(CubeCorner(3)) = -3
      /\ N(CubeCorner(4)) = -1
      /\ N(CubeCorner(5)) = 1
      /\ N(CubeCorner(6)) = 3
      /\ N(CubeCorner(7)) = 5
      /\ N(CubeCorner(8)) = 7
  BY DEF CubeCorner, Shapes!Point
<1>2. k = 1 \/ k = 2 \/ k = 3 \/ k = 4 \/ k = 5 \/ k = 6 \/ k = 7 \/ k = 8
  OBVIOUS
<1>3. l = 1 \/ l = 2 \/ l = 3 \/ l = 4 \/ l = 5 \/ l = 6 \/ l = 7 \/ l = 8
  OBVIOUS
<1>4. N(CubeCorner(k)) = N(CubeCorner(l))
  OBVIOUS
<1> HIDE DEF N
<1> QED BY <1>1, <1>2, <1>3, <1>4

(* A function on the first n numbers is a sequence of n. *)
LEMMA MapIsSeq ==
  ASSUME NEW S, NEW n \in Nat, NEW f \in [1 .. n -> S]
  PROVE  f \in Seq(S) /\ Len(f) = n
<1>1. f \in Seq(S)
  BY SeqDef
<1>2. Len(f) \in Nat /\ DOMAIN f = 1 .. Len(f) /\ DOMAIN f = 1 .. n
  BY <1>1, LenProperties
<1> QED BY <1>1, <1>2

(* Where a cube's triangles have their corners. *)
LEMMA CubeRunsThere ==
  ASSUME NEW t \in 1 .. 12, NEW c \in 1 .. 3
  PROVE  /\ CubeRun[t][c] \in 1 .. 8
         /\ Shapes!CubeTriangles[t][c] \in 0 .. 23
         /\ Shapes!CubePositions[Shapes!CubeTriangles[t][c] + 1] = CubeCorner(CubeRun[t][c])
<1>1. c = 1 \/ c = 2 \/ c = 3
  OBVIOUS
<1>2. CASE t = 1
  <2>1. CubeRun[1] = <<3, 7, 8>>
    BY DEF CubeRun
  <2>2. Shapes!CubeTriangles[1] = <<0, 1, 2>>
    BY CubeTrianglesAre
  <2> QED BY <1>1, <1>2, <2>1, <2>2, CubePositionsAre
<1>3. CASE t = 2
  <2>1. CubeRun[2] = <<8, 4, 3>>
    BY DEF CubeRun
  <2>2. Shapes!CubeTriangles[2] = <<2, 3, 0>>
    BY CubeTrianglesAre
  <2> QED BY <1>1, <1>3, <2>1, <2>2, CubePositionsAre
<1>4. CASE t = 3
  <2>1. CubeRun[3] = <<2, 6, 5>>
    BY DEF CubeRun
  <2>2. Shapes!CubeTriangles[3] = <<4, 5, 6>>
    BY CubeTrianglesAre
  <2> QED BY <1>1, <1>4, <2>1, <2>2, CubePositionsAre
<1>5. CASE t = 4
  <2>1. CubeRun[4] = <<5, 1, 2>>
    BY DEF CubeRun
  <2>2. Shapes!CubeTriangles[4] = <<6, 7, 4>>
    BY CubeTrianglesAre
  <2> QED BY <1>1, <1>5, <2>1, <2>2, CubePositionsAre
<1>6. CASE t = 5
  <2>1. CubeRun[5] = <<1, 5, 7>>
    BY DEF CubeRun
  <2>2. Shapes!CubeTriangles[5] = <<8, 9, 10>>
    BY CubeTrianglesAre
  <2> QED BY <1>1, <1>6, <2>1, <2>2, CubePositionsAre
<1>7. CASE t = 6
  <2>1. CubeRun[6] = <<7, 3, 1>>
    BY DEF CubeRun
  <2>2. Shapes!CubeTriangles[6] = <<10, 11, 8>>
    BY CubeTrianglesAre
  <2> QED BY <1>1, <1>7, <2>1, <2>2, CubePositionsAre
<1>8. CASE t = 7
  <2>1. CubeRun[7] = <<6, 2, 4>>
    BY DEF CubeRun
  <2>2. Shapes!CubeTriangles[7] = <<12, 13, 14>>
    BY CubeTrianglesAre
  <2> QED BY <1>1, <1>8, <2>1, <2>2, CubePositionsAre
<1>9. CASE t = 8
  <2>1. CubeRun[8] = <<4, 8, 6>>
    BY DEF CubeRun
  <2>2. Shapes!CubeTriangles[8] = <<14, 15, 12>>
    BY CubeTrianglesAre
  <2> QED BY <1>1, <1>9, <2>1, <2>2, CubePositionsAre
<1>10. CASE t = 9
  <2>1. CubeRun[9] = <<5, 6, 8>>
    BY DEF CubeRun
  <2>2. Shapes!CubeTriangles[9] = <<16, 17, 18>>
    BY CubeTrianglesAre
  <2> QED BY <1>1, <1>10, <2>1, <2>2, CubePositionsAre
<1>11. CASE t = 10
  <2>1. CubeRun[10] = <<8, 7, 5>>
    BY DEF CubeRun
  <2>2. Shapes!CubeTriangles[10] = <<18, 19, 16>>
    BY CubeTrianglesAre
  <2> QED BY <1>1, <1>11, <2>1, <2>2, CubePositionsAre
<1>12. CASE t = 11
  <2>1. CubeRun[11] = <<2, 1, 3>>
    BY DEF CubeRun
  <2>2. Shapes!CubeTriangles[11] = <<20, 21, 22>>
    BY CubeTrianglesAre
  <2> QED BY <1>1, <1>12, <2>1, <2>2, CubePositionsAre
<1>13. CASE t = 12
  <2>1. CubeRun[12] = <<3, 4, 2>>
    BY DEF CubeRun
  <2>2. Shapes!CubeTriangles[12] = <<22, 23, 20>>
    BY CubeTrianglesAre
  <2> QED BY <1>1, <1>13, <2>1, <2>2, CubePositionsAre
<1>14. t = 1 \/ t = 2 \/ t = 3 \/ t = 4 \/ t = 5 \/ t = 6 \/ t = 7
       \/ t = 8 \/ t = 9 \/ t = 10 \/ t = 11 \/ t = 12
  OBVIOUS
<1> QED BY <1>2, <1>3, <1>4, <1>5, <1>6, <1>7, <1>8, <1>9, <1>10, <1>11, <1>12, <1>13, <1>14

(* Where the sides of a cube's triangles go. *)
LEMMA CubeSides ==
  ASSUME NEW t \in 1 .. 12, NEW c \in 1 .. 3
  PROVE  /\ CubeGoes(t, c)[1] \in 1 .. 8 /\ CubeGoes(t, c)[2] \in 1 .. 8
         /\ SideAt(Shapes!CubePositions, Shapes!CubeTriangles, t, c) =
              <<CubeCorner(CubeGoes(t, c)[1]), CubeCorner(CubeGoes(t, c)[2])>>
<1>1. PICK d \in 1 .. 3 : d = (c % 3) + 1
  <2>1. c = 1 \/ c = 2 \/ c = 3
    OBVIOUS
  <2> QED BY <2>1
<1>2. /\ CubeGoes(t, c)[1] = CubeRun[t][c] /\ CubeGoes(t, c)[2] = CubeRun[t][d]
      /\ SideAt(Shapes!CubePositions, Shapes!CubeTriangles, t, c) =
           <<Shapes!CubePositions[Shapes!CubeTriangles[t][c] + 1],
             Shapes!CubePositions[Shapes!CubeTriangles[t][d] + 1]>>
  BY <1>1 DEF CubeGoes, SideAt
<1> QED BY <1>2, CubeRunsThere

(* A cube has twelve triangles. *)
LEMMA CubeHasTwelve == Len(Shapes!CubeTriangles) = 12
<1>1. Shapes!CubeTriangles \in Seq(Range(Shapes!CubeTriangles))
  <2>1. Shapes!CubeTriangles \in [1 .. 12 -> Range(Shapes!CubeTriangles)]
    BY DEF Shapes!CubeTriangles, Range
  <2>2. 12 \in Nat
    OBVIOUS
  <2> QED BY <2>1, <2>2, SeqDef
<1>2. DOMAIN Shapes!CubeTriangles = 1 .. 12
  BY DEF Shapes!CubeTriangles
<1>3. PICK n \in Nat : n = Len(Shapes!CubeTriangles) /\ DOMAIN Shapes!CubeTriangles = 1 .. n
  BY <1>1, LenProperties
<1> QED BY <1>2, <1>3

(* A cube is closed. *)
LEMMA CubeWatertight ==
  /\ SidesOnce(Shapes!CubePositions, Shapes!CubeTriangles)
  /\ \A t \in 1 .. 12, c \in 1 .. 3 :
       HasWayBack(Shapes!CubePositions, Shapes!CubeTriangles,
                  SideAt(Shapes!CubePositions, Shapes!CubeTriangles, t, c))
<1> DEFINE S(t, c) == SideAt(Shapes!CubePositions, Shapes!CubeTriangles, t, c)
<1>1. \A t \in 1 .. 12, c \in 1 .. 3 :
        /\ CubeGoes(t, c)[1] \in 1 .. 8 /\ CubeGoes(t, c)[2] \in 1 .. 8
        /\ S(t, c) = <<CubeCorner(CubeGoes(t, c)[1]), CubeCorner(CubeGoes(t, c)[2])>>
  BY CubeSides
<1>2. \A t, c : CubeGoes(t, c) = <<CubeGoes(t, c)[1], CubeGoes(t, c)[2]>>
  BY DEF CubeGoes
<1> HIDE DEF S
<1>3. ASSUME NEW t \in 1 .. 12, NEW u \in 1 .. 12, NEW c \in 1 .. 3, NEW d \in 1 .. 3,
             S(t, c) = S(u, d)
      PROVE  t = u /\ c = d
  <2>1. /\ CubeCorner(CubeGoes(t, c)[1]) = CubeCorner(CubeGoes(u, d)[1])
        /\ CubeCorner(CubeGoes(t, c)[2]) = CubeCorner(CubeGoes(u, d)[2])
    <3>1. S(t, c) = <<CubeCorner(CubeGoes(t, c)[1]), CubeCorner(CubeGoes(t, c)[2])>>
      BY <1>1
    <3>2. S(u, d) = <<CubeCorner(CubeGoes(u, d)[1]), CubeCorner(CubeGoes(u, d)[2])>>
      BY <1>1
    <3>3. /\ S(t, c)[1] = CubeCorner(CubeGoes(t, c)[1])
          /\ S(t, c)[2] = CubeCorner(CubeGoes(t, c)[2])
      BY <3>1
    <3>4. /\ S(u, d)[1] = CubeCorner(CubeGoes(u, d)[1])
          /\ S(u, d)[2] = CubeCorner(CubeGoes(u, d)[2])
      BY <3>2
    <3> QED BY <1>3, <3>3, <3>4
  <2>2. CubeGoes(t, c)[1] = CubeGoes(u, d)[1] /\ CubeGoes(t, c)[2] = CubeGoes(u, d)[2]
    BY <1>1, <2>1, CubeCornersDiffer
  <2>3. CubeGoes(t, c) = CubeGoes(u, d)
    BY <1>2, <2>2
  <2> QED BY <2>3, CubeGoesOnce
<1>4. ASSUME NEW t \in 1 .. 12, NEW c \in 1 .. 3
      PROVE  \E u \in 1 .. 12, d \in 1 .. 3 : S(u, d) = <<S(t, c)[2], S(t, c)[1]>>
  <2>1. PICK u \in 1 .. 12, d \in 1 .. 3 :
               CubeGoes(u, d) = <<CubeGoes(t, c)[2], CubeGoes(t, c)[1]>>
    BY CubeGoesBack
  <2>2. S(u, d) = <<CubeCorner(CubeGoes(t, c)[2]), CubeCorner(CubeGoes(t, c)[1])>>
    BY <1>1, <2>1
  <2>3. S(t, c)[1] = CubeCorner(CubeGoes(t, c)[1]) /\ S(t, c)[2] = CubeCorner(CubeGoes(t, c)[2])
    BY <1>1
  <2> QED BY <2>2, <2>3
<1>5. Len(Shapes!CubeTriangles) = 12
  BY CubeHasTwelve
<1>6. PICK ps, ts : ps = Shapes!CubePositions /\ ts = Shapes!CubeTriangles
  OBVIOUS
<1>7. \A t, c : S(t, c) = SideAt(ps, ts, t, c)
  BY <1>6 DEF S
<1>8. SidesOnce(ps, ts)
  <2>1. \A t, u \in 1 .. 12, c, d \in 1 .. 3 :
          SideAt(ps, ts, t, c) = SideAt(ps, ts, u, d) => t = u /\ c = d
    BY <1>3, <1>7
  <2>2. Len(ts) = 12
    BY <1>5, <1>6
  <2> QED BY <2>1, <2>2 DEF SidesOnce
<1>9. ASSUME NEW t \in 1 .. 12, NEW c \in 1 .. 3
      PROVE  HasWayBack(ps, ts, SideAt(ps, ts, t, c))
  <2>1. PICK u \in 1 .. 12, d \in 1 .. 3 : S(u, d) = <<S(t, c)[2], S(t, c)[1]>>
    BY <1>4
  <2>2. PICK side : side = SideAt(ps, ts, t, c)
    OBVIOUS
  <2>3. SideAt(ps, ts, u, d) = <<side[2], side[1]>>
    BY <1>7, <2>1, <2>2
  <2>4. u \in 1 .. Len(ts)
    BY <1>5, <1>6
  <2>5. HasWayBack(ps, ts, side)
    BY <2>3, <2>4 DEF HasWayBack
  <2> QED BY <2>2, <2>5
<1> QED BY <1>6, <1>8, <1>9

(* How a triangle through p, q and r lies to the normal n.                   *)
FacingOf(p, q, r, n) == Shapes!Dot(Shapes!Cross(Shapes!Minus(q, p), Shapes!Minus(r, p)), n)

(* The triangles of a grid lie along the normal. *)
LEMMA PlaneFaces ==
  ASSUME NEW i \in Nat, NEW j \in Nat
  PROVE  /\ FacingOf(Vertex(i, j), Vertex(i, j + 1), Vertex(i + 1, j + 1),
                     Shapes!Point(0, 1, 0)) = 1
         /\ FacingOf(Vertex(i + 1, j + 1), Vertex(i + 1, j), Vertex(i, j),
                     Shapes!Point(0, 1, 0)) = 1
<1>1. /\ Shapes!Minus(Vertex(i, j + 1), Vertex(i, j)) = Shapes!Point(0, 0, 1)
      /\ Shapes!Minus(Vertex(i + 1, j + 1), Vertex(i, j)) = Shapes!Point(1, 0, 1)
      /\ Shapes!Minus(Vertex(i + 1, j), Vertex(i + 1, j + 1)) = Shapes!Point(0, 0, -1)
      /\ Shapes!Minus(Vertex(i, j), Vertex(i + 1, j + 1)) = Shapes!Point(-1, 0, -1)
  BY DEF Shapes!Minus, Vertex, Shapes!Point
<1>2. /\ Shapes!Cross(Shapes!Point(0, 0, 1), Shapes!Point(1, 0, 1)) = Shapes!Point(0, 1, 0)
      /\ Shapes!Cross(Shapes!Point(0, 0, -1), Shapes!Point(-1, 0, -1)) = Shapes!Point(0, 1, 0)
  BY DEF Shapes!Cross, Shapes!Point
<1>3. Shapes!Dot(Shapes!Point(0, 1, 0), Shapes!Point(0, 1, 0)) = 1
  BY DEF Shapes!Dot, Shapes!Point
<1> QED BY <1>1, <1>2, <1>3 DEF FacingOf

(* The triangles of a cube lie against it. *)
LEMMA CubeFaces ==
  ASSUME NEW t \in 1 .. 12
  PROVE  FacingOf(CubeCorner(CubeRun[t][1]), CubeCorner(CubeRun[t][2]), CubeCorner(CubeRun[t][3]),
                  Shapes!CubeNormals[Shapes!CubeTriangles[t][1] + 1]) < 0
<1>1. CASE t = 1
  <2>1. CubeRun[1] = <<3, 7, 8>>
    BY DEF CubeRun
  <2>2. Shapes!CubeTriangles[1] = <<0, 1, 2>>
    BY CubeTrianglesAre
  <2>3. Shapes!CubeNormals[1] = Shapes!Point(0, 1, 0)
    BY DEF Shapes!CubeNormals
  <2>4. /\ CubeCorner(3) = Shapes!Point(-1, 1, -1) /\ CubeCorner(7) = Shapes!Point(1, 1, -1)
        /\ CubeCorner(8) = Shapes!Point(1, 1, 1)
    BY DEF CubeCorner
  <2>5. /\ Shapes!Minus(Shapes!Point(1, 1, -1), Shapes!Point(-1, 1, -1)) = Shapes!Point(2, 0, 0)
        /\ Shapes!Minus(Shapes!Point(1, 1, 1), Shapes!Point(-1, 1, -1)) = Shapes!Point(2, 0, 2)
    BY DEF Shapes!Minus, Shapes!Point
  <2>6. Shapes!Cross(Shapes!Point(2, 0, 0), Shapes!Point(2, 0, 2)) = Shapes!Point(0, -4, 0)
    BY DEF Shapes!Cross, Shapes!Point
  <2>7. Shapes!Dot(Shapes!Point(0, -4, 0), Shapes!Point(0, 1, 0)) = -4
    BY DEF Shapes!Dot, Shapes!Point
  <2> QED BY <1>1, <2>1, <2>2, <2>3, <2>4, <2>5, <2>6, <2>7 DEF FacingOf
<1>2. CASE t = 2
  <2>1. CubeRun[2] = <<8, 4, 3>>
    BY DEF CubeRun
  <2>2. Shapes!CubeTriangles[2] = <<2, 3, 0>>
    BY CubeTrianglesAre
  <2>3. Shapes!CubeNormals[3] = Shapes!Point(0, 1, 0)
    BY DEF Shapes!CubeNormals
  <2>4. /\ CubeCorner(8) = Shapes!Point(1, 1, 1) /\ CubeCorner(4) = Shapes!Point(-1, 1, 1)
        /\ CubeCorner(3) = Shapes!Point(-1, 1, -1)
    BY DEF CubeCorner
  <2>5. /\ Shapes!Minus(Shapes!Point(-1, 1, 1), Shapes!Point(1, 1, 1)) = Shapes!Point(-2, 0, 0)
        /\ Shapes!Minus(Shapes!Point(-1, 1, -1), Shapes!Point(1, 1, 1)) = Shapes!Point(-2, 0, -2)
    BY DEF Shapes!Minus, Shapes!Point
  <2>6. Shapes!Cross(Shapes!Point(-2, 0, 0), Shapes!Point(-2, 0, -2)) = Shapes!Point(0, -4, 0)
    BY DEF Shapes!Cross, Shapes!Point
  <2>7. Shapes!Dot(Shapes!Point(0, -4, 0), Shapes!Point(0, 1, 0)) = -4
    BY DEF Shapes!Dot, Shapes!Point
  <2> QED BY <1>2, <2>1, <2>2, <2>3, <2>4, <2>5, <2>6, <2>7 DEF FacingOf
<1>3. CASE t = 3
  <2>1. CubeRun[3] = <<2, 6, 5>>
    BY DEF CubeRun
  <2>2. Shapes!CubeTriangles[3] = <<4, 5, 6>>
    BY CubeTrianglesAre
  <2>3. Shapes!CubeNormals[5] = Shapes!Point(0, -1, 0)
    BY DEF Shapes!CubeNormals
  <2>4. /\ CubeCorner(2) = Shapes!Point(-1, -1, 1) /\ CubeCorner(6) = Shapes!Point(1, -1, 1)
        /\ CubeCorner(5) = Shapes!Point(1, -1, -1)
    BY DEF CubeCorner
  <2>5. /\ Shapes!Minus(Shapes!Point(1, -1, 1), Shapes!Point(-1, -1, 1)) = Shapes!Point(2, 0, 0)
        /\ Shapes!Minus(Shapes!Point(1, -1, -1), Shapes!Point(-1, -1, 1)) = Shapes!Point(2, 0, -2)
    BY DEF Shapes!Minus, Shapes!Point
  <2>6. Shapes!Cross(Shapes!Point(2, 0, 0), Shapes!Point(2, 0, -2)) = Shapes!Point(0, 4, 0)
    BY DEF Shapes!Cross, Shapes!Point
  <2>7. Shapes!Dot(Shapes!Point(0, 4, 0), Shapes!Point(0, -1, 0)) = -4
    BY DEF Shapes!Dot, Shapes!Point
  <2> QED BY <1>3, <2>1, <2>2, <2>3, <2>4, <2>5, <2>6, <2>7 DEF FacingOf
<1>4. CASE t = 4
  <2>1. CubeRun[4] = <<5, 1, 2>>
    BY DEF CubeRun
  <2>2. Shapes!CubeTriangles[4] = <<6, 7, 4>>
    BY CubeTrianglesAre
  <2>3. Shapes!CubeNormals[7] = Shapes!Point(0, -1, 0)
    BY DEF Shapes!CubeNormals
  <2>4. /\ CubeCorner(5) = Shapes!Point(1, -1, -1) /\ CubeCorner(1) = Shapes!Point(-1, -1, -1)
        /\ CubeCorner(2) = Shapes!Point(-1, -1, 1)
    BY DEF CubeCorner
  <2>5. /\ Shapes!Minus(Shapes!Point(-1, -1, -1), Shapes!Point(1, -1, -1)) = Shapes!Point(-2, 0, 0)
        /\ Shapes!Minus(Shapes!Point(-1, -1, 1), Shapes!Point(1, -1, -1)) = Shapes!Point(-2, 0, 2)
    BY DEF Shapes!Minus, Shapes!Point
  <2>6. Shapes!Cross(Shapes!Point(-2, 0, 0), Shapes!Point(-2, 0, 2)) = Shapes!Point(0, 4, 0)
    BY DEF Shapes!Cross, Shapes!Point
  <2>7. Shapes!Dot(Shapes!Point(0, 4, 0), Shapes!Point(0, -1, 0)) = -4
    BY DEF Shapes!Dot, Shapes!Point
  <2> QED BY <1>4, <2>1, <2>2, <2>3, <2>4, <2>5, <2>6, <2>7 DEF FacingOf
<1>5. CASE t = 5
  <2>1. CubeRun[5] = <<1, 5, 7>>
    BY DEF CubeRun
  <2>2. Shapes!CubeTriangles[5] = <<8, 9, 10>>
    BY CubeTrianglesAre
  <2>3. Shapes!CubeNormals[9] = Shapes!Point(0, 0, -1)
    BY DEF Shapes!CubeNormals
  <2>4. /\ CubeCorner(1) = Shapes!Point(-1, -1, -1) /\ CubeCorner(5) = Shapes!Point(1, -1, -1)
        /\ CubeCorner(7) = Shapes!Point(1, 1, -1)
    BY DEF CubeCorner
  <2>5. /\ Shapes!Minus(Shapes!Point(1, -1, -1), Shapes!Point(-1, -1, -1)) = Shapes!Point(2, 0, 0)
        /\ Shapes!Minus(Shapes!Point(1, 1, -1), Shapes!Point(-1, -1, -1)) = Shapes!Point(2, 2, 0)
    BY DEF Shapes!Minus, Shapes!Point
  <2>6. Shapes!Cross(Shapes!Point(2, 0, 0), Shapes!Point(2, 2, 0)) = Shapes!Point(0, 0, 4)
    BY DEF Shapes!Cross, Shapes!Point
  <2>7. Shapes!Dot(Shapes!Point(0, 0, 4), Shapes!Point(0, 0, -1)) = -4
    BY DEF Shapes!Dot, Shapes!Point
  <2> QED BY <1>5, <2>1, <2>2, <2>3, <2>4, <2>5, <2>6, <2>7 DEF FacingOf
<1>6. CASE t = 6
  <2>1. CubeRun[6] = <<7, 3, 1>>
    BY DEF CubeRun
  <2>2. Shapes!CubeTriangles[6] = <<10, 11, 8>>
    BY CubeTrianglesAre
  <2>3. Shapes!CubeNormals[11] = Shapes!Point(0, 0, -1)
    BY DEF Shapes!CubeNormals
  <2>4. /\ CubeCorner(7) = Shapes!Point(1, 1, -1) /\ CubeCorner(3) = Shapes!Point(-1, 1, -1)
        /\ CubeCorner(1) = Shapes!Point(-1, -1, -1)
    BY DEF CubeCorner
  <2>5. /\ Shapes!Minus(Shapes!Point(-1, 1, -1), Shapes!Point(1, 1, -1)) = Shapes!Point(-2, 0, 0)
        /\ Shapes!Minus(Shapes!Point(-1, -1, -1), Shapes!Point(1, 1, -1)) = Shapes!Point(-2, -2, 0)
    BY DEF Shapes!Minus, Shapes!Point
  <2>6. Shapes!Cross(Shapes!Point(-2, 0, 0), Shapes!Point(-2, -2, 0)) = Shapes!Point(0, 0, 4)
    BY DEF Shapes!Cross, Shapes!Point
  <2>7. Shapes!Dot(Shapes!Point(0, 0, 4), Shapes!Point(0, 0, -1)) = -4
    BY DEF Shapes!Dot, Shapes!Point
  <2> QED BY <1>6, <2>1, <2>2, <2>3, <2>4, <2>5, <2>6, <2>7 DEF FacingOf
<1>7. CASE t = 7
  <2>1. CubeRun[7] = <<6, 2, 4>>
    BY DEF CubeRun
  <2>2. Shapes!CubeTriangles[7] = <<12, 13, 14>>
    BY CubeTrianglesAre
  <2>3. Shapes!CubeNormals[13] = Shapes!Point(0, 0, 1)
    BY DEF Shapes!CubeNormals
  <2>4. /\ CubeCorner(6) = Shapes!Point(1, -1, 1) /\ CubeCorner(2) = Shapes!Point(-1, -1, 1)
        /\ CubeCorner(4) = Shapes!Point(-1, 1, 1)
    BY DEF CubeCorner
  <2>5. /\ Shapes!Minus(Shapes!Point(-1, -1, 1), Shapes!Point(1, -1, 1)) = Shapes!Point(-2, 0, 0)
        /\ Shapes!Minus(Shapes!Point(-1, 1, 1), Shapes!Point(1, -1, 1)) = Shapes!Point(-2, 2, 0)
    BY DEF Shapes!Minus, Shapes!Point
  <2>6. Shapes!Cross(Shapes!Point(-2, 0, 0), Shapes!Point(-2, 2, 0)) = Shapes!Point(0, 0, -4)
    BY DEF Shapes!Cross, Shapes!Point
  <2>7. Shapes!Dot(Shapes!Point(0, 0, -4), Shapes!Point(0, 0, 1)) = -4
    BY DEF Shapes!Dot, Shapes!Point
  <2> QED BY <1>7, <2>1, <2>2, <2>3, <2>4, <2>5, <2>6, <2>7 DEF FacingOf
<1>8. CASE t = 8
  <2>1. CubeRun[8] = <<4, 8, 6>>
    BY DEF CubeRun
  <2>2. Shapes!CubeTriangles[8] = <<14, 15, 12>>
    BY CubeTrianglesAre
  <2>3. Shapes!CubeNormals[15] = Shapes!Point(0, 0, 1)
    BY DEF Shapes!CubeNormals
  <2>4. /\ CubeCorner(4) = Shapes!Point(-1, 1, 1) /\ CubeCorner(8) = Shapes!Point(1, 1, 1)
        /\ CubeCorner(6) = Shapes!Point(1, -1, 1)
    BY DEF CubeCorner
  <2>5. /\ Shapes!Minus(Shapes!Point(1, 1, 1), Shapes!Point(-1, 1, 1)) = Shapes!Point(2, 0, 0)
        /\ Shapes!Minus(Shapes!Point(1, -1, 1), Shapes!Point(-1, 1, 1)) = Shapes!Point(2, -2, 0)
    BY DEF Shapes!Minus, Shapes!Point
  <2>6. Shapes!Cross(Shapes!Point(2, 0, 0), Shapes!Point(2, -2, 0)) = Shapes!Point(0, 0, -4)
    BY DEF Shapes!Cross, Shapes!Point
  <2>7. Shapes!Dot(Shapes!Point(0, 0, -4), Shapes!Point(0, 0, 1)) = -4
    BY DEF Shapes!Dot, Shapes!Point
  <2> QED BY <1>8, <2>1, <2>2, <2>3, <2>4, <2>5, <2>6, <2>7 DEF FacingOf
<1>9. CASE t = 9
  <2>1. CubeRun[9] = <<5, 6, 8>>
    BY DEF CubeRun
  <2>2. Shapes!CubeTriangles[9] = <<16, 17, 18>>
    BY CubeTrianglesAre
  <2>3. Shapes!CubeNormals[17] = Shapes!Point(1, 0, 0)
    BY DEF Shapes!CubeNormals
  <2>4. /\ CubeCorner(5) = Shapes!Point(1, -1, -1) /\ CubeCorner(6) = Shapes!Point(1, -1, 1)
        /\ CubeCorner(8) = Shapes!Point(1, 1, 1)
    BY DEF CubeCorner
  <2>5. /\ Shapes!Minus(Shapes!Point(1, -1, 1), Shapes!Point(1, -1, -1)) = Shapes!Point(0, 0, 2)
        /\ Shapes!Minus(Shapes!Point(1, 1, 1), Shapes!Point(1, -1, -1)) = Shapes!Point(0, 2, 2)
    BY DEF Shapes!Minus, Shapes!Point
  <2>6. Shapes!Cross(Shapes!Point(0, 0, 2), Shapes!Point(0, 2, 2)) = Shapes!Point(-4, 0, 0)
    BY DEF Shapes!Cross, Shapes!Point
  <2>7. Shapes!Dot(Shapes!Point(-4, 0, 0), Shapes!Point(1, 0, 0)) = -4
    BY DEF Shapes!Dot, Shapes!Point
  <2> QED BY <1>9, <2>1, <2>2, <2>3, <2>4, <2>5, <2>6, <2>7 DEF FacingOf
<1>10. CASE t = 10
  <2>1. CubeRun[10] = <<8, 7, 5>>
    BY DEF CubeRun
  <2>2. Shapes!CubeTriangles[10] = <<18, 19, 16>>
    BY CubeTrianglesAre
  <2>3. Shapes!CubeNormals[19] = Shapes!Point(1, 0, 0)
    BY DEF Shapes!CubeNormals
  <2>4. /\ CubeCorner(8) = Shapes!Point(1, 1, 1) /\ CubeCorner(7) = Shapes!Point(1, 1, -1)
        /\ CubeCorner(5) = Shapes!Point(1, -1, -1)
    BY DEF CubeCorner
  <2>5. /\ Shapes!Minus(Shapes!Point(1, 1, -1), Shapes!Point(1, 1, 1)) = Shapes!Point(0, 0, -2)
        /\ Shapes!Minus(Shapes!Point(1, -1, -1), Shapes!Point(1, 1, 1)) = Shapes!Point(0, -2, -2)
    BY DEF Shapes!Minus, Shapes!Point
  <2>6. Shapes!Cross(Shapes!Point(0, 0, -2), Shapes!Point(0, -2, -2)) = Shapes!Point(-4, 0, 0)
    BY DEF Shapes!Cross, Shapes!Point
  <2>7. Shapes!Dot(Shapes!Point(-4, 0, 0), Shapes!Point(1, 0, 0)) = -4
    BY DEF Shapes!Dot, Shapes!Point
  <2> QED BY <1>10, <2>1, <2>2, <2>3, <2>4, <2>5, <2>6, <2>7 DEF FacingOf
<1>11. CASE t = 11
  <2>1. CubeRun[11] = <<2, 1, 3>>
    BY DEF CubeRun
  <2>2. Shapes!CubeTriangles[11] = <<20, 21, 22>>
    BY CubeTrianglesAre
  <2>3. Shapes!CubeNormals[21] = Shapes!Point(-1, 0, 0)
    BY DEF Shapes!CubeNormals
  <2>4. /\ CubeCorner(2) = Shapes!Point(-1, -1, 1) /\ CubeCorner(1) = Shapes!Point(-1, -1, -1)
        /\ CubeCorner(3) = Shapes!Point(-1, 1, -1)
    BY DEF CubeCorner
  <2>5. /\ Shapes!Minus(Shapes!Point(-1, -1, -1), Shapes!Point(-1, -1, 1)) = Shapes!Point(0, 0, -2)
        /\ Shapes!Minus(Shapes!Point(-1, 1, -1), Shapes!Point(-1, -1, 1)) = Shapes!Point(0, 2, -2)
    BY DEF Shapes!Minus, Shapes!Point
  <2>6. Shapes!Cross(Shapes!Point(0, 0, -2), Shapes!Point(0, 2, -2)) = Shapes!Point(4, 0, 0)
    BY DEF Shapes!Cross, Shapes!Point
  <2>7. Shapes!Dot(Shapes!Point(4, 0, 0), Shapes!Point(-1, 0, 0)) = -4
    BY DEF Shapes!Dot, Shapes!Point
  <2> QED BY <1>11, <2>1, <2>2, <2>3, <2>4, <2>5, <2>6, <2>7 DEF FacingOf
<1>12. CASE t = 12
  <2>1. CubeRun[12] = <<3, 4, 2>>
    BY DEF CubeRun
  <2>2. Shapes!CubeTriangles[12] = <<22, 23, 20>>
    BY CubeTrianglesAre
  <2>3. Shapes!CubeNormals[23] = Shapes!Point(-1, 0, 0)
    BY DEF Shapes!CubeNormals
  <2>4. /\ CubeCorner(3) = Shapes!Point(-1, 1, -1) /\ CubeCorner(4) = Shapes!Point(-1, 1, 1)
        /\ CubeCorner(2) = Shapes!Point(-1, -1, 1)
    BY DEF CubeCorner
  <2>5. /\ Shapes!Minus(Shapes!Point(-1, 1, 1), Shapes!Point(-1, 1, -1)) = Shapes!Point(0, 0, 2)
        /\ Shapes!Minus(Shapes!Point(-1, -1, 1), Shapes!Point(-1, 1, -1)) = Shapes!Point(0, -2, 2)
    BY DEF Shapes!Minus, Shapes!Point
  <2>6. Shapes!Cross(Shapes!Point(0, 0, 2), Shapes!Point(0, -2, 2)) = Shapes!Point(4, 0, 0)
    BY DEF Shapes!Cross, Shapes!Point
  <2>7. Shapes!Dot(Shapes!Point(4, 0, 0), Shapes!Point(-1, 0, 0)) = -4
    BY DEF Shapes!Dot, Shapes!Point
  <2> QED BY <1>12, <2>1, <2>2, <2>3, <2>4, <2>5, <2>6, <2>7 DEF FacingOf
<1>13. t = 1 \/ t = 2 \/ t = 3 \/ t = 4 \/ t = 5 \/ t = 6 \/ t = 7
       \/ t = 8 \/ t = 9 \/ t = 10 \/ t = 11 \/ t = 12
  OBVIOUS
<1> QED BY <1>1, <1>2, <1>3, <1>4, <1>5, <1>6, <1>7, <1>8, <1>9, <1>10, <1>11, <1>12, <1>13

-----------------------------------------------------------------------------
(* The lists of a mesh in the making.                                        *)
Points == [x : Int, y : Int, z : Int]
Coords == [u : Int, v : Int]

ShapeTypeOK ==
  /\ width \in Nat /\ height \in Nat /\ x \in Nat /\ y \in Nat
  /\ texCoord \in Coords
  /\ positions \in Seq(Points) /\ normals \in Seq(Points) /\ texCoords \in Seq(Coords)
  /\ triangles \in Seq(Seq(Nat))
  /\ Len(normals) = Len(positions) /\ Len(texCoords) = Len(positions)

StartInv ==
  phase = "start" => /\ shape = "none" /\ x = 0 /\ y = 0 /\ position = Vertex(0, 0)
                     /\ positions = <<>> /\ normals = <<>> /\ texCoords = <<>> /\ triangles = <<>>

(* The position that was accumulated is the one the loops are at.            *)
VerticesInv ==
  phase = "vertices" =>
    /\ shape = "plane" /\ x <= width + 1 /\ y <= height + 1 /\ (y = height + 1 => x = 0)
    /\ position = Vertex(x, y)
    /\ Len(positions) = Place(width, x, y) /\ Filled(positions, width, x, y)
    /\ triangles = <<>>

CellsInv ==
  phase = "cells" =>
    /\ shape = "plane" /\ x <= width /\ y <= height /\ (y = height => x = 0)
    /\ FullGrid(positions, width, height)
    /\ Covered(triangles, width, x, y)

MadeInv ==
  phase = "made" =>
    \/ /\ shape = "plane"
       /\ FullGrid(positions, width, height)
       /\ Covered(triangles, width, 0, height)
    \/ /\ shape = "cube"
       /\ positions = Shapes!CubePositions /\ normals = Shapes!CubeNormals
       /\ triangles = Shapes!CubeTriangles

Upright == shape # "cube" => \A k \in 1 .. Len(normals) : normals[k] = Shapes!Point(0, 1, 0)

ShapeInv == /\ phase \in {"start", "vertices", "cells", "made"}
            /\ ShapeTypeOK /\ StartInv /\ VerticesInv /\ CellsInv /\ MadeInv /\ Upright

(* There is no shape yet. *)
LEMMA ShapeInit == Shapes!Init => ShapeInv
<1> SUFFICES ASSUME Shapes!Init PROVE ShapeInv
  OBVIOUS
<1>1. /\ phase = "start" /\ shape = "none" /\ width = 0 /\ height = 0 /\ x = 0 /\ y = 0
      /\ position = Vertex(0, 0) /\ texCoord = [u |-> 0, v |-> 0]
      /\ positions = <<>> /\ normals = <<>> /\ texCoords = <<>> /\ triangles = <<>>
  BY DEF Shapes!Init, Vertex
<1>2. \A S : <<>> \in Seq(S)
  BY EmptySeq
<1>3. Len(<<>>) = 0
  BY EmptySeq
<1>4. ShapeTypeOK
  BY <1>1, <1>2, <1>3 DEF ShapeTypeOK, Coords
<1>5. Upright
  <2>1. \A k \in 1 .. Len(normals) : FALSE
    BY <1>1, <1>3
  <2> QED BY <2>1 DEF Upright
<1> QED BY <1>1, <1>4, <1>5 DEF ShapeInv, StartInv, VerticesInv, CellsInv, MadeInv

(* generate_plane: a vertex. *)
LEMMA ShapePushVertex == ShapeInv /\ Shapes!PushVertex => ShapeInv'
<1> SUFFICES ASSUME ShapeInv, Shapes!PushVertex PROVE ShapeInv'
  OBVIOUS
<1>1. /\ phase = "vertices" /\ y < height + 1 /\ x < width + 1
      /\ positions' = Append(positions, position)
      /\ normals' = Append(normals, Shapes!Point(0, 1, 0))
      /\ texCoords' = Append(texCoords, texCoord)
      /\ position' = [position EXCEPT !.x = @ + 1]
      /\ texCoord' = [texCoord EXCEPT !.u = @ + 1]
      /\ x' = x + 1
      /\ UNCHANGED <<phase, shape, width, height, y, triangles>>
  BY DEF Shapes!PushVertex, Shapes!request
<1>2. ShapeTypeOK /\ Upright
  BY DEF ShapeInv
<1>3. /\ shape = "plane" /\ position = Vertex(x, y) /\ triangles = <<>>
      /\ Len(positions) = Place(width, x, y) /\ Filled(positions, width, x, y)
  BY <1>1 DEF ShapeInv, VerticesInv
<1>4. width \in Nat /\ height \in Nat /\ x \in Nat /\ y \in Nat
  BY <1>2 DEF ShapeTypeOK
<1>5. position \in Points /\ Shapes!Point(0, 1, 0) \in Points /\ Vertex(x, y) \in Points
  BY <1>3, <1>4 DEF Points, Vertex, Shapes!Point
<1>6. /\ positions' \in Seq(Points) /\ Len(positions') = Len(positions) + 1
  BY <1>1, <1>2, <1>5, AppendProperties DEF ShapeTypeOK
<1>7. /\ normals' \in Seq(Points) /\ Len(normals') = Len(normals) + 1
      /\ \A k \in 1 .. Len(normals) : normals'[k] = normals[k]
      /\ normals'[Len(normals) + 1] = Shapes!Point(0, 1, 0)
  BY <1>1, <1>2, <1>5, AppendProperties DEF ShapeTypeOK
<1>8. /\ texCoords' \in Seq(Coords) /\ Len(texCoords') = Len(texCoords) + 1
  BY <1>1, <1>2, AppendProperties DEF ShapeTypeOK
<1>9. texCoord' \in Coords
  <2>1. texCoord = [u |-> texCoord.u, v |-> texCoord.v] /\ texCoord.u \in Int /\ texCoord.v \in Int
    BY <1>2 DEF ShapeTypeOK, Coords
  <2>2. texCoord' = [u |-> texCoord.u + 1, v |-> texCoord.v]
    BY <1>1, <2>1
  <2> QED BY <2>1, <2>2 DEF Coords
<1>10. ShapeTypeOK'
  BY <1>1, <1>2, <1>4, <1>6, <1>7, <1>8, <1>9 DEF ShapeTypeOK
<1>11. Upright'
  <2> SUFFICES ASSUME NEW k \in 1 .. Len(normals') PROVE normals'[k] = Shapes!Point(0, 1, 0)
    BY DEF Upright
  <2>1. Len(normals) \in Nat
    BY <1>2, LenProperties DEF ShapeTypeOK
  <2>2. k \in 1 .. Len(normals) \/ k = Len(normals) + 1
    BY <1>7, <2>1
  <2>3. \A l \in 1 .. Len(normals) : normals[l] = Shapes!Point(0, 1, 0)
    BY <1>2, <1>3 DEF Upright
  <2> QED BY <1>7, <2>2, <2>3
<1>12. Filled(positions', width', x', y')
  <2>1. positions \in Seq(Points)
    BY <1>2 DEF ShapeTypeOK
  <2>2. Filled(Append(positions, Vertex(x, y)), width, x + 1, y)
    BY <1>1, <1>3, <1>4, <1>5, <2>1, FilledNext
  <2> QED BY <1>1, <1>3, <2>2
<1>13. Len(positions') = Place(width', x', y')
  BY <1>1, <1>3, <1>4, <1>6, PlaceNext
<1>14. position' = Vertex(x', y')
  BY <1>1, <1>3, <1>4 DEF Vertex, Shapes!Point
<1>15. /\ phase' = "vertices" /\ shape' = "plane" /\ x' <= width' + 1 /\ y' <= height' + 1
       /\ y' # height' + 1 /\ triangles' = <<>>
  BY <1>1, <1>3, <1>4
<1>16. VerticesInv'
  BY <1>12, <1>13, <1>14, <1>15 DEF VerticesInv
<1> QED BY <1>10, <1>11, <1>15, <1>16 DEF ShapeInv, StartInv, CellsInv, MadeInv

(* generate_plane: the end of a row of vertices. *)
LEMMA ShapeEndRow == ShapeInv /\ Shapes!EndRow => ShapeInv'
<1> SUFFICES ASSUME ShapeInv, Shapes!EndRow PROVE ShapeInv'
  OBVIOUS
<1>1. /\ phase = "vertices" /\ y < height + 1 /\ x = width + 1
      /\ position' = [position EXCEPT !.x = 0, !.z = @ + 1]
      /\ texCoord' = [texCoord EXCEPT !.v = @ + 1]
      /\ x' = 0 /\ y' = y + 1
      /\ UNCHANGED <<phase, shape, width, height, positions, normals, texCoords, triangles>>
  BY DEF Shapes!EndRow, Shapes!request, Shapes!mesh
<1>2. ShapeTypeOK /\ Upright
  BY DEF ShapeInv
<1>3. /\ shape = "plane" /\ position = Vertex(x, y) /\ triangles = <<>>
      /\ Len(positions) = Place(width, x, y) /\ Filled(positions, width, x, y)
  BY <1>1 DEF ShapeInv, VerticesInv
<1>4. width \in Nat /\ height \in Nat /\ x \in Nat /\ y \in Nat
  BY <1>2 DEF ShapeTypeOK
<1>5. texCoord' \in Coords
  <2>1. texCoord = [u |-> texCoord.u, v |-> texCoord.v] /\ texCoord.u \in Int /\ texCoord.v \in Int
    BY <1>2 DEF ShapeTypeOK, Coords
  <2>2. texCoord' = [u |-> texCoord.u, v |-> texCoord.v + 1]
    BY <1>1, <2>1
  <2> QED BY <2>1, <2>2 DEF Coords
<1>6. ShapeTypeOK'
  <2>1. x' \in Nat /\ y' \in Nat
    BY <1>1, <1>4
  <2> QED BY <1>1, <1>2, <1>5, <2>1 DEF ShapeTypeOK
<1>7. Filled(positions', width', x', y')
  <2>1. Filled(positions, width, width + 1, y)
    BY <1>1, <1>3
  <2>2. Filled(positions, width, 0, y + 1)
    BY <1>4, <2>1, FilledRow
  <2> QED BY <1>1, <2>2
<1>8. Len(positions') = Place(width', x', y')
  BY <1>1, <1>3, <1>4, PlaceNext
<1>9. position' = Vertex(x', y')
  BY <1>1, <1>3, <1>4 DEF Vertex, Shapes!Point
<1>10. /\ phase' = "vertices" /\ shape' = "plane" /\ x' <= width' + 1 /\ y' <= height' + 1
       /\ x' = 0 /\ triangles' = <<>>
  BY <1>1, <1>3, <1>4
<1>11. VerticesInv'
  BY <1>7, <1>8, <1>9, <1>10 DEF VerticesInv
<1>12. Upright'
  BY <1>1, <1>2 DEF Upright
<1> QED BY <1>6, <1>10, <1>11, <1>12 DEF ShapeInv, StartInv, CellsInv, MadeInv

(* generate_plane: the end of the vertices. *)
LEMMA ShapeEndVertices == ShapeInv /\ Shapes!EndVertices => ShapeInv'
<1> SUFFICES ASSUME ShapeInv, Shapes!EndVertices PROVE ShapeInv'
  OBVIOUS
<1>1. /\ phase = "vertices" /\ y = height + 1 /\ phase' = "cells" /\ x' = 0 /\ y' = 0
      /\ UNCHANGED <<shape, width, height, position, texCoord, positions, normals, texCoords,
                     triangles>>
  BY DEF Shapes!EndVertices, Shapes!request, Shapes!mesh
<1>2. ShapeTypeOK /\ Upright
  BY DEF ShapeInv
<1>3. shape = "plane" /\ x = 0 /\ triangles = <<>> /\ Filled(positions, width, x, y)
  BY <1>1 DEF ShapeInv, VerticesInv
<1>4. width \in Nat /\ height \in Nat
  BY <1>2 DEF ShapeTypeOK
<1>5. ShapeTypeOK'
  BY <1>1, <1>2 DEF ShapeTypeOK
<1>6. FullGrid(positions', width', height')
  BY <1>1, <1>3 DEF FullGrid
<1>7. Covered(triangles', width', x', y')
  <2>1. Len(<<>>) = 0
    BY EmptySeq
  <2>2. \A t \in 1 .. Len(<<>>) : FALSE
    BY <2>1
  <2>3. \A i, j : ~Before(width, 0, 0, i, j)
    BY DEF Before
  <2>4. OfCells(<<>>, width, 0, 0) /\ EveryCell(<<>>, width, 0, 0) /\ Once(<<>>)
    BY <2>2, <2>3 DEF OfCells, EveryCell, Once
  <2>5. Covered(<<>>, width, 0, 0)
    BY <2>4 DEF Covered
  <2> QED BY <1>1, <1>3, <2>5
<1>8. phase' = "cells" /\ shape' = "plane" /\ x' <= width' /\ y' <= height' /\ x' = 0
  BY <1>1, <1>3, <1>4
<1>9. CellsInv'
  BY <1>6, <1>7, <1>8 DEF CellsInv
<1>10. Upright'
  BY <1>1, <1>2 DEF Upright
<1> QED BY <1>5, <1>8, <1>9, <1>10 DEF ShapeInv, StartInv, VerticesInv, MadeInv

(* generate_plane: the triangles of a cell. *)
LEMMA ShapePushCell == ShapeInv /\ Shapes!PushCell => ShapeInv'
<1> SUFFICES ASSUME ShapeInv, Shapes!PushCell PROVE ShapeInv'
  OBVIOUS
<1>1. /\ phase = "cells" /\ y < height /\ x < width
      /\ triangles' = triangles \o Shapes!CellTriangles
      /\ x' = x + 1
      /\ UNCHANGED <<phase, shape, width, height, y, position, texCoord, positions, normals,
                     texCoords>>
  BY DEF Shapes!PushCell, Shapes!request
<1>2. ShapeTypeOK /\ Upright
  BY DEF ShapeInv
<1>3. /\ shape = "plane" /\ FullGrid(positions, width, height)
      /\ Covered(triangles, width, x, y)
  BY <1>1 DEF ShapeInv, CellsInv
<1>4. width \in Nat /\ height \in Nat /\ x \in Nat /\ y \in Nat
  BY <1>2 DEF ShapeTypeOK
<1>5. /\ Place(width, x, y) \in Nat
      /\ Place(width, x + 1, y) = Place(width, x, y) + 1
      /\ Place(width, x, y + 1) = Place(width, x, y) + width + 1
      /\ Place(width, x + 1, y + 1) = Place(width, x, y) + width + 2
  BY <1>4, PlaceNext
<1>6. Shapes!CellTriangles = <<Lower(width, x, y), Upper(width, x, y)>>
  <2>1. Shapes!Corner(x, y) = Place(width, x, y)
    BY DEF Shapes!Corner, Place
  <2> QED BY <1>5, <2>1 DEF Shapes!CellTriangles, Lower, Upper
<1>7. Lower(width, x, y) \in Seq(Nat) /\ Upper(width, x, y) \in Seq(Nat)
  <2>1. PICK p : p = Place(width, x, y)
    OBVIOUS
  <2>2. p \in Nat /\ p + width + 1 \in Nat /\ p + width + 2 \in Nat /\ p + 1 \in Nat
    BY <1>4, <1>5, <2>1
  <2>3. /\ Lower(width, x, y) = <<p, p + width + 1, p + width + 2>>
        /\ Upper(width, x, y) = <<p + width + 2, p + 1, p>>
    BY <1>5, <2>1 DEF Lower, Upper
  <2> QED BY <2>2, <2>3
<1>8. triangles \in Seq(Seq(Nat))
  BY <1>2 DEF ShapeTypeOK
<1>9. triangles' \in Seq(Seq(Nat))
  <2>1. PICK a, b : a = Lower(width, x, y) /\ b = Upper(width, x, y)
    OBVIOUS
  <2>2. <<a, b>> \in Seq(Seq(Nat))
    BY <1>7, <2>1
  <2>3. triangles \o <<a, b>> \in Seq(Seq(Nat))
    BY <1>8, <2>2, ConcatProperties
  <2> QED BY <1>1, <1>6, <2>1, <2>3
<1>10. ShapeTypeOK'
  <2>1. x' \in Nat
    BY <1>1, <1>4
  <2> QED BY <1>1, <1>2, <1>9, <2>1 DEF ShapeTypeOK
<1>11. Covered(triangles', width', x', y')
  <2>1. Covered(triangles \o <<Lower(width, x, y), Upper(width, x, y)>>, width, x + 1, y)
    BY <1>1, <1>3, <1>4, <1>7, <1>8, CoveredNext
  <2> QED BY <1>1, <1>6, <2>1
<1>12. /\ phase' = "cells" /\ shape' = "plane" /\ x' <= width' /\ y' <= height' /\ y' # height'
       /\ FullGrid(positions', width', height')
  BY <1>1, <1>3, <1>4
<1>13. CellsInv'
  BY <1>11, <1>12 DEF CellsInv
<1>14. Upright'
  BY <1>1, <1>2 DEF Upright
<1> QED BY <1>10, <1>12, <1>13, <1>14 DEF ShapeInv, StartInv, VerticesInv, MadeInv

(* generate_plane: the end of a row of cells. *)
LEMMA ShapeEndCells == ShapeInv /\ Shapes!EndCells => ShapeInv'
<1> SUFFICES ASSUME ShapeInv, Shapes!EndCells PROVE ShapeInv'
  OBVIOUS
<1>1. /\ phase = "cells" /\ y < height /\ x = width /\ x' = 0 /\ y' = y + 1
      /\ UNCHANGED <<phase, shape, width, height, position, texCoord, positions, normals,
                     texCoords, triangles>>
  BY DEF Shapes!EndCells, Shapes!request, Shapes!mesh
<1>2. ShapeTypeOK /\ Upright
  BY DEF ShapeInv
<1>3. /\ shape = "plane" /\ FullGrid(positions, width, height)
      /\ Covered(triangles, width, x, y)
  BY <1>1 DEF ShapeInv, CellsInv
<1>4. width \in Nat /\ height \in Nat /\ y \in Nat
  BY <1>2 DEF ShapeTypeOK
<1>5. ShapeTypeOK'
  <2>1. x' \in Nat /\ y' \in Nat
    BY <1>1, <1>4
  <2> QED BY <1>1, <1>2, <2>1 DEF ShapeTypeOK
<1>6. Covered(triangles', width', x', y')
  <2>1. Covered(triangles, width, width, y)
    BY <1>1, <1>3
  <2>2. Covered(triangles, width, 0, y + 1)
    BY <1>4, <2>1, CoveredRow
  <2> QED BY <1>1, <2>2
<1>7. /\ phase' = "cells" /\ shape' = "plane" /\ x' <= width' /\ y' <= height' /\ x' = 0
      /\ FullGrid(positions', width', height')
  BY <1>1, <1>3, <1>4
<1>8. CellsInv'
  BY <1>6, <1>7 DEF CellsInv
<1>9. Upright'
  BY <1>1, <1>2 DEF Upright
<1> QED BY <1>5, <1>7, <1>8, <1>9 DEF ShapeInv, StartInv, VerticesInv, MadeInv

(* generate_plane: its end. *)
LEMMA ShapeEndPlane == ShapeInv /\ Shapes!EndPlane => ShapeInv'
<1> SUFFICES ASSUME ShapeInv, Shapes!EndPlane PROVE ShapeInv'
  OBVIOUS
<1>1. /\ phase = "cells" /\ y = height /\ phase' = "made"
      /\ UNCHANGED <<shape, width, height, x, y, position, texCoord, positions, normals,
                     texCoords, triangles>>
  BY DEF Shapes!EndPlane, Shapes!request, Shapes!mesh
<1>2. /\ shape = "plane" /\ x = 0 /\ FullGrid(positions, width, height)
      /\ Covered(triangles, width, x, y)
  BY <1>1 DEF ShapeInv, CellsInv
<1>3. ShapeTypeOK' /\ Upright'
  BY <1>1 DEF ShapeInv, ShapeTypeOK, Upright
<1>4. MadeInv'
  BY <1>1, <1>2 DEF MadeInv
<1> QED BY <1>1, <1>3, <1>4 DEF ShapeInv, StartInv, VerticesInv, CellsInv

(* generate_plane: its begin, for any resolution. *)
LEMMA ShapeBeginPlane ==
  ASSUME NEW r \in Resolutions, ShapeInv, Shapes!BeginPlane(r)
  PROVE  ShapeInv'
<1>1. /\ phase = "start" /\ shape' = "plane" /\ width' = r[1] /\ height' = r[2]
      /\ phase' = "vertices"
      /\ UNCHANGED <<x, y, position, texCoord, positions, normals, texCoords, triangles>>
  BY DEF Shapes!BeginPlane, Shapes!mesh
<1>2. width' \in Nat /\ height' \in Nat
  BY <1>1, ResolutionsAssumption
<1>3. ShapeTypeOK /\ x = 0 /\ y = 0 /\ position = Vertex(0, 0) /\ positions = <<>>
      /\ normals = <<>> /\ triangles = <<>>
  BY <1>1 DEF ShapeInv, StartInv
<1>4. ShapeTypeOK'
  BY <1>1, <1>2, <1>3 DEF ShapeTypeOK
<1>5. Len(<<>>) = 0
  BY EmptySeq
<1>6. Filled(positions', width', x', y')
  <2>1. \A i, j : ~Before(width' + 1, 0, 0, i, j)
    BY DEF Before
  <2> QED BY <1>1, <1>3, <2>1 DEF Filled
<1>7. Place(width', x', y') = 0
  BY <1>1, <1>2, <1>3 DEF Place
<1>8. x' = 0 /\ y' = 0 /\ x' <= width' + 1 /\ y' <= height' + 1 /\ Len(positions') = 0
  BY <1>1, <1>2, <1>3, <1>5
<1>9. VerticesInv'
  BY <1>1, <1>3, <1>6, <1>7, <1>8 DEF VerticesInv
<1>10. Upright'
  <2>1. \A k \in 1 .. Len(normals') : FALSE
    BY <1>1, <1>3, <1>5
  <2> QED BY <2>1 DEF Upright
<1> QED BY <1>1, <1>4, <1>9, <1>10 DEF ShapeInv, StartInv, CellsInv, MadeInv

(* The lists of a cube. *)
LEMMA CubeTypes ==
  /\ Shapes!CubePositions \in Seq(Points) /\ Len(Shapes!CubePositions) = 24
  /\ Shapes!CubeNormals \in Seq(Points) /\ Len(Shapes!CubeNormals) = 24
  /\ Shapes!CubeTriangles \in Seq(Seq(Nat)) /\ Len(Shapes!CubeTriangles) = 12
<1>1. \A i, j, k \in Int : Shapes!Point(i, j, k) \in Points
  BY DEF Shapes!Point, Points
<1>2. Shapes!CubePositions \in Seq(Points)
  <2> DEFINE P(i, j, k) == Shapes!Point(i, j, k)
  <2>1. \A i, j, k \in {-1, 1} : P(i, j, k) \in Points
    BY <1>1
  <2>2. Shapes!CubePositions =
          <<P(-1, 1, -1), P(1, 1, -1), P(1, 1, 1), P(-1, 1, 1), P(-1, -1, 1), P(1, -1, 1),
            P(1, -1, -1), P(-1, -1, -1), P(-1, -1, -1), P(1, -1, -1), P(1, 1, -1), P(-1, 1, -1),
            P(1, -1, 1), P(-1, -1, 1), P(-1, 1, 1), P(1, 1, 1), P(1, -1, -1), P(1, -1, 1),
            P(1, 1, 1), P(1, 1, -1), P(-1, -1, 1), P(-1, -1, -1), P(-1, 1, -1), P(-1, 1, 1)>>
    BY DEF Shapes!CubePositions
  <2> HIDE DEF P
  <2> QED BY <2>1, <2>2
<1>3. Shapes!CubeNormals \in Seq(Points) /\ Len(Shapes!CubeNormals) = 24
  <2>1. PICK a, b, c, d, e, f :
          /\ a = Shapes!Point(0, 1, 0) /\ b = Shapes!Point(0, -1, 0) /\ c = Shapes!Point(0, 0, -1)
          /\ d = Shapes!Point(0, 0, 1) /\ e = Shapes!Point(1, 0, 0) /\ f = Shapes!Point(-1, 0, 0)
    OBVIOUS
  <2>2. /\ a \in Points /\ b \in Points /\ c \in Points /\ d \in Points /\ e \in Points
        /\ f \in Points
    BY <1>1, <2>1
  <2>3. Shapes!CubeNormals = [i \in 1 .. 24 |-> <<a, b, c, d, e, f>>[((i - 1) \div 4) + 1]]
    BY <2>1 DEF Shapes!CubeNormals
  <2>4. \A i \in 1 .. 24 : ((i - 1) \div 4) + 1 \in 1 .. 6
    OBVIOUS
  <2>5. \A i \in 1 .. 6 : <<a, b, c, d, e, f>>[i] \in Points
    <3> SUFFICES ASSUME NEW i \in 1 .. 6 PROVE <<a, b, c, d, e, f>>[i] \in Points
      OBVIOUS
    <3>1. i = 1 \/ i = 2 \/ i = 3 \/ i = 4 \/ i = 5 \/ i = 6
      OBVIOUS
    <3> QED BY <2>2, <3>1
  <2>6. Shapes!CubeNormals \in [1 .. 24 -> Points]
    <3> DEFINE s == <<a, b, c, d, e, f>>
    <3> HIDE DEF s
    <3> QED BY <2>3, <2>4, <2>5 DEF s
  <2>7. 24 \in Nat
    OBVIOUS
  <2> QED BY <2>6, <2>7, MapIsSeq
<1>4. Shapes!CubeTriangles \in Seq(Seq(Nat)) /\ Len(Shapes!CubeTriangles) = 12
  <2>1. \A t \in 1 .. 12 : Shapes!CubeTriangles[t] \in Seq(Nat)
    <3> SUFFICES ASSUME NEW t \in 1 .. 12 PROVE Shapes!CubeTriangles[t] \in Seq(Nat)
      OBVIOUS
    <3>1. PICK v \in Nat : v = 4 * ((t - 1) \div 2)
      OBVIOUS
    <3>2. Shapes!CubeTriangles[t] = IF t % 2 = 1 THEN <<v, v + 1, v + 2>> ELSE <<v + 2, v + 3, v>>
      BY <3>1 DEF Shapes!CubeTriangles
    <3>3. <<v, v + 1, v + 2>> \in Seq(Nat) /\ <<v + 2, v + 3, v>> \in Seq(Nat)
      OBVIOUS
    <3> QED BY <3>2, <3>3
  <2>2. Shapes!CubeTriangles \in [1 .. 12 -> Seq(Nat)]
    BY <2>1 DEF Shapes!CubeTriangles
  <2>3. 12 \in Nat
    OBVIOUS
  <2> QED BY <2>2, <2>3, MapIsSeq
<1> QED BY <1>2, <1>3, <1>4, CubePositionsAre

(* generate_cube. *)
LEMMA ShapeGenerateCube == ShapeInv /\ Shapes!GenerateCube => ShapeInv'
<1> SUFFICES ASSUME ShapeInv, Shapes!GenerateCube PROVE ShapeInv'
  OBVIOUS
<1>1. /\ phase' = "made" /\ shape' = "cube"
      /\ positions' = Shapes!CubePositions /\ normals' = Shapes!CubeNormals
      /\ texCoords' = [i \in 1 .. 24 |-> [u |-> 0, v |-> 0]]
      /\ triangles' = Shapes!CubeTriangles
      /\ UNCHANGED <<width, height, x, y, position, texCoord>>
  BY DEF Shapes!GenerateCube
<1>2. texCoords' \in Seq(Coords) /\ Len(texCoords') = 24
  <2>1. texCoords' \in [1 .. 24 -> Coords] /\ 24 \in Nat
    BY <1>1 DEF Coords
  <2> QED BY <2>1, MapIsSeq
<1>3. ShapeTypeOK'
  BY <1>1, <1>2, CubeTypes DEF ShapeInv, ShapeTypeOK
<1>4. MadeInv' /\ Upright'
  BY <1>1 DEF MadeInv, Upright
<1> QED BY <1>1, <1>3, <1>4 DEF ShapeInv, StartInv, VerticesInv, CellsInv

(* No step of a generator breaks the shape. *)
LEMMA ShapeStep == ShapeInv /\ Shapes!Next => ShapeInv'
BY ShapeBeginPlane, ShapePushVertex, ShapeEndRow, ShapeEndVertices, ShapePushCell, ShapeEndCells,
   ShapeEndPlane, ShapeGenerateCube DEF Shapes!Next

(* The shape depends on the generator alone. *)
LEMMA ShapeStays == ShapeInv /\ UNCHANGED generator => ShapeInv'
BY DEF generator, ShapeInv, ShapeTypeOK, StartInv, VerticesInv, CellsInv, MadeInv, Upright

-----------------------------------------------------------------------------
(* A triangle of a grid has its three vertices. *)
LEMMA InGrid ==
  ASSUME NEW ps, NEW W \in Nat, NEW H \in Nat, FullGrid(ps, W, H),
         NEW i, NEW j, IsCell(W, H, i, j), NEW t, t = Lower(W, i, j) \/ t = Upper(W, i, j)
  PROVE  \A c \in 1 .. 3 : t[c] + 1 \in 1 .. Len(ps)
<1> DEFINE B(k, l) == Before(W + 1, 0, H + 1, k, l)
<1>1. i \in 0 .. W - 1 /\ j \in 0 .. H - 1
  BY DEF IsCell
<1>2. B(i, j) /\ B(i, j + 1) /\ B(i + 1, j) /\ B(i + 1, j + 1)
  BY <1>1 DEF Before
<1>3. \A k, l : B(k, l) => Place(W, k, l) + 1 \in 1 .. Len(ps)
  BY DEF FullGrid, Filled
<1> HIDE DEF B
<1>4. /\ Place(W, i, j) + 1 \in 1 .. Len(ps) /\ Place(W, i, j + 1) + 1 \in 1 .. Len(ps)
      /\ Place(W, i + 1, j) + 1 \in 1 .. Len(ps) /\ Place(W, i + 1, j + 1) + 1 \in 1 .. Len(ps)
  BY <1>2, <1>3
<1>5. \A c \in 1 .. 3 : c = 1 \/ c = 2 \/ c = 3
  OBVIOUS
<1> QED BY <1>4, <1>5 DEF Lower, Upper

(* Cells of which triangles were made are cells. *)
LEMMA BeforeIsCell ==
  ASSUME NEW W \in Nat, NEW H \in Nat, NEW X \in Nat, NEW Y \in Nat, X <= W, Y <= H,
         Y = H => X = 0, NEW i, NEW j, Before(W, X, Y, i, j)
  PROVE  IsCell(W, H, i, j)
BY DEF Before, IsCell

(* How the triangles of a grid lie, while they are made. *)
LEMMA GridFaces ==
  ASSUME NEW ps, NEW ns, NEW W \in Nat, NEW H \in Nat, FullGrid(ps, W, H),
         NEW i, NEW j, IsCell(W, H, i, j), NEW t, t = Lower(W, i, j) \/ t = Upper(W, i, j),
         ns[t[1] + 1] = Shapes!Point(0, 1, 0)
  PROVE  FacingOf(ps[t[1] + 1], ps[t[2] + 1], ps[t[3] + 1], ns[t[1] + 1]) = 1
<1>1. /\ ps[Place(W, i, j) + 1] = Vertex(i, j)
      /\ ps[Place(W, i, j + 1) + 1] = Vertex(i, j + 1)
      /\ ps[Place(W, i + 1, j) + 1] = Vertex(i + 1, j)
      /\ ps[Place(W, i + 1, j + 1) + 1] = Vertex(i + 1, j + 1)
  BY CornersOfCell
<1>2. i \in Nat /\ j \in Nat
  BY DEF IsCell
<1>3. /\ FacingOf(Vertex(i, j), Vertex(i, j + 1), Vertex(i + 1, j + 1), Shapes!Point(0, 1, 0)) = 1
      /\ FacingOf(Vertex(i + 1, j + 1), Vertex(i + 1, j), Vertex(i, j), Shapes!Point(0, 1, 0)) = 1
  BY <1>2, PlaneFaces
<1>4. CASE t = Lower(W, i, j)
  <2>1. t[1] = Place(W, i, j) /\ t[2] = Place(W, i, j + 1) /\ t[3] = Place(W, i + 1, j + 1)
    BY <1>4 DEF Lower
  <2> QED BY <1>1, <1>3, <2>1
<1>5. CASE t = Upper(W, i, j)
  <2>1. t[1] = Place(W, i + 1, j + 1) /\ t[2] = Place(W, i + 1, j) /\ t[3] = Place(W, i, j)
    BY <1>5 DEF Upper
  <2> QED BY <1>1, <1>3, <2>1
<1> QED BY <1>4, <1>5

(* What a triangle's facing is in the model. *)
LEMMA FacingIs ==
  ASSUME NEW t
  PROVE  Shapes!Facing(t) =
           FacingOf(positions[t[1] + 1], positions[t[2] + 1], positions[t[3] + 1],
                    normals[t[1] + 1])
BY DEF Shapes!Facing, Shapes!At, FacingOf

(* All triangles of a mesh face the same way, in every state of its making. *)
LEMMA ShapeFacesAlike == ShapeInv => Shapes!FacesAlike
<1> SUFFICES ASSUME ShapeInv PROVE Shapes!FacesAlike
  OBVIOUS
<1>1. ShapeTypeOK
  BY DEF ShapeInv
<1>2. /\ DOMAIN triangles = 1 .. Len(triangles) /\ width \in Nat /\ height \in Nat /\ x \in Nat
      /\ y \in Nat
  BY <1>1, LenProperties DEF ShapeTypeOK
<1>3. CASE triangles = <<>>
  <2>1. Len(<<>>) = 0
    BY EmptySeq
  <2>2. \A t \in DOMAIN triangles : FALSE
    BY <1>2, <1>3, <2>1
  <2> QED BY <2>2 DEF Shapes!FacesAlike
<1>4. ASSUME shape = "plane", FullGrid(positions, width, height),
             NEW X \in Nat, NEW Y \in Nat, X <= width, Y <= height, Y = height => X = 0,
             Covered(triangles, width, X, Y)
      PROVE  Shapes!FacesAlike
  <2> SUFFICES ASSUME NEW t \in DOMAIN triangles PROVE Shapes!Facing(triangles[t]) > 0
    BY DEF Shapes!FacesAlike
  <2>1. PICK i, j : /\ Before(width, X, Y, i, j)
                    /\ triangles[t] = Lower(width, i, j) \/ triangles[t] = Upper(width, i, j)
    BY <1>2, <1>4 DEF Covered, OfCells
  <2>2. IsCell(width, height, i, j)
    BY <1>2, <1>4, <2>1, BeforeIsCell
  <2>3. PICK s : s = triangles[t]
    OBVIOUS
  <2>4. s = Lower(width, i, j) \/ s = Upper(width, i, j)
    BY <2>1, <2>3
  <2>5. normals[s[1] + 1] = Shapes!Point(0, 1, 0)
    <3>1. s[1] + 1 \in 1 .. Len(positions)
      BY <1>2, <1>4, <2>2, <2>4, InGrid
    <3>2. s[1] + 1 \in 1 .. Len(normals)
      BY <1>1, <3>1 DEF ShapeTypeOK
    <3> QED BY <1>4, <3>2 DEF ShapeInv, Upright
  <2>6. FacingOf(positions[s[1] + 1], positions[s[2] + 1], positions[s[3] + 1],
                 normals[s[1] + 1]) = 1
    BY <1>2, <1>4, <2>2, <2>4, <2>5, GridFaces
  <2> QED BY <2>3, <2>6, FacingIs
<1>5. CASE phase = "cells"
  BY <1>2, <1>4, <1>5 DEF ShapeInv, CellsInv
<1>6. CASE phase = "made" /\ shape = "plane"
  BY <1>2, <1>4, <1>6 DEF ShapeInv, MadeInv
<1>7. CASE phase = "made" /\ shape # "plane"
  <2>1. /\ positions = Shapes!CubePositions /\ normals = Shapes!CubeNormals
        /\ triangles = Shapes!CubeTriangles
    BY <1>7 DEF ShapeInv, MadeInv
  <2> SUFFICES ASSUME NEW t \in 1 .. 12 PROVE Shapes!Facing(triangles[t]) < 0
    BY <1>2, <2>1, CubeTypes DEF Shapes!FacesAlike
  <2>2. /\ positions[triangles[t][1] + 1] = CubeCorner(CubeRun[t][1])
        /\ positions[triangles[t][2] + 1] = CubeCorner(CubeRun[t][2])
        /\ positions[triangles[t][3] + 1] = CubeCorner(CubeRun[t][3])
    BY <2>1, CubeRunsThere
  <2> QED BY <2>1, <2>2, CubeFaces, FacingIs
<1>8. CASE phase = "start" \/ phase = "vertices"
  BY <1>3, <1>8 DEF ShapeInv, StartInv, VerticesInv
<1> QED BY <1>5, <1>6, <1>7, <1>8 DEF ShapeInv

(* The sides of the model are those of the lemmas. *)
LEMMA SidesAre ==
  ASSUME NEW t, NEW c
  PROVE  Shapes!Side(<<t, c>>) = SideAt(positions, triangles, t, c)
BY DEF Shapes!Side, Shapes!At, SideAt

(* A finished mesh has neither hole nor overlap. *)
LEMMA ShapeWatertight == ShapeInv => Shapes!Watertight
<1> SUFFICES ASSUME ShapeInv, phase = "made", NEW s \in Shapes!Sides
             PROVE  /\ \A o \in Shapes!Sides : Shapes!Side(o) = Shapes!Side(s) => o = s
                    /\ \/ Shapes!OnBorder(Shapes!Side(s))
                       \/ \E o \in Shapes!Sides :
                            Shapes!Side(o) = <<Shapes!Side(s)[2], Shapes!Side(s)[1]>>
  BY DEF Shapes!Watertight
<1>1. ShapeTypeOK
  BY DEF ShapeInv
<1>2. DOMAIN triangles = 1 .. Len(triangles) /\ width \in Nat /\ height \in Nat
  BY <1>1, LenProperties DEF ShapeTypeOK
<1>3. /\ SidesOnce(positions, triangles)
      /\ \A t \in 1 .. Len(triangles), c \in 1 .. 3 :
           \/ Shapes!OnBorder(SideAt(positions, triangles, t, c))
           \/ HasWayBack(positions, triangles, SideAt(positions, triangles, t, c))
  <2>1. CASE shape = "plane"
    <3>1. FullGrid(positions, width, height) /\ Covered(triangles, width, 0, height)
      BY <2>1 DEF ShapeInv, MadeInv
    <3>2. /\ SidesOnce(positions, triangles)
          /\ \A t \in 1 .. Len(triangles), c \in 1 .. 3 :
               \/ OnEdge(width, height, SideAt(positions, triangles, t, c))
               \/ HasWayBack(positions, triangles, SideAt(positions, triangles, t, c))
      BY <1>2, <3>1, PlaneWatertight
    <3>3. \A side : OnEdge(width, height, side) => Shapes!OnBorder(side)
      BY <2>1 DEF OnEdge, Shapes!OnBorder
    <3> QED BY <3>2, <3>3
  <2>2. CASE shape # "plane"
    <3>1. positions = Shapes!CubePositions /\ triangles = Shapes!CubeTriangles
      BY <2>2 DEF ShapeInv, MadeInv
    <3> QED BY <3>1, CubeTypes, CubeWatertight
  <2> QED BY <2>1, <2>2
<1>4. PICK t \in 1 .. Len(triangles), c \in 1 .. 3 : s = <<t, c>>
  BY <1>2 DEF Shapes!Sides
<1>5. \A u \in 1 .. Len(triangles), d \in 1 .. 3 : <<u, d>> \in Shapes!Sides
  BY <1>2 DEF Shapes!Sides
<1>6. \A u, d : Shapes!Side(<<u, d>>) = SideAt(positions, triangles, u, d)
  BY SidesAre
<1>7. ASSUME NEW o \in Shapes!Sides, Shapes!Side(o) = Shapes!Side(s)
      PROVE  o = s
  <2>1. PICK u \in 1 .. Len(triangles), d \in 1 .. 3 : o = <<u, d>>
    BY <1>2 DEF Shapes!Sides
  <2>2. SideAt(positions, triangles, u, d) = SideAt(positions, triangles, t, c)
    BY <1>4, <1>6, <1>7, <2>1
  <2> QED BY <1>3, <1>4, <2>1, <2>2 DEF SidesOnce
<1>8. Shapes!Side(s) = SideAt(positions, triangles, t, c)
  BY <1>4, <1>6
<1>9. CASE HasWayBack(positions, triangles, Shapes!Side(s))
  <2>1. PICK u \in 1 .. Len(triangles), d \in 1 .. 3 :
           SideAt(positions, triangles, u, d) = <<Shapes!Side(s)[2], Shapes!Side(s)[1]>>
    BY <1>9 DEF HasWayBack
  <2> QED BY <1>5, <1>6, <1>7, <2>1
<1> QED BY <1>3, <1>7, <1>8, <1>9

(* The vertices of a finished mesh's triangles are there. *)
LEMMA ShapeInRange ==
  ASSUME ShapeInv, phase = "made"
  PROVE  FlattenSeq(triangles) \in Seq(0 .. Len(positions) - 1)
<1>1. ShapeTypeOK
  BY DEF ShapeInv
<1>2. /\ Len(triangles) \in Nat /\ DOMAIN triangles = 1 .. Len(triangles)
      /\ width \in Nat /\ height \in Nat /\ Len(positions) \in Nat
  BY <1>1, LenProperties DEF ShapeTypeOK
<1> DEFINE R == 0 .. Len(positions) - 1
<1>3. ASSUME NEW t \in 1 .. Len(triangles) PROVE triangles[t] \in Seq(R)
  <2>1. CASE shape = "plane"
    <3>1. FullGrid(positions, width, height) /\ Covered(triangles, width, 0, height)
      BY <2>1 DEF ShapeInv, MadeInv
    <3>2. PICK i, j : /\ Before(width, 0, height, i, j)
                      /\ triangles[t] = Lower(width, i, j) \/ triangles[t] = Upper(width, i, j)
      BY <3>1 DEF Covered, OfCells
    <3>3. IsCell(width, height, i, j)
      BY <1>2, <3>2 DEF Before, IsCell
    <3>4. PICK s : s = triangles[t]
      OBVIOUS
    <3>5. s = Lower(width, i, j) \/ s = Upper(width, i, j)
      BY <3>2, <3>4
    <3>6. \A c \in 1 .. 3 : s[c] + 1 \in 1 .. Len(positions)
      BY <1>2, <3>1, <3>3, <3>5, InGrid
    <3>7. PICK a, b, d : s = <<a, b, d>>
      BY <3>5 DEF Lower, Upper
    <3>8. a \in Nat /\ b \in Nat /\ d \in Nat
      <4>1. s \in Seq(Nat)
        BY <1>1, <3>4, ElementOfSeq DEF ShapeTypeOK
      <4>2. Len(s) = 3 /\ s[1] = a /\ s[2] = b /\ s[3] = d
        BY <3>7
      <4>3. \A c \in 1 .. Len(s) : s[c] \in Nat
        BY <4>1, ElementOfSeq
      <4>4. 1 \in 1 .. Len(s) /\ 2 \in 1 .. Len(s) /\ 3 \in 1 .. Len(s)
        BY <4>2
      <4> QED BY <4>2, <4>3, <4>4
    <3>9. a \in R /\ b \in R /\ d \in R
      <4>1. a + 1 \in 1 .. Len(positions) /\ b + 1 \in 1 .. Len(positions)
            /\ d + 1 \in 1 .. Len(positions)
        BY <3>6, <3>7
      <4> QED BY <1>2, <3>8, <4>1
    <3> HIDE DEF R
    <3>10. <<a, b, d>> \in Seq(R)
      BY <3>9
    <3> QED BY <3>4, <3>7, <3>10
  <2>2. CASE shape # "plane"
    <3>1. positions = Shapes!CubePositions /\ triangles = Shapes!CubeTriangles
      BY <2>2 DEF ShapeInv, MadeInv
    <3>2. t \in 1 .. 12 /\ R = 0 .. 23
      BY <3>1, CubeTypes
    <3>3. PICK v \in 0 .. 20 : v = 4 * ((t - 1) \div 2)
      BY <3>2
    <3>4. triangles[t] = IF t % 2 = 1 THEN <<v, v + 1, v + 2>> ELSE <<v + 2, v + 3, v>>
      BY <3>1, <3>2, <3>3 DEF Shapes!CubeTriangles
    <3>5. <<v, v + 1, v + 2>> \in Seq(0 .. 23) /\ <<v + 2, v + 3, v>> \in Seq(0 .. 23)
      OBVIOUS
    <3> QED BY <3>2, <3>4, <3>5
  <2> QED BY <2>1, <2>2
<1> HIDE DEF R
<1>4. triangles \in Seq(Seq(R))
  <2>1. triangles \in [1 .. Len(triangles) -> Seq(Nat)]
    BY <1>1, LenProperties DEF ShapeTypeOK
  <2>2. triangles \in [1 .. Len(triangles) -> Seq(R)]
    BY <1>3, <2>1
  <2> QED BY <1>2, <2>2, MapIsSeq
<1> QED BY <1>4, FlattenSeqType DEF R

-----------------------------------------------------------------------------
(* Positions, attributes and indices that go together: none of the indices   *)
(* is one of a vertex that is not there.                                     *)
Fit(P, N, ts) == ts \in Seq(Nat) /\ (ts # <<>> => N = P /\ ts \in Seq(0 .. P - 1))

Torn == fileRead.items \in Len(fileRead.mesh.positions) + 2 ..
                           Len(fileRead.mesh.positions) + Len(fileRead.mesh.normals) + 2

(* What is left of the lists, and what of them the buffers have.             *)
ApplyInv ==
  /\ lists = [positions |-> lists.positions, normals |-> lists.normals,
              texCoords |-> lists.texCoords, triangles |-> lists.triangles]
  /\ buffers = [positions |-> buffers.positions, attributes |-> buffers.attributes,
                indices |-> buffers.indices]
  /\ uploading = "positions" =>
       /\ lists.normals \in Seq(Range(lists.normals))
       /\ Fit(Len(lists.positions), Len(lists.normals), lists.triangles)
       /\ Len(lists.normals) > Len(lists.texCoords) => Torn
  /\ uploading = "attributes" =>
       /\ lists.normals \in Seq(Range(lists.normals))
       /\ Fit(Len(buffers.positions), Len(lists.normals), lists.triangles)
       /\ Len(lists.normals) > Len(lists.texCoords) => Torn
  /\ uploading = "indices" =>
       Fit(Len(buffers.positions), Len(buffers.attributes), lists.triangles)
  /\ uploading = "done" =>
       Fit(Len(buffers.positions), Len(buffers.attributes), buffers.indices)
  /\ uploading = "overread" => Torn

UploadInv == ToolInv /\ ShapeInv /\ ApplyInv

(* What apply() has depends on the upload alone. *)
LEMMA ApplyStays == ApplyInv /\ UNCHANGED upload => ApplyInv'
BY DEF upload, ApplyInv, Fit, Torn

(* The files depend on the tool alone. *)
LEMMA ToolStays == ToolInv /\ UNCHANGED tool => ToolInv'
<1> SUFFICES ASSUME ToolInv, UNCHANGED tool PROVE ToolInv'
  OBVIOUS
<1> QED BY ToolStep DEF tool

(* A file as the factory finds it: lists of which the triangles fit the      *)
(* others, and enough texture coordinates unless it is torn where the lemma  *)
(* says.                                                                     *)
LEMMA LoadFileApplyInv ==
  ASSUME UploadInv, NEW f \in DOMAIN disk, LoadFile(f)
  PROVE  ApplyInv'
<1>1. PICK m, items, r : m = source[f] /\ items = disk[f] /\ r = ReadMesh(items)
  OBVIOUS
<1>2. /\ lists' = [positions |-> r.positions, normals |-> r.normals, texCoords |-> r.texCoords,
                   triangles |-> r.triangles]
      /\ fileRead' = [items |-> Len(items), mesh |-> m]
      /\ uploading' = "positions"
      /\ buffers' = buffers
  BY <1>1 DEF LoadFile
<1>3. Sound(m) /\ items \in Seq(Values(m)) /\ Begins(items, Exported(m))
  <2>1. FileInv(disk[f], source[f], f # name)
    BY DEF UploadInv, ToolInv
  <2> QED BY <1>1, <2>1 DEF FileInv
<1>4. PICK e, V, F, n : /\ e = Exported(m) /\ V = Len(m.positions) /\ F = Len(m.triangles)
                        /\ n = Len(items)
  OBVIOUS
<1>5. LaidOut(m, e, V, F) /\ Part(items, e, n) /\ n \in Nat
  <2>1. LaidOut(m, e, V, F)
    BY <1>3, <1>4, SoundIsLaidOut
  <2>2. n \in Nat /\ DOMAIN items = 1 .. n
    BY <1>3, <1>4, LenProperties
  <2>3. Part(items, e, n)
    BY <1>3, <1>4, <2>2 DEF Part, Begins
  <2> QED BY <2>1, <2>2, <2>3
<1>6. /\ r.normals \in Seq(Range(r.normals))
      /\ r.triangles \in Seq(Nat)
      /\ r.triangles # <<>> =>
           /\ Len(r.positions) = V /\ Len(r.normals) = V
           /\ r.triangles \in Seq(0 .. V - 1)
      /\ Len(r.normals) > Len(r.texCoords) => n \in V + 2 .. V + V + 2
  <2>1. r = ReadMesh(items)
    BY <1>1
  <2> QED BY <1>5, <2>1, ReadPrefix
<1>7. /\ lists'.positions = r.positions /\ lists'.normals = r.normals
      /\ lists'.texCoords = r.texCoords /\ lists'.triangles = r.triangles
  BY <1>2
<1>8. Fit(Len(r.positions), Len(r.normals), r.triangles)
  BY <1>6 DEF Fit
<1>9. Len(r.normals) > Len(r.texCoords) => Torn'
  <2>1. fileRead'.items = n /\ fileRead'.mesh = m
    BY <1>2, <1>4
  <2>2. Len(m.positions) = V /\ Len(m.normals) = V
    BY <1>5 DEF LaidOut
  <2> QED BY <1>6, <2>1, <2>2 DEF Torn
<1>10. /\ lists' = [positions |-> lists'.positions, normals |-> lists'.normals,
                    texCoords |-> lists'.texCoords, triangles |-> lists'.triangles]
       /\ buffers' = [positions |-> buffers'.positions, attributes |-> buffers'.attributes,
                      indices |-> buffers'.indices]
  BY <1>2, <1>7 DEF UploadInv, ApplyInv
<1>11. /\ lists'.normals \in Seq(Range(lists'.normals))
       /\ Fit(Len(lists'.positions), Len(lists'.normals), lists'.triangles)
       /\ Len(lists'.normals) > Len(lists'.texCoords) => Torn'
  BY <1>6, <1>7, <1>8, <1>9
<1> HIDE DEF Fit, Torn
<1> QED BY <1>2, <1>10, <1>11 DEF ApplyInv

(* A shape that is made has indices of its own vertices. *)
LEMMA SetShapeApplyInv ==
  ASSUME UploadInv, SetShape
  PROVE  ApplyInv'
<1>1. /\ phase = "made"
      /\ lists' = [positions |-> positions, normals |-> normals, texCoords |-> texCoords,
                   triangles |-> FlattenSeq(triangles)]
      /\ uploading' = "positions"
      /\ buffers' = buffers
  BY DEF SetShape
<1>2. /\ lists'.positions = positions /\ lists'.normals = normals
      /\ lists'.texCoords = texCoords /\ lists'.triangles = FlattenSeq(triangles)
  BY <1>1
<1>3. /\ Len(positions) \in Nat /\ normals \in Seq(Points)
      /\ Len(normals) = Len(positions) /\ Len(texCoords) = Len(positions)
  BY LenProperties DEF UploadInv, ShapeInv, ShapeTypeOK
<1>4. Fit(Len(positions), Len(normals), FlattenSeq(triangles))
  <2>1. FlattenSeq(triangles) \in Seq(0 .. Len(positions) - 1)
    BY <1>1, ShapeInRange DEF UploadInv
  <2>2. 0 .. Len(positions) - 1 \subseteq Nat
    BY <1>3
  <2>3. FlattenSeq(triangles) \in Seq(Nat)
    BY <2>1, <2>2, SeqMonotonic
  <2> QED BY <1>3, <2>1, <2>3 DEF Fit
<1>5. ~(Len(normals) > Len(texCoords))
  BY <1>3
<1>6. normals \in Seq(Range(normals))
  BY <1>3, SeqOfRange
<1>7. /\ lists' = [positions |-> lists'.positions, normals |-> lists'.normals,
                   texCoords |-> lists'.texCoords, triangles |-> lists'.triangles]
      /\ buffers' = [positions |-> buffers'.positions, attributes |-> buffers'.attributes,
                     indices |-> buffers'.indices]
  BY <1>1, <1>2 DEF UploadInv, ApplyInv
<1>8. /\ lists'.normals \in Seq(Range(lists'.normals))
      /\ Fit(Len(lists'.positions), Len(lists'.normals), lists'.triangles)
      /\ ~(Len(lists'.normals) > Len(lists'.texCoords))
  BY <1>2, <1>4, <1>5, <1>6
<1> QED BY <1>1, <1>7, <1>8 DEF ApplyInv

(* apply() moves lists that fit to buffers that fit. *)
LEMMA ApplyApplyInv == ApplyInv /\ Apply => ApplyInv'
<1> SUFFICES ASSUME ApplyInv, Apply PROVE ApplyInv'
  OBVIOUS
<1>1. CASE ApplyPositions
  <2>1. /\ uploading = "positions" /\ uploading' = "attributes"
        /\ buffers' = [buffers EXCEPT !.positions = lists.positions]
        /\ lists' = [lists EXCEPT !.positions = <<>>]
        /\ fileRead' = fileRead
    BY <1>1 DEF ApplyPositions
  <2>2. /\ lists' = [positions |-> <<>>, normals |-> lists.normals,
                     texCoords |-> lists.texCoords, triangles |-> lists.triangles]
        /\ buffers' = [positions |-> lists.positions, attributes |-> buffers.attributes,
                       indices |-> buffers.indices]
    BY <2>1 DEF ApplyInv
  <2>3. /\ lists.normals \in Seq(Range(lists.normals))
        /\ Fit(Len(lists.positions), Len(lists.normals), lists.triangles)
        /\ Len(lists.normals) > Len(lists.texCoords) => Torn
    BY <2>1 DEF ApplyInv
  <2>4. Torn' <=> Torn
    BY <2>1 DEF Torn
  <2>5. /\ lists' = [positions |-> lists'.positions, normals |-> lists'.normals,
                     texCoords |-> lists'.texCoords, triangles |-> lists'.triangles]
        /\ buffers' = [positions |-> buffers'.positions, attributes |-> buffers'.attributes,
                       indices |-> buffers'.indices]
        /\ lists'.normals = lists.normals /\ lists'.texCoords = lists.texCoords
        /\ lists'.triangles = lists.triangles /\ buffers'.positions = lists.positions
    BY <2>2
  <2> HIDE DEF Torn, Fit
  <2> QED BY <2>1, <2>3, <2>4, <2>5 DEF ApplyInv
<1>2. CASE ApplyAttributes
  <2>1. /\ uploading = "attributes" /\ uploading' = "indices"
        /\ buffers' = [buffers EXCEPT !.attributes =
                         [i \in DOMAIN lists.normals |-> <<lists.normals[i], lists.texCoords[i]>>]]
        /\ lists' = [lists EXCEPT !.normals = <<>>, !.texCoords = <<>>]
        /\ fileRead' = fileRead
    BY <1>2 DEF ApplyAttributes
  <2> DEFINE a == [i \in DOMAIN lists.normals |-> <<lists.normals[i], lists.texCoords[i]>>]
  <2>2. /\ lists' = [positions |-> lists.positions, normals |-> <<>>,
                     texCoords |-> <<>>, triangles |-> lists.triangles]
        /\ buffers' = [positions |-> buffers.positions, attributes |-> a,
                       indices |-> buffers.indices]
    <3> HIDE DEF a
    <3>1. buffers' = [buffers EXCEPT !.attributes = a]
      BY <2>1 DEF a
    <3> QED BY <2>1, <3>1 DEF ApplyInv
  <2>3. /\ lists.normals \in Seq(Range(lists.normals))
        /\ Fit(Len(buffers.positions), Len(lists.normals), lists.triangles)
    BY <2>1 DEF ApplyInv
  <2>4. Len(a) = Len(lists.normals)
    <3>1. DOMAIN lists.normals = 1 .. Len(lists.normals) /\ Len(lists.normals) \in Nat
      BY <2>3, LenProperties
    <3>2. a \in [1 .. Len(lists.normals) -> Range(a)]
      BY <3>1 DEF Range
    <3> HIDE DEF a
    <3> QED BY <3>1, <3>2, MapIsSeq
  <2> HIDE DEF a
  <2>5. /\ lists' = [positions |-> lists'.positions, normals |-> lists'.normals,
                     texCoords |-> lists'.texCoords, triangles |-> lists'.triangles]
        /\ buffers' = [positions |-> buffers'.positions, attributes |-> buffers'.attributes,
                       indices |-> buffers'.indices]
        /\ lists'.triangles = lists.triangles /\ buffers'.positions = buffers.positions
        /\ buffers'.attributes = a
    BY <2>2
  <2>6. Fit(Len(buffers'.positions), Len(buffers'.attributes), lists'.triangles)
    BY <2>3, <2>4, <2>5
  <2> HIDE DEF Torn, Fit
  <2> QED BY <2>1, <2>5, <2>6 DEF ApplyInv
<1>3. CASE ApplyOverreads
  <2>1. /\ uploading = "attributes" /\ uploading' = "overread"
        /\ Len(lists.normals) > Len(lists.texCoords)
        /\ UNCHANGED <<lists, buffers, fileRead>>
    BY <1>3 DEF ApplyOverreads
  <2>2. Torn
    BY <2>1 DEF ApplyInv
  <2>3. Torn'
    BY <2>1, <2>2 DEF Torn
  <2> QED BY <2>1, <2>3 DEF ApplyInv
<1>4. CASE ApplyIndices
  <2>1. /\ uploading = "indices" /\ uploading' = "done"
        /\ buffers' = [buffers EXCEPT !.indices = lists.triangles]
        /\ lists' = [lists EXCEPT !.triangles = <<>>]
        /\ fileRead' = fileRead
    BY <1>4 DEF ApplyIndices
  <2>2. /\ lists' = [positions |-> lists.positions, normals |-> lists.normals,
                     texCoords |-> lists.texCoords, triangles |-> <<>>]
        /\ buffers' = [positions |-> buffers.positions, attributes |-> buffers.attributes,
                       indices |-> lists.triangles]
    BY <2>1 DEF ApplyInv
  <2>3. Fit(Len(buffers.positions), Len(buffers.attributes), lists.triangles)
    BY <2>1 DEF ApplyInv
  <2>4. /\ lists' = [positions |-> lists'.positions, normals |-> lists'.normals,
                     texCoords |-> lists'.texCoords, triangles |-> lists'.triangles]
        /\ buffers' = [positions |-> buffers'.positions, attributes |-> buffers'.attributes,
                       indices |-> buffers'.indices]
        /\ buffers'.positions = buffers.positions /\ buffers'.attributes = buffers.attributes
        /\ buffers'.indices = lists.triangles
    BY <2>2
  <2>5. Fit(Len(buffers'.positions), Len(buffers'.attributes), buffers'.indices)
    BY <2>3, <2>4
  <2> HIDE DEF Torn, Fit
  <2> QED BY <2>1, <2>4, <2>5 DEF ApplyInv
<1>5. CASE BufferFails
  <2>1. uploading' = "unmapped" /\ UNCHANGED <<lists, buffers, fileRead>>
    BY <1>5 DEF BufferFails
  <2> QED BY <2>1 DEF ApplyInv
<1> QED BY <1>1, <1>2, <1>3, <1>4, <1>5 DEF Apply

(* The parts hold at first. *)
LEMMA UploadInvInit == UploadInit => UploadInv
<1> SUFFICES ASSUME UploadInit PROVE UploadInv
  OBVIOUS
<1>1. ToolInv /\ ShapeInv
  BY ToolInit, ShapeInit DEF UploadInit
<1>2. ApplyInv
  BY DEF UploadInit, ApplyInv, NoLists
<1> QED BY <1>1, <1>2 DEF UploadInv

(* Every step keeps each of the three parts. *)
LEMMA UploadInvStep == UploadInv /\ [UploadNext]_<<tool, generator, upload>> => UploadInv'
<1> SUFFICES ASSUME UploadInv, [UploadNext]_<<tool, generator, upload>> PROVE UploadInv'
  OBVIOUS
<1>1. ToolInv /\ ShapeInv /\ ApplyInv
  BY DEF UploadInv
<1>2. CASE Next /\ UNCHANGED <<generator, upload>>
  <2>1. ToolInv'
    BY <1>1, <1>2, ToolStep
  <2>2. ShapeInv' /\ ApplyInv'
    BY <1>1, <1>2, ShapeStays, ApplyStays
  <2> QED BY <2>1, <2>2 DEF UploadInv
<1>3. CASE Shapes!Next /\ UNCHANGED <<tool, upload>>
  <2>1. ShapeInv'
    BY <1>1, <1>3, ShapeStep
  <2>2. ToolInv' /\ ApplyInv'
    BY <1>1, <1>3, ToolStays, ApplyStays
  <2> QED BY <2>1, <2>2 DEF UploadInv
<1>4. CASE \E f \in DOMAIN disk : LoadFile(f)
  <2>1. PICK f \in DOMAIN disk : LoadFile(f)
    BY <1>4
  <2>2. ApplyInv'
    BY <2>1, LoadFileApplyInv
  <2>3. UNCHANGED tool /\ UNCHANGED generator
    BY <2>1 DEF LoadFile
  <2> QED BY <1>1, <2>2, <2>3, ToolStays, ShapeStays DEF UploadInv
<1>5. CASE SetShape
  <2>1. ApplyInv'
    BY <1>5, SetShapeApplyInv
  <2>2. UNCHANGED tool /\ UNCHANGED generator
    BY <1>5 DEF SetShape
  <2> QED BY <1>1, <2>1, <2>2, ToolStays, ShapeStays DEF UploadInv
<1>6. CASE Apply
  <2>1. ApplyInv'
    BY <1>1, <1>6, ApplyApplyInv
  <2>2. UNCHANGED tool /\ UNCHANGED generator
    BY <1>6 DEF Apply, ApplyPositions, ApplyAttributes, ApplyOverreads, ApplyIndices, BufferFails
  <2> QED BY <1>1, <2>1, <2>2, ToolStays, ShapeStays DEF UploadInv
<1>7. CASE UNCHANGED <<tool, generator, upload>>
  BY <1>1, <1>7, ToolStays, ShapeStays, ApplyStays DEF UploadInv
<1> QED BY <1>2, <1>3, <1>4, <1>5, <1>6, <1>7 DEF UploadNext

(* The lists, the generator's variables and the tool's fit together in every *)
(* state.                                                                    *)
THEOREM UploadInvAlways == UploadSpec => []UploadInv
<1> USE UploadInvInit, UploadInvStep
<1> QED BY PTL DEF UploadSpec

(* RoundTrip: of a file that was closed, the engine reads back the mesh the  *)
(* import found, list by list.                                               *)
THEOREM RoundTripAlways == UploadSpec => []RoundTrip
<1>1. UploadInv => RoundTrip
  BY ToolInvRoundTrip DEF UploadInv
<1> QED BY <1>1, UploadInvAlways, PTL

(* OverreadOnlyWhenTorn: apply() reads behind the texture coordinates only   *)
(* of a file that ends behind the count of normals and before that of        *)
(* texture coordinates.                                                      *)
THEOREM OverreadOnlyWhenTornAlways == UploadSpec => []OverreadOnlyWhenTorn
<1>1. UploadInv => OverreadOnlyWhenTorn
  BY DEF UploadInv, ApplyInv, Torn, OverreadOnlyWhenTorn
<1> QED BY <1>1, UploadInvAlways, PTL

(* DrawnInRange: all indices of a mesh that was uploaded are ones of its     *)
(* vertices, each with attributes, wherever the file it came from ended.     *)
THEOREM DrawnInRangeAlways == UploadSpec => []DrawnInRange
<1>1. UploadInv => DrawnInRange
  <2> SUFFICES ASSUME UploadInv, uploading = "done", NEW k \in DOMAIN buffers.indices
               PROVE  /\ buffers.indices[k] \in 0 .. Len(buffers.positions) - 1
                      /\ Len(buffers.attributes) = Len(buffers.positions)
    BY DEF DrawnInRange
  <2>1. PICK ts, P, N : ts = buffers.indices /\ P = Len(buffers.positions)
                        /\ N = Len(buffers.attributes)
    OBVIOUS
  <2>2. ts \in Seq(Nat) /\ (ts # <<>> => N = P /\ ts \in Seq(0 .. P - 1)) /\ k \in DOMAIN ts
    BY <2>1 DEF UploadInv, ApplyInv, Fit
  <2>3. DOMAIN ts = 1 .. Len(ts)
    BY <2>2, LenProperties
  <2>4. ts # <<>>
    <3>1. Len(<<>>) = 0
      BY EmptySeq
    <3> QED BY <2>2, <2>3, <3>1
  <2>5. ts[k] \in 0 .. P - 1
    BY <2>2, <2>3, <2>4, ElementOfSeq
  <2> QED BY <2>1, <2>2, <2>4, <2>5
<1> QED BY <1>1, UploadInvAlways, PTL

(* Watertight: a generated mesh has neither hole nor overlap, and its        *)
(* triangles face the same way, whatever the resolution.                     *)
THEOREM WatertightAlways == UploadSpec => []Watertight
<1>1. UploadInv => Watertight
  BY ShapeFacesAlike, ShapeWatertight DEF UploadInv, Watertight
<1> QED BY <1>1, UploadInvAlways, PTL
=============================================================================
