---------------------------- MODULE MCResources ----------------------------
(* Data directories for TLC. "Shipped" has the shape of Sandbox/data: a      *)
(* texture, a material on it, a mesh on the material, a mesh file that only  *)
(* the directory walk finds. "Broken" are the ones a hand-written registry   *)
(* can hold: any two entries with any types and dependencies.                *)
EXTENDS Resources

CONSTANTS mesh, mat, tex, bin, app

E(i, t, ds) == [id |-> i, type |-> t, deps |-> ds]

NoTextures == [id \in Ids |-> <<>>]

ShippedTextures == {[NoTextures EXCEPT ![mat] = ts] : ts \in {<<tex>>, <<tex, mesh>>}}

DepLists == {<<>>, <<mat>>, <<mat, tex>>, <<bin, mat>>}

Orders(a, b, c) == {<<a, b, c>>, <<c, b, a>>}

ShippedRegistries ==
  UNION {Orders(E(tex, "Texture", <<>>), E(mat, "Material", md), E(mesh, "StaticMesh", ds)) :
           md \in {<<tex>>, <<bin, tex>>}, ds \in DepLists}

Shipped == [registry : ShippedRegistries, bins : {{}, {bin}}, textures : ShippedTextures]

BrokenEntries == [id : {mesh, mat}, type : {"StaticMesh", "Material", "Texture", "Other"},
                  deps : {<<>>, <<mesh>>, <<mat>>, <<app>>, <<mat, app, mesh>>}]

BrokenRegistries == [1 .. 2 -> BrokenEntries]

BrokenTextures == {[NoTextures EXCEPT ![mat] = ts] : ts \in {<<>>, <<mesh>>, <<app>>}}

Broken == [registry : BrokenRegistries, bins : {{}, {mesh}}, textures : BrokenTextures]

AllDisks == Shipped \cup Broken
=============================================================================
