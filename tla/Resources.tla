----------------------------- MODULE Resources -----------------------------
(* SystemResources: the metadata map, the registry file that fills it, and *)
(* the recursive load(), one step per call, per dependency and per factory, *)
(* so that a dependency that is missing, cyclic or of a type without a      *)
(* factory meets the call stack it meets in the program.                    *)
EXTENDS Integers, Sequences, Functions

CONSTANTS Ids,         \* resource identifiers (strid / u64)
          AppIds,      \* identifiers the application passes to add_resource
          Unloadable,  \* identifiers the application passes to unload
          Disks,       \* the data directories the engine may be started on
          MaxDepth     \* bound: calls of load() the thread's stack can hold

ResourceType  == {"StaticMesh", "Texture", "Material", "Other"}
ResourceState == {"NotLoaded", "Loading", "Loaded"}
Factories     == {"StaticMesh", "Texture", "Material"}

Entry == [id : Ids, type : ResourceType, deps : Seq(Ids)]

(* registry: the entries of registry.yaml; bins: the ids of the *.bin files; *)
(* textures[id]: the texture ids a material file lists.                      *)
Disk == [registry : Seq(Entry), bins : SUBSET Ids, textures : [Ids -> Seq(Ids)]]

ASSUME ConstantsAssumption ==
         /\ AppIds \subseteq Ids
         /\ Unloadable \subseteq Ids
         /\ MaxDepth \in Nat \ {0}
         /\ \A d \in Disks : d \in Disk

VARIABLES disk,          \* the files, which nobody writes while the engine runs
          status,        \* how far initialise() got, "running", or how it ended
          nextEntry,     \* the registry entry load_registry_file is at
          registered,    \* the keys of m_metadataMap
          type, state, resource, dependencies,  \* the metadata's fields
          stack          \* the active calls of load(), outermost first

metadata == <<registered, type, state, resource, dependencies>>
vars     == <<disk, status, nextEntry, metadata, stack>>

(* A call of load(): the metadata's id, the dependency the loop is at, and  *)
(* whether the call is in its dependency loop or inside the factory.        *)
Frame == [id : Ids, next : Nat \ {0}, at : {"dependencies", "factory"}]

Ended  == {"exception", "out_of_range", "undefined", "stack_overflow"}
Status == {"starting", "registry", "running"} \cup Ended

TypeOK == /\ disk \in Disks
          /\ status \in Status
          /\ nextEntry \in 1 .. Len(disk.registry) + 1
          /\ registered \in SUBSET Ids
          /\ type \in [Ids -> ResourceType]
          /\ state \in [Ids -> ResourceState]
          /\ resource \in [Ids -> Factories \cup {"null"}]
          /\ dependencies \in [Ids -> Seq(Ids)]
          /\ stack \in Seq(Frame)

Init == /\ disk \in Disks
        /\ status = "starting"
        /\ nextEntry = 1
        /\ registered = {}
        /\ type = [id \in Ids |-> "StaticMesh"]
        /\ state = [id \in Ids |-> "NotLoaded"]
        /\ resource = [id \in Ids |-> "null"]
        /\ dependencies = [id \in Ids |-> <<>>]
        /\ stack = <<>>

-----------------------------------------------------------------------------
(* initialise() *)

OpenRegistry == /\ status = "starting"
                /\ status' = "registry"
                /\ UNCHANGED <<disk, nextEntry, metadata, stack>>

(* One turn of the loop over the registry's entries. An id that comes twice *)
(* gets the last type and the dependencies of both.                         *)
RegisterEntry ==
  /\ status = "registry"
  /\ nextEntry <= Len(disk.registry)
  /\ LET e == disk.registry[nextEntry] IN
       /\ registered' = registered \cup {e.id}
       /\ type' = [type EXCEPT ![e.id] = e.type]
       /\ state' = [state EXCEPT ![e.id] = "NotLoaded"]
       /\ dependencies' = [dependencies EXCEPT ![e.id] = @ \o e.deps]
  /\ nextEntry' = nextEntry + 1
  /\ UNCHANGED <<disk, status, resource, stack>>

(* The file is missing, or a node of it does not convert. *)
RegistryFails == /\ \/ status = "starting"
                    \/ status = "registry" /\ nextEntry <= Len(disk.registry)
                 /\ status' = "exception"
                 /\ UNCHANGED <<disk, nextEntry, metadata, stack>>

(* The directory walk: register_from_disk on every *.bin file. It makes the *)
(* id a mesh and keeps the dependencies it finds.                           *)
RegisterFromDisk ==
  /\ status = "registry"
  /\ nextEntry = Len(disk.registry) + 1
  /\ registered' = registered \cup disk.bins
  /\ type' = [id \in Ids |-> IF id \in disk.bins THEN "StaticMesh" ELSE type[id]]
  /\ state' = [id \in Ids |-> IF id \in disk.bins THEN "NotLoaded" ELSE state[id]]
  /\ status' = "running"
  /\ UNCHANGED <<disk, nextEntry, resource, dependencies, stack>>

-----------------------------------------------------------------------------
(* load() *)

Top      == stack[Len(stack)]
Pop      == SubSeq(stack, 1, Len(stack) - 1)
InLoop   == stack # <<>> /\ Top.at = "dependencies"
LoopDone == InLoop /\ Top.next > Len(dependencies[Top.id])

(* load(id) is called: by the scene or the application when no call is      *)
(* active, by the dependency loop of the innermost call otherwise.          *)
Calls(id) ==
  /\ status = "running"
  /\ \/ stack = <<>>
     \/ /\ InLoop
        /\ Top.next <= Len(dependencies[Top.id])
        /\ id = dependencies[Top.id][Top.next]

(* The caller, moved past the call it makes. *)
Advanced == IF stack = <<>> THEN <<>>
            ELSE [stack EXCEPT ![Len(stack)].next = @ + 1]

(* m_metadataMap.at(id) throws, here as in unload and get_ptr, and nothing  *)
(* up to main() catches it.                                                 *)
MetadataMissing(id) == /\ Calls(id)
                       /\ id \notin registered
                       /\ status' = "out_of_range"
                       /\ stack' = <<>>
                       /\ UNCHANGED <<disk, nextEntry, metadata>>

\* Mutant: the loop does not move past a dependency it need not load.
MutAlreadyLoaded_Stays(id) == /\ Calls(id)
                              /\ id \in registered
                              /\ state[id] # "NotLoaded"
                              /\ UNCHANGED vars

AlreadyLoaded(id) == /\ Calls(id)
                     /\ id \in registered
                     /\ state[id] # "NotLoaded"
                     /\ stack' = Advanced
                     /\ UNCHANGED <<disk, status, nextEntry, metadata>>

\* Mutant: the resource is marked Loading before its dependencies are visited.
MutEnterLoad_MarksFirst(id) ==
  /\ Calls(id)
  /\ id \in registered
  /\ state[id] = "NotLoaded"
  /\ Len(stack) < MaxDepth
  /\ state' = [state EXCEPT ![id] = "Loading"]
  /\ stack' = Append(Advanced, [id |-> id, next |-> 1, at |-> "dependencies"])
  /\ UNCHANGED <<disk, status, nextEntry, registered, type, resource, dependencies>>

\* Mutant: the state is not tested on entry.
MutEnterLoad_Reloads(id) ==
  /\ Calls(id)
  /\ id \in registered
  /\ Len(stack) < MaxDepth
  /\ stack' = Append(Advanced, [id |-> id, next |-> 1, at |-> "dependencies"])
  /\ UNCHANGED <<disk, status, nextEntry, metadata>>

\* Mutant: the loop starts at the second dependency.
MutEnterLoad_SkipsFirst(id) ==
  /\ Calls(id)
  /\ id \in registered
  /\ state[id] = "NotLoaded"
  /\ Len(stack) < MaxDepth
  /\ stack' = Append(Advanced, [id |-> id, next |-> 2, at |-> "dependencies"])
  /\ UNCHANGED <<disk, status, nextEntry, metadata>>

(* The state is left NotLoaded while the dependencies are visited. *)
EnterLoad(id) ==
  /\ Calls(id)
  /\ id \in registered
  /\ state[id] = "NotLoaded"
  /\ Len(stack) < MaxDepth
  /\ stack' = Append(Advanced, [id |-> id, next |-> 1, at |-> "dependencies"])
  /\ UNCHANGED <<disk, status, nextEntry, metadata>>

StackOverflows(id) == /\ Calls(id)
                      /\ id \in registered
                      /\ state[id] = "NotLoaded"
                      /\ Len(stack) = MaxDepth
                      /\ status' = "stack_overflow"
                      /\ stack' = <<>>
                      /\ UNCHANGED <<disk, nextEntry, metadata>>

NoFactory == /\ status = "running"
             /\ LoopDone
             /\ type[Top.id] \notin Factories
             /\ stack' = Pop
             /\ UNCHANGED <<disk, status, nextEntry, metadata>>

\* Mutant: the empty factory function is called too.
MutBeginFactory_Unchecked ==
  /\ status = "running"
  /\ LoopDone
  /\ state' = [state EXCEPT ![Top.id] = "Loading"]
  /\ stack' = [stack EXCEPT ![Len(stack)].at = "factory"]
  /\ UNCHANGED <<disk, status, nextEntry, registered, type, resource, dependencies>>

BeginFactory == /\ status = "running"
                /\ LoopDone
                /\ type[Top.id] \in Factories
                /\ state' = [state EXCEPT ![Top.id] = "Loading"]
                /\ stack' = [stack EXCEPT ![Len(stack)].at = "factory"]
                /\ UNCHANGED <<disk, status, nextEntry, registered, type,
                               resource, dependencies>>
InFactory == status = "running" /\ stack # <<>> /\ Top.at = "factory"

(* What factory_load_material does with the texture list of the file: it    *)
(* looks every id up, then binds the first one's texture, unchecked.        *)
TexturesKnown(id) == Range(disk.textures[id]) \subseteq registered
\* Mutant: the last texture is bound instead of the first.
MutTextureBindable_Last(id) ==
  /\ disk.textures[id] # <<>>
  /\ resource[disk.textures[id][Len(disk.textures[id])]] = "Texture"
TextureBindable(id) == /\ disk.textures[id] # <<>>
                       /\ resource[disk.textures[id][1]] = "Texture"

FactoryReturns ==
  /\ InFactory
  /\ type[Top.id] = "Material" => TexturesKnown(Top.id) /\ TextureBindable(Top.id)
  /\ resource' = [resource EXCEPT ![Top.id] = type[Top.id]]
  /\ state' = [state EXCEPT ![Top.id] = "Loaded"]
  /\ stack' = Pop
  /\ UNCHANGED <<disk, status, nextEntry, registered, type, dependencies>>

\* Mutant: load() catches and logs what the factory throws.
MutFactoryThrows_Logged == /\ InFactory
                           /\ stack' = Pop
                           /\ UNCHANGED <<disk, status, nextEntry, metadata>>

(* An unreadable material file, a mesh file whose counts cannot be           *)
(* allocated, a staging buffer or command list the device refuses.           *)
FactoryThrows == /\ InFactory
                 /\ status' = "exception"
                 /\ stack' = <<>>
                 /\ UNCHANGED <<disk, nextEntry, metadata>>

FactoryMissesTexture == /\ InFactory
                        /\ type[Top.id] = "Material"
                        /\ ~TexturesKnown(Top.id)
                        /\ status' = "out_of_range"
                        /\ stack' = <<>>
                        /\ UNCHANGED <<disk, nextEntry, metadata>>

(* m_textures[0] of an empty vector, get_handle() on a null texture, or the  *)
(* static_cast of another kind of resource: nothing is claimed from here on. *)
FactoryMisusesTexture == /\ InFactory
                         /\ type[Top.id] = "Material"
                         /\ TexturesKnown(Top.id)
                         /\ ~TextureBindable(Top.id)
                         /\ status' = "undefined"
                         /\ stack' = <<>>
                         /\ UNCHANGED <<disk, nextEntry, metadata>>

-----------------------------------------------------------------------------
(* The application's other calls, made between calls of load(). *)

Idle == status = "running" /\ stack = <<>>

\* Mutant: the state is reset and the resource kept.
MutUnload_KeepsResource(id) ==
  /\ Idle
  /\ id \in Unloadable \cap registered
  /\ state' = [state EXCEPT ![id] = "NotLoaded"]
  /\ UNCHANGED <<disk, status, nextEntry, registered, type, resource,
                 dependencies, stack>>

Unload(id) == /\ Idle
              /\ id \in Unloadable \cap registered
              /\ state' = [state EXCEPT ![id] = "NotLoaded"]
              /\ resource' = [resource EXCEPT ![id] = "null"]
              /\ UNCHANGED <<disk, status, nextEntry, registered, type,
                             dependencies, stack>>

(* add_resource: the type the metadata has is left as it is. *)
AddResource(id, kind) ==
  /\ Idle
  /\ id \in AppIds
  /\ registered' = registered \cup {id}
  /\ state' = [state EXCEPT ![id] = "Loaded"]
  /\ resource' = [resource EXCEPT ![id] = kind]
  /\ UNCHANGED <<disk, status, nextEntry, type, dependencies, stack>>

Terminated == status \in Ended /\ UNCHANGED vars

Load(id) == \/ MetadataMissing(id)
            \/ AlreadyLoaded(id)
            \/ EnterLoad(id)
            \/ StackOverflows(id)

Factory == \/ NoFactory
           \/ BeginFactory
           \/ FactoryReturns
           \/ FactoryThrows
           \/ FactoryMissesTexture
           \/ FactoryMisusesTexture

Initialise == OpenRegistry \/ RegisterEntry \/ RegistryFails \/ RegisterFromDisk

Next == \/ Initialise
        \/ \E id \in Ids : Load(id) \/ Unload(id)
        \/ \E id \in Ids, kind \in Factories : AddResource(id, kind)
        \/ Factory
        \/ Terminated

(* The thread that is inside load() goes on; when to call it is up to the    *)
(* application.                                                              *)
Progress == stack # <<>> /\ (Factory \/ \E id \in Ids : Load(id))

Spec     == Init /\ [][Next]_vars
FairSpec == Spec /\ WF_vars(Progress)

-----------------------------------------------------------------------------
(* A data directory without mistakes: ids used once, types with a factory,  *)
(* dependencies that exist and chains of them no longer than the stack, and  *)
(* materials whose first texture is a texture they depend on.               *)
Entries(d) == Range(d.registry)
Known(d)   == {e.id : e \in Entries(d)} \cup d.bins
Textures(d) == {e.id : e \in {f \in Entries(d) : f.type = "Texture"}}

UniqueIds(d) ==
  /\ \A i, j \in DOMAIN d.registry :
       d.registry[i].id = d.registry[j].id => i = j
  /\ \A e \in Entries(d) : e.id \notin d.bins \cup AppIds
  /\ d.bins \cap AppIds = {}

(* Reached(d)[n]: the ids at the end of n dependencies in a row. *)
Reached(d) ==
  LET R[n \in 0 .. MaxDepth] ==
        IF n = 0 THEN Ids
        ELSE UNION {Range(e.deps) : e \in {f \in Entries(d) : f.id \in R[n - 1]}}
  IN  R

Ranked(d) == Reached(d)[MaxDepth] = {}

MaterialOK(d, e) == LET texs == d.textures[e.id] IN
                      /\ texs # <<>>
                      /\ texs[1] \in Textures(d) \cap Range(e.deps)
                      /\ Range(texs) \subseteq Known(d)

WellFormed(d) == /\ UniqueIds(d)
                 /\ Ranked(d)
                 /\ \A e \in Entries(d) :
                      /\ e.type \in Factories
                      /\ Range(e.deps) \subseteq Known(d)
                      /\ e.type = "Material" => MaterialOK(d, e)

(* The scene asks a handle is_loaded(), which reads the state, and then     *)
(* dereferences the resource, which is another field.                       *)
LoadedMeansPresent == \A id \in Ids : state[id] = "Loaded" <=> resource[id] # "null"

(* A dependency is settled when load() would not touch it, or cannot. *)
Settled(id) == state[id] = "Loaded" \/ type[id] \notin Factories

(* A factory reads other resources through their handles: while one runs,   *)
(* all the dependencies of its resource are loaded, whatever the registry   *)
(* says, cycles included.                                                   *)
FactoryDependenciesReady ==
  \A i \in 1 .. Len(stack) : stack[i].at = "factory" =>
    \A d \in Range(dependencies[stack[i].id]) : Settled(d)

(* A loaded resource keeps its dependencies, but for those the application  *)
(* unloads: unload() looks at no dependants.                                *)
LoadedClosed ==
  \A id \in Ids \ AppIds : state[id] = "Loaded" =>
    \A d \in Range(dependencies[id]) : Settled(d) \/ d \in Unloadable

(* A factory never starts on a resource that is there, though the state is  *)
(* tested before the dependencies are visited and not again after.          *)
NeverRebuilt == [][\A id \in Ids : state'[id] = "Loading" /\ state[id] # "Loading" =>
                     state[id] = "NotLoaded" /\ resource[id] = "null"]_vars

(* A load() that returns has loaded what it was asked for, except where it  *)
(* only logs that the type has no factory.                                  *)
ReturnMeansLoaded ==
  [][stack # <<>> /\ stack' = <<>> /\ status' = "running" =>
       (state'[stack[1].id] = "Loaded" \/ type[stack[1].id] \notin Factories)]_vars

(* On a well-formed directory a load() meets no missing id, no unusable     *)
(* texture and no endless recursion: only a factory's own failure ends it.  *)
WellFormedLoads ==
  [][WellFormed(disk) /\ stack # <<>> => status' \in {"running", "exception"}]_vars

(* And it comes to an end. *)
LoadReturns ==
  \A id \in Ids :
    (WellFormed(disk) /\ stack # <<>> /\ stack[1].id = id)
      ~> (state[id] = "Loaded" \/ status = "exception")

-----------------------------------------------------------------------------
(* The metadata implements the store: ready are the loaded ids, and an id   *)
(* needs its dependencies that a factory can build.                         *)
Ready == {id \in Ids : state[id] = "Loaded"}
Needs == [id \in Ids |-> {d \in Range(dependencies[id]) : type[d] \in Factories}]

Store == INSTANCE ResourceStore WITH needs <- Needs, ready <- Ready

ImplementsStore == Store!Spec
=============================================================================
