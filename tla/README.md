# A formal model of the Rune engine

Rune is a small game engine: a static library (`Rune/`), an offline asset exporter (`AssetLib/`), a
managed script library (`Rune-ScriptCore/`) and one application (`Sandbox/`). The modules in this
directory model the engine's own logic in TLA+, TLC checks them on small instances, and the TLA+
proof system proves their safety properties for every instance. Paths below are relative to `src/`.

Contents: 1 the system, 2 the modules, 3 resources, 4 renderer and texture uploads, 5 events, 6
engine, 7 scene, 8 meshes, 9 configuration, 10 audio, 11 what is proved and what is only checked, 12
disagreements between documents and code, 13 assumptions and what is left out, 14 plan.

## 1. The system

The engine is one thread. `Engine::run` owns seven *systems*, sorted by a priority, and calls
`initialise`, `update` and `shutdown` on each; systems find each other through
`Engine::get().get_system<T>()` and call each other directly. Next to the thread there are
only the GPU, which runs submitted command lists in its own time, OpenAL, which plays queued buffers
in its own, and the files, of which the engine writes only its log.

| component | state it keeps | operations | interacts with |
|---|---|---|---|
| Engine (`core/engine.cpp`, `entry_point.cpp`) | priority vector, system map, running flag, primary window | register, initialise, run, update, shutdown | owns every system |
| Logging (`core/system_logging.cpp`) | `defaultLogger`, the log file's buffer | `log_*`, `flush` | called by every system |
| Events (`events/system_events.cpp`) | receivers, queued messages | `register_receiver`, `post_event`, `update` | platform posts, renderer receives |
| Platform (`platform/system_platform_glfw.cpp`) | GLFW's init flag, windows | windows, polling, input | GLFW; posts size events |
| Renderer (`rendering/system_renderer.cpp`) | ring of frame slots, swapchain per window, the frame's cameras and draws, one camera buffer | `render_camera`, `render_static_mesh`, `flush`, `shutdown` | graphics library, GPU |
| GPU data (`rendering/material.cpp`, `texture.cpp`, `static_mesh.cpp`) | buffers, textures, descriptor sets | `set_data`, `apply`, `set_textures` | uploads through the graphics library |
| Resources (`resources/`) | metadata map: type, state, dependencies, resource pointer; factory map | registry and directory walk, `load`, `unload`, `add_resource`, `get_ptr` | factories create GPU data |
| Scene (`scenes/system_scene.cpp`) | entity registry of components | `load_scene`, `update` | scripts, resources, renderer |
| Scripting (`scripting/`) | Mono domain, assemblies, classes | `initialise`, `invoke_method`, internal calls | scene's registry |
| Audio (`audio/`) | sources with their file, cursor and stream buffers; audios | create, destroy, loop, play, pause, `update` | OpenAL; called from disabled code only |
| Config, INI reader (`core/config.cpp`, `utility/ini_reader.cpp`) | sections and values | parse, load, get | no caller in the engine |
| AssetLib (`AssetLib/`) | none; writes the mesh format the engine reads | import, export | assimp, files |
| Primitives, I/O, strings (`utility/`, `io/`) | none | tables, file read, hash | |

What is hard in it, and what correct means:

* **Resources.** `load` is recursive, data driven and re-entrant: which calls nest in which is
  decided by a hand-written registry, which may be cyclic, name ids that do not exist or types
  without a factory. The state is tested before the dependencies are visited and set after. Correct:
  a factory runs only on loaded dependencies and never twice, a `load` that returns has loaded,
  `is_loaded` never lies, a sound registry always loads.
* **Renderer.** The CPU recycles a frame slot while the GPU may still execute its lists, and
  textures are uploaded on the same queue between frames. Correct: nothing is destroyed in use,
  nothing of a frame or of an upload leaks, the CPU is never more than the ring ahead, each frame
  draws its own requests, with textures that are there, from its own cameras, `flush` and `set_data`
  return.
* **Events.** Receivers are called while the queue's front is held by reference, and may post.
  Correct: every receiver sees every event once, in order, and `update` leaves nothing behind.
* **Engine.** All orders come from seven numbers and a comparison. Correct: nobody calls a system
  that is not up, nobody logs without a logger, a close request ends the program through the
  complete shutdown with its log written.
* **Scene and scripting.** Three passes over one registry, of which scripts and input change what
  later ones read; meshes are tested before they are drawn, nothing else is. Correct: a frame
  submits each camera and each loaded mesh once and as this frame left it; over files that name what
  they need nothing undefined is reached, except through what the application itself adds that does
  not fit, or a material it unloads under a loaded mesh.
* **Mesh files and meshes.** The asset tool writes in place and may die, the engine reads without
  tests, and `apply` copies lists of different lengths. Correct: what was written whole is read
  back; what is drawn stays in its buffers.
* **Configuration.** Two hash maps and two names for one key between a file and a getter. Correct:
  the answer is what the text says.
* **Audio.** A source streams its file through four buffers that are refilled while OpenAL plays on,
  and can be paused, looped or given another file in the middle. Correct: the listener hears the
  file in order and in a loop, nothing outside it is read, `update` returns.

`PROJECT.json` lists every component with its status, and every hazard with its line.

## 2. The modules

| module | what it is |
|---|---|
| `ResourceStore` | abstract: what the resource system promises (a resource becomes ready when its needs are) |
| `Resources` | `SystemResources`: registry, directory walk, `load` call by call, factories, `unload`, `add_resource` |
| `ResourcesProofs` | theorems about `Resources` |
| `Renderer` | `SystemRenderer` with the GPU's queue |
| `Uploads` | `Texture::set_data` on the renderer's queue; composed with `Renderer` |
| `RendererProofs` | theorems about `Renderer` and about `Uploads` |
| `EventLog` | abstract: one log of events, every subscriber reads it from its first event on |
| `EventQueue` | `SystemEvents`: the queue and `update`, call by call |
| `EventQueueProofs` | theorems about `EventQueue` |
| `Engine` | `Engine::run` and the seven systems' lives; composes `EventQueue` as its event system |
| `EngineProofs` | theorems about `Engine`, with `EventQueueProofs` for its queue |
| `Scene` | `SystemScene` with the scripts' calls into the engine |
| `SceneProofs` | theorems about `Scene` |
| `MeshFiles` | the asset tool and the mesh format, item by item |
| `Primitives` | `generate_plane`, `generate_cube` |
| `MeshUpload` | `StaticMesh::apply` and the mesh factory; composes `MeshFiles` and `Primitives` as the two sources of a mesh |
| `MeshUploadProofs` | theorems about `MeshUpload`, `MeshFiles` and `Primitives` |
| `Config` | `INIReader`, `load_config`, the getters |
| `ConfigProofs` | theorems about `Config` |
| `Audio` | `rune::audio`, with OpenAL playing beside it |
| `AudioProofs` | theorems about `Audio` |
| `MC*` | instances for TLC, one or two `.cfg` files each |

Definitions named `Mut...` are plausible mistakes in the code next to which they stand. No
specification uses them; each records what the property named in `PROJECT.json` excludes.

## 3. Resources

**Correspondence.** `registered`, `type`, `state`, `resource` and `dependencies` are
`m_metadataMap`, field by field, as functions over all ids. `stack` is the C++ call stack of `load`:
a frame holds the metadata's id and where its loop over the dependencies is. `status` is where
`initialise` is, or how the program ended.

| actions | code |
|---|---|
| `OpenRegistry`, `RegisterEntry`, `RegistryFails` | `load_registry_file` in `system_manager.cpp` |
| `RegisterFromDisk` | the directory walk of `initialise` and `register_from_disk` |
| `MetadataMissing`, `AlreadyLoaded`, `EnterLoad`, `StackOverflows` | a call of `load` up to its dependency loop |
| `NoFactory`, `BeginFactory` | the rest of `load` |
| `FactoryReturns`, `FactoryThrows`, `FactoryMissesTexture`, `FactoryMisusesTexture` | the factories in `factory_funcs.cpp` with `Material::set_textures` |
| `Unload`, `AddResource` | the members of those names |

Files are reduced to what the code tests: a registry is a sequence of entries, the `*.bin` files are
a set of ids, and a material file is its list of texture ids. A factory's failures to read or to
allocate are one nondeterministic outcome. The stack's depth is the constant `MaxDepth`; exceeding
it ends the program as a real overflow does.

**Run.** `resources` (487,668 states) takes two kinds of directories. The first has the shape of
`Sandbox/data`, in both orders of the registry, with dependencies repeated, transitive or found only
by the directory walk: four chained types exercise every branch of `load`. The second is *every*
registry of two entries over two ids, four types and five dependency lists: duplicate ids,
self-cycles, two-cycles, missing ids, unknown types, materials without a usable texture, a `.bin`
file with an entry's id. The application loads, unloads the texture and the mesh and adds a resource
in between. A stack of four lets each cycle go round twice. Checks

* `FactoryDependenciesReady`, `NeverRebuilt`: a factory runs only on settled dependencies, and never
  on a resource that is there;
* `ReturnMeansLoaded`, `LoadedMeansPresent`, `LoadedClosed`: a `load` that returns has loaded,
  `is_loaded` agrees with the pointer, loaded resources keep their dependencies;
* `WellFormedLoads`, `LoadReturns`: a directory without a cycle never ends in a missing id, an
  unusable texture or an overflow, and `load` ends;
* `ImplementsStore`: the recursive `load` implements `ResourceStore`.

Two ids suffice for the cycles because what a cycle can break, a nested call that overtakes the
outer call of the same resource, needs one resource that is reached from itself; the proofs remove
the bound.

**What the run shows.** `load` visits dependencies before it marks the resource `Loading`. A cyclic
registry therefore recurses until the stack overflows, and never runs a factory early or twice.
Marking first, the obvious repair, would end the recursion and run factories on dependencies that
are not loaded: `MutEnterLoad_MarksFirst` violates `FactoryDependenciesReady`.

## 4. Renderer and texture uploads

**Correspondence.** `frames`, `frameIndex`, `swapchains` (the keys of the map), `cameras`,
`drawCalls`, `instances`, `meshes`, `materials` and `cameraBuffer` are the members. `lists` is the
history of submitted command lists; a list's number is also the number of its fence and semaphore,
since one submission makes the three. The GPU executes lists one at a time in submission order,
which is what one graphics queue with signalled fences guarantees: `completed` counts the finished
ones, `executing` says that the next one has begun. `requested` records what the scene asked for in
this frame, for the properties only.

| actions | code |
|---|---|
| `RenderCamera`, `DropCamera` | `render_camera` with `create_swapchain` |
| `RenderStaticMesh`, `DropMesh` | `render_static_mesh` |
| `BeginFlush`, `RecycleSlot`, `EndFlush` | `flush` |
| `WriteCameraBuffer`, `Submit`, `SubmitThrows` | one turn of `flush_camera` with `geometry_pass` |
| `Shutdown` | `shutdown` |
| `GpuStart`, `GpuFinish` | external: the graphics queue |

A `flush_camera` is two steps because the buffer it writes is visible to the GPU before the list it
submits is. The thread and the GPU interleave at every step.

`Uploads` adds `Texture::set_data`, which the texture factory calls between two frames. Its command
lists go to the same queue and into the same history (`lists`, with no camera and no draws), and
belong to no frame slot: `uploads` says which list copies to which texture, `staging` which staging
buffers live, `pixels` which textures have their contents. `Renders` restricts the scene to objects
whose load has returned.

| actions | code |
|---|---|
| `SetData` | the texture, untested, and the staging buffer are created |
| `MapStaging` | the texture is there and the staging buffer is mapped and filled, or one of them, untested further on, is not |
| `SubmitUpload`, `FinishUpload` | the command list, its submission, the wait and the destruction |
| `SetDataThrows` | no staging buffer or no command list |
| `GpuCopies` | external: the queue executes the copy from the staging buffer that lives then |

**Runs.** `renderer` (546,281 states) has two slots (as `FRAME_BUFFER_COUNT` is), one window, up to
two cameras and one draw a frame, two textures loaded between frames, and three frames: the third is
the first to recycle a slot, and the vectors that are cleared and those that are not drift apart
twice. More frames, and more draws in a frame, are the proofs' part. `renderer_camera` is section
12. Checks

* `FreedAfterUse`: a command list, of a frame or of an upload, is destroyed only after the GPU has
  finished it;
* `OwnedOnce`: every list is destroyed, or owned by exactly one slot, or waited for by `set_data`
  (no leak, no double destroy), and a staging buffer lives exactly as long as its upload;
* `FramesInFlightBounded`: work in flight belongs to the last `FRAME_BUFFER_COUNT` frames;
* `DrawsAreCurrent`: the draws of a list are the frame's requests with their own transform, mesh and
  material although `m_meshes` and `m_materials` are never cleared;
* `Prepared`: every camera that reaches `flush_camera` has its swapchain, and when the GPU executes
  a draw, the copy to its texture is through, unless the texture could not be created or the staging
  buffer not be mapped: then the texture's contents are undefined and nothing tells. `MapStaging`
  decides of both, since the code goes on either way until there;
* `OneListPerCamera`: a `flush` submits one list per camera, in order;
* `CallsReturn`: `flush` and `set_data` return.

**Fairness.** A thread inside `flush` or `set_data` runs on, and the GPU executes what is submitted.
Calling them is not assumed fair: when frames are made and textures loaded is up to the engine.

## 5. Events

**Correspondence.** `receivers` and `messages` are `m_receivers` and `m_messages`; `current` is
where the loop over the receivers is, so an `update` is interrupted between any two calls. `posted`,
`first` and `seen` are history. `PostEvent` is enabled inside `update` too, because a receiver may
post. `RegisterReceiver` is not: the loop iterates over the vector, no receiver of the repository
registers another, and one that did would invalidate the iterator.

**Run.** `events` (47,562 states): three receivers that register at any time, four events of two
kinds. (Types are `Engine`'s `TypeOK` and a theorem.) Three is the least number with a receiver that
is neither first nor last; four events leave two queued while two are being delivered. Checks that
receivers advance in lock step (`LockStep`), that `update` returns with nothing queued and every
receiver up to date, also with what receivers post meanwhile (`UpdateDrains`), and the refinement of
`EventLog`.

## 6. Engine

**Correspondence.** `Registrations` is the table that `Engine::initialise` passes to
`set_system_priority`, `order` is `m_systemPriorityVec`, `at` is the loop of the current phase.
`logger` is `defaultLogger`, dereferenced without a test by every log function, so that logging with
no logger is the state `crashed`. `unflushed` says whether the file misses logged lines. The event
system is an instance of `EventQueue` on the same variables; the platform's poll is the only poster,
the renderer's receiver the only receiver, as in the code.

Who calls whom is read off the `get_system` calls and log macros, by the time of the call:
`AtInitialise` and `AtShutdown` are what a system's own `initialise` and `shutdown` call, `AtRun`
what its update, receiver, callbacks, factories and script glue call while `run` works, `RunCalls`
what `run` calls itself. While `run` works the calls go in both directions: the scene invokes
scripts, and their glue goes back to the scene, whose priority is lower. A single order of
dependencies would be false, so `CalledAreUp` asks at each phase for what that phase calls.

`Register` inserts at any position that leaves the vector sorted, which is all that `std::sort`
promises. `InitialiseThrows`, `LoadSceneThrows` and `FlushThrows` are the exceptions that reach
`main`. `InitialiseUndefined` and `CreateWindowUndefined` are the failures that do not get that far:
`load_mono_assembly` dereferences what it could not read, ahead of the test that would throw, and a
callback is set on a window that was not created.

**Runs.** `engine` (3,734 states): a whole life with up to four events of two kinds. Checks that
nobody logs without a logger (`NeverCrashes`), that no call goes to a system that is not up
(`CalledAreUp`), that an event is delivered in the frame after the one that polled it at the latest
(`EventsWithinAFrame`), that a program that returns is shut down and flushed (`CleanExit`), and that
a close request ends the program (`CloseEnds`). `engine_exception` is section 12.

**Fairness.** Weak fairness of the one thread's next step. It is enough although polling may post
again and again, since the number of events is bounded by `MaxEvents`; in the program,
`glfwPollEvents` returns when the window system's queue is empty, which is the same assumption.

## 7. Scene

**Correspondence.** `registry` is `m_registry`: the live handles with their components, `created`
the next handle. `loaded` is the set of resources whose handle answers `is_loaded`; a `load` is one
step with its outcome here, since `Resources` has its inside. `pc`, `todo` and `self` say where
`update` is: which view, which entities of it are left, whose script runs. `lastCursorPos` and
`yawPitch` are the members all cameras share; `cursor` is where the platform says the cursor is, and
each camera asks anew. `views` and `draws` are what the frame has passed to `render_camera` and
`render_static_mesh`. History, for the properties only: `polled` keeps the frame before, an entity's
`written` the components the application wrote, `unloaded` the resources it unloaded and no load
has made again.

| actions | code |
|---|---|
| `LoadScene`, `LoadEntity`, `LoadThrows`, `LoadReturns` | `load_scene`, `load_yaml_scene`, one entity node at a time |
| `CreateEntity`, `DestroyEntity`, `ClearScene`, `AddComponent`, `AddScript`, `AddRenderer`, `SetWindow` | the public members; script and renderer with any class, mesh and material |
| `Unload` | `unload` of the resource system, of any id, between frames |
| `BeginUpdate`, `InvokeScript`, `ScriptReturns`, `EndScripts` | the first pass and `invoke_method` |
| `ScriptAsks`, `ScriptMoves`, `ScriptCreates`, `ScriptDestroys` | the internal calls in `script_glue.cpp` |
| `SkipCamera`, `RunCamera`, `EndCameras` | the second pass with its input |
| `SkipMesh`, `DrawMesh`, `EndUpdate` | the third pass; then the flush, where `geometry_pass` follows each draw's material |

A view is iterated in any order. Positions and angles are small sets: what the properties tell apart
is *whose* and *when*. The entity a script makes with `Entity.Create` has no component, so that no
running view can come to it.

**Run.** `scene` (1,509,317 states): ten scene files, the shipped one (a scripted camera, a mesh
with its material) and nine that a hand can write (no material, materials and meshes swapped, a type
without a factory, an unknown id, a class that does not exist, a script on an entity without the
component it asks for, one that destroys its entity, a malformed field). Two entities, two frames
and one call of the application between them: two cameras on one window are the least that share a
cursor, two frames the least for a way of the cursor, three cursor positions the least whose ways
differ in both directions, and one call is enough to unload what a loaded mesh is drawn with. A list
of materials the application writes has at most one element (`Lists`), the only one drawn with;
files have lists of two, and the proofs do not use the bound on calls. Checks

* `NothingUndefined`: over files whose nodes fit (`WellFormedNode`: a mesh, a first material and a
  class that are what they are used for), `update` has no defined outcome only while some entity has
  a mistake that the application made itself (`AtFault`): a script or a renderer it wrote that does
  not fit, or a material it unloaded, or never loaded, under a mesh that is loaded. The model has
  all of those, and their undefined outcomes. What is excluded is every other way: loading further
  files and the same again, unloading meshes, destroying entities, clearing the scene, changing
  components and windows, scripts and input. `update` tests the mesh only; that materials are ready
  rests on `load_yaml_scene` having loaded them.
* `FrameComplete`: at the end of a frame the renderer has every camera with a window and every
  entity with a loaded mesh once, with the transform the scripts and the cameras' input of this
  frame left.
* `CursorCountedOnce`: however many cameras, and however the cursor moves while they ask for it one
  after the other, its way since it was last asked for turns the shared angles once, and only while
  the button is held: sideways always, up and down as long as no camera of the frame looks at the
  limit. The last camera looks along the angles that remain. After frames without a camera the way
  since the last frame with one counts, as the code has it.
* `TypeOK`, with the pitch inside its limit.

The engine stops after an exception or an undefined step, so deadlock is not checked.

## 8. Meshes

`MeshFiles` is the asset tool: `ProcessNode` and `ProcessMesh` are the import's traversal (assimp's
scene is given), `Exported` and `ReadMesh` the writer and the reader. A vertex, an index or a count
is one item; the only integer whose width can matter, the number of submeshes in a byte, is taken
modulo `Byte`. `Open`, `Write` and `Close` write a file item by item and `Killed` stops the tool
anywhere, which stands for a full disk too: no write is tested. The reader past the end leaves
counts at zero and elements at zero, as the untested `read` calls do.

`Primitives` is the two generators, vertex by vertex and cell by cell. Lengths are exact: in steps
of the grid, or of half an edge.

`MeshUpload` composes them: the engine takes a mesh from a file, in whatever state the tool has left
it by then, or from a generator, and `apply` copies it into three buffers, each of which may not be
made.

**Run.** `meshes` (200,069 states): four inputs, with a mesh under two nodes, one without
attributes, a line among triangles, an input without meshes and two inputs of the same stem; every
plane up to three by three and the cube. Checks

* `RoundTrip`: a closed file is read back as the mesh it was written for.
* `OverreadOnlyWhenTorn`: `apply` reads behind its texture coordinates only for a file that ends
  between the normals' count and the texture coordinates', a finding about torn files that the
  interval states exactly.
* `DrawnInRange`: every index that is drawn has a position and attributes, from whichever source and
  however torn.
* `Watertight`: all triangles of a generated mesh turn the same way, every side is
  used once in each direction, and sides used once are the plane's border. (A plane and a cube turn
  opposite ways, and `generate_cube` replaces its `size` by one half; no document says otherwise.)

Three by three is enough for a cell with neighbours on all four sides. `mesh_names` is section 12.

## 9. Configuration

`Config` reads a file line by line: `content` and `lineIndex` are the stream, `section` the local
variable, `sectionMap` and `errors` the reader's members, `toCopy` what the loops of `load_config`
have still to copy, in any order. Lines are abstracted to their kind, name and value; dotted names
keep their parts, because `a` with `b.c` and `a.b` with `c` become one key. `GetInt` (also
`get_bool`) and `GetFloat` convert what `GetString` finds: `stoi` and `stof` accept different texts
(`Ints`, `Floats`), throw on the others, and see the default as `std::to_string` wrote it, a float's
with six decimals. A file is what comes before its first NUL: `parse` passes `content.data()` on,
so that text after a NUL is dropped without an error, which `NothingLostSilently` does not cover.

**Run.** `config` (316,873 states): two loads, one after the other, of 129 files: all of two lines
over eight, all of three lines over four, and the one that spells a key twice. `AnswersFromFiles`
compares every getter's answer with a definition that reads the texts without the machine: the last
file that has the key, the last line for it in its section, any of the sections that spell it.
`NothingLostSilently`: a line that is in no section afterwards is blank, named in the errors, or
replaced by a later one. Two lines are enough for an overwrite and for an unclosed section followed
by a pair, three for such a pair between two sections.

## 10. Audio

**Correspondence.** `sources` is `g_sources` and `audios` `g_audios`; a byte of a file is its
position in it, so a buffer's contents say where they were taken from. `voices` is OpenAL's own
state of a source: its queue, how many buffers at its head are played, whether it plays, loops, is
paused or has run dry. `todo`, `current` and `left` say where `update` is; `left` is
`buffersProcessed`, read once. `Plays` is OpenAL's step and interleaves with every other: between
the question how many buffers are played and the refilling of the first, the next may be played too.

| actions | code |
|---|---|
| `Initialise`, `InitialiseFails`, `Shutdown` | the functions of those names; after a failure every call goes to OpenAL without a context, and every source is number 0 |
| `CreateAudio`, `DestroyAudio`, `CreateSource`, `DestroySource`, `SetSourceLoop`, `SourcePlay`, `SourcePause` | the functions of those names |
| `SourcePlayFile`, `SourcePlayRejected`, `PlayUnknown` | `source_play` with a file, with one of an unknown format, and of a source that is gone |
| `BeginUpdate`, `VisitSource`, `Refill` | `update` and one turn of `update_stream`'s loop |
| `Plays` | external: a buffer is played to its end |

**Run.** `audio` (603,529 states): two buffers of two bytes instead of four of 65,536, and files
without data, as long as the first buffers, and longer by a part of a buffer, which makes the wrap
fall inside a buffer; two sources, or two plays. Scaling both numbers down keeps each of the three
cases of a refill (inside, up to the end, around it). Checks

* `StreamInOrder`: each source's queue holds its buffers once each, and their bytes are the file's
  in order, from its end on to its front, up to where the cursor is; after a second play the rest of
  the first one comes first. It says nothing more once OpenAL has refused a buffer, which happens
  when the second file has another format or sample rate (`Formats` stands for both): the code logs
  the error and keeps the buffer names.
* `ReadsInRange`: the only reads outside a file's data are those of the first buffers, which
  `source_play` takes unchecked. At this commit the decoder's call is commented out, so that the
  data is always empty and every play is such a read. A refill whose cursor is at the end takes the
  address of the element behind the last one to copy no bytes from it; that the index alone is
  formally undefined is left out.
* `UpdateReturns`: `update` ends although OpenAL plays on. On a source that ran dry each buffer
  counts as played once it is queued, and it is the count being read once that ends the loop.
* `TypeOK`, of which the count of played buffers within the queue is what `update` relies on.

**Fairness.** The thread inside `update` runs on; nothing is assumed of OpenAL or of the calls.

## 11. What is proved and what is only checked

Every safety invariant and every action property that a passing run checks is a theorem of its
specification; so are the refinements of `ResourceStore` and `EventLog`. The theorems hold for every
value of the constants under the named assumptions, which say no more than what a constant is:

| assumption | what it says |
|---|---|
| `ConstantsAssumption` | the stack has a depth; data directories are directories; the application's ids are ids |
| `RendererAssumption` | the ring has a slot; the other bounds are numbers |
| `EventQueueAssumption`, `EngineAssumption` | the number of events is a number |
| `SceneAssumption` | scene files are sequences of entities; classes are names other than the absent one, cursors points with integer coordinates, resource types are that |
| `InputsAssumption` | what assimp guarantees of a triangulated scene: children are numbered after their parent, nodes name meshes that exist, faces have one to three indices of existing vertices; `Byte` is above 1 |
| `ResolutionsAssumption` | a plane has a number of cells in each direction |
| `ConfigAssumption` | files are sequences of lines |
| `AudioAssumption` | buffers have a number and a size; the bound on buffer names allows for one play |

So where a run has two slots, three events, two lines or a grid of three by three, the theorem has
any number. Each proof module has an inductive invariant, mostly `Inv`. It holds in the states of
the module's run (`tlc` finds it an invariant there, except for `UploadInv`, which quantifies over
all numbers). It is stronger than the properties because hardly any of those is inductive.

**`ResourcesProofs`**, for every set of data directories, cyclic ones included, and every stack
depth. `Inv` adds that every call but the innermost waits at the dependency whose call is above it
(`Chained`), that the dependencies before that one are settled (`Visited`), that states on the stack
are what the code left (`FrameState`, `LoadingIsTop`), and `NoLap`: of two calls of the same
resource on the stack, the inner one has not got as far as the dependency at which the outer one
waits. `NoLap` is why the untested state after the loop does no harm: a call that finishes its loop
is the only call of its resource, so no outer call runs its factory again. From `Inv` follow
`TypeCorrect`, `FactoryIsReady`, `LoadedIsPresent`, `LoadedIsClosed`, `NothingRebuilt`,
`ReturnIsLoaded` and `ImplementsResourceStore`. `WellFormedIsLoaded` needs more, for directories
without mistakes only (`Sound`): the entries read so far are in the metadata as written and the
files of the directory are registered (`EntriesRead`), what a factory made is of the resource's type
(`OfItsType`), and the call at depth `i` is of a resource that `i - 1` dependencies lead to
(`Descending`), so that a directory without so long a chain does not fill the stack.

**`RendererProofs`**, for every ring length, every number of windows, cameras, draws, frames and
textures. For `Renderer` alone, `Inv` adds that a slot's fences are the numbers of its lists
(`Fenced`) and belong to the last frame that had this slot (`Dated`), that every list is destroyed
or in its frame's slot (`Located`), and that the draw calls index the ends of the three vectors
(`Drawn`). With `InOrder` (the lists submitted so far are of the cameras so far) follows
`EveryCameraOnce`. For `Uploads`, `UInv` weakens `Located` by the one list that `set_data` is
waiting for, and adds that uploads happen only between frames (`Calling`), that no two places hold
the same list (`Single`, `Kept`, `Owned`), that the staging buffer is the upload's (`Staged`), and
that a loaded texture is copied or was never mapped (`Copied`, `DrawsLoaded`). From it follow
`OwnedExactlyOnce`, `PreparedBefore`, `UploadsTypeCorrect`, and all properties of the renderer
again, for the renderer with uploads on its queue.

**`EventQueueProofs`**, for every set of receivers and events. `Inv` relates the queue to the end of
`posted` (`Backlog`) and each receiver's place to what has been popped and to the loop's index
(`Position`). From it follow `TypeCorrect`, `ReceiversInStep`, `UpdateLeavesNothing` and
`ImplementsLog`.

**`EngineProofs`**, for every set of events. `Ordered`: the vector is the table of registrations up
to where the loop is; since no two priorities are equal, `std::sort` has no choice, which is proved
from the table. `Standing`: the systems that are up are those at the front of the order, as many as
the loop has started or has not yet shut down; from the first one on until the last is shut down
there is a logger. `Dispatching` and `ThisFrame` say when receivers are called and that after the
events' turn only this frame's events are queued; the queue's own invariant is that of
`EventQueueProofs`. From these follow `LoggerWhenNeeded`, `NoneCalledWhenDown` (by the place in the
order at which a system is started and stopped, and because all seven are up in between),
`DeliveredWithinAFrame` and `ReturnsClean`; `DrivesTheQueue` shows that the engine makes only steps
of `EventQueue`, so that `DeliversTheLog` holds of the whole program.

**`SceneProofs`**, for all scene files, classes, cursors and numbers of entities and frames.
`Sound`: as long as loaded files fit, every live entity is ready (`Ready`: a renderer and a script
that the application did not write fit, and such a renderer's first material is loaded or was
unloaded), and an undefined outcome comes with a mistake of the application's (`Faulty`). `Phases`
says which entities the view of each pass may still hold. `Turning`: until a camera has run, angles
and cursor are the last frame's (`Before`), afterwards they are turned by the way so far
(`Counted`), whatever the cursor does between two cameras. `Handed`: cameras and meshes passed so
far are those the view has left behind. From them follow `TypeCorrect`, `UpdateIsDefined`,
`FrameIsComplete` and `CursorCounts`.

**`MeshUploadProofs`**, for every set of inputs, every resolution and every moment at which the tool
dies or the engine reads. `UploadInv` has three parts. `ToolInv`: a file on disk is a beginning of
the items of one exported mesh whose lists fit each other. `ShapeInv`: the lists a generator has
filled so far are the grid up to the loop's position, and its triangles are the two of each cell
passed. `ApplyInv`: the lists the engine holds, and the buffers made so far, fit. From them follow
`RoundTripAlways`, `OverreadOnlyWhenTornAlways`, `DrawnInRangeAlways` and `WatertightAlways`. The
last one needs of a grid that two cells share a side only as neighbours, once each way; the cube's
twelve triangles are calculated.

**`ConfigProofs`**, for every set of files, whatever their length, and every number of loads.
`Parsing`: sections and errors are what the lines read so far say. `Copying` and `Table`: a key in
the table is as the loads before left it, or as one of the sections already copied says. From them
follow `AnswersAreTheFiles` and `NoLineIsLost`.

**`AudioProofs`**, for every number and size of buffers, sources and files. `Claimed`: what `update`
counted and has not refilled is still queued and played (`CountedStaysPlayed`), because only
`update` takes buffers off. `Fitting`: a source's cursor is inside its file. `Sounding`: a queue
holds the source's buffers once each and their bytes follow each other. From them follow
`TypeCorrect`, `NeverReadsOutside` and `StreamsInOrder`.

**How recursion is reasoned about.** What a definition computes for all data is proved by the
principle that a set of numbers that is not empty has a least one (`WFMin` and
`NatLessThanWellFounded` of the library), applied to the set of counterexamples: the traversal of
the node tree, flattened lists and the last of a key's lines are treated so. That the recursive
function `Reached` of `Resources` exists is proved by giving it row by row (`ReachedIs`).

**Only model-checked.**

* Liveness: `LoadReturns`, `CallsReturn`, `CloseEnds`, `UpdateReturns`. Fairness and `ENABLED` are
  not in the prover's reach.
* The four statements of section 12, which are false, and which mutants break which property.

## 12. Where documents and code disagree

Four runs are expected to find a violation; each checks one statement of the repository.

* `renderer_camera`: the geometry pass should have its camera's perspective (`design.md:31-32`).
  There is one `m_cameraBuffer`, overwritten by `flush_camera` while earlier lists that read it may
  be in flight. The trace submits a frame, begins the next before the GPU is done, and the GPU
  executes the first list with the second frame's matrices. One camera that moves is enough; two
  cameras in one frame do the same.
* `engine_exception`: an exception at the entry point should flush the log before the program closes
  (`design.md:16-17`). The handlers in `entry_point.cpp` are compiled out, so nothing does.
* `scene_component`: `GetComponent` of the script library returns null when the entity does not have
  the component (`Entity.cs:33-34`). It asks `Entity_HasComponent`, which takes the component's
  address with `registry.get` and compares it with `nullptr` (`script_glue.cpp:38`): undefined when
  the component is missing, and never null. The trace needs one scripted entity without a transform.
* `mesh_names`: the tool says `Imported {} separate meshes` (`main.cpp:111`) and puts a number in
  each file name, but its loop never advances the number (`main.cpp:127-130`). All meshes of an
  input go to one file and the last one remains.

## 13. Assumptions and what is left out

* The graphics library, GLFW, Mono, EnTT, OpenAL, assimp and yaml-cpp are not part of the
  repository's source. Where the engine's logic rests on them they are modelled from their use:
  fences are signalled in order, size callbacks run inside the poll, a thrown conversion error ends
  `initialise`.
* A failing `RUNE_ASSERT` traps in debug builds and is nothing in distribution builds. States in
  which one could fail are properties (`SwapchainKnown` in `Prepared`) or outcomes
  (`FactoryMisusesTexture`). Builds without logging macros cannot dereference the logger; `Engine`
  models the others.
* After undefined behaviour (`undefined`) nothing is claimed.
* `Renderer` is called with a material list that is not empty; when the scene does so is `Scene`'s
  `NothingUndefined`.
* An entity registry does not hand out a handle twice (EnTT's versions, whose wrap is left out).
  Component types are registered under MSVC's names of types; GCC's mangled names are found by no
  managed type, and no script could ask for a component at all.
* A reference passed by `Entity.Destroy` is taken for a handle by its bits, which is undefined in
  `ScriptDestroys`; `Entity.Create` does not return its handle to the script.
* The engine reads a mesh file in one step. A read that the tool's writing overtakes sees a longer
  prefix of the same file; one during which the tool opens the file again, and so truncates it, may
  see the end of nothing or the beginning of another mesh, which is left out.
* Rounding of `f32` sums in the generators and the text of INI lines are left out, what follows a
  NUL in an INI file included.
* Only the code paths with a caller at this commit are given actions of the engine's thread;
  `unload` and `add_resource`, which have none, are calls of an application between loads.
* The remaining platform members, input state and window queries forward to GLFW and keep no state.
* Configuration, generators and audio have no caller in the engine at this commit and are modelled
  from their own code.
* Nothing destroys what a mesh, a texture or a material made on the GPU, so that an unload and a
  second load leak, as do the OpenAL buffers of a second play, of an audio of unknown format and of
  a destroyed source. `Audio` counts buffer names (`names`); no property is about leaks, which are
  what the code plainly does. `Uploads` loads each texture once.
* A source that ran dry is not started again, and `update` goes on to move its cursor by the number
  of its buffers in each call: what it would play is skipped. No document says what is meant.
* The depth attachment has a fixed size; windows are not resizable. When a presentation has consumed
  the semaphore that `flush` destroys is the graphics library's matter.
* Volume, pitch, position and velocity are passed to OpenAL and keep nothing in the engine.
* The script core library and I/O helpers keep no state. The tool's wildcard match and options are
  left out; its batch export is empty.

## 14. Plan

Every component with state of its own is modelled, checked and proved about. Left:

1. **Progress without fairness.** The four liveness properties stay with TLC. What the prover can
   say of them are the measures behind them, as action properties: a `Refill` lowers `left`, the
   calls on the stack advance or descend, `flush` waits only for lists that are in the GPU's queue.
2. **Hazards without a property** that a model could carry: the growth of `m_meshes` and
   `m_materials`, and what an unload and a second load leak. Both need a bound that no document
   states.
3. **Upkeep.** `MeshUploadProofs` is the longest module. Its lemmas on grids and on beginnings of
   sequences are general and could be shared if more of the formats were modelled.

Most of the C and C++ lines of the repository are vendored (`Rune/libs/include`: the headers of
Mono and `stb_image.h`) and are not modelled; the engine's own code is about 5,300 lines, of which
the map names those that keep or change state. What it leaves out are declarations, tables of key
codes, getters that forward a call, and creation parameters of graphics objects.

To repeat the checks: `tlc -config MCResources.cfg MCResources`, likewise for the other
configurations, and `tlapm ResourcesProofs.tla`, likewise for the other proof modules.
