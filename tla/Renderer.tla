----------------------------- MODULE Renderer ------------------------------
(* SystemRenderer: what the scene submits during a frame, the ring of frame  *)
(* slots that flush() recycles, and the graphics queue that executes the     *)
(* command lists behind the CPU's back.                                      *)
EXTENDS Integers, Sequences, FiniteSets, Functions

CONSTANTS FRAME_BUFFER_COUNT,  \* frame slots in the ring
          Windows,             \* windows a camera can target
          Views,               \* camera matrices (projection and view)
          Objects,             \* what a draw is made of: mesh, material, transform
          MaxFrames,           \* bound: flushes
          MaxCameras,          \* bound: cameras submitted per frame
          MaxDraws             \* bound: draws submitted per frame

ASSUME RendererAssumption ==
         /\ FRAME_BUFFER_COUNT \in Nat \ {0}
         /\ MaxFrames \in Nat /\ MaxCameras \in Nat /\ MaxDraws \in Nat

Slots    == 0 .. FRAME_BUFFER_COUNT - 1
Camera   == [window : Windows, view : Views]
DrawCall == [instance : Nat, mesh : Nat, material : Nat]
NoView   == "no_view"
NoCamera == [window |-> "no_window", view |-> NoView]  \* of an upload's command list

VARIABLES
  pc,            \* where the thread is: "collect" (outside flush), "wait",
                 \* "record", "submit", or how it ended: "off", "threw"
  frameNo,       \* flushes begun
  frameIndex,    \* m_frameIndex
  frames,        \* m_frames: each slot's fences, semaphores, command lists
  swapchains,    \* the keys of m_swapchainMap
  cameras,       \* m_camerasToRender
  nextCamera,    \* the camera flush() is at
  drawCalls, instances, meshes, materials,
  cameraBuffer,  \* the contents of m_cameraBuffer, which the GPU reads
  requested,     \* the draws asked for in this frame
  lists,         \* every submitted command list: its frame, camera, draws
  freed,         \* the lists given to destroy_command_list
  completed,     \* the GPU has finished lists 1 .. completed
  executing      \* and is executing list completed + 1

scene == <<cameras, drawCalls, instances, meshes, materials, requested>>
gpu   == <<completed, executing>>
vars  == <<pc, frameNo, frameIndex, frames, swapchains, nextCamera, scene,
           cameraBuffer, lists, freed, gpu>>

List      == [frame  : Nat, camera : Camera \cup {NoCamera},
              draws  : Seq(Objects \X Objects \X Objects)]
FrameData == [fences : Seq(Nat), semaphores : Seq(Nat), commandLists : Seq(Nat)]
EmptySlot == [fences |-> <<>>, semaphores |-> <<>>, commandLists |-> <<>>]

TypeOK == /\ pc \in {"collect", "wait", "record", "submit", "off", "threw"}
          /\ frameNo \in Nat
          /\ frameIndex \in Slots
          /\ frames \in [Slots -> FrameData]
          /\ swapchains \in SUBSET Windows
          /\ cameras \in Seq(Camera)
          /\ nextCamera \in Nat \ {0}
          /\ drawCalls \in Seq(DrawCall)
          /\ instances \in Seq(Objects)
          /\ meshes \in Seq(Objects)
          /\ materials \in Seq(Objects)
          /\ cameraBuffer \in Views \cup {NoView}
          /\ requested \in Seq(Objects)
          /\ lists \in Seq(List)
          /\ freed \in SUBSET Nat
          /\ completed \in 0 .. Len(lists)
          /\ executing \in BOOLEAN
          /\ executing => completed < Len(lists)

Init == /\ pc = "collect"
        /\ frameNo = 0
        /\ frameIndex = 0
        /\ frames = [s \in Slots |-> EmptySlot]
        /\ swapchains = {}
        /\ cameras = <<>> /\ nextCamera = 1
        /\ drawCalls = <<>> /\ instances = <<>> /\ meshes = <<>> /\ materials = <<>>
        /\ cameraBuffer = NoView
        /\ requested = <<>>
        /\ lists = <<>>
        /\ freed = {}
        /\ completed = 0
        /\ executing = FALSE

-----------------------------------------------------------------------------
(* The scene's update. *)

(* A window's first camera creates its swapchain. *)
RenderCamera(camera) ==
  /\ pc = "collect"
  /\ frameNo < MaxFrames
  /\ Len(cameras) < MaxCameras
  /\ swapchains' = swapchains \cup {camera.window}
  /\ cameras' = Append(cameras, camera)
  /\ UNCHANGED <<pc, frameNo, frameIndex, frames, nextCamera, drawCalls, instances, meshes,
                 materials, requested, cameraBuffer, lists, freed, gpu>>

(* The swapchain cannot be created: the camera is logged and dropped. *)
DropCamera(camera) == /\ pc = "collect"
                      /\ camera.window \notin swapchains
                      /\ UNCHANGED vars

\* Mutant: one index serves the three vectors.
MutRenderStaticMesh_OneIndex(object) ==
  /\ pc = "collect"
  /\ frameNo < MaxFrames
  /\ Len(requested) < MaxDraws
  /\ instances' = Append(instances, object)
  /\ meshes' = Append(meshes, object)
  /\ materials' = Append(materials, object)
  /\ LET i == Len(instances') IN
       drawCalls' = Append(drawCalls, [instance |-> i, mesh |-> i, material |-> i])
  /\ requested' = Append(requested, object)
  /\ UNCHANGED <<pc, frameNo, frameIndex, frames, swapchains, cameras, nextCamera,
                 cameraBuffer, lists, freed, gpu>>

RenderStaticMesh(object) ==
  /\ pc = "collect"
  /\ frameNo < MaxFrames
  /\ Len(requested) < MaxDraws
  /\ instances' = Append(instances, object)
  /\ meshes' = Append(meshes, object)
  /\ materials' = Append(materials, object)
  /\ drawCalls' = Append(drawCalls, [instance |-> Len(instances'), mesh |-> Len(meshes'),
                                     material |-> Len(materials')])
  /\ requested' = Append(requested, object)
  /\ UNCHANGED <<pc, frameNo, frameIndex, frames, swapchains, cameras, nextCamera,
                 cameraBuffer, lists, freed, gpu>>

(* render_static_mesh without a mesh returns at once. *)
DropMesh == pc = "collect" /\ UNCHANGED vars

-----------------------------------------------------------------------------
(* flush() *)

\* Mutant: the index does not wrap.
MutBeginFlush_NoWrap ==
  /\ pc = "collect"
  /\ frameNo < MaxFrames
  /\ frameNo' = frameNo + 1
  /\ frameIndex' = frameIndex + 1
  /\ pc' = "wait"
  /\ UNCHANGED <<frames, swapchains, nextCamera, scene, cameraBuffer, lists, freed, gpu>>

BeginFlush ==
  /\ pc = "collect"
  /\ frameNo < MaxFrames
  /\ frameNo' = frameNo + 1
  /\ frameIndex' = (frameIndex + 1) % FRAME_BUFFER_COUNT
  /\ pc' = "wait"
  /\ UNCHANGED <<frames, swapchains, nextCamera, scene, cameraBuffer, lists, freed, gpu>>

Slot == frames[frameIndex]

\* Mutant: the slot is recycled without waiting for its fences.
MutRecycleSlot_NoWait ==
  /\ pc = "wait"
  /\ freed' = freed \cup Range(Slot.commandLists)
  /\ frames' = [frames EXCEPT ![frameIndex] = EmptySlot]
  /\ nextCamera' = 1
  /\ pc' = "record"
  /\ UNCHANGED <<frameNo, frameIndex, swapchains, scene, cameraBuffer, lists, gpu>>

\* Mutant: the destroyed command lists stay in the slot.
MutRecycleSlot_KeepsLists ==
  /\ pc = "wait"
  /\ \A fence \in Range(Slot.fences) : fence <= completed
  /\ freed' = freed \cup Range(Slot.commandLists)
  /\ frames' = [frames EXCEPT ![frameIndex].fences = <<>>, ![frameIndex].semaphores = <<>>]
  /\ nextCamera' = 1
  /\ pc' = "record"
  /\ UNCHANGED <<frameNo, frameIndex, swapchains, scene, cameraBuffer, lists, gpu>>

(* wait_on_fence returns for every fence of the slot; then the semaphores    *)
(* and the command lists are destroyed.                                      *)
RecycleSlot ==
  /\ pc = "wait"
  /\ \A fence \in Range(Slot.fences) : fence <= completed
  /\ freed' = freed \cup Range(Slot.commandLists)
  /\ frames' = [frames EXCEPT ![frameIndex] = EmptySlot]
  /\ nextCamera' = 1
  /\ pc' = "record"
  /\ UNCHANGED <<frameNo, frameIndex, swapchains, scene, cameraBuffer, lists, gpu>>

(* flush_camera: the camera's matrices go to the one buffer there is. *)
WriteCameraBuffer ==
  /\ pc = "record"
  /\ nextCamera <= Len(cameras)
  /\ cameraBuffer' = cameras[nextCamera].view
  /\ pc' = "submit"
  /\ UNCHANGED <<frameNo, frameIndex, frames, swapchains, nextCamera, scene, lists, freed, gpu>>

(* geometry_pass: each draw call looks its three indexes up. *)
Resolved(d) == <<instances[d.instance], meshes[d.mesh], materials[d.material]>>

NewList == [frame  |-> frameNo,
            camera |-> cameras[nextCamera],
            draws  |-> [i \in DOMAIN drawCalls |-> Resolved(drawCalls[i])]]

\* Mutant: the fence is not kept.
MutSubmit_NoFence ==
  /\ pc = "submit"
  /\ lists' = Append(lists, NewList)
  /\ frames' = [frames EXCEPT ![frameIndex].semaphores = Append(@, Len(lists) + 1),
                              ![frameIndex].commandLists = Append(@, Len(lists) + 1)]
  /\ nextCamera' = nextCamera + 1
  /\ pc' = "record"
  /\ UNCHANGED <<frameNo, frameIndex, swapchains, scene, cameraBuffer, freed, gpu>>

\* Mutant: the fence kept is one that a later submission is to signal.
MutSubmit_LaterFence ==
  /\ pc = "submit"
  /\ lists' = Append(lists, NewList)
  /\ frames' = [frames EXCEPT ![frameIndex].fences = Append(@, Len(lists) + 2),
                              ![frameIndex].semaphores = Append(@, Len(lists) + 1),
                              ![frameIndex].commandLists = Append(@, Len(lists) + 1)]
  /\ nextCamera' = nextCamera + 1
  /\ pc' = "record"
  /\ UNCHANGED <<frameNo, frameIndex, swapchains, scene, cameraBuffer, freed, gpu>>

Submit ==
  /\ pc = "submit"
  /\ lists' = Append(lists, NewList)
  /\ LET id == Len(lists) + 1 IN
       frames' = [frames EXCEPT ![frameIndex] =
                    [fences       |-> Append(@.fences, id),
                     semaphores   |-> Append(@.semaphores, id),
                     commandLists |-> Append(@.commandLists, id)]]
  /\ nextCamera' = nextCamera + 1
  /\ pc' = "record"
  /\ UNCHANGED <<frameNo, frameIndex, swapchains, scene, cameraBuffer, freed, gpu>>

(* No command list, or no swapchain image: nobody catches the exception. *)
SubmitThrows == /\ pc = "submit"
                /\ pc' = "threw"
                /\ UNCHANGED <<frameNo, frameIndex, frames, swapchains, nextCamera, scene,
                               cameraBuffer, lists, freed, gpu>>

\* Mutant: the loop over the cameras ends one early.
MutEndFlush_SkipsLast ==
  /\ pc = "record"
  /\ nextCamera >= Len(cameras)
  /\ cameras' = <<>>
  /\ drawCalls' = <<>>
  /\ instances' = <<>>
  /\ requested' = <<>>
  /\ pc' = "collect"
  /\ UNCHANGED <<frameNo, frameIndex, frames, swapchains, nextCamera, meshes, materials,
                 cameraBuffer, lists, freed, gpu>>

(* The meshes and the materials are not cleared. *)
EndFlush ==
  /\ pc = "record"
  /\ nextCamera > Len(cameras)
  /\ cameras' = <<>>
  /\ drawCalls' = <<>>
  /\ instances' = <<>>
  /\ requested' = <<>>
  /\ pc' = "collect"
  /\ UNCHANGED <<frameNo, frameIndex, frames, swapchains, nextCamera, meshes, materials,
                 cameraBuffer, lists, freed, gpu>>

(* shutdown(), after a flush: wait_for_device_idle, then the device goes. *)
Shutdown == /\ pc = "collect"
            /\ cameras = <<>> /\ requested = <<>>
            /\ completed = Len(lists)
            /\ pc' = "off"
            /\ UNCHANGED <<frameNo, frameIndex, frames, swapchains, nextCamera, scene,
                           cameraBuffer, lists, freed, gpu>>

-----------------------------------------------------------------------------
(* The graphics queue: one queue, in submission order. *)

GpuStart == /\ ~executing
            /\ completed < Len(lists)
            /\ executing' = TRUE
            /\ UNCHANGED <<pc, frameNo, frameIndex, frames, swapchains, nextCamera, scene,
                           cameraBuffer, lists, freed, completed>>

(* The list's fence and semaphore are signalled. *)
GpuFinish == /\ executing
             /\ executing' = FALSE
             /\ completed' = completed + 1
             /\ UNCHANGED <<pc, frameNo, frameIndex, frames, swapchains, nextCamera, scene,
                            cameraBuffer, lists, freed>>

Flush == BeginFlush \/ RecycleSlot \/ WriteCameraBuffer \/ Submit \/ SubmitThrows \/ EndFlush
Gpu   == GpuStart \/ GpuFinish

Terminated == pc \in {"off", "threw"} /\ ~executing /\ completed = Len(lists)
                /\ UNCHANGED vars

Next == \/ \E camera \in Camera : RenderCamera(camera) \/ DropCamera(camera)
        \/ \E object \in Objects : RenderStaticMesh(object)
        \/ DropMesh
        \/ Flush
        \/ Shutdown
        \/ Gpu
        \/ Terminated

Spec == Init /\ [][Next]_vars

-----------------------------------------------------------------------------
(* A command list is destroyed only when the GPU is done with it: a slot's   *)
(* fences and its lists are kept together until the ring comes round.        *)
FreedAfterUse == \A id \in freed : id <= completed

(* While a frame is recorded, and until the next flush begins, only the last *)
(* FRAME_BUFFER_COUNT frames can have work left on the GPU.                  *)
FramesInFlightBounded ==
  pc \in {"collect", "record", "submit"} =>
    \A id \in DOMAIN lists : id > completed => lists[id].frame + FRAME_BUFFER_COUNT > frameNo

(* Every camera that reaches flush_camera has a swapchain: the assertion at  *)
(* its head, and the map lookup behind it, never fail.                       *)
SwapchainKnown == \A i \in DOMAIN cameras : cameras[i].window \in swapchains

(* Each list of the current frame draws what this frame asked for, each draw *)
(* with its own transform, mesh and material, though only the transforms are *)
(* cleared between frames.                                                   *)
DrawsAreCurrent ==
  pc \in {"record", "submit"} =>
    \A id \in DOMAIN lists : lists[id].frame = frameNo =>
      lists[id].draws = [i \in DOMAIN requested |-> <<requested[i], requested[i], requested[i]>>]

(* A flush that ends has submitted one list per camera, in order.            *)
OneListPerCamera ==
  [][pc = "record" /\ pc' = "collect" =>
       LET first == Len(lists) - Len(cameras) IN
         /\ first >= 0
         /\ \A i \in DOMAIN cameras : /\ lists[first + i].camera = cameras[i]
                                      /\ lists[first + i].frame = frameNo
         /\ \A id \in 1 .. first : lists[id].frame < frameNo]_vars

(* design.md: the geometry pass has the perspective of its camera. The GPU   *)
(* reads the camera buffer while it executes the list.                       *)
CameraMatches == executing => cameraBuffer = lists[completed + 1].camera.view
=============================================================================
