--------------------------- MODULE RendererProofs --------------------------
(* Theorems about Renderer and about Uploads, for every number of frame      *)
(* slots, windows, cameras, draws and textures. First the renderer alone;    *)
(* then its invariant carries over to a renderer whose queue also takes the  *)
(* copies of set_data.                                                       *)
EXTENDS Uploads, SequenceTheorems, FiniteSetTheorems, TLAPS

N == FRAME_BUFFER_COUNT

-----------------------------------------------------------------------------
(* The inductive invariant. Walking the ring backwards from frameIndex, the  *)
(* slots hold the work of the current frame, the one before, and so on; the  *)
(* slot a flush is about to recycle still holds the frame N flushes ago.     *)

SlotFrame(s) == IF s <= frameIndex THEN frameNo - (frameIndex - s)
                                   ELSE frameNo - (frameIndex + N - s)

Dated == \A s \in Slots : \A id \in Range(frames[s].fences) :
           /\ id \in 1 .. Len(lists)
           /\ lists[id].frame = IF pc = "wait" /\ s = frameIndex THEN frameNo - N
                                                                 ELSE SlotFrame(s)

Fenced == \A s \in Slots : Range(frames[s].fences) = Range(frames[s].commandLists)

Located == \A id \in 1 .. Len(lists) :
             id <= completed \/ \E s \in Slots : id \in Range(frames[s].fences)

NotLater == \A id \in 1 .. Len(lists) :
              /\ lists[id].frame <= frameNo
              /\ pc = "wait" => lists[id].frame < frameNo

CameraLoop == pc = "submit" => nextCamera <= Len(cameras)

(* A draw call's three indexes are those of one request. *)
Drawn == /\ Len(drawCalls) = Len(requested)
         /\ \A i \in 1 .. Len(drawCalls) :
              /\ drawCalls[i].instance \in 1 .. Len(instances)
              /\ drawCalls[i].mesh \in 1 .. Len(meshes)
              /\ drawCalls[i].material \in 1 .. Len(materials)
              /\ Resolved(drawCalls[i]) = <<requested[i], requested[i], requested[i]>>

Inv == /\ TypeOK
       /\ Dated
       /\ Fenced
       /\ Located
       /\ NotLater
       /\ CameraLoop
       /\ Drawn
       /\ FreedAfterUse
       /\ DrawsAreCurrent
       /\ SwapchainKnown

(* All of it but where the unfinished work is. *)
Core == /\ TypeOK
        /\ Dated
        /\ Fenced
        /\ NotLater
        /\ CameraLoop
        /\ Drawn
        /\ FreedAfterUse
        /\ DrawsAreCurrent
        /\ SwapchainKnown

(* flush() has submitted one list for each camera it has passed, in order. *)
Passed(n) == /\ n <= Len(lists) /\ n <= Len(cameras)
             /\ \A i \in 1 .. n : LET id == Len(lists) - n + i IN
                                     /\ lists[id].camera = cameras[i]
                                     /\ lists[id].frame = frameNo
             /\ \A id \in 1 .. Len(lists) - n : lists[id].frame < frameNo

InOrder == pc \in {"record", "submit"} => Passed(nextCamera - 1)

(* The part of it about the ring and the GPU, and the part about draws.      *)
RingInv == Dated /\ Fenced /\ Located /\ NotLater /\ FreedAfterUse
DrawInv == CameraLoop /\ Drawn /\ DrawsAreCurrent /\ SwapchainKnown

-----------------------------------------------------------------------------
(* A cleared vector holds nothing. *)
LEMMA RangeOfEmpty == Range(<<>>) = {}
BY DEF Range

(* push_back adds one element. *)
LEMMA RangeOfAppend ==
  ASSUME NEW S, NEW s \in Seq(S), NEW e \in S
  PROVE  Range(Append(s, e)) = Range(s) \cup {e}
<1> DEFINE t == Append(s, e)
<1>1. /\ t \in Seq(S) /\ Len(t) = Len(s) + 1 /\ Len(s) \in Nat
      /\ \A i \in 1 .. Len(s) : t[i] = s[i]
      /\ t[Len(s) + 1] = e
  BY AppendProperties
<1>2. DOMAIN t = 1 .. Len(s) + 1 /\ DOMAIN s = 1 .. Len(s)
  BY <1>1
<1> HIDE DEF t
<1>3. Range(t) \subseteq Range(s) \cup {e}
  BY <1>1, <1>2 DEF Range
<1>4. Range(s) \cup {e} \subseteq Range(t)
  BY <1>1, <1>2 DEF Range
<1> QED BY <1>3, <1>4 DEF t

(* The same for the slots' vectors of list numbers. *)
LEMMA RangeOfNatAppend ==
  \A s \in Seq(Nat), e \in Nat : Range(Append(s, e)) = Range(s) \cup {e}
BY RangeOfAppend, Zenon

(* The slots' vectors hold numbers. *)
LEMMA RangeInNat ==
  ASSUME NEW s \in Seq(Nat)
  PROVE  Range(s) \subseteq Nat
BY ElementOfSeq DEF Range

(* Submitted lists have a frame number and are numbered from 1. *)
LEMMA ListTyped ==
  ASSUME TypeOK
  PROVE  /\ DOMAIN lists = 1 .. Len(lists) /\ Len(lists) \in Nat
         /\ \A id \in 1 .. Len(lists) : lists[id] \in List /\ lists[id].frame \in Nat
<1>1. lists \in Seq(List)
  BY DEF TypeOK
<1>2. \A id \in 1 .. Len(lists) : lists[id] \in List
  BY <1>1, ElementOfSeq
<1>3. \A l \in List : l.frame \in Nat
  BY DEF List
<1> QED BY <1>1, <1>2, <1>3

(* The index of the next slot, and what it does to the slots' ages. *)
LEMMA RingStep ==
  ASSUME TypeOK
  PROVE  /\ N \in Nat \ {0}
         /\ (frameIndex + 1) % FRAME_BUFFER_COUNT =
              IF frameIndex + 1 = N THEN 0 ELSE frameIndex + 1
         /\ (frameIndex + 1) % FRAME_BUFFER_COUNT \in Slots
<1>1. N \in Nat \ {0} /\ frameIndex \in 0 .. N - 1
  BY RendererAssumption DEF N, TypeOK, Slots
<1>2. CASE frameIndex + 1 = N
  <2>1. N % N = 0
    BY <1>1
  <2> QED BY <1>1, <1>2, <2>1 DEF N, Slots
<1>3. CASE frameIndex + 1 < N
  <2>1. (frameIndex + 1) % N = frameIndex + 1
    BY <1>1, <1>3
  <2> QED BY <1>1, <1>3, <2>1 DEF N, Slots
<1> QED BY <1>1, <1>2, <1>3

(* The renderer as constructed satisfies the invariant. *)
LEMMA InitInv == Init => Inv
<1> SUFFICES ASSUME Init PROVE Inv
  OBVIOUS
<1>1. N \in Nat \ {0} /\ 0 \in Slots
  BY RendererAssumption DEF N, Slots
<1>2. EmptySlot \in FrameData /\ Range(EmptySlot.fences) = {} /\ Range(EmptySlot.commandLists) = {}
  BY EmptySeq, RangeOfEmpty DEF EmptySlot, FrameData
<1>3. TypeOK
  <2>1. /\ lists \in Seq(List) /\ Len(lists) = 0 /\ cameras \in Seq(Camera)
        /\ drawCalls \in Seq(DrawCall) /\ instances \in Seq(Objects)
        /\ meshes \in Seq(Objects) /\ materials \in Seq(Objects) /\ requested \in Seq(Objects)
    BY EmptySeq DEF Init
  <2> HIDE DEF EmptySlot
  <2> QED BY <1>1, <1>2, <2>1 DEF Init, TypeOK
<1>4. \A s \in Slots : frames[s] = EmptySlot
  BY DEF Init
<1>5. RingInv
  <2>1. 1 .. Len(lists) = {}
    BY DEF Init
  <2> QED BY <1>2, <1>4, <2>1 DEF Init, RingInv, Dated, Fenced, Located, NotLater, FreedAfterUse
<1>6. DrawInv
  <2>1. DOMAIN cameras = {} /\ 1 .. Len(drawCalls) = {} /\ Len(drawCalls) = Len(requested)
    BY DEF Init
  <2> QED BY <2>1 DEF Init, DrawInv, CameraLoop, Drawn, DrawsAreCurrent, SwapchainKnown
<1> QED BY <1>3, <1>5, <1>6 DEF Inv, RingInv, DrawInv

-----------------------------------------------------------------------------
(* What the steps leave alone. *)

ring == <<frameNo, frameIndex, frames, lists, freed, completed>>
draw == <<drawCalls, instances, meshes, materials, requested>>

(* The ring's part survives a step that leaves the ring and the GPU alone. *)
LEMMA RingKept ==
  ASSUME RingInv, UNCHANGED ring, pc' = "wait" <=> pc = "wait"
  PROVE  RingInv'
<1>1. UNCHANGED <<frameNo, frameIndex, frames, lists, freed, completed>>
  BY DEF ring
<1>2. Dated'
  BY <1>1 DEF RingInv, Dated, SlotFrame
<1>3. Fenced' /\ Located' /\ NotLater' /\ FreedAfterUse'
  BY <1>1 DEF RingInv, Fenced, Located, NotLater, FreedAfterUse
<1> QED BY <1>2, <1>3 DEF RingInv

(* The draws' part survives a step that leaves the vectors alone. *)
LEMMA DrawnKept ==
  ASSUME Drawn, UNCHANGED draw
  PROVE  Drawn'
<1> USE DEF draw
<1>1. \A d : Resolved(d)' = Resolved(d)
  BY DEF Resolved
<1> QED BY <1>1 DEF Drawn

-----------------------------------------------------------------------------
(* The scene's steps. *)

(* render_camera adds the camera with its swapchain. *)
LEMMA RenderCameraInv ==
  ASSUME Inv, NEW camera \in Camera, RenderCamera(camera)
  PROVE  Inv'
<1> USE DEF RenderCamera
<1>1. camera.window \in Windows
  BY DEF Camera
<1>2. /\ cameras' \in Seq(Camera) /\ Len(cameras') = Len(cameras) + 1
      /\ \A i \in 1 .. Len(cameras) : cameras'[i] = cameras[i]
      /\ cameras'[Len(cameras) + 1] = camera
      /\ Len(cameras) \in Nat
  BY AppendProperties DEF Inv, TypeOK
<1>3. TypeOK'
  BY <1>1, <1>2 DEF Inv, TypeOK, gpu
<1>4. RingInv'
  BY RingKept DEF Inv, RingInv, ring, gpu
<1>5. Drawn'
  BY DrawnKept DEF Inv, draw
<1>6. SwapchainKnown'
  <2>1. DOMAIN cameras' = 1 .. Len(cameras) + 1 /\ DOMAIN cameras = 1 .. Len(cameras)
    BY <1>2 DEF Inv, TypeOK
  <2>2. \A i \in 1 .. Len(cameras) : cameras[i].window \in swapchains
    BY <2>1 DEF Inv, SwapchainKnown
  <2> QED BY <1>2, <2>1, <2>2 DEF SwapchainKnown
<1>7. CameraLoop' /\ DrawsAreCurrent'
  BY DEF Inv, CameraLoop, DrawsAreCurrent
<1> QED BY <1>3, <1>4, <1>5, <1>6, <1>7 DEF Inv, RingInv

(* A camera or mesh that is dropped changes nothing. *)
LEMMA UnchangedInv ==
  ASSUME Inv, UNCHANGED vars
  PROVE  Inv'
<1> USE DEF vars, scene, gpu
<1>1. TypeOK'
  BY DEF Inv, TypeOK
<1>2. RingInv'
  BY RingKept DEF Inv, RingInv, ring
<1>3. Drawn'
  BY DrawnKept DEF Inv, draw
<1>4. CameraLoop' /\ DrawsAreCurrent' /\ SwapchainKnown'
  BY DEF Inv, CameraLoop, DrawsAreCurrent, SwapchainKnown
<1> QED BY <1>1, <1>2, <1>3, <1>4 DEF Inv, RingInv

(* The new draw call's indexes are the last of their vectors; the others     *)
(* still find what they found.                                               *)
LEMMA RenderStaticMeshInv ==
  ASSUME Inv, NEW object \in Objects, RenderStaticMesh(object)
  PROVE  Inv'
<1> DEFINE call == [instance |-> Len(instances'), mesh |-> Len(meshes'),
                    material |-> Len(materials')]
<1>1. /\ instances' = Append(instances, object) /\ meshes' = Append(meshes, object)
      /\ materials' = Append(materials, object) /\ requested' = Append(requested, object)
      /\ drawCalls' = Append(drawCalls, call) /\ pc = "collect"
      /\ UNCHANGED <<pc, frameNo, frameIndex, frames, swapchains, cameras, nextCamera,
                     cameraBuffer, lists, freed, completed, executing>>
  BY DEF RenderStaticMesh, gpu
<1>2. /\ instances \in Seq(Objects) /\ meshes \in Seq(Objects) /\ materials \in Seq(Objects)
      /\ requested \in Seq(Objects) /\ drawCalls \in Seq(DrawCall)
  BY DEF Inv, TypeOK
<1>3. /\ instances' \in Seq(Objects) /\ Len(instances) \in Nat
      /\ Len(instances') = Len(instances) + 1
      /\ \A i \in 1 .. Len(instances) : instances'[i] = instances[i]
      /\ instances'[Len(instances')] = object
  BY <1>1, <1>2, AppendProperties
<1>4. /\ meshes' \in Seq(Objects) /\ Len(meshes) \in Nat
      /\ Len(meshes') = Len(meshes) + 1
      /\ \A i \in 1 .. Len(meshes) : meshes'[i] = meshes[i]
      /\ meshes'[Len(meshes')] = object
  BY <1>1, <1>2, AppendProperties
<1>5. /\ materials' \in Seq(Objects) /\ Len(materials) \in Nat
      /\ Len(materials') = Len(materials) + 1
      /\ \A i \in 1 .. Len(materials) : materials'[i] = materials[i]
      /\ materials'[Len(materials')] = object
  BY <1>1, <1>2, AppendProperties
<1>6. /\ requested' \in Seq(Objects) /\ Len(requested) \in Nat
      /\ Len(requested') = Len(requested) + 1
      /\ \A i \in 1 .. Len(requested) : requested'[i] = requested[i]
      /\ requested'[Len(requested')] = object
  BY <1>1, <1>2, AppendProperties
<1>7. call \in DrawCall
  BY <1>3, <1>4, <1>5 DEF DrawCall
<1> HIDE DEF call
<1>8. /\ drawCalls' \in Seq(DrawCall) /\ Len(drawCalls) \in Nat
      /\ Len(drawCalls') = Len(drawCalls) + 1
      /\ \A i \in 1 .. Len(drawCalls) : drawCalls'[i] = drawCalls[i]
      /\ drawCalls'[Len(drawCalls')] = call
  BY <1>1, <1>2, <1>7, AppendProperties
<1>9. TypeOK'
  BY <1>1, <1>3, <1>4, <1>5, <1>6, <1>8 DEF Inv, TypeOK
<1>10. RingInv'
  BY <1>1, RingKept DEF Inv, RingInv, ring
<1>11. Drawn'
  <2>1. Drawn /\ Len(drawCalls') = Len(requested')
    BY <1>6, <1>8 DEF Inv, Drawn
  <2>2. ASSUME NEW i \in 1 .. Len(drawCalls')
        PROVE  /\ drawCalls'[i].instance \in 1 .. Len(instances')
               /\ drawCalls'[i].mesh \in 1 .. Len(meshes')
               /\ drawCalls'[i].material \in 1 .. Len(materials')
               /\ Resolved(drawCalls[i])' = <<requested'[i], requested'[i], requested'[i]>>
    <3>1. CASE i \in 1 .. Len(drawCalls)
      <4>1. /\ drawCalls[i].instance \in 1 .. Len(instances)
            /\ drawCalls[i].mesh \in 1 .. Len(meshes)
            /\ drawCalls[i].material \in 1 .. Len(materials)
            /\ Resolved(drawCalls[i]) = <<requested[i], requested[i], requested[i]>>
            /\ i \in 1 .. Len(requested)
        BY <2>1, <3>1 DEF Drawn
      <4>2. drawCalls'[i] = drawCalls[i] /\ requested'[i] = requested[i]
        BY <1>6, <1>8, <3>1, <4>1
      <4>3. /\ drawCalls[i].instance \in 1 .. Len(instances')
            /\ drawCalls[i].mesh \in 1 .. Len(meshes')
            /\ drawCalls[i].material \in 1 .. Len(materials')
        <5>1. /\ 1 .. Len(instances) \subseteq 1 .. Len(instances')
              /\ 1 .. Len(meshes) \subseteq 1 .. Len(meshes')
              /\ 1 .. Len(materials) \subseteq 1 .. Len(materials')
          BY <1>3, <1>4, <1>5
        <5> QED BY <4>1, <5>1, Zenon
      <4>4. /\ instances'[drawCalls[i].instance] = instances[drawCalls[i].instance]
            /\ meshes'[drawCalls[i].mesh] = meshes[drawCalls[i].mesh]
            /\ materials'[drawCalls[i].material] = materials[drawCalls[i].material]
        BY <1>3, <1>4, <1>5, <4>1
      <4> QED BY <4>1, <4>2, <4>3, <4>4 DEF Resolved
    <3>2. CASE i = Len(drawCalls')
      <4>1. /\ drawCalls'[i].instance = Len(instances')
            /\ drawCalls'[i].mesh = Len(meshes')
            /\ drawCalls'[i].material = Len(materials')
        BY <1>8, <3>2 DEF call
      <4>2. requested'[i] = object
        BY <1>6, <2>1, <3>2
      <4>3. /\ Len(instances') \in 1 .. Len(instances') /\ Len(meshes') \in 1 .. Len(meshes')
            /\ Len(materials') \in 1 .. Len(materials')
        BY <1>3, <1>4, <1>5
      <4>4. Resolved(drawCalls[i])' = <<object, object, object>>
        <5>1. Resolved(drawCalls[i])' = <<instances'[Len(instances')], meshes'[Len(meshes')],
                                          materials'[Len(materials')]>>
          BY <4>1 DEF Resolved
        <5> QED BY <1>3, <1>4, <1>5, <5>1
      <4> QED BY <4>1, <4>2, <4>3, <4>4
    <3> QED BY <1>8, <3>1, <3>2
  <2> QED BY <2>1, <2>2 DEF Drawn
<1>12. CameraLoop' /\ DrawsAreCurrent' /\ SwapchainKnown'
  BY <1>1 DEF Inv, CameraLoop, DrawsAreCurrent, SwapchainKnown
<1> QED BY <1>9, <1>10, <1>11, <1>12 DEF Inv, RingInv

-----------------------------------------------------------------------------
(* flush()'s steps. *)

(* The ring turns: every slot's work is one frame older, and the slot it     *)
(* turns to holds that of N frames ago.                                      *)
LEMMA BeginFlushInv ==
  ASSUME Inv, BeginFlush
  PROVE  Inv'
<1>1. /\ pc = "collect" /\ pc' = "wait" /\ frameNo' = frameNo + 1
      /\ frameIndex' = (frameIndex + 1) % FRAME_BUFFER_COUNT
      /\ UNCHANGED <<frames, swapchains, nextCamera, cameras, drawCalls, instances, meshes,
                     materials, requested, cameraBuffer, lists, freed, completed, executing>>
  BY DEF BeginFlush, scene, gpu
<1>2. /\ N \in Nat \ {0} /\ frameIndex \in 0 .. N - 1 /\ frameNo \in Nat
      /\ frameIndex' = IF frameIndex + 1 = N THEN 0 ELSE frameIndex + 1
      /\ frameIndex' \in Slots
  BY <1>1, RingStep DEF Inv, TypeOK, Slots, N
<1>3. TypeOK'
  BY <1>1, <1>2 DEF Inv, TypeOK
<1>4. Dated'
  <2>1. ASSUME NEW s \in Slots
        PROVE  SlotFrame(s) = IF s = frameIndex' THEN frameNo' - N ELSE SlotFrame(s)'
    <3>1. s \in 0 .. N - 1
      BY DEF Slots, N
    <3> QED BY <1>1, <1>2, <3>1 DEF SlotFrame, N
  <2>2. \A s \in Slots : \A id \in Range(frames[s].fences) :
          id \in 1 .. Len(lists) /\ lists[id].frame = SlotFrame(s)
    BY <1>1 DEF Inv, Dated
  <2> QED BY <1>1, <2>1, <2>2 DEF Dated, N
<1>5. NotLater'
  <2>1. \A id \in 1 .. Len(lists) : lists[id].frame \in Nat /\ lists[id].frame <= frameNo
    BY ListTyped DEF Inv, NotLater
  <2> QED BY <1>1, <1>2, <2>1 DEF NotLater
<1>6. Fenced' /\ Located' /\ FreedAfterUse'
  BY <1>1 DEF Inv, Fenced, Located, FreedAfterUse
<1>7. Drawn'
  BY <1>1, DrawnKept DEF Inv, draw
<1>8. CameraLoop' /\ DrawsAreCurrent' /\ SwapchainKnown'
  BY <1>1 DEF Inv, CameraLoop, DrawsAreCurrent, SwapchainKnown
<1> QED BY <1>3, <1>4, <1>5, <1>6, <1>7, <1>8 DEF Inv

(* The fences that were waited for are those of the lists destroyed. *)
LEMMA RecycleSlotInv ==
  ASSUME Inv, RecycleSlot
  PROVE  Inv'
<1>1. /\ pc = "wait" /\ pc' = "record" /\ nextCamera' = 1
      /\ \A fence \in Range(frames[frameIndex].fences) : fence <= completed
      /\ freed' = freed \cup Range(frames[frameIndex].commandLists)
      /\ frames' = [frames EXCEPT ![frameIndex] = EmptySlot]
      /\ UNCHANGED <<frameNo, frameIndex, swapchains, cameras, drawCalls, instances, meshes,
                     materials, requested, cameraBuffer, lists, completed, executing>>
  BY DEF RecycleSlot, Slot, scene, gpu
<1>2. EmptySlot \in FrameData /\ Range(EmptySlot.fences) = {} /\ Range(EmptySlot.commandLists) = {}
  BY EmptySeq, RangeOfEmpty DEF EmptySlot, FrameData
<1> HIDE DEF EmptySlot
<1>3. frames \in [Slots -> FrameData] /\ frameIndex \in Slots
  BY DEF Inv, TypeOK
<1>4. /\ frames' \in [Slots -> FrameData] /\ frames'[frameIndex] = EmptySlot
      /\ \A s \in Slots : s # frameIndex => frames'[s] = frames[s]
  BY <1>1, <1>2, <1>3
<1>5. Range(frames[frameIndex].commandLists) \subseteq Nat
  BY <1>3, RangeInNat DEF FrameData
<1>6. TypeOK'
  <2>1. freed' \in SUBSET Nat
    BY <1>1, <1>5 DEF Inv, TypeOK
  <2>2. nextCamera' \in Nat \ {0} /\ pc' \in {"collect", "wait", "record", "submit", "off", "threw"}
    BY <1>1
  <2> QED BY <1>1, <1>4, <2>1, <2>2 DEF Inv, TypeOK
<1>7. Dated'
  BY <1>1, <1>2, <1>4 DEF Inv, Dated, SlotFrame
<1>8. Fenced'
  BY <1>2, <1>4 DEF Inv, Fenced
<1>9. Located' /\ NotLater'
  BY <1>1, <1>4 DEF Inv, Located, NotLater
<1>10. FreedAfterUse'
  BY <1>1, <1>3 DEF Inv, FreedAfterUse, Fenced
<1>11. Drawn'
  BY <1>1, DrawnKept DEF Inv, draw
<1>12. DrawsAreCurrent'
  <2>1. \A id \in DOMAIN lists : lists[id].frame # frameNo
    <3>1. \A id \in 1 .. Len(lists) : lists[id].frame \in Nat /\ lists[id].frame < frameNo
      BY <1>1, ListTyped DEF Inv, NotLater
    <3>2. DOMAIN lists = 1 .. Len(lists) /\ frameNo \in Nat
      BY ListTyped DEF Inv, TypeOK
    <3>3. \A id \in 1 .. Len(lists) : lists[id].frame # frameNo
      BY <3>1, <3>2
    <3> QED BY <3>2, <3>3, Zenon
  <2> QED BY <1>1, <2>1 DEF DrawsAreCurrent
<1>13. CameraLoop' /\ SwapchainKnown'
  BY <1>1 DEF Inv, CameraLoop, SwapchainKnown
<1> QED BY <1>6, <1>7, <1>8, <1>9, <1>10, <1>11, <1>12, <1>13 DEF Inv

(* Copying the matrices changes neither the ring nor the draws. *)
LEMMA WriteCameraBufferInv ==
  ASSUME Inv, WriteCameraBuffer
  PROVE  Inv'
<1>1. /\ pc = "record" /\ pc' = "submit" /\ nextCamera <= Len(cameras)
      /\ cameraBuffer' = cameras[nextCamera].view
      /\ UNCHANGED <<frameNo, frameIndex, frames, swapchains, nextCamera, cameras, drawCalls,
                     instances, meshes, materials, requested, lists, freed, completed, executing>>
  BY DEF WriteCameraBuffer, scene, gpu
<1>2. cameraBuffer' \in Views
  <2>1. cameras \in Seq(Camera) /\ nextCamera \in 1 .. Len(cameras)
    BY <1>1 DEF Inv, TypeOK
  <2>2. cameras[nextCamera] \in Camera
    BY <2>1, ElementOfSeq
  <2> QED BY <1>1, <2>2 DEF Camera
<1>3. TypeOK'
  BY <1>1, <1>2 DEF Inv, TypeOK
<1>4. RingInv'
  BY <1>1, RingKept DEF Inv, RingInv, ring
<1>5. Drawn'
  BY <1>1, DrawnKept DEF Inv, draw
<1>6. CameraLoop' /\ DrawsAreCurrent' /\ SwapchainKnown'
  BY <1>1 DEF Inv, CameraLoop, DrawsAreCurrent, SwapchainKnown
<1> QED BY <1>3, <1>4, <1>5, <1>6 DEF Inv, RingInv

(* The new list is the youngest of the current frame, and its draws are the  *)
(* frame's requests.                                                         *)
LEMMA NewListInv ==
  ASSUME Inv, Submit
  PROVE  /\ lists' \in Seq(List) /\ Len(lists') = Len(lists) + 1
         /\ \A id \in 1 .. Len(lists) : lists'[id] = lists[id]
         /\ lists'[Len(lists) + 1].frame = frameNo
         /\ lists'[Len(lists) + 1].draws =
              [i \in DOMAIN requested |-> <<requested[i], requested[i], requested[i]>>]
<1>1. NewList.frame = frameNo /\ NewList.camera = cameras[nextCamera]
  BY DEF NewList
<1>2. NewList.draws = [i \in DOMAIN requested |-> <<requested[i], requested[i], requested[i]>>]
  <2>1. DOMAIN drawCalls = 1 .. Len(drawCalls) /\ DOMAIN requested = DOMAIN drawCalls
    BY DEF Inv, TypeOK, Drawn
  <2>2. \A i \in DOMAIN drawCalls :
          Resolved(drawCalls[i]) = <<requested[i], requested[i], requested[i]>>
    BY <2>1 DEF Inv, Drawn
  <2>3. NewList.draws = [i \in DOMAIN drawCalls |-> Resolved(drawCalls[i])]
    BY DEF NewList
  <2> QED BY <2>1, <2>2, <2>3
<1>3. NewList \in List
  <2>1. cameras[nextCamera] \in Camera
    <3>1. cameras \in Seq(Camera) /\ nextCamera \in 1 .. Len(cameras)
      BY DEF Submit, Inv, TypeOK, CameraLoop
    <3> QED BY <3>1, ElementOfSeq
  <2>2. NewList.draws \in Seq(Objects \X Objects \X Objects)
    <3>1. /\ requested \in Seq(Objects) /\ DOMAIN requested = 1 .. Len(requested)
          /\ Len(requested) \in Nat
      BY DEF Inv, TypeOK
    <3>2. \A i \in 1 .. Len(requested) : requested[i] \in Objects
      BY <3>1, ElementOfSeq
    <3>3. NewList.draws \in [1 .. Len(requested) -> Objects \X Objects \X Objects]
      BY <1>2, <3>1, <3>2
    <3> QED BY <3>1, <3>3, IsASeq
  <2>3. NewList = [frame |-> NewList.frame, camera |-> NewList.camera, draws |-> NewList.draws]
    BY DEF NewList
  <2>4. frameNo \in Nat
    BY DEF Inv, TypeOK
  <2> QED BY <1>1, <2>1, <2>2, <2>3, <2>4 DEF List
<1> HIDE DEF NewList
<1>4. lists' = Append(lists, NewList) /\ lists \in Seq(List)
  BY DEF Submit, Inv, TypeOK
<1>5. /\ lists' \in Seq(List) /\ Len(lists') = Len(lists) + 1
      /\ \A id \in 1 .. Len(lists) : lists'[id] = lists[id]
      /\ lists'[Len(lists) + 1] = NewList
  BY <1>3, <1>4, AppendProperties
<1> QED BY <1>1, <1>2, <1>5

(* A submission puts the new list, with its fence, in the current slot. *)
LEMMA SubmitInv ==
  ASSUME Inv, Submit
  PROVE  Inv'
<1> DEFINE new == Len(lists) + 1
           old == frames[frameIndex]
           slot == [fences       |-> Append(old.fences, new),
                    semaphores   |-> Append(old.semaphores, new),
                    commandLists |-> Append(old.commandLists, new)]
<1>1. /\ pc = "submit" /\ pc' = "record" /\ nextCamera' = nextCamera + 1
      /\ frames' = [frames EXCEPT ![frameIndex] = slot]
      /\ UNCHANGED <<frameNo, frameIndex, swapchains, cameras, drawCalls, instances, meshes,
                     materials, requested, cameraBuffer, freed, completed, executing>>
  BY DEF Submit, scene, gpu
<1>2. /\ lists' \in Seq(List) /\ Len(lists') = new
      /\ \A id \in 1 .. Len(lists) : lists'[id] = lists[id]
      /\ lists'[new].frame = frameNo
      /\ lists'[new].draws =
           [i \in DOMAIN requested |-> <<requested[i], requested[i], requested[i]>>]
  BY NewListInv
<1>3. /\ frames \in [Slots -> FrameData] /\ frameIndex \in Slots /\ frameNo \in Nat
      /\ Len(lists) \in Nat /\ new \in Nat /\ old \in FrameData
  BY ListTyped DEF Inv, TypeOK
<1>4. /\ old.fences \in Seq(Nat) /\ old.semaphores \in Seq(Nat) /\ old.commandLists \in Seq(Nat)
  BY <1>3 DEF FrameData
<1> HIDE DEF new, old
<1>5. slot \in FrameData
  <2>1. /\ Append(old.fences, new) \in Seq(Nat) /\ Append(old.semaphores, new) \in Seq(Nat)
        /\ Append(old.commandLists, new) \in Seq(Nat)
    BY <1>3, <1>4, AppendProperties
  <2> QED BY <2>1 DEF FrameData
<1>6. /\ Range(slot.fences) = Range(old.fences) \cup {new}
      /\ Range(slot.commandLists) = Range(old.commandLists) \cup {new}
  <2>1. slot.fences = Append(old.fences, new) /\ slot.commandLists = Append(old.commandLists, new)
    OBVIOUS
  <2>2. new \in Nat
    BY <1>3
  <2>3. /\ Range(Append(old.fences, new)) = Range(old.fences) \cup {new}
        /\ Range(Append(old.commandLists, new)) = Range(old.commandLists) \cup {new}
    BY <1>4, <2>2, RangeOfNatAppend
  <2> QED BY <2>1, <2>3
<1> HIDE DEF slot
<1>7. /\ frames' \in [Slots -> FrameData] /\ frames'[frameIndex] = slot
      /\ \A s \in Slots : s # frameIndex => frames'[s] = frames[s]
  BY <1>1, <1>3, <1>5
<1>8. TypeOK'
  <2>1. completed' \in 0 .. Len(lists') /\ (executing' => completed' < Len(lists'))
    BY <1>1, <1>2, <1>3 DEF new, Inv, TypeOK
  <2>2. nextCamera' \in Nat \ {0} /\ pc' \in {"collect", "wait", "record", "submit", "off", "threw"}
    BY <1>1 DEF Inv, TypeOK
  <2> QED BY <1>1, <1>2, <1>7, <2>1, <2>2 DEF Inv, TypeOK
<1>9. Dated'
  <2>1. 1 .. Len(lists) \subseteq 1 .. Len(lists') /\ new \in 1 .. Len(lists')
    BY <1>2, <1>3 DEF new
  <2>2. SlotFrame(frameIndex) = frameNo /\ \A s : SlotFrame(s)' = SlotFrame(s)
    <3>1. frameIndex \in Int
      BY <1>3 DEF Slots
    <3> QED BY <1>1, <1>3, <3>1 DEF SlotFrame
  <2>3. \A s \in Slots : \A id \in Range(frames[s].fences) :
          /\ id \in 1 .. Len(lists') /\ lists'[id].frame = SlotFrame(s)
    BY <1>1, <1>2, <2>1 DEF Inv, Dated
  <2> QED BY <1>1, <1>2, <1>6, <1>7, <2>1, <2>2, <2>3 DEF Dated, old
<1>10. Fenced'
  BY <1>3, <1>6, <1>7 DEF Inv, Fenced, old
<1>11. Located'
  <2>1. \A id \in 1 .. Len(lists') : id \in 1 .. Len(lists) \/ id = new
    BY <1>2, <1>3 DEF new
  <2>2. \A s \in Slots : Range(frames[s].fences) \subseteq Range(frames'[s].fences)
    BY <1>6, <1>7 DEF old
  <2> QED BY <1>1, <1>3, <1>6, <1>7, <2>1, <2>2 DEF Inv, Located
<1>12. NotLater'
  <2>1. \A id \in 1 .. Len(lists') : id \in 1 .. Len(lists) \/ id = new
    BY <1>2, <1>3 DEF new
  <2> QED BY <1>1, <1>2, <1>3, <2>1 DEF Inv, NotLater
<1>13. FreedAfterUse'
  BY <1>1 DEF Inv, FreedAfterUse
<1>14. Drawn'
  BY <1>1, DrawnKept DEF Inv, draw
<1>15. DrawsAreCurrent'
  <2>1. DOMAIN lists = 1 .. Len(lists) /\ DOMAIN lists' = 1 .. Len(lists')
    BY <1>2, ListTyped DEF Inv
  <2>2. \A id \in 1 .. Len(lists') : id \in 1 .. Len(lists) \/ id = new
    BY <1>2, <1>3 DEF new
  <2>3. \A id \in 1 .. Len(lists) : lists'[id].frame = frameNo =>
          lists'[id].draws = [i \in DOMAIN requested |-> <<requested[i], requested[i], requested[i]>>]
    BY <1>1, <1>2, <2>1 DEF Inv, DrawsAreCurrent
  <2> QED BY <1>1, <1>2, <2>1, <2>2, <2>3 DEF DrawsAreCurrent
<1>16. CameraLoop' /\ SwapchainKnown'
  BY <1>1 DEF Inv, CameraLoop, SwapchainKnown
<1> QED BY <1>8, <1>9, <1>10, <1>11, <1>12, <1>13, <1>14, <1>15, <1>16 DEF Inv

(* An exception out of flush() leaves everything where it was. *)
LEMMA SubmitThrowsInv ==
  ASSUME Inv, SubmitThrows
  PROVE  Inv'
<1>1. /\ pc = "submit" /\ pc' = "threw"
      /\ UNCHANGED <<frameNo, frameIndex, frames, swapchains, nextCamera, cameras, drawCalls,
                     instances, meshes, materials, requested, cameraBuffer, lists, freed,
                     completed, executing>>
  BY DEF SubmitThrows, scene, gpu
<1>2. TypeOK'
  BY <1>1 DEF Inv, TypeOK
<1>3. RingInv'
  BY <1>1, RingKept DEF Inv, RingInv, ring
<1>4. Drawn'
  BY <1>1, DrawnKept DEF Inv, draw
<1>5. CameraLoop' /\ DrawsAreCurrent' /\ SwapchainKnown'
  BY <1>1 DEF Inv, CameraLoop, DrawsAreCurrent, SwapchainKnown
<1> QED BY <1>2, <1>3, <1>4, <1>5 DEF Inv, RingInv

(* Clearing the cameras and the draws keeps the invariant. *)
LEMMA EndFlushInv ==
  ASSUME Inv, EndFlush
  PROVE  Inv'
<1>1. /\ pc = "record" /\ pc' = "collect" /\ cameras' = <<>> /\ drawCalls' = <<>>
      /\ instances' = <<>> /\ requested' = <<>>
      /\ UNCHANGED <<frameNo, frameIndex, frames, swapchains, nextCamera, meshes, materials,
                     cameraBuffer, lists, freed, completed, executing>>
  BY DEF EndFlush, gpu
<1>2. TypeOK'
  BY <1>1, EmptySeq DEF Inv, TypeOK
<1>3. RingInv'
  BY <1>1, RingKept DEF Inv, RingInv, ring
<1>4. Drawn'
  <2>1. Len(drawCalls') = Len(requested') /\ 1 .. Len(drawCalls') = {}
    BY <1>1
  <2> QED BY <2>1 DEF Drawn
<1>5. SwapchainKnown'
  <2>1. DOMAIN cameras' = {}
    BY <1>1
  <2> QED BY <2>1 DEF SwapchainKnown
<1>6. CameraLoop' /\ DrawsAreCurrent'
  BY <1>1 DEF CameraLoop, DrawsAreCurrent
<1> QED BY <1>2, <1>3, <1>4, <1>5, <1>6 DEF Inv, RingInv

(* shutdown() keeps the invariant. *)
LEMMA ShutdownInv ==
  ASSUME Inv, Shutdown
  PROVE  Inv'
<1>1. /\ pc = "collect" /\ pc' = "off"
      /\ UNCHANGED <<frameNo, frameIndex, frames, swapchains, nextCamera, cameras, drawCalls,
                     instances, meshes, materials, requested, cameraBuffer, lists, freed,
                     completed, executing>>
  BY DEF Shutdown, scene, gpu
<1>2. TypeOK'
  BY <1>1 DEF Inv, TypeOK
<1>3. RingInv'
  BY <1>1, RingKept DEF Inv, RingInv, ring
<1>4. Drawn'
  BY <1>1, DrawnKept DEF Inv, draw
<1>5. CameraLoop' /\ DrawsAreCurrent' /\ SwapchainKnown'
  BY <1>1 DEF Inv, CameraLoop, DrawsAreCurrent, SwapchainKnown
<1> QED BY <1>2, <1>3, <1>4, <1>5 DEF Inv, RingInv

-----------------------------------------------------------------------------
(* The GPU's steps: it only ever gets further. *)

(* What the GPU finishes only makes more lists safe to destroy. *)
LEMMA GpuCore ==
  ASSUME Core, Gpu
  PROVE  Core' /\ completed <= completed'
<1>1. UNCHANGED <<pc, frameNo, frameIndex, frames, swapchains, nextCamera, cameras, drawCalls,
                  instances, meshes, materials, requested, cameraBuffer, lists, freed>>
  BY DEF Gpu, GpuStart, GpuFinish, scene
<1>2. Len(lists) \in Nat /\ completed \in 0 .. Len(lists)
  BY ListTyped DEF Core, TypeOK
<1>3. completed' \in 0 .. Len(lists) /\ completed <= completed'
  BY <1>2 DEF Gpu, GpuStart, GpuFinish, Core, TypeOK
<1>4. executing' \in BOOLEAN /\ (executing' => completed' < Len(lists))
  BY <1>2 DEF Gpu, GpuStart, GpuFinish
<1>5. TypeOK'
  BY <1>1, <1>3, <1>4 DEF Core, TypeOK
<1>6. Dated' /\ Fenced' /\ NotLater'
  BY <1>1 DEF Core, Dated, SlotFrame, Fenced, NotLater
<1>7. FreedAfterUse'
  BY <1>1, <1>2, <1>3 DEF Core, FreedAfterUse, TypeOK
<1>8. Drawn'
  BY <1>1, DrawnKept DEF Core, draw
<1>9. CameraLoop' /\ DrawsAreCurrent' /\ SwapchainKnown'
  BY <1>1 DEF Core, CameraLoop, DrawsAreCurrent, SwapchainKnown
<1> QED BY <1>3, <1>5, <1>6, <1>7, <1>8, <1>9 DEF Core

(* What is finished stays so, and the slots keep the rest. *)
LEMMA GpuInv ==
  ASSUME Inv, Gpu
  PROVE  Inv'
<1>1. Core' /\ completed <= completed'
  BY GpuCore DEF Inv, Core
<1>2. UNCHANGED <<frames, lists>>
  BY DEF Gpu, GpuStart, GpuFinish
<1>3. Len(lists) \in Nat /\ completed \in Nat /\ completed' \in Nat
  BY <1>1, ListTyped DEF Inv, Core, TypeOK
<1>4. Located'
  BY <1>1, <1>2, <1>3 DEF Inv, Located
<1> QED BY <1>1, <1>4 DEF Inv, Core

-----------------------------------------------------------------------------
(* The inductive invariant is preserved by every step of the renderer, of    *)
(* its callers and of the GPU.                                               *)
THEOREM InvStep == Inv /\ [Next]_vars => Inv'
<1> SUFFICES ASSUME Inv, [Next]_vars PROVE Inv'
  OBVIOUS
<1>1. CASE \E camera \in Camera : RenderCamera(camera)
  BY <1>1, RenderCameraInv
<1>2. CASE DropMesh \/ \E camera \in Camera : DropCamera(camera)
  BY <1>2, UnchangedInv DEF DropCamera, DropMesh
<1>3. CASE \E object \in Objects : RenderStaticMesh(object)
  BY <1>3, RenderStaticMeshInv
<1>4. CASE Flush
  BY <1>4, BeginFlushInv, RecycleSlotInv, WriteCameraBufferInv, SubmitInv, SubmitThrowsInv,
     EndFlushInv DEF Flush
<1>5. CASE Shutdown
  BY <1>5, ShutdownInv
<1>6. CASE Gpu
  BY <1>6, GpuInv
<1>7. CASE Terminated
  BY <1>7, UnchangedInv DEF Terminated
<1>8. CASE UNCHANGED vars
  BY <1>8, UnchangedInv
<1> QED BY <1>1, <1>2, <1>3, <1>4, <1>5, <1>6, <1>7, <1>8 DEF Next

(* The slot's fences are waited for: all the lists there are belong to frames *)
(* before; from then on every step of the loop adds the list of one camera.   *)
LEMMA InOrderStep ==
  ASSUME Inv, InOrder, [Next]_vars
  PROVE  InOrder'
<1> SUFFICES ASSUME pc' \in {"record", "submit"} PROVE Passed(nextCamera - 1)'
  BY DEF InOrder
<1>1. /\ Len(lists) \in Nat /\ Len(cameras) \in Nat /\ nextCamera \in Nat \ {0} /\ frameNo \in Nat
      /\ \A id \in 1 .. Len(lists) : lists[id].frame \in Nat
  BY ListTyped DEF Inv, TypeOK
<1>2. CASE RecycleSlot
  <2>1. /\ pc = "wait" /\ nextCamera' = 1 /\ UNCHANGED <<lists, cameras, frameNo>>
    BY <1>2 DEF RecycleSlot, scene
  <2>2. \A id \in 1 .. Len(lists) : lists[id].frame < frameNo
    BY <2>1 DEF Inv, NotLater
  <2> QED BY <1>1, <2>1, <2>2 DEF Passed
<1>3. CASE Submit
  <2>1. /\ pc = "submit" /\ nextCamera' = nextCamera + 1 /\ UNCHANGED <<cameras, frameNo>>
        /\ lists' = Append(lists, NewList) /\ nextCamera <= Len(cameras)
    BY <1>3 DEF Submit, scene, Inv, CameraLoop
  <2>2. /\ Len(lists') = Len(lists) + 1
        /\ \A id \in 1 .. Len(lists) : lists'[id] = lists[id]
        /\ lists'[Len(lists) + 1].frame = frameNo
    BY <1>3, NewListInv
  <2>3. lists'[Len(lists) + 1].camera = cameras[nextCamera]
    <3>1. lists'[Len(lists) + 1] = NewList
      BY <1>1, <2>1 DEF Inv, TypeOK
    <3> QED BY <3>1 DEF NewList
  <2>4. Passed(nextCamera - 1)
    BY <2>1 DEF InOrder
  <2> DEFINE n == nextCamera - 1
  <2>5. /\ n \in Nat /\ n <= Len(lists) /\ n + 1 = nextCamera
        /\ \A i \in 1 .. n : /\ lists[Len(lists) - n + i].camera = cameras[i]
                             /\ lists[Len(lists) - n + i].frame = frameNo
        /\ \A id \in 1 .. Len(lists) - n : lists[id].frame < frameNo
    BY <1>1, <2>4 DEF Passed
  <2> HIDE DEF n
  <2>6. ASSUME NEW i \in 1 .. n + 1
        PROVE  /\ lists'[Len(lists) - n + i].camera = cameras[i]
               /\ lists'[Len(lists) - n + i].frame = frameNo
    <3>1. CASE i \in 1 .. n
      <4>1. Len(lists) - n + i \in 1 .. Len(lists)
        BY <1>1, <2>5, <3>1
      <4> QED BY <2>2, <2>5, <3>1, <4>1
    <3>2. CASE i = n + 1
      <4>1. Len(lists) - n + i = Len(lists) + 1
        BY <1>1, <2>5, <3>2
      <4> QED BY <2>2, <2>3, <2>5, <3>2, <4>1
    <3> QED BY <2>5, <3>1, <3>2
  <2>7. /\ Len(lists') - (n + 1) = Len(lists) - n
        /\ 1 .. Len(lists) - n \subseteq 1 .. Len(lists)
        /\ n + 1 <= Len(lists')
        /\ nextCamera' - 1 = n + 1
    BY <1>1, <2>1, <2>2, <2>5
  <2>8. \A id \in 1 .. Len(lists) - n : lists'[id].frame < frameNo
    BY <2>2, <2>5, <2>7
  <2> QED BY <2>1, <2>5, <2>6, <2>7, <2>8 DEF Passed
<1>4. CASE UNCHANGED <<lists, cameras, frameNo, nextCamera>> /\ pc \in {"record", "submit"}
  BY <1>4 DEF InOrder, Passed
<1>5. RecycleSlot \/ Submit \/ (UNCHANGED <<lists, cameras, frameNo, nextCamera>>
                                  /\ pc \in {"record", "submit"})
  BY DEF Next, Flush, RenderCamera, DropCamera, RenderStaticMesh, DropMesh, BeginFlush,
     WriteCameraBuffer, SubmitThrows, EndFlush, Shutdown, Gpu, GpuStart, GpuFinish, Terminated,
     vars, scene, gpu
<1> QED BY <1>2, <1>3, <1>4, <1>5

(* The flush that ends has passed its last camera. *)
LEMMA FlushEnds ==
  ASSUME Inv, InOrder, EndFlush
  PROVE  LET first == Len(lists) - Len(cameras) IN
           /\ first >= 0
           /\ \A i \in DOMAIN cameras : /\ lists[first + i].camera = cameras[i]
                                        /\ lists[first + i].frame = frameNo
           /\ \A id \in 1 .. first : lists[id].frame < frameNo
<1>1. /\ Len(lists) \in Nat /\ Len(cameras) \in Nat /\ nextCamera \in Nat
      /\ DOMAIN cameras = 1 .. Len(cameras)
  BY ListTyped DEF Inv, TypeOK
<1>2. nextCamera > Len(cameras) /\ Passed(nextCamera - 1)
  BY DEF EndFlush, InOrder
<1>3. nextCamera - 1 = Len(cameras)
  BY <1>1, <1>2 DEF Passed
<1> QED BY <1>1, <1>2, <1>3 DEF Passed

(* Inv holds in every reachable state. *)
THEOREM Invariance == Spec => []Inv
<1>1. Init => Inv
  BY InitInv
<1>2. Inv /\ [Next]_vars => Inv'
  BY InvStep
<1> QED BY <1>1, <1>2, PTL DEF Spec

(* The state of the renderer, of its frame slots and of the GPU keeps its    *)
(* types.                                                                    *)
THEOREM TypeCorrect == Spec => []TypeOK
<1>1. Inv => TypeOK
  BY DEF Inv
<1> QED BY <1>1, Invariance, PTL

(* flush() destroys a command list only after the GPU has finished it,       *)
(* whatever the number of frame slots, of cameras and the GPU's delay.       *)
THEOREM FreedIsFinished == Spec => []FreedAfterUse
<1>1. Inv => FreedAfterUse
  BY DEF Inv
<1> QED BY <1>1, Invariance, PTL

(* A list in a slot is of one of the last FRAME_BUFFER_COUNT frames. *)
LEMMA InFlight ==
  ASSUME Core, pc # "wait", NEW s \in Slots, NEW id \in Range(frames[s].fences)
  PROVE  lists[id].frame + FRAME_BUFFER_COUNT > frameNo
<1>1. lists[id].frame = SlotFrame(s)
  BY DEF Core, Dated
<1>2. N \in Nat \ {0} /\ frameIndex \in 0 .. N - 1 /\ s \in 0 .. N - 1 /\ frameNo \in Nat
  BY RendererAssumption DEF Core, TypeOK, Slots, N
<1> QED BY <1>1, <1>2 DEF SlotFrame, N

(* Between two waits, unfinished work belongs to the last FRAME_BUFFER_COUNT *)
(* frames: it is still in a slot, and a slot's age is below the ring's size. *)
THEOREM InFlightIsBounded == Spec => []FramesInFlightBounded
<1>1. Inv => FramesInFlightBounded
  <2> SUFFICES ASSUME Inv, pc \in {"collect", "record", "submit"},
                      NEW id \in DOMAIN lists, id > completed
               PROVE  lists[id].frame + FRAME_BUFFER_COUNT > frameNo
    BY DEF FramesInFlightBounded
  <2>1. id \in 1 .. Len(lists) /\ Len(lists) \in Nat
    BY ListTyped DEF Inv
  <2>2. ~(id <= completed)
    BY <2>1 DEF Inv, TypeOK
  <2>3. PICK s \in Slots : id \in Range(frames[s].fences)
    BY <2>1, <2>2 DEF Inv, Located
  <2> QED BY <2>3, InFlight DEF Inv, Core
<1> QED BY <1>1, Invariance, PTL

(* flush_camera finds a swapchain for every camera it is given. *)
THEOREM CameraHasSwapchain == Spec => []SwapchainKnown
<1>1. Inv => SwapchainKnown
  BY DEF Inv
<1> QED BY <1>1, Invariance, PTL

(* A flush that ends has submitted one list for every camera of the frame, in *)
(* the order they were given, and nothing else.                               *)
THEOREM EveryCameraOnce == Spec => OneListPerCamera
<1>1. Init => InOrder
  BY DEF Init, InOrder
<1>2. Inv /\ InOrder /\ [Next]_vars => InOrder'
  BY InOrderStep
<1>3. Inv /\ InOrder /\ [Next]_vars =>
        [pc = "record" /\ pc' = "collect" =>
           LET first == Len(lists) - Len(cameras) IN
             /\ first >= 0
             /\ \A i \in DOMAIN cameras : /\ lists[first + i].camera = cameras[i]
                                          /\ lists[first + i].frame = frameNo
             /\ \A id \in 1 .. first : lists[id].frame < frameNo]_vars
  <2> SUFFICES ASSUME Inv, InOrder, [Next]_vars, pc = "record", pc' = "collect"
               PROVE  LET first == Len(lists) - Len(cameras) IN
                        /\ first >= 0
                        /\ \A i \in DOMAIN cameras : /\ lists[first + i].camera = cameras[i]
                                                     /\ lists[first + i].frame = frameNo
                        /\ \A id \in 1 .. first : lists[id].frame < frameNo
    OBVIOUS
  <2>1. EndFlush
    BY DEF Next, Flush, RenderCamera, DropCamera, RenderStaticMesh, DropMesh, BeginFlush,
       RecycleSlot, Submit, WriteCameraBuffer, SubmitThrows, Shutdown, Gpu, GpuStart, GpuFinish,
       Terminated, vars, scene, gpu
  <2> QED BY <2>1, FlushEnds
<1> QED BY <1>1, <1>2, <1>3, Invariance, PTL DEF Spec, OneListPerCamera

(* Every list recorded in a frame draws exactly the frame's requests, each   *)
(* with its own transform, mesh and material.                                *)
THEOREM DrawsAreTheFrames == Spec => []DrawsAreCurrent
<1>1. Inv => DrawsAreCurrent
  BY DEF Inv
<1> QED BY <1>1, Invariance, PTL

-----------------------------------------------------------------------------
(* Textures are uploaded between the frames. The renderer's own invariant     *)
(* keeps its parts but one: the list set_data waits for is in no slot.        *)

Waiting(id) == uploading = "wait" /\ id = Len(lists)

LocatedOrWaiting == \A id \in 1 .. Len(lists) :
                      \/ id <= completed
                      \/ Waiting(id)
                      \/ \E s \in Slots : id \in Range(frames[s].fences)

(* A call of set_data runs outside flush(), on a texture not loaded yet, and  *)
(* waits for a list of the frame that is being collected.                     *)
Calling == /\ uploading # "idle" => pc = "collect" /\ texture \in Objects \ loaded
           /\ uploading = "wait" => lists[Len(lists)].frame = frameNo

(* The slots' lists are submitted lists that nobody else has destroyed or     *)
(* waits for, each at one place of one slot, and every other list is gone.    *)
CL(s) == frames[s].commandLists

Kept == \A s \in Slots : /\ Len(CL(s)) <= Len(lists)
                         /\ \A id \in Range(CL(s)) : id \in 1 .. Len(lists) \ freed /\ ~Waiting(id)

Single == \A s, u \in Slots : \A p \in 1 .. Len(CL(s)), q \in 1 .. Len(CL(u)) :
            CL(s)[p] = CL(u)[q] => s = u /\ p = q

Owned == \A id \in 1 .. Len(lists) :
           id \in freed \/ Waiting(id) \/ \E s \in Slots : id \in Range(CL(s))

Staged == pc # "threw" => staging = IF uploading = "idle" THEN {} ELSE {texture}

(* What was mapped and loaded is on the GPU; what set_data waits for is the   *)
(* copy from a staging buffer that still lives.                               *)
Copied == /\ loaded \cap mapped \subseteq pixels
          /\ uploading = "wait" =>
               /\ Len(lists) > 0
               /\ <<Len(lists), texture>> \in uploads
               /\ Len(lists) <= completed /\ texture \in mapped => texture \in pixels

(* Only loaded textures are drawn with. *)
DrawsLoaded == /\ Range(requested) \subseteq loaded
               /\ \A id \in 1 .. Len(lists) : \A d \in Range(lists[id].draws) : d[3] \in loaded

Ownership == Kept /\ Single /\ Owned /\ Staged
Textures  == Copied /\ DrawsLoaded

UInv == /\ UploadsTypeOK
        /\ Core
        /\ LocatedOrWaiting
        /\ Calling
        /\ InOrder
        /\ Ownership
        /\ Textures

-----------------------------------------------------------------------------
(* While set_data is not waiting, every unfinished list is in a slot. *)
LEMMA InvWhenNotWaiting ==
  ASSUME UInv, uploading # "wait"
  PROVE  Inv
BY DEF UInv, Core, Inv, LocatedOrWaiting, Located, Waiting

(* A slot's list numbers. *)
LEMMA SlotLists ==
  ASSUME TypeOK
  PROVE  \A s \in Slots : /\ CL(s) \in Seq(Nat) /\ Len(CL(s)) \in Nat
                          /\ DOMAIN CL(s) = 1 .. Len(CL(s))
                          /\ \A p \in 1 .. Len(CL(s)) : CL(s)[p] \in Range(CL(s))
                          /\ \A id \in Range(CL(s)) : \E p \in 1 .. Len(CL(s)) : CL(s)[p] = id
<1> SUFFICES ASSUME NEW s \in Slots
             PROVE  /\ CL(s) \in Seq(Nat) /\ Len(CL(s)) \in Nat
                    /\ DOMAIN CL(s) = 1 .. Len(CL(s))
                    /\ \A p \in 1 .. Len(CL(s)) : CL(s)[p] \in Range(CL(s))
                    /\ \A id \in Range(CL(s)) : \E p \in 1 .. Len(CL(s)) : CL(s)[p] = id
  OBVIOUS
<1>1. CL(s) \in Seq(Nat)
  BY DEF TypeOK, FrameData, CL
<1>2. Len(CL(s)) \in Nat /\ DOMAIN CL(s) = 1 .. Len(CL(s))
  BY <1>1
<1> QED BY <1>1, <1>2 DEF Range

(* The renderer as constructed, with nothing loaded. *)
LEMMA UploadsInitInv == UploadsInit => UInv
<1> SUFFICES ASSUME UploadsInit PROVE UInv
  OBVIOUS
<1>1. Init /\ Inv
  BY InitInv DEF UploadsInit
<1>2. /\ pc = "collect" /\ uploading = "idle" /\ texture = NoTexture /\ loaded = {} /\ mapped = {}
      /\ staging = {} /\ uploads = {} /\ pixels = {} /\ lists = <<>> /\ requested = <<>>
      /\ frames = [s \in Slots |-> EmptySlot]
  BY DEF UploadsInit, Init
<1>3. UploadsTypeOK
  BY <1>1, <1>2 DEF UploadsTypeOK, Inv
<1>4. Core /\ LocatedOrWaiting /\ Calling /\ InOrder
  BY <1>1, <1>2 DEF Inv, Core, Located, LocatedOrWaiting, Calling, InOrder
<1>5. Ownership
  <2>1. \A s \in Slots : CL(s) = <<>>
    BY <1>2 DEF CL, EmptySlot
  <2>2. 1 .. Len(lists) = {} /\ Range(<<>>) = {} /\ Len(<<>>) = 0 /\ Len(lists) = 0
        /\ 1 .. Len(<<>>) = {}
    BY <1>2, RangeOfEmpty
  <2>3. Kept /\ Single /\ Owned
    BY <2>1, <2>2 DEF Kept, Single, Owned
  <2> QED BY <1>2, <2>3 DEF Ownership, Staged
<1>6. Textures
  <2>1. 1 .. Len(lists) = {} /\ Range(requested) = {}
    BY <1>2, RangeOfEmpty
  <2> QED BY <1>2, <2>1 DEF Textures, Copied, DrawsLoaded
<1> QED BY <1>3, <1>4, <1>5, <1>6 DEF UInv

-----------------------------------------------------------------------------
(* set_data's steps. *)

(* A step that leaves the renderer alone keeps the renderer's invariant. *)
LEMMA CoreKept ==
  ASSUME Core, InOrder, UNCHANGED vars
  PROVE  Core' /\ InOrder'
<1> USE DEF vars, scene, gpu
<1>1. TypeOK'
  BY DEF Core, TypeOK
<1>2. Dated' /\ Fenced' /\ NotLater' /\ FreedAfterUse'
  BY DEF Core, Dated, SlotFrame, Fenced, NotLater, FreedAfterUse
<1>3. Drawn'
  BY DrawnKept DEF Core, draw
<1>4. CameraLoop' /\ DrawsAreCurrent' /\ SwapchainKnown' /\ InOrder'
  BY DEF Core, CameraLoop, DrawsAreCurrent, SwapchainKnown, InOrder, Passed
<1> QED BY <1>1, <1>2, <1>3, <1>4 DEF Core

(* A step that leaves the submitted lists alone, and set_data waiting or not, *)
(* keeps each list's owner.                                                   *)
LEMMA OwnersKept ==
  ASSUME Kept, Single, Owned, UNCHANGED <<frames, lists, freed>>,
         uploading' = "wait" <=> uploading = "wait"
  PROVE  Kept' /\ Single' /\ Owned'
<1>1. \A s : CL(s)' = CL(s)
  BY DEF CL
<1>2. \A id : Waiting(id)' <=> Waiting(id)
  BY DEF Waiting
<1>3. Kept' /\ Owned'
  BY <1>1, <1>2 DEF Kept, Owned
<1>4. Single'
  BY <1>1 DEF Single
<1> QED BY <1>3, <1>4

(* The texture set_data is called on is not loaded; its staging buffer lives. *)
LEMMA SetDataInv ==
  ASSUME UInv, NEW t \in Objects, SetData(t)
  PROVE  UInv'
<1>1. /\ uploading = "idle" /\ pc = "collect" /\ t \notin loaded /\ texture' = t
      /\ staging' = staging \cup {t} /\ uploading' = "map"
      /\ UNCHANGED <<vars, loaded, mapped, uploads, pixels>>
  BY DEF SetData, Outside
<1>2. UNCHANGED <<pc, lists, frames, freed, completed, requested>>
  BY <1>1 DEF vars, scene, gpu
<1>3. Core' /\ InOrder'
  BY <1>1, CoreKept DEF UInv
<1>4. UploadsTypeOK'
  BY <1>1, <1>2, <1>3 DEF UInv, UploadsTypeOK, Core
<1>5. LocatedOrWaiting' /\ Calling'
  BY <1>1, <1>2 DEF UInv, LocatedOrWaiting, Waiting, Calling
<1>6. Kept' /\ Single' /\ Owned'
  BY <1>1, <1>2, OwnersKept DEF UInv, Ownership
<1>7. Staged' /\ Textures'
  BY <1>1, <1>2 DEF UInv, Ownership, Staged, Textures, Copied, DrawsLoaded
<1> QED BY <1>3, <1>4, <1>5, <1>6, <1>7 DEF UInv, Ownership

(* The exception that ends the program changes nothing else. *)
LEMMA SetDataThrowsInv ==
  ASSUME UInv, SetDataThrows
  PROVE  UInv'
<1>1. /\ pc' = "threw" /\ uploading' = "idle" /\ uploading # "wait"
      /\ UNCHANGED <<frameNo, frameIndex, frames, swapchains, nextCamera, scene, cameraBuffer,
                     lists, freed, gpu, texture, loaded, mapped, staging, uploads, pixels>>
  BY DEF SetDataThrows, Outside
<1>2. pc = "collect"
  BY DEF SetDataThrows, Outside, UInv, Calling
<1> USE DEF scene, gpu
<1>3. UploadsTypeOK'
  BY <1>1 DEF UInv, UploadsTypeOK, TypeOK
<1>4. Core'
  <2>1. Dated' /\ Fenced' /\ NotLater' /\ FreedAfterUse'
    BY <1>1, <1>2 DEF UInv, Core, Dated, SlotFrame, Fenced, NotLater, FreedAfterUse
  <2>2. Drawn'
    BY <1>1, DrawnKept DEF UInv, Core, draw
  <2>3. CameraLoop' /\ DrawsAreCurrent' /\ SwapchainKnown'
    BY <1>1 DEF UInv, Core, CameraLoop, DrawsAreCurrent, SwapchainKnown
  <2> QED BY <1>3, <2>1, <2>2, <2>3 DEF Core, UploadsTypeOK
<1>5. LocatedOrWaiting' /\ Calling' /\ InOrder'
  BY <1>1 DEF UInv, LocatedOrWaiting, Waiting, Calling, InOrder
<1>6. Kept' /\ Single' /\ Owned'
  BY <1>1, OwnersKept DEF UInv, Ownership
<1>7. Staged' /\ Textures'
  BY <1>1 DEF UInv, Ownership, Staged, Textures, Copied, DrawsLoaded
<1> QED BY <1>3, <1>4, <1>5, <1>6, <1>7 DEF UInv, Ownership

(* The texture that is mapped has not been loaded. *)
LEMMA MapStagingInv ==
  ASSUME UInv, MapStaging
  PROVE  UInv'
<1>1. /\ uploading = "map" /\ uploading' = "record" /\ mapped' \in {mapped, mapped \cup {texture}}
      /\ UNCHANGED <<vars, texture, loaded, staging, uploads, pixels>>
  BY DEF MapStaging
<1>2. UNCHANGED <<pc, lists, frames, freed, completed, requested>>
  BY <1>1 DEF vars, scene, gpu
<1>3. Core' /\ InOrder'
  BY <1>1, CoreKept DEF UInv
<1>4. texture \in Objects \ loaded
  BY <1>1 DEF UInv, Calling
<1>5. UploadsTypeOK'
  BY <1>1, <1>2, <1>3, <1>4 DEF UInv, UploadsTypeOK, Core
<1>6. LocatedOrWaiting' /\ Calling'
  BY <1>1, <1>2 DEF UInv, LocatedOrWaiting, Waiting, Calling
<1>7. Kept' /\ Single' /\ Owned'
  BY <1>1, <1>2, OwnersKept DEF UInv, Ownership
<1>8. Staged' /\ Textures'
  BY <1>1, <1>2, <1>4 DEF UInv, Ownership, Staged, Textures, Copied, DrawsLoaded
<1> QED BY <1>3, <1>5, <1>6, <1>7, <1>8 DEF UInv, Ownership

(* The list that copies is the youngest, is in no slot and draws nothing. *)
LEMMA SubmitUploadInv ==
  ASSUME UInv, SubmitUpload
  PROVE  UInv'
<1> DEFINE new  == Len(lists) + 1
           list == [frame |-> frameNo, camera |-> NoCamera, draws |-> <<>>]
<1>1. /\ uploading = "record" /\ uploading' = "wait" /\ lists' = Append(lists, list)
      /\ uploads' = uploads \cup {<<Len(lists'), texture>>}
      /\ UNCHANGED <<pc, frameNo, frameIndex, frames, swapchains, nextCamera, scene, cameraBuffer,
                     freed, gpu, texture, loaded, mapped, staging, pixels>>
  BY DEF SubmitUpload
<1>2. /\ pc = "collect" /\ texture \in Objects \ loaded /\ Inv
  BY <1>1, InvWhenNotWaiting DEF UInv, Calling
<1>3. /\ Len(lists) \in Nat /\ completed \in 0 .. Len(lists) /\ frameNo \in Nat
      /\ DOMAIN lists = 1 .. Len(lists) /\ lists \in Seq(List)
  BY <1>2, ListTyped DEF Inv, TypeOK
<1>4. list \in List
  <2>1. <<>> \in Seq(Objects \X Objects \X Objects)
    BY EmptySeq
  <2> QED BY <1>3, <2>1 DEF List
<1>5. list.frame = frameNo /\ list.draws = <<>>
  OBVIOUS
<1> HIDE DEF list
<1>6. /\ lists' \in Seq(List) /\ Len(lists') = new /\ new \in Nat /\ lists'[new] = list
      /\ \A id \in 1 .. Len(lists) : lists'[id] = lists[id]
      /\ DOMAIN lists' = 1 .. Len(lists')
  BY <1>1, <1>3, <1>4, AppendProperties
<1>7. /\ \A id \in 1 .. Len(lists') : id \in 1 .. Len(lists) \/ id = new
      /\ 1 .. Len(lists) \subseteq 1 .. Len(lists') /\ new \in 1 .. Len(lists')
      /\ new \notin 1 .. Len(lists)
  BY <1>3, <1>6
<1> HIDE DEF new
<1> USE DEF scene, gpu
<1>8. UploadsTypeOK'
  <2>1. completed' \in 0 .. Len(lists') /\ (executing' => completed' < Len(lists'))
    BY <1>1, <1>2, <1>3, <1>6 DEF Inv, TypeOK, new
  <2>2. TypeOK'
    BY <1>1, <1>2, <1>6, <2>1 DEF Inv, TypeOK
  <2>3. uploads' \subseteq (DOMAIN lists') \X Objects
    <3>1. uploads \subseteq (DOMAIN lists') \X Objects
      BY <1>3, <1>6, <1>7 DEF UInv, UploadsTypeOK
    <3> QED BY <1>1, <1>2, <1>6, <1>7, <3>1
  <2>4. /\ texture \in Objects \cup {NoTexture} /\ loaded \subseteq Objects
        /\ mapped \subseteq Objects /\ staging \subseteq Objects /\ pixels \subseteq Objects
    BY DEF UInv, UploadsTypeOK
  <2> QED BY <1>1, <2>2, <2>3, <2>4 DEF UploadsTypeOK
<1>9. Core'
  <2>1. Dated'
    BY <1>1, <1>2, <1>6, <1>7 DEF Inv, Dated, SlotFrame
  <2>2. Fenced' /\ FreedAfterUse'
    BY <1>1, <1>2 DEF Inv, Fenced, FreedAfterUse
  <2>3. NotLater'
    <3>1. frameNo <= frameNo
      BY <1>3
    <3> QED BY <1>1, <1>2, <1>5, <1>6, <1>7, <3>1 DEF Inv, NotLater
  <2>4. Drawn'
    BY <1>1, <1>2, DrawnKept DEF Inv, draw
  <2>5. CameraLoop' /\ DrawsAreCurrent' /\ SwapchainKnown'
    BY <1>1, <1>2 DEF Inv, CameraLoop, DrawsAreCurrent, SwapchainKnown
  <2> QED BY <1>8, <2>1, <2>2, <2>3, <2>4, <2>5 DEF Core, UploadsTypeOK
<1>10. \A id : Waiting(id)' <=> id = new
  BY <1>1, <1>6 DEF Waiting
<1>11. \A s : CL(s)' = CL(s)
  BY <1>1 DEF CL
<1>12. LocatedOrWaiting' /\ Calling' /\ InOrder'
  <2>1. LocatedOrWaiting'
    BY <1>1, <1>2, <1>7, <1>10 DEF Inv, Located, LocatedOrWaiting
  <2> QED BY <1>1, <1>2, <1>5, <1>6, <2>1 DEF Calling, InOrder
<1>13. Kept'
  <2>1. \A s \in Slots : Len(CL(s)) \in Nat /\ Len(CL(s)) <= Len(lists)
    BY <1>2, SlotLists DEF Inv, UInv, Ownership, Kept
  <2>2. \A s \in Slots : Len(CL(s)) <= Len(lists')
    BY <1>3, <1>6, <2>1 DEF new
  <2>3. \A s \in Slots : \A id \in Range(CL(s)) : id \in 1 .. Len(lists) \ freed
    BY DEF UInv, Ownership, Kept
  <2> QED BY <1>1, <1>7, <1>10, <1>11, <2>2, <2>3 DEF Kept
<1>14. Single' /\ Owned'
  <2>1. Single'
    BY <1>11 DEF UInv, Ownership, Single
  <2>2. \A id \in 1 .. Len(lists) : id \in freed \/ \E s \in Slots : id \in Range(CL(s))
    BY <1>1 DEF UInv, Ownership, Owned, Waiting
  <2> QED BY <1>1, <1>7, <1>10, <1>11, <2>1, <2>2 DEF Owned
<1>15. Staged' /\ Textures'
  <2>1. Staged'
    BY <1>1 DEF UInv, Ownership, Staged
  <2>2. Copied'
    <3>1. Len(lists') > 0 /\ ~(Len(lists') <= completed')
      BY <1>1, <1>3, <1>6 DEF new
    <3> QED BY <1>1, <3>1 DEF UInv, Textures, Copied
  <2>3. DrawsLoaded'
    BY <1>1, <1>5, <1>6, <1>7, RangeOfEmpty DEF UInv, Textures, DrawsLoaded
  <2> QED BY <2>1, <2>2, <2>3 DEF Textures
<1> QED BY <1>8, <1>9, <1>12, <1>13, <1>14, <1>15 DEF UInv, Ownership

(* The fence waited for is that of the last list: the copy is through, and    *)
(* nothing unfinished is left outside the slots.                              *)
LEMMA FinishUploadInv ==
  ASSUME UInv, FinishUpload
  PROVE  UInv'
<1>1. /\ uploading = "wait" /\ Len(lists) <= completed /\ freed' = freed \cup {Len(lists)}
      /\ staging' = staging \ {texture} /\ loaded' = loaded \cup {texture}
      /\ texture' = NoTexture /\ uploading' = "idle"
      /\ UNCHANGED <<pc, frameNo, frameIndex, frames, swapchains, nextCamera, scene, cameraBuffer,
                     lists, gpu, mapped, uploads, pixels>>
  BY DEF FinishUpload
<1>2. /\ pc = "collect" /\ texture \in Objects \ loaded /\ Core
  BY <1>1 DEF UInv, Calling
<1>3. Len(lists) \in Nat
  BY <1>2, ListTyped DEF Core
<1> USE DEF scene, gpu
<1>4. UploadsTypeOK'
  <2>1. TypeOK'
    BY <1>1, <1>2, <1>3 DEF Core, TypeOK
  <2> QED BY <1>1, <1>2, <2>1 DEF UInv, UploadsTypeOK
<1>5. Core'
  <2>1. Dated' /\ Fenced' /\ NotLater'
    BY <1>1, <1>2 DEF Core, Dated, SlotFrame, Fenced, NotLater
  <2>2. FreedAfterUse'
    BY <1>1, <1>2 DEF Core, FreedAfterUse
  <2>3. Drawn'
    BY <1>1, <1>2, DrawnKept DEF Core, draw
  <2>4. CameraLoop' /\ DrawsAreCurrent' /\ SwapchainKnown'
    BY <1>1, <1>2 DEF Core, CameraLoop, DrawsAreCurrent, SwapchainKnown
  <2> QED BY <1>4, <2>1, <2>2, <2>3, <2>4 DEF Core, UploadsTypeOK
<1>6. LocatedOrWaiting' /\ Calling' /\ InOrder'
  <2>1. LocatedOrWaiting'
    BY <1>1 DEF UInv, LocatedOrWaiting, Waiting
  <2> QED BY <1>1, <1>2, <2>1 DEF Calling, InOrder
<1>7. Kept' /\ Single' /\ Owned'
  <2>1. \A s : CL(s)' = CL(s)
    BY <1>1 DEF CL
  <2>2. \A id : ~Waiting(id)'
    BY <1>1 DEF Waiting
  <2>3. \A s \in Slots : \A id \in Range(CL(s)) : id # Len(lists)
    BY <1>1 DEF UInv, Ownership, Kept, Waiting
  <2>4. Kept'
    BY <1>1, <2>1, <2>2, <2>3 DEF UInv, Ownership, Kept
  <2>5. Owned'
    BY <1>1, <2>1 DEF UInv, Ownership, Owned, Waiting
  <2> QED BY <2>1, <2>4, <2>5 DEF UInv, Ownership, Single
<1>8. Staged' /\ Textures'
  <2>1. Staged'
    BY <1>1, <1>2 DEF UInv, Ownership, Staged
  <2>2. Copied' /\ DrawsLoaded'
    BY <1>1 DEF UInv, Textures, Copied, DrawsLoaded
  <2> QED BY <2>1, <2>2 DEF Textures
<1> QED BY <1>4, <1>5, <1>6, <1>7, <1>8 DEF UInv, Ownership

-----------------------------------------------------------------------------
(* The renderer's steps. *)

(* The slot that is recycled loses its lists to the destroyed ones. *)
LEMMA RecycleOwners ==
  ASSUME UInv, uploading # "wait", RecycleSlot, UNCHANGED uploading
  PROVE  Kept' /\ Single' /\ Owned'
<1>1. /\ freed' = freed \cup Range(CL(frameIndex)) /\ lists' = lists
      /\ frames' = [frames EXCEPT ![frameIndex] = EmptySlot]
  BY DEF RecycleSlot, Slot, CL
<1>2. /\ TypeOK /\ frames \in [Slots -> FrameData] /\ frameIndex \in Slots /\ Len(lists) \in Nat
  BY ListTyped DEF UInv, UploadsTypeOK, TypeOK
<1>3. /\ CL(frameIndex)' = <<>>
      /\ \A s \in Slots : s # frameIndex => CL(s)' = CL(s)
  <2>1. EmptySlot.commandLists = <<>> /\ UNCHANGED frameIndex
    BY DEF EmptySlot, RecycleSlot
  <2> HIDE DEF EmptySlot
  <2> QED BY <1>1, <1>2, <2>1 DEF CL
<1>4. /\ Range(<<>>) = {} /\ Len(<<>>) = 0 /\ 1 .. Len(<<>>) = {} /\ frameIndex' = frameIndex
  BY RangeOfEmpty DEF RecycleSlot
<1>5. \A id : ~Waiting(id) /\ ~Waiting(id)'
  BY DEF Waiting
<1>6. \A s \in Slots : /\ Len(CL(s)) \in Nat /\ Len(CL(s)) <= Len(lists)
                       /\ \A p \in 1 .. Len(CL(s)) : CL(s)[p] \in Range(CL(s))
                       /\ \A id \in Range(CL(s)) : \E p \in 1 .. Len(CL(s)) : CL(s)[p] = id
                       /\ \A id \in Range(CL(s)) : id \in 1 .. Len(lists) \ freed
  BY <1>2, SlotLists DEF UInv, Ownership, Kept
<1>7. \A s \in Slots : s # frameIndex => Range(CL(s)) \cap Range(CL(frameIndex)) = {}
  <2> SUFFICES ASSUME NEW s \in Slots, s # frameIndex, NEW id \in Range(CL(s)),
                      id \in Range(CL(frameIndex))
               PROVE  FALSE
    OBVIOUS
  <2>1. PICK p \in 1 .. Len(CL(s)) : CL(s)[p] = id
    BY <1>6
  <2>2. PICK q \in 1 .. Len(CL(frameIndex)) : CL(frameIndex)[q] = id
    BY <1>2, <1>6
  <2> QED BY <1>2, <2>1, <2>2 DEF UInv, Ownership, Single
<1>8. Kept'
  <2> SUFFICES ASSUME NEW s \in Slots
               PROVE  /\ Len(CL(s)') <= Len(lists)
                      /\ \A id \in Range(CL(s)') : id \in 1 .. Len(lists) \ freed'
    BY <1>1, <1>5 DEF Kept
  <2>1. CASE s = frameIndex
    BY <1>2, <1>3, <1>4, <2>1
  <2>2. CASE s # frameIndex
    BY <1>1, <1>3, <1>6, <1>7, <2>2
  <2> QED BY <2>1, <2>2
<1>9. Single'
  <2> SUFFICES ASSUME NEW s \in Slots, NEW u \in Slots,
                      NEW p \in 1 .. Len(CL(s)'), NEW q \in 1 .. Len(CL(u)'),
                      (CL(s)')[p] = (CL(u)')[q]
               PROVE  s = u /\ p = q
    BY DEF Single
  <2>1. s # frameIndex /\ u # frameIndex
    BY <1>3, <1>4
  <2>2. CL(s)' = CL(s) /\ CL(u)' = CL(u)
    BY <1>3, <2>1
  <2> QED BY <2>2 DEF UInv, Ownership, Single
<1>10. Owned'
  <2> SUFFICES ASSUME NEW id \in 1 .. Len(lists), id \notin freed'
               PROVE  \E s \in Slots : id \in Range(CL(s)')
    BY <1>1, <1>5 DEF Owned
  <2>1. id \notin freed /\ id \notin Range(CL(frameIndex))
    BY <1>1
  <2>2. PICK s \in Slots : id \in Range(CL(s))
    BY <1>5, <2>1 DEF UInv, Ownership, Owned
  <2> QED BY <1>3, <2>1, <2>2
<1> QED BY <1>8, <1>9, <1>10

(* The new list is in the current slot, and nowhere else. *)
LEMMA SubmitOwners ==
  ASSUME UInv, uploading # "wait", Submit, UNCHANGED uploading
  PROVE  Kept' /\ Single' /\ Owned'
<1> DEFINE new == Len(lists) + 1
<1>1. /\ lists' = Append(lists, NewList) /\ UNCHANGED <<freed, frameIndex>>
      /\ frames' = [frames EXCEPT ![frameIndex] =
                      [fences       |-> Append(frames[frameIndex].fences, new),
                       semaphores   |-> Append(frames[frameIndex].semaphores, new),
                       commandLists |-> Append(frames[frameIndex].commandLists, new)]]
  BY DEF Submit
<1>2. /\ TypeOK /\ Inv /\ frames \in [Slots -> FrameData] /\ frameIndex \in Slots
      /\ Len(lists) \in Nat /\ completed \in Int /\ completed <= Len(lists)
  BY InvWhenNotWaiting, ListTyped DEF Inv, TypeOK
<1>3. Len(lists') = new
  BY <1>2, NewListInv
<1>4. new \in Nat /\ 1 .. Len(lists) \subseteq 1 .. new /\ new \in 1 .. new
      /\ new \notin 1 .. Len(lists) /\ new \notin freed
      /\ \A id \in 1 .. new : id \in 1 .. Len(lists) \/ id = new
  <2>1. \A id \in freed : id <= completed /\ id \in Nat
    BY <1>2 DEF Inv, FreedAfterUse, TypeOK
  <2> QED BY <1>2, <2>1
<1> HIDE DEF new
<1>5. /\ CL(frameIndex)' = Append(CL(frameIndex), new) /\ frameIndex' = frameIndex
      /\ \A s \in Slots : s # frameIndex => CL(s)' = CL(s)
  BY <1>1, <1>2 DEF CL
<1>6. \A id : ~Waiting(id) /\ ~Waiting(id)'
  BY DEF Waiting
<1>7. \A s \in Slots : /\ Len(CL(s)) \in Nat /\ Len(CL(s)) <= Len(lists) /\ CL(s) \in Seq(Nat)
                       /\ \A p \in 1 .. Len(CL(s)) : CL(s)[p] \in Range(CL(s))
                       /\ \A id \in Range(CL(s)) : id \in 1 .. Len(lists) \ freed
  BY <1>2, SlotLists DEF UInv, Ownership, Kept
<1>8. /\ Len(CL(frameIndex)') = Len(CL(frameIndex)) + 1
      /\ \A p \in 1 .. Len(CL(frameIndex)) : (CL(frameIndex)')[p] = CL(frameIndex)[p]
      /\ (CL(frameIndex)')[Len(CL(frameIndex)) + 1] = new
      /\ Range(CL(frameIndex)') = Range(CL(frameIndex)) \cup {new}
  <2>1. CL(frameIndex) \in Seq(Nat) /\ new \in Nat
    BY <1>2, <1>4, <1>7
  <2>2. /\ Len(Append(CL(frameIndex), new)) = Len(CL(frameIndex)) + 1
        /\ \A p \in 1 .. Len(CL(frameIndex)) :
             Append(CL(frameIndex), new)[p] = CL(frameIndex)[p]
        /\ Append(CL(frameIndex), new)[Len(CL(frameIndex)) + 1] = new
    BY <2>1, AppendProperties
  <2>3. Range(Append(CL(frameIndex), new)) = Range(CL(frameIndex)) \cup {new}
    BY <2>1, RangeOfNatAppend
  <2> QED BY <1>5, <2>2, <2>3
<1>9. /\ \A s \in Slots : s = frameIndex =>
           /\ Len(CL(s)') = Len(CL(s)) + 1
           /\ \A p \in 1 .. Len(CL(s)) : (CL(s)')[p] = CL(s)[p]
           /\ (CL(s)')[Len(CL(s)) + 1] = new
           /\ Range(CL(s)') = Range(CL(s)) \cup {new}
      /\ \A s \in Slots : s # frameIndex => CL(s)' = CL(s)
  <2>1. \A s \in Slots : s = frameIndex => CL(s)' = CL(frameIndex)' /\ CL(s) = CL(frameIndex)
    BY <1>5 DEF CL
  <2> QED BY <1>5, <1>8, <2>1
<1>10. \A s \in Slots : Range(CL(s)) \subseteq Range(CL(s)')
  BY <1>9
<1>11. Kept'
  <2> SUFFICES ASSUME NEW s \in Slots
               PROVE  /\ Len(CL(s)') <= new
                      /\ \A id \in Range(CL(s)') : id \in 1 .. new \ freed
    BY <1>1, <1>3, <1>6 DEF Kept
  <2>1. CASE s = frameIndex
    <3>1. Len(CL(s)') <= new
      BY <1>2, <1>7, <1>9, <2>1 DEF new
    <3> QED BY <1>2, <1>4, <1>7, <1>9, <2>1, <3>1
  <2>2. CASE s # frameIndex
    <3>1. Len(CL(s)) <= new
      BY <1>2, <1>7 DEF new
    <3> QED BY <1>4, <1>7, <1>9, <2>2, <3>1
  <2> QED BY <2>1, <2>2
<1>12. Single'
  <2> SUFFICES ASSUME NEW s \in Slots, NEW u \in Slots,
                      NEW p \in 1 .. Len(CL(s)'), NEW q \in 1 .. Len(CL(u)'),
                      (CL(s)')[p] = (CL(u)')[q]
               PROVE  s = u /\ p = q
    BY DEF Single
  <2>1. \A v \in Slots : \A i \in 1 .. Len(CL(v)') :
          \/ i \in 1 .. Len(CL(v)) /\ (CL(v)')[i] = CL(v)[i] /\ CL(v)[i] # new
          \/ v = frameIndex /\ i = Len(CL(v)) + 1 /\ (CL(v)')[i] = new
    <3> SUFFICES ASSUME NEW v \in Slots, NEW i \in 1 .. Len(CL(v)')
                 PROVE  \/ i \in 1 .. Len(CL(v)) /\ (CL(v)')[i] = CL(v)[i] /\ CL(v)[i] # new
                        \/ v = frameIndex /\ i = Len(CL(v)) + 1 /\ (CL(v)')[i] = new
      OBVIOUS
    <3>1. \A j \in 1 .. Len(CL(v)) : CL(v)[j] # new
      BY <1>4, <1>7
    <3>2. CASE v # frameIndex
      BY <1>9, <3>1, <3>2
    <3>3. CASE v = frameIndex /\ i \in 1 .. Len(CL(v))
      BY <1>9, <3>1, <3>3
    <3>4. CASE v = frameIndex /\ i \notin 1 .. Len(CL(v))
      <4>1. i = Len(CL(v)) + 1
        BY <1>2, <1>7, <1>9, <3>4
      <4> QED BY <1>9, <3>4, <4>1
    <3> QED BY <3>2, <3>3, <3>4
  <2>2. CASE (CL(s)')[p] = new
    BY <2>1, <2>2
  <2>3. CASE (CL(s)')[p] # new
    <3>1. /\ p \in 1 .. Len(CL(s)) /\ (CL(s)')[p] = CL(s)[p]
          /\ q \in 1 .. Len(CL(u)) /\ (CL(u)')[q] = CL(u)[q]
      BY <2>1, <2>3
    <3>2. CL(s)[p] = CL(u)[q]
      BY <3>1
    <3>3. Single
      BY DEF UInv, Ownership
    <3> QED BY <3>1, <3>2, <3>3 DEF Single
  <2> QED BY <2>2, <2>3
<1>13. Owned'
  <2> SUFFICES ASSUME NEW id \in 1 .. new, id \notin freed
               PROVE  \E s \in Slots : id \in Range(CL(s)')
    BY <1>1, <1>3, <1>6 DEF Owned
  <2>1. CASE id = new
    BY <1>2, <1>9, <2>1
  <2>2. CASE id \in 1 .. Len(lists)
    <3>1. PICK s \in Slots : id \in Range(CL(s))
      BY <1>6, <2>2 DEF UInv, Ownership, Owned
    <3> QED BY <1>10, <3>1
  <2> QED BY <1>4, <2>1, <2>2
<1> QED BY <1>11, <1>12, <1>13

(* What the renderer's steps do to the lists and to the requests. *)
LEMMA RendersCases ==
  ASSUME UploadsTypeOK, Renders
  PROVE  /\ pc # "threw" /\ uploading = "idle" /\ Next /\ UNCHANGED upload
         /\ \/ UNCHANGED <<frames, lists, freed, requested>>
            \/ /\ UNCHANGED <<frames, lists, freed>>
               /\ \/ requested' = <<>>
                  \/ \E object \in loaded : requested' = Append(requested, object)
            \/ RecycleSlot /\ UNCHANGED <<lists, requested>>
            \/ Submit /\ UNCHANGED requested
<1>1. uploading = "idle" /\ UNCHANGED upload
  BY DEF Renders
<1>2. CASE (\E camera \in Camera : RenderCamera(camera) \/ DropCamera(camera)) \/ DropMesh
             \/ Shutdown
  BY <1>1, <1>2 DEF Next, RenderCamera, DropCamera, DropMesh, Shutdown, vars, scene
<1>3. CASE \E object \in loaded : RenderStaticMesh(object)
  <2>1. PICK object \in loaded : RenderStaticMesh(object)
    BY <1>3
  <2>2. object \in Objects
    BY DEF UploadsTypeOK
  <2> QED BY <1>1, <2>1, <2>2 DEF Next, RenderStaticMesh
<1>4. CASE Flush
  <2>1. Next
    BY <1>4 DEF Next
  <2>2. CASE BeginFlush \/ WriteCameraBuffer \/ SubmitThrows
    BY <1>1, <2>1, <2>2 DEF BeginFlush, WriteCameraBuffer, SubmitThrows, scene
  <2>3. CASE EndFlush
    BY <1>1, <2>1, <2>3 DEF EndFlush
  <2>4. CASE RecycleSlot
    BY <1>1, <2>1, <2>4 DEF RecycleSlot, scene
  <2>5. CASE Submit
    BY <1>1, <2>1, <2>5 DEF Submit, scene
  <2> QED BY <1>4, <2>2, <2>3, <2>4, <2>5 DEF Flush
<1> QED BY <1>1, <1>2, <1>3, <1>4 DEF Renders

(* The new list draws the frame's requests. *)
LEMMA SubmitDraws ==
  ASSUME Inv, Submit, Range(requested) \subseteq loaded
  PROVE  /\ Len(lists') = Len(lists) + 1 /\ Len(lists) \in Nat
         /\ \A id \in 1 .. Len(lists) : lists'[id] = lists[id]
         /\ \A d \in Range(lists'[Len(lists) + 1].draws) : d[3] \in loaded
<1>1. /\ Len(lists') = Len(lists) + 1
      /\ \A id \in 1 .. Len(lists) : lists'[id] = lists[id]
      /\ lists'[Len(lists) + 1].draws =
           [i \in DOMAIN requested |-> <<requested[i], requested[i], requested[i]>>]
  BY NewListInv
<1>2. Len(lists) \in Nat
  BY ListTyped DEF Inv
<1>3. \A i \in DOMAIN requested : requested[i] \in loaded
  BY DEF Range
<1>4. \A d \in Range([i \in DOMAIN requested |-> <<requested[i], requested[i], requested[i]>>]) :
        d[3] \in loaded
  BY <1>3 DEF Range
<1> QED BY <1>1, <1>2, <1>4

(* While set_data does nothing, the renderer does what it would do alone. *)
LEMMA RendersInv ==
  ASSUME UInv, Renders
  PROVE  UInv'
<1>1. /\ pc # "threw" /\ uploading = "idle" /\ Next
      /\ UNCHANGED <<uploading, texture, loaded, mapped, staging, uploads, pixels>>
  BY RendersCases DEF UInv, upload
<1>2. \/ UNCHANGED <<frames, lists, freed, requested>>
      \/ /\ UNCHANGED <<frames, lists, freed>>
         /\ \/ requested' = <<>>
            \/ \E object \in loaded : requested' = Append(requested, object)
      \/ RecycleSlot /\ UNCHANGED <<lists, requested>>
      \/ Submit /\ UNCHANGED requested
  BY RendersCases DEF UInv
<1>3. Inv /\ Inv' /\ InOrder'
  <2>1. Inv
    BY <1>1, InvWhenNotWaiting
  <2> QED BY <1>1, <2>1, InvStep, InOrderStep DEF UInv
<1>4. Range(requested) \subseteq loaded
  BY DEF UInv, Textures, DrawsLoaded
<1>5. lists' = lists \/ (/\ Len(lists') = Len(lists) + 1 /\ Len(lists) \in Nat
                         /\ \A id \in 1 .. Len(lists) : lists'[id] = lists[id]
                         /\ \A d \in Range(lists'[Len(lists) + 1].draws) : d[3] \in loaded)
  BY <1>2, <1>3, <1>4, SubmitDraws
<1>6. UploadsTypeOK'
  <2>1. DOMAIN lists \subseteq DOMAIN lists'
    <3>1. /\ DOMAIN lists = 1 .. Len(lists) /\ DOMAIN lists' = 1 .. Len(lists')
      BY <1>3 DEF Inv, TypeOK
    <3>2. Len(lists) \in Nat => 1 .. Len(lists) \subseteq 1 .. Len(lists) + 1
      OBVIOUS
    <3> QED BY <1>5, <3>1, <3>2
  <2> QED BY <1>1, <1>3, <2>1 DEF UInv, UploadsTypeOK, Inv
<1>7. Core' /\ LocatedOrWaiting' /\ Calling'
  BY <1>1, <1>3 DEF Inv, Core, Located, LocatedOrWaiting, Calling
<1>8. Kept' /\ Single' /\ Owned'
  BY <1>1, <1>2, OwnersKept, RecycleOwners, SubmitOwners DEF UInv, Ownership
<1>9. Staged' /\ Copied'
  BY <1>1 DEF UInv, Ownership, Staged, Textures, Copied
<1>10. DrawsLoaded'
  <2>1. Range(requested') \subseteq loaded
    <3>1. \A object \in loaded : Range(Append(requested, object)) = Range(requested) \cup {object}
      <4>1. requested \in Seq(Objects)
        BY <1>3 DEF Inv, TypeOK
      <4>2. loaded \subseteq Objects
        BY DEF UInv, UploadsTypeOK
      <4> QED BY <4>1, <4>2, RangeOfAppend
    <3> QED BY <1>2, <1>4, <3>1, RangeOfEmpty
  <2>2. \A id \in 1 .. Len(lists') : \A d \in Range(lists'[id].draws) : d[3] \in loaded
    <3>1. \A id \in 1 .. Len(lists) : \A d \in Range(lists[id].draws) : d[3] \in loaded
      BY DEF UInv, Textures, DrawsLoaded
    <3>2. CASE lists' = lists
      BY <3>1, <3>2
    <3>3. CASE lists' # lists
      <4>1. \A id \in 1 .. Len(lists') : id \in 1 .. Len(lists) \/ id = Len(lists) + 1
        BY <1>5, <3>3
      <4> QED BY <1>5, <3>1, <3>3, <4>1
    <3> QED BY <3>2, <3>3
  <2> QED BY <1>1, <2>1, <2>2 DEF DrawsLoaded
<1> QED BY <1>3, <1>6, <1>7, <1>8, <1>9, <1>10 DEF UInv, Ownership, Textures

-----------------------------------------------------------------------------
(* The GPU's steps. *)

(* The GPU gets further: it copies from the buffers that live, and the one    *)
(* set_data waits for is among them.                                          *)
LEMMA GpuUploadInv ==
  ASSUME UInv, (GpuStart /\ UNCHANGED upload) \/ GpuCopies
  PROVE  UInv'
<1>1. /\ Gpu /\ UNCHANGED <<uploading, texture, loaded, mapped, staging, uploads>>
      /\ UNCHANGED <<pc, frameNo, nextCamera, cameras, frames, lists, freed, requested>>
  BY DEF GpuCopies, Gpu, GpuStart, GpuFinish, upload, scene
<1>2. pixels \subseteq pixels' /\ pixels' \subseteq Objects
  BY DEF GpuCopies, upload, UInv, UploadsTypeOK
<1>3. Core' /\ completed <= completed' /\ Len(lists) \in Nat /\ completed \in Nat
      /\ completed' \in Nat
  BY <1>1, GpuCore, ListTyped DEF UInv, Core, TypeOK
<1>4. UploadsTypeOK'
  BY <1>1, <1>2, <1>3 DEF UInv, UploadsTypeOK, Core
<1>5. LocatedOrWaiting'
  BY <1>1, <1>3 DEF UInv, LocatedOrWaiting, Waiting
<1>6. Calling' /\ InOrder'
  BY <1>1 DEF UInv, Calling, InOrder, Passed
<1>7. Kept' /\ Single' /\ Owned'
  BY <1>1, OwnersKept DEF UInv, Ownership
<1>8. Staged' /\ DrawsLoaded'
  BY <1>1 DEF UInv, Ownership, Staged, Textures, DrawsLoaded
<1>9. Copied'
  <2>1. loaded' \cap mapped' \subseteq pixels'
    BY <1>1, <1>2 DEF UInv, Textures, Copied
  <2> SUFFICES ASSUME uploading = "wait", Len(lists) <= completed', texture \in mapped
               PROVE  texture \in pixels'
    BY <1>1, <2>1 DEF UInv, Textures, Copied
  <2>2. CASE Len(lists) <= completed
    BY <1>2, <2>2 DEF UInv, Textures, Copied
  <2>3. CASE ~(Len(lists) <= completed)
    <3>1. GpuCopies /\ completed' = completed + 1
      BY <1>3, <2>3 DEF GpuStart, GpuCopies, GpuFinish
    <3>2. completed' = Len(lists)
      BY <1>3, <2>3, <3>1
    <3>3. texture \in staging
      BY DEF UInv, Calling, Ownership, Staged
    <3>4. <<completed', texture>> \in uploads
      BY <3>2 DEF UInv, Textures, Copied
    <3> QED BY <3>1, <3>3, <3>4 DEF GpuCopies
  <2> QED BY <2>2, <2>3
<1> QED BY <1>3, <1>4, <1>5, <1>6, <1>7, <1>8, <1>9 DEF UInv, Ownership, Textures

-----------------------------------------------------------------------------
(* The invariant of the renderer with textures loaded onto its queue is kept  *)
(* by every step of set_data, of the renderer and of the GPU.                 *)
THEOREM UInvStep == UInv /\ [UploadsNext]_all => UInv'
<1> SUFFICES ASSUME UInv, [UploadsNext]_all PROVE UInv'
  OBVIOUS
<1>1. CASE Upload
  BY <1>1, SetDataInv, SetDataThrowsInv, MapStagingInv, SubmitUploadInv, FinishUploadInv DEF Upload
<1>2. CASE Renders
  BY <1>2, RendersInv
<1>3. CASE (GpuStart /\ UNCHANGED upload) \/ GpuCopies
  BY <1>3, GpuUploadInv
<1>4. CASE UNCHANGED all
  <2>1. /\ UNCHANGED <<uploading, texture, loaded, mapped, staging, uploads, pixels>>
        /\ UNCHANGED vars
        /\ UNCHANGED <<pc, frameNo, lists, frames, freed, completed, requested>>
    BY <1>4 DEF all, upload, vars, scene, gpu
  <2>2. Core' /\ InOrder'
    BY <2>1, CoreKept DEF UInv
  <2>3. UploadsTypeOK' /\ LocatedOrWaiting' /\ Calling'
    BY <2>1, <2>2 DEF UInv, UploadsTypeOK, Core, LocatedOrWaiting, Waiting, Calling
  <2>4. Kept' /\ Single' /\ Owned'
    BY <2>1, OwnersKept DEF UInv, Ownership
  <2>5. Staged' /\ Textures'
    BY <2>1 DEF UInv, Ownership, Staged, Textures, Copied, DrawsLoaded
  <2> QED BY <2>2, <2>3, <2>4, <2>5 DEF UInv, Ownership
<1>5. CASE Terminated /\ UNCHANGED upload
  BY <1>4, <1>5 DEF Terminated, all
<1> QED BY <1>1, <1>2, <1>3, <1>4, <1>5 DEF UploadsNext

(* UInv holds in every reachable state. *)
THEOREM UploadsInvariance == UploadsSpec => []UInv
<1>1. UploadsInit => UInv
  BY UploadsInitInv
<1>2. UInv /\ [UploadsNext]_all => UInv'
  BY UInvStep
<1> QED BY <1>1, <1>2, PTL DEF UploadsSpec

(* The state of set_data, and of the renderer beside it, keeps its types. *)
THEOREM UploadsTypeCorrect == UploadsSpec => []UploadsTypeOK
<1>1. UInv => UploadsTypeOK
  BY DEF UInv
<1> QED BY <1>1, UploadsInvariance, PTL

(* Neither flush() nor set_data destroys a command list before the GPU has    *)
(* finished it.                                                               *)
THEOREM UploadsFreedIsFinished == UploadsSpec => []FreedAfterUse
<1>1. UInv => FreedAfterUse
  BY DEF UInv, Core
<1> QED BY <1>1, UploadsInvariance, PTL

(* A copy that is in flight when a frame begins to be collected does not      *)
(* lengthen the queue beyond the last FRAME_BUFFER_COUNT frames.              *)
THEOREM UploadsInFlightIsBounded == UploadsSpec => []FramesInFlightBounded
<1>1. UInv => FramesInFlightBounded
  <2> SUFFICES ASSUME UInv, pc \in {"collect", "record", "submit"},
                      NEW id \in DOMAIN lists, id > completed
               PROVE  lists[id].frame + FRAME_BUFFER_COUNT > frameNo
    BY DEF FramesInFlightBounded
  <2>1. id \in 1 .. Len(lists) /\ Len(lists) \in Nat
    BY ListTyped DEF UInv, Core
  <2>2. ~(id <= completed) /\ frameNo \in Nat /\ FRAME_BUFFER_COUNT \in Nat \ {0}
    BY <2>1, RendererAssumption DEF UInv, Core, TypeOK
  <2>3. CASE Waiting(id)
    <3>1. lists[id].frame = frameNo
      BY <2>3 DEF UInv, Calling, Waiting
    <3> QED BY <2>2, <3>1
  <2>4. CASE \E s \in Slots : id \in Range(frames[s].fences)
    BY <2>1, <2>4, InFlight DEF UInv
  <2> QED BY <2>1, <2>2, <2>3, <2>4 DEF UInv, LocatedOrWaiting
<1> QED BY <1>1, UploadsInvariance, PTL

(* The copies leave the frames' own lists as they were: each draws exactly    *)
(* what its frame asked for.                                                  *)
THEOREM UploadsDrawTheFrames == UploadsSpec => []DrawsAreCurrent
<1>1. UInv => DrawsAreCurrent
  BY DEF UInv, Core
<1> QED BY <1>1, UploadsInvariance, PTL

(* Every submitted list has one owner, the slot of its frame or the set_data  *)
(* that waits for it, until it is destroyed; a staging buffer lives as long   *)
(* as its set_data.                                                           *)
THEOREM OwnedExactlyOnce == UploadsSpec => []OwnedOnce
<1>1. UInv => OwnedOnce
  <2> DEFINE Owners(id) == {o \in Slots \X DOMAIN lists :
                              /\ o[2] \in DOMAIN frames[o[1]].commandLists
                              /\ frames[o[1]].commandLists[o[2]] = id}
  <2> SUFFICES ASSUME UInv, NEW id \in DOMAIN lists
               PROVE  Cardinality(Owners(id)) =
                        IF id \in freed \/ Waiting(id) THEN 0 ELSE 1
    BY DEF OwnedOnce, Waiting, UInv, Ownership, Staged
  <2>1. /\ DOMAIN lists = 1 .. Len(lists) /\ Len(lists) \in Nat /\ TypeOK
        /\ Kept /\ Single /\ Owned
    BY ListTyped DEF UInv, Core, Ownership
  <2>2. \A s \in Slots : /\ Len(CL(s)) \in Nat /\ Len(CL(s)) <= Len(lists)
                         /\ DOMAIN CL(s) = 1 .. Len(CL(s))
                         /\ \A p \in 1 .. Len(CL(s)) : CL(s)[p] \in Range(CL(s))
                         /\ \A i \in Range(CL(s)) : \E p \in 1 .. Len(CL(s)) : CL(s)[p] = i
    BY <2>1, SlotLists DEF Kept
  <2>3. CASE id \in freed \/ Waiting(id)
    <3>1. Owners(id) = {}
      <4> SUFFICES ASSUME NEW o \in Owners(id) PROVE FALSE
        OBVIOUS
      <4>1. /\ o[1] \in Slots /\ o[2] \in DOMAIN CL(o[1]) /\ CL(o[1])[o[2]] = id
        BY DEF CL
      <4>2. id \in Range(CL(o[1]))
        BY <2>2, <4>1
      <4> QED BY <2>1, <2>3, <4>1, <4>2 DEF Kept
    <3> QED BY <2>3, <3>1, FS_EmptySet
  <2>4. CASE ~(id \in freed \/ Waiting(id))
    <3>1. PICK s \in Slots : id \in Range(CL(s))
      BY <2>1, <2>4 DEF Owned
    <3>2. PICK p \in 1 .. Len(CL(s)) : CL(s)[p] = id
      BY <2>2, <3>1
    <3>3. p \in DOMAIN lists /\ p \in DOMAIN CL(s)
      BY <2>1, <2>2
    <3>4. Owners(id) = {<<s, p>>}
      <4>1. <<s, p>> \in Owners(id)
        BY <3>2, <3>3 DEF CL
      <4>2. ASSUME NEW o \in Owners(id) PROVE o = <<s, p>>
        <5>1. /\ o[1] \in Slots /\ o[2] \in DOMAIN CL(o[1]) /\ CL(o[1])[o[2]] = id
              /\ o = <<o[1], o[2]>>
          BY DEF CL
        <5>2. o[2] \in 1 .. Len(CL(o[1]))
          BY <2>2, <5>1
        <5>3. o[1] = s /\ o[2] = p
          BY <2>1, <3>2, <5>1, <5>2 DEF Single
        <5> QED BY <5>1, <5>3
      <4> QED BY <4>1, <4>2
    <3> QED BY <2>4, <3>4, FS_Singleton
  <2> QED BY <2>3, <2>4
<1> QED BY <1>1, UploadsInvariance, PTL

(* Whatever the GPU executes draws with textures whose copy is through, and   *)
(* every camera has a swapchain.                                              *)
THEOREM PreparedBefore == UploadsSpec => []Prepared
<1>1. UInv => Prepared
  <2> SUFFICES ASSUME UInv, executing, NEW d \in Range(lists[completed + 1].draws),
                      d[3] \in mapped
               PROVE  d[3] \in pixels
    BY DEF Prepared, UInv, Core
  <2>1. completed + 1 \in 1 .. Len(lists)
    BY ListTyped DEF UInv, Core, TypeOK
  <2> QED BY <2>1 DEF UInv, Textures, Copied, DrawsLoaded
<1> QED BY <1>1, UploadsInvariance, PTL

(* With textures loaded between the frames, a flush that ends has still       *)
(* submitted one list for every camera, in order.                             *)
THEOREM UploadsEveryCameraOnce == UploadsSpec => OneListPerCamera
<1> DEFINE Ends == LET first == Len(lists) - Len(cameras) IN
                     /\ first >= 0
                     /\ \A i \in DOMAIN cameras : /\ lists[first + i].camera = cameras[i]
                                                  /\ lists[first + i].frame = frameNo
                     /\ \A id \in 1 .. first : lists[id].frame < frameNo
<1>1. UInv /\ [UploadsNext]_all => [pc = "record" /\ pc' = "collect" => Ends]_vars
  <2> SUFFICES ASSUME UInv, [UploadsNext]_all, pc = "record", pc' = "collect"
               PROVE  Ends
    OBVIOUS
  <2>1. Renders
    BY DEF UploadsNext, Upload, SetData, SetDataThrows, MapStaging, SubmitUpload, FinishUpload,
       UInv, Calling, Outside, GpuStart, GpuCopies, GpuFinish, Terminated, all, vars, upload
  <2>2. EndFlush
    BY <2>1 DEF Renders, Flush, RenderCamera, DropCamera, RenderStaticMesh, DropMesh, BeginFlush,
       RecycleSlot, Submit, WriteCameraBuffer, SubmitThrows, Shutdown, vars
  <2>3. Inv /\ InOrder
    BY <2>1, InvWhenNotWaiting DEF Renders, UInv
  <2> QED BY <2>2, <2>3, FlushEnds
<1> QED BY <1>1, UploadsInvariance, PTL DEF UploadsSpec, OneListPerCamera
=============================================================================
