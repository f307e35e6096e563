------------------------------- MODULE Uploads -------------------------------
(* Texture::set_data on the renderer's own queue: while the frames before are *)
(* still in flight, a staging buffer is filled, a command list copies it to   *)
(* the texture, and both are destroyed once its fence is signalled. A draw    *)
(* binds the texture of its material, which a load() made before.             *)
EXTENDS Renderer

VARIABLES
  uploading,  \* where set_data is: "idle", "map", "record", "wait"
  texture,    \* the texture it is called on (an object draws with one of its name)
  loaded,     \* the objects whose material and texture were loaded
  mapped,     \* the textures that were made and whose staging buffer could be mapped
  staging,    \* the staging buffers that live, by texture
  uploads,    \* the command lists that copy: the list and its texture
  pixels      \* the textures whose contents on the GPU are the file's

NoTexture == "no_texture"
upload == <<uploading, texture, loaded, mapped, staging, uploads, pixels>>
all    == <<vars, upload>>

UploadsTypeOK == /\ TypeOK
                 /\ uploading \in {"idle", "map", "record", "wait"}
                 /\ texture \in Objects \cup {NoTexture}
                 /\ loaded \subseteq Objects /\ mapped \subseteq Objects
                 /\ staging \subseteq Objects /\ pixels \subseteq Objects
                 /\ uploads \subseteq (DOMAIN lists) \X Objects

UploadsInit == /\ Init
               /\ uploading = "idle" /\ texture = NoTexture
               /\ loaded = {} /\ mapped = {} /\ staging = {} /\ uploads = {} /\ pixels = {}

Outside == uploading = "idle" /\ pc = "collect"

-----------------------------------------------------------------------------
(* set_data, in the factory of a texture: a load() runs outside flush().      *)

(* The texture and its staging buffer are created.                            *)
SetData(t) == /\ Outside /\ frameNo < MaxFrames
              /\ t \notin loaded
              /\ texture' = t
              /\ staging' = staging \cup {t}
              /\ uploading' = "map"
              /\ UNCHANGED <<vars, loaded, mapped, uploads, pixels>>

(* No staging buffer, or no command list: the exception ends the program, and *)
(* the staging buffer is left behind.                                         *)
SetDataThrows == /\ \/ Outside /\ loaded # Objects
                    \/ uploading = "record"
                 /\ pc' = "threw"
                 /\ uploading' = "idle"
                 /\ UNCHANGED <<frameNo, frameIndex, frames, swapchains, nextCamera, scene,
                                cameraBuffer, lists, freed, gpu, texture, loaded, mapped, staging,
                                uploads, pixels>>

(* A buffer that cannot be mapped is copied all the same, and to a texture    *)
(* that was not made: neither call is tested. Which of them failed is one.    *)
MapStaging == /\ uploading = "map"
              /\ mapped' \in {mapped, mapped \cup {texture}}
              /\ uploading' = "record"
              /\ UNCHANGED <<vars, texture, loaded, staging, uploads, pixels>>

SubmitUpload ==
  /\ uploading = "record"
  /\ lists' = Append(lists, [frame |-> frameNo, camera |-> NoCamera, draws |-> <<>>])
  /\ uploads' = uploads \cup {<<Len(lists'), texture>>}
  /\ uploading' = "wait"
  /\ UNCHANGED <<pc, frameNo, frameIndex, frames, swapchains, nextCamera, scene, cameraBuffer,
                 freed, gpu, texture, loaded, mapped, staging, pixels>>

\* Mutant: the staging buffer and the command list go without a wait.
MutFinishUpload_NoWait ==
  /\ uploading = "wait"
  /\ freed' = freed \cup {Len(lists)}
  /\ staging' = staging \ {texture}
  /\ loaded' = loaded \cup {texture}
  /\ texture' = NoTexture
  /\ uploading' = "idle"
  /\ UNCHANGED <<pc, frameNo, frameIndex, frames, swapchains, nextCamera, scene, cameraBuffer,
                 lists, gpu, mapped, uploads, pixels>>

(* wait_on_fence returns; the list and the staging buffer are destroyed.      *)
FinishUpload ==
  /\ uploading = "wait"
  /\ Len(lists) <= completed
  /\ freed' = freed \cup {Len(lists)}
  /\ staging' = staging \ {texture}
  /\ loaded' = loaded \cup {texture}
  /\ texture' = NoTexture
  /\ uploading' = "idle"
  /\ UNCHANGED <<pc, frameNo, frameIndex, frames, swapchains, nextCamera, scene, cameraBuffer,
                 lists, gpu, mapped, uploads, pixels>>

Upload == (\E t \in Objects : SetData(t)) \/ SetDataThrows \/ MapStaging \/ SubmitUpload
            \/ FinishUpload

(* The copy reads the staging buffer that lives when it is executed.          *)
GpuCopies == /\ GpuFinish
             /\ pixels' = pixels \cup {t \in staging \cap mapped : <<completed', t>> \in uploads}
             /\ UNCHANGED <<uploading, texture, loaded, mapped, staging, uploads>>

(* The renderer's own steps: the scene draws what is loaded.                  *)
Renders == /\ uploading = "idle"
           /\ \/ \E camera \in Camera : RenderCamera(camera) \/ DropCamera(camera)
              \/ \E object \in loaded : RenderStaticMesh(object)
              \/ DropMesh
              \/ Flush
              \/ Shutdown
           /\ UNCHANGED upload

UploadsNext == \/ Upload
               \/ Renders
               \/ GpuStart /\ UNCHANGED upload
               \/ GpuCopies
               \/ Terminated /\ UNCHANGED upload

(* The thread runs on inside flush() and inside set_data, and so does the GPU. *)
UploadsSpec == /\ UploadsInit
               /\ [][UploadsNext]_all
               /\ WF_all(pc # "collect" /\ Renders)
               /\ WF_all(uploading # "idle" /\ Upload)
               /\ WF_all(GpuStart /\ UNCHANGED upload) /\ WF_all(GpuCopies)

-----------------------------------------------------------------------------
(* Everything submitted has one owner: the slot of its frame, or the set_data *)
(* that waits for it; a staging buffer lives until set_data returns.          *)
OwnedOnce ==
  /\ \A id \in DOMAIN lists :
       LET owners == {o \in Slots \X DOMAIN lists :
                        /\ o[2] \in DOMAIN frames[o[1]].commandLists
                        /\ frames[o[1]].commandLists[o[2]] = id}
           waited == uploading = "wait" /\ id = Len(lists)
       IN  Cardinality(owners) = IF id \in freed \/ waited THEN 0 ELSE 1
  /\ pc # "threw" => staging = IF uploading = "idle" THEN {} ELSE {texture}

(* What a flush records has been made before: every camera has a swapchain,   *)
(* and every list the GPU executes draws with textures whose copy is through, *)
(* but for those that were not made or filled.                                *)
Prepared ==
  /\ SwapchainKnown
  /\ executing => \A d \in Range(lists[completed + 1].draws) : d[3] \in mapped => d[3] \in pixels

(* flush() and set_data return: the fences they wait for are signalled.       *)
CallsReturn == /\ pc = "wait" ~> pc \in {"collect", "threw"}
               /\ uploading = "wait" ~> uploading = "idle"
=============================================================================
