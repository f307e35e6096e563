\* Three frames on a ring of two slots, so that a slot comes round; one window,
\* up to two cameras and one draw a frame, and two textures that are loaded
\* between them.
CONSTANTS
  FRAME_BUFFER_COUNT = 2
  Windows = {w1}
  Views = {v1}
  Objects = {o1, o2}
  MaxFrames = 3
  MaxCameras = 2
  MaxDraws = 1
SPECIFICATION UploadsSpec
INVARIANTS
  UploadsTypeOK
  FreedAfterUse
  OwnedOnce
  FramesInFlightBounded
  DrawsAreCurrent
  Prepared
PROPERTIES
  OneListPerCamera
  CallsReturn
