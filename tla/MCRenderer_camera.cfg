\* The camera buffer, shared by the frames in flight: one camera that moves.
CONSTANTS
  FRAME_BUFFER_COUNT = 2
  Windows = {w1}
  Views = {v1, v2}
  Objects = {}
  MaxFrames = 2
  MaxCameras = 1
  MaxDraws = 0
SPECIFICATION Spec
INVARIANT CameraMatches
