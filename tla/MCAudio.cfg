\* Two sources that stream through two buffers of two bytes, two plays of a
\* file between them.
CONSTANTS
  STREAM_BUFFER_NUM = 2
  STREAM_BUFFER_SIZE = 2
  AudioFiles <- Files
  MaxSources = 2
  MaxAudios = 1
  MaxBuffers = 8
SPECIFICATION FairSpec
INVARIANTS
  TypeOK
  ReadsInRange
  StreamInOrder
PROPERTY
  UpdateReturns
