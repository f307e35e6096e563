------------------------------- MODULE MCAudio -------------------------------
(* Audio for TLC: buffers of two bytes, and files that are empty, as the      *)
(* decoder leaves them at this commit, as long as the first buffers, and      *)
(* longer by a part of a buffer.                                              *)
EXTENDS Audio

File(f, n) == [format |-> f, length |-> n]

Files == {File("AL_FORMAT_MONO16", 0), File("AL_FORMAT_MONO16", 5),
          File("AL_FORMAT_STEREO16", 4), File("unrecognised", 0)}
=============================================================================
