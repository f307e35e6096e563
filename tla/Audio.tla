-------------------------------- MODULE Audio --------------------------------
(* rune::audio: the sources that stream a file through a handful of OpenAL    *)
(* buffers, the loop of update() that refills the played ones, and OpenAL's   *)
(* thread, which plays on between any two calls. A byte of a file is its      *)
(* position in it; sizes are scaled down.                                     *)
EXTENDS Integers, Sequences, FiniteSets, Functions

CONSTANTS STREAM_BUFFER_NUM,   \* buffers a source streams through
          STREAM_BUFFER_SIZE,  \* bytes in one of them
          AudioFiles,          \* what AudioFile::load and its decoder can give
          MaxSources,          \* bound: sources created
          MaxAudios,           \* bound: audios at a time
          MaxBuffers           \* bound: OpenAL buffer names generated

Formats   == {"AL_FORMAT_MONO8", "AL_FORMAT_MONO16", "AL_FORMAT_STEREO8", "AL_FORMAT_STEREO16"}
AudioFile == [format : Formats \cup {"unreadable", "unrecognised"}, length : Nat]
NoFile    == [format |-> "unreadable", length |-> 0]

ASSUME AudioAssumption ==
         /\ STREAM_BUFFER_NUM \in Nat \ {0} /\ STREAM_BUFFER_SIZE \in Nat \ {0}
         /\ MaxSources \in Nat /\ MaxAudios \in Nat /\ MaxBuffers \in Nat
         /\ STREAM_BUFFER_NUM <= MaxBuffers
         /\ AudioFiles \subseteq AudioFile

VARIABLES
  status,   \* "down", "up", "no_context", or how the program ended
  created,  \* OpenAL source names generated, 1 .. created
  names,    \* OpenAL buffer names generated, 1 .. names
  audios,   \* g_audios
  sources,  \* g_sources: the SourceData of every id
  voices,   \* OpenAL's own state of every source
  todo,     \* update(): sources it has not come to
  current, left  \* the source it refills, and its buffersProcessed

loop == <<todo, current, left>>
vars == <<status, created, names, audios, sources, voices, loop>>

Bytes(n) == [1 .. n -> Nat]
SourceId == 0 .. MaxSources
SourceData == [isPlaying : BOOLEAN, file : AudioFiles \cup {NoFile}, streamCursor : Nat,
               buffers : Seq(Nat)]
(* A buffer on a source's queue: its name, what it was filled with, and the   *)
(* play it was filled for, named by the first buffer of that play.            *)
Queued == [buffer : Nat, format : Formats, data : Bytes(STREAM_BUFFER_SIZE), play : Nat]
(* played: the buffers at the head of the queue that are through. refused: a  *)
(* buffer was not taken because of its format.                                *)
Voice  == [queue : Seq(Queued), played : Nat, looping : BOOLEAN, refused : BOOLEAN,
           state : {"AL_INITIAL", "AL_PLAYING", "AL_PAUSED", "AL_STOPPED"}]

Ended == {"off", "out_of_range", "undefined"}

TypeOK == /\ status \in {"down", "up", "no_context"} \cup Ended
          /\ created \in 0 .. MaxSources /\ names \in 0 .. MaxBuffers
          /\ audios \in SUBSET (0 .. names)
          /\ DOMAIN sources \in SUBSET SourceId /\ DOMAIN voices \subseteq 1 .. created
          /\ \A s \in DOMAIN sources : sources[s] \in SourceData
          /\ \A s \in DOMAIN voices : /\ voices[s] \in Voice
                                      /\ voices[s].played \in 0 .. Len(voices[s].queue)
          /\ todo \subseteq DOMAIN sources
          /\ current \in SourceId /\ left \in Nat

Init == /\ status = "down" /\ created = 0 /\ names = 0 /\ audios = {}
        /\ sources = <<>> /\ voices = <<>>
        /\ todo = {} /\ current = 0 /\ left = 0

Up   == status \in {"up", "no_context"}
Idle == Up /\ todo = {} /\ left = 0  \* outside update()

-----------------------------------------------------------------------------
(* OpenAL: a call without a context changes nothing and returns names of 0.   *)

Generated(n) == [i \in 1 .. n |-> IF status = "up" THEN names + i ELSE 0]
GenBuffers(n) == names' = IF status = "up" THEN names + n ELSE names

(* alSourceQueueBuffers takes all buffers or none: those of one queue have    *)
(* one format and one sample rate; a member of Formats stands for both. On a  *)
(* stopped source they count as played at once.                               *)
Queue(v, bs) ==
  IF \A b \in Range(v.queue), c \in Range(bs) : b.format = c.format
  THEN [v EXCEPT !.queue = @ \o bs,
                 !.played = IF v.state = "AL_STOPPED" THEN @ + Len(bs) ELSE @]
  ELSE [v EXCEPT !.refused = TRUE]

Unqueue(v) == [v EXCEPT !.queue = Tail(@), !.played = @ - 1]

(* alSourcePlay resumes a paused source and starts any other at its head.     *)
Play(v) == IF v.state = "AL_PAUSED" THEN [v EXCEPT !.state = "AL_PLAYING"]
           ELSE IF v.queue = <<>> THEN [v EXCEPT !.state = "AL_STOPPED"]
           ELSE [v EXCEPT !.state = "AL_PLAYING", !.played = 0]

BuffersProcessed(s) == IF s \in DOMAIN voices /\ ~voices[s].looping THEN voices[s].played ELSE 0

(* The device is through with a buffer. A source that has played its last one *)
(* starts again when it is looping, and stops when it is not.                 *)
Advance(v) == IF v.played + 1 < Len(v.queue) THEN [v EXCEPT !.played = @ + 1]
              ELSE IF v.looping THEN [v EXCEPT !.played = 0]
              ELSE [v EXCEPT !.played = Len(v.queue), !.state = "AL_STOPPED"]

Plays(s) ==
  /\ s \in DOMAIN voices
  /\ voices[s].state = "AL_PLAYING"
  /\ voices' = [voices EXCEPT ![s] = Advance(@)]
  /\ UNCHANGED <<status, created, names, audios, sources, loop>>

-----------------------------------------------------------------------------
(* initialise() and shutdown() *)

(* g_streamBuffers are generated, and neither used nor deleted.               *)
Initialise == /\ status = "down"
              /\ status' = "up"
              /\ names' = STREAM_BUFFER_NUM
              /\ UNCHANGED <<created, audios, sources, voices, loop>>

(* No device, no context, or one that cannot be made current: logged.         *)
InitialiseFails == /\ status = "down"
                   /\ status' = "no_context"
                   /\ UNCHANGED <<created, names, audios, sources, voices, loop>>

Shutdown == /\ Idle
            /\ status' = "off"
            /\ sources' = <<>> /\ voices' = <<>>
            /\ audios' = {}
            /\ UNCHANGED <<created, names, loop>>

-----------------------------------------------------------------------------
(* The application's calls. *)

(* A failure returns 0; with an unrecognised format the buffer is generated   *)
(* before the format is looked at, and nobody knows it.                       *)
CreateAudio(file) ==
  /\ Idle /\ names < MaxBuffers /\ Cardinality(audios) < MaxAudios
  /\ file.format # "unreadable"
  /\ GenBuffers(1)
  /\ audios' = IF file.format \in Formats THEN audios \cup Range(Generated(1)) ELSE audios
  /\ UNCHANGED <<status, created, sources, voices, loop>>

DestroyAudio(audio) == /\ Idle /\ audio \in audios
                       /\ audios' = audios \ {audio}
                       /\ UNCHANGED <<status, created, names, sources, voices, loop>>

NewSource == [isPlaying |-> FALSE, file |-> NoFile, streamCursor |-> 0, buffers |-> <<>>]
NewVoice  == [queue |-> <<>>, played |-> 0, looping |-> FALSE, refused |-> FALSE,
              state |-> "AL_INITIAL"]

(* Without a context every source is number 0, and the last one is the one.   *)
CreateSource ==
  /\ Idle /\ created < MaxSources
  /\ IF status = "up"
     THEN /\ created' = created + 1
          /\ voices' = [s \in DOMAIN voices \cup {created'} |->
                         IF s = created' THEN NewVoice ELSE voices[s]]
     ELSE UNCHANGED <<created, voices>>
  /\ sources' = [s \in DOMAIN sources \cup {created'} |->
                   IF s = created' THEN NewSource ELSE sources[s]]
  /\ UNCHANGED <<status, names, audios, loop>>

(* The buffers of the source stay.                                            *)
DestroySource(s) == /\ Idle /\ s \in DOMAIN sources
                    /\ sources' = [i \in DOMAIN sources \ {s} |-> sources[i]]
                    /\ voices' = [i \in DOMAIN voices \ {s} |-> voices[i]]
                    /\ UNCHANGED <<status, created, names, audios, loop>>

SetSourceLoop(s, looping) ==
  /\ Idle /\ s \in DOMAIN voices
  /\ voices' = [voices EXCEPT ![s].looping = looping]
  /\ UNCHANGED <<status, created, names, audios, sources, loop>>

SourcePlay(s) ==
  /\ Idle /\ s \in DOMAIN sources
  /\ sources' = [sources EXCEPT ![s].isPlaying = TRUE]
  /\ voices' = [v \in DOMAIN voices |-> IF v = s THEN Play(voices[v]) ELSE voices[v]]
  /\ UNCHANGED <<status, created, names, audios, loop>>

(* isPlaying stays, and update() goes on with what was played.                *)
SourcePause(s) ==
  /\ Idle /\ s \in DOMAIN voices
  /\ voices[s].state = "AL_PLAYING"
  /\ voices' = [voices EXCEPT ![s].state = "AL_PAUSED"]
  /\ UNCHANGED <<status, created, names, audios, sources, loop>>

(* g_sources.at(source) throws for a source that was destroyed.               *)
PlayUnknown(s) == /\ Idle /\ s \in 1 .. created \ DOMAIN sources
                  /\ status' = "out_of_range"
                  /\ UNCHANGED <<created, names, audios, sources, voices, loop>>

(* source_play with a file: one buffer that nobody uses, then the source's    *)
(* own, which take the place of those it had.                                 *)
NewBuffers == Tail(Generated(STREAM_BUFFER_NUM + 1))

StreamStart == STREAM_BUFFER_NUM * STREAM_BUFFER_SIZE

\* Mutant: a source that had a file keeps its cursor.
MutFilled_KeepsCursor(s, file) ==
  [sources EXCEPT ![s].file = file, ![s].buffers = NewBuffers, ![s].isPlaying = TRUE]

Filled(s, file) ==
  [sources EXCEPT ![s].file = file, ![s].buffers = NewBuffers,
                  ![s].streamCursor = StreamStart, ![s].isPlaying = TRUE]

FirstData(file) ==
  [i \in 1 .. STREAM_BUFFER_NUM |->
     [buffer |-> NewBuffers[i], format |-> file.format, play |-> NewBuffers[1],
      data |-> [k \in 1 .. STREAM_BUFFER_SIZE |-> (i - 1) * STREAM_BUFFER_SIZE + k - 1]]]

(* The first STREAM_BUFFER_NUM buffers are read from the data unchecked.      *)
SourcePlayFile(s, file) ==
  /\ Idle /\ s \in DOMAIN sources
  /\ file.format \in Formats
  /\ names + STREAM_BUFFER_NUM + 1 <= MaxBuffers
  /\ GenBuffers(STREAM_BUFFER_NUM + 1)
  /\ sources' = Filled(s, file)
  /\ status' = IF file.length < StreamStart THEN "undefined" ELSE status
  /\ voices' = [v \in DOMAIN voices |->
                  IF v = s THEN Play(Queue(voices[v], FirstData(file))) ELSE voices[v]]
  /\ UNCHANGED <<created, audios, loop>>

(* The format is looked at after the buffer is generated, which is lost.      *)
SourcePlayRejected(s, file) ==
  /\ Idle /\ names < MaxBuffers
  /\ s \in DOMAIN sources
  /\ file.format = "unrecognised"
  /\ GenBuffers(1)
  /\ UNCHANGED <<status, created, audios, sources, voices, loop>>

-----------------------------------------------------------------------------
(* update() *)

BeginUpdate == /\ Idle
               /\ todo' = DOMAIN sources
               /\ UNCHANGED <<status, created, names, audios, sources, voices, current, left>>

\* Mutant: the queued buffers are counted instead of the played ones.
MutVisitSource_AllQueued(s) ==
  /\ Up /\ left = 0 /\ s \in todo
  /\ todo' = todo \ {s}
  /\ current' = s
  /\ left' = IF sources[s].isPlaying /\ s \in DOMAIN voices THEN Len(voices[s].queue) ELSE 0
  /\ UNCHANGED <<status, created, names, audios, sources, voices>>

(* The number of played buffers is read once, when a source's turn comes.     *)
VisitSource(s) ==
  /\ Up /\ left = 0 /\ s \in todo
  /\ todo' = todo \ {s}
  /\ current' = s
  /\ left' = IF sources[s].isPlaying THEN BuffersProcessed(s) ELSE 0
  /\ UNCHANGED <<status, created, names, audios, sources, voices>>

(* update_stream: what is left of the data, then the data from the front.     *)
DataSizeToCopy(d) == IF d.streamCursor + STREAM_BUFFER_SIZE > d.file.length
                     THEN d.file.length - d.streamCursor
                     ELSE STREAM_BUFFER_SIZE

Data(d) == [k \in 1 .. STREAM_BUFFER_SIZE |->
              IF k <= DataSizeToCopy(d) THEN d.streamCursor + k - 1
                                        ELSE k - 1 - DataSizeToCopy(d)]

\* Mutant: the wrap does not move past what it copied from the front.
MutNextCursor_ToFront(d) == IF DataSizeToCopy(d) < STREAM_BUFFER_SIZE THEN 0
                            ELSE d.streamCursor + STREAM_BUFFER_SIZE

NextCursor(d) == IF DataSizeToCopy(d) < STREAM_BUFFER_SIZE
                 THEN STREAM_BUFFER_SIZE - DataSizeToCopy(d)
                 ELSE d.streamCursor + STREAM_BUFFER_SIZE

(* Either copy reads past the data: the first one's size is unsigned. At the  *)
(* data's end nothing is read: that audioData[streamCursor] names no element  *)
(* there, when the data ends with a buffer, is left out.                      *)
Overreads(d) == \/ d.streamCursor > d.file.length
                \/ STREAM_BUFFER_SIZE - DataSizeToCopy(d) > d.file.length

Refilled(v, d) == Queue(Unqueue(v), <<[buffer |-> Head(v.queue).buffer, format |-> d.file.format,
                                       data |-> Data(d), play |-> d.buffers[1]]>>)

\* Mutant: the number of played buffers is read in every turn.
MutRefill_Rereads == LET d == sources[current] IN
  /\ Up /\ left > 0
  /\ sources' = [sources EXCEPT ![current].streamCursor = NextCursor(d)]
  /\ voices' = [voices EXCEPT ![current] = Refilled(@, d)]
  /\ left' = voices'[current].played
  /\ UNCHANGED <<status, created, names, audios, todo, current>>

Refill == LET d == sources[current] IN
  /\ Up /\ left > 0
  /\ left' = left - 1
  /\ IF Overreads(d)
     THEN status' = "undefined" /\ UNCHANGED <<sources, voices>>
     ELSE /\ sources' = [sources EXCEPT ![current].streamCursor = NextCursor(d)]
          /\ voices' = [voices EXCEPT ![current] = Refilled(@, d)]
          /\ UNCHANGED status
  /\ UNCHANGED <<created, names, audios, todo, current>>

Terminated == status \in Ended /\ UNCHANGED vars

Update == BeginUpdate \/ (\E s \in SourceId : VisitSource(s)) \/ Refill

Calls == \/ Shutdown
         \/ \E file \in AudioFiles : CreateAudio(file)
         \/ \E audio \in audios : DestroyAudio(audio)
         \/ CreateSource
         \/ \E s \in SourceId : \/ DestroySource(s) \/ SourcePlay(s) \/ SourcePause(s)
                                \/ PlayUnknown(s)
                                \/ \E looping \in BOOLEAN : SetSourceLoop(s, looping)
                                \/ \E file \in AudioFiles : \/ SourcePlayFile(s, file)
                                                            \/ SourcePlayRejected(s, file)

Next == \/ Initialise \/ InitialiseFails
        \/ Calls
        \/ Update
        \/ \E s \in SourceId : Plays(s)
        \/ Terminated

(* The thread inside update() runs on.                                        *)
Spec     == Init /\ [][Next]_vars
FairSpec == Spec /\ WF_vars(~Idle /\ Update)

-----------------------------------------------------------------------------
(* No call reads outside a file's data when there is enough of it for the     *)
(* first buffers, whatever is played, paused and refilled when: the cursor    *)
(* always fits the data it points into.                                       *)
ReadsInRange == status = "undefined" =>
                  \E s \in DOMAIN sources : /\ sources[s].buffers # <<>>
                                           /\ sources[s].file.length < StreamStart

(* The queue of a source holds its buffers, once each, and the bytes on it    *)
(* are the file's in order, from its end on to its front, up to where the     *)
(* cursor is: until a buffer of another format is refused, the listener hears *)
(* the file in a loop, the rest of an earlier play first.                     *)
After(d, byte) == (byte + 1) % d.file.length

InOrder(d, q) ==
  /\ \A i \in DOMAIN q : q[i].play = d.buffers[1] =>
       /\ \A k \in 1 .. STREAM_BUFFER_SIZE - 1 : q[i].data[k + 1] = After(d, q[i].data[k])
       /\ After(d, q[i].data[STREAM_BUFFER_SIZE]) =
            (IF i = Len(q) THEN d.streamCursor % d.file.length ELSE q[i + 1].data[1])
  /\ \A i, j \in DOMAIN q : i < j => q[i].play <= q[j].play /\ q[i].buffer # q[j].buffer
  /\ Range(d.buffers) \subseteq {e.buffer : e \in Range(q)}

StreamInOrder ==
  status # "undefined" =>
    \A s \in DOMAIN voices :
      ~voices[s].refused /\ sources[s].buffers # <<>> => InOrder(sources[s], voices[s].queue)

(* update() returns, though OpenAL plays on meanwhile, and though on a source *)
(* that ran dry every buffer it queues counts as played at once.              *)
UpdateReturns == ~Idle /\ Up ~> Idle \/ status \in Ended
=============================================================================
