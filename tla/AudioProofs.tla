---------------------------- MODULE AudioProofs -----------------------------
(* Theorems about Audio for any number of sources and buffers, any buffer    *)
(* size and any files: no read outside a file's data once the first buffers  *)
(* fit, and the file heard in order, in a loop.                              *)
EXTENDS Audio, SequenceTheorems, TLAPS

NUM  == STREAM_BUFFER_NUM
SIZE == STREAM_BUFFER_SIZE

-----------------------------------------------------------------------------
(* Arithmetic. *)

LEMMA Constants == /\ NUM \in Nat /\ NUM >= 1 /\ SIZE \in Nat /\ SIZE >= 1
                   /\ MaxSources \in Nat /\ MaxBuffers \in Nat /\ NUM <= MaxBuffers
BY AudioAssumption DEF NUM, SIZE

LEMMA ModSmall == ASSUME NEW n \in Nat, NEW x \in 0 .. n - 1 PROVE x % n = x
OBVIOUS

LEMMA ModSelf == ASSUME NEW n \in Nat, n >= 1 PROVE n % n = 0
OBVIOUS

LEMMA TimesMonotone ==
  ASSUME NEW a \in Nat, NEW b \in Nat, NEW c \in Nat, a <= b
  PROVE  a * c <= b * c /\ a * c \in Nat /\ b * c \in Nat
<1>1. b * c = a * c + (b - a) * c
  OBVIOUS
<1>2. (b - a) * c \in Nat /\ a * c \in Nat /\ b * c \in Nat
  OBVIOUS
<1> QED BY <1>1, <1>2

(* A buffer's worth of bytes lies between two multiples of its size. *)
LEMMA BufferBounds ==
  ASSUME NEW i \in 1 .. NUM
  PROVE  /\ (i - 1) * SIZE \in Nat /\ i * SIZE \in Nat /\ NUM * SIZE \in Nat
         /\ (i - 1) * SIZE + SIZE = i * SIZE /\ i * SIZE <= NUM * SIZE
         /\ i < NUM => i * SIZE < NUM * SIZE
<1>1. NUM \in Nat /\ SIZE \in Nat /\ SIZE >= 1 /\ i \in Nat /\ i <= NUM /\ i - 1 \in Nat
  BY Constants
<1>2. (i - 1) * SIZE \in Nat /\ i * SIZE \in Nat /\ NUM * SIZE \in Nat /\ i * SIZE <= NUM * SIZE
  BY <1>1, TimesMonotone
<1>3. (i - 1) * SIZE + SIZE = i * SIZE
  BY <1>1
<1>4. ASSUME i < NUM PROVE i * SIZE < NUM * SIZE
  <2>1. (i + 1) * SIZE <= NUM * SIZE /\ (i + 1) * SIZE \in Nat
    BY <1>1, <1>4, TimesMonotone
  <2>2. (i + 1) * SIZE = i * SIZE + SIZE
    BY <1>1
  <2> QED BY <1>1, <1>2, <2>1, <2>2
<1> QED BY <1>2, <1>3, <1>4

-----------------------------------------------------------------------------
(* The inductive invariant. *)

(* Every voice of OpenAL belongs to a source, and only while there is a      *)
(* context; nothing is generated before initialise().                        *)
Attached == /\ DOMAIN voices \subseteq DOMAIN sources
            /\ status \in {"down", "no_context"} => DOMAIN voices = {}
            /\ status = "down" => names = 0

(* The buffers update() counted as played are still played, and still on the *)
(* queue of the source it is at.                                             *)
Claimed == left > 0 => /\ current \in DOMAIN voices
                       /\ ~voices[current].looping
                       /\ left <= voices[current].played

(* A source with buffers streams a file long enough for them, with a cursor  *)
(* inside it; only such a source has anything on its queue.                  *)
Fits(d) == d.buffers # <<>> =>
             /\ d.file.format \in Formats
             /\ status # "undefined" => /\ StreamStart <= d.file.length
                                        /\ d.streamCursor <= d.file.length

Fitting == /\ \A s \in DOMAIN sources : Fits(sources[s])
           /\ \A s \in DOMAIN voices : voices[s].queue # <<>> => sources[s].buffers # <<>>

(* Buffers and plays are named by what was generated so far, the current     *)
(* play after all the ones before it.                                        *)
Named(d, q, n) ==
  \A i \in DOMAIN q : q[i].buffer \in 1 .. n /\ q[i].play \in 1 .. n /\ q[i].play <= d.buffers[1]

Sound(d, v, n) == ~v.refused /\ d.buffers # <<>> => InOrder(d, v.queue) /\ Named(d, v.queue, n)

Sounding == status # "undefined" =>
              \A s \in DOMAIN voices : Sound(sources[s], voices[s], names)

Inv == TypeOK /\ Attached /\ Claimed /\ Fitting /\ ReadsInRange /\ Sounding

-----------------------------------------------------------------------------
(* What OpenAL's calls make of a voice. *)

VoiceOK(v) == v \in Voice /\ v.played \in 0 .. Len(v.queue)

LEMMA VoiceTyped ==
  ASSUME NEW v, VoiceOK(v)
  PROVE  /\ v.queue \in Seq(Queued) /\ Len(v.queue) \in Nat
         /\ v.played \in Nat /\ v.played <= Len(v.queue)
         /\ v.looping \in BOOLEAN /\ v.refused \in BOOLEAN
<1>1. v.queue \in Seq(Queued) /\ v.looping \in BOOLEAN /\ v.refused \in BOOLEAN
  BY DEF VoiceOK, Voice
<1>2. Len(v.queue) \in Nat
  BY <1>1, LenProperties
<1> QED BY <1>1, <1>2 DEF VoiceOK

(* Queue keeps the voice's type and either appends all or refuses all. *)
LEMMA QueueKeeps ==
  ASSUME NEW v, VoiceOK(v), NEW bs \in Seq(Queued)
  PROVE  /\ VoiceOK(Queue(v, bs))
         /\ Queue(v, bs).looping = v.looping /\ Queue(v, bs).played >= v.played
         /\ Queue(v, bs).queue # v.queue => Queue(v, bs).queue = v.queue \o bs
         /\ ~Queue(v, bs).refused => ~v.refused /\ Queue(v, bs).queue = v.queue \o bs
<1>1. v \in Voice /\ v.queue \in Seq(Queued) /\ Len(v.queue) \in Nat /\ v.played \in Nat
      /\ v.played <= Len(v.queue)
  BY VoiceTyped DEF VoiceOK
<1>2. /\ v.queue \o bs \in Seq(Queued) /\ Len(v.queue \o bs) = Len(v.queue) + Len(bs)
      /\ Len(bs) \in Nat
  BY <1>1, ConcatProperties, LenProperties
<1> DEFINE taken   == [v EXCEPT !.queue = v.queue \o bs,
                                !.played = IF v.state = "AL_STOPPED" THEN v.played + Len(bs)
                                           ELSE v.played]
           refused == [v EXCEPT !.refused = TRUE]
<1>3. Queue(v, bs) = taken \/ Queue(v, bs) = refused
  BY DEF Queue
<1> DEFINE p == IF v.state = "AL_STOPPED" THEN v.played + Len(bs) ELSE v.played
<1>9. p \in Nat /\ (p = v.played \/ p = v.played + Len(bs))
  BY <1>1, <1>2
<1>10. taken = [v EXCEPT !.queue = v.queue \o bs, !.played = p]
  OBVIOUS
<1> HIDE DEF p
<1>4. /\ taken \in Voice /\ taken.queue = v.queue \o bs /\ taken.looping = v.looping
      /\ taken.refused = v.refused
      /\ taken.played = v.played \/ taken.played = v.played + Len(bs)
  BY <1>1, <1>2, <1>9, <1>10 DEF Voice
<1>5. /\ refused \in Voice /\ refused.queue = v.queue /\ refused.looping = v.looping
      /\ refused.refused /\ refused.played = v.played
  BY <1>1 DEF Voice
<1> HIDE DEF taken, refused
<1>6. VoiceOK(taken) /\ VoiceOK(refused) /\ taken.played >= v.played /\ refused.played >= v.played
  BY <1>1, <1>2, <1>4, <1>5 DEF VoiceOK
<1>7. CASE Queue(v, bs) = taken
  BY <1>4, <1>6, <1>7
<1>8. CASE Queue(v, bs) = refused
  BY <1>5, <1>6, <1>8
<1> QED BY <1>3, <1>7, <1>8

(* Unqueue takes a played buffer off the head. *)
LEMMA UnqueueKeeps ==
  ASSUME NEW v, VoiceOK(v), v.played >= 1
  PROVE  /\ VoiceOK(Unqueue(v)) /\ v.queue # <<>>
         /\ Unqueue(v).queue = Tail(v.queue) /\ Unqueue(v).played = v.played - 1
         /\ Unqueue(v).looping = v.looping /\ Unqueue(v).refused = v.refused
<1>1. v \in Voice /\ v.queue \in Seq(Queued) /\ Len(v.queue) \in Nat /\ v.played \in Nat
      /\ v.played <= Len(v.queue)
  BY VoiceTyped DEF VoiceOK
<1>2. v.queue # <<>>
  BY <1>1, EmptySeq
<1>3. Tail(v.queue) \in Seq(Queued) /\ Len(Tail(v.queue)) = Len(v.queue) - 1
  BY <1>1, <1>2, HeadTailProperties
<1>5. v.played - 1 \in Nat
  BY <1>1
<1>6. Unqueue(v) = [v EXCEPT !.queue = Tail(v.queue), !.played = v.played - 1]
  BY DEF Unqueue
<1>4. /\ Unqueue(v) \in Voice
      /\ Unqueue(v).queue = Tail(v.queue) /\ Unqueue(v).played = v.played - 1
      /\ Unqueue(v).looping = v.looping /\ Unqueue(v).refused = v.refused
  BY <1>1, <1>3, <1>5, <1>6 DEF Voice
<1> QED BY <1>1, <1>2, <1>3, <1>4 DEF VoiceOK

(* Play leaves the queue alone. *)
LEMMA PlayKeeps ==
  ASSUME NEW v, VoiceOK(v)
  PROVE  VoiceOK(Play(v)) /\ Play(v).queue = v.queue /\ Play(v).refused = v.refused
<1>1. v \in Voice /\ Len(v.queue) \in Nat /\ v.played \in 0 .. Len(v.queue)
  BY VoiceTyped DEF VoiceOK
<1>2. /\ Play(v) \in Voice /\ Play(v).queue = v.queue /\ Play(v).refused = v.refused
      /\ Play(v).played = v.played \/ Play(v).played = 0
  BY <1>1 DEF Play, Voice
<1> QED BY <1>1, <1>2 DEF VoiceOK

-----------------------------------------------------------------------------
(* What update_stream copies. *)

LEMMA SourceTyped ==
  ASSUME NEW d \in SourceData
  PROVE  /\ d.file.length \in Nat /\ d.streamCursor \in Nat /\ d.buffers \in Seq(Nat)
         /\ d.isPlaying \in BOOLEAN /\ d.file \in AudioFiles \cup {NoFile}
<1>1. d.file \in AudioFiles \cup {NoFile}
  BY DEF SourceData
<1>2. d.file.length \in Nat
  BY <1>1, AudioAssumption DEF AudioFile, NoFile
<1> QED BY <1>1, <1>2 DEF SourceData

(* With a file that holds the first buffers and a cursor inside it, both     *)
(* copies stay inside; the bytes follow each other and the cursor.           *)
LEMMA RefillData ==
  ASSUME NEW d \in SourceData, StreamStart <= d.file.length, d.streamCursor <= d.file.length
  PROVE  /\ ~Overreads(d)
         /\ NextCursor(d) \in Nat /\ NextCursor(d) <= d.file.length
         /\ Data(d) \in Bytes(SIZE)
         /\ Data(d)[1] = d.streamCursor % d.file.length
         /\ \A k \in 1 .. SIZE - 1 : Data(d)[k + 1] = After(d, Data(d)[k])
         /\ After(d, Data(d)[SIZE]) = NextCursor(d) % d.file.length
<1> DEFINE L == d.file.length
           c == d.streamCursor
           n == DataSizeToCopy(d)
<1>1. L \in Nat /\ c \in Nat /\ c <= L /\ SIZE \in Nat /\ SIZE >= 1
  BY SourceTyped, Constants
<1>2. SIZE <= L /\ L >= 1
  <2>1. SIZE <= NUM * SIZE /\ NUM * SIZE \in Nat
    <3>1. 1 \in 1 .. NUM /\ 1 * SIZE = SIZE
      BY Constants
    <3> QED BY <3>1, BufferBounds
  <2>2. NUM * SIZE <= L
    BY DEF StreamStart, NUM, SIZE
  <2> QED BY <1>1, <2>1, <2>2
<1>3. n = IF c + SIZE > L THEN L - c ELSE SIZE
  BY DEF DataSizeToCopy, SIZE
<1>4. NextCursor(d) = IF n < SIZE THEN SIZE - n ELSE c + SIZE
  BY DEF NextCursor, SIZE
<1>5. Data(d) = [k \in 1 .. SIZE |-> IF k <= n THEN c + k - 1 ELSE k - 1 - n]
  BY DEF Data, SIZE
<1>6. \A x : After(d, x) = (x + 1) % L
  BY DEF After
<1>7. ~Overreads(d)
  <2>1. n \in Nat
    BY <1>1, <1>3
  <2>2. ~(c > L) /\ ~(SIZE - n > L)
    BY <1>1, <1>2, <2>1
  <2> QED BY <2>2 DEF Overreads, SIZE
<1> HIDE DEF L, c, n
<1>8. n \in Nat /\ n <= SIZE /\ c + n <= L /\ (n < SIZE => c + n = L)
  BY <1>1, <1>3
<1>9. NextCursor(d) \in Nat /\ NextCursor(d) <= L
  BY <1>1, <1>2, <1>4, <1>8
<1>10. \A k \in 1 .. SIZE : Data(d)[k] = IF k <= n THEN c + k - 1 ELSE k - 1 - n
  BY <1>5
<1>11. Data(d) \in Bytes(SIZE)
  <2>1. \A k \in 1 .. SIZE : (IF k <= n THEN c + k - 1 ELSE k - 1 - n) \in Nat
    BY <1>1, <1>8
  <2> QED BY <1>5, <2>1 DEF Bytes
<1>12. Data(d)[1] = c % L
  <2>1. CASE n >= 1
    <3>1. c \in 0 .. L - 1
      BY <1>1, <1>8, <2>1
    <3>2. Data(d)[1] = c
      BY <1>1, <1>10, <2>1
    <3> QED BY <1>1, <3>1, <3>2, ModSmall
  <2>2. CASE n = 0
    <3>1. c = L
      BY <1>1, <1>8, <2>2
    <3>2. Data(d)[1] = 0
      BY <1>1, <1>10, <2>2
    <3> QED BY <1>1, <1>2, <3>1, <3>2, ModSelf
  <2> QED BY <1>8, <2>1, <2>2
<1>13. ASSUME NEW k \in 1 .. SIZE - 1 PROVE Data(d)[k + 1] = After(d, Data(d)[k])
  <2>1. k \in 1 .. SIZE /\ k + 1 \in 1 .. SIZE
    BY <1>1
  <2>2. CASE k + 1 <= n
    <3>1. Data(d)[k] = c + k - 1 /\ Data(d)[k + 1] = c + k
      BY <1>1, <1>8, <1>10, <2>1, <2>2
    <3>2. c + k \in 0 .. L - 1 /\ (c + k - 1) + 1 = c + k
      BY <1>1, <1>8, <2>1, <2>2
    <3> QED BY <1>1, <1>6, <3>1, <3>2, ModSmall
  <2>3. CASE k = n
    <3>1. Data(d)[k] = c + k - 1 /\ Data(d)[k + 1] = 0
      BY <1>1, <1>8, <1>10, <2>1, <2>3
    <3>2. (c + k - 1) + 1 = L
      BY <1>1, <1>8, <2>1, <2>3
    <3> QED BY <1>1, <1>2, <1>6, <3>1, <3>2, ModSelf
  <2>4. CASE k > n
    <3>1. Data(d)[k] = k - 1 - n /\ Data(d)[k + 1] = k - n
      BY <1>1, <1>8, <1>10, <2>1, <2>4
    <3>2. k - n \in 0 .. L - 1 /\ (k - 1 - n) + 1 = k - n
      BY <1>1, <1>2, <1>8, <2>1, <2>4
    <3> QED BY <1>1, <1>6, <3>1, <3>2, ModSmall
  <2> QED BY <1>8, <2>1, <2>2, <2>3, <2>4
<1>14. After(d, Data(d)[SIZE]) = NextCursor(d) % L
  <2>1. SIZE \in 1 .. SIZE
    BY <1>1
  <2>2. Data(d)[SIZE] + 1 = NextCursor(d)
    <3>1. CASE n < SIZE
      BY <1>1, <1>4, <1>8, <1>10, <2>1, <3>1
    <3>2. CASE n = SIZE
      BY <1>1, <1>4, <1>8, <1>10, <2>1, <3>2
    <3> QED BY <1>1, <1>8, <3>1, <3>2
  <2> QED BY <1>6, <2>2
<1> QED BY <1>7, <1>9, <1>11, <1>12, <1>13, <1>14 DEF L, c

(* A refill moves the head of the queue to its end, with the bytes that come *)
(* next: what is sound stays sound.                                          *)
LEMMA RefillKeeps ==
  ASSUME NEW d \in SourceData, NEW v, VoiceOK(v), v.played >= 1,
         d.buffers # <<>>, d.file.format \in Formats,
         StreamStart <= d.file.length, d.streamCursor <= d.file.length,
         NEW n \in Nat, Sound(d, v, n)
  PROVE  /\ VoiceOK(Refilled(v, d))
         /\ Refilled(v, d).looping = v.looping /\ Refilled(v, d).played >= v.played - 1
         /\ Sound([d EXCEPT !.streamCursor = NextCursor(d)], Refilled(v, d), n)
<1> DEFINE q == v.queue
           e == [d EXCEPT !.streamCursor = NextCursor(d)]
           x == [buffer |-> Head(q).buffer, format |-> d.file.format,
                 data |-> Data(d), play |-> d.buffers[1]]
           r == Refilled(v, d)
           m == Len(q)
<1>1. /\ VoiceOK(Unqueue(v)) /\ q # <<>> /\ Unqueue(v).queue = Tail(q)
      /\ Unqueue(v).played = v.played - 1 /\ Unqueue(v).looping = v.looping
      /\ Unqueue(v).refused = v.refused
  BY UnqueueKeeps
<1>2. /\ q \in Seq(Queued) /\ m \in Nat /\ m >= 1 /\ Tail(q) \in Seq(Queued)
      /\ Len(Tail(q)) = m - 1 /\ \A i \in 1 .. m - 1 : Tail(q)[i] = q[i + 1]
      /\ Head(q) = q[1] /\ q[1] \in Queued
  <2>1. q \in Seq(Queued)
    BY VoiceTyped
  <2>2. m \in Nat /\ m >= 1
    BY <1>1, <2>1, EmptySeq
  <2> QED BY <1>1, <2>1, <2>2, HeadTailProperties, ElementOfSeq
<1>3. /\ d.file.length \in Nat /\ d.buffers \in Seq(Nat) /\ d.buffers[1] \in Nat
      /\ 1 \in DOMAIN d.buffers
  <2>1. d.buffers \in Seq(Nat) /\ d.file.length \in Nat
    BY SourceTyped
  <2>2. 1 \in 1 .. Len(d.buffers)
    BY <2>1, EmptySeq
  <2> QED BY <2>1, <2>2, ElementOfSeq, LenProperties
<1>4. /\ NextCursor(d) \in Nat /\ Data(d) \in Bytes(SIZE)
      /\ Data(d)[1] = d.streamCursor % d.file.length
      /\ \A k \in 1 .. SIZE - 1 : Data(d)[k + 1] = After(d, Data(d)[k])
      /\ After(d, Data(d)[SIZE]) = NextCursor(d) % d.file.length
  BY RefillData
<1>5. /\ e.file = d.file /\ e.buffers = d.buffers /\ e.streamCursor = NextCursor(d)
      /\ \A y : After(e, y) = After(d, y)
  BY DEF SourceData, After
<1>6. /\ x \in Queued /\ x.play = d.buffers[1] /\ x.data = Data(d) /\ x.buffer = q[1].buffer
  BY <1>2, <1>3, <1>4 DEF Queued, SIZE
<1>7. r = Queue(Unqueue(v), <<x>>)
  BY DEF Refilled
<1> HIDE DEF x, r, e
<1>8. <<x>> \in Seq(Queued) /\ Len(<<x>>) = 1 /\ <<x>>[1] = x
  BY <1>6
<1>9. /\ VoiceOK(r) /\ r.looping = v.looping /\ r.played >= v.played - 1
      /\ ~r.refused => ~v.refused /\ r.queue = Tail(q) \o <<x>>
  BY <1>1, <1>7, <1>8, QueueKeeps
<1>10. ASSUME ~r.refused PROVE InOrder(e, r.queue) /\ Named(e, r.queue, n)
  <2>1. InOrder(d, q) /\ Named(d, q, n)
    BY <1>9, <1>10 DEF Sound
  <2>2. DOMAIN q = 1 .. m /\ DOMAIN r.queue = 1 .. m /\ Len(r.queue) = m
        /\ (\A i \in 1 .. m - 1 : r.queue[i] = q[i + 1]) /\ r.queue[m] = x
    <3>1. /\ r.queue \in Seq(Queued) /\ Len(r.queue) = Len(Tail(q)) + Len(<<x>>)
          /\ \A i \in 1 .. Len(Tail(q)) + Len(<<x>>) :
               r.queue[i] = IF i <= Len(Tail(q)) THEN Tail(q)[i] ELSE <<x>>[i - Len(Tail(q))]
      <4>1. r.queue = Tail(q) \o <<x>> /\ Tail(q) \in Seq(Queued) /\ <<x>> \in Seq(Queued)
        BY <1>2, <1>8, <1>9, <1>10
      <4> HIDE DEF q
      <4> QED BY <4>1, ConcatProperties
    <3>2. Len(r.queue) = m
      BY <1>2, <1>8, <3>1
    <3>3. DOMAIN q = 1 .. m /\ DOMAIN r.queue = 1 .. m
      BY <1>2, <3>1, <3>2, LenProperties
    <3>4. r.queue[m] = <<x>>[1]
      <4>1. m \in 1 .. Len(Tail(q)) + Len(<<x>>) /\ ~(m <= Len(Tail(q))) /\ m - Len(Tail(q)) = 1
        BY <1>2, <1>8
      <4> QED BY <3>1, <4>1
    <3>5. \A i \in 1 .. m - 1 : r.queue[i] = q[i + 1]
      BY <1>2, <1>8, <3>1
    <3> QED BY <1>8, <3>2, <3>3, <3>4, <3>5
  <2>3. /\ \A i \in 1 .. m : q[i].play = d.buffers[1] =>
             /\ \A k \in 1 .. SIZE - 1 : q[i].data[k + 1] = After(d, q[i].data[k])
             /\ After(d, q[i].data[SIZE]) =
                  (IF i = m THEN d.streamCursor % d.file.length ELSE q[i + 1].data[1])
        /\ \A i, j \in 1 .. m : i < j => q[i].play <= q[j].play /\ q[i].buffer # q[j].buffer
        /\ Range(d.buffers) \subseteq {b.buffer : b \in Range(q)}
    BY <2>1, <2>2 DEF InOrder, SIZE
  <2>4. \A i \in 1 .. m : /\ q[i].buffer \in 1 .. n /\ q[i].play \in 1 .. n
                          /\ q[i].play <= d.buffers[1]
    BY <2>1, <2>2 DEF Named
  <2>5. ASSUME NEW i \in 1 .. m, r.queue[i].play = e.buffers[1]
        PROVE  /\ \A k \in 1 .. SIZE - 1 :
                    r.queue[i].data[k + 1] = After(e, r.queue[i].data[k])
               /\ After(e, r.queue[i].data[SIZE]) =
                    (IF i = m THEN e.streamCursor % e.file.length ELSE r.queue[i + 1].data[1])
    <3>1. CASE i = m
      BY <1>4, <1>5, <1>6, <2>2, <3>1
    <3>2. CASE i < m
      <4>1. r.queue[i] = q[i + 1] /\ i + 1 \in 1 .. m
        BY <1>2, <2>2, <3>2
      <4>2. /\ \A k \in 1 .. SIZE - 1 : q[i + 1].data[k + 1] = After(d, q[i + 1].data[k])
            /\ After(d, q[i + 1].data[SIZE]) =
                 (IF i + 1 = m THEN d.streamCursor % d.file.length ELSE q[(i + 1) + 1].data[1])
        BY <1>5, <2>3, <2>5, <4>1
      <4>3. r.queue[i + 1].data[1] =
              (IF i + 1 = m THEN d.streamCursor % d.file.length ELSE q[(i + 1) + 1].data[1])
        <5>1. CASE i + 1 = m
          BY <1>4, <1>6, <2>2, <5>1
        <5>2. CASE i + 1 # m
          <6>1. i + 1 \in 1 .. m - 1
            BY <1>2, <4>1, <5>2
          <6> QED BY <2>2, <5>2, <6>1
        <5> QED BY <5>1, <5>2
      <4>4. i # m
        BY <1>2, <3>2
      <4> QED BY <1>5, <4>1, <4>2, <4>3, <4>4
    <3> QED BY <1>2, <3>1, <3>2
  <2>6. ASSUME NEW i \in 1 .. m, NEW j \in 1 .. m, i < j
        PROVE  r.queue[i].play <= r.queue[j].play /\ r.queue[i].buffer # r.queue[j].buffer
    <3>1. r.queue[i] = q[i + 1] /\ i + 1 \in 1 .. m
      BY <1>2, <2>2, <2>6
    <3>2. CASE j = m
      <4>1. q[i + 1].play <= d.buffers[1]
        BY <2>4, <3>1
      <4>2. q[1].buffer # q[i + 1].buffer
        <5>1. 1 \in 1 .. m /\ 1 < i + 1
          BY <1>2
        <5> QED BY <2>3, <3>1, <5>1
      <4> QED BY <1>6, <2>2, <3>1, <3>2, <4>1, <4>2
    <3>3. CASE j < m
      <4>1. r.queue[j] = q[j + 1] /\ j + 1 \in 1 .. m /\ i + 1 < j + 1
        BY <1>2, <2>2, <2>6, <3>3
      <4> QED BY <2>3, <3>1, <4>1
    <3> QED BY <1>2, <3>2, <3>3
  <2>11. Range(q) = {q[i] : i \in 1 .. m}
    BY <2>2 DEF Range
  <2>7. Range(e.buffers) \subseteq {b.buffer : b \in Range(r.queue)}
    <3> SUFFICES ASSUME NEW y \in Range(d.buffers)
                 PROVE  \E i \in 1 .. m : r.queue[i].buffer = y
      <4>1. Range(r.queue) = {r.queue[i] : i \in 1 .. m}
        BY <2>2 DEF Range
      <4> QED BY <1>5, <4>1
    <3>1. PICK i \in 1 .. m : q[i].buffer = y
      BY <2>3, <2>11
    <3>2. CASE i = 1
      BY <1>2, <1>6, <2>2, <3>1, <3>2
    <3>3. CASE i # 1
      <4>1. i - 1 \in 1 .. m - 1 /\ (i - 1) + 1 = i /\ i - 1 \in 1 .. m
        BY <1>2, <3>3
      <4> QED BY <2>2, <3>1, <4>1
    <3> QED BY <3>2, <3>3
  <2>8. InOrder(e, r.queue)
    BY <2>2, <2>5, <2>6, <2>7 DEF InOrder, SIZE
  <2>9. d.buffers[1] \in 1 .. n
    <3>1. PICK i \in 1 .. m : q[i].buffer = d.buffers[1]
      <4>1. d.buffers[1] \in Range(d.buffers)
        BY <1>3 DEF Range
      <4> QED BY <2>3, <2>11, <4>1
    <3> QED BY <2>4, <3>1
  <2>10. Named(e, r.queue, n)
    <3> SUFFICES ASSUME NEW i \in 1 .. m
                 PROVE  /\ r.queue[i].buffer \in 1 .. n /\ r.queue[i].play \in 1 .. n
                        /\ r.queue[i].play <= d.buffers[1]
      BY <1>5, <2>2 DEF Named
    <3>1. CASE i = m
      <4>1. q[1].buffer \in 1 .. n
        BY <1>2, <2>4
      <4> QED BY <1>6, <2>2, <2>9, <3>1, <4>1
    <3>2. CASE i < m
      <4>1. i \in 1 .. m - 1 /\ i + 1 \in 1 .. m
        BY <1>2, <3>2
      <4> QED BY <2>2, <2>4, <4>1
    <3> QED BY <1>2, <3>1, <3>2
  <2> QED BY <2>8, <2>10
<1> QED BY <1>9, <1>10 DEF Sound, r, e

-----------------------------------------------------------------------------
(* What source_play with a file fills. *)

LEMMA NewBuffersAre ==
  ASSUME names \in Nat
  PROVE  /\ NewBuffers \in Seq(Nat) /\ Len(NewBuffers) = NUM /\ DOMAIN NewBuffers = 1 .. NUM
         /\ NewBuffers # <<>>
         /\ status = "up" => \A i \in 1 .. NUM : NewBuffers[i] = names + 1 + i
<1> DEFINE g == Generated(NUM + 1)
<1>1. NUM \in Nat /\ NUM >= 1
  BY Constants
<1>2. /\ g = [i \in 1 .. NUM + 1 |-> IF status = "up" THEN names + i ELSE 0]
  BY DEF Generated
<1>3. \A i \in 1 .. NUM + 1 : (IF status = "up" THEN names + i ELSE 0) \in Nat
  OBVIOUS
<1>4. g \in Seq(Nat)
  BY <1>1, <1>2, <1>3, IsASeq
<1>5. Len(g) = NUM + 1
  BY <1>1, <1>2, <1>4, LenProperties
<1>6. g # <<>>
  BY <1>1, <1>5, EmptySeq
<1> HIDE DEF g
<1>7. /\ Tail(g) \in Seq(Nat) /\ Len(Tail(g)) = NUM
      /\ \A i \in 1 .. NUM : Tail(g)[i] = g[i + 1]
  BY <1>1, <1>4, <1>5, <1>6, HeadTailProperties
<1>8. NewBuffers = Tail(g)
  BY DEF NewBuffers, g, NUM
<1>9. ASSUME status = "up", NEW i \in 1 .. NUM PROVE NewBuffers[i] = names + 1 + i
  BY <1>1, <1>2, <1>7, <1>8, <1>9
<1>10. NewBuffers \in Seq(Nat) /\ Len(NewBuffers) = NUM /\ DOMAIN NewBuffers = 1 .. NUM
  BY <1>7, <1>8, LenProperties
<1>11. NewBuffers # <<>>
  BY <1>1, <1>10, EmptySeq
<1> QED BY <1>9, <1>10, <1>11

LEMMA FirstDataIs ==
  ASSUME names \in Nat, NEW file \in AudioFiles, file.format \in Formats
  PROVE  /\ FirstData(file) \in Seq(Queued) /\ Len(FirstData(file)) = NUM
         /\ \A i \in 1 .. NUM :
              /\ FirstData(file)[i].buffer = NewBuffers[i]
              /\ FirstData(file)[i].play = NewBuffers[1]
              /\ \A k \in 1 .. SIZE : FirstData(file)[i].data[k] = (i - 1) * SIZE + k - 1
<1> DEFINE data(i) == [k \in 1 .. SIZE |-> (i - 1) * SIZE + k - 1]
           x(i)    == [buffer |-> NewBuffers[i], format |-> file.format,
                       play |-> NewBuffers[1], data |-> data(i)]
<1>1. NUM \in Nat /\ NUM >= 1 /\ SIZE \in Nat
  BY Constants
<1>2. \A i \in 1 .. NUM : NewBuffers[i] \in Nat
  BY NewBuffersAre, ElementOfSeq
<1>3. ASSUME NEW i \in 1 .. NUM PROVE data(i) \in Bytes(SIZE)
  <2>1. (i - 1) * SIZE \in Nat
    BY BufferBounds
  <2>2. \A k \in 1 .. SIZE : (i - 1) * SIZE + k - 1 \in Nat
    BY <1>1, <2>1
  <2> QED BY <2>2 DEF Bytes
<1>4. FirstData(file) = [i \in 1 .. NUM |-> x(i)]
  BY DEF FirstData, NUM, SIZE
<1>5. \A i \in 1 .. NUM : \A k \in 1 .. SIZE : data(i)[k] = (i - 1) * SIZE + k - 1
  OBVIOUS
<1> HIDE DEF data
<1>6. \A i \in 1 .. NUM : x(i) \in Queued
  BY <1>1, <1>2, <1>3 DEF Queued, SIZE
<1>7. \A i \in 1 .. NUM : /\ x(i).buffer = NewBuffers[i] /\ x(i).play = NewBuffers[1]
                          /\ x(i).data = data(i)
  OBVIOUS
<1> HIDE DEF x
<1>8. FirstData(file) \in Seq(Queued)
  BY <1>1, <1>4, <1>6, IsASeq
<1>9. Len(FirstData(file)) = NUM
  BY <1>1, <1>4, <1>8, LenProperties
<1>10. ASSUME NEW i \in 1 .. NUM
       PROVE  /\ FirstData(file)[i].buffer = NewBuffers[i]
              /\ FirstData(file)[i].play = NewBuffers[1]
              /\ \A k \in 1 .. SIZE : FirstData(file)[i].data[k] = (i - 1) * SIZE + k - 1
  <2>1. FirstData(file)[i] = x(i)
    BY <1>4
  <2> QED BY <1>5, <1>7, <2>1
<1> QED BY <1>8, <1>9, <1>10

(* The new play is queued behind the old ones, its bytes from the front of   *)
(* the file: a queue that was sound stays sound.                             *)
LEMMA FillKeeps ==
  ASSUME NEW d \in SourceData, NEW v, VoiceOK(v), status = "up", names \in Nat,
         NEW file \in AudioFiles, file.format \in Formats, StreamStart <= file.length,
         v.queue # <<>> => d.buffers # <<>>,
         Sound(d, v, names), NEW e \in SourceData,
         e.file = file, e.buffers = NewBuffers, e.streamCursor = StreamStart,
         NEW r, VoiceOK(r), ~r.refused => ~v.refused /\ r.queue = v.queue \o FirstData(file)
  PROVE  Sound(e, r, names + NUM + 1)
<1> DEFINE q == v.queue
           f == FirstData(file)
           m == Len(q)
<1> SUFFICES ASSUME ~r.refused
             PROVE  InOrder(e, r.queue) /\ Named(e, r.queue, names + NUM + 1)
  BY DEF Sound
<1>1. q \in Seq(Queued) /\ m \in Nat /\ ~v.refused /\ r.queue = q \o f
  BY VoiceTyped
<1>2. /\ f \in Seq(Queued) /\ Len(f) = NUM
      /\ \A i \in 1 .. NUM : /\ f[i].buffer = NewBuffers[i] /\ f[i].play = NewBuffers[1]
                             /\ \A k \in 1 .. SIZE : f[i].data[k] = (i - 1) * SIZE + k - 1
  BY FirstDataIs
<1>3. NUM \in Nat /\ NUM >= 1 /\ SIZE \in Nat /\ SIZE >= 1
  BY Constants
<1>4. /\ DOMAIN NewBuffers = 1 .. NUM /\ \A i \in 1 .. NUM : NewBuffers[i] = names + 1 + i
  BY NewBuffersAre
<1>5. file.length \in Nat /\ NUM * SIZE <= file.length /\ e.streamCursor = NUM * SIZE
  BY AudioAssumption DEF AudioFile, StreamStart, NUM, SIZE
<1>6. \A x : After(e, x) = (x + 1) % file.length
  BY DEF After
<1>7. NewBuffers[1] = names + 2
  BY <1>3, <1>4
<1> HIDE DEF f, q
<1>8. /\ r.queue \in Seq(Queued) /\ Len(r.queue) = m + NUM /\ DOMAIN r.queue = 1 .. m + NUM
      /\ DOMAIN q = 1 .. m
      /\ \A i \in 1 .. m + NUM : r.queue[i] = IF i <= m THEN q[i] ELSE f[i - m]
  BY <1>1, <1>2, ConcatProperties, LenProperties
<1>9. /\ \A i \in 1 .. m : r.queue[i] = q[i]
      /\ \A i \in 1 .. NUM : r.queue[m + i] = f[i]
  BY <1>1, <1>3, <1>8
<1>10. \A i \in 1 .. m + NUM : i \in 1 .. m \/ \E k \in 1 .. NUM : i = m + k
  <2> SUFFICES ASSUME NEW i \in 1 .. m + NUM, i > m PROVE \E k \in 1 .. NUM : i = m + k
    BY <1>1
  <2>1. i - m \in 1 .. NUM /\ i = m + (i - m)
    BY <1>1, <1>3
  <2> QED BY <2>1
<1>11. \A i \in 1 .. m : q[i].buffer \in 1 .. names /\ q[i].play \in 1 .. names
  <2>1. CASE q = <<>>
    BY <1>1, <2>1, EmptySeq
  <2>2. CASE q # <<>>
    <3>1. d.buffers # <<>>
      BY <2>2 DEF q
    <3> QED BY <1>1, <1>8, <3>1 DEF Sound, Named, q
  <2> QED BY <2>1, <2>2
<1>12. \A i, j \in 1 .. m : i < j => q[i].play <= q[j].play /\ q[i].buffer # q[j].buffer
  <2>1. CASE q = <<>>
    BY <1>1, <2>1, EmptySeq
  <2>2. CASE q # <<>>
    <3>1. d.buffers # <<>>
      BY <2>2 DEF q
    <3> QED BY <1>1, <1>8, <3>1 DEF Sound, InOrder, q
  <2> QED BY <2>1, <2>2
<1>13. Named(e, r.queue, names + NUM + 1)
  <2>1. ASSUME NEW i \in 1 .. m
        PROVE  /\ r.queue[i].buffer \in 1 .. names + NUM + 1
               /\ r.queue[i].play \in 1 .. names + NUM + 1 /\ r.queue[i].play <= names + 2
    <3>1. r.queue[i].buffer \in 1 .. names /\ r.queue[i].play \in 1 .. names
      BY <1>9, <1>11
    <3> QED BY <1>3, <3>1
  <2>2. ASSUME NEW i \in 1 .. NUM
        PROVE  /\ r.queue[m + i].buffer \in 1 .. names + NUM + 1
               /\ r.queue[m + i].play \in 1 .. names + NUM + 1
               /\ r.queue[m + i].play <= names + 2
    <3>1. r.queue[m + i].buffer = names + 1 + i /\ r.queue[m + i].play = names + 2
      BY <1>2, <1>4, <1>7, <1>9
    <3> QED BY <1>3, <3>1
  <2>3. \A i \in 1 .. m + NUM : /\ r.queue[i].buffer \in 1 .. names + NUM + 1
                                /\ r.queue[i].play \in 1 .. names + NUM + 1
                                /\ r.queue[i].play <= names + 2
    BY <1>10, <2>1, <2>2
  <2> QED BY <1>7, <1>8, <2>3 DEF Named
<1>14. ASSUME NEW i \in 1 .. NUM
       PROVE  /\ \A k \in 1 .. SIZE - 1 : f[i].data[k + 1] = After(e, f[i].data[k])
              /\ After(e, f[i].data[SIZE]) =
                   (IF i = NUM THEN e.streamCursor % file.length ELSE f[i + 1].data[1])
  <2>1. /\ (i - 1) * SIZE \in Nat /\ i * SIZE \in Nat /\ NUM * SIZE \in Nat
        /\ (i - 1) * SIZE + SIZE = i * SIZE /\ i * SIZE <= NUM * SIZE
        /\ i < NUM => i * SIZE < NUM * SIZE
    BY BufferBounds
  <2> DEFINE b == (i - 1) * SIZE
             c == i * SIZE
             z == NUM * SIZE
  <2>2. /\ b \in Nat /\ c \in Nat /\ z \in Nat /\ b + SIZE = c /\ c <= z /\ (i < NUM => c < z)
        /\ z <= file.length /\ e.streamCursor = z
        /\ \A k \in 1 .. SIZE : f[i].data[k] = b + k - 1
    BY <1>2, <1>5, <2>1
  <2>3. i < NUM => f[i + 1].data[1] = c
    <3> SUFFICES ASSUME i < NUM PROVE f[i + 1].data[1] = c
      OBVIOUS
    <3>1. i + 1 \in 1 .. NUM /\ 1 \in 1 .. SIZE
      BY <1>3
    <3>2. f[i + 1].data[1] = ((i + 1) - 1) * SIZE + 1 - 1
      BY <1>2, <3>1
    <3>3. (i + 1) - 1 = i
      OBVIOUS
    <3> QED BY <2>1, <3>2, <3>3
  <2> HIDE DEF b, c, z
  <2>4. ASSUME NEW k \in 1 .. SIZE - 1 PROVE f[i].data[k + 1] = After(e, f[i].data[k])
    <3>1. f[i].data[k] = b + k - 1 /\ f[i].data[k + 1] = b + k
      BY <1>3, <2>2
    <3>2. b + k \in 0 .. file.length - 1 /\ (b + k - 1) + 1 = b + k
      BY <1>3, <1>5, <2>2
    <3> QED BY <1>5, <1>6, <3>1, <3>2, ModSmall
  <2>5. After(e, f[i].data[SIZE]) = c % file.length
    <3>1. f[i].data[SIZE] + 1 = c
      <4>1. SIZE \in 1 .. SIZE
        BY <1>3
      <4>2. f[i].data[SIZE] = b + SIZE - 1
        BY <2>2, <4>1
      <4> QED BY <1>3, <2>2, <4>2
    <3> QED BY <1>6, <3>1
  <2>6. CASE i = NUM
    <3>1. c = z
      BY <2>6 DEF c, z
    <3> QED BY <2>2, <2>4, <2>5, <2>6, <3>1
  <2>7. CASE i # NUM
    <3>1. i < NUM /\ c \in 0 .. file.length - 1
      BY <1>3, <1>5, <2>2, <2>7
    <3> QED BY <1>5, <2>3, <2>4, <2>5, <2>7, <3>1, ModSmall
  <2> QED BY <2>6, <2>7
<1>15. ASSUME NEW i \in 1 .. m + NUM, r.queue[i].play = e.buffers[1]
       PROVE  /\ \A k \in 1 .. SIZE - 1 :
                   r.queue[i].data[k + 1] = After(e, r.queue[i].data[k])
              /\ After(e, r.queue[i].data[SIZE]) =
                   (IF i = m + NUM THEN e.streamCursor % file.length
                                   ELSE r.queue[i + 1].data[1])
  <2>1. ~(i \in 1 .. m)
    <3> SUFFICES ASSUME i \in 1 .. m PROVE FALSE
      OBVIOUS
    <3>1. r.queue[i].play \in 1 .. names
      BY <1>9, <1>11
    <3> QED BY <1>7, <1>15, <3>1
  <2>2. PICK k \in 1 .. NUM : i = m + k
    BY <1>10, <2>1
  <2>3. r.queue[i] = f[k]
    BY <1>9, <2>2
  <2>5. k = NUM => i = m + NUM
    BY <2>2
  <2>6. k # NUM => i # m + NUM
    BY <1>1, <1>3, <2>2
  <2>4. k # NUM => r.queue[i + 1] = f[k + 1]
    <3> SUFFICES ASSUME k # NUM PROVE r.queue[i + 1] = f[k + 1]
      OBVIOUS
    <3>1. k + 1 \in 1 .. NUM /\ i + 1 = m + (k + 1)
      BY <1>1, <1>3, <2>2
    <3> QED BY <1>9, <3>1
  <2> QED BY <1>14, <2>3, <2>4, <2>5, <2>6
<1>16. ASSUME NEW i \in 1 .. m + NUM, NEW j \in 1 .. m + NUM, i < j
       PROVE  r.queue[i].play <= r.queue[j].play /\ r.queue[i].buffer # r.queue[j].buffer
  <2>1. CASE j \in 1 .. m
    <3>1. i \in 1 .. m
      BY <1>1, <1>16, <2>1
    <3> QED BY <1>9, <1>12, <1>16, <2>1, <3>1
  <2>2. ASSUME NEW l \in 1 .. NUM, j = m + l
        PROVE  r.queue[i].play <= r.queue[j].play /\ r.queue[i].buffer # r.queue[j].buffer
    <3>1. r.queue[j].play = names + 2 /\ r.queue[j].buffer = names + 1 + l
      BY <1>2, <1>4, <1>7, <1>9, <2>2
    <3>2. CASE i \in 1 .. m
      <4>1. r.queue[i].play \in 1 .. names /\ r.queue[i].buffer \in 1 .. names
        BY <1>9, <1>11, <3>2
      <4> QED BY <3>1, <4>1
    <3>3. ASSUME NEW k \in 1 .. NUM, i = m + k
          PROVE  r.queue[i].play <= r.queue[j].play /\ r.queue[i].buffer # r.queue[j].buffer
      <4>1. r.queue[i].play = names + 2 /\ r.queue[i].buffer = names + 1 + k
        BY <1>2, <1>4, <1>7, <1>9, <3>3
      <4>2. k < l
        BY <1>1, <1>16, <2>2, <3>3
      <4> QED BY <3>1, <4>1, <4>2
    <3> QED BY <1>10, <3>2, <3>3
  <2> QED BY <1>10, <2>1, <2>2
<1>17. Range(e.buffers) \subseteq {b.buffer : b \in Range(r.queue)}
  <2>1. Range(r.queue) = {r.queue[i] : i \in 1 .. m + NUM}
    BY <1>8 DEF Range
  <2>2. Range(e.buffers) = {NewBuffers[i] : i \in 1 .. NUM}
    BY <1>4 DEF Range
  <2>3. ASSUME NEW i \in 1 .. NUM PROVE NewBuffers[i] \in {b.buffer : b \in Range(r.queue)}
    <3>1. m + i \in 1 .. m + NUM /\ r.queue[m + i].buffer = NewBuffers[i]
      BY <1>1, <1>2, <1>3, <1>9
    <3> QED BY <2>1, <3>1
  <2> QED BY <2>2, <2>3
<1>18. InOrder(e, r.queue)
  BY <1>8, <1>15, <1>16, <1>17 DEF InOrder, SIZE
<1> QED BY <1>13, <1>18

-----------------------------------------------------------------------------
(* The steps. *)

LEMMA Typed ==
  ASSUME TypeOK
  PROVE  /\ names \in Nat /\ created \in Nat /\ left \in Nat
         /\ \A s \in DOMAIN sources : sources[s] \in SourceData /\ s \in SourceId
         /\ \A s \in DOMAIN voices : VoiceOK(voices[s])
<1>1. names \in Nat /\ created \in Nat /\ left \in Nat
  <2>1. names \in 0 .. MaxBuffers /\ created \in 0 .. MaxSources /\ left \in Nat
    BY DEF TypeOK
  <2> QED BY <2>1
<1>2. \A s \in DOMAIN sources : sources[s] \in SourceData /\ s \in SourceId
  BY DEF TypeOK
<1>3. \A s \in DOMAIN voices : VoiceOK(voices[s])
  BY DEF TypeOK, VoiceOK
<1> QED BY <1>1, <1>2, <1>3

SameStream(d, e) == e.file = d.file /\ e.buffers = d.buffers /\ e.streamCursor = d.streamCursor
SameQueue(v, w)  == w.queue = v.queue /\ w.refused = v.refused

(* Names that are generated later disturb no queue. *)
LEMMA SoundKept ==
  ASSUME NEW d, NEW e, SameStream(d, e), NEW v, NEW w, SameQueue(v, w),
         NEW n \in Nat, NEW m \in Nat, n <= m, Sound(d, v, n)
  PROVE  Sound(e, w, m)
<1> SUFFICES ASSUME ~w.refused, e.buffers # <<>>
             PROVE  InOrder(e, w.queue) /\ Named(e, w.queue, m)
  BY DEF Sound
<1>1. InOrder(d, v.queue) /\ Named(d, v.queue, n)
  BY DEF Sound, SameStream, SameQueue
<1>2. \A x : After(e, x) = After(d, x)
  BY DEF After, SameStream
<1>3. InOrder(e, w.queue)
  BY <1>1, <1>2 DEF InOrder, SameStream, SameQueue
<1>4. Named(e, w.queue, m)
  BY <1>1 DEF Named, SameStream, SameQueue
<1> QED BY <1>3, <1>4

(* A step that streams nothing: what was sound stays sound. *)
LEMMA CalmStep ==
  ASSUME Inv, TypeOK', names <= names',
         status' = "undefined" <=> status = "undefined",
         status' = "undefined" => sources' = sources,
         \A s \in DOMAIN sources' :
           \/ s \in DOMAIN sources /\ SameStream(sources[s], sources'[s])
           \/ sources'[s].buffers = <<>>,
         \A s \in DOMAIN voices' :
           \/ /\ s \in DOMAIN voices /\ SameQueue(voices[s], voices'[s])
              /\ SameStream(sources[s], sources'[s])
           \/ voices'[s].queue = <<>> /\ sources'[s].buffers = <<>>
  PROVE  Fitting' /\ ReadsInRange' /\ Sounding'
<1>1. ReadsInRange'
  BY DEF Inv, ReadsInRange
<1>2. \A s \in DOMAIN sources' : Fits(sources[s])' 
  BY DEF Inv, Fitting, Fits, SameStream
<1>3. \A s \in DOMAIN voices' : voices'[s].queue # <<>> => sources'[s].buffers # <<>>
  BY DEF Inv, Fitting, SameStream, SameQueue
<1>4. ASSUME status' # "undefined", NEW s \in DOMAIN voices'
      PROVE  Sound(sources'[s], voices'[s], names')
  <2>1. names \in Nat /\ names' \in Nat
    <3>1. names' \in 0 .. MaxBuffers
      BY DEF TypeOK
    <3> QED BY <3>1, Typed DEF Inv
  <2>2. CASE /\ s \in DOMAIN voices /\ SameQueue(voices[s], voices'[s])
             /\ SameStream(sources[s], sources'[s])
    <3>1. Sound(sources[s], voices[s], names)
      BY <1>4, <2>2 DEF Inv, Sounding
    <3> QED BY <2>1, <2>2, <3>1, SoundKept
  <2>3. CASE sources'[s].buffers = <<>>
    BY <2>3 DEF Sound
  <2> QED BY <2>2, <2>3
<1> QED BY <1>1, <1>2, <1>3, <1>4 DEF Fitting, Sounding

LEMMA InitInv == Init => Inv
<1> SUFFICES ASSUME Init PROVE Inv
  OBVIOUS
<1>1. DOMAIN sources = {} /\ DOMAIN voices = {}
  BY DEF Init
<1>2. TypeOK
  BY <1>1, Constants DEF Init, TypeOK, SourceId
<1> QED BY <1>1, <1>2 DEF Init, Inv, Attached, Claimed, Fitting, ReadsInRange, Sounding

(* The calls that touch neither a source nor a voice. *)
LEMMA AsideInv ==
  ASSUME Inv,
         \/ Initialise \/ InitialiseFails \/ Terminated \/ UNCHANGED vars
         \/ \E file \in AudioFiles : CreateAudio(file)
         \/ \E audio \in audios : DestroyAudio(audio)
         \/ \E s \in SourceId : PlayUnknown(s)
         \/ \E s \in SourceId, file \in AudioFiles : SourcePlayRejected(s, file)
  PROVE  Inv'
<1>1. UNCHANGED <<sources, voices, todo, current, left, created>>
  BY DEF Initialise, InitialiseFails, Terminated, CreateAudio, DestroyAudio, PlayUnknown,
         SourcePlayRejected, vars, loop
<1>2. /\ names \in Nat /\ names' \in 0 .. MaxBuffers /\ names <= names'
      /\ audios' \in SUBSET (0 .. names')
      /\ status' \in {"down", "up", "no_context"} \cup Ended
      /\ status' = "undefined" <=> status = "undefined"
  <2>1. /\ names \in 0 .. MaxBuffers /\ audios \in SUBSET (0 .. names)
        /\ status \in {"down", "up", "no_context"} \cup Ended
    BY DEF Inv, TypeOK
  <2>2. /\ names \in Nat /\ names <= MaxBuffers
        /\ NUM \in Nat /\ NUM <= MaxBuffers /\ MaxBuffers \in Nat
    BY <2>1, Constants
  <2>3. ASSUME NEW n \in 0 .. MaxBuffers, names <= n PROVE 0 .. names \subseteq 0 .. n
    BY <2>2, <2>3
  <2>4. ASSUME Initialise \/ InitialiseFails
        PROVE  /\ names' \in 0 .. MaxBuffers /\ names <= names' /\ audios' \subseteq 0 .. names'
               /\ status' \in {"up", "no_context"} /\ status = "down"
    <3>1. /\ names = 0 /\ audios' = audios /\ names' \in {0, NUM}
          /\ status' \in {"up", "no_context"} /\ status = "down"
      BY <2>4 DEF Initialise, InitialiseFails, NUM, Inv, Attached
    <3>2. names' \in 0 .. MaxBuffers /\ names <= names'
      BY <2>2, <3>1
    <3>3. audios' \subseteq 0 .. names'
      BY <2>1, <2>3, <3>1, <3>2
    <3> QED BY <3>1, <3>2, <3>3 DEF Ended
  <2>5. ASSUME Terminated \/ UNCHANGED vars PROVE UNCHANGED <<names, audios, status>>
    BY <2>5 DEF Terminated, vars
  <2>6. ASSUME NEW file \in AudioFiles, CreateAudio(file)
        PROVE  /\ names' \in 0 .. MaxBuffers /\ names <= names' /\ status' = status
               /\ audios' \in SUBSET (0 .. names')
    <3>1. /\ names < MaxBuffers /\ status' = status
          /\ names' = (IF status = "up" THEN names + 1 ELSE names)
          /\ audios' \subseteq audios \cup Range(Generated(1))
      BY <2>6 DEF CreateAudio, GenBuffers
    <3>2. names' \in 0 .. MaxBuffers /\ names <= names'
      BY <2>2, <3>1
    <3>3. Range(Generated(1)) \subseteq 0 .. names'
      <4>1. Range(Generated(1)) = {IF status = "up" THEN names + i ELSE 0 : i \in 1 .. 1}
        BY DEF Range, Generated
      <4>2. \A i \in 1 .. 1 : (IF status = "up" THEN names + i ELSE 0) \in 0 .. names'
        BY <2>2, <3>1
      <4> QED BY <4>1, <4>2
    <3> QED BY <2>1, <2>3, <3>1, <3>2, <3>3
  <2>7. ASSUME NEW audio \in audios, DestroyAudio(audio)
        PROVE  names' = names /\ status' = status /\ audios' \subseteq audios
    BY <2>7 DEF DestroyAudio
  <2>8. ASSUME NEW s \in SourceId, PlayUnknown(s)
        PROVE  /\ names' = names /\ audios' = audios
               /\ status' = "out_of_range" /\ status # "undefined"
    BY <2>8 DEF PlayUnknown, Idle, Up
  <2>9. ASSUME NEW s \in SourceId, NEW file \in AudioFiles, SourcePlayRejected(s, file)
        PROVE  /\ names' \in 0 .. MaxBuffers /\ names <= names' /\ status' = status
               /\ audios' = audios
    <3>1. /\ names < MaxBuffers /\ status' = status /\ audios' = audios
          /\ names' = (IF status = "up" THEN names + 1 ELSE names)
      BY <2>9 DEF SourcePlayRejected, GenBuffers
    <3> QED BY <2>2, <3>1
  <2>10. /\ names' \in 0 .. MaxBuffers /\ names <= names'
         /\ \/ audios' \in SUBSET (0 .. names')
            \/ audios' \subseteq audios
    BY <2>1, <2>2, <2>4, <2>5, <2>6, <2>7, <2>8, <2>9
  <2>11. status' \in {"down", "up", "no_context"} \cup Ended
    BY <2>1, <2>4, <2>5, <2>6, <2>7, <2>8, <2>9 DEF Ended
  <2>12. status' = "undefined" <=> status = "undefined"
    BY <2>4, <2>5, <2>6, <2>7, <2>8, <2>9
  <2> QED BY <2>1, <2>2, <2>3, <2>10, <2>11, <2>12
<1>3. TypeOK'
  BY <1>1, <1>2 DEF Inv, TypeOK
<1>4. Attached'
  <2>1. CASE DOMAIN voices = {}
    <3>1. status' = "down" => names' = 0
      BY DEF Initialise, InitialiseFails, Terminated, CreateAudio, DestroyAudio, PlayUnknown,
             SourcePlayRejected, vars, Idle, Up, Inv, Attached
    <3> QED BY <1>1, <2>1, <3>1 DEF Attached, Inv
  <2>2. CASE DOMAIN voices # {}
    <3>1. status' \notin {"down", "no_context"}
      BY <2>2 DEF Initialise, InitialiseFails, Terminated, CreateAudio, DestroyAudio, PlayUnknown,
             SourcePlayRejected, vars, Idle, Up, Inv, Attached
    <3> QED BY <1>1, <3>1 DEF Attached, Inv
  <2> QED BY <2>1, <2>2
<1>5. Fitting' /\ ReadsInRange' /\ Sounding'
  <2>1. \A s \in DOMAIN sources' : s \in DOMAIN sources /\ SameStream(sources[s], sources'[s])
    BY <1>1 DEF SameStream
  <2>2. \A s \in DOMAIN voices' : /\ s \in DOMAIN voices /\ SameQueue(voices[s], voices'[s])
                                  /\ SameStream(sources[s], sources'[s])
    BY <1>1 DEF SameStream, SameQueue
  <2> QED BY <1>1, <1>2, <1>3, <2>1, <2>2, CalmStep
<1>6. Claimed'
  BY <1>1 DEF Inv, Claimed
<1> QED BY <1>3, <1>4, <1>5, <1>6 DEF Inv

(* shutdown() drops every source. *)
LEMMA ShutdownInv ==
  ASSUME Inv, Shutdown
  PROVE  Inv'
<1>1. /\ status' = "off" /\ sources' = <<>> /\ voices' = <<>> /\ audios' = {}
      /\ todo = {} /\ left = 0 /\ UNCHANGED <<created, names, todo, current, left>>
  BY DEF Shutdown, Idle, loop
<1>2. DOMAIN sources' = {} /\ DOMAIN voices' = {}
  BY <1>1
<1>3. TypeOK'
  BY <1>1, <1>2 DEF Inv, TypeOK, Ended
<1> QED BY <1>1, <1>2, <1>3
        DEF Inv, Attached, Claimed, Fitting, ReadsInRange, Sounding

(* A new source has no buffers; a destroyed one takes its voice with it.     *)
LEMMA CreateSourceInv ==
  ASSUME Inv, CreateSource
  PROVE  Inv'
<1>1. /\ status \in {"up", "no_context"} /\ todo = {} /\ left = 0 /\ created < MaxSources
      /\ UNCHANGED <<status, names, audios, todo, current, left>>
  BY DEF CreateSource, Idle, Up, loop
<1>2. /\ DOMAIN sources' = DOMAIN sources \cup {created'} /\ sources'[created'] = NewSource
      /\ \A s \in DOMAIN sources : s # created' => sources'[s] = sources[s]
  BY DEF CreateSource
<1>3. /\ created' \in {created, created + 1} /\ created' \in SourceId /\ created \in Nat
      /\ created' \in 0 .. MaxSources
  <2>1. created \in 0 .. MaxSources /\ MaxSources \in Nat
    BY Constants DEF Inv, TypeOK
  <2>2. created' \in {created, created + 1}
    BY DEF CreateSource
  <2> QED BY <1>1, <2>1, <2>2 DEF SourceId
<1>4. CASE status = "up"
  <2>1. /\ created' = created + 1 /\ DOMAIN voices' = DOMAIN voices \cup {created'}
        /\ voices'[created'] = NewVoice
        /\ \A s \in DOMAIN voices : s # created' => voices'[s] = voices[s]
    BY <1>4 DEF CreateSource
  <2>2. NewSource \in SourceData /\ NewVoice \in Voice /\ Len(NewVoice.queue) = 0
        /\ NewVoice.queue = <<>> /\ NewSource.buffers = <<>> /\ NewVoice.played = 0
    BY EmptySeq DEF NewSource, SourceData, NewVoice, Voice
  <2>3. DOMAIN voices' \subseteq 1 .. created'
    <3>1. DOMAIN voices \subseteq 1 .. created
      BY DEF Inv, TypeOK
    <3>2. 1 .. created \subseteq 1 .. created + 1 /\ created + 1 \in 1 .. created + 1
      BY <1>3
    <3> QED BY <2>1, <3>1, <3>2
  <2>4. TypeOK'
    <3>1. \A s \in DOMAIN sources' : sources'[s] \in SourceData
      BY <1>2, <2>2 DEF Inv, TypeOK
    <3>2. \A s \in DOMAIN voices' : /\ voices'[s] \in Voice
                                    /\ voices'[s].played \in 0 .. Len(voices'[s].queue)
      BY <2>1, <2>2 DEF Inv, TypeOK
    <3> QED BY <1>1, <1>2, <1>3, <2>3, <3>1, <3>2 DEF Inv, TypeOK
  <2>5. \A s \in DOMAIN sources' : \/ s \in DOMAIN sources /\ SameStream(sources[s], sources'[s])
                                   \/ sources'[s].buffers = <<>>
    BY <1>2, <2>2 DEF SameStream
  <2>6. \A s \in DOMAIN voices' :
          \/ /\ s \in DOMAIN voices /\ SameQueue(voices[s], voices'[s])
             /\ SameStream(sources[s], sources'[s])
          \/ voices'[s].queue = <<>> /\ sources'[s].buffers = <<>>
    BY <1>2, <2>1, <2>2 DEF SameStream, SameQueue, Inv, Attached
  <2>7. Fitting' /\ ReadsInRange' /\ Sounding'
    <3>1. names \in Nat
      BY Typed DEF Inv
    <3> QED BY <1>1, <2>4, <2>5, <2>6, <3>1, CalmStep
  <2>8. Attached' /\ Claimed'
    BY <1>1, <1>2, <1>4, <2>1 DEF Inv, Attached, Claimed
  <2> QED BY <2>4, <2>7, <2>8 DEF Inv
<1>5. CASE status = "no_context"
  <2>1. UNCHANGED <<created, voices>> /\ DOMAIN voices = {}
    BY <1>5 DEF CreateSource, Inv, Attached
  <2>2. NewSource \in SourceData /\ NewSource.buffers = <<>>
    BY EmptySeq DEF NewSource, SourceData
  <2>3. TypeOK'
    <3>1. \A s \in DOMAIN sources' : sources'[s] \in SourceData
      BY <1>2, <2>2 DEF Inv, TypeOK
    <3> QED BY <1>1, <1>2, <1>3, <2>1, <3>1 DEF Inv, TypeOK
  <2>4. \A s \in DOMAIN sources' : \/ s \in DOMAIN sources /\ SameStream(sources[s], sources'[s])
                                   \/ sources'[s].buffers = <<>>
    BY <1>2, <2>2 DEF SameStream
  <2>5. Fitting' /\ ReadsInRange' /\ Sounding'
    <3>1. names \in Nat /\ DOMAIN voices' = {}
      BY <2>1, Typed DEF Inv
    <3> QED BY <1>1, <2>3, <2>4, <3>1, CalmStep
  <2>6. Attached' /\ Claimed'
    BY <1>1, <1>5, <2>1 DEF Inv, Attached, Claimed
  <2> QED BY <2>3, <2>5, <2>6 DEF Inv
<1> QED BY <1>1, <1>4, <1>5

LEMMA DestroySourceInv ==
  ASSUME Inv, NEW z \in SourceId, DestroySource(z)
  PROVE  Inv'
<1>1. /\ status \in {"up", "no_context"} /\ todo = {} /\ left = 0
      /\ UNCHANGED <<status, created, names, audios, todo, current, left>>
  BY DEF DestroySource, Idle, Up, loop
<1>2. /\ DOMAIN sources' = DOMAIN sources \ {z}
      /\ \A s \in DOMAIN sources' : sources'[s] = sources[s]
      /\ DOMAIN voices' = DOMAIN voices \ {z}
      /\ \A s \in DOMAIN voices' : voices'[s] = voices[s]
  BY DEF DestroySource
<1>3. TypeOK'
  <2>1. \A s \in DOMAIN sources' : sources'[s] \in SourceData
    BY <1>2 DEF Inv, TypeOK
  <2>2. \A s \in DOMAIN voices' : /\ voices'[s] \in Voice
                                  /\ voices'[s].played \in 0 .. Len(voices'[s].queue)
    BY <1>2 DEF Inv, TypeOK
  <2> QED BY <1>1, <1>2, <2>1, <2>2 DEF Inv, TypeOK
<1>4. \A s \in DOMAIN sources' : s \in DOMAIN sources /\ SameStream(sources[s], sources'[s])
  BY <1>2 DEF SameStream
<1>5. \A s \in DOMAIN voices' : /\ s \in DOMAIN voices /\ SameQueue(voices[s], voices'[s])
                                /\ SameStream(sources[s], sources'[s])
  BY <1>2 DEF SameStream, SameQueue, Inv, Attached
<1>6. Fitting' /\ ReadsInRange' /\ Sounding'
  <2>1. names \in Nat
    BY Typed DEF Inv
  <2> QED BY <1>1, <1>3, <1>4, <1>5, <2>1, CalmStep
<1>7. Attached' /\ Claimed'
  BY <1>1, <1>2 DEF Inv, Attached, Claimed
<1> QED BY <1>3, <1>6, <1>7 DEF Inv

(* A voice is played, paused, made to loop or plays on by itself: its queue  *)
(* stays, and the buffers update() has counted stay played.                  *)
LEMMA VoiceStep ==
  ASSUME Inv,
         UNCHANGED <<status, created, names, audios, todo, current, left>>,
         DOMAIN sources' = DOMAIN sources, DOMAIN voices' = DOMAIN voices,
         \A s \in DOMAIN sources :
           sources'[s] \in SourceData /\ SameStream(sources[s], sources'[s]),
         \A s \in DOMAIN voices :
           VoiceOK(voices'[s]) /\ SameQueue(voices[s], voices'[s]),
         status = "undefined" => sources' = sources,
         left > 0 => /\ ~voices'[current].looping
                     /\ voices'[current].played >= voices[current].played
  PROVE  Inv'
<1>1. TypeOK'
  <2>1. \A s \in DOMAIN voices' : /\ voices'[s] \in Voice
                                  /\ voices'[s].played \in 0 .. Len(voices'[s].queue)
    BY DEF VoiceOK
  <2> QED BY <2>1 DEF Inv, TypeOK
<1>2. \A s \in DOMAIN voices' : /\ s \in DOMAIN voices /\ SameQueue(voices[s], voices'[s])
                                /\ SameStream(sources[s], sources'[s])
  BY DEF Inv, Attached
<1>3. Fitting' /\ ReadsInRange' /\ Sounding'
  <2>1. names \in Nat
    BY Typed DEF Inv
  <2> QED BY <1>1, <1>2, <2>1, CalmStep
<1>4. Attached'
  BY DEF Inv, Attached
<1>5. Claimed'
  <2> SUFFICES ASSUME left > 0 PROVE left <= voices'[current].played
    BY DEF Inv, Claimed
  <2>1. current \in DOMAIN voices /\ left <= voices[current].played
    BY DEF Inv, Claimed
  <2>2. voices[current].played \in Nat /\ voices'[current].played \in Nat /\ left \in Nat
    BY <2>1, Typed, VoiceTyped DEF Inv
  <2> QED BY <2>1, <2>2
<1> QED BY <1>1, <1>3, <1>4, <1>5 DEF Inv

LEMMA VoiceInv ==
  ASSUME Inv, NEW z \in SourceId,
         \/ \E looping \in BOOLEAN : SetSourceLoop(z, looping)
         \/ SourcePlay(z) \/ SourcePause(z)
  PROVE  Inv'
<1>1. /\ status # "undefined" /\ left = 0
      /\ UNCHANGED <<status, created, names, audios, todo, current, left>>
  BY DEF SetSourceLoop, SourcePlay, SourcePause, Idle, Up, loop
<1>2. \A s \in DOMAIN sources : sources[s] \in SourceData
  BY Typed DEF Inv
<1>3. \A s \in DOMAIN voices : VoiceOK(voices[s])
  BY Typed DEF Inv
<1>4. ASSUME NEW looping \in BOOLEAN, SetSourceLoop(z, looping) PROVE Inv'
  <2>1. /\ UNCHANGED sources /\ DOMAIN voices' = DOMAIN voices
        /\ \A s \in DOMAIN voices :
             voices'[s] = IF s = z THEN [voices[s] EXCEPT !.looping = looping] ELSE voices[s]
    BY <1>4 DEF SetSourceLoop
  <2>2. ASSUME NEW s \in DOMAIN voices
        PROVE  VoiceOK(voices'[s]) /\ SameQueue(voices[s], voices'[s])
    <3>1. voices[s] \in Voice /\ VoiceOK(voices[s])
      BY <1>3 DEF VoiceOK
    <3>2. LET w == [voices[s] EXCEPT !.looping = looping]
          IN  /\ w \in Voice /\ w.queue = voices[s].queue /\ w.refused = voices[s].refused
              /\ w.played = voices[s].played
      BY <3>1 DEF Voice
    <3>3. VoiceOK([voices[s] EXCEPT !.looping = looping])
      BY <3>1, <3>2 DEF VoiceOK
    <3> QED BY <2>1, <3>1, <3>2, <3>3 DEF SameQueue
  <2> QED BY <1>1, <1>2, <2>1, <2>2, VoiceStep DEF SameStream
<1>5. CASE SourcePlay(z)
  <2>1. /\ DOMAIN sources' = DOMAIN sources /\ DOMAIN voices' = DOMAIN voices
        /\ \A s \in DOMAIN voices : voices'[s] = IF s = z THEN Play(voices[s]) ELSE voices[s]
        /\ \A s \in DOMAIN sources :
             sources'[s] = IF s = z THEN [sources[s] EXCEPT !.isPlaying = TRUE] ELSE sources[s]
    BY <1>5 DEF SourcePlay
  <2>2. \A s \in DOMAIN voices : VoiceOK(voices'[s]) /\ SameQueue(voices[s], voices'[s])
    BY <1>3, <2>1, PlayKeeps DEF SameQueue
  <2>3. \A s \in DOMAIN sources :
          sources'[s] \in SourceData /\ SameStream(sources[s], sources'[s])
    BY <1>2, <2>1 DEF SameStream, SourceData
  <2> QED BY <1>1, <2>1, <2>2, <2>3, VoiceStep
<1>6. CASE SourcePause(z)
  <2>1. /\ UNCHANGED sources /\ DOMAIN voices' = DOMAIN voices
        /\ \A s \in DOMAIN voices :
             voices'[s] = IF s = z THEN [voices[s] EXCEPT !.state = "AL_PAUSED"] ELSE voices[s]
    BY <1>6 DEF SourcePause
  <2>2. ASSUME NEW s \in DOMAIN voices
        PROVE  VoiceOK(voices'[s]) /\ SameQueue(voices[s], voices'[s])
    <3>1. voices[s] \in Voice /\ VoiceOK(voices[s])
      BY <1>3 DEF VoiceOK
    <3>2. LET w == [voices[s] EXCEPT !.state = "AL_PAUSED"]
          IN  /\ w \in Voice /\ w.queue = voices[s].queue /\ w.refused = voices[s].refused
              /\ w.played = voices[s].played
      BY <3>1 DEF Voice
    <3>3. VoiceOK([voices[s] EXCEPT !.state = "AL_PAUSED"])
      BY <3>1, <3>2 DEF VoiceOK
    <3> QED BY <2>1, <3>1, <3>2, <3>3 DEF SameQueue
  <2> QED BY <1>1, <1>2, <2>1, <2>2, VoiceStep DEF SameStream
<1> QED BY <1>4, <1>5, <1>6

LEMMA PlayedSet ==
  ASSUME NEW v \in Voice, NEW p \in Nat
  PROVE  /\ [v EXCEPT !.played = p] \in Voice /\ [v EXCEPT !.played = p].played = p
         /\ [v EXCEPT !.played = p].looping = v.looping /\ SameQueue(v, [v EXCEPT !.played = p])
BY DEF Voice, SameQueue

(* OpenAL's own step, also in the middle of update(). *)
LEMMA PlaysInv ==
  ASSUME Inv, NEW z \in SourceId, Plays(z)
  PROVE  Inv'
<1> DEFINE v == voices[z]
           a == [v EXCEPT !.played = v.played + 1]
           b == [v EXCEPT !.played = 0]
           c == [v EXCEPT !.played = Len(v.queue), !.state = "AL_STOPPED"]
           w == IF v.played + 1 < Len(v.queue) THEN a ELSE IF v.looping THEN b ELSE c
<1>1. /\ z \in DOMAIN voices /\ voices' = [voices EXCEPT ![z] = w]
      /\ UNCHANGED <<status, created, names, audios, sources, todo, current, left>>
  BY DEF Plays, Advance, loop
<1>2. /\ v \in Voice /\ Len(v.queue) \in Nat /\ v.played \in Nat /\ v.played <= Len(v.queue)
      /\ v.looping \in BOOLEAN
  BY <1>1, Typed, VoiceTyped DEF Inv, VoiceOK
<1> HIDE DEF v
<1>3. v.played + 1 \in Nat
  BY <1>2
<1>4. /\ a \in Voice /\ b \in Voice /\ c \in Voice
      /\ a.played = v.played + 1 /\ b.played = 0 /\ c.played = Len(v.queue)
      /\ SameQueue(v, a) /\ SameQueue(v, b) /\ SameQueue(v, c)
      /\ a.looping = v.looping /\ b.looping = v.looping /\ c.looping = v.looping
  <2>1. a \in Voice /\ a.played = v.played + 1 /\ SameQueue(v, a) /\ a.looping = v.looping
    BY <1>2, <1>3, PlayedSet
  <2>2. b \in Voice /\ b.played = 0 /\ SameQueue(v, b) /\ b.looping = v.looping
    BY <1>2 DEF Voice, SameQueue
  <2>3. c \in Voice /\ c.played = Len(v.queue) /\ SameQueue(v, c) /\ c.looping = v.looping
    BY <1>2 DEF Voice, SameQueue
  <2> QED BY <2>1, <2>2, <2>3
<1> HIDE DEF a, b, c
<1>5. /\ VoiceOK(w) /\ SameQueue(v, w) /\ w.looping = v.looping
      /\ ~v.looping => w.played >= v.played
  <2>1. CASE v.played + 1 < Len(v.queue)
    <3>1. w = a
      BY <2>1
    <3>2. Len(a.queue) = Len(v.queue)
      BY <1>4 DEF SameQueue
    <3>3. a.played \in 0 .. Len(a.queue) /\ a.played >= v.played
      BY <1>2, <1>4, <2>1, <3>2
    <3> QED BY <1>4, <3>1, <3>3 DEF VoiceOK
  <2>2. CASE ~(v.played + 1 < Len(v.queue)) /\ v.looping
    <3>1. w = b
      BY <2>2
    <3>2. VoiceOK(b)
      BY <1>2, <1>4 DEF VoiceOK, SameQueue
    <3> QED BY <1>4, <2>2, <3>1, <3>2
  <2>3. CASE ~(v.played + 1 < Len(v.queue)) /\ ~v.looping
    <3>1. w = c
      BY <2>3
    <3>2. VoiceOK(c) /\ c.played >= v.played
      BY <1>2, <1>4 DEF VoiceOK, SameQueue
    <3> QED BY <1>4, <3>1, <3>2
  <2> QED BY <2>1, <2>2, <2>3
<1> HIDE DEF w
<1>6. DOMAIN voices' = DOMAIN voices
      /\ \A s \in DOMAIN voices : voices'[s] = IF s = z THEN w ELSE voices[s]
  BY <1>1
<1>7. \A s \in DOMAIN voices : VoiceOK(voices'[s]) /\ SameQueue(voices[s], voices'[s])
  BY <1>5, <1>6, Typed DEF Inv, v, SameQueue
<1>8. left > 0 => ~voices'[current].looping /\ voices'[current].played >= voices[current].played
  <2> SUFFICES ASSUME left > 0
               PROVE ~voices'[current].looping /\ voices'[current].played >= voices[current].played
    OBVIOUS
  <2>1. current \in DOMAIN voices /\ ~voices[current].looping
    BY DEF Inv, Claimed
  <2>2. voices[current].played \in Nat
    BY <2>1, Typed, VoiceTyped DEF Inv
  <2>3. CASE current = z
    BY <1>5, <1>6, <2>1, <2>3 DEF v
  <2>4. CASE current # z
    BY <1>6, <2>1, <2>2, <2>4
  <2> QED BY <2>3, <2>4
<1>9. \A s \in DOMAIN sources : sources[s] \in SourceData
  BY Typed DEF Inv
<1> QED BY <1>1, <1>6, <1>7, <1>8, <1>9, VoiceStep DEF SameStream

(* source_play with a file: either it is too short for the first buffers,    *)
(* which are read past its end, or the queue goes on with it.                *)
LEMMA SourcePlayFileInv ==
  ASSUME Inv, NEW z \in SourceId, NEW file \in AudioFiles, SourcePlayFile(z, file)
  PROVE  Inv'
<1> DEFINE e == [sources[z] EXCEPT !.file = file, !.buffers = NewBuffers,
                                   !.streamCursor = StreamStart, !.isPlaying = TRUE]
           r(v) == Play(Queue(v, FirstData(file)))
<1>1. /\ status \in {"up", "no_context"} /\ todo = {} /\ left = 0 /\ z \in DOMAIN sources
      /\ file.format \in Formats /\ names + NUM + 1 <= MaxBuffers
      /\ names' = (IF status = "up" THEN names + (NUM + 1) ELSE names)
      /\ status' = (IF file.length < StreamStart THEN "undefined" ELSE status)
      /\ UNCHANGED <<created, audios, todo, current, left>>
  BY DEF SourcePlayFile, Idle, Up, loop, NUM, GenBuffers
<1>2. /\ DOMAIN sources' = DOMAIN sources
      /\ sources'[z] = e /\ \A s \in DOMAIN sources : s # z => sources'[s] = sources[s]
  <2>1. sources' = Filled(z, file)
    BY DEF SourcePlayFile
  <2> QED BY <1>1, <2>1 DEF Filled
<1>3. /\ DOMAIN voices' = DOMAIN voices
      /\ \A s \in DOMAIN voices : voices'[s] = IF s = z THEN r(voices[s]) ELSE voices[s]
  BY DEF SourcePlayFile
<1>4. /\ names \in Nat /\ names \in 0 .. MaxBuffers /\ names' \in 0 .. MaxBuffers
      /\ names <= names' /\ 0 .. names \subseteq 0 .. names'
  <2>1. names \in 0 .. MaxBuffers
    BY DEF Inv, TypeOK
  <2> QED BY <1>1, <2>1, Constants
<1>5. /\ \A s \in DOMAIN sources : sources[s] \in SourceData
      /\ \A s \in DOMAIN voices : VoiceOK(voices[s])
  BY Typed DEF Inv
<1>6. /\ e \in SourceData /\ e.file = file /\ e.buffers = NewBuffers
      /\ e.streamCursor = StreamStart /\ e.buffers # <<>>
  <2>1. NewBuffers \in Seq(Nat) /\ NewBuffers # <<>>
    BY <1>4, NewBuffersAre
  <2>2. StreamStart \in Nat
    <3>1. 1 \in 1 .. NUM
      BY Constants
    <3> QED BY <3>1, BufferBounds DEF StreamStart, NUM, SIZE
  <2>3. sources[z] \in SourceData
    BY <1>1, <1>5
  <2> QED BY <2>1, <2>2, <2>3 DEF SourceData
<1>7. ASSUME NEW v, VoiceOK(v)
      PROVE  /\ VoiceOK(r(v))
             /\ ~r(v).refused => ~v.refused /\ r(v).queue = v.queue \o FirstData(file)
  <2>1. FirstData(file) \in Seq(Queued)
    BY <1>1, <1>4, FirstDataIs
  <2>2. VoiceOK(Queue(v, FirstData(file)))
    BY <1>7, <2>1, QueueKeeps
  <2> QED BY <1>7, <2>1, <2>2, QueueKeeps, PlayKeeps
<1> HIDE DEF e, r
<1>8. file.length \in Nat /\ StreamStart \in Nat
  BY <1>6, SourceTyped
<1>9. TypeOK'
  <2>1. \A s \in DOMAIN sources' : sources'[s] \in SourceData
    BY <1>2, <1>5, <1>6
  <2>2. \A s \in DOMAIN voices' : VoiceOK(voices'[s])
    BY <1>3, <1>5, <1>7
  <2>3. \A s \in DOMAIN voices' : /\ voices'[s] \in Voice
                                  /\ voices'[s].played \in 0 .. Len(voices'[s].queue)
    BY <2>2 DEF VoiceOK
  <2>4. status' \in {"down", "up", "no_context"} \cup Ended
    BY <1>1 DEF Ended
  <2>5. audios' \subseteq 0 .. names'
    BY <1>1, <1>4 DEF Inv, TypeOK
  <2>6. /\ created' \in 0 .. MaxSources
        /\ DOMAIN sources' \in SUBSET SourceId /\ DOMAIN voices' \subseteq 1 .. created'
        /\ todo' \subseteq DOMAIN sources' /\ current' \in SourceId /\ left' \in Nat
    BY <1>1, <1>2, <1>3 DEF Inv, TypeOK
  <2> QED BY <1>4, <2>1, <2>3, <2>4, <2>5, <2>6 DEF TypeOK
<1>10. Attached' /\ Claimed'
  BY <1>1, <1>2, <1>3 DEF Inv, Attached, Claimed
<1>11. CASE file.length < StreamStart
  <2>1. status' = "undefined" /\ status # "undefined"
    BY <1>1, <1>11
  <2>2. ReadsInRange'
    BY <1>1, <1>2, <1>6, <1>11 DEF ReadsInRange
  <2>3. Fitting'
    <3>1. \A s \in DOMAIN sources' : Fits(sources[s])'
      BY <1>1, <1>2, <1>6, <2>1 DEF Inv, Fitting, Fits
    <3>2. \A s \in DOMAIN voices' : voices'[s].queue # <<>> => sources'[s].buffers # <<>>
      BY <1>2, <1>3, <1>6 DEF Inv, Fitting, Attached
    <3> QED BY <3>1, <3>2 DEF Fitting
  <2> QED BY <1>9, <1>10, <2>1, <2>2, <2>3 DEF Inv, Sounding
<1>12. CASE StreamStart <= file.length
  <2>1. status' = status /\ status # "undefined"
    BY <1>1, <1>8, <1>12
  <2>2. Fitting' /\ ReadsInRange'
    <3>1. \A s \in DOMAIN sources' : Fits(sources[s])'
      BY <1>1, <1>2, <1>6, <1>8, <1>12, <2>1 DEF Inv, Fitting, Fits
    <3>2. \A s \in DOMAIN voices' : voices'[s].queue # <<>> => sources'[s].buffers # <<>>
      BY <1>2, <1>3, <1>6 DEF Inv, Fitting, Attached
    <3> QED BY <2>1, <3>1, <3>2 DEF Fitting, ReadsInRange
  <2>3. ASSUME NEW s \in DOMAIN voices' PROVE Sound(sources'[s], voices'[s], names')
    <3>1. s \in DOMAIN voices /\ s \in DOMAIN sources
      BY <1>3 DEF Inv, Attached
    <3>2. Sound(sources[s], voices[s], names)
      BY <2>1, <3>1 DEF Inv, Sounding
    <3>3. CASE s = z
      <4>1. status = "up"
        BY <1>1, <3>1 DEF Inv, Attached
      <4>2. names' = names + NUM + 1
        BY <1>1, <1>4, <4>1, Constants
      <4>3. sources'[s] = e /\ voices'[s] = r(voices[s])
        BY <1>2, <1>3, <3>1, <3>3
      <4>4. VoiceOK(voices[s]) /\ sources[s] \in SourceData
        BY <1>5, <3>1
      <4>5. voices[s].queue # <<>> => sources[s].buffers # <<>>
        BY <3>1 DEF Inv, Fitting
      <4>6. /\ VoiceOK(r(voices[s]))
            /\ ~r(voices[s]).refused =>
                 ~voices[s].refused /\ r(voices[s]).queue = voices[s].queue \o FirstData(file)
        BY <1>7, <4>4
      <4>7. Sound(e, r(voices[s]), names + NUM + 1)
        BY <1>1, <1>4, <1>6, <1>12, <3>2, <4>1, <4>4, <4>5, <4>6, FillKeeps
      <4> QED BY <4>2, <4>3, <4>7
    <3>4. CASE s # z
      <4>1. SameStream(sources[s], sources'[s]) /\ SameQueue(voices[s], voices'[s])
        BY <1>2, <1>3, <3>1, <3>4 DEF SameStream, SameQueue
      <4>2. names' \in Nat
        BY <1>4
      <4> QED BY <1>4, <3>2, <4>1, <4>2, SoundKept
    <3> QED BY <3>3, <3>4
  <2> QED BY <1>9, <1>10, <2>2, <2>3 DEF Inv, Sounding
<1> QED BY <1>8, <1>11, <1>12

(* update() counts the played buffers of a source when it comes to it. *)
LEMMA VisitInv ==
  ASSUME Inv, BeginUpdate \/ \E s \in SourceId : VisitSource(s)
  PROVE  Inv'
<1>1. /\ UNCHANGED <<status, created, names, audios, sources, voices>>
      /\ todo' \subseteq DOMAIN sources
  BY DEF BeginUpdate, VisitSource, Inv, TypeOK
<1>2. current' \in SourceId /\ left' \in Nat /\ Claimed'
  <2>1. CASE BeginUpdate
    BY <2>1 DEF BeginUpdate, Inv, TypeOK, Claimed
  <2>2. ASSUME NEW s \in SourceId, VisitSource(s)
        PROVE  current' \in SourceId /\ left' \in Nat /\ Claimed'
    <3>1. /\ current' = s /\ UNCHANGED voices
          /\ left' = 0 \/ (left' = voices[s].played /\ s \in DOMAIN voices /\ ~voices[s].looping)
      BY <2>2 DEF VisitSource, BuffersProcessed
    <3>2. s \in DOMAIN voices => voices[s].played \in Nat
      BY Typed, VoiceTyped DEF Inv
    <3>3. left' \in Nat
      BY <3>1, <3>2
    <3>4. left' > 0 => left' = voices[s].played /\ s \in DOMAIN voices /\ ~voices[s].looping
      BY <3>1
    <3> QED BY <3>1, <3>2, <3>3, <3>4 DEF Claimed
  <2> QED BY <2>1, <2>2
<1>3. TypeOK'
  BY <1>1, <1>2 DEF Inv, TypeOK
<1> QED BY <1>1, <1>2, <1>3 DEF Inv, Attached, Fitting, Fits, ReadsInRange, Sounding

(* A refill: the cursor is inside the file, and the buffer it takes off the  *)
(* queue has been played, though OpenAL played on since they were counted.   *)
LEMMA RefillInv ==
  ASSUME Inv, Refill
  PROVE  Inv'
<1> DEFINE z == current
           d == sources[z]
           v == voices[z]
           e == [d EXCEPT !.streamCursor = NextCursor(d)]
<1>1. /\ status \in {"up", "no_context"} /\ left > 0 /\ left' = left - 1
      /\ UNCHANGED <<created, names, audios, todo, current>>
  BY DEF Refill, Up
<1>2. /\ z \in DOMAIN voices /\ z \in DOMAIN sources /\ ~v.looping /\ left <= v.played
      /\ d \in SourceData /\ VoiceOK(v) /\ left \in Nat /\ names \in Nat
  <2>1. z \in DOMAIN voices /\ z \in DOMAIN sources /\ ~v.looping /\ left <= v.played
    BY <1>1 DEF Inv, Claimed, Attached
  <2> QED BY <2>1, Typed DEF Inv
<1>3. v.played \in Nat /\ v.played >= 1 /\ v.queue # <<>>
  <2>1. v.played \in Nat
    BY <1>2, VoiceTyped
  <2>2. v.played >= 1
    BY <1>1, <1>2, <2>1
  <2> QED BY <1>2, <2>1, <2>2, UnqueueKeeps
<1>4. /\ d.buffers # <<>> /\ d.file.format \in Formats /\ StreamStart <= d.file.length
      /\ d.streamCursor <= d.file.length
  <2>1. d.buffers # <<>>
    BY <1>2, <1>3 DEF Inv, Fitting
  <2>2. Fits(d)
    BY <1>2 DEF Inv, Fitting
  <2> QED BY <1>1, <2>1, <2>2 DEF Fits
<1>5. Sound(d, v, names)
  BY <1>1, <1>2 DEF Inv, Sounding
<1>6. /\ ~Overreads(d) /\ NextCursor(d) \in Nat /\ NextCursor(d) <= d.file.length
  BY <1>2, <1>4, RefillData
<1>7. /\ VoiceOK(Refilled(v, d)) /\ Refilled(v, d).looping = v.looping
      /\ Refilled(v, d).played >= v.played - 1
      /\ Sound(e, Refilled(v, d), names)
  BY <1>2, <1>3, <1>4, <1>5, RefillKeeps
<1>8. /\ e \in SourceData /\ e.file = d.file /\ e.buffers = d.buffers
      /\ e.streamCursor = NextCursor(d)
  BY <1>2, <1>6 DEF SourceData
<1>9. /\ status' = status
      /\ DOMAIN sources' = DOMAIN sources /\ DOMAIN voices' = DOMAIN voices
      /\ sources'[z] = e /\ \A s \in DOMAIN sources : s # z => sources'[s] = sources[s]
      /\ voices'[z] = Refilled(v, d) /\ \A s \in DOMAIN voices : s # z => voices'[s] = voices[s]
  BY <1>2, <1>6 DEF Refill
<1> HIDE DEF z, d, v, e
<1>10. TypeOK'
  <2>1. \A s \in DOMAIN sources' : sources'[s] \in SourceData
    BY <1>8, <1>9, Typed DEF Inv
  <2>2. \A s \in DOMAIN voices' : VoiceOK(voices'[s])
    BY <1>7, <1>9, Typed DEF Inv
  <2>3. \A s \in DOMAIN voices' : /\ voices'[s] \in Voice
                                  /\ voices'[s].played \in 0 .. Len(voices'[s].queue)
    BY <2>2 DEF VoiceOK
  <2>4. left' \in Nat
    BY <1>1, <1>2
  <2> QED BY <1>1, <1>9, <2>1, <2>3, <2>4 DEF Inv, TypeOK
<1>11. Attached'
  BY <1>1, <1>9 DEF Inv, Attached
<1>12. Claimed'
  <2>1. Refilled(v, d).played \in Nat
    BY <1>7, VoiceTyped
  <2>2. left' <= Refilled(v, d).played
    BY <1>1, <1>2, <1>3, <1>7, <2>1
  <2> QED BY <1>1, <1>2, <1>7, <1>9, <2>2 DEF Claimed, z
<1>13. Fitting'
  <2>1. \A s \in DOMAIN sources' : Fits(sources[s])'
    BY <1>4, <1>6, <1>8, <1>9 DEF Inv, Fitting, Fits
  <2>2. \A s \in DOMAIN voices' : voices'[s].queue # <<>> => sources'[s].buffers # <<>>
    BY <1>4, <1>8, <1>9 DEF Inv, Fitting, Attached
  <2> QED BY <2>1, <2>2 DEF Fitting
<1>14. ReadsInRange'
  BY <1>1, <1>9 DEF ReadsInRange
<1>15. ASSUME NEW s \in DOMAIN voices' PROVE Sound(sources'[s], voices'[s], names')
  <2>1. CASE s = z
    BY <1>1, <1>7, <1>9, <2>1
  <2>2. CASE s # z
    <3>1. s \in DOMAIN voices /\ s \in DOMAIN sources
      BY <1>9 DEF Inv, Attached
    <3> QED BY <1>1, <1>9, <2>2, <3>1 DEF Inv, Sounding
  <2> QED BY <2>1, <2>2
<1> QED BY <1>10, <1>11, <1>12, <1>13, <1>14, <1>15 DEF Inv, Sounding

(* Inv holds in every reachable state, in update() and outside it. *)
THEOREM Invariance == Spec => []Inv
<1>1. Init => Inv
  BY InitInv
<1>2. Inv /\ [Next]_vars => Inv'
  <2> SUFFICES ASSUME Inv, [Next]_vars PROVE Inv'
    OBVIOUS
  <2>1. CASE Calls
    <3>1. ASSUME NEW s \in SourceId, \E looping \in BOOLEAN : SetSourceLoop(s, looping)
          PROVE  Inv'
      BY <3>1, VoiceInv
    <3>2. ASSUME NEW s \in SourceId, NEW file \in AudioFiles, SourcePlayFile(s, file)
          PROVE  Inv'
      BY <3>2, SourcePlayFileInv
    <3> QED BY <2>1, <3>1, <3>2, ShutdownInv, AsideInv, CreateSourceInv, DestroySourceInv, VoiceInv
            DEF Calls
  <2>2. CASE Update
    BY <2>2, VisitInv, RefillInv DEF Update
  <2>3. CASE Initialise \/ InitialiseFails \/ Terminated \/ UNCHANGED vars
    BY <2>3, AsideInv
  <2>4. CASE \E s \in SourceId : Plays(s)
    BY <2>4, PlaysInv
  <2> QED BY <2>1, <2>2, <2>3, <2>4 DEF Next
<1> QED BY <1>1, <1>2, PTL DEF Spec

-----------------------------------------------------------------------------
(* The sources, their voices and update()'s place keep their types; OpenAL   *)
(* never counts more buffers as played than a queue has.                     *)
THEOREM TypeCorrect == Spec => []TypeOK
<1>1. Inv => TypeOK
  BY DEF Inv
<1> QED BY <1>1, Invariance, PTL

(* The only read outside a file's data is that of a file which does not fill *)
(* the first buffers; no refill ever makes one.                              *)
THEOREM NeverReadsOutside == Spec => []ReadsInRange
<1>1. Inv => ReadsInRange
  BY DEF Inv
<1> QED BY <1>1, Invariance, PTL

(* What is on a source's queue is the file in order and in a loop, however   *)
(* often it is played, paused, refilled and run dry.                         *)
THEOREM StreamsInOrder == Spec => []StreamInOrder
<1>1. Inv => StreamInOrder
  BY DEF Inv, Sounding, Sound, StreamInOrder
<1> QED BY <1>1, Invariance, PTL

(* OpenAL takes no buffer back that update() has counted: there is one to    *)
(* unqueue at every turn of its loop, whatever OpenAL plays meanwhile.       *)
THEOREM CountedStaysPlayed ==
  Spec => [](left > 0 => current \in DOMAIN voices /\ left <= voices[current].played)
<1>1. Inv => (left > 0 => current \in DOMAIN voices /\ left <= voices[current].played)
  BY DEF Inv, Claimed
<1> QED BY <1>1, Invariance, PTL
=============================================================================
