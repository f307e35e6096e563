---------------------------- MODULE ConfigProofs -----------------------------
(* Theorems about Config for every set of files and any number of loads: the *)
(* getters answer what the files say, and no line is lost without a word.    *)
EXTENDS Config, SequenceTheorems, WellFoundedInduction, TLAPS

-----------------------------------------------------------------------------
(* The inductive invariant. *)

IsPair(c, i) == c[i].kind = "pair"
At(c, i)     == <<SectionAt(c, i), c[i].name>>

(* The pair that has the last word on a section's key in the first n lines.  *)
LastOf(c, n, sk, i) == /\ i \in 1 .. n /\ IsPair(c, i) /\ At(c, i) = sk
                       /\ \A j \in 1 .. n : IsPair(c, j) /\ At(c, j) = sk => j <= i

(* The sections hold what the first n lines say. *)
Reads(map, c, n) ==
  /\ \A i \in 1 .. n : IsPair(c, i) => At(c, i) \in DOMAIN map
  /\ \A sk \in DOMAIN map : \E i \in 1 .. n : LastOf(c, n, sk, i) /\ map[sk] = c[i].value

(* The errors name what the first n lines have wrong, and no file's absence. *)
Reports(errs, c, n) == /\ 0 \notin errs
                       /\ \A i \in 1 .. n : c[i].kind \in {"unclosed", "invalid"} => i \in errs

(* The table has for a key what the last of the first n files to have it says. *)
Holds(map, h, n, key) ==
  /\ key \in DOMAIN map =>
       \E m \in 1 .. n : /\ Says(h[m], key) # {}
                         /\ \A k \in m + 1 .. n : Says(h[k], key) = {}
                         /\ \E i \in Candidates(h[m], key) : map[key] = h[m][i].value
  /\ key \notin DOMAIN map => \A m \in 1 .. n : Says(h[m], key) = {}

Top    == Len(history)
Latest == history[Top]

Parsing == pc = "parse" =>
             /\ content = Latest /\ lineIndex \in 1 .. Len(content) + 1
             /\ section = SectionAt(content, lineIndex)
             /\ Reads(sectionMap, content, lineIndex - 1)
             /\ Reports(errors, content, lineIndex - 1)

Done == DOMAIN sectionMap \ toCopy

Copying == pc = "copy" =>
             /\ Reads(sectionMap, Latest, Len(Latest))
             /\ toCopy \subseteq DOMAIN sectionMap
             /\ \/ content = Latest /\ Reports(errors, content, Len(content))
                \/ 0 \in errors

(* While the sections are copied, a key is as before or what one of them says. *)
Table ==
  \A key :
    /\ pc = "idle"  => Holds(configValues, history, Top, key)
    /\ pc = "parse" => Holds(configValues, history, Top - 1, key)
    /\ pc = "copy"  =>
         \/ \E sk \in Done : /\ ConfigKey(sk[1], sk[2]) = key
                            /\ key \in DOMAIN configValues
                            /\ configValues[key] = sectionMap[sk]
         \/ /\ Holds(configValues, history, Top - 1, key)
            /\ \A sk \in Done : ConfigKey(sk[1], sk[2]) # key

Inv == /\ pc \in {"idle", "parse", "copy"}
       /\ history \in Seq(Content)
       /\ pc # "idle" => history # <<>>
       /\ pc # "copy" => toCopy = {}
       /\ Parsing /\ Copying /\ Table
       /\ AnswersFromFiles

-----------------------------------------------------------------------------
(* Numbers and sequences. *)

(* A set of numbers up to n that is not empty has a greatest one. *)
LEMMA Greatest ==
  ASSUME NEW n \in Nat, NEW T \in SUBSET (1 .. n), T # {}
  PROVE  \E a \in T : \A b \in T : b <= a
<1> DEFINE R == OpToRel(<, Nat)
           D == {n - k : k \in T}
<1>1. IsWellFoundedOn(R, Nat)
  BY NatLessThanWellFounded
<1>2. \A a, b \in Nat : b < a => <<b, a>> \in R
  BY DEF OpToRel
<1> HIDE DEF R
<1>3. D \in SUBSET Nat /\ D # {}
  <2>1. \A k \in T : n - k \in Nat
    OBVIOUS
  <2> QED BY <2>1
<1>4. PICK d \in D : \A e \in D : ~(<<e, d>> \in R)
  BY <1>1, <1>3, WFMin
<1>5. PICK a \in T : d = n - a
  BY <1>4
<1>6. ASSUME NEW b \in T PROVE b <= a
  <2>1. n - b \in D /\ n - b \in Nat /\ d \in Nat /\ a \in Nat /\ b \in Nat
    BY <1>3, <1>5
  <2>2. ~(n - b < n - a)
    BY <1>2, <1>4, <1>5, <2>1
  <2> QED BY <2>1, <2>2
<1> QED BY <1>6

(* What follows the same section is read off the key. *)
LEMMA SameKey ==
  ASSUME NEW s \in Names, NEW a \in Names, NEW b \in Names, s \o a = s \o b
  PROVE  a = b
<1>1. Len(s) \in Nat /\ Len(a) \in Nat /\ Len(b) \in Nat
  BY LenProperties DEF Names
<1>2. Len(a) = Len(b)
  BY <1>1, ConcatProperties DEF Names
<1>3. ASSUME NEW i \in 1 .. Len(a) PROVE a[i] = b[i]
  <2>1. Len(s) + i \in 1 .. Len(s) + Len(a) /\ ~(Len(s) + i <= Len(s)) /\ Len(s) + i - Len(s) = i
    BY <1>1
  <2>2. (s \o a)[Len(s) + i] = a[i]
    BY <2>1, ConcatProperties DEF Names
  <2>3. (s \o b)[Len(s) + i] = b[i]
    BY <2>1, <1>2, ConcatProperties DEF Names
  <2> QED BY <2>2, <2>3
<1> QED BY <1>2, <1>3, SeqEqual DEF Names

(* The lines of a file. *)
LEMMA LineTyped ==
  ASSUME NEW c \in Content
  PROVE  /\ Len(c) \in Nat /\ DOMAIN c = 1 .. Len(c)
         /\ \A i \in 1 .. Len(c) : c[i].kind \in Kinds /\ c[i].name \in Names
<1> DEFINE L == [kind : Kinds, name : Names, value : STRING]
<1>1. Len(c) \in Nat /\ DOMAIN c = 1 .. Len(c)
  BY LenProperties DEF Content
<1>2. ASSUME NEW i \in 1 .. Len(c) PROVE c[i] \in L
  BY ElementOfSeq DEF Content
<1> QED BY <1>1, <1>2

-----------------------------------------------------------------------------
(* What a file says. *)

(* The section a line belongs to has a name. *)
LEMMA SectionTyped ==
  ASSUME NEW c \in Content, NEW i \in 1 .. Len(c) + 1
  PROVE  SectionAt(c, i) \in Names
<1> DEFINE above == {j \in 1 .. i - 1 : c[j].kind = "section"}
<1>1. Len(c) \in Nat /\ i - 1 \in Nat /\ 1 .. i - 1 \subseteq 1 .. Len(c)
  BY LineTyped
<1>2. CASE above = {}
  <2>1. SectionAt(c, i) = <<>>
    BY <1>2 DEF SectionAt
  <2> QED BY <2>1, EmptySeq DEF Names
<1>3. CASE above # {}
  <2>1. \E j \in above : \A k \in above : k <= j
    BY <1>1, <1>3, Greatest
  <2>2. (CHOOSE j \in above : \A k \in above : k <= j) \in above
    BY <2>1
  <2>3. SectionAt(c, i) = c[CHOOSE j \in above : \A k \in above : k <= j].name
    BY <1>3 DEF SectionAt
  <2> QED BY <1>1, <2>2, <2>3, LineTyped
<1> QED BY <1>2, <1>3

(* A section line begins its section, any other line leaves it. *)
LEMMA SectionNext ==
  ASSUME NEW c \in Content, NEW i \in 1 .. Len(c)
  PROVE  SectionAt(c, i + 1) = IF c[i].kind = "section" THEN c[i].name ELSE SectionAt(c, i)
<1> DEFINE above(k) == {j \in 1 .. k - 1 : c[j].kind = "section"}
           Name(T)  == IF T = {} THEN <<>>
                       ELSE c[CHOOSE j \in T : \A k \in T : k <= j].name
<1>1. Len(c) \in Nat /\ i \in Nat /\ i >= 1
  BY LineTyped
<1>2. CASE c[i].kind = "section"
  <2>1. i \in above(i + 1) /\ \A k \in above(i + 1) : k \in Nat /\ k <= i
    BY <1>1, <1>2
  <2>2. (CHOOSE j \in above(i + 1) : \A k \in above(i + 1) : k <= j) = i
    BY <2>1
  <2>3. above(i + 1) # {}
    BY <2>1
  <2>4. SectionAt(c, i + 1) = Name(above(i + 1))
    BY DEF SectionAt
  <2>5. Name(above(i + 1)) = c[i].name
    BY <2>2, <2>3
  <2> QED BY <1>2, <2>4, <2>5
<1>3. CASE c[i].kind # "section"
  <2>1. above(i + 1) = above(i)
    BY <1>1, <1>3
  <2>2. SectionAt(c, i + 1) = Name(above(i + 1)) /\ SectionAt(c, i) = Name(above(i))
    BY DEF SectionAt
  <2> HIDE DEF above, Name
  <2> QED BY <1>3, <2>1, <2>2
<1> QED BY <1>2, <1>3

(* Says, with the names of the code. *)
LEMMA SaysIs ==
  ASSUME NEW c \in Content, NEW key, NEW i
  PROVE  i \in Says(c, key) <=>
           i \in 1 .. Len(c) /\ IsPair(c, i) /\ ConfigKey(SectionAt(c, i), c[i].name) = key
BY LineTyped DEF Says, IsPair, ConfigKey

(* The last word of a section on one of its keys may be the key's value.     *)
LEMMA LastIsCandidate ==
  ASSUME NEW c \in Content, NEW sk, NEW i, LastOf(c, Len(c), sk, i)
  PROVE  i \in Candidates(c, ConfigKey(sk[1], sk[2]))
<1>1. i \in 1 .. Len(c) /\ IsPair(c, i) /\ sk = <<SectionAt(c, i), c[i].name>>
  BY DEF LastOf, At
<1>2. sk[1] = SectionAt(c, i) /\ sk[2] = c[i].name
  BY <1>1
<1> DEFINE key == ConfigKey(sk[1], sk[2])
<1>3. key = ConfigKey(SectionAt(c, i), c[i].name)
  BY <1>2
<1> HIDE DEF key
<1>4. i \in Says(c, key)
  BY <1>1, <1>3, SaysIs
<1>5. ASSUME NEW j \in Says(c, key), SectionAt(c, j) = SectionAt(c, i) PROVE j <= i
  <2>1. j \in 1 .. Len(c) /\ IsPair(c, j) /\ ConfigKey(SectionAt(c, j), c[j].name) = key
    BY SaysIs
  <2>2. SectionAt(c, i) \o c[j].name = SectionAt(c, i) \o c[i].name
    BY <1>3, <1>5, <2>1 DEF ConfigKey
  <2>3. SectionAt(c, i) \in Names /\ c[i].name \in Names /\ c[j].name \in Names
    <3>1. i \in 1 .. Len(c) + 1
      BY <1>1, LineTyped
    <3> QED BY <1>1, <2>1, <3>1, LineTyped, SectionTyped
  <2>4. c[j].name = c[i].name
    BY <2>2, <2>3, SameKey
  <2>5. At(c, j) = sk
    BY <1>1, <1>5, <2>4 DEF At
  <2> QED BY <2>1, <2>5 DEF LastOf
<1>6. i \in Candidates(c, key)
  BY <1>4, <1>5 DEF Candidates
<1> QED BY <1>6 DEF key

-----------------------------------------------------------------------------
(* The reader *)

(* A line that is no pair leaves the sections as they are. *)
LEMMA ReadsOther ==
  ASSUME NEW c \in Content, NEW map, NEW i \in 1 .. Len(c), ~IsPair(c, i), Reads(map, c, i - 1)
  PROVE  Reads(map, c, i)
<1>1. Len(c) \in Nat /\ 1 .. i = (1 .. i - 1) \cup {i}
  BY LineTyped
<1>2. \A sk, j : LastOf(c, i - 1, sk, j) => LastOf(c, i, sk, j)
  BY <1>1 DEF LastOf
<1> QED BY <1>1, <1>2 DEF Reads

(* A pair has the last word on its key. *)
LEMMA ReadsPair ==
  ASSUME NEW c \in Content, NEW map, NEW i \in 1 .. Len(c), IsPair(c, i), Reads(map, c, i - 1)
  PROVE  Reads(Put(map, At(c, i), c[i].value), c, i)
<1> DEFINE new == Put(map, At(c, i), c[i].value)
<1>1. Len(c) \in Nat /\ i \in Nat /\ 1 .. i = (1 .. i - 1) \cup {i}
  BY LineTyped
<1>2. /\ DOMAIN new = DOMAIN map \cup {At(c, i)} /\ new[At(c, i)] = c[i].value
      /\ \A sk \in DOMAIN map : sk # At(c, i) => new[sk] = map[sk]
  <2> DEFINE k == At(c, i)
             v == c[i].value
  <2> HIDE DEF k, v
  <2>1. /\ DOMAIN Put(map, k, v) = DOMAIN map \cup {k} /\ Put(map, k, v)[k] = v
        /\ \A sk \in DOMAIN map : sk # k => Put(map, k, v)[sk] = map[sk]
    BY DEF Put
  <2> QED BY <2>1 DEF k, v
<1>3. LastOf(c, i, At(c, i), i)
  BY <1>1 DEF LastOf
<1>4. ASSUME NEW sk, NEW j, sk # At(c, i), LastOf(c, i - 1, sk, j) PROVE LastOf(c, i, sk, j)
  BY <1>1, <1>4 DEF LastOf
<1> HIDE DEF new
<1>5. \A j \in 1 .. i : IsPair(c, j) => At(c, j) \in DOMAIN new
  BY <1>1, <1>2 DEF Reads
<1>6. ASSUME NEW sk \in DOMAIN new
      PROVE  \E j \in 1 .. i : LastOf(c, i, sk, j) /\ new[sk] = c[j].value
  <2>1. CASE sk = At(c, i)
    BY <1>1, <1>2, <1>3, <2>1
  <2>2. CASE sk # At(c, i)
    <3>1. sk \in DOMAIN map /\ new[sk] = map[sk]
      BY <1>2, <2>2
    <3>2. PICK j \in 1 .. i - 1 : LastOf(c, i - 1, sk, j) /\ map[sk] = c[j].value
      BY <3>1 DEF Reads
    <3> QED BY <1>1, <1>4, <2>2, <3>1, <3>2
  <2> QED BY <2>1, <2>2
<1>7. Reads(new, c, i)
  BY <1>5, <1>6 DEF Reads
<1> QED BY <1>7 DEF new

-----------------------------------------------------------------------------
(* The table *)

(* Nothing of this file has the key: the table has it from the files before. *)
LEMMA HoldsOn ==
  ASSUME NEW map, NEW h, NEW n \in Nat, n > 0, NEW key,
         Holds(map, h, n - 1, key), Says(h[n], key) = {}
  PROVE  Holds(map, h, n, key)
<1>1. 1 .. n = (1 .. n - 1) \cup {n}
  OBVIOUS
<1>2. \A m \in 1 .. n - 1 : m + 1 .. n = (m + 1 .. n - 1) \cup {n}
  OBVIOUS
<1> QED BY <1>1, <1>2 DEF Holds

(* The files that have the key, and the last of them. *)
Having(h, key)     == {n \in DOMAIN h : Says(h[n], key) # {}}
LastHaving(h, key) == h[CHOOSE n \in Having(h, key) : \A m \in Having(h, key) : m <= n]

(* The answer of a table that has what the files say. *)
LEMMA Answered ==
  ASSUME NEW map, NEW h \in Seq(Content), NEW key, Holds(map, h, Len(h), key)
  PROVE  IF Having(h, key) = {} THEN key \notin DOMAIN map
         ELSE /\ key \in DOMAIN map
              /\ \E i \in Candidates(LastHaving(h, key), key) :
                   map[key] = LastHaving(h, key)[i].value
<1> DEFINE having == {n \in DOMAIN h : Says(h[n], key) # {}}
           top    == CHOOSE n \in having : \A m \in having : m <= n
<1>1. Len(h) \in Nat /\ DOMAIN h = 1 .. Len(h)
  BY LenProperties
<1> DEFINE Goal == IF having = {} THEN key \notin DOMAIN map
                   ELSE /\ key \in DOMAIN map
                        /\ \E i \in Candidates(h[top], key) : map[key] = h[top][i].value
<1>2. ASSUME key \notin DOMAIN map PROVE Goal
  <2>1. having = {}
    BY <1>1, <1>2 DEF Holds
  <2>2. Goal
    <3> HIDE DEF having
    <3> QED BY <1>2, <2>1
  <2> QED BY <2>2
<1>3. ASSUME key \in DOMAIN map PROVE Goal
  <2>1. PICK m \in 1 .. Len(h) :
          /\ Says(h[m], key) # {}
          /\ \A k \in m + 1 .. Len(h) : Says(h[k], key) = {}
          /\ \E i \in Candidates(h[m], key) : map[key] = h[m][i].value
    BY <1>3 DEF Holds
  <2>2. m \in having /\ m \in Nat
    BY <1>1, <2>1
  <2>3. ASSUME NEW k \in having PROVE k \in Nat /\ k <= m
    <3>1. k \in 1 .. Len(h) /\ Says(h[k], key) # {}
      BY <1>1
    <3>2. k \notin m + 1 .. Len(h)
      BY <2>1, <3>1
    <3> QED BY <1>1, <3>1, <3>2
  <2>4. top = m
    BY <2>2, <2>3
  <2>5. \E i \in Candidates(h[top], key) : map[key] = h[top][i].value
    BY <2>1, <2>4
  <2>6. having # {}
    BY <2>2
  <2> HIDE DEF having, top
  <2> QED BY <1>3, <2>5, <2>6
<1>4. Goal
  <2> HIDE DEF Goal
  <2> QED BY <1>2, <1>3
<1>5. having = Having(h, key) /\ h[top] = LastHaving(h, key)
  BY DEF Having, LastHaving
<1>6. Goal <=> IF Having(h, key) = {} THEN key \notin DOMAIN map
               ELSE /\ key \in DOMAIN map
                    /\ \E i \in Candidates(LastHaving(h, key), key) :
                         map[key] = LastHaving(h, key)[i].value
  <2> HIDE DEF having, top
  <2> QED BY <1>5
<1> HIDE DEF Goal
<1> QED BY <1>4, <1>6

(* The files before the n-th alone decide. *)
LEMMA HoldsAgrees ==
  ASSUME NEW map, NEW h, NEW g, NEW n \in Int, NEW key,
         \A m \in 1 .. n : g[m] = h[m], Holds(map, h, n, key)
  PROVE  Holds(map, g, n, key)
<1>1. CASE key \notin DOMAIN map
  BY <1>1 DEF Holds
<1>2. CASE key \in DOMAIN map
  <2>1. PICK m \in 1 .. n : /\ Says(h[m], key) # {}
                            /\ \A k \in m + 1 .. n : Says(h[k], key) = {}
                            /\ \E i \in Candidates(h[m], key) : map[key] = h[m][i].value
    BY <1>2 DEF Holds
  <2>2. g[m] = h[m] /\ \A k \in m + 1 .. n : g[k] = h[k]
    OBVIOUS
  <2>3. \A k \in m + 1 .. n : Says(g[k], key) = {}
    BY <2>1, <2>2
  <2>4. Says(g[m], key) # {} /\ \E i \in Candidates(g[m], key) : map[key] = g[m][i].value
    BY <2>1, <2>2
  <2> QED BY <1>2, <2>3, <2>4 DEF Holds
<1> QED BY <1>1, <1>2

(* The answer follows from the table when a getter gives it, and stays as it *)
(* is until the next load.                                                   *)
LEMMA AnswerKept ==
  ASSUME AnswersFromFiles, UNCHANGED <<answer, history>>
  PROVE  AnswersFromFiles'
BY DEF AnswersFromFiles

(* A getter answers from the table, a converting one throws on what is no   *)
(* number of its kind.                                                       *)
LEMMA GetterAnswers ==
  ASSUME NEW getter \in {"string", "int", "float"}, NEW key,
         Holds(configValues, history, Top, key), history \in Seq(Content), history' = history,
         answer'.getter = getter, answer'.key = key,
         answer'.result = IF key \in DOMAIN configValues
                          THEN Converted(getter, configValues[key])
                          ELSE IF getter = "float" THEN "default_six_decimals" ELSE "default"
  PROVE  AnswersFromFiles'
<1> DEFINE having == Having(history, key)
           c      == LastHaving(history, key)
<1>1. IF having = {} THEN key \notin DOMAIN configValues
      ELSE /\ key \in DOMAIN configValues
           /\ \E i \in Candidates(c, key) : configValues[key] = c[i].value
  BY Answered DEF Top
<1>2. AnswersFromFiles' <=>
        (answer' # None =>
           IF having = {}
           THEN answer'.result = IF getter = "float" THEN "default_six_decimals" ELSE "default"
           ELSE \E i \in Candidates(c, key) : answer'.result = Converted(getter, c[i].value))
  BY DEF AnswersFromFiles, Having, LastHaving
<1> HIDE DEF having, c
<1>3. CASE having = {}
  BY <1>1, <1>2, <1>3
<1>4. CASE having # {}
  <2>1. PICK i \in Candidates(c, key) : configValues[key] = c[i].value
    BY <1>1, <1>4
  <2>2. answer'.result = Converted(getter, c[i].value)
    BY <1>1, <1>4, <2>1
  <2> QED BY <1>2, <1>4, <2>1, <2>2
<1> QED BY <1>3, <1>4

-----------------------------------------------------------------------------
(* The steps *)

(* There is no file yet, and the table is empty. *)
LEMMA InitInv == Init => Inv
<1> SUFFICES ASSUME Init PROVE Inv
  OBVIOUS
<1>1. history \in Seq(Content) /\ Top = 0 /\ DOMAIN configValues = {}
  BY EmptySeq DEF Init, Top
<1>2. Table
  BY <1>1 DEF Init, Table, Holds
<1> QED BY <1>1, <1>2 DEF Init, Inv, Parsing, Copying, AnswersFromFiles

(* A file is one more in the history; the table is what those before it say. *)
LEMMA LoadBegins ==
  ASSUME Inv, pc = "idle", NEW c \in Content, history' = Append(history, c),
         UNCHANGED configValues
  PROVE  /\ history' \in Seq(Content) /\ Top' = Top + 1 /\ Latest' = c /\ history' # <<>>
         /\ \A key : Holds(configValues', history', Top' - 1, key)
<1>1. history \in Seq(Content) /\ Top \in Nat
  BY LenProperties DEF Inv, Top
<1>2. /\ history' \in Seq(Content) /\ Top' = Top + 1 /\ history'[Top + 1] = c
      /\ \A m \in 1 .. Top : history'[m] = history[m]
  BY <1>1, AppendProperties DEF Top
<1>3. Top' # 0
  BY <1>1, <1>2
<1>4. history' # <<>>
  BY <1>3, EmptySeq DEF Top
<1>5. ASSUME NEW key PROVE Holds(configValues', history', Top' - 1, key)
  <2>1. Holds(configValues, history, Top, key)
    BY DEF Inv, Table
  <2> DEFINE n == Top
             g == history'
  <2>2. Holds(configValues, g, n, key)
    <3>1. n \in Int
      BY <1>1
    <3>2. Holds(configValues, history, n, key)
      BY <2>1
    <3>3. \A m \in 1 .. n : g[m] = history[m]
      BY <1>2
    <3> HIDE DEF n, g
    <3> QED BY <3>1, <3>2, <3>3, HoldsAgrees
  <2>3. Top' - 1 = Top
    BY <1>1, <1>2
  <2> QED BY <2>2, <2>3
<1> QED BY <1>2, <1>4, <1>5 DEF Latest

(* The file that is being loaded is a file. *)
LEMMA LatestTyped ==
  ASSUME Inv, pc # "idle"
  PROVE  Latest \in Content /\ Top \in Nat /\ Top > 0
<1>1. history \in Seq(Content) /\ history # <<>>
  BY DEF Inv
<1>2. Len(history) \in Nat /\ Len(history) # 0
  BY <1>1, LenProperties, EmptySeq
<1>3. history[Len(history)] \in Content
  BY <1>1, <1>2, ElementOfSeq
<1> QED BY <1>2, <1>3 DEF Latest, Top

(* parse() begins with no section and no error. *)
LEMMA ParseInv ==
  ASSUME Inv, NEW c \in Contents, Parse(c)
  PROVE  Inv'
<1>1. /\ pc = "idle" /\ pc' = "parse" /\ content' = c /\ lineIndex' = 1 /\ section' = <<>>
      /\ sectionMap' = <<>> /\ errors' = {} /\ history' = Append(history, c)
      /\ answer' = None /\ UNCHANGED <<toCopy, configValues>>
  BY DEF Parse
<1>2. c \in Content /\ Len(c) \in Nat
  BY ConfigAssumption, LineTyped
<1>3. /\ history' \in Seq(Content) /\ Latest' = c /\ history' # <<>>
      /\ \A key : Holds(configValues', history', Top' - 1, key)
  BY <1>1, <1>2, LoadBegins
<1>4. SectionAt(c, 1) = <<>>
  <2>1. {j \in 1 .. 1 - 1 : c[j].kind = "section"} = {}
    OBVIOUS
  <2> QED BY <2>1 DEF SectionAt
<1>5. Reads(sectionMap', c, 0) /\ Reports(errors', c, 0)
  <2>1. DOMAIN sectionMap' = {}
    BY <1>1
  <2> QED BY <1>1, <2>1 DEF Reads, Reports
<1>6. Parsing'
  BY <1>1, <1>2, <1>3, <1>4, <1>5 DEF Parsing
<1>7. Table' /\ Copying' /\ AnswersFromFiles'
  BY <1>1, <1>3 DEF Table, Copying, AnswersFromFiles
<1>8. toCopy' = {}
  BY <1>1 DEF Inv
<1> QED BY <1>1, <1>3, <1>6, <1>7, <1>8 DEF Inv

(* A missing file counts as an empty one that is in error. *)
LEMMA ParseMissingInv ==
  ASSUME Inv, ParseMissing
  PROVE  Inv'
<1>1. /\ pc = "idle" /\ pc' = "copy" /\ sectionMap' = <<>> /\ errors' = {0}
      /\ history' = Append(history, <<>>) /\ answer' = None
      /\ UNCHANGED <<content, toCopy, configValues>> /\ toCopy = {}
  BY DEF ParseMissing, Inv
<1>2. <<>> \in Content /\ Len(<<>>) = 0
  BY EmptySeq DEF Content
<1>3. /\ history' \in Seq(Content) /\ Latest' = <<>> /\ history' # <<>>
      /\ \A key : Holds(configValues', history', Top' - 1, key)
  BY <1>1, <1>2, LoadBegins
<1>4. DOMAIN sectionMap' = {} /\ Done' = {}
  BY <1>1 DEF Done
<1>5. Reads(sectionMap', Latest', Len(Latest'))
  BY <1>2, <1>3, <1>4 DEF Reads
<1>6. Copying'
  BY <1>1, <1>5 DEF Copying
<1>7. Table' /\ Parsing' /\ AnswersFromFiles'
  BY <1>1, <1>3, <1>4 DEF Table, Parsing, AnswersFromFiles
<1> QED BY <1>1, <1>3, <1>6, <1>7 DEF Inv

(* One line is read: it becomes the section, goes into it, or is reported.   *)
LEMMA ReadLineInv ==
  ASSUME Inv, ReadLine
  PROVE  Inv'
<1> DEFINE i == lineIndex
           c == content
<1>1. PICK kind \in Kinds : Reading(kind)
  BY DEF ReadLine, SkipLine, ReadSection, RejectSection, ReadPair, RejectLine, Kinds
<1>2. /\ pc = "parse" /\ c[i].kind = kind /\ i <= Len(c) /\ lineIndex' = i + 1
      /\ UNCHANGED <<pc, content, toCopy, configValues, history, answer>>
  BY <1>1 DEF Reading, Line
<1>3. /\ section = SectionAt(c, i) /\ c = Latest
      /\ Reads(sectionMap, c, i - 1) /\ Reports(errors, c, i - 1)
      /\ i \in 1 .. Len(c) + 1
  BY <1>2 DEF Inv, Parsing
<1>4. c \in Content
  BY <1>2, <1>3, LatestTyped
<1>5. Len(c) \in Nat /\ i \in 1 .. Len(c) /\ i \in Nat /\ i >= 1 /\ i + 1 - 1 = i
  BY <1>2, <1>3, <1>4, LineTyped
<1>6. section' = SectionAt(c, i + 1)
  <2>1. section' = IF c[i].kind = "section" THEN c[i].name ELSE section
    BY <1>2 DEF ReadLine, SkipLine, ReadSection, RejectSection, ReadPair, RejectLine, Reading, Line
  <2> QED BY <1>3, <1>4, <1>5, <2>1, SectionNext
<1>7. Reads(sectionMap', c, i)
  <2>1. CASE kind = "pair"
    <3>1. sectionMap' = Put(sectionMap, At(c, i), c[i].value)
      BY <1>2, <1>3, <2>1 DEF ReadLine, SkipLine, ReadSection, RejectSection, ReadPair, RejectLine,
                              Reading, Line, At
    <3> QED BY <1>2, <1>3, <1>4, <1>5, <2>1, <3>1, ReadsPair DEF IsPair
  <2>2. CASE kind # "pair"
    <3>1. sectionMap' = sectionMap
      BY <1>2, <2>2 DEF ReadLine, SkipLine, ReadSection, RejectSection, ReadPair, RejectLine,
                        Reading, Line
    <3> QED BY <1>2, <1>3, <1>4, <1>5, <2>2, <3>1, ReadsOther DEF IsPair
  <2> QED BY <2>1, <2>2
<1>8. Reports(errors', c, i)
  <2>1. errors' = IF c[i].kind \in {"unclosed", "invalid"} THEN errors \cup {i} ELSE errors
    BY <1>2 DEF ReadLine, SkipLine, ReadSection, RejectSection, ReadPair, RejectLine, Reading, Line
  <2>2. 1 .. i = (1 .. i - 1) \cup {i}
    BY <1>5
  <2> QED BY <1>3, <1>5, <2>1, <2>2 DEF Reports
<1>9. Parsing'
  <2>1. Latest' = Latest
    BY <1>2 DEF Latest, Top
  <2>2. i + 1 \in 1 .. Len(c) + 1
    BY <1>5
  <2> QED BY <1>2, <1>3, <1>5, <1>6, <1>7, <1>8, <2>1, <2>2 DEF Parsing
<1>10. Table' /\ Copying'
  BY <1>2 DEF Inv, Table, Copying, Top
<1>11. AnswersFromFiles'
  BY <1>2, AnswerKept DEF Inv
<1> QED BY <1>2, <1>9, <1>10, <1>11 DEF Inv

(* All lines are read and nothing is copied yet. *)
LEMMA EndParseInv ==
  ASSUME Inv, EndParse
  PROVE  Inv'
<1>1. /\ pc = "parse" /\ lineIndex > Len(content) /\ pc' = "copy" /\ toCopy' = DOMAIN sectionMap
      /\ UNCHANGED <<content, lineIndex, section, sectionMap, errors, configValues, history,
                     answer>>
  BY DEF EndParse
<1>2. /\ content = Latest /\ lineIndex \in 1 .. Len(content) + 1
      /\ Reads(sectionMap, content, lineIndex - 1) /\ Reports(errors, content, lineIndex - 1)
  BY <1>1 DEF Inv, Parsing
<1>3. lineIndex - 1 = Len(content)
  BY <1>1, <1>2, LatestTyped, LineTyped
<1>4. Latest' = Latest /\ Top' = Top /\ Done' = {}
  BY <1>1 DEF Latest, Top, Done
<1>5. Copying'
  BY <1>1, <1>2, <1>3, <1>4 DEF Copying
<1>6. Table'
  BY <1>1, <1>4 DEF Inv, Table
<1>7. AnswersFromFiles'
  BY <1>1, AnswerKept DEF Inv
<1> QED BY <1>1, <1>5, <1>6, <1>7 DEF Inv, Parsing

(* The key that is copied has what its section says, the others what they had. *)
LEMMA CopyValueInv ==
  ASSUME Inv, NEW sk \in toCopy, CopyValue(sk)
  PROVE  Inv'
<1> DEFINE k == ConfigKey(sk[1], sk[2])
<1>1. /\ pc = "copy" /\ configValues' = Put(configValues, k, sectionMap[sk])
      /\ toCopy' = toCopy \ {sk}
      /\ UNCHANGED <<pc, content, lineIndex, section, sectionMap, errors, history, answer>>
  BY DEF CopyValue
<1>2. toCopy \subseteq DOMAIN sectionMap
  BY <1>1 DEF Inv, Copying
<1>3. Latest' = Latest /\ Top' = Top /\ Done' = Done \cup {sk}
  BY <1>1, <1>2 DEF Latest, Top, Done
<1>4. Copying'
  BY <1>1, <1>2, <1>3 DEF Inv, Copying
<1> HIDE DEF k
<1>5. /\ DOMAIN configValues' = DOMAIN configValues \cup {k}
      /\ configValues'[k] = sectionMap[sk]
      /\ \A key \in DOMAIN configValues : key # k => configValues'[key] = configValues[key]
  BY <1>1 DEF Put
<1>6. ASSUME NEW key
      PROVE  \/ \E q \in Done' : /\ ConfigKey(q[1], q[2]) = key
                                 /\ key \in DOMAIN configValues'
                                 /\ configValues'[key] = sectionMap'[q]
             \/ /\ Holds(configValues', history', Top' - 1, key)
                /\ \A q \in Done' : ConfigKey(q[1], q[2]) # key
  <2>1. CASE key = k
    BY <1>1, <1>3, <1>5, <2>1 DEF k
  <2>2. CASE key # k
    <3>1. CASE \E q \in Done : /\ ConfigKey(q[1], q[2]) = key /\ key \in DOMAIN configValues
                               /\ configValues[key] = sectionMap[q]
      BY <1>1, <1>3, <1>5, <2>2, <3>1
    <3>2. CASE /\ Holds(configValues, history, Top - 1, key)
               /\ \A q \in Done : ConfigKey(q[1], q[2]) # key
      <4>1. \A q \in Done' : ConfigKey(q[1], q[2]) # key
        BY <1>3, <2>2, <3>2 DEF k
      <4>2. Holds(configValues', history', Top' - 1, key)
        <5>1. Holds(configValues', history, Top - 1, key)
          BY <1>5, <2>2, <3>2 DEF Holds
        <5> QED BY <1>1, <1>3, <5>1
      <4> QED BY <4>1, <4>2
    <3> QED BY <1>1, <3>1, <3>2 DEF Inv, Table
  <2> QED BY <2>1, <2>2
<1>7. Table'
  BY <1>1, <1>6 DEF Table
<1>8. AnswersFromFiles'
  BY <1>1, AnswerKept DEF Inv
<1> QED BY <1>1, <1>4, <1>7, <1>8 DEF Inv, Parsing

(* When all is copied the table is what the files say, this one last. *)
LEMMA EndCopyInv ==
  ASSUME Inv, EndCopy
  PROVE  Inv'
<1>1. /\ pc = "copy" /\ toCopy = {} /\ pc' = "idle" /\ content' = <<>> /\ sectionMap' = <<>>
      /\ UNCHANGED <<toCopy, configValues, history, answer>>
  BY DEF EndCopy
<1>2. Done = DOMAIN sectionMap /\ Reads(sectionMap, Latest, Len(Latest))
  BY <1>1 DEF Inv, Copying, Done
<1>3. Latest \in Content /\ Top \in Nat /\ Top > 0
  BY <1>1, LatestTyped
<1>4. /\ Len(Latest) \in Nat
      /\ \A i \in 1 .. Len(Latest) : Latest[i].name \in Names
  BY <1>3, LineTyped
<1>5. ASSUME NEW key PROVE Holds(configValues, history, Top, key)
  <2>1. CASE \E q \in Done : /\ ConfigKey(q[1], q[2]) = key /\ key \in DOMAIN configValues
                             /\ configValues[key] = sectionMap[q]
    <3>1. PICK q \in Done : /\ ConfigKey(q[1], q[2]) = key /\ key \in DOMAIN configValues
                            /\ configValues[key] = sectionMap[q]
      BY <2>1
    <3>2. PICK i \in 1 .. Len(Latest) : /\ LastOf(Latest, Len(Latest), q, i)
                                        /\ sectionMap[q] = Latest[i].value
      BY <1>2, <3>1 DEF Reads
    <3>3. i \in Candidates(Latest, key)
      BY <1>3, <3>1, <3>2, LastIsCandidate
    <3>4. Says(Latest, key) # {}
      BY <3>3 DEF Candidates
    <3>5. Top \in 1 .. Top /\ Top + 1 .. Top = {}
      BY <1>3
    <3> QED BY <3>1, <3>2, <3>3, <3>4, <3>5 DEF Holds, Latest
  <2>2. CASE /\ Holds(configValues, history, Top - 1, key)
             /\ \A q \in Done : ConfigKey(q[1], q[2]) # key
    <3>1. ASSUME NEW i \in Says(Latest, key) PROVE FALSE
      <4>1. /\ i \in 1 .. Len(Latest) /\ IsPair(Latest, i)
            /\ ConfigKey(SectionAt(Latest, i), Latest[i].name) = key
        BY <1>3, SaysIs
      <4>2. At(Latest, i) \in Done
        BY <1>2, <4>1 DEF Reads
      <4> QED BY <2>2, <4>1, <4>2 DEF At
    <3> QED BY <1>3, <2>2, <3>1, HoldsOn DEF Latest
  <2> QED BY <1>1, <2>1, <2>2 DEF Inv, Table
<1>6. Table'
  BY <1>1, <1>5 DEF Table, Top
<1>7. AnswersFromFiles'
  BY <1>1, AnswerKept DEF Inv
<1> QED BY <1>1, <1>6, <1>7 DEF Inv, Parsing, Copying

(* The getters change their answer alone. *)
LEMMA GetInv ==
  ASSUME Inv, NEW key \in Keys, GetString(key) \/ GetInt(key) \/ GetFloat(key)
  PROVE  Inv'
<1>1. /\ pc = "idle"
      /\ UNCHANGED <<pc, content, lineIndex, section, sectionMap, errors, toCopy, configValues,
                     history>>
  BY DEF GetString, GetInt, GetFloat, Answer
<1>2. Table' /\ Parsing' /\ Copying'
  BY <1>1 DEF Inv, Table, Parsing, Copying, Top, Latest, Done
<1>3. AnswersFromFiles'
  <2>1. Holds(configValues, history, Top, key) /\ history \in Seq(Content)
    BY <1>1 DEF Inv, Table
  <2>2. PICK getter \in {"string", "int", "float"} :
          /\ answer'.getter = getter /\ answer'.key = key
          /\ answer'.result = IF key \in DOMAIN configValues
                              THEN Converted(getter, configValues[key])
                              ELSE IF getter = "float" THEN "default_six_decimals" ELSE "default"
    <3>1. CASE GetString(key)
      BY <3>1 DEF GetString, Answer, Value, Converted
    <3>2. CASE GetInt(key)
      BY <3>2 DEF GetInt, Answer, Number, Value, Converted
    <3>3. CASE GetFloat(key)
      BY <3>3 DEF GetFloat, Answer, Number, Value, Converted
    <3> QED BY <3>1, <3>2, <3>3
  <2> QED BY <1>1, <2>1, <2>2, GetterAnswers
<1> QED BY <1>1, <1>2, <1>3 DEF Inv

-----------------------------------------------------------------------------
(* Inv holds in every reachable state. *)
THEOREM Invariance == Spec => []Inv
<1>1. Init => Inv
  BY InitInv
<1>2. Inv /\ [Next]_vars => Inv'
  <2> SUFFICES ASSUME Inv, [Next]_vars PROVE Inv'
    OBVIOUS
  <2>1. CASE UNCHANGED vars
    BY <2>1, AnswerKept DEF vars, Inv, Table, Parsing, Copying, Top, Latest, Done
  <2>2. CASE Next
    BY <2>2, ParseInv, ParseMissingInv, ReadLineInv, EndParseInv, CopyValueInv, EndCopyInv, GetInv
       DEF Next
  <2> QED BY <2>1, <2>2
<1> QED BY <1>1, <1>2, PTL DEF Spec

(* For every set of files, in whatever order the sections are copied: the    *)
(* getters answer what the last file to have the key says of it last.        *)
THEOREM AnswersAreTheFiles == Spec => []AnswersFromFiles
<1>1. Inv => AnswersFromFiles
  BY DEF Inv
<1> QED BY <1>1, Invariance, PTL

(* A line that parse() did not keep is blank, in the errors or replaced by a *)
(* later line of its section, in every file.                                 *)
THEOREM NoLineIsLost == Spec => []NothingLostSilently
<1>1. ASSUME Inv, pc = "copy", 0 \notin errors, NEW i \in DOMAIN content
      PROVE  \/ content[i].kind \in {"skip", "section"}
             \/ i \in errors
             \/ \E j \in i .. Len(content) :
                  /\ content[j].kind = "pair" /\ content[j].name = content[i].name
                  /\ SectionAt(content, j) = SectionAt(content, i)
                  /\ <<SectionAt(content, i), content[i].name>> \in DOMAIN sectionMap
                  /\ sectionMap[<<SectionAt(content, i), content[i].name>>] = content[j].value
  <2>1. /\ content = Latest /\ Reports(errors, content, Len(content))
        /\ Reads(sectionMap, content, Len(content))
    BY <1>1 DEF Inv, Copying
  <2>2. content \in Content
    BY <1>1, <2>1, LatestTyped
  <2>3. i \in 1 .. Len(content) /\ content[i].kind \in Kinds /\ Len(content) \in Nat
    BY <1>1, <2>2, LineTyped
  <2>4. CASE content[i].kind # "pair"
    BY <2>1, <2>3, <2>4 DEF Kinds, Reports
  <2>5. CASE content[i].kind = "pair"
    <3>1. At(content, i) \in DOMAIN sectionMap
      BY <2>1, <2>3, <2>5 DEF Reads, IsPair
    <3>2. PICK j \in 1 .. Len(content) :
            LastOf(content, Len(content), At(content, i), j)
              /\ sectionMap[At(content, i)] = content[j].value
      BY <2>1, <3>1 DEF Reads
    <3>3. IsPair(content, j) /\ At(content, j) = At(content, i) /\ i <= j
      BY <2>3, <2>5, <3>2 DEF LastOf, IsPair
    <3>4. SectionAt(content, j) = SectionAt(content, i) /\ content[j].name = content[i].name
      BY <3>3 DEF At
    <3>5. j \in i .. Len(content)
      BY <2>3, <3>3
    <3> QED BY <3>1, <3>2, <3>3, <3>4, <3>5 DEF At, IsPair
  <2> QED BY <2>4, <2>5
<1>2. Inv => NothingLostSilently
  BY <1>1 DEF NothingLostSilently
<1> QED BY <1>2, Invariance, PTL
=============================================================================
