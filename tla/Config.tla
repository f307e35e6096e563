-------------------------------- MODULE Config --------------------------------
(* config::load_config: an INI file is read line by line into sections, the  *)
(* sections are copied into one flat table in whatever order the hash maps   *)
(* give, a second file on top of the first; the getters read the table.      *)
EXTENDS Integers, Sequences, SequencesExt

CONSTANTS Contents,  \* the files load_config may be given: sequences of lines
          Ints,      \* the values std::stoi accepts
          Floats,    \* the values std::stof accepts
          Keys,      \* the keys the getters are asked for
          MaxLoads   \* bound: files loaded in a run

(* A line, trimmed, by what it is: "skip" (empty or a comment), "section",   *)
(* "unclosed" (a '[' without its ']'), "pair" or "invalid". A section's and  *)
(* a key's name is a sequence of the parts between its dots.                 *)
Kinds == {"skip", "section", "unclosed", "pair", "invalid"}

\* A file, line by line, as far as its first NUL: the stream is made from data().
Names   == Seq(STRING)
Content == Seq([kind : Kinds, name : Names, value : STRING])

ASSUME ConfigAssumption == MaxLoads \in Nat /\ \A c \in Contents : c \in Content

VARIABLES pc,            \* "idle", "parse" or "copy"
          content,       \* the file's lines
          lineIndex,     \* the line getline gives next
          section,       \* the section the next pair belongs to
          sectionMap,    \* m_sectionMap: <<section, key>> -> value
          errors,        \* m_errors: the lines it names
          toCopy,        \* what load_config's loops have not come to
          configValues,  \* g_configValues
          history,       \* history: the files loaded
          answer         \* the last getter, its key and its result

vars == <<pc, content, lineIndex, section, sectionMap, errors, toCopy, configValues, history,
          answer>>

None == [getter |-> "none", key |-> <<>>, result |-> "none"]

Init == /\ pc = "idle"
        /\ content = <<>> /\ lineIndex = 1 /\ section = <<>>
        /\ sectionMap = <<>> /\ errors = {}
        /\ toCopy = {} /\ configValues = <<>>
        /\ history = <<>> /\ answer = None

Put(map, key, value) == [k \in DOMAIN map \cup {key} |-> IF k = key THEN value ELSE map[k]]

-----------------------------------------------------------------------------
(* INIReader::parse *)

Parse(c) == /\ pc = "idle"
            /\ Len(history) < MaxLoads
            /\ pc' = "parse"
            /\ content' = c /\ lineIndex' = 1 /\ section' = <<>>
            /\ sectionMap' = <<>> /\ errors' = {}
            /\ history' = Append(history, c)
            /\ answer' = None
            /\ UNCHANGED <<toCopy, configValues>>

(* A file that cannot be read is an error and has no lines.                  *)
ParseMissing == /\ pc = "idle"
                /\ Len(history) < MaxLoads
                /\ pc' = "copy"
                /\ sectionMap' = <<>> /\ errors' = {0}
                /\ history' = Append(history, <<>>)
                /\ answer' = None
                /\ UNCHANGED <<content, lineIndex, section, toCopy, configValues>>

Line == content[lineIndex]

Reading(kind) == /\ pc = "parse"
                 /\ lineIndex <= Len(content)
                 /\ Line.kind = kind
                 /\ lineIndex' = lineIndex + 1
                 /\ UNCHANGED <<pc, content, toCopy, configValues, history, answer>>

SkipLine == Reading("skip") /\ UNCHANGED <<section, sectionMap, errors>>

ReadSection == Reading("section") /\ section' = Line.name /\ UNCHANGED <<sectionMap, errors>>

\* Mutant: a section line that is not closed leaves no error.
MutRejectSection_Silent == Reading("unclosed") /\ section' = <<>> /\ UNCHANGED <<sectionMap, errors>>

(* Pairs below a section line that is not closed stay in the section above.  *)
RejectSection == /\ Reading("unclosed")
                 /\ errors' = errors \cup {lineIndex}
                 /\ UNCHANGED <<section, sectionMap>>

ReadPair == /\ Reading("pair")
            /\ sectionMap' = Put(sectionMap, <<section, Line.name>>, Line.value)
            /\ UNCHANGED <<section, errors>>

RejectLine == /\ Reading("invalid")
              /\ errors' = errors \cup {lineIndex}
              /\ UNCHANGED <<section, sectionMap>>

-----------------------------------------------------------------------------
(* load_config and the getters *)

EndParse == /\ pc = "parse"
            /\ lineIndex > Len(content)
            /\ pc' = "copy"
            /\ toCopy' = DOMAIN sectionMap
            /\ UNCHANGED <<content, lineIndex, section, sectionMap, errors, configValues, history,
                           answer>>

\* Mutant: the section is left out of the key.
MutConfigKey_Bare(sectionName, key) == key

(* "section.key", or the key alone above the first section.                  *)
ConfigKey(sectionName, key) == sectionName \o key

CopyValue(sk) ==
  /\ pc = "copy"
  /\ sk \in toCopy
  /\ configValues' = Put(configValues, ConfigKey(sk[1], sk[2]), sectionMap[sk])
  /\ toCopy' = toCopy \ {sk}
  /\ UNCHANGED <<pc, content, lineIndex, section, sectionMap, errors, history, answer>>

(* The reader goes out of scope. *)
EndCopy == /\ pc = "copy" /\ toCopy = {}
           /\ pc' = "idle"
           /\ content' = <<>> /\ lineIndex' = 1 /\ section' = <<>>
           /\ sectionMap' = <<>> /\ errors' = {}
           /\ UNCHANGED <<toCopy, configValues, history, answer>>

Answer(getter, key, result) ==
  /\ pc = "idle"
  /\ answer' = [getter |-> getter, key |-> key, result |-> result]
  /\ UNCHANGED <<pc, content, lineIndex, section, sectionMap, errors, toCopy, configValues, history>>

Value(key, default) == IF key \in DOMAIN configValues THEN configValues[key] ELSE default

(* std::stoi and std::stof throw on what does not begin with a number, or is *)
(* too large a one.                                                          *)
Number(accepted, key, default) ==
  IF Value(key, default) \in accepted \/ key \notin DOMAIN configValues THEN Value(key, default)
                                                                        ELSE "threw"

GetString(key) == Answer("string", key, Value(key, "default"))

(* get_bool and get_int. The default goes through its text and back.         *)
GetInt(key) == Answer("int", key, Number(Ints, key, "default"))

(* std::to_string leaves a float's default six decimals.                     *)
GetFloat(key) == Answer("float", key, Number(Floats, key, "default_six_decimals"))

ReadLine == SkipLine \/ ReadSection \/ RejectSection \/ ReadPair \/ RejectLine
Next == \/ (\E c \in Contents : Parse(c)) \/ ParseMissing
        \/ ReadLine \/ EndParse \/ (\E sk \in toCopy : CopyValue(sk)) \/ EndCopy
        \/ \E key \in Keys : GetString(key) \/ GetInt(key) \/ GetFloat(key)

Spec == Init /\ [][Next]_vars

-----------------------------------------------------------------------------
(* What a file says of a key, read off its text: a pair belongs to the last  *)
(* section line that is closed and above it.                                 *)
SectionAt(c, i) ==
  LET above == {j \in 1 .. i - 1 : c[j].kind = "section"}
  IN IF above = {} THEN <<>> ELSE c[CHOOSE j \in above : \A k \in above : k <= j].name

Says(c, key) == {i \in DOMAIN c : c[i].kind = "pair" /\ SectionAt(c, i) \o c[i].name = key}

(* The lines whose value the key may have: the last of every section that    *)
(* spells it, since "a" with "b.c" and "a.b" with "c" are one key.           *)
Candidates(c, key) ==
  {i \in Says(c, key) : \A j \in Says(c, key) : SectionAt(c, j) = SectionAt(c, i) => j <= i}

(* What a getter makes of a text. *)
Converted(getter, text) == IF \/ getter = "string"
                              \/ getter = "int" /\ text \in Ints
                              \/ getter = "float" /\ text \in Floats
                           THEN text ELSE "threw"

(* A getter answers what the last file that has the key says in its last     *)
(* line for it, the default when no file has it, a float's to six decimals;  *)
(* a converting getter throws on what is not a number of its kind.           *)
AnswersFromFiles ==
  answer # None =>
    LET having == {n \in DOMAIN history : Says(history[n], answer.key) # {}} IN
    IF having = {}
    THEN answer.result = IF answer.getter = "float" THEN "default_six_decimals" ELSE "default"
    ELSE LET c == history[CHOOSE n \in having : \A m \in having : m <= n]
         IN \E i \in Candidates(c, answer.key) :
              answer.result = Converted(answer.getter, c[i].value)

(* No line is dropped without a word: whatever is not in the sections when   *)
(* the file has been read is blank, in error, or replaced further down.      *)
NothingLostSilently ==
  pc = "copy" /\ 0 \notin errors =>
    \A i \in DOMAIN content :
      \/ content[i].kind \in {"skip", "section"}
      \/ i \in errors
      \/ \E j \in i .. Len(content) :
           /\ content[j].kind = "pair" /\ content[j].name = content[i].name
           /\ SectionAt(content, j) = SectionAt(content, i)
           /\ <<SectionAt(content, i), content[i].name>> \in DOMAIN sectionMap
           /\ sectionMap[<<SectionAt(content, i), content[i].name>>] = content[j].value
=============================================================================
