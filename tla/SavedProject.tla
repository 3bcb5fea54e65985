----------------------------- MODULE SavedProject -----------------------------
(***************************************************************************)
(* The project file: how a project is written and read back (the           *)
(* write_to_file() and read_json() of src/Project.cpp, Track.cpp,          *)
(* Playlist.cpp, Clip.cpp and AudioFile.cpp over src/JSONParser.cpp and    *)
(* src/ProjectReader.cpp).  A file is the sequence of its tokens; a file   *)
(* that was cut short is a prefix of one.                                  *)
(*                                                                         *)
(* Gains and positions are counted in units, of which Unity are one.       *)
(***************************************************************************)
EXTENDS SequencesExt

CONSTANTS Unity, \* the gain of a new track
          Quote  \* a name with a quotation mark and a word after it

ASSUME FileAssumption == Unity \in Nat \ {0}

Token(kind, word, num) == [kind |-> kind, word |-> word, num |-> num]
Mark(c) == Token(c, "", 0)
Nothing == Mark("end")

EmptyTrack == [id |-> 0, name |-> "", gain |-> Unity, sends_to_parent |-> TRUE,
               record_armed |-> FALSE, monitor_input |-> TRUE, input |-> "",
               clips |-> << >>, children |-> << >>]
EmptyClip == [id |-> 0, file |-> 0, start |-> 0, length |-> 0, from |-> 0]

-----------------------------------------------------------------------------
(* Writing.                                                                *)

\* What operator<< makes of a double: six digits, and an exponent when it is
\* below a ten-thousandth or not below a million.  The exponent is a token of
\* its own to the reader, who does not expect a sign there; which numbers the
\* two are makes no difference to him.
RECURSIVE SixthDigit(_)
SixthDigit(x) == IF x < 1000000 THEN 1 ELSE 10 * SixthDigit(x \div 10)
SixDigits(x) == LET digit == SixthDigit(x)
                IN  ((x + digit \div 2) \div digit) * digit
HasExponent(x) == \/ 0 < x /\ x < Unity \div 10000
                  \/ SixDigits(x) \div Unity >= 1000000
WriteDouble(x) == IF HasExponent(x)
                  THEN <<Token("number", "", 1), Token("number", "", 1)>>
                  ELSE <<Token("number", "", SixDigits(x))>>

WriteInt(n) == <<Token("number", "", n)>>
WriteBool(b) == <<Token("word", IF b THEN "true" ELSE "false", 0)>>

\* Strings are not escaped: a quotation mark ends them.
WriteString(s) == IF s = Quote
                  THEN <<Token("string", "", 0), Token("word", "", 0),
                         Token("string", "", 0)>>
                  ELSE <<Token("string", s, 0)>>

Field(name, value) == <<Token("string", name, 0), Mark(":")>> \o value

Separated(parts) ==
  FlattenSeq([i \in DOMAIN parts |->
                IF i = 1 THEN parts[i] ELSE <<Mark(",")>> \o parts[i]])
Object(fields) == <<Mark("{")>> \o Separated(fields) \o <<Mark("}")>>
Array(elements) == <<Mark("[")>> \o Separated(elements) \o <<Mark("]")>>
When(condition, field) == IF condition THEN <<field>> ELSE << >>

\* Broken variant: a clip is saved from the beginning of its file.
WriteClipWhole(clip) ==
  Object(When(clip.id # 0, Field("id", WriteInt(clip.id)))
           \o <<Field("file", WriteInt(clip.file)),
                Field("start", WriteDouble(clip.start)),
                Field("length", WriteInt(clip.length))>>)
WriteClip(clip) ==
  Object(When(clip.id # 0, Field("id", WriteInt(clip.id)))
           \o <<Field("file", WriteInt(clip.file)),
                Field("start", WriteDouble(clip.start)),
                Field("file-start-frame", WriteInt(clip.from)),
                Field("length", WriteInt(clip.length))>>)

WritePlaylist(list) ==
  Object(When(list # << >>,
              Field("clips", Array([i \in DOMAIN list |-> WriteClip(list[i])]))))

RECURSIVE WriteTrack(_)
WriteTrack(track) ==
  Object(<<Field("id", WriteInt(track.id)),
           Field("name", WriteString(track.name)),
           Field("gain", WriteDouble(track.gain)),
           Field("sends_to_parent", WriteBool(track.sends_to_parent)),
           Field("record_armed", WriteBool(track.record_armed)),
           Field("monitor_input", WriteBool(track.monitor_input))>>
         \o When(track.input # "", Field("input", WriteString(track.input)))
         \o <<Field("playlist", WritePlaylist(track.clips))>>
         \o When(track.children # << >>,
                 Field("children", Array([i \in DOMAIN track.children |->
                                            WriteTrack(track.children[i])]))))

WriteFile(file) == <<Token("string", "", file.id), Mark(":")>>
                     \o Object(<<Field("path", WriteString(file.path))>>)

Written(project) ==
  LET files == project.files
  IN  Object(<<Field("master", WriteTrack(project.master)),
               Field("files", Object([i \in DOMAIN files |->
                                        WriteFile(files[i])]))>>)

-----------------------------------------------------------------------------
(* JSONParser.  A reader has the text that is left, the files it has made, *)
(* the value it read last, whether nothing has been thrown, and whether it *)
(* comes to an end.                                                        *)

Reader(text) == [ok |-> TRUE, ends |-> TRUE, text |-> text, files |-> << >>,
                 value |-> Nothing]

Peek(r) == IF r.text = << >> THEN Nothing ELSE Head(r.text)
Skip(r) == IF r.text = << >> THEN r ELSE [r EXCEPT !.text = Tail(@)]
Thrown(r) == [r EXCEPT !.ok = FALSE]
Endless(r) == [r EXCEPT !.ok = FALSE, !.ends = FALSE]
Valued(r, value) == [r EXCEPT !.value = value]

\* start_object() and start_array().
Expect(r, c) == IF r.ok /\ Peek(r).kind = c THEN Skip(r) ELSE Thrown(r)

\* A comma is skipped where there is one.
PastComma(r) == IF Peek(r).kind = "," THEN Skip(r) ELSE r

FieldName(r) == IF ~r.ok THEN r
                ELSE IF Peek(r).kind = "}" THEN Valued(Skip(r), Nothing)
                ELSE IF Peek(r).kind = "string"
                     THEN Valued(Expect(Skip(r), ":"), Peek(r))
                ELSE Thrown(r)

\* Broken variant: the end of the text ends the object.
NextFieldLenient(r) == IF r.ok /\ Peek(PastComma(r)) = Nothing
                       THEN Valued(r, Nothing) ELSE FieldName(PastComma(r))
\* next_field(): Nothing at the end of the object.
NextField(r) == FieldName(PastComma(r))
NoMoreFields(r) == ~r.ok \/ r.value = Nothing

\* array_is_done().
EndOfArray(r) == IF Peek(r).kind = "]" THEN Valued(Skip(r), TRUE)
                 ELSE Valued(r, FALSE)
ArrayIsDone(r) == EndOfArray(PastComma(r))

NextNumber(r) == IF Peek(r).kind = "number" THEN Valued(Skip(r), Peek(r).num)
                 ELSE Valued(Thrown(r), 0)
NextString(r) == IF Peek(r).kind = "string" THEN Valued(Skip(r), Peek(r).word)
                 ELSE Valued(Thrown(r), "")
NextBool(r) == IF Peek(r).word \in {"true", "false"}
               THEN Valued(Skip(r), Peek(r).word = "true")
               ELSE Valued(Thrown(r), FALSE)

\* ignore_value().  An array is taken to have an element: the end of an
\* empty one is ignored as if it were one.  Where the text is over the search
\* for the end of an array goes on for ever.
RECURSIVE IgnoreValue(_), IgnoreElements(_), IgnoreFields(_)
IgnoreValue(r) ==
  IF Peek(r).kind = "[" THEN IgnoreElements(ArrayIsDone(IgnoreValue(Skip(r))))
  ELSE IF Peek(r).kind = "{" THEN IgnoreFields(NextField(Skip(r)))
  ELSE Skip(r)
IgnoreElements(r) == IF ~r.ok \/ r.value THEN r
                     ELSE IF r.text = << >> THEN Endless(r)
                     ELSE IgnoreElements(ArrayIsDone(IgnoreValue(r)))
IgnoreFields(r) == IF NoMoreFields(r) THEN r
                   ELSE IgnoreFields(NextField(IgnoreValue(r)))

-----------------------------------------------------------------------------
(* Reading.                                                                *)

\* file_for_id(): the file, made when it is first spoken of.
WithFile(files, id) == IF \E i \in DOMAIN files : files[i].id = id THEN files
                       ELSE Append(files, [id |-> id, path |-> ""])

ClipField == "id" :> "id" @@ "file" :> "file" @@ "start" :> "start"
               @@ "length" :> "length" @@ "file-start-frame" :> "from"

RECURSIVE ReadClip(_, _), ReadClips(_, _), ReadPlaylist(_, _)
ReadClip(r, clip) ==
  LET f == NextField(r)
      name == f.value.word
      n == NextNumber(f)
  IN  IF NoMoreFields(f) THEN Valued(f, clip)
      ELSE IF name \notin DOMAIN ClipField THEN ReadClip(IgnoreValue(f), clip)
      ELSE ReadClip(IF name = "file"
                    THEN [n EXCEPT !.files = WithFile(@, n.value)] ELSE n,
                    [clip EXCEPT ![ClipField[name]] = n.value])

ReadClips(r, list) ==
  LET s == ArrayIsDone(r)
      More(c) == IF c.ok THEN ReadClips(c, Append(list, c.value))
                 ELSE Valued(c, list)
  IN  IF ~s.ok \/ s.value THEN Valued(s, list)
      ELSE More(ReadClip(Expect(s, "{"), EmptyClip))

ReadPlaylist(r, list) ==
  LET f == NextField(r)
      c == ReadClips(Expect(f, "["), list)
  IN  IF NoMoreFields(f) THEN Valued(f, list)
      ELSE IF f.value.word = "clips" THEN ReadPlaylist(c, c.value)
      ELSE ReadPlaylist(IgnoreValue(f), list)

RECURSIVE ReadTrack(_, _), ReadChildren(_, _)
ReadTrack(r, track) ==
  LET f == NextField(r)
      name == f.value.word
      v == CASE name \in {"id", "gain"} -> NextNumber(f)
             [] name \in {"name", "input"} -> NextString(f)
             [] name \in {"sends_to_parent", "record_armed", "monitor_input"} ->
                  NextBool(f)
             [] name = "playlist" ->
                  ReadPlaylist(Expect(f, "{"), track.clips)
             [] name = "children" ->
                  ReadChildren(Expect(f, "["), track.children)
             [] OTHER -> IgnoreValue(f) \* "sends", or something from the future
      field == IF name = "playlist" THEN "clips" ELSE name
  IN  IF NoMoreFields(f) THEN Valued(f, track)
      ELSE ReadTrack(v, IF field \in DOMAIN track
                        THEN [track EXCEPT ![field] = v.value] ELSE track)

ReadChildren(r, children) ==
  LET s == ArrayIsDone(r)
      More(t) == IF t.ok THEN ReadChildren(t, Append(children, t.value))
                 ELSE Valued(t, children)
  IN  IF ~s.ok \/ s.value THEN Valued(s, children)
      ELSE More(ReadTrack(Expect(s, "{"), EmptyTrack))

\* AudioFile::read_json(), into the file with the id.
RECURSIVE ReadFile(_, _), ReadFiles(_), ReadProject(_, _)
ReadFile(r, id) ==
  LET f == NextField(r)
      s == NextString(f)
      named == [i \in DOMAIN s.files |->
                  IF s.files[i].id = id
                  THEN [s.files[i] EXCEPT !.path = s.value] ELSE s.files[i]]
  IN  IF NoMoreFields(f) THEN f
      ELSE IF f.value.word = "path" THEN ReadFile([s EXCEPT !.files = named], id)
      ELSE ReadFile(IgnoreValue(f), id)

ReadFiles(r) ==
  LET f == NextField(r)
      id == f.value.num
      found == [f EXCEPT !.files = WithFile(@, id)]
  IN  IF NoMoreFields(f) THEN f
      ELSE IF id = 0 THEN Thrown(f)
      ELSE ReadFiles(ReadFile(Expect(found, "{"), id))

ReadProject(r, master) ==
  LET f == NextField(r)
      t == ReadTrack(Expect(f, "{"), master)
  IN  IF NoMoreFields(f) THEN Valued(f, master)
      ELSE IF f.value.word = "master" THEN ReadProject(t, t.value)
      ELSE IF f.value.word = "files"
           THEN ReadProject(ReadFiles(Expect(f, "{")), master)
      ELSE ReadProject(IgnoreValue(f), master)

\* The master of a project before anything is read.
NewMaster == [EmptyTrack EXCEPT !.id = 1, !.name = "Master"]

\* What DAW::open_project() makes of a file: ok, and the project if it is.
Made(r) == [ok |-> r.ok, ends |-> r.ends,
            project |-> IF r.ok THEN [master |-> r.value, files |-> r.files]
                        ELSE [master |-> NewMaster, files |-> << >>]]
ReadBack(text) == Made(ReadProject(Expect(Reader(text), "{"), NewMaster))

-----------------------------------------------------------------------------
(* The ids of a project.                                                   *)

RECURSIVE TracksUnder(_)
TracksUnder(track) ==
  {track} \cup UNION {TracksUnder(t) : t \in Range(track.children)}
ClipsUnder(track) == UNION {Range(t.clips) : t \in TracksUnder(track)}

IdsOf(project) == {t.id : t \in TracksUnder(project.master)}
                    \cup {c.id : c \in ClipsUnder(project.master)}
                    \cup {f.id : f \in Range(project.files)}

\* Broken variant: the ids of clips are forgotten.
MaxUsedIdOfTracks(project) ==
  Max({t.id : t \in TracksUnder(project.master)}
        \cup {f.id : f \in Range(project.files)})
\* Project::max_used_id(), with Track's and Playlist's.
MaxUsedId(project) == Max(IdsOf(project))
=============================================================================
