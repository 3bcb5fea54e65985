----------------------------- MODULE MCProjects -----------------------------
(* Two places for projects: at one there is a project of a newer version,  *)
(* with a track, a clip without an id and fields that are not known here;  *)
(* at the other there is none yet.                                         *)
EXTENDS Projects

Newer ==
  [master |-> [NewMaster EXCEPT !.children =
     <<[EmptyTrack EXCEPT !.id = 2, !.record_armed = TRUE, !.input = "in",
          !.clips = <<[EmptyClip EXCEPT !.file = 3, !.from = 1,
                         !.start = 123456789]>>]>>],
   files |-> <<[id |-> 3, path |-> "a"]>>]

Unknown == Field("sends", Array(<<WriteInt(1), WriteInt(2)>>))
             \o <<Mark(",")>> \o Field("from the future",
                                     Object(<<Field("x", WriteInt(1))>>))
             \o <<Mark(",")>>

NewerText == LET text == Written(Newer)
             IN  <<Head(text)>> \o Unknown \o Tail(text)

MCOnDisk == "old" :> [text |-> NewerText, project |-> Newer] @@ "new" :> None
MCSettings == {[gain |-> 1234567], [name |-> Quote]}
QuietSettings == {[gain |-> 5], [name |-> Quote]}
MCTake == [start |-> 100012345, length |-> 5]
MCCuts == {0, 70}
=============================================================================
