---------------------------- MODULE MCLibraryOps ---------------------------
(***************************************************************************)
(* Instances of LibraryOps: two operations, two or three keys, two good    *)
(* contents, one whose tags cannot be parsed, one or two tag fields.       *)
(***************************************************************************)
EXTENDS LibraryOps, TLC

CONSTANTS t1, t2, cA, cB, cX, f1, f2

TwoTasks == {t1, t2}
OneTask == {t1}
OneContent == {cA}
Contents == {cA, cB, cX}
Unreadable == {cX}
None == {}
OnlyB == {cB}
OneField == {f1}
TwoFields == {f1, f2}
OneTrack == << <<1, cA>> >>
TwoTracks == << <<1, cA>>, <<2, cB>> >>
Keys == 1..KeyCount
KeyOne == {1}
Own == [k \in ObjKey |-> {k}]
\* The listing of a prefix that is a whole key shows nothing.
Nothing == [k \in ObjKey |-> {}]
\* Keys 1 and 2 differ in the case of their letters.
FoldedCase == [k \in ObjKey |-> IF k \in {1, 2} THEN {1, 2} ELSE {k}]

AllKinds == {"upload", "writeBack", "delete", "move", "updateTags"}
Edits == {"writeBack", "updateTags"}
Moves == {"move"}
Shrinking == {"writeBack", "delete", "updateTags"}
Replacing == {"upload", "delete"}
Overwriting == {"upload", "move"}
NoWriteBack == {"upload", "delete", "move"}
NoMove == {"upload", "writeBack", "delete", "updateTags"}

Symm == Permutations(Task) \cup Permutations(Field)
=============================================================================
