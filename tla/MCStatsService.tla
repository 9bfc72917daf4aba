--------------------------- MODULE MCStatsService ---------------------------
(* Instances of StatsService for TLC. *)
EXTENDS StatsService

CONSTANTS last, gun, car, ngpc, tag, ghost, empty, long, garbled, none

\* last and ngpc as in the game; gun belongs to character 1, car to character
\* 2; tag, a string, is marked 7, which the code reads as the default file.
MCRawChar == [s \in Stat |-> CASE s = gun  -> 1
                               [] s = ngpc -> 1
                               [] s = car  -> 2
                               [] s = tag  -> 7
                               [] OTHER    -> 0]

Only(h, v)  == [x \in Hash |-> IF x = h THEN v ELSE none]
Ok(entries) == Complete(entries)
Bad(entries, rest) == [state |-> "bad", entries |-> entries, rest |-> rest]

(* Files only the service writes, except one override. *)

\* 110 + 1 is the index of the overwrite file; -1 + 1 that of the default.
OwnValue    == {-1, 0, 1, 110}
OwnPlayable == [s \in Stat |-> CASE s = last -> OwnValue
                                 [] s = ngpc -> {0}
                                 [] OTHER    -> {0, 1}]
OwnFiles    == [f \in FileId |-> IF f = 111 THEN {Ok(Only(gun, 1)), Absent}
                                 ELSE {Absent}]

(* Files the user edits: a foreign hash, a long string, a stat in the file *)
(* of another character, files that stop parsing half way; and the file of *)
(* character 2 is read-only.                                               *)

EditValue    == {0, 1, 2}
EditPlayable == [s \in Stat |-> IF s = last THEN {0, 1} ELSE {1}]
EditFiles ==
  [f \in FileId |->
     CASE f = 0   -> {Ok(Only(ghost, 1)), Ok(Only(tag, long)),
                      Bad(Only(last, 1), {tag})}
       [] f = 1   -> {Ok(Only(gun, 2)), Bad(Only(tag, 2), {gun})}
       [] f = 2   -> {Bad(Only(gun, 1), {last})}
       [] f = 111 -> {Ok(Only(gun, 0)), Absent}]
=============================================================================
