---------------------------- MODULE MCNativeHooks ----------------------------
(* NativeHooks for TLC: a native detoured for all scripts and, for one of  *)
(* them, once more; one detoured for that script alone; one the game has   *)
(* no handler for.                                                         *)
EXTENDS NativeHooks

CONSTANTS shop, other, balance, session, gone, ours, theirs

MCRegistered ==
  [s \in Script \cup {AllScripts} |->
     [n \in Native |->
        CASE s = AllScripts /\ n # session -> ours
          [] s = shop /\ n # gone          -> theirs
          [] OTHER                         -> NoDetour]]
=============================================================================
