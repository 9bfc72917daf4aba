----------------------------- MODULE MCPatches -----------------------------
(* Patches for TLC: every code of five bytes of two kinds, every pair of    *)
(* signatures of one or two bytes, three patches.                           *)
EXTENDS Patches, SequencesExt

MCCode == {1, 16}

\* The text of a signature as pointers.cpp writes it: one space between two.
Text(s) ==
  FlattenSeq([i \in DOMAIN s |->
    (IF i = 1 THEN << >> ELSE <<Space>>) \o
    (IF s[i] = Wild THEN <<Mark>> ELSE <<s[i] \div 16, s[i] % 16>>)])
MCSignature == {[bytes |-> s, text |-> Text(s)] :
                  s \in UNION {[1..n -> MCCode \cup {Wild}] : n \in 1..2}}

P(s, add, bytes, at_once, switched) ==
  [sig |-> s, add |-> add, bytes |-> bytes, at_once |-> at_once,
   switched |-> switched]
MCPatch     == <<P(1, 0, <<0, 17>>, TRUE, FALSE), P(1, 2, <<17>>, TRUE, TRUE),
                 P(2, 0, <<0>>, FALSE, TRUE)>>
=============================================================================
