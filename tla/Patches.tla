------------------------------- MODULE Patches -------------------------------
(***************************************************************************)
(* How CLS finds its places in the game's code and changes them: the       *)
(* signatures of pointers.cpp, parsed by pattern.cpp and looked for by     *)
(* range.cpp and pattern_batch.cpp, and the patches byte_patch_manager.cpp *)
(* makes there, which hooks switch off and on and the manager's destructor *)
(* undoes.                                                                 *)
(***************************************************************************)
EXTENDS Integers, Sequences, FiniteSetsExt

CONSTANTS
  Sigs,       \* the entries of the batch
  Size,       \* size of the module
  Digit,      \* hex digits that occur, as numbers
  Code,       \* the bytes the game's code is made of here
  Signature,  \* signatures: the bytes their authors mean, a byte or Wild
              \* each, and the text they write for them
  Patch       \* the patches in the order of init(): which signature, how far
              \* behind it, the bytes, whether init() applies it at once and
              \* whether hooks switch it

Wild     == -1
NotFound == -1
Byte     == {16 * c + d : c \in Digit, d \in Digit}
Address  == 0..Size - 1

\* A character of a text is a hex digit as its number, or one of these.
Space  == 16
Mark   == 17
Hex(c) == c < Space

\* The text names the bytes in their order: a question mark each, or two
\* digits and then a space; all else are spaces.
Spells(t, s) ==
  \E at \in [DOMAIN s -> DOMAIN t] :
    /\ \A j, k \in DOMAIN s : j < k => at[j] < at[k]
    /\ \A k \in DOMAIN s :
         IF s[k] = Wild THEN t[at[k]] = Mark
         ELSE /\ at[k] < Len(t) /\ Hex(t[at[k]]) /\ Hex(t[at[k] + 1])
              /\ s[k] = 16 * t[at[k]] + t[at[k] + 1]
              /\ at[k] + 1 < Len(t) => t[at[k] + 2] = Space
    /\ \A i \in DOMAIN t : t[i] # Space =>
         \E k \in DOMAIN s : i = at[k] \/ (s[k] # Wild /\ i = at[k] + 1)

ASSUME PatchesAssumption ==
  /\ Size \in Nat \ {0} /\ Digit \subseteq 0..15 /\ Code \subseteq Byte
  /\ \A s \in Signature :
       /\ s.bytes \in Seq(Byte \cup {Wild}) /\ Len(s.bytes) \in 1..Size
       /\ s.text \in Seq(Digit \cup {Space, Mark}) /\ Spells(s.text, s.bytes)
  /\ Patch \in Seq([sig : Sigs, add : Nat, bytes : Seq(0..255) \ {<< >>},
                    at_once : BOOLEAN, switched : BOOLEAN])

VARIABLES
  image,     \* history: the game's code as it was loaded
  memory,    \* the game's code
  sigs,      \* the signatures of this build
  pointers,  \* where they were found
  m_patches, \* the patches made, with the bytes that were there before
  pc         \* what CLS is at

vars == <<image, memory, sigs, pointers, m_patches, pc>>

-----------------------------------------------------------------------------
(* Signatures *)

\* pattern::pattern looks at every character with the one after it; the
\* second digit of a byte is followed by a space, and gives nothing.
Gives_OneDigit(t, i) == t[i] = Mark \/ (Hex(t[i]) /\ i < Len(t))
Gives(t, i) == t[i] = Mark \/ (Hex(t[i]) /\ i < Len(t) /\ Hex(t[i + 1]))
Piece(t, i) == IF t[i] = Mark THEN Wild ELSE 16 * t[i] + t[i + 1]

\* The k-th member of a set of numbers.
Nth(S, k) == CHOOSE i \in S : Cardinality({j \in S : j <= i}) = k

pattern(t) ==
  LET places == {i \in DOMAIN t : Gives(t, i)}
  IN [k \in 1..Cardinality(places) |-> Piece(t, Nth(places, k))]

pattern_matches(m, at, p) == \A i \in DOMAIN p : p[i] \in {Wild, m[at + i - 1]}

\* range::scan tries the offsets below size - length.
Offsets(p) == 0..Size - Len(p) - 1
scan(m, p) ==
  LET found == {a \in Offsets(p) : pattern_matches(m, a, p)}
  IN IF found = {} THEN NotFound ELSE Min(found)

-----------------------------------------------------------------------------
(* Patches *)

Site(p) == {p.at + i - 1 : i \in DOMAIN p.bytes}
Put(m, at, bytes) ==
  [a \in Address |-> IF a - at + 1 \in DOMAIN bytes THEN bytes[a - at + 1] ELSE m[a]]

apply(m, p)   == Put(m, p.at, p.bytes)
restore(m, p) == Put(m, p.at, p.original)

\* make saves what is in memory now.
Saved_Nothing(at, bytes) == bytes
Saved(at, bytes) == [i \in DOMAIN bytes |-> memory[at + i - 1]]

Init ==
  /\ image \in [Address -> Code] /\ memory = image
  /\ sigs \in [Sigs -> Signature]
  /\ pointers = [k \in Sigs |-> NotFound]
  /\ m_patches = << >> /\ pc = "injected"

\* pattern_batch::run throws if one of the signatures was not found, the
\* constructor of pointers if the game has no window yet.
FindPointers ==
  /\ pc = "injected"
  /\ pointers' = [k \in Sigs |-> scan(memory, pattern(sigs[k].text))]
  /\ pc' \in IF \A k \in Sigs : pointers'[k] # NotFound
              THEN {"patching", "no_window"} ELSE {"failed"}
  /\ UNCHANGED <<image, memory, sigs, m_patches>>

\* byte_patch::make and apply.  Signatures are chosen so that the bytes a
\* patch writes belong to the module.
MakePatch ==
  /\ pc = "patching" /\ Len(m_patches) < Len(Patch)
  /\ LET new == Patch[Len(m_patches) + 1]
         at  == pointers[new.sig] + new.add
         p   == [at |-> at, bytes |-> new.bytes, original |-> Saved(at, new.bytes)]
     IN /\ at + Len(new.bytes) <= Size
        /\ m_patches' = Append(m_patches, p)
        /\ memory' = IF new.at_once THEN apply(memory, p) ELSE memory
  /\ UNCHANGED <<image, sigs, pointers, pc>>

\* A hook applies or restores one of the two patches it has a pointer to.
Switch(i) ==
  /\ pc = "patching" /\ Len(m_patches) = Len(Patch) /\ Patch[i].switched
  /\ memory' \in {apply(memory, m_patches[i]), restore(memory, m_patches[i])}
  /\ UNCHANGED <<image, sigs, pointers, m_patches, pc>>

\* The vector destroys the patches in the order they were made, so that a
\* byte is in the end as the last patch that covers it found it.
Covering(a) == {i \in DOMAIN m_patches : a \in Site(m_patches[i])}
restore_all ==
  /\ pc = "patching" /\ Len(m_patches) = Len(Patch)
  /\ memory' = [a \in Address |->
                  IF Covering(a) = {} THEN memory[a]
                  ELSE restore(memory, m_patches[Max(Covering(a))])[a]]
  /\ m_patches' = << >>
  /\ pc' = "restored"
  /\ UNCHANGED <<image, sigs, pointers>>

Next == FindPointers \/ MakePatch \/ restore_all \/ \E i \in DOMAIN Patch : Switch(i)

Spec == Init /\ [][Next]_vars

-----------------------------------------------------------------------------
(* Properties *)

\* What a signature means, without a text and without a scan.
Means(s, a) == \A i \in DOMAIN s : s[i] = Wild \/ image[a + i - 1] = s[i]
Places(s)   == {a \in 0..Size - Len(s) : Means(s, a)}

(* What the pointers are set to is, for every signature, the first place    *)
(* of the game's code that has the bytes it names, however its text is cut  *)
(* into characters; CLS gives up only over a signature that is nowhere in   *)
(* the code, except perhaps in its last bytes, where the scan does not look *)
(* (pattern.cpp 36-59, range.cpp 49).                                       *)
PointersRight ==
  /\ pc \in {"patching", "no_window", "restored"} =>
       \A k \in Sigs : /\ pointers[k] \in Places(sigs[k].bytes)
                       /\ \A a \in Places(sigs[k].bytes) : pointers[k] <= a
  /\ pc = "failed" =>
       \E k \in Sigs :
         Places(sigs[k].bytes) \subseteq {Size - Len(sigs[k].bytes)}

(* However often hooks switched them, restore_all gives the game its code   *)
(* back; only where two patches overlap may a byte of the first one stay,   *)
(* since they are undone in the order they were made (byte_patch.cpp 39).   *)
CodeGivenBack ==
  [][restore_all =>
       \A a \in Address :
         (\A i, j \in DOMAIN m_patches :
            a \in Site(m_patches[i]) \cap Site(m_patches[j]) => i = j)
         => memory'[a] = image[a]]_vars
=============================================================================
