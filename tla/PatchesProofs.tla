--------------------------- MODULE PatchesProofs ---------------------------
(***************************************************************************)
(* A pointer is the first place its signature means, and restore_all gives *)
(* the game its code back, for every code, every signature however its     *)
(* text is spaced, and every list of patches.                              *)
(***************************************************************************)
EXTENDS Patches, FiniteSetTheorems, SequenceTheorems, TLAPS

-----------------------------------------------------------------------------
(* Sets of numbers *)

(* A set of natural numbers that is not empty has a least member.          *)
LEMMA LeastMember ==
  ASSUME NEW S \in SUBSET Nat, S # {}
  PROVE  Min(S) \in S /\ \A b \in S : Min(S) <= b
<1> DEFINE R == OpToRel(<, Nat)
<1>1. \E x \in S : \A y \in S : ~ (<<y, x>> \in R)
  BY NatLessThanWellFounded, WFMin
<1>2. \A x, y \in Nat : <<y, x>> \in R <=> y < x
  BY DEF OpToRel
<1>3. \E x \in S : \A y \in S : x <= y
  <2>1. PICK x \in S : \A y \in S : ~ (<<y, x>> \in R)
    BY <1>1
  <2>2. ASSUME NEW y \in S
        PROVE  x <= y
    <3>1. x \in Nat /\ y \in Nat
      OBVIOUS
    <3>2. ~ (y < x)
      BY <2>1, <1>2, <3>1
    <3> HIDE DEF R
    <3> QED
      BY <3>1, <3>2
  <2> QED
    BY <2>2
<1> QED
  BY <1>3 DEF Min

(* A bounded set of natural numbers that is not empty has a greatest one.  *)
LEMMA GreatestMember ==
  ASSUME NEW n \in Nat, NEW S \in SUBSET (1..n), S # {}
  PROVE  Max(S) \in S /\ \A b \in S : b <= Max(S)
<1> DEFINE T == {n - x : x \in S}
<1>0. ASSUME NEW x \in S
      PROVE  x \in Int /\ n - x \in Nat
  <2>1. x \in 1..n
    OBVIOUS
  <2> QED
    BY <2>1
<1>1. T \in SUBSET Nat /\ T # {}
  BY <1>0
<1>2. PICK d \in T : \A e \in T : d <= e
  BY <1>1, LeastMember
<1>3. PICK x \in S : d = n - x
  OBVIOUS
<1>4. \A y \in S : x >= y
  <2>1. \A y \in S : d <= n - y
    BY <1>2
  <2>2. x \in Int /\ \A y \in S : y \in Int
    BY <1>0
  <2> HIDE DEF T
  <2> QED
    BY <1>3, <2>1, <2>2
<1> QED
  BY <1>4 DEF Max

(* The k-th member of a set that is listed in ascending order is the k-th  *)
(* of the list, and the set has as many members as the list.               *)
LEMMA Ascending ==
  ASSUME NEW n \in Nat, NEW S \in SUBSET Nat, NEW at \in [1..n -> S],
         \A j, k \in 1..n : j < k => at[j] < at[k],
         \A i \in S : \E k \in 1..n : i = at[k]
  PROVE  /\ Cardinality(S) = n
         /\ \A k \in 1..n : Nth(S, k) = at[k]
<1>1. \A j, k \in 1..n : at[j] = at[k] => j = k
  <2> SUFFICES ASSUME NEW j \in 1..n, NEW k \in 1..n, at[j] = at[k]
               PROVE  j = k
    OBVIOUS
  <2>1. at[j] \in Nat /\ at[k] \in Nat
    OBVIOUS
  <2>2. ~(j < k) /\ ~(k < j)
    BY <2>1
  <2> QED
    BY <2>2
<1>2. Cardinality(S) = n
  <2>1. at \in Bijection(1..n, S)
    BY <1>1 DEF Bijection, Injection, Surjection, IsInjective
  <2> QED
    BY <2>1, FS_CountingElements DEF ExistsBijection
<1>3. ASSUME NEW k \in 1..n
      PROVE  Cardinality({j \in S : j <= at[k]}) = k
  <2> DEFINE T == {j \in S : j <= at[k]}
             f == [i \in 1..k |-> at[i]]
  <2>1. \A i \in 1..n : i <= k <=> at[i] <= at[k]
    <3> SUFFICES ASSUME NEW i \in 1..n
                 PROVE  i <= k <=> at[i] <= at[k]
      OBVIOUS
    <3>1. at[i] \in Nat /\ at[k] \in Nat
      OBVIOUS
    <3>2. i < k \/ i = k \/ k < i
      OBVIOUS
    <3> QED
      BY <3>1, <3>2
  <2>2. f \in [1..k -> T]
    BY <2>1
  <2>3. \A i \in T : \E j \in 1..k : f[j] = i
    BY <2>1
  <2>4. f \in Bijection(1..k, T)
    BY <2>2, <2>3, <1>1 DEF Bijection, Injection, Surjection, IsInjective
  <2> QED
    BY <2>4, FS_CountingElements DEF ExistsBijection
<1>4. ASSUME NEW k \in 1..n
      PROVE  Nth(S, k) = at[k]
  <2>1. at[k] \in S /\ Cardinality({j \in S : j <= at[k]}) = k
    BY <1>3
  <2>2. \A i \in S : Cardinality({j \in S : j <= i}) = k => i = at[k]
    BY <1>3
  <2> QED
    BY <2>1, <2>2 DEF Nth
<1> QED
  BY <1>2, <1>4

-----------------------------------------------------------------------------
(* Signatures *)

(* The text of a signature is parsed to the bytes its author means.        *)
LEMMA TextIsParsed ==
  ASSUME NEW s \in Signature
  PROVE  pattern(s.text) = s.bytes
<1> DEFINE t == s.text
           b == s.bytes
           n == Len(b)
           places == {i \in DOMAIN t : Gives(t, i)}
<1>1. /\ b \in Seq(Byte \cup {Wild}) /\ t \in Seq(Digit \cup {Space, Mark})
      /\ Spells(t, b) /\ n \in Nat /\ DOMAIN b = 1..n /\ DOMAIN t \subseteq Nat
  BY PatchesAssumption
<1>2. PICK at \in [DOMAIN b -> DOMAIN t] :
        /\ \A j, k \in DOMAIN b : j < k => at[j] < at[k]
        /\ \A k \in DOMAIN b :
             IF b[k] = Wild THEN t[at[k]] = Mark
             ELSE /\ at[k] < Len(t) /\ Hex(t[at[k]]) /\ Hex(t[at[k] + 1])
                  /\ b[k] = 16 * t[at[k]] + t[at[k] + 1]
                  /\ at[k] + 1 < Len(t) => t[at[k] + 2] = Space
        /\ \A i \in DOMAIN t : t[i] # Space =>
             \E k \in DOMAIN b : i = at[k] \/ (b[k] # Wild /\ i = at[k] + 1)
  BY <1>1 DEF Spells
<1> HIDE DEF t, b, n
<1>3. ASSUME NEW k \in DOMAIN b
      PROVE  at[k] \in places /\ Piece(t, at[k]) = b[k]
  <2>1. at[k] \in DOMAIN t
    BY <1>2
  <2>2. CASE b[k] = Wild
    BY <1>2, <2>1, <2>2 DEF Gives, Piece
  <2>3. CASE b[k] # Wild
    <3>1. t[at[k]] # Mark
      BY <1>2, <2>3 DEF Hex, Space, Mark
    <3> QED
      BY <1>2, <2>1, <2>3, <3>1 DEF Gives, Piece
  <2> QED
    BY <2>2, <2>3
<1>4. ASSUME NEW i \in places
      PROVE  \E k \in DOMAIN b : i = at[k]
  <2>1. i \in DOMAIN t /\ t[i] # Space /\ i \in Nat
    BY <1>1 DEF Gives, Hex, Mark, Space
  <2>2. PICK k \in DOMAIN b : i = at[k] \/ (b[k] # Wild /\ i = at[k] + 1)
    BY <1>2, <2>1
  <2>3. ASSUME b[k] # Wild, i = at[k] + 1
        PROVE  FALSE
    <3>1. t[i] # Mark /\ (i < Len(t) => t[i + 1] = Space)
      <4>1. at[k] \in Nat
        BY <1>1, <1>2
      <4>2. Hex(t[at[k] + 1]) /\ (at[k] + 1 < Len(t) => t[at[k] + 2] = Space)
        BY <1>2, <2>3
      <4>3. at[k] + 2 = i + 1
        BY <2>3, <4>1
      <4> QED
        BY <2>3, <4>2, <4>3 DEF Hex, Space, Mark
    <3> QED
      BY <3>1 DEF Gives, Hex, Space
  <2> QED
    BY <2>2, <2>3
<1>5. /\ Cardinality(places) = n
      /\ \A k \in 1..n : Nth(places, k) = at[k]
  <2>1. at \in [1..n -> places] /\ places \in SUBSET Nat
    BY <1>1, <1>2, <1>3
  <2>2. \A j, k \in 1..n : j < k => at[j] < at[k]
    BY <1>1, <1>2
  <2>3. \A i \in places : \E k \in 1..n : i = at[k]
    BY <1>1, <1>4
  <2> HIDE DEF places
  <2> QED
    BY <1>1, <2>1, <2>2, <2>3, Ascending
<1>6. pattern(t) = [k \in 1..n |-> Piece(t, at[k])]
  BY <1>5 DEF pattern
<1>7. pattern(t) = [k \in 1..n |-> b[k]]
  BY <1>1, <1>3, <1>6
<1>8. b = [k \in 1..n |-> b[k]]
  BY <1>1
<1> QED
  BY <1>7, <1>8 DEF t, b

(* A scan finds the first of the offsets it tries where the bytes fit, and *)
(* nothing only if they fit at none of them.                               *)
LEMMA ScanFindsFirst ==
  ASSUME NEW m, NEW p, Len(p) \in Nat
  PROVE  \/ /\ scan(m, p) \in Offsets(p) /\ pattern_matches(m, scan(m, p), p)
            /\ \A a \in Offsets(p) : pattern_matches(m, a, p) => scan(m, p) <= a
         \/ /\ scan(m, p) = NotFound
            /\ \A a \in Offsets(p) : ~pattern_matches(m, a, p)
<1> DEFINE found == {a \in Offsets(p) : pattern_matches(m, a, p)}
<1>1. CASE found = {}
  BY <1>1 DEF scan
<1>2. CASE found # {}
  <2>1. found \in SUBSET Nat
    BY PatchesAssumption DEF Offsets
  <2>2. Min(found) \in found /\ \A b \in found : Min(found) <= b
    BY <1>2, <2>1, LeastMember
  <2>3. scan(m, p) = Min(found)
    BY <1>2 DEF scan
  <2> QED
    BY <2>2, <2>3
<1> QED
  BY <1>1, <1>2

(* Where the bytes of a signature fit the code is a place it means.        *)
LEMMA MatchIsPlace ==
  ASSUME NEW b \in Seq(Byte \cup {Wild}), NEW a
  PROVE  pattern_matches(image, a, b) <=> Means(b, a)
  BY DEF pattern_matches, Means

-----------------------------------------------------------------------------
(* The invariant *)

Made == [at : Address, bytes : Seq(0..255) \ {<< >>}, original : Seq(0..255)]

TypeOK ==
  /\ image \in [Address -> Code] /\ memory \in [Address -> 0..255]
  /\ sigs \in [Sigs -> Signature]
  /\ pointers \in [Sigs -> Address \cup {NotFound}]
  /\ m_patches \in Seq(Made)
  /\ pc \in {"injected", "failed", "no_window", "patching", "restored"}

\* Nothing is patched before the pointers are found nor after restore_all.
Quiet ==
  /\ pc = "injected" => memory = image
  /\ pc # "patching" => m_patches = << >>

\* A patch lies in the module and remembers as many bytes as it writes.
Fits ==
  \A i \in DOMAIN m_patches :
    /\ m_patches[i].at + Len(m_patches[i].bytes) <= Size
    /\ Len(m_patches[i].original) = Len(m_patches[i].bytes)

\* What the game's code was is in memory where there is no patch, and with
\* the patch where there is one.
Remembered ==
  pc = "patching" =>
    \A a \in Address :
      /\ Covering(a) = {} => memory[a] = image[a]
      /\ \A i \in DOMAIN m_patches : Covering(a) = {i} =>
           m_patches[i].original[a - m_patches[i].at + 1] = image[a]

PatchesInv == TypeOK /\ PointersRight /\ Quiet /\ Fits /\ Remembered

-----------------------------------------------------------------------------
(* The steps *)

LEMMA Sizes ==
  /\ Size \in Nat /\ Size > 0 /\ Byte \subseteq 0..255 /\ Code \subseteq 0..255
  /\ Wild = -1 /\ NotFound = -1 /\ Address \subseteq Nat
  /\ \A s \in Signature : s.bytes \in Seq(Byte \cup {Wild})
                          /\ Len(s.bytes) \in Nat /\ Len(s.bytes) >= 1
<1>1. Byte \subseteq 0..255
  <2> SUFFICES ASSUME NEW x \in Byte PROVE x \in 0..255
    OBVIOUS
  <2>1. PICK c \in Digit, d \in Digit : x = 16 * c + d
    BY DEF Byte
  <2>2. c \in 0..15 /\ d \in 0..15
    BY PatchesAssumption
  <2> QED
    BY <2>1, <2>2
<1> QED
  BY <1>1, PatchesAssumption DEF Wild, NotFound, Address

(* What an entry of init() consists of.                                    *)
LEMMA Entries ==
  ASSUME NEW i \in DOMAIN Patch
  PROVE  /\ Patch[i].sig \in Sigs /\ Patch[i].add \in Nat
         /\ Patch[i].bytes \in Seq(0..255) /\ Patch[i].bytes # << >>
<1> DEFINE E == [sig : Sigs, add : Nat, bytes : Seq(0..255) \ {<< >>},
                 at_once : BOOLEAN, switched : BOOLEAN]
<1>1. Patch[i] \in E
  <2>1. Patch \in Seq(E)
    BY PatchesAssumption
  <2> HIDE DEF E
  <2> QED
    BY <2>1
<1> QED
  BY <1>1

(* A sequence of bytes holds bytes up to its length.                       *)
LEMMA BytesOf ==
  ASSUME NEW b \in Seq(0..255)
  PROVE  /\ Len(b) \in Nat /\ DOMAIN b = 1..Len(b)
         /\ \A i \in DOMAIN b : b[i] \in 0..255
  BY LenProperties, ElementOfSeq

(* A function on the numbers up to n is a sequence of length n.            *)
LEMMA IsBytes ==
  ASSUME NEW n \in Nat, NEW f \in [1..n -> 0..255]
  PROVE  f \in Seq(0..255) /\ Len(f) = n
<1>1. f \in Seq(0..255)
  BY SeqDef
<1>2. Len(f) \in Nat /\ DOMAIN f = 1..Len(f) /\ DOMAIN f = 1..n
  BY <1>1, LenProperties
<1> QED
  BY <1>1, <1>2

(* What a patch that was made consists of.                                 *)
LEMMA MadeFields ==
  ASSUME NEW p \in Made
  PROVE  /\ p.at \in Address /\ p.original \in Seq(0..255)
         /\ p.bytes \in Seq(0..255) /\ p.bytes # << >>
  BY DEF Made

(* Nothing is patched or found at the start.                               *)
LEMMA PatchesInit == Init => PatchesInv
<1> SUFFICES ASSUME Init PROVE PatchesInv
  OBVIOUS
<1>1. memory \in [Address -> 0..255]
  BY Sizes DEF Init
<1>2. TypeOK
  BY <1>1, EmptySeq DEF Init, TypeOK
<1>3. PointersRight /\ Quiet /\ Fits /\ Remembered
  BY DEF Init, PointersRight, Quiet, Fits, Remembered
<1> QED
  BY <1>2, <1>3 DEF PatchesInv

(* What the batch finds is right, since nothing is patched yet.            *)
LEMMA FindStep == PatchesInv /\ FindPointers => PatchesInv'
<1> SUFFICES ASSUME PatchesInv, FindPointers PROVE PatchesInv'
  OBVIOUS
<1> USE DEF PatchesInv
<1>1. memory = image /\ m_patches = << >>
  BY DEF Quiet, FindPointers
<1>2. \A k \in Sigs : sigs[k] \in Signature
  BY DEF TypeOK
<1>3. ASSUME NEW k \in Sigs
      PROVE  LET b == sigs[k].bytes IN
             /\ pointers'[k] = scan(image, b)
             /\ \/ /\ pointers'[k] \in Places(b)
                   /\ \A a \in Places(b) : pointers'[k] <= a
                \/ pointers'[k] = NotFound /\ Places(b) \subseteq {Size - Len(b)}
  <2> DEFINE b == sigs[k].bytes
             p == scan(image, b)
  <2>1. pointers'[k] = p
    BY <1>1, <1>2, TextIsParsed DEF FindPointers
  <2>2. b \in Seq(Byte \cup {Wild}) /\ Len(b) \in Nat /\ Len(b) >= 1
    BY <1>2, Sizes
  <2>3. \/ /\ p \in Offsets(b) /\ pattern_matches(image, p, b)
           /\ \A a \in Offsets(b) : pattern_matches(image, a, b) => p <= a
        \/ p = NotFound /\ \A a \in Offsets(b) : ~pattern_matches(image, a, b)
    BY <2>2, ScanFindsFirst
  <2>4. \A a : pattern_matches(image, a, b) <=> Means(b, a)
    BY <2>2, MatchIsPlace
  <2> HIDE DEF b, p
  <2>5. \A a \in Places(b) : a \in Nat /\ (a \in Offsets(b) \/ a = Size - Len(b))
    BY <2>2, Sizes DEF Places, Offsets
  <2>6. CASE p \in Offsets(b) /\ pattern_matches(image, p, b) /\
             \A a \in Offsets(b) : pattern_matches(image, a, b) => p <= a
    <3>1. p \in Places(b) /\ p <= Size - Len(b)
      BY <2>2, <2>4, <2>6, Sizes DEF Places, Offsets
    <3>2. \A a \in Places(b) : p <= a
      BY <2>4, <2>5, <2>6, <3>1 DEF Places
    <3> QED
      BY <2>1, <3>1, <3>2 DEF b, p
  <2>7. CASE p = NotFound /\ \A a \in Offsets(b) : ~pattern_matches(image, a, b)
    <3>1. Places(b) \subseteq {Size - Len(b)}
      BY <2>4, <2>5, <2>7 DEF Places
    <3> QED
      BY <2>1, <2>7, <3>1 DEF b, p
  <2> QED
    BY <2>3, <2>6, <2>7
<1>4. pointers' \in [Sigs -> Address \cup {NotFound}]
  <2>1. \A k \in Sigs : Places(sigs[k].bytes) \subseteq Address
    BY <1>2, Sizes DEF Places, Address
  <2>2. \A k \in Sigs : pointers'[k] \in Address \cup {NotFound}
    BY <1>3, <2>1
  <2>3. pointers' = [k \in Sigs |-> pointers'[k]]
    BY DEF FindPointers
  <2> QED
    BY <2>2, <2>3
<1>5. pc' \in {"patching", "no_window", "failed"}
  BY DEF FindPointers
<1>6. TypeOK'
  BY <1>4, <1>5 DEF TypeOK, FindPointers
<1>7. PointersRight'
  <2>0. \A b : Places(b)' = Places(b)
    BY DEF Places, Means, FindPointers
  <2>1. ASSUME pc' \in {"patching", "no_window"}, NEW k \in Sigs
        PROVE  /\ pointers'[k] \in Places(sigs[k].bytes)
               /\ \A a \in Places(sigs[k].bytes) : pointers'[k] <= a
    <3>1. pointers'[k] # NotFound
      BY <2>1 DEF FindPointers
    <3> QED
      BY <1>3, <2>1, <3>1
  <2>2. ASSUME pc' = "failed"
        PROVE  \E k \in Sigs : Places(sigs[k].bytes) \subseteq {Size - Len(sigs[k].bytes)}
    <3>1. PICK k \in Sigs : pointers'[k] = NotFound
      BY <2>2 DEF FindPointers
    <3>2. NotFound \notin Places(sigs[k].bytes)
      BY <1>2, Sizes DEF Places
    <3> QED
      BY <1>3, <3>1, <3>2
  <2>3. sigs' = sigs /\ pc' # "restored"
    BY <1>5 DEF FindPointers
  <2> QED
    BY <2>0, <2>1, <2>2, <2>3 DEF PointersRight
<1>8. Quiet' /\ Fits'
  BY <1>1, <1>5 DEF Quiet, Fits, FindPointers
<1>9. Remembered'
  BY <1>1 DEF Remembered, FindPointers, Covering
<1> QED
  BY <1>6, <1>7, <1>8, <1>9

(* A patch that is made remembers the game's code unless another was made  *)
(* there before.                                                           *)
LEMMA MakeStep == PatchesInv /\ MakePatch => PatchesInv'
<1> SUFFICES ASSUME PatchesInv, MakePatch PROVE PatchesInv'
  OBVIOUS
<1> USE DEF PatchesInv
<1> DEFINE n   == Len(m_patches)
           new == Patch[n + 1]
           at  == pointers[new.sig] + new.add
           p   == [at |-> at, bytes |-> new.bytes, original |-> Saved(at, new.bytes)]
<1>1. /\ n \in Nat /\ DOMAIN m_patches = 1..n
      /\ new.sig \in Sigs /\ new.add \in Nat
      /\ new.bytes \in Seq(0..255) /\ new.bytes # << >>
  <2>1. m_patches \in Seq(Made) /\ Len(Patch) \in Nat /\ DOMAIN Patch = 1..Len(Patch)
    BY PatchesAssumption DEF TypeOK
  <2>2. n + 1 \in DOMAIN Patch
    BY <2>1 DEF MakePatch
  <2> QED
    BY <2>1, <2>2, Entries
<1>2. /\ pc = "patching" /\ at + Len(new.bytes) <= Size
      /\ m_patches' = Append(m_patches, p)
      /\ memory' = IF new.at_once THEN apply(memory, p) ELSE memory
      /\ UNCHANGED <<image, sigs, pointers, pc>>
  BY DEF MakePatch
<1> HIDE DEF new
<1>3. /\ Len(new.bytes) \in Nat /\ Len(new.bytes) > 0
      /\ DOMAIN new.bytes = 1..Len(new.bytes)
  BY <1>1, EmptySeq
<1>4. at \in Address
  <2>1. pointers[new.sig] \in Nat /\ new.add \in Nat
    BY <1>1, <1>2, Sizes DEF PointersRight, Places
  <2> QED
    BY <1>2, <1>3, <2>1, Sizes DEF Address
<1>5. \A i \in DOMAIN new.bytes : at + i - 1 \in Address
  BY <1>2, <1>3, <1>4, Sizes DEF Address
<1>6. /\ Saved(at, new.bytes) \in Seq(0..255)
      /\ Len(Saved(at, new.bytes)) = Len(new.bytes)
      /\ \A i \in DOMAIN new.bytes : Saved(at, new.bytes)[i] = memory[at + i - 1]
  <2>1. \A i \in 1..Len(new.bytes) : memory[at + i - 1] \in 0..255
    BY <1>3, <1>5 DEF TypeOK
  <2>2. Saved(at, new.bytes) = [i \in 1..Len(new.bytes) |-> memory[at + i - 1]]
    BY <1>3 DEF Saved
  <2> HIDE DEF at
  <2> DEFINE was == Saved(at, new.bytes)
  <2>3. was \in [1..Len(new.bytes) -> 0..255]
    BY <2>1, <2>2
  <2>4. \A i \in DOMAIN new.bytes : was[i] = memory[at + i - 1]
    BY <1>3, <2>2
  <2> HIDE DEF was
  <2>5. was \in Seq(0..255) /\ Len(was) = Len(new.bytes)
    BY <1>3, <2>3, IsBytes
  <2> QED
    BY <2>4, <2>5 DEF was
<1>7. p \in Made /\ p.at = at /\ p.bytes = new.bytes /\ p.original = Saved(at, new.bytes)
  BY <1>1, <1>4, <1>6 DEF Made
<1> HIDE DEF p, at
<1>8. /\ DOMAIN m_patches' = 1..n + 1 /\ m_patches'[n + 1] = p
      /\ \A i \in 1..n : m_patches'[i] = m_patches[i]
      /\ m_patches' \in Seq(Made)
  BY <1>1, <1>2, <1>7, AppendProperties DEF TypeOK
<1>9. \A a \in Address : a \in Site(p) <=> a - at + 1 \in DOMAIN new.bytes
  <2>1. at \in Nat /\ \A a \in Address : a \in Nat
    BY <1>4, Sizes
  <2>2. Site(p) = {at + i - 1 : i \in 1..Len(new.bytes)}
    BY <1>3, <1>7 DEF Site
  <2> QED
    BY <1>3, <2>1, <2>2
<1>10. /\ memory' \in [Address -> 0..255]
       /\ \A a \in Address : a \notin Site(p) => memory'[a] = memory[a]
  <2>1. \A i \in DOMAIN new.bytes : new.bytes[i] \in 0..255
    BY <1>1, BytesOf
  <2>2. apply(memory, p) \in [Address -> 0..255]
    BY <1>7, <2>1 DEF apply, Put, TypeOK
  <2>3. \A a \in Address : a \notin Site(p) => apply(memory, p)[a] = memory[a]
    BY <1>7, <1>9 DEF apply, Put
  <2> QED
    BY <1>2, <2>2, <2>3 DEF TypeOK
<1>11. TypeOK'
  BY <1>2, <1>8, <1>10 DEF TypeOK
<1>12. PointersRight'
  BY <1>2 DEF PointersRight, Places, Means
<1>13. Quiet'
  BY <1>2 DEF Quiet
<1>14. Fits'
  BY <1>1, <1>2, <1>6, <1>7, <1>8 DEF Fits
<1>15. \A a \in Address :
         Covering(a)' = IF a \in Site(p) THEN Covering(a) \cup {n + 1} ELSE Covering(a)
  BY <1>1, <1>8 DEF Covering
<1>16. Remembered'
  <2> SUFFICES ASSUME NEW a \in Address
               PROVE  /\ Covering(a)' = {} => memory'[a] = image[a]
                      /\ \A i \in DOMAIN m_patches' : Covering(a)' = {i} =>
                           m_patches'[i].original[a - m_patches'[i].at + 1] = image[a]
    BY <1>2 DEF Remembered
  <2>1. n + 1 \notin Covering(a)
    BY <1>1 DEF Covering
  <2>2. CASE a \in Site(p)
    <3>1. n + 1 \in Covering(a)'
      BY <1>15, <2>2
    <3>2. ASSUME Covering(a)' = {n + 1}
          PROVE  p.original[a - p.at + 1] = image[a]
      <4>1. Covering(a) = {}
        BY <1>15, <2>1, <2>2, <3>2
      <4>2. memory[a] = image[a]
        BY <1>2, <4>1 DEF Remembered
      <4>3. a - at + 1 \in DOMAIN new.bytes /\ at + (a - at + 1) - 1 = a
        BY <1>4, <1>9, <2>2, Sizes
      <4> QED
        BY <1>6, <1>7, <4>2, <4>3
    <3> QED
      BY <1>8, <3>1, <3>2
  <2>3. CASE a \notin Site(p)
    <3>1. Covering(a)' = Covering(a)
      BY <1>15, <2>3
    <3>2. Covering(a) \subseteq 1..n
      BY <1>1 DEF Covering
    <3> QED
      BY <1>1, <1>2, <1>8, <1>10, <2>3, <3>1, <3>2 DEF Remembered
  <2> QED
    BY <2>2, <2>3
<1> QED
  BY <1>11, <1>12, <1>13, <1>14, <1>16

(* Hooks change bytes only where a patch is.                               *)
LEMMA SwitchStep ==
  ASSUME PatchesInv, NEW i \in DOMAIN Patch, Switch(i)
  PROVE  PatchesInv'
<1> USE DEF PatchesInv
<1> DEFINE p == m_patches[i]
<1>1. /\ pc = "patching" /\ memory' \in {apply(memory, p), restore(memory, p)}
      /\ UNCHANGED <<image, sigs, pointers, m_patches, pc>>
  BY DEF Switch
<1>2. i \in DOMAIN m_patches
  BY PatchesAssumption DEF Switch, TypeOK
<1>3. /\ p \in Made /\ DOMAIN p.bytes = DOMAIN p.original
      /\ p.bytes \in Seq(0..255) /\ p.original \in Seq(0..255) /\ p.at \in Address
  <2>1. p \in Made
    BY <1>2 DEF TypeOK
  <2>2. Len(p.original) = Len(p.bytes)
    BY <1>2 DEF Fits
  <2> QED
    BY <2>1, <2>2, MadeFields, BytesOf
<1> HIDE DEF p
<1>4. \A a \in Address : a \in Site(p) <=> a - p.at + 1 \in DOMAIN p.bytes
  <2>1. p.at \in Nat /\ \A a \in Address : a \in Nat
    BY <1>3, Sizes
  <2>2. Len(p.bytes) \in Nat /\ DOMAIN p.bytes = 1..Len(p.bytes)
    BY <1>3, BytesOf
  <2>3. Site(p) = {p.at + k - 1 : k \in 1..Len(p.bytes)}
    BY <2>2 DEF Site
  <2> QED
    BY <2>1, <2>2, <2>3
<1>5. /\ memory' \in [Address -> 0..255]
      /\ \A a \in Address : a \notin Site(p) => memory'[a] = memory[a]
  <2>1. /\ \A k \in DOMAIN p.bytes : p.bytes[k] \in 0..255
        /\ \A k \in DOMAIN p.original : p.original[k] \in 0..255
    BY <1>3, BytesOf
  <2>2. /\ apply(memory, p) \in [Address -> 0..255]
        /\ \A a \in Address : a \notin Site(p) => apply(memory, p)[a] = memory[a]
    BY <1>4, <2>1 DEF apply, Put, TypeOK
  <2>3. /\ restore(memory, p) \in [Address -> 0..255]
        /\ \A a \in Address : a \notin Site(p) => restore(memory, p)[a] = memory[a]
    BY <1>3, <1>4, <2>1 DEF restore, Put, TypeOK
  <2> QED
    BY <1>1, <2>2, <2>3
<1>6. Remembered'
  <2>1. \A a \in Address : Covering(a)' = Covering(a)
    BY <1>1 DEF Covering
  <2>2. \A a \in Address : Covering(a) = {} => a \notin Site(p)
    BY <1>2 DEF Covering, p
  <2> QED
    BY <1>1, <1>5, <2>1, <2>2 DEF Remembered
<1>7. TypeOK'
  BY <1>1, <1>5 DEF TypeOK
<1> QED
  BY <1>1, <1>6, <1>7 DEF PointersRight, Places, Means, Quiet, Fits

(* What restore_all leaves in memory.                                      *)
LEMMA RestoreGives ==
  ASSUME PatchesInv, restore_all
  PROVE  /\ PatchesInv'
         /\ \A a \in Address :
              (\A i, j \in DOMAIN m_patches :
                 a \in Site(m_patches[i]) \cap Site(m_patches[j]) => i = j)
              => memory'[a] = image[a]
<1> USE DEF PatchesInv
<1> DEFINE Restored(a) ==
             IF Covering(a) = {} THEN memory[a]
             ELSE restore(memory, m_patches[Max(Covering(a))])[a]
<1>1. /\ pc = "patching" /\ memory' = [a \in Address |-> Restored(a)]
      /\ m_patches' = << >> /\ pc' = "restored"
      /\ UNCHANGED <<image, sigs, pointers>>
  BY DEF restore_all
<1>2. ASSUME NEW a \in Address, Covering(a) # {}
      PROVE  Max(Covering(a)) \in Covering(a)
  <2>1. Covering(a) \in SUBSET (1..Len(m_patches)) /\ Len(m_patches) \in Nat
    BY DEF Covering, TypeOK
  <2> QED
    BY <1>2, <2>1, GreatestMember
<1>3. ASSUME NEW a \in Address, NEW i \in Covering(a)
      PROVE  /\ i \in DOMAIN m_patches
             /\ restore(memory, m_patches[i])[a]
                  = m_patches[i].original[a - m_patches[i].at + 1]
             /\ restore(memory, m_patches[i])[a] \in 0..255
  <2> DEFINE p == m_patches[i]
  <2>1. i \in DOMAIN m_patches /\ a \in Site(p)
    BY <1>3 DEF Covering
  <2>2. p \in Made /\ Len(p.original) = Len(p.bytes)
    BY <2>1 DEF TypeOK, Fits
  <2> HIDE DEF p
  <2>3. /\ p.at \in Nat /\ p.original \in Seq(0..255)
        /\ DOMAIN p.bytes = 1..Len(p.bytes) /\ DOMAIN p.original = DOMAIN p.bytes
        /\ Len(p.bytes) \in Nat /\ \A k \in DOMAIN p.original : p.original[k] \in 0..255
    BY <2>2, MadeFields, BytesOf, Sizes
  <2>4. a - p.at + 1 \in DOMAIN p.original
    BY <2>1, <2>3 DEF Site
  <2> QED
    BY <2>1, <2>3, <2>4 DEF restore, Put, p
<1>4. memory' \in [Address -> 0..255]
  <2>1. \A a \in Address : Restored(a) \in 0..255
    BY <1>2, <1>3 DEF TypeOK
  <2> HIDE DEF Restored
  <2> QED
    BY <1>1, <2>1
<1>5. TypeOK'
  BY <1>1, <1>4, EmptySeq DEF TypeOK
<1>6. PatchesInv'
  BY <1>1, <1>5, EmptySeq DEF PointersRight, Places, Means, Quiet, Fits, Remembered
<1>7. ASSUME NEW a \in Address,
             \A i, j \in DOMAIN m_patches :
               a \in Site(m_patches[i]) \cap Site(m_patches[j]) => i = j
      PROVE  memory'[a] = image[a]
  <2>1. CASE Covering(a) = {}
    BY <1>1, <2>1 DEF Remembered
  <2>2. CASE Covering(a) # {}
    <3> DEFINE top == Max(Covering(a))
    <3>1. top \in Covering(a)
      BY <1>2, <2>2
    <3>2. Covering(a) = {top}
      BY <1>7, <3>1 DEF Covering
    <3>3. top \in DOMAIN m_patches
      BY <3>1 DEF Covering
    <3> HIDE DEF top
    <3>4. restore(memory, m_patches[top])[a] = image[a]
      BY <1>1, <1>3, <3>1, <3>2, <3>3 DEF Remembered
    <3> QED
      BY <1>1, <2>2, <3>4 DEF top
  <2> QED
    BY <2>1, <2>2
<1> QED
  BY <1>6, <1>7

(* Every step keeps the invariant.                                         *)
LEMMA PatchesStep == PatchesInv /\ [Next]_vars => PatchesInv'
<1> SUFFICES ASSUME PatchesInv, [Next]_vars PROVE PatchesInv'
  OBVIOUS
<1>1. CASE UNCHANGED vars
  BY <1>1 DEF vars, PatchesInv, TypeOK, PointersRight, Places, Means, Quiet, Fits,
              Remembered, Covering
<1> QED
  BY <1>1, FindStep, MakeStep, SwitchStep, RestoreGives DEF Next

-----------------------------------------------------------------------------
(* The theorems *)

(* The invariant holds in every state of every behaviour.                  *)
THEOREM Invariance == Spec => []PatchesInv
  BY PatchesInit, PatchesStep, PTL DEF Spec

(* The variables keep their types: in particular memory stays a memory of  *)
(* bytes and every patch lies in the module.                               *)
THEOREM TypeCorrect == Spec => []TypeOK
<1>1. PatchesInv => TypeOK
  BY DEF PatchesInv
<1> QED
  BY <1>1, Invariance, PTL

(* Every pointer is the first place of the code that has the bytes its     *)
(* signature names, for every code and every text (pattern.cpp 36-59,      *)
(* range.cpp 45-58).                                                       *)
THEOREM PointersAreRight == Spec => []PointersRight
<1>1. PatchesInv => PointersRight
  BY DEF PatchesInv
<1> QED
  BY <1>1, Invariance, PTL

(* restore_all gives the game its code back where patches do not overlap,  *)
(* however often hooks switched them (byte_patch.cpp 37-40).               *)
THEOREM CodeIsGivenBack == Spec => CodeGivenBack
<1>1. PatchesInv /\ [Next]_vars =>
        [restore_all =>
           \A a \in Address :
             (\A i, j \in DOMAIN m_patches :
                a \in Site(m_patches[i]) \cap Site(m_patches[j]) => i = j)
             => memory'[a] = image[a]]_vars
  BY RestoreGives
<1> QED
  BY <1>1, Invariance, PTL DEF Spec, CodeGivenBack
=============================================================================
