------------------------ MODULE VirtualCurrencyProofs ------------------------
(***************************************************************************)
(* No account is ever overdrawn, for any stats, wallets, amounts, payments *)
(* and files, as long as the game and the user start from none that is,    *)
(* and a save that completed keeps the money of the current character.     *)
(***************************************************************************)
EXTENDS VirtualCurrency, StatsServiceProofs

\* A transfer stays within the values of a stat only because no account is
\* overdrawn, so the two are one invariant.
BankInv == ServiceInv /\ NeverOverdrawn

\* All that a call and a payment leave alone.
Others == <<stat_maps, file, pc, index, named, unmodified, registered, loaded,
            fault, before>>

-----------------------------------------------------------------------------
(* An account is a stat with a number for a value.                         *)
LEMMA AccountIsStat ==
  ASSUME NEW a \in Accounts
  PROVE  /\ a \in Stat \ Strings /\ a \in Hash
         /\ a # LastChar /\ a \notin Ngpc
  BY CurrencyAssumption DEF Hash

(* What the files and the maps hold for an account, a load gives it.       *)
LEMMA LoadsNoOverdraft ==
  ASSUME NEW fs \in [FileId -> File], NEW m \in Entries, NEW a \in Accounts,
         m[a] # NoEntry => m[a] >= 0,
         \A f \in FileId : fs[f].entries[a] # NoEntry => fs[f].entries[a] >= 0
  PROVE  MapsAfterLoad(fs, m)[a] # NoEntry => MapsAfterLoad(fs, m)[a] >= 0
<1>1. a \in Hash
  BY AccountIsStat
<1>2. \A f \in {0, 1, 2, SAVE_OVERWRITE_INDEX} :
        fs[f].entries[a] # NoEntry => fs[f].entries[a] >= 0
  BY DEF FileId, SaveIndex
<1> QED
  BY <1>1, <1>2 DEF MapsAfterLoad, load_stat_map_from_json

(* The balances of two accounts are numbers.                               *)
LEMMA BalancesAreNumbers ==
  ASSUME TypeOK, NEW a \in Accounts
  PROVE  live[a] \in Int
  BY AccountIsStat, StatsAssumption DEF TypeOK

(* A call or a payment that leaves all balances where they may be leaves   *)
(* the invariant.                                                          *)
LEMMA LiveInv ==
  ASSUME BankInv, NEW a \in Accounts, NEW b \in Accounts,
         NEW x \in 0..MaxMoney, NEW y \in 0..MaxMoney,
         live' = [live EXCEPT ![a] = x, ![b] = y],
         UNCHANGED Others
  PROVE  BankInv'
<1>1. x \in Value /\ y \in Value /\ x >= 0 /\ y >= 0
  BY CurrencyAssumption
<1>2. a \in Stat /\ b \in Stat
  BY AccountIsStat
<1>3. \A s \in Stat : live'[s] \in {live[s], x, y}
  BY <1>2 DEF BankInv, ServiceInv, TypeOK
<1>4. /\ live' \in [Stat -> Value \cup {Long}]
      /\ \A s \in Stat \ Strings : live'[s] \in Value
  BY <1>1, <1>2, <1>3 DEF BankInv, ServiceInv, TypeOK
<1>5. TypeOK'
  BY <1>4 DEF Others, BankInv, ServiceInv, TypeOK
<1>6. OffInv' /\ ReadInv' /\ TouchedInv' /\ DefaultSettled'
  BY DEF Others, BankInv, ServiceInv, OffInv, ReadInv, TouchedInv,
     DefaultSettled, Seen, Saving, Opens, Held, get_char_index_from_stat
<1>7. NeverOverdrawn'
  BY <1>1, <1>3, AccountIsStat DEF Others, BankInv, NeverOverdrawn
<1> QED BY <1>5, <1>6, <1>7 DEF BankInv, ServiceInv

(* A transfer that is not refused moves what is there.                     *)
LEMMA CallInv ==
  ASSUME BankInv, NEW from \in Accounts, NEW to \in Accounts, from # to,
         NEW amount \in Amounts, live[from] + live[to] <= MaxMoney,
         Call(from, to, amount)
  PROVE  BankInv'
<1>1. live[from] \in Int /\ live[to] \in Int /\ amount \in Int
  BY BalancesAreNumbers, CurrencyAssumption DEF BankInv, ServiceInv
<1>2. live[from] >= 0 /\ live[to] >= 0 /\ MaxMoney \in Nat
  BY CurrencyAssumption DEF BankInv, NeverOverdrawn
<1>3. CASE Refused(from, amount)
  <2>1. UNCHANGED vars
    BY <1>3 DEF Call, vars
  <2> QED
    BY <2>1 DEF BankInv, ServiceInv, TypeOK, OffInv, ReadInv, TouchedInv,
       DefaultSettled, NeverOverdrawn, vars, Seen, Saving, Opens, Held,
       get_char_index_from_stat
<1>4. CASE ~Refused(from, amount)
  <2>1. live[from] - amount \in 0..MaxMoney /\ live[to] + amount \in 0..MaxMoney
    BY <1>1, <1>2, <1>4 DEF Refused
  <2>2. live \in [Stat -> Value \cup {Long}] /\ from \in Stat /\ to \in Stat
    BY AccountIsStat DEF BankInv, ServiceInv, TypeOK
  <2>3. live' = [live EXCEPT ![from] = live[from] - amount,
                             ![to] = live[to] + amount]
    BY <1>4, <2>2 DEF Call, Transfer
  <2>4. UNCHANGED Others
    BY DEF Call, Others
  <2> QED
    BY <2>1, <2>3, <2>4, LiveInv
<1> QED BY <1>3, <1>4

(* However the process ends, it ends with no account overdrawn.            *)
LEMMA DownSolvent ==
  ASSUME BankInv, NEW why, Down(why)
  PROVE  NeverOverdrawn'
<1>1. \A a \in Accounts : live'[a] = 0 /\ stat_maps'[a] = NoEntry
  BY AccountIsStat DEF Down, Ends, Nothing
<1> QED
  BY <1>1 DEF Down, Ends, BankInv, NeverOverdrawn

(* A file that was opened holds no account.                                *)
LEMMA TornIsHome ==
  ASSUME NEW a \in Accounts
  PROVE  Torn.entries[a] = NoEntry
BY AccountIsStat DEF Torn, Nothing

(* A file written from maps without a debt has none.                       *)
LEMMA WriteSolvent ==
  ASSUME TypeOK, NeverOverdrawn, NEW c,
         \E e \in save_stat_map_to_json(c, stat_maps) : file' = Written(c, e),
         UNCHANGED <<live, stat_maps>>
  PROVE  NeverOverdrawn'
<1>1. PICK e \in save_stat_map_to_json(c, stat_maps) : file' = Written(c, e)
  OBVIOUS
<1>2. e \in Entries /\ \A a \in Accounts : e[a] \in {stat_maps[a], NoEntry}
  BY SavedText, AccountIsStat DEF TypeOK
<1>3. \A f \in FileId : file'[f] = file[f] \/ file'[f] = Complete(e)
  BY <1>1, <1>2, OneFileWritten DEF TypeOK
<1>4. Complete(e).entries = e
  BY DEF Complete
<1> QED
  BY <1>2, <1>3, <1>4 DEF NeverOverdrawn

(* No step of the save service overdraws an account.                       *)
LEMMA ServiceSolvent == BankInv /\ [Next]_vars => NeverOverdrawn'
<1> SUFFICES ASSUME BankInv, [Next]_vars PROVE NeverOverdrawn'
  OBVIOUS
<1>0. TypeOK /\ NeverOverdrawn
  BY DEF BankInv, ServiceInv
<1>1. ASSUME NEW f \in FileId, NEW c \in UserFiles[f], UserEdit(f, c)
      PROVE  NeverOverdrawn'
  <2>1. \A a \in Accounts : c.entries[a] # NoEntry => c.entries[a] >= 0
    BY BalancesAssumption
  <2>2. \A g \in FileId : file'[g] \in {file[g], c}
    BY <1>0, <1>1 DEF UserEdit, TypeOK
  <2>3. UNCHANGED <<live, stat_maps>>
    BY <1>1 DEF UserEdit
  <2> QED
    BY <1>0, <2>1, <2>2, <2>3 DEF NeverOverdrawn, FileId
<1>2. ASSUME NEW n \in Readable, NEW u \in BOOLEAN, NEW missed \in SUBSET Early,
             Start(n, u, missed)
      PROVE  NeverOverdrawn'
  BY <1>0, <1>2 DEF Start, NeverOverdrawn
<1>3. ASSUME NEW s \in Stat, NEW v \in Playable[s], Play(s, v)
      PROVE  NeverOverdrawn'
  <2>1. s \in Accounts => v >= 0
    BY BalancesAssumption
  <2>2. \A a \in Accounts : live'[a] = IF a = s THEN v ELSE live[a]
    BY <1>0, <1>3, AccountIsStat DEF Play, TypeOK
  <2> QED
    BY <1>0, <1>3, <2>1, <2>2 DEF Play, NeverOverdrawn
<1>4. CASE LoadStats
  <2>1. \A a \in Accounts : stat_maps'[a] # NoEntry => stat_maps'[a] >= 0
    <3> SUFFICES ASSUME NEW a \in Accounts
                 PROVE  stat_maps'[a] # NoEntry => stat_maps'[a] >= 0
      OBVIOUS
    <3>1. \A f \in FileId : file[f].entries[a] # NoEntry => file[f].entries[a] >= 0
      BY <1>0 DEF NeverOverdrawn, FileId
    <3> QED
      BY <1>0, <1>4, <3>1, LoadsNoOverdraft DEF LoadStats, NeverOverdrawn, TypeOK
  <2>2. stat_maps' \in Entries
    BY <1>0, <1>4, LoadFiles DEF LoadStats, TypeOK
  <2>3. \A a \in Accounts : stat_maps'[a] \notin {Long, Garbled}
    BY <2>2, AccountIsStat, StatsAssumption DEF Entries
  <2>4. \A a \in Accounts : live'[a] >= 0
    BY <1>0, <1>4, <2>1, <2>3, AccountIsStat
       DEF LoadStats, LiveAfterLoad, NeverOverdrawn
  <2> QED
    BY <1>0, <1>4, <2>1, <2>4 DEF LoadStats, NeverOverdrawn
<1>5. CASE SaveStats
  <2>1. CASE NullStats(stat_maps) # {}
    BY <1>5, <2>1, DownSolvent DEF SaveStats
  <2>2. CASE NullStats(stat_maps) = {}
    <3>1. \A a \in Accounts : stat_maps'[a] \in {live[a], stat_maps[a]}
      BY <1>5, <2>2, AccountIsStat DEF SaveStats, BeginSave
    <3>2. file' = Truncated(0) /\ UNCHANGED live
      BY <1>5, <2>2 DEF SaveStats, BeginSave
    <3>3. \A f \in FileId : file'[f] = file[f] \/ file'[f] = Torn
      BY <1>0, <3>2, EmptyFiles, OneFileWritten DEF TypeOK
    <3> QED
      BY <1>0, <3>1, <3>2, <3>3, TornIsHome DEF NeverOverdrawn
  <2> QED BY <2>1, <2>2
<1>6. CASE WriteDefault
  <2>1. CASE ~Dumps(0, stat_maps)
    BY <1>6, <2>1, DownSolvent DEF WriteDefault
  <2>2. CASE Dumps(0, stat_maps)
    BY <1>0, <1>6, <2>2, WriteSolvent DEF WriteDefault, TypeOK
  <2> QED BY <2>1, <2>2
<1>7. CASE OpenChar
  <2>1. file' = Truncated(index) /\ UNCHANGED <<live, stat_maps>>
    BY <1>7 DEF OpenChar
  <2>2. \A f \in FileId : file'[f] = file[f] \/ file'[f] = Torn
    BY <1>0, <2>1, EmptyFiles, OneFileWritten DEF TypeOK
  <2> QED
    BY <1>0, <2>1, <2>2, TornIsHome DEF NeverOverdrawn
<1>8. CASE WriteChar
  <2>1. CASE ~Dumps(index, stat_maps)
    BY <1>8, <2>1, DownSolvent DEF WriteChar
  <2>2. CASE Dumps(index, stat_maps)
    BY <1>0, <1>8, <2>2, WriteSolvent DEF WriteChar, TypeOK
  <2> QED BY <2>1, <2>2
<1>9. CASE Crash
  BY <1>9, DownSolvent DEF Crash
<1>10. CASE UNCHANGED vars
  BY <1>0, <1>10 DEF vars, NeverOverdrawn
<1> QED
  BY <1>1, <1>2, <1>3, <1>4, <1>5, <1>6, <1>7, <1>8, <1>9, <1>10 DEF Next

(* No step of the game, the scripts, the service or the user leaves the    *)
(* invariant.                                                              *)
LEMMA BankStep == BankInv /\ [CurrencyNext]_vars => BankInv'
<1> SUFFICES ASSUME BankInv, [CurrencyNext]_vars PROVE BankInv'
  OBVIOUS
<1>1. CASE [Next]_vars
  BY <1>1, StepInv, ServiceSolvent DEF BankInv
<1>2. Bank \in Accounts /\ \A c \in DOMAIN Wallets :
        Wallets[c] \in Accounts /\ Wallets[c] # Bank
  BY CurrencyAssumption DEF Accounts
<1>3. ASSUME NEW amount \in Amounts, WITHDRAW_VC(amount) PROVE BankInv'
  BY <1>2, <1>3, CallInv DEF WITHDRAW_VC
<1>4. ASSUME NEW amount \in Amounts, DEPOSIT_VC(amount) PROVE BankInv'
  <2>1. PICK c \in DOMAIN Wallets : /\ live[Bank] + live[Wallets[c]] <= MaxMoney
                                    /\ Call(Wallets[c], Bank, amount)
    BY <1>4 DEF DEPOSIT_VC
  <2>2. live[Bank] \in Int /\ live[Wallets[c]] \in Int
    BY <1>2, BalancesAreNumbers DEF BankInv, ServiceInv
  <2>3. live[Wallets[c]] + live[Bank] <= MaxMoney
    BY <2>1, <2>2
  <2> QED
    BY <1>2, <2>1, <2>3, CallInv
<1>5. ASSUME NEW c \in DOMAIN Wallets, NEW amount \in Payments, Pay(c, amount)
      PROVE  BankInv'
  <2>1. live[Bank] \in Int /\ live[Wallets[c]] \in Int /\ amount \in Nat
    BY <1>2, BalancesAreNumbers, CurrencyAssumption DEF BankInv, ServiceInv
  <2>2. live[Bank] >= 0 /\ live[Wallets[c]] >= 0 /\ MaxMoney \in Nat
    BY <1>2, CurrencyAssumption DEF BankInv, NeverOverdrawn
  <2>3. live[Bank] + live[Wallets[c]] + amount <= MaxMoney
    BY <1>5 DEF Pay
  <2>4. live[Wallets[c]] + amount \in 0..MaxMoney
    BY <2>1, <2>2, <2>3
  <2>5. live \in [Stat -> Value \cup {Long}] /\ Wallets[c] \in Stat
    BY <1>2, AccountIsStat DEF BankInv, ServiceInv, TypeOK
  <2>6. live' = [live EXCEPT ![Wallets[c]] = live[Wallets[c]] + amount,
                             ![Wallets[c]] = live[Wallets[c]] + amount]
    BY <1>5, <2>5 DEF Pay
  <2>7. UNCHANGED Others
    BY <1>5 DEF Pay, Others
  <2>8. Wallets[c] \in Accounts
    BY <1>2
  <2> QED
    BY <2>4, <2>6, <2>7, <2>8, LiveInv
<1> QED
  BY <1>1, <1>3, <1>4, <1>5 DEF CurrencyNext

(* Nothing is overdrawn before the first load: there is nothing.           *)
LEMMA BankInit == Init => BankInv
<1> SUFFICES ASSUME Init PROVE BankInv
  OBVIOUS
<1>1. \A a \in Accounts : live[a] = 0 /\ stat_maps[a] = NoEntry
  BY AccountIsStat DEF Init, Nothing
<1>2. \A f \in FileId, a \in Accounts : file[f].entries[a] = NoEntry
  BY AccountIsStat DEF Init, NoFiles, Nothing, Absent
<1> QED
  BY <1>1, <1>2, InitInv DEF BankInv, NeverOverdrawn, FileId

(* Whatever scripts, saves, loads and crashes do in whatever order, no     *)
(* account is overdrawn, in the game, in the maps or in a file.            *)
THEOREM AccountsSolvent == CurrencySpec => []NeverOverdrawn
<1>1. BankInv => NeverOverdrawn
  BY DEF BankInv
<1> QED
  BY <1>1, BankInit, BankStep, PTL DEF CurrencySpec

(* The stats keep their types, the bounded sums of the transfers included. *)
THEOREM CurrencyTypeCorrect == CurrencySpec => []TypeOK
<1>1. BankInv => TypeOK
  BY DEF BankInv, ServiceInv
<1> QED
  BY <1>1, BankInit, BankStep, PTL DEF CurrencySpec

-----------------------------------------------------------------------------
(* A save keeps the money *)

(* The scripts and the game move money only between whole saves.           *)
LEMMA CurrencyIsIdle ==
  ASSUME [CurrencyNext]_vars
  PROVE  [Next]_vars \/ (pc = "idle" /\ UNCHANGED Others)
BY DEF CurrencyNext, WITHDRAW_VC, DEPOSIT_VC, Pay, Call, Others

(* What a save of the service leaves on disk is what a fresh process shows *)
(* with transfers between the saves, too.                                  *)
THEOREM TransfersRestore == CurrencySpec => RestartRestores
<1>1. Init => SavedInv
  BY DEF Init, SavedInv, Saving
<1>2. BankInv /\ SavedInv /\ [CurrencyNext]_vars => SavedInv'
  BY CurrencyIsIdle, SavedStep DEF BankInv, ServiceInv, SavedInv, Saving, Others
<1>3. BankInv /\ SavedInv /\ [CurrencyNext]_vars =>
        \/ (pc = "write_char" /\ pc' = "idle" /\ Opens(0) =>
              \A s \in Online \ Ngpc :
                /\ get_char_index_from_stat(s) \in {0, index}
                /\ Opens(get_char_index_from_stat(s))
                /\ Recorded(s)
                /\ live[s] # Long
                /\ named => s \in registered
                /\ OwnFileOnly(s, file')
                => Restored(file')[s] = live[s])
        \/ UNCHANGED vars
  <2>1. ASSUME UNCHANGED vars PROVE ~(pc = "write_char" /\ pc' = "idle")
    BY <2>1 DEF vars
  <2> QED BY <2>1, CurrencyIsIdle, LastWriteRestores DEF BankInv
<1> QED
  BY <1>1, <1>2, <1>3, BankInit, BankStep, PTL DEF CurrencySpec, RestartRestores

(* Nor does a transfer write the override file.                            *)
THEOREM TransfersKeepOverride == CurrencySpec => OverwriteNeverWritten
<1>1. BankInv /\ [CurrencyNext]_vars =>
        (pc # "off" => file'[SAVE_OVERWRITE_INDEX] = file[SAVE_OVERWRITE_INDEX])
        \/ UNCHANGED vars
  BY CurrencyIsIdle, OverrideKept DEF BankInv, Others
<1> QED
  BY <1>1, BankInit, BankStep, PTL DEF CurrencySpec, OverwriteNeverWritten

\* The stats of the game: the bank is saved with the default file, a wallet
\* with its character's, both online.  And the user puts a balance in no
\* other file than its own, the overrides among them.
OwnAccounts ==
  /\ Accounts \subseteq Online
  /\ get_char_index_from_stat(Bank) = 0
  /\ DOMAIN Wallets \subseteq {0, 1}
  /\ \A c \in DOMAIN Wallets : get_char_index_from_stat(Wallets[c]) = c + 1
  /\ \A a \in Accounts : \A f \in FileId \ {get_char_index_from_stat(a)} :
       \A c \in UserFiles[f] : c.entries[a] = NoEntry

\* Each account is in the one file it belongs to, and a save writes that of
\* the character it found.
AtHome ==
  /\ \A a \in Accounts : OwnFileOnly(a, file)
  /\ Saving => index = (live[LastChar] + 1) % 256

(* A file that a save leaves holds accounts of its own only.               *)
LEMMA SavedAtHome ==
  ASSUME NEW c, TypeOK, NEW e \in save_stat_map_to_json(c, stat_maps),
         NEW a \in Accounts, get_char_index_from_stat(a) # c
  PROVE  e[a] = NoEntry
BY AccountIsStat, SavedText DEF TypeOK

(* Opening or writing a file in a save keeps every account at home.        *)
LEMMA WritesAtHome ==
  ASSUME TypeOK, AtHome, NEW i,
         \/ file' = Truncated(i)
         \/ \E e \in save_stat_map_to_json(i, stat_maps) : file' = Written(i, e)
  PROVE  \A a \in Accounts : OwnFileOnly(a, file')
<1>1. CASE file' = Truncated(i)
  <2>1. \A f \in FileId : file'[f] = file[f] \/ file'[f] = Torn
    BY <1>1, EmptyFiles, OneFileWritten DEF TypeOK
  <2> QED
    BY <2>1, TornIsHome DEF AtHome, OwnFileOnly
<1>2. ASSUME NEW e \in save_stat_map_to_json(i, stat_maps), file' = Written(i, e)
      PROVE  \A a \in Accounts : OwnFileOnly(a, file')
  <2>1. e \in Entries
    BY SavedText DEF TypeOK
  <2>2. \A f \in FileId : file'[f] = file[f] \/ (f = i /\ file'[f] = Complete(e))
    BY <1>2, <2>1, OneFileWritten DEF TypeOK
  <2>3. \A a \in Accounts : get_char_index_from_stat(a) # i => e[a] = NoEntry
    BY SavedAtHome
  <2> QED
    BY <2>2, <2>3 DEF AtHome, OwnFileOnly, Complete
<1> QED BY <1>1, <1>2

(* No step takes an account out of its file.                               *)
LEMMA HomeStep ==
  ASSUME OwnAccounts, BankInv, AtHome, [CurrencyNext]_vars
  PROVE  AtHome'
<1> USE DEF Saving
<1>0. TypeOK /\ TypeOK'
  BY BankStep DEF BankInv, ServiceInv
<1>1. CASE pc = "idle" /\ UNCHANGED Others
  BY <1>1 DEF Others, AtHome
<1>2. ASSUME NEW f \in FileId, NEW c \in UserFiles[f], UserEdit(f, c)
      PROVE  AtHome'
  <2>1. \A a \in Accounts : f # get_char_index_from_stat(a) => c.entries[a] = NoEntry
    BY DEF OwnAccounts
  <2>2. \A g \in FileId : file'[g] = IF g = f THEN c ELSE file[g]
    BY <1>0, <1>2 DEF UserEdit, TypeOK
  <2>3. \A a \in Accounts : OwnFileOnly(a, file')
    BY <2>1, <2>2 DEF AtHome, OwnFileOnly
  <2> QED
    BY <1>2, <2>3 DEF UserEdit, AtHome
<1>3. ASSUME NEW n \in Readable, NEW u \in BOOLEAN, NEW missed \in SUBSET Early,
             Start(n, u, missed)
      PROVE  AtHome'
  BY <1>3 DEF Start, AtHome, OwnFileOnly
<1>4. ASSUME NEW s \in Stat, NEW v \in Playable[s], Play(s, v)
      PROVE  AtHome'
  BY <1>4 DEF Play, AtHome, OwnFileOnly
<1>5. CASE LoadStats
  BY <1>5 DEF LoadStats, AtHome, OwnFileOnly
<1>6. ASSUME NEW why, Down(why)
      PROVE  AtHome'
  BY <1>6 DEF Down, Ends, AtHome, OwnFileOnly
<1>7. CASE SaveStats
  <2>1. CASE NullStats(stat_maps) # {}
    BY <1>6, <1>7, <2>1 DEF SaveStats
  <2>2. CASE NullStats(stat_maps) = {}
    <3>1. /\ file' = Truncated(0) /\ UNCHANGED live
          /\ index' = (live[LastChar] + 1) % 256
      BY <1>7, <2>2 DEF SaveStats, BeginSave
    <3> QED
      BY <1>0, <3>1, WritesAtHome DEF AtHome
  <2> QED BY <2>1, <2>2
<1>8. CASE WriteDefault
  <2>1. CASE ~Dumps(0, stat_maps)
    BY <1>6, <1>8, <2>1 DEF WriteDefault
  <2>2. CASE Dumps(0, stat_maps)
    <3>1. /\ \E e \in save_stat_map_to_json(0, stat_maps) : file' = Written(0, e)
          /\ UNCHANGED <<live, index>> /\ pc = "write_default"
      BY <1>8, <2>2 DEF WriteDefault
    <3> QED
      BY <1>0, <3>1, WritesAtHome DEF AtHome
  <2> QED BY <2>1, <2>2
<1>9. CASE OpenChar
  <2>1. /\ file' = Truncated(index)
        /\ UNCHANGED <<live, index>> /\ pc = "open_char"
    BY <1>9 DEF OpenChar
  <2> QED
    BY <1>0, <2>1, WritesAtHome DEF AtHome
<1>10. CASE WriteChar
  <2>1. CASE ~Dumps(index, stat_maps)
    BY <1>6, <1>10, <2>1 DEF WriteChar
  <2>2. CASE Dumps(index, stat_maps)
    <3>1. /\ \E e \in save_stat_map_to_json(index, stat_maps) :
               file' = Written(index, e)
          /\ pc' = "idle"
      BY <1>10, <2>2 DEF WriteChar
    <3> QED
      BY <1>0, <3>1, WritesAtHome DEF AtHome
  <2> QED BY <2>1, <2>2
<1>11. CASE UNCHANGED vars
  BY <1>11 DEF vars, AtHome, OwnFileOnly
<1> QED
  BY <1>1, <1>2, <1>3, <1>4, <1>5, <1>6, <1>7, <1>8, <1>9, <1>10, <1>11,
     CurrencyIsIdle DEF Next, Crash

(* An account a save skipped because it was spent to zero comes back as    *)
(* something, never as a debt.                                             *)
LEMMA RestoresNoDebt ==
  ASSUME TypeOK', NeverOverdrawn', NEW a \in Accounts
  PROVE  Restored(file')[a] \in Nat
<1>1. Nothing \in Entries /\ Nothing[a] = NoEntry
  BY EmptyFiles, AccountIsStat DEF Nothing, Entries, Entry
<1>2. file' \in [FileId -> File]
  BY DEF TypeOK
<1>3. \A f \in FileId : file'[f].entries[a] # NoEntry => file'[f].entries[a] >= 0
  BY DEF NeverOverdrawn
<1>4. MapsAfterLoad(file', Nothing)[a] # NoEntry =>
        MapsAfterLoad(file', Nothing)[a] >= 0
  BY <1>1, <1>2, <1>3, LoadsNoOverdraft
<1>5. MapsAfterLoad(file', Nothing) \in Entries
  BY <1>1, <1>2, LoadFiles
<1>6. MapsAfterLoad(file', Nothing)[a] \in Value \cup {NoEntry}
  BY <1>5, AccountIsStat DEF Entries
<1> DEFINE m == MapsAfterLoad(file', Nothing)[a]
<1>7. Restored(file')[a] = IF m # NoEntry THEN m ELSE 0
  BY <1>6, AccountIsStat, StatsAssumption DEF Restored, LiveAfterLoad
<1>8. ASSUME m # NoEntry PROVE m \in Nat
  <2>1. m \in Int
    BY <1>6, <1>8, StatsAssumption
  <2>2. m >= 0
    BY <1>4, <1>8
  <2> QED BY <2>1, <2>2
<1> QED
  BY <1>7, <1>8

(* For any stats, wallets, amounts and payments: a completed save gives    *)
(* the current character back at least the money it has, in the bank and   *)
(* the wallet together, and exactly that with save_unmodified_stats, if    *)
(* the user put balances in their own files only and the files can be      *)
(* opened.                                                                 *)
THEOREM SavesKeepMoney ==
  ASSUME OwnAccounts
  PROVE  CurrencySpec => SaveKeepsMoney
<1>1. Init => SavedInv /\ AtHome
  BY TornIsHome, AccountIsStat
     DEF Init, SavedInv, AtHome, OwnFileOnly, NoFiles, Absent, Nothing, Saving
<1>2. BankInv /\ SavedInv /\ [CurrencyNext]_vars => SavedInv'
  BY CurrencyIsIdle, SavedStep DEF BankInv, ServiceInv, SavedInv, Saving, Others
<1>3. BankInv /\ AtHome /\ [CurrencyNext]_vars => AtHome'
  BY HomeStep
<1>4. ASSUME BankInv, SavedInv, AtHome, [CurrencyNext]_vars,
             pc = "write_char", pc' = "idle",
             NEW c \in DOMAIN Wallets, c = live[LastChar],
             Accounts \subseteq registered \/ ~named,
             ReadOnly = {}
      PROVE  /\ Money(Restored(file'), c) >= Money(live, c)
             /\ unmodified => Money(Restored(file'), c) = Money(live, c)
  <2>1. Next /\ BankInv' /\ AtHome'
    BY <1>4, CurrencyIsIdle, BankStep, HomeStep DEF vars
  <2>2. c \in {0, 1} /\ index = c + 1
    BY <1>4 DEF AtHome, OwnAccounts, Saving
  <2>3. ASSUME NEW a \in {Bank, Wallets[c]}
        PROVE  /\ live[a] \in Nat /\ Restored(file')[a] \in Nat
               /\ Restored(file')[a] = live[a] \/ (~unmodified /\ live[a] = 0)
    <3>1. a \in Accounts /\ a \in Online \ Ngpc
      BY AccountIsStat DEF Accounts, OwnAccounts
    <3>2. /\ get_char_index_from_stat(a) \in {0, index}
          /\ Opens(0) /\ Opens(get_char_index_from_stat(a))
      <4>1. CASE a = Bank
        BY <1>4, <4>1 DEF OwnAccounts, SaveIndex, Opens
      <4>2. CASE a = Wallets[c]
        <5>1. get_char_index_from_stat(Wallets[c]) = c + 1
          BY <1>4 DEF OwnAccounts
        <5>2. index \in {1, 2}
          BY <2>2
        <5> QED BY <1>4, <2>2, <4>2, <5>1, <5>2 DEF SaveIndex, Opens
      <4> QED BY <4>1, <4>2
    <3>3. live[a] \in Int /\ live[a] >= 0 /\ live[a] # Long
      <4>1. a \in Stat \ Strings
        BY <3>1, AccountIsStat
      <4>2. live[a] \in Value
        BY <1>4, <4>1 DEF BankInv, ServiceInv, TypeOK
      <4>3. live[a] >= 0
        BY <1>4, <3>1 DEF BankInv, NeverOverdrawn
      <4> QED
        BY <4>2, <4>3, StatsAssumption
    <3>4. Restored(file')[a] \in Nat
      BY <2>1, <3>1, RestoresNoDebt DEF BankInv, ServiceInv
    <3>5. OwnFileOnly(a, file')
      BY <2>1, <3>1 DEF AtHome
    <3>6. Recorded(a) => Restored(file')[a] = live[a]
      BY <1>4, <2>1, <3>1, <3>2, <3>3, <3>5, LastWriteRestores DEF BankInv
    <3> QED
      BY <1>4, <3>1, <3>3, <3>4, <3>6 DEF Recorded, BankInv, ServiceInv, TypeOK
  <2> QED
    BY <1>4, <2>3 DEF Money, BankInv, ServiceInv, TypeOK
<1>5. BankInv /\ SavedInv /\ AtHome /\ [CurrencyNext]_vars =>
        \/ (pc = "write_char" /\ pc' = "idle" =>
              \A c \in DOMAIN Wallets :
                /\ c = live[LastChar]
                /\ Accounts \subseteq registered \/ ~named
                /\ ReadOnly = {}
                => /\ Money(Restored(file'), c) >= Money(live, c)
                   /\ unmodified => Money(Restored(file'), c) = Money(live, c))
        \/ UNCHANGED vars
  BY <1>4
<1> QED
  BY <1>1, <1>2, <1>3, <1>5, BankInit, BankStep, PTL DEF CurrencySpec, SaveKeepsMoney

-----------------------------------------------------------------------------
(* The store, with transfers *)

(* A call or a payment changes balances and nothing else: for the player's *)
(* store it is the game changing stats.                                    *)
LEMMA MoneyMaps ==
  ASSUME TypeOK, TypeOK', pc = "idle", UNCHANGED Others,
         \A s \in Stat : live'[s] = live[s] \/ s \in Accounts
  PROVE  Store!Play
<1>1. Phase = "idle" /\ UNCHANGED <<Mem, Disk, Phase, TornFile, Nameless>>
  BY DEF Others, Phase, Mem, Disk, TornFile, Nameless
<1>2. \A s \in Stat : live'[s] \in Value \cup {live[s]}
  BY AccountIsStat DEF TypeOK
<1>3. live' \in [Stat -> Value \cup {Long}]
  BY DEF TypeOK
<1> QED
  BY <1>1, <1>2, <1>3 DEF Store!Play

(* A transfer changes two accounts, a payment one.                         *)
LEMMA OnlyMoney ==
  ASSUME TypeOK, [CurrencyNext]_vars, ~[Next]_vars
  PROVE  \A s \in Stat : live'[s] = live[s] \/ s \in Accounts
<1>1. live \in [Stat -> Value \cup {Long}]
  BY DEF TypeOK
<1>2. \A from, to \in Accounts, amount \in Amounts :
        Call(from, to, amount) =>
          \A s \in Stat : live'[s] = live[s] \/ s \in Accounts
  BY <1>1 DEF Call, Transfer
<1>3. Bank \in Accounts /\ \A c \in DOMAIN Wallets : Wallets[c] \in Accounts
  BY DEF Accounts
<1>4. ASSUME NEW amount \in Amounts,
             WITHDRAW_VC(amount) \/ DEPOSIT_VC(amount)
      PROVE  \A s \in Stat : live'[s] = live[s] \/ s \in Accounts
  BY <1>2, <1>3, <1>4 DEF WITHDRAW_VC, DEPOSIT_VC
<1>5. ASSUME NEW c \in DOMAIN Wallets, NEW amount \in Payments, Pay(c, amount)
      PROVE  \A s \in Stat : live'[s] = live[s] \/ s \in Accounts
  BY <1>1, <1>3, <1>5 DEF Pay
<1> QED
  BY <1>4, <1>5 DEF CurrencyNext

(* However scripts move money between the files' stats, the save service   *)
(* still implements the store a player sees.                               *)
THEOREM TransfersImplement == CurrencySpec => ImplementsStore
<1>1. BankInv /\ BankInv' /\ [CurrencyNext]_vars => [Store!Next]_(Store!vars)
  <2> SUFFICES ASSUME BankInv, BankInv', [CurrencyNext]_vars
               PROVE  [Store!Next]_(Store!vars)
    OBVIOUS
  <2>1. TypeOK /\ TypeOK'
    BY DEF BankInv, ServiceInv
  <2>2. CASE [Next]_vars
    BY <2>1, <2>2, StepMaps
  <2>3. CASE ~[Next]_vars
    BY <2>1, <2>3, CurrencyIsIdle, OnlyMoney, MoneyMaps DEF Store!Next
  <2> QED
    BY <2>2, <2>3
<1> QED
  BY <1>1, InitMaps, BankInit, BankStep, PTL
  DEF CurrencySpec, ImplementsStore, Store!Spec
=============================================================================
