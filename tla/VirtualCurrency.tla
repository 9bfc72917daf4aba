--------------------------- MODULE VirtualCurrency ---------------------------
(***************************************************************************)
(* WITHDRAW_VC and DEPOSIT_VC of native_hooks/all_scripts.hpp, on the same *)
(* game stats StatsService loads and saves: the bank is a stat of the      *)
(* default file, each character's wallet one of its own file.  Scripts run *)
(* on the game's thread, as the save hooks do, so a call falls between     *)
(* whole saves; a crash falls anywhere.                                    *)
(***************************************************************************)
EXTENDS StatsService

CONSTANTS
  Bank,      \* BANK_BALANCE
  Wallets,   \* MP<c>_WALLET_BALANCE, per character c that has one
  Amounts,   \* what a script passes, an int
  Payments,  \* what the game pays into a wallet
  MaxMoney   \* bound of the model on what the two balances of a call hold

Accounts == {Bank} \cup {Wallets[c] : c \in DOMAIN Wallets}

ASSUME CurrencyAssumption ==
  /\ Accounts \subseteq Stat \ (Strings \cup Ngpc \cup {LastChar})
  /\ Bank \notin {Wallets[c] : c \in DOMAIN Wallets}
  /\ Amounts \subseteq Int /\ Payments \subseteq Nat /\ MaxMoney \in Nat
  /\ 0..MaxMoney \subseteq Value

\* Neither the game nor the user's files give an account a negative balance.
ASSUME BalancesAssumption ==
  \A a \in Accounts :
    /\ Playable[a] \subseteq Nat
    /\ \A f \in FileId : \A c \in UserFiles[f] :
         c.entries[a] \in Nat \cup {NoEntry}

-----------------------------------------------------------------------------
\* Moves amount from one balance to another.  A balance is 64 bits wide and
\* an amount 32, so MaxMoney stands for a sum no game reaches.
Transfer(from, to, amount) ==
  [live EXCEPT ![from] = @ - amount, ![to] = @ + amount]

Refused_Unsigned(from, amount) == live[from] < amount
Refused(from, amount) == live[from] < amount \/ amount < 0

\* The wallet is that of MPPLY_LAST_MP_CHAR; without one the call only logs.
Call(from, to, amount) ==
  /\ live' = IF Refused(from, amount) THEN live ELSE Transfer(from, to, amount)
  /\ UNCHANGED <<stat_maps, file, pc, index, named, unmodified, registered,
                 loaded, fault, before>>

WITHDRAW_VC(amount) ==
  LET c == live[LastChar]
  IN /\ pc = "idle" /\ c \in DOMAIN Wallets
     /\ live[Bank] + live[Wallets[c]] <= MaxMoney
     /\ Call(Bank, Wallets[c], amount)

DEPOSIT_VC(amount) ==
  LET c == live[LastChar]
  IN /\ pc = "idle" /\ c \in DOMAIN Wallets
     /\ live[Bank] + live[Wallets[c]] <= MaxMoney
     /\ Call(Wallets[c], Bank, amount)

\* The game pays the player.
Pay(c, amount) ==
  /\ pc = "idle"
  /\ live[Bank] + live[Wallets[c]] + amount <= MaxMoney
  /\ live' = [live EXCEPT ![Wallets[c]] = @ + amount]
  /\ UNCHANGED <<stat_maps, file, pc, index, named, unmodified, registered,
                 loaded, fault, before>>

CurrencyNext ==
  \/ Next
  \/ \E a \in Amounts : WITHDRAW_VC(a)
  \/ \E a \in Amounts : DEPOSIT_VC(a)
  \/ \E c \in DOMAIN Wallets, a \in Payments : Pay(c, a)

CurrencySpec == Init /\ [][CurrencyNext]_vars

-----------------------------------------------------------------------------
(* Properties *)

(* No sequence of calls with any amounts, saves, crashes, loads and changes *)
(* of character ever leaves an account overdrawn, in the game, in the maps *)
(* or in a file (all_scripts.hpp 47 and 74).                               *)
NeverOverdrawn ==
  \A a \in Accounts :
    /\ live[a] >= 0
    /\ stat_maps[a] # NoEntry => stat_maps[a] >= 0
    /\ \A f \in FileId : file[f].entries[a] # NoEntry =>
                              file[f].entries[a] >= 0

\* What the bank and the wallet of character c hold together.
Money(stats, c) == stats[Bank] + stats[Wallets[c]]

(* A save loses no money: once both its files are written, a fresh process *)
(* that loads them gives the current character and the bank together at    *)
(* least what they hold now -- although a transfer changed stats of two    *)
(* files, one of which was written first, and although a balance spent to  *)
(* zero is skipped -- and with save_unmodified_stats exactly that          *)
(* (all_scripts.hpp 54-55, stats_service.cpp 357-358).                     *)
SaveKeepsMoney ==
  [][pc = "write_char" /\ pc' = "idle" =>
       \A c \in DOMAIN Wallets :
         /\ c = live[LastChar]
         /\ Accounts \subseteq registered \/ ~named
         /\ ReadOnly = {}
         => /\ Money(Restored(file'), c) >= Money(live, c)
            /\ unmodified => Money(Restored(file'), c) = Money(live, c)]_vars
=============================================================================
