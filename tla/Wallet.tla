------------------------------- MODULE Wallet -------------------------------
(***************************************************************************)
(* What is done to a user's balances without trading (routes/balances.rs,  *)
(* routes/faucet.rs, mint_internal of routes/internal.rs), and the         *)
(* optional clean-up job (scheduler.rs).  The faucet looks up the last     *)
(* claim, credits the ledger and records the claim in three transactions,  *)
(* so that claims interleave and may be cut short by an error or a restart *)
(* of the service.                                                         *)
(*                                                                         *)
(* LedgerEntry::append is one transaction under an advisory lock, and here *)
(* one step: Accounts models that lock.  Time is counted in steps of which *)
(* Day make 24 hours: the cooldown of the faucet, and the retention.       *)
(***************************************************************************)
EXTENDS Integers, FiniteSets, Sums, Sequences

CONSTANTS
  Owners,         \* users
  Amounts,        \* amounts asked for, in tenths of a cent
  Minted,         \* amounts minted, in cents or 1 / UnitsPerBase: others are refused
  Claims,         \* claim_faucet handlers that can run at a time
  UnitsPerBase,   \* quantities are whole 1 / UnitsPerBase of a KCN
  Day,            \* 24 hours
  Last,           \* bound: the time
  MaxEntries      \* bound: rows of the ledger

ASSUME WalletAssumption ==
  /\ Amounts \cup Minted \subseteq Int
  /\ {Day, UnitsPerBase} \subseteq Nat \ {0}
  /\ {Last, MaxEntries} \subseteq Nat

VARIABLES
  time,
  ledger,         \* table: [n, account, amount, type, at], n for the id
  balances,       \* table: account, which is <<user, asset>> -> available
  faucet_claims,  \* table, in the order of claimed_at: [user, at], and as ghosts the time
                  \* the claim was checked at and the number of rows the table had then
  claim,          \* claim -> where its handler is
  ledger_immutable, \* the trigger that keeps rows of the ledger is enabled
  cleaning        \* run_cleanup is under way

walletVars == <<time, ledger, balances, faucet_claims, claim, ledger_immutable, cleaning>>

tables == <<ledger, balances, faucet_claims>>

job == <<ledger_immutable, cleaning>>

NoClaim == [pc |-> "over", user |-> {}, checked |-> 0, seen |-> 0]

FaucetAmount == 100 * UnitsPerBase

Holdings == Owners \X {"EUR", "KCN"}

WalletInit ==
  /\ time = 0
  /\ ledger = {} /\ faucet_claims = << >>
  /\ balances = [a \in Holdings |-> 0]
  /\ claim = [c \in Claims |-> NoClaim]
  /\ ledger_immutable = TRUE /\ cleaning = FALSE

TimePasses ==
  /\ time < Last
  /\ time' = time + 1
  /\ UNCHANGED <<tables, claim, job>>

\* LedgerEntry::append and append_in_tx: nothing is left of an entry that would overdraw.
AppendEntry(account, amount, type) ==
  /\ Cardinality(ledger) < MaxEntries
  /\ balances[account] + amount >= 0
  /\ ledger' = ledger \cup {[n |-> Cardinality(ledger), account |-> account, amount |-> amount,
                             type |-> type, at |-> time]}
  /\ balances' = [balances EXCEPT ![account] = @ + amount]

\* round_to_precision (Decimal::round_dp): half to even.
RoundDp(n, d) == LET below == n \div d
                     rest == n % d
                 IN  IF 2 * rest > d \/ (2 * rest = d /\ below % 2 = 1) THEN below + 1 ELSE below

Cents(a) == RoundDp(a, 10)

\* deposit and withdraw: a positive amount of EUR, which may round to nothing.
Deposit(u, a) ==
  /\ a > 0
  /\ AppendEntry(<<u, "EUR">>, Cents(a), "deposit")
  /\ UNCHANGED <<time, faucet_claims, claim, job>>

Withdraw(u, a) ==
  /\ a > 0
  /\ AppendEntry(<<u, "EUR">>, -Cents(a), "withdrawal")
  /\ UNCHANGED <<time, faucet_claims, claim, job>>

\* mint_internal: any amount of any asset, which may be below zero.
Mint(account, amount) ==
  /\ AppendEntry(account, amount, "deposit")
  /\ UNCHANGED <<time, faucet_claims, claim, job>>

ClaimsOf(u) == {i \in DOMAIN faucet_claims : faucet_claims[i].user = u}

\* Seeded mistake: the first claim is looked up, not the last.
OnCooldownSinceFirst(u) ==
  \E i \in ClaimsOf(u) : /\ \A j \in ClaimsOf(u) : i <= j
                         /\ time < faucet_claims[i].at + Day

OnCooldown(u) ==
  \E i \in ClaimsOf(u) : /\ \A j \in ClaimsOf(u) : j <= i
                         /\ time < faucet_claims[i].at + Day

\* claim_faucet: the last claim is looked up; the claim goes on unless it is too early.
CheckClaim(c, u) ==
  /\ claim[c] = NoClaim /\ ~OnCooldown(u)
  /\ claim' = [claim EXCEPT ![c] = [pc |-> "credit", user |-> {u}, checked |-> time,
                                    seen |-> Len(faucet_claims)]]
  /\ UNCHANGED <<time, tables, job>>

CreditClaim(c) ==
  /\ claim[c].pc = "credit"
  /\ \E u \in claim[c].user : AppendEntry(<<u, "KCN">>, FaucetAmount, "deposit")
  /\ claim' = [claim EXCEPT ![c].pc = "record"]
  /\ UNCHANGED <<time, faucet_claims, job>>

RecordClaim(c) ==
  /\ claim[c].pc = "record"
  /\ \E u \in claim[c].user :
       faucet_claims' = Append(faucet_claims, [user |-> u, at |-> time,
                                               checked |-> claim[c].checked, seen |-> claim[c].seen])
  /\ claim' = [claim EXCEPT ![c] = NoClaim]
  /\ UNCHANGED <<time, ledger, balances, job>>

\* An error in between leaves what was done.
ClaimFails(c) ==
  /\ claim[c] # NoClaim
  /\ claim' = [claim EXCEPT ![c] = NoClaim]
  /\ UNCHANGED <<time, tables, job>>

\* run_cleanup begins with the trigger; that this may fail is ignored.
StartCleanup ==
  /\ ~cleaning
  /\ cleaning' = TRUE
  /\ ledger_immutable' \in {FALSE, ledger_immutable}
  /\ UNCHANGED <<time, tables, claim>>

\* Seeded mistake: with the right column in the first DELETE the job goes on to the ledger.
CleanTables ==
  /\ cleaning
  /\ cleaning' = FALSE
  /\ ledger' = IF ledger_immutable THEN ledger ELSE {r \in ledger : r.at >= time - Day}
  /\ ledger_immutable' = TRUE
  /\ UNCHANGED <<time, balances, faucet_claims, claim>>

\* The first DELETE names a column that trades does not have (created_at): the job returns,
\* and nothing after it is done, nor the trigger enabled again.
CleanTrades ==
  /\ cleaning
  /\ cleaning' = FALSE
  /\ UNCHANGED <<time, tables, claim, ledger_immutable>>

\* The service restarts: its handlers are gone, and the migrations create the trigger anew.
RestartAccounts ==
  /\ claim' = [c \in Claims |-> NoClaim]
  /\ ledger_immutable' = TRUE /\ cleaning' = FALSE
  /\ UNCHANGED <<time, tables>>

\* The requests of users and of other services.
WalletRequests ==
  \/ \E u \in Owners, a \in Amounts : Deposit(u, a) \/ Withdraw(u, a)
  \/ \E a \in Holdings, m \in Minted : Mint(a, m)
  \/ \E c \in Claims :
       \/ \E u \in Owners : CheckClaim(c, u)
       \/ CreditClaim(c) \/ RecordClaim(c) \/ ClaimFails(c)

WalletNext ==
  WalletRequests \/ TimePasses \/ StartCleanup \/ CleanTrades \/ RestartAccounts

-----------------------------------------------------------------------------
WalletTypeOK ==
  /\ time \in 0 .. Last
  /\ ledger \subseteq [n : 0 .. MaxEntries, account : Holdings, amount : Int, at : 0 .. Last,
                       type : {"deposit", "withdrawal", "lock", "unlock"}]
  /\ balances \in [Holdings -> Nat]
  /\ faucet_claims \in Seq([user : Owners, at : 0 .. Last, checked : 0 .. Last, seen : Nat])
  /\ claim \in [Claims -> [pc : {"over", "credit", "record"}, user : SUBSET Owners,
                           checked : 0 .. Last, seen : Nat]]
  /\ ledger_immutable \in BOOLEAN /\ cleaning \in BOOLEAN

\* What the ledger holds of an account, by the entries of these types (reconcile).
Booked(account, types) ==
  SumOver([r \in ledger |-> r.amount], {r \in ledger : r.account = account /\ r.type \in types})

\* The ledger is the source of truth: with deposits, withdrawals and order locks, with faucet
\* claims cut short, and with the clean-up job switched on, what it holds of an account is
\* still what the balance says.
Reconciles ==
  \A a \in Holdings : Booked(a, {"deposit", "withdrawal", "lock", "unlock"}) = balances[a]

\* A claim that was checked after another one of the user had been recorded is at least a
\* cooldown later: only claims that overlap, or that were cut short, get around it.
FaucetIsRationed ==
  \A i, j \in DOMAIN faucet_claims :
    (faucet_claims[i].user = faucet_claims[j].user /\ i <= faucet_claims[j].seen)
      => faucet_claims[j].checked >= faucet_claims[i].at + Day

=============================================================================
