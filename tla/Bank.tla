-------------------------------- MODULE Bank --------------------------------
(***************************************************************************)
(* The book of accounts every office keeps: what RaftNode::apply_log       *)
(* (consensus/src/protocol.rs) does with a committed command.  Which       *)
(* commands are committed, and in which order, is the subject of Raft; any *)
(* sequence of them may come here.                                         *)
(*                                                                         *)
(* Balances are usize.  An addition that overflows wraps around in a       *)
(* release build and ends the office's thread in a build that checks it.   *)
(***************************************************************************)
EXTENDS Naturals, Functions

CONSTANTS Accounts,  \* names of accounts
          Width      \* number of values of a usize, 2^64 in the code

ASSUME WidthAssumption == Width \in Nat \ {0}

VARIABLES book,    \* RaftNode.book: the balances of the accounts that were opened
          net,     \* history: what was deposited minus what was withdrawn, as a usize
          running  \* FALSE once an addition has overflowed in a build that checks it

bankVars == <<book, net, running>>

Usize == 0 .. Width - 1

Exists(account) == account \in DOMAIN book

\* The book after `amount` was added to the balance of an account of `b`.
Credited(b, account, amount) == [b EXCEPT ![account] = (@ + amount) % Width]
-----------------------------------------------------------------------------
\* A command that fails (no such account, too little on it) changes nothing.
BankInit ==
  /\ book = [a \in {} |-> 0]
  /\ net = 0
  /\ running = TRUE

\* Command::Open leaves an account that exists as it is.
Open(account) ==
  /\ running
  /\ book' = [a \in DOMAIN book \cup {account} |-> IF Exists(a) THEN book[a] ELSE 0]
  /\ UNCHANGED <<net, running>>

\* Command::Deposit
Deposit(account, amount) ==
  /\ running
  /\ Exists(account)
  /\ book' = Credited(book, account, amount)
  /\ net' = (net + amount) % Width
  /\ UNCHANGED running

\* Mutant: the balance is not looked at first.
WithdrawUncovered(account, amount) ==
  /\ running
  /\ Exists(account)
  /\ book' = [book EXCEPT ![account] = @ - amount]
  /\ net' = (net + Width - amount) % Width
  /\ UNCHANGED running

\* Command::Withdraw
Withdraw(account, amount) ==
  /\ running
  /\ Exists(account) /\ amount <= book[account]
  /\ book' = [book EXCEPT ![account] = @ - amount]
  /\ net' = (net + Width - amount) % Width
  /\ UNCHANGED running

\* Mutant: both balances are read before either is set.
TransferReadingFirst(src, dst, amount) ==
  /\ running
  /\ Exists(src) /\ Exists(dst) /\ amount <= book[src]
  /\ book' = [book EXCEPT ![src] = @ - amount, ![dst] = (book[dst] + amount) % Width]
  /\ UNCHANGED <<net, running>>

\* Command::Transfer: the destination is read after the source was set, and may be the source.
Transfer(src, dst, amount) ==
  /\ running
  /\ Exists(src) /\ Exists(dst) /\ amount <= book[src]
  /\ book' = Credited([book EXCEPT ![src] = @ - amount], dst, amount)
  /\ UNCHANGED <<net, running>>

\* A deposit, or the second half of a transfer, overflows in a build that checks it.
Overflow(account, amount) ==
  /\ running
  /\ Exists(account) /\ book[account] + amount >= Width
  /\ \/ UNCHANGED book
     \/ \E src \in DOMAIN book \ {account} :
          amount <= book[src] /\ book' = [book EXCEPT ![src] = @ - amount]
  /\ running' = FALSE
  /\ UNCHANGED net

BankNext ==
  \E account \in Accounts :
    \/ Open(account)
    \/ \E amount \in Usize :
         \/ Deposit(account, amount) \/ Withdraw(account, amount) \/ Overflow(account, amount)
         \/ \E dst \in Accounts : Transfer(account, dst, amount)

BankSpec == BankInit /\ [][BankNext]_bankVars
-----------------------------------------------------------------------------
\* Every account that was opened has a balance in the range of a usize: no withdrawal or
\* transfer takes more than there is.
BankTypeOK ==
  /\ DOMAIN book \subseteq Accounts
  /\ book \in [DOMAIN book -> Usize]
  /\ net \in Usize
  /\ running \in BOOLEAN

\* What is on the accounts together is what was paid in and not yet taken out, whatever was
\* transferred, from an account to itself included.
MoneyIsConserved == running => SumFunction(book) % Width = net
=============================================================================
