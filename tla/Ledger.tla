-------------------------------- MODULE Ledger --------------------------------
(***************************************************************************)
(* What an append-only table promises: a row belongs to an account, stays  *)
(* as it was written, and amends no row or an earlier one of its account.  *)
(* The commissions and the results of campaigns are kept this way.         *)
(***************************************************************************)
EXTENDS Naturals, Sequences

CONSTANT Account   \* what a row is counted under

VARIABLE book      \* the rows, in the order they were written

\* `amends` is the number of the row that this one reverses or corrects, or 0.
BookRow == [account : Account, amends : Nat]

LedgerInit == book = <<>>

Enter(account, amends) ==
  /\ amends # 0 => amends \in DOMAIN book /\ book[amends].account = account
  /\ book' = Append(book, [account |-> account, amends |-> amends])

LedgerNext == \E account \in Account, amends \in 0..Len(book) : Enter(account, amends)

LedgerSpec == LedgerInit /\ [][LedgerNext]_book

-----------------------------------------------------------------------------
\* chain[0] is a row, and each next one the row that the one before amends.
IsChain(chain, n) ==
  /\ chain \in [0..n -> DOMAIN book]
  /\ \A k \in 1..n : book[chain[k - 1]].amends = chain[k]

\* However long, a chain of amendments stays in one account and leads to ever
\* earlier rows: it ends after as many rows as there are, at one that amends none.
ChainsStayInAccount ==
  \A n \in Nat : \A chain \in [0..n -> DOMAIN book] : IsChain(chain, n) =>
    /\ n < Len(book)
    /\ \A k \in 0..n : book[chain[k]].account = book[chain[0]].account

\* What was written stays as it was written, and stays where it was.
RowsStay == [][\A i \in DOMAIN book : i \in DOMAIN book' /\ book'[i] = book[i]]_book
=============================================================================
