------------------------------- MODULE MCImports -------------------------------
(* Instances of Imports for TLC. *)
EXTENDS Imports

CONSTANTS p1, p2, t1, t2, b1, b2, acme, beta, nyse, isin1, acct

Line(record, account, isin, symbol, exchange) ==
  [record |-> record, account |-> account, isin |-> isin, symbol |-> symbol,
   exchange |-> exchange]

\* Two position files with the same records in opposite orders, one with an ISIN and
\* no exchange; two files that give one transaction differently, one of them with a second;
\* balances of which one has no account.
MCTable == [positions |-> "positions", reversed |-> "positions",
            trades |-> "transactions", amended |-> "transactions", balances |-> "cash_balances"]

MCRows ==
  [positions |-> <<Line(p1, acct, isin1, acme, None), Line(p2, acct, None, beta, None)>>,
   reversed  |-> <<Line(p2, acct, None, beta, nyse), Line(p1, acct, isin1, acme, nyse)>>,
   trades    |-> <<Line(t1, acct, None, acme, nyse)>>,
   amended   |-> <<Line(t1, acct, None, beta, nyse), Line(t2, acct, None, beta, nyse)>>,
   balances  |-> <<Line(b1, acct, None, None, None), Line(b2, None, None, None, None)>>]

MCFiles == DOMAIN MCTable

\* One file with one row, which has neither ISIN nor exchange.
PlainTable == [plain |-> "positions"]
PlainRows  == [plain |-> <<Line(p2, acct, None, beta, None)>>]
PlainFiles == {"plain"}
===============================================================================
