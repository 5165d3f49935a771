-------------------------------- MODULE Imports --------------------------------
(***************************************************************************)
(* Manual imports of CSV files (routers/imports.py, services/               *)
(* import_service.py, importers/, migrations 0018 and 0021): positions,     *)
(* transactions and cash balances, each file in one transaction that works  *)
(* through its rows.                                                        *)
(*                                                                          *)
(* A row of a file costs several statements: SELECT and INSERT of the asset *)
(* it is about, SELECT and INSERT or UPDATE of the record.  Two imports at  *)
(* a time see each other's rows only after the commit, and wait for each    *)
(* other where PostgreSQL makes them: on a row that the other has updated,  *)
(* and on a unique key that the other has inserted.                         *)
(*                                                                          *)
(* Files are validated before the first statement (validate_batch), so only *)
(* valid ones are here.                                                     *)
(***************************************************************************)
EXTENDS Integers, Sequences

CONSTANTS
  Importers,   \* requests that can be served at a time
  Nobody,      \* stands for no importer
  Files,       \* files an owner may upload, any number of times
  Table,       \* the table that a file is for
  Rows,        \* the rows of a file
  None,        \* an optional column that is empty
  Accounts,    \* the provider_account_id of existing accounts
  MaxAssets    \* bound: identities of assets

Tables == {"positions", "transactions", "cash_balances"}

RowsOf(f) == {Rows[f][i] : i \in DOMAIN Rows[f]}
RecordsOf(f) == {row.record : row \in RowsOf(f)}
Records      == UNION {RecordsOf(f) : f \in Files}

ASSUME NobodyAssumption == Nobody \notin Importers
ASSUME NoneAssumption   == None \notin Files
ASSUME FilesAssumption  ==
  /\ Table \in [Files -> Tables] /\ DOMAIN Rows = Files
  /\ \A f \in Files : Rows[f] \in Seq(RowsOf(f))
ASSUME MaxAssetsAssumption == MaxAssets \in Nat

\* What validate_batch lets pass: no record twice (identifiers that differ only in blanks
\* around them are not considered here), and a position has a symbol; a balance has no
\* column for one.
Valid(f) ==
  /\ Rows[f] # <<>>
  /\ \A i, j \in DOMAIN Rows[f] : Rows[f][i].record = Rows[f][j].record => i = j
  /\ \A row \in RowsOf(f) :
       /\ Table[f] = "positions" => row.symbol # None
       /\ Table[f] = "cash_balances" => row.symbol = None

ASSUME RowsAssumption == \A f \in Files : Valid(f)

VARIABLES
  assets,    \* rows of assets, with the importer whose transaction has inserted them
  stored,    \* committed rows of the three tables, by source_record_id
  import     \* the import each importer is in, and what it has written

vars == <<assets, stored, import>>

-------------------------------------------------------------------------------
Isins   == {row.isin : row \in UNION {RowsOf(f) : f \in Files}} \cup {None}
Symbols == {row.symbol : row \in UNION {RowsOf(f) : f \in Files}} \cup {None}
Exchanges == {row.exchange : row \in UNION {RowsOf(f) : f \in Files}} \cup {None}

\* The identity of an asset; by: Nobody once it is committed.
Asset   == [isin : Isins, symbol : Symbols, exchange : Exchanges,
            by : Importers \cup {Nobody}]
NoAsset == [isin |-> None, symbol |-> None, exchange |-> None, by |-> Nobody]

\* A stored row shows the file it was last imported from (a column that the file leaves
\* empty keeps its value), and names an asset, 0 for none.
Stored == [file : Files, asset : 0..MaxAssets]
NoRow  == [file |-> None, asset |-> 0]

\* Where an import is with row i: at its start, looking for the asset, about to insert
\* or to enrich it, looking for the record, about to insert that.  written, enriched:
\* the records and the exchanges of assets it has written.
NothingWritten  == [r \in Records |-> NoRow]
NothingEnriched == [a \in 1..MaxAssets |-> None]

Idle == [at |-> "idle", file |-> None, i |-> 0, asset |-> 0, errors |-> FALSE,
         written |-> NothingWritten, enriched |-> NothingEnriched]

Places == {"idle", "row", "asset", "new-asset", "enrich", "record", "insert"}

Import == [at : Places, file : Files \cup {None}, i : Nat, asset : 0..MaxAssets,
           errors : BOOLEAN, written : [Records -> Stored \cup {NoRow}],
           enriched : [1..MaxAssets -> Exchanges]]

At(c, place) == import[c].at = place
File(c)  == import[c].file
Row(c)   == Rows[File(c)][import[c].i]
Rest(c)  == import[c].i <= Len(Rows[File(c)])
Exists(a) == assets[a].symbol # None

Init ==
  /\ assets = [a \in 1..MaxAssets |-> NoAsset]
  /\ stored = [t \in Tables |-> [r \in Records |-> NoRow]]
  /\ import = [c \in Importers |-> Idle]

\* The row is done; on to the next.
NextRow(c, written, errors) ==
  import' = [import EXCEPT ![c].at = "row", ![c].i = @ + 1, ![c].asset = 0,
                           ![c].written = written, ![c].errors = @ \/ errors]

Goes(c, place, asset) == import' = [import EXCEPT ![c].at = place, ![c].asset = asset]

-------------------------------------------------------------------------------
(* What a transaction sees, waits for, and collides with *)

Committed(t, r) == stored[t][r] # NoRow

\* Mutant: assets of transactions that are not committed are visible.
Visible_Dirty(c) == {a \in DOMAIN assets : Exists(a)}

Visible(c) == {a \in DOMAIN assets : Exists(a) /\ assets[a].by \in {Nobody, c}}

ExchangeSeen(c, a) ==
  IF import[c].enriched[a] # None THEN import[c].enriched[a] ELSE assets[a].exchange

\* uq_assets_isin, uq_assets_symbol_exchange_currency: NULLs are never equal.
SameIsin(x, y)    == x.isin # None /\ x.isin = y.isin
SameListing(x, y) == x.exchange # None /\ x.symbol = y.symbol /\ x.exchange = y.exchange

\* Asset a as the importer d has left it, committed or not.
AsLeftBy(d, a) == [assets[a] EXCEPT !.exchange = ExchangeSeen(d, a)]

\* The asset row that c is about to write.
AssetToWrite(c) ==
  IF At(c, "enrich") THEN [assets[import[c].asset] EXCEPT !.exchange = Row(c).exchange]
  ELSE [isin |-> Row(c).isin, symbol |-> Row(c).symbol, exchange |-> Row(c).exchange,
        by |-> c]

Collides(c, x) ==
  SameListing(AssetToWrite(c), x) \/ (At(c, "new-asset") /\ SameIsin(AssetToWrite(c), x))

\* Another transaction has written what c is about to write, and has not ended.
Blocks(d, c) ==
  CASE import[c].at \in {"new-asset", "enrich"} ->
         \/ \E a \in DOMAIN assets :
              /\ assets[a].by = d \/ import[d].enriched[a] # None
              /\ Collides(c, AsLeftBy(d, a))
         \/ At(c, "enrich") /\ import[d].enriched[import[c].asset] # None
    [] At(c, "record") \/ At(c, "insert") ->
         Table[File(c)] = Table[File(d)] /\ import[d].written[Row(c).record] # NoRow
    [] OTHER -> FALSE

WaitsFor(c) ==
  {d \in Importers \ {c} : ~At(d, "idle") /\ Blocks(d, c)}

Unblocked(c) == WaitsFor(c) = {}

\* A committed row has the unique key that c is about to insert.
Taken(c) ==
  \/ /\ import[c].at \in {"new-asset", "enrich"}
     /\ \E a \in DOMAIN assets :
          /\ Exists(a) /\ assets[a].by \in {Nobody, c}
          /\ At(c, "enrich") => a # import[c].asset
          /\ Collides(c, AsLeftBy(c, a))
  \/ At(c, "insert") /\ Committed(Table[File(c)], Row(c).record)

-------------------------------------------------------------------------------
(* The rows of a file, one by one *)

Begins(c, f) ==
  /\ At(c, "idle")
  /\ import' = [import EXCEPT ![c] = [Idle EXCEPT !.at = "row", !.file = f, !.i = 1]]
  /\ UNCHANGED <<assets, stored>>

\* A transaction that is stored already; import_transactions looks first.
Duplicate(c) == Table[File(c)] = "transactions" /\ Committed("transactions", Row(c).record)

SkipsDuplicate(c) ==
  /\ At(c, "row") /\ Rest(c)
  /\ Duplicate(c)
  /\ NextRow(c, import[c].written, FALSE)
  /\ UNCHANGED <<assets, stored>>

\* The error is noted, and the import goes on with the next row.
UnknownAccount(c) ==
  /\ At(c, "row") /\ Rest(c)
  /\ ~Duplicate(c)
  /\ Row(c).account \notin Accounts
  /\ NextRow(c, import[c].written, TRUE)
  /\ UNCHANGED <<assets, stored>>

\* Where a row goes on once its asset, if it has one, is known.
ToRecord(c) == IF Table[File(c)] = "transactions" THEN "insert" ELSE "record"

KnownAccount(c) ==
  /\ At(c, "row") /\ Rest(c)
  /\ ~Duplicate(c)
  /\ Row(c).account \in Accounts
  /\ Goes(c, IF Row(c).symbol # None THEN "asset" ELSE ToRecord(c), 0)
  /\ UNCHANGED <<assets, stored>>

-------------------------------------------------------------------------------
(* resolve_asset *)

\* By ISIN, and if there is none by symbol and exchange.
Matches(c) ==
  LET byIsin == {a \in Visible(c) : SameIsin(assets[a], Row(c))}
  IN  IF byIsin # {} THEN byIsin
      ELSE {a \in Visible(c) : /\ assets[a].symbol = Row(c).symbol
                               /\ ExchangeSeen(c, a) = Row(c).exchange}

\* _enrich_asset: an asset without an exchange takes the one of the row.
FindsAsset(c) ==
  /\ At(c, "asset")
  /\ \E a \in Matches(c) :
       Goes(c, IF ExchangeSeen(c, a) = None /\ Row(c).exchange # None
               THEN "enrich" ELSE ToRecord(c), a)
  /\ UNCHANGED <<assets, stored>>

FindsNoAsset(c) ==
  /\ At(c, "asset")
  /\ Matches(c) = {}
  /\ Goes(c, "new-asset", 0)
  /\ UNCHANGED <<assets, stored>>

InsertsAsset(c) ==
  /\ At(c, "new-asset")
  /\ Unblocked(c) /\ ~Taken(c)
  /\ \E a \in DOMAIN assets :
       /\ ~Exists(a) /\ \A b \in 1..(a - 1) : Exists(b)
       /\ assets' = [assets EXCEPT ![a] = AssetToWrite(c)]
       /\ Goes(c, ToRecord(c), a)
  /\ UNCHANGED stored

EnrichesAsset(c) ==
  /\ At(c, "enrich")
  /\ Unblocked(c) /\ ~Taken(c)
  /\ import' = [import EXCEPT ![c].at = ToRecord(c),
                              ![c].enriched[import[c].asset] = Row(c).exchange]
  /\ UNCHANGED <<assets, stored>>

-------------------------------------------------------------------------------
(* _upsert_position, _upsert_cash_balance, and the insertion of a transaction *)

Written(c, asset) ==
  [import[c].written EXCEPT ![Row(c).record] = [file |-> File(c), asset |-> asset]]

\* SELECT ... FOR UPDATE finds the record: it gets new values, and keeps its asset.
Updates(c) ==
  LET old == stored[Table[File(c)]][Row(c).record]
  IN  /\ At(c, "record")
      /\ old # NoRow
      /\ Unblocked(c)
      /\ NextRow(c, Written(c, old.asset), FALSE)
      /\ UNCHANGED <<assets, stored>>

FindsNoRecord(c) ==
  /\ At(c, "record")
  /\ ~Committed(Table[File(c)], Row(c).record)
  /\ Goes(c, "insert", import[c].asset)
  /\ UNCHANGED <<assets, stored>>

Inserts(c) ==
  /\ At(c, "insert")
  /\ Unblocked(c) /\ ~Taken(c)
  /\ NextRow(c, Written(c, import[c].asset), FALSE)
  /\ UNCHANGED <<assets, stored>>

-------------------------------------------------------------------------------
(* The end of the transaction *)

Commits(c) ==
  /\ assets' = [a \in DOMAIN assets |->
       [assets[a] EXCEPT !.exchange = ExchangeSeen(c, a),
                         !.by = IF @ = c THEN Nobody ELSE @]]
  /\ stored' = [stored EXCEPT ![Table[File(c)]] =
       [r \in Records |-> IF import[c].written[r] # NoRow THEN import[c].written[r] ELSE @[r]]]
  /\ import' = [import EXCEPT ![c] = Idle]

RollsBack(c) ==
  /\ assets' = [a \in DOMAIN assets |-> IF assets[a].by = c THEN NoAsset ELSE assets[a]]
  /\ import' = [import EXCEPT ![c] = Idle]
  /\ UNCHANGED stored

Accepts(c) ==
  /\ At(c, "row") /\ ~Rest(c)
  /\ ~import[c].errors
  /\ Commits(c)

\* Mutant: the rows without errors are kept.
Refuses_KeepsTheRest(c) ==
  /\ At(c, "row") /\ ~Rest(c)
  /\ import[c].errors
  /\ Commits(c)

\* The answer lists the errors.
Refuses(c) ==
  /\ At(c, "row") /\ ~Rest(c)
  /\ import[c].errors
  /\ RollsBack(c)

\* The statement violates a unique constraint.
Fails(c) == Taken(c) /\ RollsBack(c)

\* Mutant: PostgreSQL does not look for deadlocks.
Deadlocked_Unseen(c) == FALSE /\ UNCHANGED vars

\* Everyone in a set of imports waits for another one in it: PostgreSQL ends one.
Deadlocked(c) ==
  /\ \E waiting \in SUBSET Importers :
       /\ c \in waiting
       /\ \A d \in waiting : WaitsFor(d) \cap waiting # {}
  /\ RollsBack(c)

-------------------------------------------------------------------------------
Proceeds(c) ==
  \/ SkipsDuplicate(c) \/ UnknownAccount(c) \/ KnownAccount(c)
  \/ FindsAsset(c) \/ FindsNoAsset(c) \/ InsertsAsset(c) \/ EnrichesAsset(c)
  \/ Updates(c) \/ FindsNoRecord(c) \/ Inserts(c)
  \/ Accepts(c) \/ Refuses(c) \/ Fails(c) \/ Deadlocked(c)

Next == \E c \in Importers : Proceeds(c) \/ \E f \in Files : Begins(c, f)

Spec == Init /\ [][Next]_vars

\* Requests run on, and PostgreSQL queues those who wait for the same key.
FairSpec == Spec /\ \A c \in Importers : SF_vars(Proceeds(c))

-------------------------------------------------------------------------------
(* Properties *)

TypeOK ==
  /\ assets \in [1..MaxAssets -> Asset]
  /\ stored \in [Tables -> [Records -> Stored \cup {NoRow}]]
  /\ import \in [Importers -> Import]

\* What stored rows become when file f is imported whole: each of its records has the
\* values of f, except transactions that were there before and are skipped; the records
\* of other files and tables stay as they are.
Replaces(f) ==
  \A t \in Tables, r \in Records :
    IF t = Table[f] /\ r \in RecordsOf(f) /\ ~(t = "transactions" /\ Committed(t, r))
    THEN stored'[t][r].file = f
    ELSE stored'[t][r] = stored[t][r]

\* A file is imported with all its rows or not at all, over the rows that are stored at
\* that moment: a row that fails takes those with it that were written before it, whether
\* new or updated, and two files that are imported at a time are never mixed.
AllOrNothing == [][\E f \in Files : Replaces(f)]_stored

\* A stored row names an asset that is committed, and is the one the row is about:
\* resolved while assets of other imports come, go and take exchanges.
AssetsKept ==
  /\ TypeOK
  /\ \A t \in Tables, r \in Records :
       LET a == stored[t][r].asset
       IN  a # 0 => /\ Exists(a) /\ assets[a].by = Nobody
                    /\ \E f \in Files : \E row \in RowsOf(f) :
                         row.record = r /\ (row.symbol = assets[a].symbol
                                            \/ SameIsin(row, assets[a]))

\* Every import is answered, although imports wait for each other's rows.
ImportsEnd == \A c \in Importers : ~At(c, "idle") ~> At(c, "idle")

\* Documents say that symbol, exchange and currency identify an asset.
AssetsDistinct ==
  \A a, b \in DOMAIN assets :
    /\ a # b /\ Exists(a) /\ Exists(b)
    /\ assets[a].by = Nobody /\ assets[b].by = Nobody
    => ~(assets[a].symbol = assets[b].symbol /\ assets[a].exchange = assets[b].exchange)
===============================================================================
