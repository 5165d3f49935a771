------------------------------ MODULE EdgesProofs ------------------------------
(***************************************************************************)
(* Proofs about the edges of the system, each for itself: Imports, for any  *)
(* files, importers and accounts; Backups, for any processes and records    *)
(* and any lengths and numbers of periods; PolicyPage, for any values,      *)
(* bounds and page sizes.                                                   *)
(*                                                                          *)
(* Imports: an import without errors has written every row it has passed,   *)
(* or found it stored where that means to skip it; no other import has      *)
(* written the same record, and none stores it before this one ends.  The   *)
(* assets it has chosen are its own or committed, so that no other import   *)
(* takes them away.                                                         *)
(*                                                                          *)
(* Backups: as more backups end, fewer of the earlier ones are among the    *)
(* newest of the last periods; what a process has decided to delete never   *)
(* gets back among them, however late it deletes.  An age that nobody waits *)
(* for belongs to a record that runs or failed, and has no artifact.         *)
(*                                                                          *)
(* PolicyPage: whatever draft a page or a request carries is one the server *)
(* has had, and equal revisions of it have equal contents; while more of    *)
(* the history is asked for, nothing else moves its end.                    *)
(***************************************************************************)
EXTENDS Imports, Backups, PolicyPage, SequenceTheorems, FiniteSetTheorems, FunctionTheorems,
        WellFoundedInduction, TLAPS

-------------------------------------------------------------------------------
(* Imports: the invariant *)

\* c may use the asset a.
Usable(c, a, as) == as[a].symbol # None /\ as[a].by \in {Nobody, c}

IsAbout(row, asset) == row.symbol = asset.symbol \/ SameIsin(row, asset)

\* Some row of a file about this record is about this asset.
Named(r, asset) == \E f \in Files : \E row \in RowsOf(f) : row.record = r /\ IsAbout(row, asset)

\* The record r of the file that m imports is written, or skipped.
Covered(m, r, st) ==
  m.written[r] # NoRow \/ (Table[m.file] = "transactions" /\ st["transactions"][r] # NoRow)

\* Row j of the file that m imports is done.
Passed(m, j, st) == Covered(m, Rows[m.file][j].record, st)

\* The import m of c agrees with assets and stored rows.
Works(c, m, as, st) ==
  /\ m.at = "idle" => m = Idle
  /\ m.at # "idle" => m.file \in Files /\ m.i \in 1..Len(Rows[m.file]) + 1
  /\ m.at \notin {"idle", "row"} => m.i <= Len(Rows[m.file])
  /\ m.at \in {"asset", "new-asset", "enrich"} => Rows[m.file][m.i].symbol # None
  /\ m.at = "record" => Table[m.file] # "transactions"
  /\ m.at # "idle" /\ ~m.errors => \A j \in 1..m.i - 1 : Passed(m, j, st)
  /\ \A r \in Records : m.written[r] # NoRow =>
       /\ m.written[r].file = m.file /\ r \in RecordsOf(m.file)
       /\ m.written[r].asset # 0 =>
            Usable(c, m.written[r].asset, as) /\ Named(r, as[m.written[r].asset])
  /\ m.at \notin {"idle", "row"} /\ m.asset # 0 =>
       Usable(c, m.asset, as) /\ IsAbout(Rows[m.file][m.i], as[m.asset])

\* Where ms are the imports and st is what is stored: nobody but c has written r of table t,
\* nor stored it where that would make c skip it.
OnlyWriter(c, r, t, ms, st) ==
  /\ \A d \in Importers \ {c} : ms[d].written[r] # NoRow => Table[ms[d].file] # t
  /\ t = "transactions" => st[t][r] = NoRow

WritesApart ==
  \A c \in Importers, r \in Records :
    import[c].written[r] # NoRow => OnlyWriter(c, r, Table[import[c].file], import, stored)

IInv ==
  /\ AssetsKept
  /\ WritesApart
  /\ \A c \in Importers : Works(c, import[c], assets, stored)

\* What c may use stays usable and the same; what is stored stays.
Keeps(c, as, new) ==
  \A a \in 1..MaxAssets : Usable(c, a, as) =>
    Usable(c, a, new) /\ new[a].symbol = as[a].symbol /\ new[a].isin = as[a].isin

Later(st, new) == \A t \in Tables, r \in Records : st[t][r] # NoRow => new[t][r] # NoRow

-------------------------------------------------------------------------------
LEMMA RowsAre ==
  ASSUME NEW f \in Files
  PROVE  /\ Len(Rows[f]) \in Nat /\ DOMAIN Rows[f] = 1..Len(Rows[f])
         /\ Table[f] \in Tables
         /\ \A i \in 1..Len(Rows[f]) :
              /\ Rows[f][i] \in RowsOf(f) /\ Rows[f][i].record \in Records
              /\ Rows[f][i].isin \in Isins /\ Rows[f][i].symbol \in Symbols
              /\ Rows[f][i].exchange \in Exchanges
         /\ \A row \in RowsOf(f) : \E i \in 1..Len(Rows[f]) : row = Rows[f][i]
<1>1. Rows[f] \in Seq(RowsOf(f)) /\ Table[f] \in Tables  BY FilesAssumption
<1>2. Len(Rows[f]) \in Nat /\ DOMAIN Rows[f] = 1..Len(Rows[f])  BY <1>1, LenProperties
<1>3. ASSUME NEW i \in 1..Len(Rows[f]) PROVE Rows[f][i] \in RowsOf(f)
  BY <1>2 DEF RowsOf
<1>4. ASSUME NEW row \in RowsOf(f)
      PROVE  /\ row.record \in Records /\ row.isin \in Isins /\ row.symbol \in Symbols
             /\ row.exchange \in Exchanges
  <2>1. row \in UNION {RowsOf(g) : g \in Files}  BY <1>4
  <2> QED BY <1>4, <2>1 DEF Records, RecordsOf, Isins, Symbols, Exchanges
<1>5. \A row \in RowsOf(f) : \E i \in 1..Len(Rows[f]) : row = Rows[f][i]
  BY <1>2 DEF RowsOf
<1> QED BY <1>1, <1>2, <1>3, <1>4, <1>5

LEMMA WrittenIsSome ==
  ASSUME NEW f \in Files, NEW a \in 0..MaxAssets
  PROVE  /\ [file |-> f, asset |-> a] \in Stored /\ [file |-> f, asset |-> a] # NoRow
BY NoneAssumption DEF Stored, NoRow

LEMMA StoredHasFile == ASSUME NEW x \in Stored PROVE x # NoRow /\ x.file \in Files
BY NoneAssumption DEF Stored, NoRow

\* An import agrees with later assets and rows.
LEMMA StillWorks ==
  ASSUME NEW c, NEW m \in Import, NEW as, NEW asNew, NEW st, NEW stNew,
         Works(c, m, as, st), Keeps(c, as, asNew), Later(st, stNew)
  PROVE  Works(c, m, asNew, stNew)
<1>1. ASSUME NEW a \in 0..MaxAssets, a # 0, Usable(c, a, as)
      PROVE  /\ Usable(c, a, asNew)
             /\ \A row : IsAbout(row, as[a]) => IsAbout(row, asNew[a])
             /\ \A r : Named(r, as[a]) => Named(r, asNew[a])
  <2>1. a \in 1..MaxAssets  BY <1>1, MaxAssetsAssumption
  <2>2. Usable(c, a, asNew) /\ asNew[a].symbol = as[a].symbol /\ asNew[a].isin = as[a].isin
    BY <1>1, <2>1 DEF Keeps
  <2> QED BY <2>2 DEF IsAbout, Named, SameIsin
<1>2. ASSUME m.at # "idle", NEW j \in 1..m.i - 1, Passed(m, j, st) PROVE Passed(m, j, stNew)
  <2>1. m.file \in Files /\ m.i \in 1..Len(Rows[m.file]) + 1  BY <1>2 DEF Works
  <2>2. j \in 1..Len(Rows[m.file])  BY <2>1, RowsAre
  <2>3. "transactions" \in Tables /\ Rows[m.file][j].record \in Records
    BY <2>1, <2>2, RowsAre DEF Tables
  <2> QED BY <1>2, <2>3 DEF Passed, Covered, Later
<1>3. ASSUME NEW r \in Records, m.written[r] # NoRow, m.written[r].asset # 0
      PROVE  Usable(c, m.written[r].asset, asNew) /\ Named(r, asNew[m.written[r].asset])
  <2>1. m.written[r] \in Stored  BY <1>3 DEF Import
  <2>2. m.written[r].asset \in 0..MaxAssets  BY <2>1 DEF Stored
  <2>3. Usable(c, m.written[r].asset, as) /\ Named(r, as[m.written[r].asset])
    BY <1>3 DEF Works
  <2> QED BY <1>1, <1>3, <2>2, <2>3
<1>4. m.at \notin {"idle", "row"} /\ m.asset # 0 =>
        Usable(c, m.asset, asNew) /\ IsAbout(Rows[m.file][m.i], asNew[m.asset])
  BY <1>1 DEF Works, Import
<1> QED BY <1>2, <1>3, <1>4 DEF Works

\* What an import writes is written by nobody else.
LEMMA ApartKeeps ==
  ASSUME IInv, NEW c \in Importers, NEW m \in Import, import' = [import EXCEPT ![c] = m],
         UNCHANGED stored,
         \A r \in Records : m.written[r] # NoRow =>
           \/ import[c].written[r] # NoRow /\ m.file = import[c].file
           \/ OnlyWriter(c, r, Table[m.file], import, stored)
  PROVE  WritesApart'
<1>1. import \in [Importers -> Import]  BY DEF IInv, AssetsKept, TypeOK
<1>2. \A d \in Importers : import'[d] = IF d = c THEN m ELSE import[d]  BY <1>1
<1>3. \A r \in Records : m.written[r] # NoRow => OnlyWriter(c, r, Table[m.file], import, stored)
  BY DEF IInv, WritesApart
<1> SUFFICES ASSUME NEW d \in Importers, NEW r \in Records, import'[d].written[r] # NoRow
             PROVE  OnlyWriter(d, r, Table[import'[d].file], import', stored')
  BY DEF WritesApart
<1>4. CASE d = c  BY <1>2, <1>3, <1>4 DEF OnlyWriter
<1>5. CASE d # c
  <2>1. import[d].written[r] # NoRow /\ import'[d] = import[d]  BY <1>2, <1>5
  <2>2. OnlyWriter(d, r, Table[import[d].file], import, stored)  BY <2>1 DEF IInv, WritesApart
  <2>3. m.written[r] # NoRow => Table[m.file] # Table[import[d].file]
    BY <1>3, <1>5, <2>1 DEF OnlyWriter
  <2> QED BY <1>2, <2>1, <2>2, <2>3 DEF OnlyWriter
<1> QED BY <1>4, <1>5

\* An import moves on by itself.
LEMMA LocalKeeps ==
  ASSUME IInv, NEW c \in Importers, NEW m \in Import, import' = [import EXCEPT ![c] = m],
         UNCHANGED <<assets, stored>>, Works(c, m, assets, stored), WritesApart'
  PROVE  IInv'
<1>1. TypeOK  BY DEF IInv, AssetsKept
<1>2. import' \in [Importers -> Import]
      /\ \A d \in Importers : import'[d] = IF d = c THEN m ELSE import[d]
  BY <1>1 DEF TypeOK
<1>3. TypeOK'  BY <1>1, <1>2 DEF TypeOK
<1>4. AssetsKept'  BY <1>3 DEF IInv, AssetsKept, Exists
<1>5. \A d \in Importers : Works(d, import'[d], assets', stored')  BY <1>2 DEF IInv
<1> QED BY <1>4, <1>5 DEF IInv

\* The places of a row, when its asset is known.
LEMMA GoesKeeps ==
  ASSUME IInv, NEW c \in Importers, ~At(c, "idle"), Rest(c),
         NEW place \in Places \ {"idle", "row"}, NEW a \in 0..MaxAssets,
         Goes(c, place, a), UNCHANGED <<assets, stored>>,
         place \in {"asset", "new-asset", "enrich"} => Row(c).symbol # None,
         place = "record" => Table[File(c)] # "transactions",
         a # 0 => Usable(c, a, assets) /\ IsAbout(Row(c), assets[a])
  PROVE  IInv'
<1> DEFINE m == [import[c] EXCEPT !.at = place, !.asset = a]
<1>1. import[c] \in Import /\ Works(c, import[c], assets, stored)
  BY DEF IInv, AssetsKept, TypeOK
<1>2. /\ m \in Import /\ m.at = place /\ m.asset = a /\ m.i = import[c].i
      /\ m.file = import[c].file /\ m.errors = import[c].errors
      /\ m.written = import[c].written
  BY <1>1 DEF Import
<1>3. import' = [import EXCEPT ![c] = m]
  BY DEF Goes, IInv, AssetsKept, TypeOK
<1> HIDE DEF m
<1>4. Works(c, m, assets, stored)
  BY <1>1, <1>2 DEF Works, Passed, Covered, At, Rest, Row, File
<1>5. WritesApart'  BY <1>2, <1>3, ApartKeeps
<1> QED BY <1>2, <1>3, <1>4, <1>5, LocalKeeps

\* A row is done.
LEMMA NextRowKeeps ==
  ASSUME IInv, NEW c \in Importers, ~At(c, "idle"), Rest(c),
         NEW written \in [Records -> Stored \cup {NoRow}], NEW errors \in BOOLEAN,
         NextRow(c, written, errors), UNCHANGED <<assets, stored>>,
         \A r \in Records : import[c].written[r] # NoRow => written[r] # NoRow,
         \A r \in Records : written[r] # import[c].written[r] =>
           /\ r = Row(c).record /\ OnlyWriter(c, r, Table[File(c)], import, stored)
           /\ written[r].file = File(c)
           /\ written[r].asset # 0 =>
                Usable(c, written[r].asset, assets) /\ Named(r, assets[written[r].asset]),
         ~errors => written[Row(c).record] # NoRow \/ Duplicate(c)
  PROVE  IInv'
<1> DEFINE old == import[c]
           m == [old EXCEPT !.at = "row", !.i = old.i + 1, !.asset = 0, !.written = written,
                            !.errors = old.errors \/ errors]
<1>1. old \in Import /\ Works(c, old, assets, stored)
  BY DEF IInv, AssetsKept, TypeOK
<1>2. old.file \in Files /\ old.i \in 1..Len(Rows[old.file]) /\ Len(Rows[old.file]) \in Nat
  BY <1>1, RowsAre DEF Works, At, Rest, File
<1>3. old.i + 1 \in Nat /\ 0 \in 0..MaxAssets /\ "row" \in Places
      /\ (old.errors \/ errors) \in BOOLEAN
  BY <1>2, MaxAssetsAssumption DEF Places
<1>4. /\ m \in Import /\ m.at = "row" /\ m.i = old.i + 1 /\ m.file = old.file
      /\ m.written = written /\ m.errors = (old.errors \/ errors)
  BY <1>1, <1>3 DEF Import
<1>5. import' = [import EXCEPT ![c] = m]
  BY DEF NextRow, IInv, AssetsKept, TypeOK
<1> HIDE DEF m
<1>6. ASSUME ~m.errors, NEW j \in 1..m.i - 1 PROVE Passed(m, j, stored)
  <2>0. j \in 1..Len(Rows[old.file]) /\ Rows[old.file][j].record \in Records
    BY <1>2, <1>4, <1>6, RowsAre
  <2>1. CASE j = old.i
    BY <1>4, <1>6, <2>1 DEF Passed, Covered, Row, File, Committed, Duplicate
  <2>2. CASE j # old.i
    <3>1. j \in 1..old.i - 1  BY <1>2, <1>4, <1>6, <2>2
    <3>2. Passed(old, j, stored)  BY <1>1, <1>4, <1>6, <3>1 DEF Works, At
    <3> QED BY <1>4, <2>0, <3>2 DEF Passed, Covered
  <2> QED BY <2>1, <2>2
<1>7. ASSUME NEW r \in Records, m.written[r] # NoRow
      PROVE  /\ m.written[r].file = m.file /\ r \in RecordsOf(m.file)
             /\ m.written[r].asset # 0 =>
                  Usable(c, m.written[r].asset, assets) /\ Named(r, assets[m.written[r].asset])
  <2>1. Row(c).record \in RecordsOf(old.file)  BY <1>2, RowsAre DEF RecordsOf, Row, File
  <2> QED BY <1>1, <1>4, <1>7, <2>1 DEF Works, File
<1>8. m.i \in 1..Len(Rows[m.file]) + 1  BY <1>2, <1>4
<1>9. Works(c, m, assets, stored)  BY <1>2, <1>4, <1>6, <1>7, <1>8 DEF Works
<1>10. WritesApart'  BY <1>4, <1>5, ApartKeeps DEF File
<1> QED BY <1>4, <1>5, <1>9, <1>10, LocalKeeps

-------------------------------------------------------------------------------
LEMMA IdleWorks == Idle \in Import /\ Idle.at = "idle" /\ \A c, as, st : Works(c, Idle, as, st)
<1>1. 0 \in 0..MaxAssets /\ 0 \in Nat /\ None \in Exchanges
  BY MaxAssetsAssumption DEF Exchanges
<1>2. NothingWritten \in [Records -> Stored \cup {NoRow}]
      /\ \A r \in Records : NothingWritten[r] = NoRow
  BY DEF NothingWritten
<1>3. NothingEnriched \in [1..MaxAssets -> Exchanges]  BY <1>1 DEF NothingEnriched
<1>4. /\ Idle \in Import /\ Idle.at = "idle" /\ Idle.written = NothingWritten
  BY <1>1, <1>2, <1>3 DEF Idle, Import, Places
<1> QED BY <1>2, <1>4 DEF Works

LEMMA BeginsKeeps == ASSUME IInv, NEW c \in Importers, NEW f \in Files, Begins(c, f) PROVE IInv'
<1> DEFINE m == [Idle EXCEPT !.at = "row", !.file = f, !.i = 1]
<1>1. /\ m \in Import /\ m.at = "row" /\ m.file = f /\ m.i = 1
      /\ m.written = Idle.written
  BY IdleWorks DEF Import, Places
<1>2. import' = [import EXCEPT ![c] = m] /\ UNCHANGED <<assets, stored>>
  BY DEF Begins, IInv, AssetsKept, TypeOK
<1> HIDE DEF m
<1>3. \A r \in Records : m.written[r] = NoRow  BY <1>1 DEF Idle, NothingWritten
<1>4. 1 \in 1..Len(Rows[f]) + 1 /\ 1..1 - 1 = {}  BY RowsAre
<1>5. Works(c, m, assets, stored)  BY <1>1, <1>3, <1>4 DEF Works
<1>6. WritesApart'  BY <1>1, <1>2, <1>3, ApartKeeps
<1> QED BY <1>1, <1>2, <1>5, <1>6, LocalKeeps

\* Of an import that is at a row: the row, and what is known of the import.
LEMMA AtRow ==
  ASSUME IInv, NEW c \in Importers, ~At(c, "idle"), Rest(c)
  PROVE  /\ File(c) \in Files /\ Table[File(c)] \in Tables
         /\ Row(c) \in RowsOf(File(c)) /\ Row(c).record \in Records
         /\ Row(c).isin \in Isins /\ Row(c).symbol \in Symbols /\ Row(c).exchange \in Exchanges
         /\ import[c] \in Import /\ Works(c, import[c], assets, stored)
<1>1. import[c] \in Import /\ Works(c, import[c], assets, stored)
  BY DEF IInv, AssetsKept, TypeOK
<1>2. File(c) \in Files /\ import[c].i \in 1..Len(Rows[File(c)])
  <2>1. File(c) \in Files /\ import[c].i \in 1..Len(Rows[File(c)]) + 1
    BY <1>1 DEF Works, At, File
  <2> QED BY <2>1, RowsAre DEF Rest
<1> QED BY <1>1, <1>2, RowsAre DEF Row

\* Anywhere but at the start or the end of a row there is one.
LEMMA InRow ==
  ASSUME IInv, NEW c \in Importers, import[c].at \notin {"idle", "row"}
  PROVE  ~At(c, "idle") /\ Rest(c)
BY DEF IInv, Works, At, Rest, File

LEMMA SameRowsKeep ==
  ASSUME IInv, NEW c \in Importers, At(c, "row"), Rest(c), NEW errors \in BOOLEAN,
         NextRow(c, import[c].written, errors), UNCHANGED <<assets, stored>>,
         ~errors => Duplicate(c)
  PROVE  IInv'
<1>1. ~At(c, "idle")  BY DEF At
<1>2. import[c].written \in [Records -> Stored \cup {NoRow}]  BY <1>1, AtRow DEF Import
<1> QED BY <1>1, <1>2, NextRowKeeps

LEMMA KnownAccountKeeps == ASSUME IInv, NEW c \in Importers, KnownAccount(c) PROVE IInv'
<1>1. ~At(c, "idle") /\ Rest(c) /\ UNCHANGED <<assets, stored>>  BY DEF KnownAccount, At
<1>2. 0 \in 0..MaxAssets  BY MaxAssetsAssumption
<1>3. CASE Row(c).symbol # None
  BY <1>1, <1>2, <1>3, GoesKeeps DEF KnownAccount, Places
<1>4. CASE Row(c).symbol = None
  <2>1. /\ ToRecord(c) \in {"insert", "record"} /\ Goes(c, ToRecord(c), 0)
        /\ ToRecord(c) = "record" => Table[File(c)] # "transactions"
    BY <1>4 DEF ToRecord, KnownAccount
  <2> QED BY <1>1, <1>2, <2>1, GoesKeeps DEF Places
<1> QED BY <1>3, <1>4

LEMMA FindsKeeps == ASSUME IInv, NEW c \in Importers, FindsAsset(c) \/ FindsNoAsset(c) PROVE IInv'
<1>1. ~At(c, "idle") /\ Rest(c) /\ UNCHANGED <<assets, stored>>
      /\ Row(c).symbol # None
  <2>1. import[c].at = "asset" /\ UNCHANGED <<assets, stored>>
    BY DEF FindsAsset, FindsNoAsset, At
  <2>2. ~At(c, "idle") /\ Rest(c)  BY <2>1, InRow
  <2> QED BY <2>1, <2>2, AtRow DEF Works, Row, File
<1>2. CASE FindsNoAsset(c)
  <2>1. 0 \in 0..MaxAssets  BY MaxAssetsAssumption
  <2> QED BY <1>1, <1>2, <2>1, GoesKeeps DEF FindsNoAsset, Places
<1>3. CASE FindsAsset(c)
  <2>1. PICK a \in Matches(c), place \in {"enrich", "record", "insert"} :
          Goes(c, place, a) /\ (place = "record" => Table[File(c)] # "transactions")
    BY <1>3 DEF FindsAsset, ToRecord
  <2>2. a \in DOMAIN assets /\ Usable(c, a, assets)
    BY <2>1 DEF Matches, Visible, Exists, Usable
  <2>3. a \in 0..MaxAssets  BY <2>2, MaxAssetsAssumption DEF IInv, AssetsKept, TypeOK
  <2>4. IsAbout(Row(c), assets[a])
    BY <2>1 DEF Matches, IsAbout, SameIsin
  <2> QED BY <1>1, <2>1, <2>2, <2>3, <2>4, GoesKeeps DEF Places
<1> QED BY <1>2, <1>3

LEMMA EnrichesKeeps == ASSUME IInv, NEW c \in Importers, EnrichesAsset(c) PROVE IInv'
<1>1. import[c].at = "enrich" /\ UNCHANGED <<assets, stored>>  BY DEF EnrichesAsset, At
<1>2. ~At(c, "idle") /\ Rest(c)  BY <1>1, InRow
<1> DEFINE old == import[c]
           enriched == [old.enriched EXCEPT ![old.asset] = Row(c).exchange]
           m == [old EXCEPT !.at = ToRecord(c), !.enriched = enriched]
<1>3. old \in Import /\ Works(c, old, assets, stored) /\ Row(c).exchange \in Exchanges
      /\ old.file \in Files
  BY <1>2, AtRow DEF File
<1>4. enriched \in [1..MaxAssets -> Exchanges]  BY <1>3 DEF Import
<1>5. ToRecord(c) \in {"insert", "record"}  BY DEF ToRecord
<1>6. /\ m \in Import /\ m.at = ToRecord(c) /\ m.file = old.file /\ m.i = old.i
      /\ m.asset = old.asset /\ m.errors = old.errors /\ m.written = old.written
  BY <1>3, <1>4, <1>5 DEF Import, Places
<1>7. import' = [import EXCEPT ![c] = m]
  BY <1>3 DEF EnrichesAsset, IInv, AssetsKept, TypeOK, Import
<1> HIDE DEF m
<1>8. Works(c, m, assets, stored)
  BY <1>1, <1>3, <1>5, <1>6 DEF Works, Passed, Covered, ToRecord, File
<1>9. WritesApart'  BY <1>1, <1>6, <1>7, ApartKeeps
<1> QED BY <1>1, <1>6, <1>7, <1>8, <1>9, LocalKeeps

\* Who may write a record is the only one to write it, and does not skip it.
LEMMA UnblockedIsAlone ==
  ASSUME IInv, NEW c \in Importers, import[c].at \in {"record", "insert"}, Unblocked(c),
         import[c].at = "insert" => ~Committed(Table[File(c)], Row(c).record)
  PROVE  OnlyWriter(c, Row(c).record, Table[File(c)], import, stored)
<1>1. ~At(c, "idle") /\ Rest(c)  BY InRow
<1>2. /\ Row(c).record \in Records
      /\ import[c].at = "record" => Table[File(c)] # "transactions"
  BY <1>1, AtRow DEF Works, File
<1>3. ASSUME NEW d \in Importers \ {c}, import[d].written[Row(c).record] # NoRow,
             Table[import[d].file] = Table[File(c)]
      PROVE  FALSE
  <2>1. ~At(d, "idle")
    BY <1>2, <1>3 DEF IInv, Works, At, Idle, NothingWritten
  <2>2. Blocks(d, c)  BY <1>3 DEF Blocks, At, File
  <2> QED BY <2>1, <2>2 DEF Unblocked, WaitsFor
<1> QED BY <1>2, <1>3 DEF OnlyWriter, Committed

LEMMA UpdatesKeeps == ASSUME IInv, NEW c \in Importers, Updates(c) PROVE IInv'
<1>1. import[c].at = "record" /\ UNCHANGED <<assets, stored>>  BY DEF Updates, At
<1>2. ~At(c, "idle") /\ Rest(c)  BY <1>1, InRow
<1> DEFINE r == Row(c).record
           a == stored[Table[File(c)]][r].asset
           new == [file |-> File(c), asset |-> a]
           written == [import[c].written EXCEPT ![r] = new]
<1>3. /\ File(c) \in Files /\ r \in Records /\ Table[File(c)] \in Tables
      /\ import[c] \in Import
  BY <1>2, AtRow
<1>4. stored[Table[File(c)]][r] \in Stored
  <2>1. stored[Table[File(c)]][r] # NoRow  BY DEF Updates
  <2>2. stored[Table[File(c)]] \in [Records -> Stored \cup {NoRow}]
    BY <1>3 DEF IInv, AssetsKept, TypeOK
  <2> QED BY <1>3, <2>1, <2>2
<1>5. a \in 0..MaxAssets  BY <1>4 DEF Stored
<1>6. new \in Stored /\ new # NoRow /\ new.file = File(c) /\ new.asset = a
  BY <1>3, <1>5, WrittenIsSome
<1>7. a # 0 => Usable(c, a, assets) /\ Named(r, assets[a])
  BY <1>3 DEF IInv, AssetsKept, Usable, Exists, Named, IsAbout
<1>8. NextRow(c, written, FALSE)  BY DEF Updates, Written
<1>9. /\ written \in [Records -> Stored \cup {NoRow}]
      /\ \A x \in Records : written[x] = IF x = r THEN new ELSE import[c].written[x]
  BY <1>3, <1>6 DEF Import
<1> HIDE DEF a, new, written
<1>10. /\ \A x \in Records : import[c].written[x] # NoRow => written[x] # NoRow
       /\ \A x \in Records : written[x] # import[c].written[x] => x = r /\ written[x] = new
       /\ written[r] = new
  BY <1>3, <1>6, <1>9
<1>a. OnlyWriter(c, r, Table[File(c)], import, stored)  BY <1>1, UnblockedIsAlone DEF Updates
<1>11. \A x \in Records : written[x] # import[c].written[x] =>
         /\ x = Row(c).record /\ OnlyWriter(c, x, Table[File(c)], import, stored)
         /\ written[x].file = File(c)
         /\ written[x].asset # 0 =>
              Usable(c, written[x].asset, assets) /\ Named(x, assets[written[x].asset])
  BY <1>a, <1>10, <1>6, <1>7
<1>12. written[Row(c).record] # NoRow  BY <1>10, <1>6
<1> HIDE DEF r
<1> QED BY <1>1, <1>2, <1>8, <1>9, <1>10, <1>11, <1>12, NextRowKeeps

LEMMA InsertsKeeps == ASSUME IInv, NEW c \in Importers, Inserts(c) PROVE IInv'
<1>1. import[c].at = "insert" /\ UNCHANGED <<assets, stored>>  BY DEF Inserts, At
<1>2. ~At(c, "idle") /\ Rest(c)  BY <1>1, InRow
<1> DEFINE r == Row(c).record
           a == import[c].asset
           new == [file |-> File(c), asset |-> a]
           written == [import[c].written EXCEPT ![r] = new]
<1>3. /\ File(c) \in Files /\ r \in Records /\ Row(c) \in RowsOf(File(c))
      /\ import[c] \in Import /\ Works(c, import[c], assets, stored)
  BY <1>2, AtRow
<1>4. a \in 0..MaxAssets  BY <1>3 DEF Import
<1>5. new \in Stored /\ new # NoRow /\ new.file = File(c) /\ new.asset = a
  BY <1>3, <1>4, WrittenIsSome
<1>6. a # 0 => Usable(c, a, assets) /\ Named(r, assets[a])
  <2> SUFFICES ASSUME a # 0 PROVE Usable(c, a, assets) /\ Named(r, assets[a])  OBVIOUS
  <2>1. Usable(c, a, assets) /\ IsAbout(Row(c), assets[a])
    BY <1>1, <1>3 DEF Works, Row, File
  <2> QED BY <1>3, <2>1 DEF Named
<1>7. NextRow(c, written, FALSE)  BY DEF Inserts, Written
<1>8. /\ written \in [Records -> Stored \cup {NoRow}]
      /\ \A x \in Records : written[x] = IF x = r THEN new ELSE import[c].written[x]
  BY <1>3, <1>5 DEF Import
<1> HIDE DEF a, new, written
<1>9. /\ \A x \in Records : import[c].written[x] # NoRow => written[x] # NoRow
      /\ \A x \in Records : written[x] # import[c].written[x] => x = r /\ written[x] = new
      /\ written[r] = new /\ new # NoRow
      /\ new.file = File(c) /\ new.asset = a
  BY <1>3, <1>5, <1>8
<1>a. OnlyWriter(c, r, Table[File(c)], import, stored)
  <2>1. ~Committed(Table[File(c)], Row(c).record)  BY DEF Inserts, Taken
  <2> QED BY <1>1, <2>1, UnblockedIsAlone DEF Inserts
<1>10. \A x \in Records : written[x] # import[c].written[x] =>
         /\ x = Row(c).record /\ OnlyWriter(c, x, Table[File(c)], import, stored)
         /\ written[x].file = File(c)
         /\ written[x].asset # 0 =>
              Usable(c, written[x].asset, assets) /\ Named(x, assets[written[x].asset])
  BY <1>a, <1>9, <1>6
<1>11. written[Row(c).record] # NoRow  BY <1>9
<1> HIDE DEF r
<1> QED BY <1>1, <1>2, <1>7, <1>8, <1>9, <1>10, <1>11, NextRowKeeps

LEMMA FindsNoRecordKeeps == ASSUME IInv, NEW c \in Importers, FindsNoRecord(c) PROVE IInv'
<1>1. import[c].at = "record" /\ UNCHANGED <<assets, stored>> /\ Goes(c, "insert", import[c].asset)
  BY DEF FindsNoRecord, At
<1>2. ~At(c, "idle") /\ Rest(c)  BY <1>1, InRow
<1>3. import[c] \in Import /\ Works(c, import[c], assets, stored)  BY <1>2, AtRow
<1>4. /\ import[c].asset \in 0..MaxAssets
      /\ import[c].asset # 0 => /\ Usable(c, import[c].asset, assets)
                                /\ IsAbout(Row(c), assets[import[c].asset])
  BY <1>1, <1>3 DEF Works, Import, Row, File
<1> QED BY <1>1, <1>2, <1>4, GoesKeeps DEF Places

-------------------------------------------------------------------------------
(* Assets and stored rows change *)

\* Everyone else's import agrees with assets and rows that came later.
LEMMA OthersKeep ==
  ASSUME IInv, NEW c \in Importers, NEW m \in Import, import' = [import EXCEPT ![c] = m],
         Works(c, m, assets', stored'),
         \A d \in Importers \ {c} : Keeps(d, assets, assets'), Later(stored, stored'),
         WritesApart', AssetsKept'
  PROVE  IInv'
<1>1. import \in [Importers -> Import]  BY DEF IInv, AssetsKept, TypeOK
<1>2. ASSUME NEW d \in Importers PROVE Works(d, import'[d], assets', stored')
  <2>1. CASE d = c  BY <1>1, <2>1
  <2>2. CASE d # c
    <3>1. Works(d, import[d], assets, stored)  BY DEF IInv
    <3>2. Works(d, import[d], assets', stored')  BY <1>1, <2>2, <3>1, StillWorks
    <3> QED BY <1>1, <2>2, <3>2
  <2> QED BY <2>1, <2>2
<1> QED BY <1>2 DEF IInv

LEMMA InsertsAssetKeeps == ASSUME IInv, NEW c \in Importers, InsertsAsset(c) PROVE IInv'
<1>0. TypeOK  BY DEF IInv, AssetsKept
<1>1. import[c].at = "new-asset" /\ UNCHANGED stored  BY DEF InsertsAsset, At
<1>2. ~At(c, "idle") /\ Rest(c)  BY <1>1, InRow
<1>3. PICK a \in 1..MaxAssets :
        /\ ~Exists(a) /\ assets' = [assets EXCEPT ![a] = AssetToWrite(c)]
        /\ Goes(c, ToRecord(c), a)
  BY <1>0 DEF InsertsAsset, TypeOK
<1> DEFINE old == import[c]
           m == [old EXCEPT !.at = ToRecord(c), !.asset = a]
           x == AssetToWrite(c)
<1>4. /\ Row(c).isin \in Isins /\ Row(c).symbol \in Symbols /\ Row(c).exchange \in Exchanges
      /\ old \in Import /\ Works(c, old, assets, stored) /\ Row(c).symbol # None
      /\ old.file \in Files
  <2>1. /\ Row(c).isin \in Isins /\ Row(c).symbol \in Symbols
        /\ Row(c).exchange \in Exchanges
        /\ old \in Import /\ Works(c, old, assets, stored) /\ old.file \in Files
    BY <1>2, AtRow DEF File
  <2> QED BY <1>1, <2>1 DEF Works, Row, File
<1>5. /\ x \in Asset /\ x.symbol = Row(c).symbol /\ x.isin = Row(c).isin /\ x.by = c
  BY <1>1, <1>4 DEF AssetToWrite, At, Asset
<1> HIDE DEF x
<1>6. /\ assets' \in [1..MaxAssets -> Asset]
      /\ \A b \in 1..MaxAssets : assets'[b] = IF b = a THEN x ELSE assets[b]
  BY <1>0, <1>3, <1>5 DEF x, TypeOK
<1>7. \A d \in Importers : Keeps(d, assets, assets')
  BY <1>3, <1>6 DEF Keeps, Usable, Exists
<1>8. ToRecord(c) \in {"insert", "record"}  BY DEF ToRecord
<1>9. /\ m \in Import /\ m.at = ToRecord(c) /\ m.file = old.file /\ m.i = old.i
      /\ m.asset = a /\ m.errors = old.errors /\ m.written = old.written
  <2>1. a \in 0..MaxAssets  BY MaxAssetsAssumption
  <2> QED BY <1>4, <1>8, <2>1 DEF Import, Places
<1>10. import' = [import EXCEPT ![c] = m]
  BY <1>0, <1>3 DEF Goes, TypeOK
<1> HIDE DEF m
<1>11. Works(c, m, assets', stored')
  <2>1. Later(stored, stored')  BY <1>1 DEF Later
  <2>2. Works(c, old, assets', stored')  BY <1>4, <1>7, <2>1, StillWorks
  <2>3. Usable(c, a, assets') /\ IsAbout(Row(c), assets'[a])
    BY <1>4, <1>5, <1>6 DEF Usable, IsAbout
  <2> QED BY <1>1, <1>4, <1>8, <1>9, <2>2, <2>3
          DEF Works, Passed, Covered, ToRecord, Row, File
<1>12. TypeOK'  BY <1>0, <1>1, <1>6, <1>9, <1>10 DEF TypeOK
<1>15. WritesApart'  BY <1>1, <1>9, <1>10, ApartKeeps
<1>13. AssetsKept'
  <2> SUFFICES ASSUME NEW t \in Tables, NEW r \in Records, NEW b, b = stored[t][r].asset, b # 0
               PROVE  /\ assets'[b].symbol # None /\ assets'[b].by = Nobody
                      /\ Named(r, assets'[b])
    BY <1>1, <1>12 DEF AssetsKept, Named, IsAbout, Exists
  <2>1. Exists(b) /\ assets[b].by = Nobody /\ Named(r, assets[b])
    BY DEF IInv, AssetsKept, Named, IsAbout
  <2>2. b \in 1..MaxAssets
    <3>1. stored[t][r] \in Stored \cup {NoRow}  BY <1>0 DEF TypeOK
    <3> QED BY <3>1, MaxAssetsAssumption DEF Stored, NoRow
  <2>3. assets'[b] = assets[b]  BY <1>3, <1>6, <2>1, <2>2
  <2> QED BY <2>1, <2>3 DEF Exists
<1>14. Later(stored, stored')  BY <1>1 DEF Later
<1> QED BY <1>7, <1>9, <1>10, <1>11, <1>13, <1>14, <1>15, OthersKeep

\* A rollback takes away the assets of c, which nobody else may use.
LEMMA RollsBackKeeps == ASSUME IInv, NEW c \in Importers, RollsBack(c) PROVE IInv'
<1>0. TypeOK  BY DEF IInv, AssetsKept
<1>1. /\ \A a \in 1..MaxAssets : assets'[a] = IF assets[a].by = c THEN NoAsset ELSE assets[a]
      /\ assets' \in [1..MaxAssets -> Asset]
      /\ import' = [import EXCEPT ![c] = Idle] /\ UNCHANGED stored
  <2>1. NoAsset \in Asset  BY DEF NoAsset, Asset, Isins, Symbols, Exchanges
  <2> QED BY <1>0, <2>1 DEF RollsBack, TypeOK
<1>2. \A d \in Importers \ {c} : Keeps(d, assets, assets')
  BY <1>1, NobodyAssumption DEF Keeps, Usable
<1>3. TypeOK'  BY <1>0, <1>1, IdleWorks DEF TypeOK
<1>6. WritesApart'  BY <1>1, IdleWorks, ApartKeeps DEF Idle, NothingWritten
<1>4. AssetsKept'
  <2> SUFFICES ASSUME NEW t \in Tables, NEW r \in Records, NEW b, b = stored[t][r].asset, b # 0
               PROVE  /\ assets'[b].symbol # None /\ assets'[b].by = Nobody
                      /\ Named(r, assets'[b])
    BY <1>1, <1>3 DEF AssetsKept, Named, IsAbout, Exists
  <2>1. Exists(b) /\ assets[b].by = Nobody /\ Named(r, assets[b])
    BY DEF IInv, AssetsKept, Named, IsAbout
  <2>2. b \in 1..MaxAssets
    <3>1. stored[t][r] \in Stored \cup {NoRow}  BY <1>0 DEF TypeOK
    <3> QED BY <3>1, MaxAssetsAssumption DEF Stored, NoRow
  <2>3. assets'[b] = assets[b]  BY <1>1, <2>1, <2>2, NobodyAssumption
  <2> QED BY <2>1, <2>3 DEF Exists
<1>5. Later(stored, stored')  BY <1>1 DEF Later
<1> QED BY <1>1, <1>2, <1>4, <1>5, <1>6, IdleWorks, OthersKeep

\* A commit of an import without errors: its file replaces what was stored of its records.
LEMMA AcceptsKeeps ==
  ASSUME IInv, NEW c \in Importers, Accepts(c)
  PROVE  IInv' /\ File(c) \in Files /\ Replaces(File(c))
<1> DEFINE old == import[c]
           f == File(c)
           t == Table[f]
<1>0. TypeOK /\ old \in Import /\ Works(c, old, assets, stored)
  BY DEF IInv, AssetsKept, TypeOK
<1>1. /\ f \in Files /\ t \in Tables /\ old.i = Len(Rows[f]) + 1 /\ ~old.errors
      /\ old.at = "row" /\ Len(Rows[f]) \in Nat
  <2>1. f \in Files /\ old.i \in 1..Len(Rows[f]) + 1 /\ old.at = "row" /\ ~old.errors
    BY <1>0 DEF Accepts, At, Works, File
  <2>2. Len(Rows[f]) \in Nat /\ t \in Tables  BY <2>1, RowsAre
  <2>3. ~(old.i <= Len(Rows[f]))  BY DEF Accepts, Rest
  <2> QED BY <2>1, <2>2, <2>3
<1>2. ASSUME NEW row \in RowsOf(f)
      PROVE  Covered(old, row.record, stored)
  <2>1. PICK i \in 1..Len(Rows[f]) : row = Rows[f][i]  BY <1>1, RowsAre
  <2>2. i \in 1..old.i - 1  BY <1>1
  <2>3. Passed(old, i, stored)  BY <1>0, <1>1, <2>2 DEF Works
  <2> QED BY <2>1, <2>3 DEF Passed, File
<1>3. /\ assets' = [a \in DOMAIN assets |->
                      [assets[a] EXCEPT !.exchange = ExchangeSeen(c, a),
                                        !.by = IF @ = c THEN Nobody ELSE @]]
      /\ stored' = [stored EXCEPT ![t] =
           [r \in Records |-> IF old.written[r] # NoRow THEN old.written[r] ELSE @[r]]]
      /\ import' = [import EXCEPT ![c] = Idle]
  BY DEF Accepts, Commits
<1>4. ASSUME NEW a \in 1..MaxAssets
      PROVE  /\ assets'[a] \in Asset
             /\ assets'[a].symbol = assets[a].symbol /\ assets'[a].isin = assets[a].isin
             /\ assets'[a].by = IF assets[a].by = c THEN Nobody ELSE assets[a].by
  <2>1. assets[a] \in Asset /\ DOMAIN assets = 1..MaxAssets  BY <1>0 DEF TypeOK
  <2> DEFINE by == IF assets[a].by = c THEN Nobody ELSE assets[a].by
             e == ExchangeSeen(c, a)
             new == [assets[a] EXCEPT !.exchange = e, !.by = by]
  <2>2. assets'[a] = new  BY <1>3, <2>1
  <2>3. e \in Exchanges  BY <1>0, <2>1 DEF ExchangeSeen, Import, Asset
  <2>4. by \in Importers \cup {Nobody}  BY <2>1 DEF Asset
  <2> HIDE DEF e, by
  <2>5. /\ new \in Asset /\ new.symbol = assets[a].symbol /\ new.isin = assets[a].isin
        /\ new.by = by
    BY <2>1, <2>3, <2>4 DEF Asset
  <2> QED BY <2>2, <2>5 DEF by
<1>5. ASSUME NEW u \in Tables, NEW r \in Records
      PROVE  stored'[u][r] = IF u = t /\ old.written[r] # NoRow THEN old.written[r]
                             ELSE stored[u][r]
  <2>1. stored \in [Tables -> [Records -> Stored \cup {NoRow}]]  BY <1>0 DEF TypeOK
  <2> QED BY <1>3, <2>1
<1>6. TypeOK'
  <2>1. assets' \in [1..MaxAssets -> Asset]
    <3> DEFINE new == [a \in 1..MaxAssets |->
                         [assets[a] EXCEPT !.exchange = ExchangeSeen(c, a),
                                           !.by = IF @ = c THEN Nobody ELSE @]]
    <3>1. assets' = new  BY <1>0, <1>3 DEF TypeOK
    <3>2. \A a \in 1..MaxAssets : new[a] \in Asset  BY <1>4, <3>1
    <3> QED BY <3>1, <3>2
  <2>2. stored' \in [Tables -> [Records -> Stored \cup {NoRow}]]
    <3>1. old.written \in [Records -> Stored \cup {NoRow}]  BY <1>0 DEF Import
    <3>2. stored \in [Tables -> [Records -> Stored \cup {NoRow}]]  BY <1>0 DEF TypeOK
    <3>3. [r \in Records |-> IF old.written[r] # NoRow THEN old.written[r]
                             ELSE stored[t][r]] \in [Records -> Stored \cup {NoRow}]
      BY <1>1, <3>1, <3>2
    <3> QED BY <1>1, <1>3, <3>2, <3>3
  <2>3. import' \in [Importers -> Import]  BY <1>0, <1>3, IdleWorks DEF TypeOK
  <2> QED BY <2>1, <2>2, <2>3 DEF TypeOK
<1> HIDE DEF old, f, t
<1>7. Later(stored, stored')  BY <1>5 DEF Later
<1>8. \A d \in Importers : Keeps(d, assets, assets')  BY <1>4 DEF Keeps, Usable
<1>9. Replaces(f)
  <2> SUFFICES ASSUME NEW u \in Tables, NEW r \in Records
               PROVE  IF u = t /\ r \in RecordsOf(f) /\ ~(u = "transactions" /\ Committed(u, r))
                      THEN stored'[u][r].file = f ELSE stored'[u][r] = stored[u][r]
    BY DEF Replaces, t
  <2>1. old.written[r] # NoRow =>
          /\ old.written[r].file = f /\ r \in RecordsOf(f)
          /\ ~(t = "transactions" /\ Committed(t, r))
    BY <1>0 DEF Works, IInv, WritesApart, OnlyWriter, Committed, old, f, t, File
  <2>2. r \in RecordsOf(f) => Covered(old, r, stored)  BY <1>2 DEF RecordsOf
  <2>3. old.written[r] = NoRow /\ r \in RecordsOf(f) =>
          t = "transactions" /\ Committed(t, r)
    BY <2>2 DEF Covered, Committed, old, f, t, File
  <2> QED BY <1>5, <2>1, <2>3
<1>a. WritesApart'
  <2>0. import' = [import EXCEPT ![c] = Idle] /\ import \in [Importers -> Import]
    BY <1>0, <1>3 DEF TypeOK
  <2>1. \A r \in Records : import'[c].written[r] = NoRow
    BY <2>0, IdleWorks DEF Idle, NothingWritten
  <2> SUFFICES ASSUME NEW d \in Importers, NEW r \in Records, import'[d].written[r] # NoRow
               PROVE  OnlyWriter(d, r, Table[import'[d].file], import', stored')
    BY DEF WritesApart
  <2>2. d # c /\ import'[d] = import[d]  BY <2>0, <2>1
  <2>3. OnlyWriter(d, r, Table[import[d].file], import, stored)  BY <2>2 DEF IInv, WritesApart
  <2>4. old.written[r] # NoRow => t # Table[import[d].file]
    BY <2>2, <2>3 DEF OnlyWriter, old, f, t, File
  <2>5. Table[import[d].file] = "transactions" =>
          stored'["transactions"][r] = stored["transactions"][r]
    BY <1>5, <2>4 DEF Tables
  <2>6. \A e \in Importers : import'[e].written[r] # NoRow =>
          import'[e] = import[e]
    BY <2>0, <2>1
  <2> QED BY <2>2, <2>3, <2>5, <2>6 DEF OnlyWriter
<1>10. ASSUME NEW a \in 1..MaxAssets, NEW r \in Records, assets[a].symbol # None,
              assets[a].by \in {Nobody, c}, Named(r, assets[a])
       PROVE  assets'[a].symbol # None /\ assets'[a].by = Nobody /\ Named(r, assets'[a])
  <2>1. /\ assets'[a].symbol = assets[a].symbol /\ assets'[a].isin = assets[a].isin
        /\ assets'[a].by = Nobody
    BY <1>4, <1>10
  <2> QED BY <1>10, <2>1 DEF Named, IsAbout, SameIsin
<1>11. AssetsKept'
  <2> SUFFICES ASSUME NEW u \in Tables, NEW r \in Records, NEW b, b = stored'[u][r].asset,
                      b # 0
               PROVE  /\ assets'[b].symbol # None /\ assets'[b].by = Nobody
                      /\ Named(r, assets'[b])
    BY <1>6 DEF AssetsKept, Named, IsAbout, Exists
  <2>1. b \in 1..MaxAssets
    <3>1. stored'[u][r] \in Stored \cup {NoRow}  BY <1>6 DEF TypeOK
    <3> QED BY <3>1, MaxAssetsAssumption DEF Stored, NoRow
  <2>2. CASE u = t /\ old.written[r] # NoRow
    <3>1. b = old.written[r].asset  BY <1>5, <2>2
    <3>2. Usable(c, b, assets) /\ Named(r, assets[b])  BY <1>0, <2>2, <3>1 DEF Works
    <3> QED BY <1>10, <2>1, <3>2 DEF Usable
  <2>3. CASE ~(u = t /\ old.written[r] # NoRow)
    <3>1. b = stored[u][r].asset  BY <1>5, <2>3
    <3>2. assets[b].symbol # None /\ assets[b].by = Nobody /\ Named(r, assets[b])
      BY <3>1 DEF IInv, AssetsKept, Named, IsAbout, Exists
    <3> QED BY <1>10, <2>1, <3>2
  <2> QED BY <2>2, <2>3
<1>12. IInv'  BY <1>3, <1>7, <1>8, <1>a, <1>11, IdleWorks, OthersKeep
<1> QED BY <1>1, <1>9, <1>12 DEF f

-------------------------------------------------------------------------------
LEMMA InitIInv == Init => IInv
<1> SUFFICES ASSUME Init PROVE IInv  OBVIOUS
<1>1. NoAsset \in Asset  BY DEF NoAsset, Asset, Isins, Symbols, Exchanges
<1>2. TypeOK  BY <1>1, IdleWorks DEF Init, TypeOK
<1>3. \A t \in Tables, r \in Records : stored[t][r] = NoRow  BY DEF Init
<1>5. AssetsKept  BY <1>2, <1>3 DEF AssetsKept, NoRow
<1>6. \A c \in Importers : import[c] = Idle  BY DEF Init
<1>7. WritesApart  BY <1>6 DEF WritesApart, Idle, NothingWritten
<1> QED BY <1>5, <1>6, <1>7, IdleWorks DEF IInv

LEMMA NextIInv == IInv /\ [Next]_vars => IInv'
<1> SUFFICES ASSUME IInv, [Next]_vars PROVE IInv'  OBVIOUS
<1>1. CASE UNCHANGED vars
  BY <1>1 DEF vars, IInv, AssetsKept, WritesApart, OnlyWriter, TypeOK, Committed, Exists
<1>2. ASSUME NEW c \in Importers, NEW f \in Files, Begins(c, f) PROVE IInv'
  BY <1>2, BeginsKeeps
<1>3. ASSUME NEW c \in Importers, Proceeds(c) PROVE IInv'
  <2>1. CASE SkipsDuplicate(c)
    BY <2>1, SameRowsKeep DEF SkipsDuplicate
  <2>2. CASE UnknownAccount(c)  BY <2>2, SameRowsKeep DEF UnknownAccount
  <2>3. CASE KnownAccount(c)  BY <2>3, KnownAccountKeeps
  <2>4. CASE FindsAsset(c) \/ FindsNoAsset(c)  BY <2>4, FindsKeeps
  <2>5. CASE InsertsAsset(c)  BY <2>5, InsertsAssetKeeps
  <2>6. CASE EnrichesAsset(c)  BY <2>6, EnrichesKeeps
  <2>7. CASE Updates(c)  BY <2>7, UpdatesKeeps
  <2>8. CASE FindsNoRecord(c)  BY <2>8, FindsNoRecordKeeps
  <2>9. CASE Inserts(c)  BY <2>9, InsertsKeeps
  <2>10. CASE Accepts(c)  BY <2>10, AcceptsKeeps
  <2>11. CASE Refuses(c) \/ Fails(c) \/ Deadlocked(c)
    BY <2>11, RollsBackKeeps DEF Refuses, Fails, Deadlocked
  <2> QED BY <1>3, <2>1, <2>2, <2>3, <2>4, <2>5, <2>6, <2>7, <2>8, <2>9, <2>10, <2>11
          DEF Proceeds
<1> QED BY <1>1, <1>2, <1>3 DEF Next

-------------------------------------------------------------------------------
\* Stored rows keep their assets, no record is written by two imports, and every import
\* agrees with what is stored.
THEOREM Inductive == Spec => []IInv
BY InitIInv, NextIInv, PTL DEF Spec

\* Stored rows change by one file that is imported whole, at once (AllOrNothing).
THEOREM Whole == Spec => AllOrNothing
<1>1. IInv /\ [Next]_vars => [\E f \in Files : Replaces(f)]_stored
  <2> SUFFICES ASSUME IInv, [Next]_vars, stored' # stored PROVE \E f \in Files : Replaces(f)
    OBVIOUS
  <2>1. PICK c \in Importers : Accepts(c)
    BY DEF Next, Proceeds, Begins, SkipsDuplicate, UnknownAccount, KnownAccount, FindsAsset,
           FindsNoAsset, InsertsAsset, EnrichesAsset, Updates, FindsNoRecord, Inserts,
           Refuses, Fails, Deadlocked, RollsBack, vars
  <2> QED BY <2>1, AcceptsKeeps
<1> QED BY <1>1, Inductive, PTL DEF Spec, AllOrNothing

\* A stored row names an asset that is committed and is the one it is about.
THEOREM AssetsSafe == Spec => []AssetsKept
<1>1. IInv => AssetsKept  BY DEF IInv
<1> QED BY <1>1, Inductive, PTL

-------------------------------------------------------------------------------
(* Backups: the invariant *)

\* Every variable has the shape its actions give it.
BackupTyped ==
  /\ now \in 0..LastInstant
  /\ records \in [Backups -> Record \cup {Absent, Deleted}]
  /\ files \subseteq Names /\ starting \subseteq Backups
  /\ client \in [Clients -> Work \cup {NoWork}]
  /\ refused \subseteq Backups
  /\ ever \subseteq [of : Backups, at : 1..LastInstant]

\* Where a process works on a record of its own.
Stages == {"requested", "dump", "hash", "verify", "stamped"}

Sole ==
  \A c, d \in Clients :
    client[c].at \in Stages /\ client[d].at \in Stages /\ client[c].of = client[d].of => c = d

\* Row and files are as far as the process w that works on them.
AtWork(w, rows, fs) ==
  /\ w.at = "requested" => rows[w.of].status = "requested"
  /\ w.at \in {"dump", "hash"} => rows[w.of].status = "running"
  /\ w.at \in {"verify", "stamped"} => rows[w.of].status = "verifying" /\ rows[w.of].hashed
  /\ w.at \in {"hash", "verify", "stamped"} => Artifact(w.of) \in fs
  /\ w.at = "stamped" => Plain(w.of) \notin fs

\* Whatever there is of the backup b, where fs are the files and st the processes that have
\* not created theirs, agrees with its row.
FilesAgree(b, row, fs, st) ==
  /\ Dump(b) \in fs \/ b \in st =>
       row.status \in {"running", "failed"} /\ Artifact(b) \notin fs
  /\ Plain(b) \in fs => row.status = "verifying"
  /\ Artifact(b) \in fs => row.status \notin {"absent", "requested"}

\* What is completed is whole, and part of the history; half-written files show.
RowsAgree ==
  \A b \in Backups :
    /\ records[b].status = "completed" =>
         /\ records[b].hashed /\ Artifact(b) \in files
         /\ [of |-> b, at |-> records[b].at] \in ever
    /\ FilesAgree(b, records[b], files, starting)

\* What was completed is there, or was deleted.
HistoryAgrees ==
  \A e \in ever : \/ records[e.of] = Deleted
                  \/ records[e.of].status = "completed" /\ records[e.of].at = e.at

\* The periods of what ended after t, the backups that are promised, and all of those, where
\* ev is the history.
PeriodsAfter(ev, t, length) == {x.at \div length : x \in {y \in ev : y.at > t}}

PromisedIn(ev, length, limit) ==
  {e \in ev : /\ \A x \in ev : x.at > e.at => x.at \div length # e.at \div length
             /\ Cardinality(PeriodsAfter(ev, e.at, length)) < limit}

OwedIn(ev) ==
  PromisedIn(ev, DayLength, Days) \cup PromisedIn(ev, WeekLength, Weeks)
    \cup PromisedIn(ev, MonthLength, Months)

\* What a process has decided to delete was completed, is not what it keeps, and nobody
\* counts on it any more.
DropsAreSpare ==
  \A c \in Clients : client[c].at = "prune" =>
    /\ client[c].drop \cap client[c].touch = {}
    /\ \A b \in client[c].drop :
         /\ \E e \in ever : e.of = b
         /\ \A e \in ever : e.of = b => e \notin OwedIn(ever)

BackupInv ==
  /\ BackupTyped
  /\ Sole
  /\ \A c \in Clients : AtWork(client[c], records, files)
  /\ RowsAgree
  /\ HistoryAgrees
  /\ DropsAreSpare
  /\ \A e \in OwedIn(ever) : e.of \in Completed

-------------------------------------------------------------------------------
(* Backups: periods, and the last of a set of instants *)

LEMMA PeriodConstants ==
  /\ LastInstant \in Nat
  /\ DayLength \in Nat \ {0} /\ WeekLength \in Nat \ {0} /\ MonthLength \in Nat \ {0}
  /\ Days \in Nat \ {0} /\ Weeks \in Nat \ {0} /\ Months \in Nat \ {0}
BY PeriodsAssumption, InstantsAssumption

\* There are as few periods as instants.
LEMMA PeriodsFinite ==
  ASSUME NEW length, NEW S \in SUBSET {t \div length : t \in 1..LastInstant}
  PROVE  IsFiniteSet(S) /\ Cardinality(S) \in Nat
<1>0. LastInstant \in Int /\ 1 \in Int  BY InstantsAssumption
<1>a. IsFiniteSet(1..LastInstant)  BY <1>0, FS_Interval
<1> DEFINE Instants == 1..LastInstant
           Periods  == {t \div length : t \in Instants}
           f        == [t \in Instants |-> t \div length]
<1>1. IsFiniteSet(Instants)  BY <1>a
<1>2. f \in Surjection(Instants, Periods)
  <2>1. f \in [Instants -> Periods]  OBVIOUS
  <2>2. \A p \in Periods : \E t \in Instants : f[t] = p  OBVIOUS
  <2> QED BY <2>1, <2>2, Fun_IsSurj
<1>3. IsFiniteSet(Periods)  BY <1>1, <1>2, FS_Surjection
<1>4. S \in SUBSET Periods  OBVIOUS
<1> QED BY <1>3, <1>4, FS_Subset, FS_CardinalityType

\* Where there are more instants, there are no fewer periods.
LEMMA FewerPeriods ==
  ASSUME NEW length, NEW T \in SUBSET {t \div length : t \in 1..LastInstant},
         NEW S \in SUBSET T, NEW limit \in Nat, Cardinality(T) < limit
  PROVE  Cardinality(S) < limit
<1>1. IsFiniteSet(T) /\ Cardinality(T) \in Nat  BY PeriodsFinite
<1>2. Cardinality(S) <= Cardinality(T)  BY <1>1, FS_Subset
<1>3. Cardinality(S) \in Nat  BY PeriodsFinite
<1> QED BY <1>1, <1>2, <1>3

LEMMA LastIs ==
  ASSUME NEW T \in SUBSET (1..LastInstant), T # {}
  PROVE  \E m \in T : \A t \in T : t <= m
<1> DEFINE D == {LastInstant - t : t \in T}
           R == OpToRel(<, Nat)
<1>0. \A t \in T : t \in Nat /\ t <= LastInstant  OBVIOUS
<1>1. D \subseteq Nat /\ D # {}
  <2>1. \A t \in T : LastInstant - t \in Nat  BY <1>0, PeriodConstants
  <2>2. PICK t \in T : TRUE  OBVIOUS
  <2>3. LastInstant - t \in D  OBVIOUS
  <2> QED BY <2>1, <2>3
<1>2. IsWellFoundedOn(R, Nat)  BY NatLessThanWellFounded
<1> HIDE DEF R
<1>3. PICK d \in D : \A x \in D : ~(<<x, d>> \in R)
  <2> HIDE DEF D
  <2> QED BY <1>1, <1>2, WFMin
<1>4. \A x \in D : ~(x < d)
  <2>1. \A x, y \in Nat : x < y => <<x, y>> \in R  BY DEF R, OpToRel
  <2> QED BY <1>1, <1>3, <2>1
<1>5. PICK m \in T : d = LastInstant - m  OBVIOUS
<1>6. ASSUME NEW t \in T PROVE t <= m
  <2>1. LastInstant - t \in D  OBVIOUS
  <2>2. ~(LastInstant - t < LastInstant - m)  BY <1>4, <1>5, <2>1
  <2> QED BY <1>0, <2>2, PeriodConstants
<1> QED BY <1>6

Ended == [of : Backups, at : 1..LastInstant]

LEMMA PeriodsAfterIs ==
  ASSUME NEW ev \in SUBSET Ended, NEW t, NEW length
  PROVE  PeriodsAfter(ev, t, length) \in SUBSET {i \div length : i \in 1..LastInstant}
<1>1. \A x \in ev : x.at \in 1..LastInstant  BY DEF Ended
<1> QED BY <1>1 DEF PeriodsAfter

\* As more backups end, fewer of the earlier ones are promised.
LEMMA PromisedBefore ==
  ASSUME NEW new \in SUBSET Ended, NEW old \in SUBSET new, NEW e \in old,
         NEW length, NEW limit \in Nat, e \in PromisedIn(new, length, limit)
  PROVE  e \in PromisedIn(old, length, limit)
<1>1. PeriodsAfter(old, e.at, length) \subseteq PeriodsAfter(new, e.at, length)
  BY DEF PeriodsAfter
<1>2. Cardinality(PeriodsAfter(new, e.at, length)) < limit  BY DEF PromisedIn
<1>3. Cardinality(PeriodsAfter(old, e.at, length)) < limit
  BY <1>1, <1>2, PeriodsAfterIs, FewerPeriods
<1> QED BY <1>3 DEF PromisedIn

LEMMA OwedBefore ==
  ASSUME NEW new \in SUBSET Ended, NEW old \in SUBSET new, NEW e \in old, e \in OwedIn(new)
  PROVE  e \in OwedIn(old)
<1>1. Days \in Nat /\ Weeks \in Nat /\ Months \in Nat  BY PeriodConstants
<1> QED BY <1>1, PromisedBefore DEF OwedIn

\* The last backup that ended is promised in any case.
LEMMA LastIsOwed ==
  ASSUME NEW ev \in SUBSET Ended, ev # {}
  PROVE  \E e \in ev : e \in OwedIn(ev)
<1> DEFINE T == {e.at : e \in ev}
<1>1. T \in SUBSET (1..LastInstant) /\ T # {}  BY DEF Ended
<1> HIDE DEF T
<1>2. PICK m \in T : \A t \in T : t <= m  BY <1>1, LastIs
<1>3. PICK e \in ev : e.at = m  BY <1>2 DEF T
<1>4. \A x \in ev : x.at <= e.at /\ x.at \in Nat  BY <1>1, <1>2, <1>3 DEF T
<1>5. \A x \in ev : ~(x.at > e.at)  BY <1>4
<1>6. PeriodsAfter(ev, e.at, DayLength) = {}  BY <1>5 DEF PeriodsAfter
<1>7. Cardinality(PeriodsAfter(ev, e.at, DayLength)) < Days
  BY <1>6, FS_EmptySet, PeriodConstants
<1>8. e \in PromisedIn(ev, DayLength, Days)  BY <1>5, <1>7 DEF PromisedIn
<1> QED BY <1>8 DEF OwedIn

\* OwedIn is what PyramidKept counts on.
LEMMA OwedIs ==
  OwedIn(ever) = Promised(DayLength, Days) \cup Promised(WeekLength, Weeks)
                   \cup Promised(MonthLength, Months)
BY DEF OwedIn, PromisedIn, PeriodsAfter, Promised

-------------------------------------------------------------------------------
(* Backups: rows, processes and files *)

LEMMA ClientIs ==
  ASSUME BackupTyped, NEW c \in Clients
  PROVE  /\ client[c] \in Work \cup {NoWork}
         /\ client[c].at \in Stages => client[c].of \in Backups
         /\ client[c].at = "stamped" => client[c].instant \in 1..LastInstant
         /\ client[c].at = "prune" => /\ client[c].drop \in SUBSET Backups
                                      /\ client[c].touch \in SUBSET Backups
                                      /\ client[c].latest \in Backups
         /\ client[c].at = "unlink" => client[c].drop \in SUBSET Backups
<1>1. client[c] \in Work \cup {NoWork}  BY DEF BackupTyped
<1> QED BY <1>1 DEF Work, NoWork, Stages

LEMMA WorkIs ==
  /\ NoWork \in Work \cup {NoWork} /\ NoWork.at = "idle"
  /\ \A place \in {"requested", "dump", "hash", "verify"}, b \in Backups :
       [at |-> place, of |-> b] \in Work \cup {NoWork}
  /\ \A b \in Backups, t \in 1..LastInstant :
       [at |-> "stamped", of |-> b, instant |-> t] \in Work \cup {NoWork}
  /\ [at |-> "retention"] \in Work \cup {NoWork}
  /\ \A drop \in SUBSET Backups : [at |-> "unlink", drop |-> drop] \in Work \cup {NoWork}
  /\ \A drop, touch \in SUBSET Backups, b \in Backups :
       [at |-> "prune", drop |-> drop, touch |-> touch, latest |-> b] \in Work \cup {NoWork}
BY DEF Work, NoWork

\* A row with one of the five statuses is a whole row.
LEMMA RowIs ==
  ASSUME BackupTyped, NEW b \in Backups
  PROVE  /\ records[b] \in Record \cup {Absent, Deleted}
         /\ records[b].status \in Statuses => records[b] \in Record
         /\ records[b] = Absent => records[b].status = "absent"
         /\ records[b] = Deleted => records[b].status = "deleted"
<1>1. records[b] \in Record \cup {Absent, Deleted}  BY DEF BackupTyped
<1> QED BY <1>1 DEF Record, Absent, Deleted, Statuses

LEMMA NamesAre ==
  ASSUME NEW a \in Backups, NEW b \in Backups
  PROVE  /\ {Artifact(b), Dump(b), Plain(b), FilePath(b)} \subseteq Names
         /\ Artifact(a) = Artifact(b) => a = b
         /\ Dump(a) = Dump(b) => a = b
         /\ Plain(a) = Plain(b) => a = b
         /\ Artifact(a) \notin {Dump(b), Plain(b), FilePath(b)}
         /\ Dump(a) \notin {Artifact(b), Plain(b), FilePath(b)}
         /\ Plain(a) \notin {Artifact(b), Dump(b), FilePath(b)}
BY DEF Artifact, Dump, Plain, FilePath, Names

\* A process at work on a record finds it as far as itself, and not completed or deleted.
LEMMA OwnIs ==
  ASSUME BackupInv, NEW c \in Clients, client[c].at \in Stages
  PROVE  /\ Mine(c) \in Backups /\ records[Mine(c)] \in Record
         /\ records[Mine(c)].status \notin {"completed", "failed"}
         /\ AtWork(client[c], records, files)
         /\ FilesAgree(Mine(c), records[Mine(c)], files, starting)
         /\ \A d \in Clients \ {c} : client[d].at \in Stages => client[d].of # Mine(c)
<1>1. Mine(c) \in Backups  BY ClientIs DEF BackupInv, Mine
<1>2. AtWork(client[c], records, files)  BY DEF BackupInv
<1>3. records[Mine(c)].status \in {"requested", "running", "verifying"}
  BY <1>2 DEF AtWork, Mine, Stages
<1>4. records[Mine(c)] \in Record  BY <1>1, <1>3, RowIs DEF BackupInv, Statuses
<1>5. \A d \in Clients \ {c} : client[d].at \in Stages => client[d].of # Mine(c)
  BY DEF BackupInv, Sole, Mine
<1>6. FilesAgree(Mine(c), records[Mine(c)], files, starting)
  BY <1>1 DEF BackupInv, RowsAgree
<1> QED BY <1>1, <1>2, <1>3, <1>4, <1>5, <1>6

-------------------------------------------------------------------------------
(* Backups: frames *)

\* The files of the backups xs are in fs as they are now, and the processes in st.
SameFiles(xs, fs, st) ==
  \A x \in xs : /\ Artifact(x) \in fs <=> Artifact(x) \in files
                /\ Dump(x) \in fs <=> Dump(x) \in files
                /\ Plain(x) \in fs <=> Plain(x) \in files
                /\ x \in st <=> x \in starting

\* A step of the process c that works on the record b, or begins to, and does not complete
\* it; it goes on as w, and the record as row.
Stage(c, b, w, row) ==
  /\ client' = [client EXCEPT ![c] = w] /\ records' = [records EXCEPT ![b] = row]
  /\ w.at # "prune" /\ (w.at \in Stages => w.of = b) /\ AtWork(w, records', files')
  /\ row.status # "completed" /\ records[b].status \notin {"completed", "deleted"}
  /\ \A d \in Clients \ {c} : client[d].at \in Stages => client[d].of # b
  /\ files' \subseteq Names /\ starting' \subseteq Backups
  /\ SameFiles(Backups \ {b}, files', starting') /\ FilesAgree(b, row, files', starting')
  /\ now' \in 0..LastInstant /\ refused' \subseteq Backups /\ ever' = ever

LEMMA StageInv ==
  ASSUME BackupInv, NEW c \in Clients, NEW b \in Backups, NEW w \in Work \cup {NoWork},
         NEW row \in Record, Stage(c, b, w, row)
  PROVE  BackupInv'
<1> USE DEF Stage
<1>1. BackupTyped'  BY DEF BackupInv, BackupTyped
<1>2. /\ client \in [Clients -> Work \cup {NoWork}]
      /\ records \in [Backups -> Record \cup {Absent, Deleted}] /\ ever \subseteq Ended
  BY DEF BackupInv, BackupTyped, Ended
<1>3. client'[c] = w /\ \A d \in Clients \ {c} : client'[d] = client[d]  BY <1>2
<1>4. records'[b] = row /\ \A x \in Backups \ {b} : records'[x] = records[x]  BY <1>2
<1>5. Sole'  BY <1>3 DEF BackupInv, Sole
<1>6. \A d \in Clients : AtWork(client[d], records, files)'
  <2>1. AtWork(client'[c], records', files')  BY <1>3
  <2>2. ASSUME NEW d \in Clients \ {c} PROVE AtWork(client'[d], records', files')
    <3>1. AtWork(client[d], records, files) /\ client'[d] = client[d]  BY <1>3 DEF BackupInv
    <3>2. CASE client[d].at \in Stages
      <4>1. client[d].of \in Backups \ {b}  BY <3>2, ClientIs DEF BackupInv
      <4>2. records'[client[d].of] = records[client[d].of]  BY <1>4, <4>1
      <4> QED BY <3>1, <4>1, <4>2 DEF AtWork, SameFiles
    <3>3. CASE client[d].at \notin Stages  BY <3>1, <3>3 DEF AtWork, Stages
    <3> QED BY <3>2, <3>3
  <2> QED BY <2>1, <2>2
<1>7. RowsAgree'
  <2>1. ASSUME NEW x \in Backups
        PROVE  /\ records'[x].status = "completed" =>
                    /\ records'[x].hashed /\ Artifact(x) \in files'
                    /\ [of |-> x, at |-> records'[x].at] \in ever'
               /\ FilesAgree(x, records'[x], files', starting')
    BY <1>4 DEF BackupInv, RowsAgree, SameFiles, FilesAgree
  <2> QED BY <2>1 DEF RowsAgree
<1>8. \A e \in ever : e.of \in Backups /\ e.of # b
  <2>1. \A e \in ever : e.of \in Backups  BY <1>2 DEF Ended
  <2>2. \A e \in ever : records[e.of].status \in {"completed", "deleted"}
    BY DEF BackupInv, HistoryAgrees, Deleted
  <2> QED BY <2>1, <2>2
<1>9. HistoryAgrees'  BY <1>4, <1>8 DEF BackupInv, HistoryAgrees
<1>10. DropsAreSpare'
  <2>1. ASSUME NEW d \in Clients, client'[d].at = "prune"
        PROVE  client[d].at = "prune" /\ client'[d] = client[d]
    BY <1>3, <2>1
  <2> QED BY <2>1 DEF BackupInv, DropsAreSpare
<1>11. (\A e \in OwedIn(ever) : e.of \in Completed)'
  <2>1. \A e \in OwedIn(ever) : e \in ever  BY DEF OwedIn, PromisedIn
  <2>2. \A e \in OwedIn(ever) : e.of \in Completed  BY DEF BackupInv
  <2>3. \A e \in OwedIn(ever) : e.of \in Backups /\ records'[e.of].status = "completed"
    BY <1>4, <1>8, <2>1, <2>2 DEF Completed
  <2> QED BY <2>3 DEF Completed
<1> QED BY <1>1, <1>5, <1>6, <1>7, <1>9, <1>10, <1>11 DEF BackupInv

\* A step that leaves rows and history alone, after which the process, now w, works on no
\* record and has decided nothing.
Quits(c, w) ==
  /\ client' = [client EXCEPT ![c] = w] /\ w.at \notin Stages \cup {"prune"}
  /\ files' \subseteq Names /\ starting' \subseteq Backups
  /\ SameFiles(Backups, files', starting')
  /\ UNCHANGED <<now, records, refused, ever>>

LEMMA QuitsInv ==
  ASSUME BackupInv, NEW c \in Clients, NEW w \in Work \cup {NoWork}, Quits(c, w)
  PROVE  BackupInv'
<1> USE DEF Quits
<1>1. BackupTyped'  BY DEF BackupInv, BackupTyped
<1>2. client'[c] = w /\ \A d \in Clients \ {c} : client'[d] = client[d]
  BY DEF BackupInv, BackupTyped
<1>3. Sole'  BY <1>2 DEF BackupInv, Sole
<1>4. \A d \in Clients : AtWork(client[d], records, files)'
  <2>1. AtWork(client'[c], records', files')  BY <1>2 DEF AtWork, Stages
  <2>2. ASSUME NEW d \in Clients \ {c} PROVE AtWork(client'[d], records', files')
    <3>1. AtWork(client[d], records, files) /\ client'[d] = client[d]  BY <1>2 DEF BackupInv
    <3>2. CASE client[d].at \in Stages
      <4>1. client[d].of \in Backups  BY <3>2, ClientIs DEF BackupInv
      <4> QED BY <3>1, <4>1 DEF AtWork, SameFiles
    <3>3. CASE client[d].at \notin Stages  BY <3>1, <3>3 DEF AtWork, Stages
    <3> QED BY <3>2, <3>3
  <2> QED BY <2>1, <2>2
<1>5. RowsAgree'  BY DEF BackupInv, RowsAgree, SameFiles, FilesAgree
<1>6. HistoryAgrees'  BY DEF BackupInv, HistoryAgrees
<1>7. DropsAreSpare'
  <2>1. ASSUME NEW d \in Clients, client'[d].at = "prune"
        PROVE  client[d].at = "prune" /\ client'[d] = client[d]
    BY <1>2, <2>1
  <2> QED BY <2>1 DEF BackupInv, DropsAreSpare
<1>8. (\A e \in OwedIn(ever) : e.of \in Completed)'  BY DEF BackupInv, Completed
<1> QED BY <1>1, <1>3, <1>4, <1>5, <1>6, <1>7, <1>8 DEF BackupInv

-------------------------------------------------------------------------------
(* Backups: run_backup *)

LEMMA NewRecordIs ==
  \A status \in Statuses :
    NewRecord(status) \in Record /\ NewRecord(status).status = status
BY DEF NewRecord, Record, Statuses, Categories, Never

LEMMA AbsentIs ==
  ASSUME BackupInv, NEW b \in Backups, records[b] = Absent
  PROVE  /\ records[b].status \notin {"completed", "deleted"}
         /\ Artifact(b) \notin files /\ Dump(b) \notin files /\ Plain(b) \notin files
         /\ b \notin starting
         /\ \A d \in Clients : client[d].at \in Stages => client[d].of # b
<1>1. records[b].status = "absent"  BY DEF Absent
<1>2. \A d \in Clients : client[d].at \in Stages =>
        records[client[d].of].status \in {"requested", "running", "verifying"}
  BY DEF BackupInv, AtWork, Stages
<1> QED BY <1>1, <1>2 DEF BackupInv, RowsAgree, FilesAgree

LEMMA BeginsInv ==
  ASSUME BackupInv, NEW c \in Clients, NEW b \in Backups, Rejects(c, b) \/ Requests(c, b)
  PROVE  BackupInv'
<1> USE DEF AtStage
<1>1. /\ client \in [Clients -> Work \cup {NoWork}] /\ client[c].at = "idle"
      /\ records[b] = Absent /\ files \subseteq Names
      /\ records \in [Backups -> Record \cup {Absent, Deleted}]
      /\ UNCHANGED <<now, files, starting, refused, ever>> /\ starting \subseteq Backups
      /\ now \in 0..LastInstant /\ refused \subseteq Backups
  BY DEF BackupInv, BackupTyped, Rejects, Requests
<1>a. /\ records[b].status \notin {"completed", "deleted"}
      /\ \A row \in Record : FilesAgree(b, row, files', starting')
      /\ \A d \in Clients \ {c} : client[d].at \in Stages => client[d].of # b
  BY <1>1, AbsentIs DEF FilesAgree
<1>b. /\ SameFiles(Backups \ {b}, files', starting') /\ files' \subseteq Names
      /\ starting' \subseteq Backups
      /\ now' \in 0..LastInstant /\ refused' \subseteq Backups /\ ever' = ever
  BY <1>1 DEF SameFiles
<1>2. ASSUME Rejects(c, b) PROVE BackupInv'
  <2> DEFINE row == NewRecord("failed")
             w   == client[c]
  <2>1. records' = [records EXCEPT ![b] = row] /\ client' = [client EXCEPT ![c] = w]
    BY <1>1, <1>2 DEF Rejects
  <2>2. row \in Record /\ row.status = "failed"  BY NewRecordIs DEF Statuses
  <2>3. w \in Work \cup {NoWork} /\ w.at = "idle"  BY <1>1
  <2> HIDE DEF row, w
  <2>4. AtWork(w, records', files')  BY <2>3 DEF AtWork
  <2>5. w.at # "prune" /\ (w.at \in Stages => w.of = b) /\ row.status # "completed"
    BY <2>2, <2>3 DEF Stages
  <2>6. Stage(c, b, w, row)  BY <1>a, <1>b, <2>1, <2>2, <2>4, <2>5 DEF Stage
  <2> QED BY <2>2, <2>3, <2>6, StageInv
<1>3. ASSUME Requests(c, b) PROVE BackupInv'
  <2> DEFINE row == NewRecord("requested")
             w   == [at |-> "requested", of |-> b]
  <2>1. records' = [records EXCEPT ![b] = row] /\ client' = [client EXCEPT ![c] = w]
    BY <1>3 DEF Requests, Moves
  <2>2. row \in Record /\ row.status = "requested"  BY NewRecordIs DEF Statuses
  <2>3. w \in Work \cup {NoWork} /\ w.at = "requested" /\ w.of = b  BY WorkIs
  <2> HIDE DEF row, w
  <2>4. AtWork(w, records', files')  BY <1>1, <2>1, <2>2, <2>3 DEF AtWork
  <2>5. w.at # "prune" /\ (w.at \in Stages => w.of = b) /\ row.status # "completed"
    BY <2>2, <2>3 DEF Stages
  <2>6. Stage(c, b, w, row)  BY <1>a, <1>b, <2>1, <2>2, <2>4, <2>5 DEF Stage
  <2> QED BY <2>2, <2>3, <2>6, StageInv
<1> QED BY <1>2, <1>3

\* What a step of a process on its own record starts from.
LEMMA StageFrom ==
  ASSUME BackupInv, NEW c \in Clients, client[c].at \in Stages
  PROVE  /\ records[Mine(c)].status \notin {"completed", "deleted"}
         /\ \A d \in Clients \ {c} : client[d].at \in Stages => client[d].of # Mine(c)
         /\ files \subseteq Names /\ refused \subseteq Backups /\ now \in 0..LastInstant
         /\ FilesAgree(Mine(c), records[Mine(c)], files, starting)
         /\ starting \subseteq Backups
         /\ records = [records EXCEPT ![Mine(c)] = records[Mine(c)]]
         /\ Mine(c) \in Backups /\ records[Mine(c)] \in Record
<1>1. Mine(c) \in Backups /\ records[Mine(c)] \in Record  BY OwnIs
<1>2. \A d \in Clients \ {c} : client[d].at \in Stages => client[d].of # Mine(c)  BY OwnIs
<1>3. records[Mine(c)].status \notin {"completed", "deleted"}
  BY <1>1, OwnIs DEF Record, Statuses
<1>4. records = [records EXCEPT ![Mine(c)] = records[Mine(c)]]
  BY <1>1 DEF BackupInv, BackupTyped
<1> QED BY <1>1, <1>2, <1>3, <1>4 DEF BackupInv, BackupTyped, RowsAgree

LEMMA DumpsInv == ASSUME BackupInv, NEW c \in Clients, Dumps(c) PROVE BackupInv'
<1> DEFINE b   == Mine(c)
           row == [records[b] EXCEPT !.status = "running"]
           w   == [at |-> "dump", of |-> b]
<1>1. client[c].at = "requested" /\ client[c].at \in Stages  BY DEF Dumps, AtStage, Stages
<1>2. b \in Backups /\ records[b] \in Record /\ records[b].status = "requested"
  BY <1>1, OwnIs DEF AtWork, Mine
<1>3. row \in Record /\ row.status = "running"  BY <1>2 DEF Record, Statuses
<1>4. records' = [records EXCEPT ![b] = row] /\ client' = [client EXCEPT ![c] = w]
  BY DEF Dumps, SetsStatus, GoesOn, Moves
<1>5. w \in Work \cup {NoWork} /\ w.at = "dump" /\ w.of = b  BY <1>2, WorkIs
<1>6. starting' = starting \cup {b} /\ UNCHANGED <<now, files, refused, ever>>  BY DEF Dumps
<1>7. records'[b] = row  BY <1>2, <1>4 DEF BackupInv, BackupTyped
<1> HIDE DEF row, w
<1>8. AtWork(w, records', files')  BY <1>3, <1>5, <1>7 DEF AtWork
<1>9. /\ SameFiles(Backups \ {b}, files', starting')
      /\ files' \subseteq Names /\ starting' \subseteq Backups
  BY <1>1, <1>2, <1>6, StageFrom DEF SameFiles
<1>10. FilesAgree(b, row, files', starting')
  BY <1>1, <1>2, <1>3, <1>6, StageFrom DEF FilesAgree
<1>11. Stage(c, b, w, row)
  BY <1>1, <1>3, <1>4, <1>5, <1>6, <1>8, <1>9, <1>10, StageFrom DEF Stage
<1> QED BY <1>2, <1>3, <1>5, <1>11, StageInv

LEMMA EncryptsInv == ASSUME BackupInv, NEW c \in Clients, Encrypts(c) PROVE BackupInv'
<1> DEFINE b   == Mine(c)
           row == records[b]
           w   == [at |-> "hash", of |-> b]
<1>1. client[c].at = "dump" /\ client[c].at \in Stages  BY DEF Encrypts, AtStage, Stages
<1>2. b \in Backups /\ row \in Record /\ row.status = "running"
  BY <1>1, OwnIs DEF AtWork, Mine
<1>3. records' = [records EXCEPT ![b] = row] /\ client' = [client EXCEPT ![c] = w]
  BY <1>1, StageFrom DEF Encrypts, GoesOn, Moves
<1>4. w \in Work \cup {NoWork} /\ w.at = "hash" /\ w.of = b  BY <1>2, WorkIs
<1>5. /\ files' = (files \ {Dump(b)}) \cup {Artifact(b)}
      /\ b \notin starting /\ UNCHANGED <<now, starting, refused, ever, records>>
  BY DEF Encrypts
<1> HIDE DEF w
<1>6. /\ Artifact(b) \in files' /\ Dump(b) \notin files' /\ Plain(b) \notin files'
      /\ FilesAgree(b, row, files', starting')
  BY <1>1, <1>2, <1>5, NamesAre, StageFrom DEF FilesAgree
<1>7. AtWork(w, records', files')  BY <1>2, <1>4, <1>5, <1>6 DEF AtWork
<1>8. /\ SameFiles(Backups \ {b}, files', starting')
      /\ files' \subseteq Names /\ starting' \subseteq Backups
  BY <1>1, <1>2, <1>5, NamesAre, StageFrom DEF SameFiles
<1>9. Stage(c, b, w, row)
  BY <1>1, <1>2, <1>3, <1>4, <1>5, <1>6, <1>7, <1>8, StageFrom DEF Stage
<1> QED BY <1>2, <1>4, <1>9, StageInv

LEMMA HashesInv == ASSUME BackupInv, NEW c \in Clients, Hashes(c) PROVE BackupInv'
<1> DEFINE b   == Mine(c)
           row == [records[b] EXCEPT !.hashed = TRUE, !.status = "verifying"]
           w   == [at |-> "verify", of |-> b]
<1>1. client[c].at = "hash" /\ client[c].at \in Stages  BY DEF Hashes, AtStage, Stages
<1>2. /\ b \in Backups /\ records[b] \in Record
      /\ Artifact(b) \in files /\ Dump(b) \notin files /\ b \notin starting
  BY <1>1, OwnIs DEF AtWork, FilesAgree, Mine
<1>3. row \in Record /\ row.status = "verifying" /\ row.hashed
  BY <1>2 DEF Record, Statuses
<1>4. records' = [records EXCEPT ![b] = row] /\ client' = [client EXCEPT ![c] = w]
  BY <1>2 DEF Hashes, GoesOn, Moves, BackupInv, BackupTyped
<1>5. w \in Work \cup {NoWork} /\ w.at = "verify" /\ w.of = b  BY <1>2, WorkIs
<1>6. files' = files \cup {Plain(b)} /\ UNCHANGED <<now, starting, refused, ever>>
  BY DEF Hashes
<1>7. records'[b] = row  BY <1>2, <1>4 DEF BackupInv, BackupTyped
<1> HIDE DEF row, w
<1>8. Artifact(b) \in files' /\ FilesAgree(b, row, files', starting')
  BY <1>2, <1>3, <1>6, NamesAre DEF FilesAgree
<1>9. AtWork(w, records', files')  BY <1>3, <1>5, <1>7, <1>8 DEF AtWork
<1>10. /\ SameFiles(Backups \ {b}, files', starting')
       /\ files' \subseteq Names /\ starting' \subseteq Backups
  BY <1>1, <1>2, <1>6, NamesAre, StageFrom DEF SameFiles
<1>11. Stage(c, b, w, row)
  BY <1>1, <1>3, <1>4, <1>5, <1>6, <1>8, <1>9, <1>10, StageFrom DEF Stage
<1> QED BY <1>2, <1>3, <1>5, <1>11, StageInv

LEMMA VerifiesInv == ASSUME BackupInv, NEW c \in Clients, Verifies(c) PROVE BackupInv'
<1>1. PICK t \in (now + 1)..LastInstant :
        now' = t /\ Moves(c, [at |-> "stamped", of |-> Mine(c), instant |-> t])
  BY DEF Verifies
<1> DEFINE b   == Mine(c)
           row == records[b]
           w   == [at |-> "stamped", of |-> b, instant |-> t]
<1>2. client[c].at = "verify" /\ client[c].at \in Stages  BY DEF Verifies, AtStage, Stages
<1>3. /\ b \in Backups /\ row \in Record /\ row.status = "verifying" /\ row.hashed
      /\ Artifact(b) \in files /\ Dump(b) \notin files /\ b \notin starting
  BY <1>2, OwnIs DEF AtWork, FilesAgree, Mine
<1>4. t \in 1..LastInstant /\ now' = t
  BY <1>1, <1>2, StageFrom, PeriodConstants
<1>5. records' = [records EXCEPT ![b] = row] /\ client' = [client EXCEPT ![c] = w]
  BY <1>1, <1>2, StageFrom DEF Verifies, Moves
<1>6. w \in Work \cup {NoWork} /\ w.at = "stamped" /\ w.of = b  BY <1>3, <1>4, WorkIs
<1>7. /\ files' = files \ {Plain(b)} /\ UNCHANGED <<ever, starting, records>>
      /\ refused' \in {refused, refused \cup {b}}
  BY DEF Verifies
<1> HIDE DEF w
<1>8. /\ Artifact(b) \in files' /\ Plain(b) \notin files'
      /\ FilesAgree(b, row, files', starting')
  BY <1>3, <1>7, NamesAre DEF FilesAgree
<1>9. AtWork(w, records', files')  BY <1>3, <1>6, <1>7, <1>8 DEF AtWork
<1>10. /\ SameFiles(Backups \ {b}, files', starting')
       /\ files' \subseteq Names /\ starting' \subseteq Backups
  BY <1>2, <1>3, <1>7, NamesAre, StageFrom DEF SameFiles
<1>11. refused' \subseteq Backups /\ now' \in 0..LastInstant
  BY <1>2, <1>3, <1>4, <1>7, StageFrom, PeriodConstants
<1>12. Stage(c, b, w, row)
  BY <1>2, <1>3, <1>5, <1>6, <1>7, <1>8, <1>9, <1>10, <1>11, StageFrom DEF Stage
<1> QED BY <1>3, <1>6, <1>12, StageInv

LEMMA FailsInv == ASSUME BackupInv, NEW c \in Clients, BackupFails(c) PROVE BackupInv'
<1> DEFINE b   == Mine(c)
           row == [records[b] EXCEPT !.status = "failed"]
<1>1. client[c].at \in Stages  BY DEF BackupFails, Stages
<1>2. b \in Backups /\ records[b] \in Record  BY <1>1, OwnIs
<1>3. row \in Record /\ row.status = "failed"  BY <1>2 DEF Record, Statuses
<1>4. records' = [records EXCEPT ![b] = row] /\ client' = [client EXCEPT ![c] = NoWork]
  BY DEF BackupFails, SetsStatus, Moves
<1>5. NoWork \in Work \cup {NoWork} /\ NoWork.at = "idle"  BY WorkIs
<1>6. files' = files \ {Dump(b), Plain(b)} /\ UNCHANGED <<now, starting, refused, ever>>
  BY DEF BackupFails
<1> HIDE DEF row
<1>7. AtWork(NoWork, records', files')  BY <1>5 DEF AtWork
<1>8. /\ SameFiles(Backups \ {b}, files', starting') /\ FilesAgree(b, row, files', starting')
      /\ files' \subseteq Names /\ starting' \subseteq Backups
  BY <1>1, <1>2, <1>3, <1>6, NamesAre, StageFrom DEF SameFiles, FilesAgree
<1>9. NoWork.at \notin Stages  BY <1>5 DEF Stages
<1>10. Stage(c, b, NoWork, row)
  BY <1>1, <1>3, <1>4, <1>5, <1>6, <1>7, <1>8, <1>9, StageFrom DEF Stage
<1> QED BY <1>2, <1>3, <1>5, <1>10, StageInv

LEMMA StopsInv == ASSUME BackupInv, NEW c \in Clients, Stops(c) PROVE BackupInv'
<1>1. NoWork \in Work \cup {NoWork} /\ NoWork.at = "idle"  BY WorkIs
<1>2. /\ SameFiles(Backups, files', starting')
      /\ files' \subseteq Names /\ starting' \subseteq Backups
  BY DEF Stops, SameFiles, BackupInv, BackupTyped
<1>3. Quits(c, NoWork)  BY <1>1, <1>2 DEF Stops, Quits, Moves, Stages
<1> QED BY <1>1, <1>3, QuitsInv

\* The backup joins the history.  What was promised before and is no longer may go; what is
\* still promised is there, and so is the new one.
LEMMA CompletesInv == ASSUME BackupInv, NEW c \in Clients, Completes(c) PROVE BackupInv'
<1> DEFINE b   == Mine(c)
           t   == client[c].instant
           row == [records[b] EXCEPT !.status = "completed", !.at = t]
           w   == [at |-> "retention"]
           x   == [of |-> b, at |-> t]
<1>1. client[c].at = "stamped" /\ client[c].at \in Stages  BY DEF Completes, AtStage, Stages
<1>2. /\ b \in Backups /\ records[b] \in Record /\ records[b].hashed
      /\ records[b].status = "verifying"
      /\ Artifact(b) \in files /\ Dump(b) \notin files /\ Plain(b) \notin files
      /\ b \notin starting
      /\ \A d \in Clients \ {c} : client[d].at \in Stages => client[d].of # b
  BY <1>1, OwnIs DEF AtWork, FilesAgree, Mine
<1>3. t \in 1..LastInstant  BY <1>1, ClientIs DEF BackupInv
<1>4. /\ row \in Record /\ row.status = "completed" /\ row.at = t /\ row.hashed
  BY <1>2, <1>3 DEF Record, Statuses
<1>5. /\ records' = [records EXCEPT ![b] = row] /\ client' = [client EXCEPT ![c] = w]
      /\ ever' = ever \cup {x} /\ UNCHANGED <<now, files, starting, refused>>
  BY <1>2 DEF Completes, Moves, BackupInv, BackupTyped
<1>6. w \in Work \cup {NoWork} /\ w.at = "retention"  BY WorkIs
<1>7. x \in Ended /\ x.of = b /\ x.at = t /\ x = [of |-> b, at |-> t]
  BY <1>2, <1>3 DEF Ended
<1> HIDE DEF row, w, x, t, b
<1>8. /\ ever \in SUBSET Ended /\ ever' \in SUBSET Ended /\ ever \subseteq ever'
  BY <1>5, <1>7 DEF BackupInv, BackupTyped, Ended
<1>9. BackupTyped'  BY <1>4, <1>5, <1>6, <1>8 DEF BackupInv, BackupTyped, Ended
<1>10. client'[c] = w /\ \A d \in Clients \ {c} : client'[d] = client[d]
  BY <1>5 DEF BackupInv, BackupTyped
<1>11. records'[b] = row /\ \A y \in Backups \ {b} : records'[y] = records[y]
  BY <1>2, <1>5 DEF BackupInv, BackupTyped
<1>12. Sole'  BY <1>6, <1>10 DEF BackupInv, Sole, Stages
<1>13. \A d \in Clients : AtWork(client[d], records, files)'
  <2>1. AtWork(client'[c], records', files')  BY <1>6, <1>10 DEF AtWork
  <2>2. ASSUME NEW d \in Clients \ {c} PROVE AtWork(client'[d], records', files')
    <3>1. AtWork(client[d], records, files) /\ client'[d] = client[d] /\ files' = files
      BY <1>5, <1>10 DEF BackupInv
    <3>2. CASE client[d].at \in Stages
      <4>1. client[d].of \in Backups \ {b}  BY <1>2, <3>2, ClientIs DEF BackupInv
      <4>2. records'[client[d].of] = records[client[d].of]  BY <1>11, <4>1
      <4> QED BY <3>1, <4>2 DEF AtWork
    <3>3. CASE client[d].at \notin Stages  BY <3>1, <3>3 DEF AtWork, Stages
    <3> QED BY <3>2, <3>3
  <2> QED BY <2>1, <2>2
<1>14. RowsAgree'
  <2>1. ASSUME NEW y \in Backups
        PROVE  /\ records'[y].status = "completed" =>
                    /\ records'[y].hashed /\ Artifact(y) \in files'
                    /\ [of |-> y, at |-> records'[y].at] \in ever'
               /\ FilesAgree(y, records'[y], files', starting')
    <3>1. CASE y = b  BY <1>2, <1>4, <1>5, <1>7, <1>11, <3>1 DEF FilesAgree
    <3>2. CASE y # b  BY <1>5, <1>11, <3>2 DEF BackupInv, RowsAgree
    <3> QED BY <3>1, <3>2
  <2> QED BY <2>1 DEF RowsAgree
<1>15. \A e \in ever : e.of \in Backups /\ e.of # b
  <2>1. \A e \in ever : e.of \in Backups  BY <1>8 DEF Ended
  <2>2. \A e \in ever : records[e.of].status \in {"completed", "deleted"}
    BY DEF BackupInv, HistoryAgrees, Deleted
  <2> QED BY <1>2, <2>1, <2>2
<1>16. HistoryAgrees'
  <2>1. \A e \in ever : \/ records'[e.of] = Deleted
                        \/ records'[e.of].status = "completed" /\ records'[e.of].at = e.at
    BY <1>11, <1>15 DEF BackupInv, HistoryAgrees
  <2>2. records'[x.of].status = "completed" /\ records'[x.of].at = x.at
    BY <1>4, <1>7, <1>11
  <2> QED BY <1>5, <2>1, <2>2 DEF HistoryAgrees
<1>17. DropsAreSpare'
  <2>1. ASSUME NEW d \in Clients, client'[d].at = "prune", NEW y \in client'[d].drop
        PROVE  /\ \E e \in ever' : e.of = y
               /\ \A e \in ever' : e.of = y => e \notin OwedIn(ever')
    <3>1. client'[d] = client[d]  BY <1>6, <1>10, <2>1
    <3>2. /\ \E e \in ever : e.of = y
          /\ \A e \in ever : e.of = y => e \notin OwedIn(ever)
      BY <2>1, <3>1 DEF BackupInv, DropsAreSpare
    <3>3. \A e \in ever' : e.of = y => e \in ever  BY <1>5, <1>7, <1>15, <3>2
    <3>4. \A e \in ever : e \in OwedIn(ever') => e \in OwedIn(ever)  BY <1>8, OwedBefore
    <3> QED BY <1>8, <3>2, <3>3, <3>4
  <2>2. ASSUME NEW d \in Clients, client'[d].at = "prune"
        PROVE  client'[d].drop \cap client'[d].touch = {}
    <3>1. client'[d] = client[d]  BY <1>6, <1>10, <2>2
    <3> QED BY <2>2, <3>1 DEF BackupInv, DropsAreSpare
  <2> QED BY <2>1, <2>2 DEF DropsAreSpare
<1>18. \A e \in OwedIn(ever') : e.of \in Backups /\ records'[e.of].status = "completed"
  <2>1. \A e \in OwedIn(ever') : e \in ever'  BY DEF OwedIn, PromisedIn
  <2>2. ASSUME NEW e \in ever, e \in OwedIn(ever')
        PROVE  e.of \in Backups /\ records'[e.of].status = "completed"
    <3>1. e \in OwedIn(ever)  BY <1>8, <2>2, OwedBefore
    <3> QED BY <1>11, <1>15, <3>1 DEF BackupInv, Completed
  <2>3. x.of \in Backups /\ records'[x.of].status = "completed"
    BY <1>2, <1>4, <1>7, <1>11
  <2> QED BY <1>5, <2>1, <2>2, <2>3
<1>19. (\A e \in OwedIn(ever) : e.of \in Completed)'  BY <1>18 DEF Completed
<1> QED BY <1>9, <1>12, <1>13, <1>14, <1>16, <1>17, <1>19 DEF BackupInv

\* What age does alters no row, and its record has no artifact, so nobody works on one.
LEMMA AgeInv ==
  ASSUME BackupInv, NEW b \in Backups, AgeOpens(b) \/ AgeDies(b)
  PROVE  BackupInv'
<1>1. /\ b \in starting /\ starting' = starting \ {b}
      /\ files' = files \/ files' = files \cup {Dump(b)}
      /\ UNCHANGED <<now, records, client, refused, ever>>
  BY DEF AgeOpens, AgeDies
<1>2. ASSUME NEW x \in Backups
      PROVE  /\ Artifact(x) \in files' <=> Artifact(x) \in files
             /\ Plain(x) \in files' <=> Plain(x) \in files
             /\ x # b => (Dump(x) \in files' <=> Dump(x) \in files)
  BY <1>1, NamesAre
<1>3. BackupTyped'  BY <1>1, NamesAre DEF BackupInv, BackupTyped
<1>4. \A d \in Clients : AtWork(client[d], records, files)'
  <2>1. ASSUME NEW d \in Clients PROVE AtWork(client[d], records, files')
    <3>1. AtWork(client[d], records, files)  BY DEF BackupInv
    <3>2. client[d].at \in Stages => client[d].of \in Backups  BY ClientIs DEF BackupInv
    <3> QED BY <1>2, <3>1, <3>2 DEF AtWork, Stages
  <2> QED BY <1>1, <2>1
<1>5. RowsAgree'
  <2>1. \A x \in Backups : FilesAgree(x, records[x], files', starting')
    BY <1>1, <1>2 DEF BackupInv, RowsAgree, FilesAgree
  <2> QED BY <1>1, <1>2, <2>1 DEF BackupInv, RowsAgree
<1> QED BY <1>1, <1>3, <1>4, <1>5
        DEF BackupInv, Sole, HistoryAgrees, DropsAreSpare, Completed

-------------------------------------------------------------------------------
(* Backups: apply_retention *)

LEMMA CompletedAre ==
  ASSUME BackupInv
  PROVE  /\ Completed \in SUBSET Backups
         /\ \A b \in Completed : /\ [of |-> b, at |-> When(b)] \in ever
                                 /\ When(b) \in 1..LastInstant
         /\ \A b \in Completed, e \in ever : e.of = b => e = [of |-> b, at |-> When(b)]
<1>1. ever \in SUBSET Ended  BY DEF BackupInv, BackupTyped, Ended
<1>2. ASSUME NEW b \in Completed
      PROVE  [of |-> b, at |-> When(b)] \in ever /\ When(b) \in 1..LastInstant
  <2>1. [of |-> b, at |-> When(b)] \in ever
    BY DEF BackupInv, RowsAgree, Completed, When
  <2> QED BY <1>1, <2>1 DEF Ended
<1>3. ASSUME NEW b \in Completed, NEW e \in ever, e.of = b
      PROVE  e = [of |-> b, at |-> When(b)]
  <2>1. records[b] # Deleted  BY DEF Completed, Deleted
  <2>2. e.at = When(b)  BY <1>3, <2>1 DEF BackupInv, HistoryAgrees, When
  <2> QED BY <1>1, <1>3, <2>2 DEF Ended
<1> QED BY <1>2, <1>3 DEF Completed

\* The latest is kept: it is the newest of its day.
LEMMA LatestIs ==
  ASSUME BackupInv, Completed # {}
  PROVE  Latest(Completed) \in Kept(Completed)
<1> DEFINE T == {When(b) : b \in Completed}
<1>1. T \in SUBSET (1..LastInstant) /\ T # {}  BY CompletedAre
<1> HIDE DEF T
<1>2. PICK m \in T : \A t \in T : t <= m  BY <1>1, LastIs
<1>3. \E b \in Completed : \A x \in Completed : When(x) <= When(b)  BY <1>2 DEF T
<1> DEFINE b == Latest(Completed)
<1>4. b \in Completed /\ \A x \in Completed : When(x) <= When(b)  BY <1>3 DEF Latest
<1> HIDE DEF b
<1>5. \A x \in Completed : ~(When(x) > When(b))
  <2>1. \A x \in Completed : When(x) \in 1..LastInstant  BY CompletedAre
  <2>2. \A i, j \in 1..LastInstant : i <= j => ~(i > j)  BY PeriodConstants
  <2> QED BY <1>4, <2>1, <2>2
<1>6. {When(x) \div DayLength : x \in {y \in Completed : When(y) > When(b)}} = {}  BY <1>5
<1>7. b \in Tops(Completed, DayLength, Days)
  BY <1>4, <1>5, <1>6, FS_EmptySet, PeriodConstants DEF Tops
<1> QED BY <1>7 DEF Kept, b

\* What does not top its period is not promised either: of the backups that ended later,
\* those that are still there tell as much as all of them, or more have gone.
LEMMA NotPromised ==
  ASSUME BackupInv, NEW b \in Completed, NEW length, NEW limit \in Nat,
         b \notin Tops(Completed, length, limit)
  PROVE  [of |-> b, at |-> When(b)] \notin PromisedIn(ever, length, limit)
<1> DEFINE e == [of |-> b, at |-> When(b)]
           later == {When(x) \div length : x \in {y \in Completed : When(y) > When(b)}}
<1>1. ever \in SUBSET Ended  BY DEF BackupInv, BackupTyped, Ended
<1>2. \A x \in Completed : \E y \in ever : y.at = When(x)
  <2>1. \A x \in Completed : [of |-> x, at |-> When(x)] \in ever  BY CompletedAre
  <2> QED BY <2>1
<1>3. CASE \E x \in Completed : When(x) > When(b) /\ When(x) \div length = When(b) \div length
  <2>1. PICK y \in ever : y.at > When(b) /\ y.at \div length = When(b) \div length
    BY <1>2, <1>3
  <2>2. e.at = When(b)  OBVIOUS
  <2> HIDE DEF e
  <2>3. e \notin PromisedIn(ever, length, limit)  BY <2>1, <2>2 DEF PromisedIn
  <2> QED BY <2>3 DEF e
<1>4. CASE ~(Cardinality(later) < limit)
  <2>1. e.at = When(b)  OBVIOUS
  <2> HIDE DEF e
  <2>2. later \subseteq PeriodsAfter(ever, e.at, length)
    BY <1>2, <2>1 DEF PeriodsAfter
  <2> HIDE DEF later
  <2>3. ASSUME e \in PromisedIn(ever, length, limit) PROVE FALSE
    <3>1. Cardinality(PeriodsAfter(ever, e.at, length)) < limit  BY <2>3 DEF PromisedIn
    <3>2. Cardinality(later) < limit  BY <1>1, <2>2, <3>1, PeriodsAfterIs, FewerPeriods
    <3> QED BY <1>4, <3>2
  <2> QED BY <2>3 DEF e
<1> QED BY <1>3, <1>4 DEF Tops

LEMMA ReadsRecordsInv == ASSUME BackupInv, NEW c \in Clients, ReadsRecords(c) PROVE BackupInv'
<1>1. /\ UNCHANGED <<now, records, files, starting, refused, ever>>
      /\ SameFiles(Backups, files', starting')
      /\ files' \subseteq Names /\ starting' \subseteq Backups
  BY DEF ReadsRecords, SameFiles, BackupInv, BackupTyped
<1>2. CASE Cardinality(Completed) <= 1
  <2>1. NoWork \in Work \cup {NoWork} /\ NoWork.at = "idle"  BY WorkIs
  <2>2. Quits(c, NoWork)  BY <1>1, <1>2, <2>1 DEF ReadsRecords, Quits, Moves, Stages
  <2> QED BY <2>1, <2>2, QuitsInv
<1>3. CASE ~(Cardinality(Completed) <= 1)
  <2> DEFINE latest == Latest(Completed)
             drop   == Completed \ Kept(Completed)
             fresh  == {b \in Kept(Completed) : records[b].category = "none"}
             relock == IF records[latest].category = "locked" THEN {} ELSE {latest}
             w      == [at |-> "prune", drop |-> drop, touch |-> fresh \cup relock,
                        latest |-> latest]
  <2>1. client' = [client EXCEPT ![c] = w]  BY <1>3 DEF ReadsRecords, Moves
  <2>2. Completed # {}  BY <1>3, FS_EmptySet
  <2>3. Kept(Completed) \subseteq Completed  BY DEF Kept, Tops
  <2>4. latest \in Kept(Completed) /\ latest \in Backups
    BY <2>2, <2>3, LatestIs, CompletedAre
  <2>5. /\ drop \in SUBSET Backups /\ fresh \cup relock \in SUBSET Backups
        /\ drop \cap (fresh \cup relock) = {}
    BY <2>3, <2>4, CompletedAre
  <2>6. ASSUME NEW b \in drop
        PROVE  /\ \E e \in ever : e.of = b
               /\ \A e \in ever : e.of = b => e \notin OwedIn(ever)
    <3>1. b \in Completed  OBVIOUS
    <3>2. /\ b \notin Tops(Completed, DayLength, Days)
          /\ b \notin Tops(Completed, WeekLength, Weeks)
          /\ b \notin Tops(Completed, MonthLength, Months)
      BY DEF Kept
    <3>3. [of |-> b, at |-> When(b)] \notin OwedIn(ever)
      BY <3>1, <3>2, NotPromised, PeriodConstants DEF OwedIn
    <3> QED BY <3>1, <3>3, CompletedAre
  <2>7. w \in Work \cup {NoWork}  BY <2>4, <2>5, WorkIs
  <2>8. w.at = "prune" /\ w.drop = drop /\ w.drop \cap w.touch = {}  BY <2>5
  <2> HIDE DEF w, drop, fresh, relock, latest
  <2>9. BackupTyped'  BY <1>1, <2>1, <2>7 DEF BackupInv, BackupTyped
  <2>10. client'[c] = w /\ \A d \in Clients \ {c} : client'[d] = client[d]
    BY <2>1 DEF BackupInv, BackupTyped
  <2>11. Sole'  BY <2>8, <2>10 DEF BackupInv, Sole, Stages
  <2>12. \A d \in Clients : AtWork(client[d], records, files)'
    <3>1. AtWork(w, records, files)  BY <2>8 DEF AtWork
    <3>2. \A d \in Clients : AtWork(client'[d], records, files)
      BY <2>10, <3>1 DEF BackupInv
    <3> QED BY <1>1, <3>2
  <2>13. DropsAreSpare'
    <3>1. ASSUME NEW d \in Clients, client'[d].at = "prune", NEW b \in client'[d].drop
          PROVE  /\ \E e \in ever : e.of = b
                 /\ \A e \in ever : e.of = b => e \notin OwedIn(ever)
      <4>1. CASE d = c  BY <2>6, <2>8, <2>10, <3>1, <4>1
      <4>2. CASE d # c  BY <2>10, <3>1, <4>2 DEF BackupInv, DropsAreSpare
      <4> QED BY <4>1, <4>2
    <3>2. ASSUME NEW d \in Clients, client'[d].at = "prune"
          PROVE  client'[d].drop \cap client'[d].touch = {}
      <4>1. CASE d = c  BY <2>8, <2>10, <4>1
      <4>2. CASE d # c  BY <2>10, <3>2, <4>2 DEF BackupInv, DropsAreSpare
      <4> QED BY <4>1, <4>2
    <3> QED BY <1>1, <3>1, <3>2 DEF DropsAreSpare
  <2>14. RowsAgree' /\ HistoryAgrees'  BY <1>1 DEF BackupInv, RowsAgree, HistoryAgrees
  <2>15. (\A e \in OwedIn(ever) : e.of \in Completed)'  BY <1>1 DEF BackupInv, Completed
  <2> QED BY <2>9, <2>11, <2>12, <2>13, <2>14, <2>15 DEF BackupInv
<1> QED BY <1>2, <1>3

\* _is_last_healthy never has to spare anything: the last backup of all is not among those
\* that a process has decided to delete, however old that decision is.
LEMMA DoomedIs ==
  ASSUME BackupInv, NEW c \in Clients, client[c].at = "prune"
  PROVE  Doomed(c) = client[c].drop
<1> SUFFICES ASSUME client[c].drop # {}, Completed \subseteq client[c].drop PROVE FALSE
  BY DEF Doomed
<1>1. ever \in SUBSET Ended  BY DEF BackupInv, BackupTyped, Ended
<1>2. ever # {}  BY DEF BackupInv, DropsAreSpare
<1>3. PICK e \in ever : e \in OwedIn(ever)  BY <1>1, <1>2, LastIsOwed
<1>4. e.of \in client[c].drop  BY <1>3 DEF BackupInv
<1> QED BY <1>3, <1>4 DEF BackupInv, DropsAreSpare

LEMMA PrunesInv == ASSUME BackupInv, NEW c \in Clients, Prunes(c) PROVE BackupInv'
<1> DEFINE drop  == client[c].drop
           touch == client[c].touch
           w     == [at |-> "unlink", drop |-> drop]
<1>1. client[c].at = "prune" /\ touch \subseteq Completed  BY DEF Prunes, AtStage
<1>2. Doomed(c) = drop /\ drop \in SUBSET Backups /\ drop \cap touch = {}
  BY <1>1, DoomedIs, ClientIs DEF BackupInv, DropsAreSpare
<1>3. client' = [client EXCEPT ![c] = w] /\ UNCHANGED <<now, files, starting, refused, ever>>
  BY <1>2 DEF Prunes, Moves
<1> DEFINE row(b) ==
             CASE b \in Doomed(c) -> Deleted
               [] b \in touch \cup (drop \ Doomed(c)) ->
                    [records[b] EXCEPT !.category = IF b = client[c].latest \/ b \in drop
                                                    THEN "locked" ELSE "period"]
               [] OTHER -> records[b]
<1>4. records' = [b \in Backups |-> row(b)]  BY DEF Prunes
<1>5. ASSUME NEW b \in drop PROVE records'[b] = Deleted
  <2>1. row(b) = Deleted  BY <1>2
  <2> HIDE DEF row
  <2> QED BY <1>2, <1>4, <2>1
<1>6. ASSUME NEW b \in Backups \ drop
      PROVE  /\ records'[b] \in Record \cup {Absent, Deleted}
             /\ records[b] = Deleted => records'[b] = Deleted
             /\ records'[b].status = records[b].status
             /\ records[b].status = "completed" => records'[b].at = records[b].at
             /\ records[b].status \in {"completed", "verifying"} =>
                  records'[b].hashed = records[b].hashed
  <2>1. CASE b \in touch
    <3>1. records[b] \in Record /\ records[b].status = "completed"
      BY <1>1, <2>1, RowIs DEF Completed, BackupInv, Statuses
    <3>2. PICK category \in Categories :
            records'[b] = [records[b] EXCEPT !.category = category]
      BY <1>2, <1>4, <2>1 DEF Categories
    <3>3. records[b] # Deleted  BY <3>1 DEF Deleted
    <3> QED BY <3>1, <3>2, <3>3 DEF Record
  <2>2. CASE b \notin touch
    <3>1. records'[b] = records[b]  BY <1>2, <1>4, <2>2
    <3> QED BY <3>1, RowIs DEF BackupInv
  <2> QED BY <2>1, <2>2
<1>7. \A b \in drop : records[b].status \in {"completed", "deleted"}
  BY <1>1 DEF BackupInv, DropsAreSpare, HistoryAgrees, Deleted
<1>8. w \in Work \cup {NoWork} /\ w.at = "unlink"  BY <1>2, WorkIs
<1> HIDE DEF w
<1>9. client'[c] = w /\ \A d \in Clients \ {c} : client'[d] = client[d]
  BY <1>3 DEF BackupInv, BackupTyped
<1>10. BackupTyped'
  <2>1. \A b \in Backups : records'[b] \in Record \cup {Absent, Deleted}  BY <1>5, <1>6
  <2>2. records' \in [Backups -> Record \cup {Absent, Deleted}]  BY <1>4, <2>1
  <2> QED BY <1>3, <1>8, <2>2 DEF BackupInv, BackupTyped
<1>11. Sole'  BY <1>8, <1>9 DEF BackupInv, Sole, Stages
<1>12. \A d \in Clients : AtWork(client[d], records, files)'
  <2>1. AtWork(client'[c], records', files')  BY <1>8, <1>9 DEF AtWork
  <2>2. ASSUME NEW d \in Clients \ {c} PROVE AtWork(client'[d], records', files')
    <3>1. AtWork(client[d], records, files) /\ client'[d] = client[d] /\ files' = files
      BY <1>3, <1>9 DEF BackupInv
    <3>2. CASE client[d].at \in Stages
      <4>1. client[d].of \in Backups /\ records[client[d].of].status \notin {"completed", "deleted"}
        BY <3>1, <3>2, ClientIs DEF BackupInv, AtWork, Stages
      <4>2. client[d].of \in Backups \ drop  BY <1>7, <4>1
      <4> QED BY <1>6, <3>1, <4>2 DEF AtWork
    <3>3. CASE client[d].at \notin Stages  BY <3>1, <3>3 DEF AtWork, Stages
    <3> QED BY <3>2, <3>3
  <2> QED BY <2>1, <2>2
<1>13. RowsAgree'
  <2>1. ASSUME NEW b \in Backups
        PROVE  /\ records'[b].status = "completed" =>
                    /\ records'[b].hashed /\ Artifact(b) \in files'
                    /\ [of |-> b, at |-> records'[b].at] \in ever'
               /\ FilesAgree(b, records'[b], files', starting')
    <3>1. CASE b \in drop
      <4>1. records'[b].status = "deleted"  BY <1>5, <3>1 DEF Deleted
      <4> QED BY <1>3, <1>7, <3>1, <4>1 DEF BackupInv, RowsAgree, FilesAgree
    <3>2. CASE b \notin drop  BY <1>3, <1>6, <3>2 DEF BackupInv, RowsAgree, FilesAgree
    <3> QED BY <3>1, <3>2
  <2> QED BY <2>1 DEF RowsAgree
<1>14. \A e \in ever : e.of \in Backups  BY DEF BackupInv, BackupTyped
<1>15. HistoryAgrees'
  <2>1. ASSUME NEW e \in ever
        PROVE  \/ records'[e.of] = Deleted
               \/ records'[e.of].status = "completed" /\ records'[e.of].at = e.at
    <3>1. CASE e.of \in drop  BY <1>5, <3>1
    <3>2. CASE e.of \notin drop
      <4>1. e.of \in Backups \ drop  BY <1>14, <3>2
      <4> QED BY <1>6, <4>1 DEF BackupInv, HistoryAgrees
    <3> QED BY <3>1, <3>2
  <2> QED BY <1>3, <2>1 DEF HistoryAgrees
<1>16. DropsAreSpare'
  <2>1. ASSUME NEW d \in Clients, client'[d].at = "prune"
        PROVE  client[d].at = "prune" /\ client'[d] = client[d]
    BY <1>8, <1>9, <2>1
  <2> QED BY <1>3, <2>1 DEF BackupInv, DropsAreSpare
<1>17. \A e \in OwedIn(ever) : e.of \in Backups /\ records'[e.of].status = "completed"
  <2>1. ASSUME NEW e \in OwedIn(ever) PROVE e.of \in Backups \ drop
    <3>1. e \in ever  BY DEF OwedIn, PromisedIn
    <3> QED BY <1>1, <1>14, <3>1 DEF BackupInv, DropsAreSpare
  <2> QED BY <1>6, <2>1 DEF BackupInv, Completed
<1>18. (\A e \in OwedIn(ever) : e.of \in Completed)'  BY <1>3, <1>17 DEF Completed
<1> QED BY <1>10, <1>11, <1>12, <1>13, <1>15, <1>16, <1>18 DEF BackupInv

LEMMA GivesUpInv == ASSUME BackupInv, NEW c \in Clients, GivesUp(c) PROVE BackupInv'
<1>1. NoWork \in Work \cup {NoWork} /\ NoWork.at = "idle"  BY WorkIs
<1>2. /\ SameFiles(Backups, files', starting')
      /\ files' \subseteq Names /\ starting' \subseteq Backups
  BY DEF GivesUp, SameFiles, BackupInv, BackupTyped
<1>3. Quits(c, NoWork)  BY <1>1, <1>2 DEF GivesUp, Quits, Moves, Stages
<1> QED BY <1>1, <1>3, QuitsInv

\* What retention unlinks is never what a backup has written.
LEMMA UnlinksInv == ASSUME BackupInv, NEW c \in Clients, Unlinks(c) PROVE BackupInv'
<1>1. NoWork \in Work \cup {NoWork} /\ NoWork.at = "idle"  BY WorkIs
<1>2. /\ client[c].drop \in SUBSET Backups
      /\ files' = files \ {FilePath(b) : b \in client[c].drop}
      /\ starting' = starting
  BY ClientIs DEF Unlinks, AtStage, BackupInv
<1>3. /\ SameFiles(Backups, files', starting')
      /\ files' \subseteq Names /\ starting' \subseteq Backups
  <2>1. \A x \in Backups, b \in client[c].drop :
          FilePath(b) \notin {Artifact(x), Dump(x), Plain(x)}
    BY <1>2, NamesAre
  <2> QED BY <1>2, <2>1 DEF SameFiles, BackupInv, BackupTyped
<1>4. Quits(c, NoWork)  BY <1>1, <1>3 DEF Unlinks, Quits, Moves, Stages
<1> QED BY <1>1, <1>4, QuitsInv

-------------------------------------------------------------------------------
(* Backups: the invariant, and what follows from it *)

LEMMA BackupInitInv == BackupInit => BackupInv
<1> SUFFICES ASSUME BackupInit PROVE BackupInv  OBVIOUS
<1>1. BackupTyped  BY PeriodConstants DEF BackupInit, BackupTyped
<1>2. \A c \in Clients : client[c].at = "idle"  BY WorkIs DEF BackupInit
<1>3. \A b \in Backups : records[b].status = "absent"  BY DEF BackupInit, Absent
<1>4. OwedIn(ever) = {}  BY DEF BackupInit, OwedIn, PromisedIn
<1> QED BY <1>1, <1>2, <1>3, <1>4
        DEF BackupInit, BackupInv, Sole, AtWork, RowsAgree, FilesAgree, HistoryAgrees,
            DropsAreSpare, Stages

LEMMA BackupNextInv == BackupInv /\ [BackupNext]_backupVars => BackupInv'
<1> SUFFICES ASSUME BackupInv, [BackupNext]_backupVars PROVE BackupInv'  OBVIOUS
<1>1. ASSUME NEW c \in Clients, RunsBackup(c) PROVE BackupInv'
  BY <1>1, BeginsInv, DumpsInv, EncryptsInv, HashesInv, VerifiesInv, CompletesInv, FailsInv
     DEF RunsBackup
<1>2. ASSUME NEW c \in Clients, AppliesRetention(c) PROVE BackupInv'
  BY <1>2, ReadsRecordsInv, PrunesInv, GivesUpInv, UnlinksInv DEF AppliesRetention
<1>3. CASE UNCHANGED backupVars
  BY <1>3 DEF backupVars, BackupInv, BackupTyped, Sole, RowsAgree, HistoryAgrees,
              DropsAreSpare, Completed
<1> QED BY <1>1, <1>2, <1>3, StopsInv, AgeInv DEF BackupNext

THEOREM BackupInductive == BackupSpec => []BackupInv
BY BackupInitInv, BackupNextInv, PTL DEF BackupSpec

\* However many processes prune at once, and however old what they have read is: the newest
\* backup of each of the last days, weeks and months is there.
THEOREM Pyramid == BackupSpec => []PyramidKept
<1>1. BackupInv => PyramidKept  BY OwedIs DEF PyramidKept, BackupInv
<1> QED BY <1>1, BackupInductive, PTL

\* Wherever a process fails or is stopped, and whenever the age it leaves behind goes on:
\* what is completed has its artifact, its hash and its time, nothing decrypted outlives
\* verification unnoticed, and half-written files lie beside no artifact.
THEOREM WholeBackups == BackupSpec => []BackupsAgree
<1>1. BackupInv => BackupsAgree
  <2> SUFFICES ASSUME BackupInv PROVE BackupsAgree  OBVIOUS
  <2>1. BackupTypeOK
    <3>1. \A c \in Clients : client[c] = NoWork \/ client[c] \in Work
      BY ClientIs DEF BackupInv
    <3> QED BY <3>1 DEF BackupInv, BackupTyped, BackupTypeOK
  <2>2. ASSUME NEW b \in Completed
        PROVE  records[b].hashed /\ Artifact(b) \in files /\ When(b) # Never
    <3>0. When(b) \in 1..LastInstant  BY CompletedAre
    <3>1. When(b) # Never  BY <3>0, PeriodConstants DEF Never
    <3>2. b \in Backups /\ records[b].status = "completed"  BY DEF Completed
    <3> QED BY <3>1, <3>2 DEF BackupInv, RowsAgree
  <2> QED BY <2>1, <2>2 DEF BackupsAgree, BackupInv, RowsAgree, FilesAgree
<1> QED BY <1>1, BackupInductive, PTL

\* The check that the last backup is not deleted never finds that it would be: what a
\* process has decided to delete never holds all that is left.
THEOREM NeverTheLast ==
  BackupSpec => [](\A c \in Clients : AtStage(c, "prune") => Doomed(c) = client[c].drop)
<1>1. BackupInv => \A c \in Clients : AtStage(c, "prune") => Doomed(c) = client[c].drop
  BY DoomedIs DEF AtStage
<1> QED BY <1>1, BackupInductive, PTL

-------------------------------------------------------------------------------
(* The page: the invariant *)

\* Every variable has the shape its actions give it.
PageTyped ==
  /\ server \in [draft : Draft \cup {NoDraft}, versions : 0..MaxVersions, opened : 0..MaxDrafts]
  /\ page \in [shown : Draft \cup {NoDraft}, form : Content, waiting : SUBSET Buttons,
               mutation : Mutations]
  /\ history \in [items : SUBSET (1..MaxVersions), cursor : 0..MaxVersions]
  /\ requests \subseteq Request

\* The draft d was read from the server s at some time.
Known(d, s) ==
  d # NoDraft =>
    /\ d.id <= s.opened
    /\ d.id = s.draft.id =>
         /\ d.revision <= s.draft.revision
         /\ d.revision = s.draft.revision => d.content = s.draft.content

\* The request r agrees with the server s, which may have gone on, and the history h.
Sound(r, s, h) ==
  /\ Known(r.shown, s) /\ Known(r.draft, s)
  /\ r.kind = "publish" => r.shown # NoDraft /\ r.form = r.shown.content
  /\ r.kind = "more" => r.cursor # 0 /\ r.cursor = h.cursor

\* While more versions are asked for, nothing else is asked of the history.
Alone(rs) == \A q, r \in rs : q.kind = "more" /\ r.kind \in {"refresh", "more"} => q = r

RequestsSound(rs, s, h) == rs \subseteq Request /\ Alone(rs) /\ \A r \in rs : Sound(r, s, h)

\* No version is missing between two that are listed, and the cursor is the last one unless
\* that is the first of all.
Ends(h) ==
  /\ \A m, n \in h.items : \A k \in m..n : k \in h.items
  /\ h.cursor = 0 => h.items = {} \/ 1 \in h.items
  /\ h.cursor # 0 => h.cursor \in h.items /\ 1 \notin h.items /\ \A n \in h.items : h.cursor <= n

PageInv ==
  /\ PageTyped
  /\ server.draft # NoDraft => server.draft.id = server.opened
  /\ Known(page.shown, server)
  /\ RequestsSound(requests, server, history)
  /\ Ends(history)

-------------------------------------------------------------------------------
(* The page: what its helpers give *)

LEMMA PageConstants ==
  /\ MaxDrafts \in Nat /\ MaxVersions \in Nat
  /\ MaxRevision \in Nat \ {0} /\ PageSize \in Nat \ {0} /\ OldVersions \in 0..MaxVersions
BY BoundsAssumption

\* Only NoDraft has the id 0.
LEMMA DraftIs ==
  ASSUME NEW d \in Draft \cup {NoDraft}
  PROVE  /\ d.id \in 0..MaxDrafts /\ d.revision \in 0..MaxRevision /\ d.content \in Content
         /\ d = NoDraft <=> d.id = 0
<1>1. BlankContent \in Content  BY BlankAssumption DEF BlankContent, Content
<1>2. CASE d \in Draft  BY <1>2, PageConstants DEF Draft, NoDraft
<1>3. CASE d = NoDraft  BY <1>1, <1>3, PageConstants DEF NoDraft
<1> QED BY <1>2, <1>3

LEMMA NewIs ==
  ASSUME PageInv, NEW kind \in Kinds
  PROVE  /\ New(kind) \in Request
         /\ New(kind).kind = kind /\ New(kind).draft = NoDraft
         /\ New(kind).shown \in {page.shown, NoDraft}
         /\ kind = "publish" => New(kind).shown = page.shown /\ New(kind).form = page.form
         /\ kind = "more" => New(kind).cursor = history.cursor
<1>1. /\ page.shown \in Draft \cup {NoDraft} /\ page.form \in Content
      /\ history.cursor \in 0..MaxVersions
  BY DEF PageInv, PageTyped
<1>2. BlankContent \in Content  BY BlankAssumption DEF BlankContent, Content
<1>3. 0 \in 0..MaxVersions  BY PageConstants
<1> DEFINE sh == IF kind \in Buttons \cup {"discard"} THEN Shown ELSE NoDraft
           fo == IF kind \in Buttons \cup {"load"} THEN page.form ELSE BlankContent
           cu == IF kind = "more" THEN history.cursor ELSE 0
<1>4. sh \in Draft \cup {NoDraft} /\ fo \in Content /\ cu \in 0..MaxVersions
  BY <1>1, <1>2, <1>3 DEF Shown
<1>5. New(kind) = [kind |-> kind, phase |-> "sent", shown |-> sh, form |-> fo,
                   cursor |-> cu, draft |-> NoDraft, mounted |-> TRUE]
  BY DEF New
<1> HIDE DEF sh, fo, cu
<1>6. New(kind) \in Request  BY <1>4, <1>5 DEF Request, Phases
<1>7. /\ New(kind).kind = kind /\ New(kind).draft = NoDraft
      /\ New(kind).shown = sh /\ New(kind).form = fo /\ New(kind).cursor = cu
  BY <1>5
<1>8. sh \in {page.shown, NoDraft}  BY DEF sh, Shown
<1>9. kind = "publish" => sh = page.shown /\ fo = page.form  BY DEF sh, fo, Shown, Buttons
<1>10. kind = "more" => cu = history.cursor  BY DEF cu
<1> QED BY <1>6, <1>7, <1>8, <1>9, <1>10

\* What the page sends agrees with the server and the history.
LEMMA NewSound ==
  ASSUME PageInv, NEW kind \in Kinds,
         kind = "publish" => HasDraft /\ ~Dirty,
         kind = "more" => history.cursor # 0
  PROVE  Sound(New(kind), server, history)
<1>1. Known(NoDraft, server)  BY DEF Known
<1>2. Known(page.shown, server)  BY DEF PageInv
<1>3. Known(New(kind).shown, server) /\ Known(New(kind).draft, server)
  BY <1>1, <1>2, NewIs
<1>4. kind = "publish" => page.shown # NoDraft /\ page.form = page.shown.content
  BY DEF HasDraft, Dirty, Shown
<1>5. /\ kind = "publish" => New(kind).shown # NoDraft /\ New(kind).form = New(kind).shown.content
      /\ kind = "more" => New(kind).cursor # 0 /\ New(kind).cursor = history.cursor
  BY <1>4, NewIs
<1> QED BY <1>3, <1>5, NewIs DEF Sound

\* Requests may go, and one may come that is not about the history while another one is.
LEMMA FewerSound ==
  ASSUME NEW rs, NEW s, NEW h, RequestsSound(rs, s, h), NEW S \in SUBSET rs
  PROVE  RequestsSound(S, s, h)
BY DEF RequestsSound, Alone

LEMMA OneMoreSound ==
  ASSUME NEW rs, NEW s, NEW h, RequestsSound(rs, s, h), NEW r \in Request, Sound(r, s, h),
         r.kind \in {"refresh", "more"} => \A q \in rs : q.kind \notin {"refresh", "more"}
  PROVE  RequestsSound(rs \cup {r}, s, h)
BY DEF RequestsSound, Alone

LEMMA RefreshingSound ==
  ASSUME PageInv, NEW rs, RequestsSound(rs, server, history)
  PROVE  RequestsSound(Refreshing(rs), server, history)
<1> DEFINE left == Without({"refresh", "more"}, rs)
<1>1. RequestsSound(left, server, history)  BY FewerSound DEF Without
<1>2. \A q \in left : q.kind \notin {"refresh", "more"}  BY DEF Without
<1>3. New("refresh") \in Request /\ Sound(New("refresh"), server, history)
  BY NewIs, NewSound DEF Kinds
<1> HIDE DEF left
<1>4. RequestsSound(left \cup {New("refresh")}, server, history)
  BY <1>1, <1>2, <1>3, OneMoreSound
<1> QED BY <1>4 DEF left, Refreshing

LEMMA LoadingSound ==
  ASSUME PageInv, NEW rs, RequestsSound(rs, server, history)
  PROVE  RequestsSound(Loading(rs), server, history)
<1>1. RequestsSound(Without({"load"}, rs), server, history)  BY FewerSound DEF Without
<1>2. RequestsSound(Refreshing(Without({"load"}, rs)), server, history)
  BY <1>1, RefreshingSound
<1>3. /\ New("load") \in Request /\ Sound(New("load"), server, history)
      /\ New("load").kind = "load"
  BY NewIs, NewSound DEF Kinds
<1> QED BY <1>2, <1>3, OneMoreSound DEF Loading

\* An editor that goes away changes nothing of what its requests carry.
LEMMA UnmountSound ==
  ASSUME NEW rs, RequestsSound(rs, server, history), NEW kinds \in SUBSET Buttons
  PROVE  RequestsSound(Unmount(rs, kinds), server, history)
<1> DEFINE f(r) == IF r.kind \in kinds THEN [r EXCEPT !.mounted = FALSE] ELSE r
<1>1. ASSUME NEW r \in rs
      PROVE  /\ f(r) \in Request /\ Sound(f(r), server, history)
             /\ f(r).kind = r.kind /\ (r.kind \in {"refresh", "more"} => f(r) = r)
  <2>1. r \in Request /\ Sound(r, server, history)  BY <1>1 DEF RequestsSound
  <2>2. CASE r.kind \in kinds
    <3>1. f(r) = [r EXCEPT !.mounted = FALSE]  BY <2>2
    <3>2. /\ f(r) \in Request /\ f(r).kind = r.kind /\ f(r).shown = r.shown
          /\ f(r).form = r.form /\ f(r).draft = r.draft /\ f(r).cursor = r.cursor
      BY <2>1, <3>1 DEF Request
    <3>3. Sound(f(r), server, history)  BY <2>1, <3>2 DEF Sound
    <3>4. r.kind \notin {"refresh", "more"}  BY <2>2 DEF Buttons, Parts
    <3> QED BY <3>2, <3>3, <3>4
  <2>3. CASE r.kind \notin kinds  BY <2>1, <2>3
  <2> QED BY <2>2, <2>3
<1>2. Unmount(rs, kinds) = {f(r) : r \in rs}  BY DEF Unmount
<1> HIDE DEF f
<1>3. Unmount(rs, kinds) \subseteq Request  BY <1>1, <1>2
<1>4. \A q \in Unmount(rs, kinds) : Sound(q, server, history)  BY <1>1, <1>2
<1>5. Alone(Unmount(rs, kinds))
  <2> SUFFICES ASSUME NEW q \in rs, NEW r \in rs, f(q).kind = "more",
                      f(r).kind \in {"refresh", "more"}
               PROVE  f(q) = f(r)
    BY <1>2 DEF Alone
  <2> QED BY <1>1 DEF RequestsSound, Alone
<1> QED BY <1>3, <1>4, <1>5 DEF RequestsSound

LEMMA KeptRequestsSound ==
  ASSUME NEW rs, RequestsSound(rs, server, history), NEW d
  PROVE  RequestsSound(KeepRequests(d, rs), server, history)
<1>1. Unmounted(d) \in SUBSET Buttons  BY DEF Unmounted, Buttons
<1>2. RequestsSound(Unmount(rs, Unmounted(d)), server, history)  BY <1>1, UnmountSound
<1> QED BY <1>2 DEF KeepRequests

LEMMA SetDraftIs ==
  ASSUME PageTyped, NEW d \in Draft \cup {NoDraft}
  PROVE  /\ SetDraft(d) \in [shown : Draft \cup {NoDraft}, form : Content,
                             waiting : SUBSET Buttons, mutation : Mutations]
         /\ SetDraft(d).shown = d
<1>1. StillWaiting(d) \in SUBSET Buttons  BY DEF PageTyped, StillWaiting
<1>2. d.content \in Content  BY DraftIs
<1> DEFINE fo == IF Keyed(d) THEN page.form ELSE d.content
<1>3. fo \in Content  BY <1>2 DEF PageTyped
<1>4. SetDraft(d) = [page EXCEPT !.shown = d, !.form = fo, !.waiting = StillWaiting(d)]
  BY DEF SetDraft, PageTyped
<1> HIDE DEF fo
<1> QED BY <1>1, <1>3, <1>4 DEF PageTyped

-------------------------------------------------------------------------------
(* The page: the list of versions *)

\* The least of a set of numbers is what Lowest chooses.
LEMMA LowestIs ==
  ASSUME NEW items \in SUBSET Nat, NEW n \in items, \A m \in items : n <= m
  PROVE  Lowest(items) = n
<1>1. \E x \in items : \A m \in items : x <= m  OBVIOUS
<1>2. Lowest(items) \in items /\ \A m \in items : Lowest(items) <= m  BY <1>1 DEF Lowest
<1>3. Lowest(items) <= n /\ n <= Lowest(items) /\ Lowest(items) \in Nat /\ n \in Nat
  BY <1>2
<1> QED BY <1>3

\* A history that ends where its cursor says has the cursor that NextCursor computes.
LEMMA EndsIs ==
  ASSUME NEW h, h.items \in SUBSET (1..MaxVersions), h.cursor \in 0..MaxVersions, Ends(h)
  PROVE  h.cursor = NextCursor(h.items)
<1>1. CASE h.cursor = 0  BY <1>1 DEF Ends, NextCursor
<1>2. CASE h.cursor # 0
  <2>1. h.cursor \in h.items /\ 1 \notin h.items /\ \A n \in h.items : h.cursor <= n
    BY <1>2 DEF Ends
  <2>2. h.items \in SUBSET Nat  OBVIOUS
  <2>3. Lowest(h.items) = h.cursor  BY <2>1, <2>2, LowestIs
  <2> QED BY <2>1, <2>3 DEF NextCursor
<1> QED BY <1>1, <1>2

\* One answer lists a piece of the history, and the cursor of what is listed is its end.
LEMMA ListedIs ==
  ASSUME PageTyped, NEW below \in 0..MaxVersions
  PROVE  LET top == IF below = 0 THEN server.versions ELSE below - 1
         IN  /\ Listed(below) \in SUBSET (1..top) /\ top \in 0..MaxVersions
             /\ \A m \in Listed(below) : \A k \in m..top : k \in Listed(below)
             /\ top # 0 => top \in Listed(below)
             /\ NextCursor(Listed(below)) \in 0..MaxVersions
             /\ NextCursor(Listed(below)) = 0 => Listed(below) = {} \/ 1 \in Listed(below)
             /\ NextCursor(Listed(below)) # 0 =>
                  /\ NextCursor(Listed(below)) \in Listed(below) /\ 1 \notin Listed(below)
                  /\ \A n \in Listed(below) : NextCursor(Listed(below)) <= n
<1> DEFINE top == IF below = 0 THEN server.versions ELSE below - 1
           low == IF PageSize < top THEN top - PageSize + 1 ELSE 1
<1>1. top \in 0..MaxVersions  BY PageConstants DEF PageTyped
<1>2. Listed(below) = {n \in 1..top : n > top - PageSize}  BY DEF Listed
<1> HIDE DEF top
<1>3. low \in Nat \ {0} /\ (top # 0 => low \in 1..top)  BY <1>1, PageConstants
<1>4. Listed(below) = low..top  BY <1>1, <1>2, PageConstants
<1> HIDE DEF low
<1>5. CASE top = 0
  <2>1. Listed(below) = {}  BY <1>3, <1>4, <1>5
  <2> QED BY <1>1, <1>5, <2>1 DEF NextCursor, top
<1>6. CASE top # 0
  <2>1. low \in Listed(below) /\ top \in Listed(below) /\ \A n \in Listed(below) : low <= n
    BY <1>1, <1>3, <1>4, <1>6
  <2>2. Listed(below) \in SUBSET Nat  BY <1>1, <1>3, <1>4
  <2>3. Lowest(Listed(below)) = low  BY <2>1, <2>2, LowestIs
  <2>4. NextCursor(Listed(below)) = IF low = 1 THEN 0 ELSE low
    BY <1>1, <1>3, <1>4, <1>6, <2>1, <2>3 DEF NextCursor
  <2>5. /\ Listed(below) \in SUBSET (1..top)
        /\ \A m \in Listed(below) : \A k \in m..top : k \in Listed(below)
    BY <1>1, <1>3, <1>4
  <2>6. low \in 0..MaxVersions /\ (low # 1 => 1 \notin Listed(below))
    BY <1>1, <1>3, <1>4, <1>6, PageConstants
  <2>7. /\ NextCursor(Listed(below)) \in 0..MaxVersions
        /\ NextCursor(Listed(below)) = 0 => 1 \in Listed(below)
        /\ NextCursor(Listed(below)) # 0 =>
             NextCursor(Listed(below)) = low /\ 1 \notin Listed(below)
    BY <1>3, <2>1, <2>4, <2>6, PageConstants
  <2> QED BY <1>1, <2>1, <2>5, <2>7 DEF top
<1> QED BY <1>5, <1>6

-------------------------------------------------------------------------------
(* The page: steps of the server *)

\* What the server, or another client, makes of the policy.
Moved(s) ==
  \/ /\ server.draft # NoDraft /\ server.draft.revision < MaxRevision
     /\ \E p \in Parts, v \in Values : s = Edited(p, v)
  \/ server.draft # NoDraft /\ server.versions < MaxVersions /\ s = Published
  \/ server.draft # NoDraft /\ s = Discarded
  \/ server.draft = NoDraft /\ server.opened < MaxDrafts /\ s = Opened(BlankContent)

\* Whatever it is, what was read before is still something the server once had.
LEMMA MovedIs ==
  ASSUME PageInv, NEW s, Moved(s)
  PROVE  /\ s \in [draft : Draft \cup {NoDraft}, versions : 0..MaxVersions,
                   opened : 0..MaxDrafts]
         /\ s.draft # NoDraft => s.draft.id = s.opened
         /\ Known(s.draft, s)
         /\ \A d \in Draft \cup {NoDraft} : Known(d, server) => Known(d, s)
<1> DEFINE ServerRow == [draft : Draft \cup {NoDraft}, versions : 0..MaxVersions,
                         opened : 0..MaxDrafts]
<1>0. /\ server \in ServerRow /\ server.draft \in Draft \cup {NoDraft}
      /\ server.opened \in Nat /\ server.versions \in Nat
      /\ server.draft # NoDraft => server.draft.id = server.opened
  BY PageConstants DEF PageInv, PageTyped
<1>1. CASE /\ server.draft # NoDraft /\ server.draft.revision < MaxRevision
           /\ \E p \in Parts, v \in Values : s = Edited(p, v)
  <2>1. PICK p \in Parts, v \in Values : s = Edited(p, v)  BY <1>1
  <2>2. server.draft \in Draft  BY <1>0, <1>1
  <2>3. [server.draft.content EXCEPT ![p] = v] \in Content  BY <2>2 DEF Draft, Content
  <2> DEFINE e == [server.draft EXCEPT !.content = [server.draft.content EXCEPT ![p] = v],
                                       !.revision = server.draft.revision + 1]
  <2>4. s = [server EXCEPT !.draft = e]  BY <1>0, <2>1, <2>2 DEF Edited, Draft
  <2>a. server.draft.revision + 1 \in 1..MaxRevision
    BY <1>1, <2>2, PageConstants DEF Draft
  <2>b. e \in Draft /\ e.id = server.draft.id /\ e.revision = server.draft.revision + 1
    BY <2>2, <2>3, <2>a DEF Draft
  <2> HIDE DEF e
  <2>5. /\ s.draft \in Draft /\ s.draft.id = server.draft.id
        /\ s.draft.revision = server.draft.revision + 1
        /\ s.opened = server.opened /\ s.versions = server.versions
    BY <1>0, <2>4, <2>b
  <2>6. s \in ServerRow  BY <1>0, <2>4, <2>5
  <2>7. server.draft.revision \in Nat  BY <2>2, PageConstants DEF Draft
  <2>8. Known(s.draft, s)  BY <1>0, <1>1, <2>5, <2>7 DEF Known
  <2>9. ASSUME NEW d \in Draft \cup {NoDraft}, Known(d, server) PROVE Known(d, s)
    <3>1. d.revision \in Nat  BY DraftIs, PageConstants
    <3> QED BY <2>5, <2>7, <2>9, <3>1 DEF Known
  <2> QED BY <1>0, <1>1, <2>5, <2>6, <2>8, <2>9
<1>2. ASSUME NEW n \in 0..MaxVersions, s = [server EXCEPT !.draft = NoDraft, !.versions = n]
      PROVE  /\ s \in ServerRow /\ s.draft = NoDraft
             /\ \A d \in Draft \cup {NoDraft} : Known(d, server) => Known(d, s)
  <2>1. s \in ServerRow /\ s.draft = NoDraft /\ s.opened = server.opened
    BY <1>0, <1>2
  <2>2. ASSUME NEW d \in Draft \cup {NoDraft}, Known(d, server) PROVE Known(d, s)
    <3>1. d # NoDraft => d.id # NoDraft.id  BY DraftIs DEF NoDraft
    <3> QED BY <2>1, <2>2, <3>1 DEF Known
  <2> QED BY <2>1, <2>2
<1>3. CASE server.draft = NoDraft /\ server.opened < MaxDrafts /\ s = Opened(BlankContent)
  <2>1. BlankContent \in Content  BY BlankAssumption DEF BlankContent, Content
  <2>2. s = [server EXCEPT !.draft = [id |-> server.opened + 1, revision |-> 1,
                                      content |-> BlankContent],
                           !.opened = server.opened + 1]
    BY <1>0, <1>3 DEF Opened
  <2>3. /\ s.draft = [id |-> server.opened + 1, revision |-> 1, content |-> BlankContent]
        /\ s.opened = server.opened + 1 /\ s.versions = server.versions
    BY <1>0, <2>2
  <2>4. s.draft \in Draft  BY <1>0, <1>3, <2>1, <2>3, PageConstants DEF Draft
  <2> DEFINE e == [id |-> server.opened + 1, revision |-> 1, content |-> BlankContent]
             n == server.opened + 1
  <2>a. s = [server EXCEPT !.draft = e, !.opened = n]  BY <2>2
  <2>b. e \in Draft /\ n \in 0..MaxDrafts  BY <1>0, <1>3, <2>3, <2>4, PageConstants
  <2> HIDE DEF e, n
  <2>5. s \in ServerRow  BY <1>0, <2>a, <2>b
  <2>6. s.draft.id = s.opened /\ s.opened = server.opened + 1  BY <2>3
  <2>7. Known(s.draft, s)  BY <1>0, <2>4, <2>6, PageConstants DEF Known, Draft
  <2>8. ASSUME NEW d \in Draft \cup {NoDraft}, Known(d, server) PROVE Known(d, s)
    <3>1. d.id \in Nat  BY DraftIs, PageConstants
    <3> QED BY <1>0, <2>6, <2>8, <3>1 DEF Known
  <2> QED BY <2>5, <2>6, <2>7, <2>8
<1>4. CASE server.draft # NoDraft /\ server.versions < MaxVersions /\ s = Published
  <2> DEFINE n == server.versions + 1
  <2>1. n \in 0..MaxVersions  BY <1>0, <1>4, PageConstants
  <2>2. s = [server EXCEPT !.draft = NoDraft, !.versions = n]
    BY <1>0, <1>4 DEF Published
  <2> HIDE DEF n
  <2> QED BY <1>2, <2>1, <2>2 DEF Known
<1>5. CASE server.draft # NoDraft /\ s = Discarded
  <2>1. server.versions \in 0..MaxVersions  BY <1>0
  <2>2. s = [server EXCEPT !.draft = NoDraft, !.versions = server.versions]
    BY <1>0, <1>5 DEF Discarded
  <2> QED BY <1>2, <2>1, <2>2 DEF Known
<1> QED BY <1>1, <1>3, <1>4, <1>5 DEF Moved

\* The requests agree with what the server has become.
LEMMA MovedSound ==
  ASSUME PageInv, NEW s, Moved(s)
  PROVE  RequestsSound(requests, s, history) /\ Known(page.shown, s)
<1>1. ASSUME NEW r \in requests PROVE Sound(r, s, history)
  <2>1. r \in Request /\ Sound(r, server, history)
    BY <1>1 DEF PageInv, RequestsSound
  <2>2. r.shown \in Draft \cup {NoDraft} /\ r.draft \in Draft \cup {NoDraft}
    BY <2>1 DEF Request
  <2> QED BY <2>1, <2>2, MovedIs DEF Sound
<1> QED BY <1>1, MovedIs DEF PageInv, PageTyped, RequestsSound

\* A request that the server has acted on carries its answer.
LEMMA AnswersInv ==
  ASSUME PageInv, NEW r \in requests, r.kind \notin {"refresh", "more"},
         NEW phase \in Phases, NEW d \in Draft \cup {NoDraft}, Known(d, server'),
         server' = server \/ Moved(server'),
         requests' = (requests \ {r}) \cup {[r EXCEPT !.phase = phase, !.draft = d]},
         UNCHANGED <<page, history>>
  PROVE  PageInv'
<1>1. /\ RequestsSound(requests, server', history) /\ Known(page.shown, server')
      /\ server' \in [draft : Draft \cup {NoDraft}, versions : 0..MaxVersions,
                      opened : 0..MaxDrafts]
      /\ server'.draft # NoDraft => server'.draft.id = server'.opened
  BY MovedIs, MovedSound DEF PageInv, PageTyped
<1>2. r \in Request /\ Sound(r, server', history)  BY <1>1 DEF RequestsSound
<1> DEFINE a == [r EXCEPT !.phase = phase, !.draft = d]
<1>3. /\ a \in Request /\ a.kind = r.kind /\ a.shown = r.shown /\ a.form = r.form
      /\ a.draft = d /\ a.cursor = r.cursor
  BY <1>2 DEF Request
<1>4. Sound(a, server', history)  BY <1>2, <1>3 DEF Sound
<1>5. RequestsSound(requests \ {r}, server', history)  BY <1>1, FewerSound
<1>6. RequestsSound((requests \ {r}) \cup {a}, server', history)
  BY <1>3, <1>4, <1>5, OneMoreSound
<1> HIDE DEF a
<1>7. requests' = (requests \ {r}) \cup {a}  BY DEF a
<1>8. RequestsSound(requests', server', history')  BY <1>6, <1>7
<1>9. PageTyped'  BY <1>1, <1>8 DEF PageInv, PageTyped, RequestsSound
<1>10. Ends(history')  BY DEF PageInv
<1> QED BY <1>1, <1>8, <1>9, <1>10 DEF PageInv

LEMMA ServerInv == ASSUME PageInv, NEW r \in requests, Server(r) PROVE PageInv'
<1>0. r \in Request /\ Sound(r, server, history) /\ r.kind \in Kinds
  BY DEF PageInv, RequestsSound, Request
<1>1. r = [r EXCEPT !.draft = r.draft] /\ Known(r.draft, server) /\ r.draft \in Draft \cup {NoDraft}
  BY <1>0 DEF Request, Sound
<1>2. CASE ServerEdits(r)
  <2>1. r.form[r.kind] \in Values /\ r.kind \in Parts
    BY <1>0, <1>2 DEF ServerEdits, Sent, Request, Content
  <2>2. Moved(server')  BY <1>2, <2>1 DEF ServerEdits, Moved, Expected
  <2>3. Known(server'.draft, server') /\ server'.draft \in Draft \cup {NoDraft}
    BY <2>2, MovedIs
  <2> QED BY <1>2, <2>1, <2>2, <2>3, AnswersInv DEF ServerEdits, Answers, Phases, Parts
<1>3. CASE ServerPublishes(r)
  <2>1. Moved(server')  BY <1>3 DEF ServerPublishes, Moved, Expected
  <2>2. Known(r.draft, server')  BY <1>1, <2>1, MovedIs
  <2>3. r.kind = "publish"  BY <1>3 DEF ServerPublishes, Sent
  <2>4. [r EXCEPT !.phase = "done"] = [r EXCEPT !.phase = "done", !.draft = r.draft]
    BY <1>0 DEF Request
  <2> QED BY <1>1, <1>3, <2>1, <2>2, <2>3, <2>4, AnswersInv
          DEF ServerPublishes, Answers, Phases
<1>4. CASE ServerDiscards(r)
  <2>1. Moved(server')  BY <1>4 DEF ServerDiscards, Moved, Expected
  <2>2. Known(r.draft, server')  BY <1>1, <2>1, MovedIs
  <2>3. r.kind = "discard"  BY <1>4 DEF ServerDiscards, Sent
  <2>4. [r EXCEPT !.phase = "done"] = [r EXCEPT !.phase = "done", !.draft = r.draft]
    BY <1>0 DEF Request
  <2> QED BY <1>1, <1>4, <2>1, <2>2, <2>3, <2>4, AnswersInv
          DEF ServerDiscards, Answers, Phases
<1>5. CASE ServerOpens(r)
  <2>1. Moved(server') /\ r.kind = "create"  BY <1>5 DEF ServerOpens, Moved, Sent
  <2>2. Known(server'.draft, server') /\ server'.draft \in Draft \cup {NoDraft}
    BY <2>1, MovedIs
  <2> QED BY <1>5, <2>1, <2>2, AnswersInv DEF ServerOpens, Answers, Phases
<1>6. CASE ServerRefuses(r)
  <2>1. r.kind = "create"  BY <1>6 DEF ServerRefuses, Sent
  <2>2. [r EXCEPT !.phase = "refused"] = [r EXCEPT !.phase = "refused", !.draft = r.draft]
    BY <1>0 DEF Request
  <2> QED BY <1>1, <1>6, <2>1, <2>2, AnswersInv DEF ServerRefuses, Answers, Phases
<1>7. CASE ServerReads(r)
  <2>1. r.kind = "load"  BY <1>7 DEF ServerReads, Sent
  <2>2. Known(server.draft, server) /\ server.draft \in Draft \cup {NoDraft}
    <3>1. server.draft \in Draft \cup {NoDraft} /\ server.opened \in Nat
      BY PageConstants DEF PageInv, PageTyped
    <3>2. server.draft.revision \in Nat  BY <3>1, DraftIs, PageConstants
    <3> QED BY <3>1, <3>2 DEF PageInv, Known
  <2> QED BY <1>7, <2>1, <2>2, AnswersInv DEF ServerReads, Answers, Phases
<1> QED BY <1>2, <1>3, <1>4, <1>5, <1>6, <1>7 DEF Server

LEMMA OtherClientInv == ASSUME PageInv, OtherClient PROVE PageInv'
<1>1. Moved(server')  BY DEF OtherClient, Moved
<1>2. RequestsSound(requests', server', history') /\ Known(page'.shown, server')
  BY <1>1, MovedSound DEF OtherClient
<1>3. PageTyped'  BY <1>1, MovedIs DEF OtherClient, PageInv, PageTyped
<1>4. server'.draft # NoDraft => server'.draft.id = server'.opened  BY <1>1, MovedIs
<1>5. Ends(history')  BY DEF OtherClient, PageInv
<1> QED BY <1>2, <1>3, <1>4, <1>5 DEF PageInv

-------------------------------------------------------------------------------
(* The page: clicks and answers *)

PageRow == [shown : Draft \cup {NoDraft}, form : Content, waiting : SUBSET Buttons,
            mutation : Mutations]

\* A step that changes the page and the requests only.
LEMMA LocalInv ==
  ASSUME PageInv, NEW rs, RequestsSound(rs, server, history), requests' = rs,
         page' \in PageRow, Known(page'.shown, server),
         UNCHANGED <<server, history>>
  PROVE  PageInv'
<1>1. RequestsSound(requests', server', history')  OBVIOUS
<1>2. PageTyped'  BY <1>1 DEF PageInv, PageTyped, PageRow, RequestsSound
<1>3. Ends(history') /\ Known(page'.shown, server')  BY DEF PageInv
<1> QED BY <1>1, <1>2, <1>3 DEF PageInv

\* One that leaves the draft shown as it is.
LEMMA SameDraftInv ==
  ASSUME PageInv, NEW rs, RequestsSound(rs, server, history), requests' = rs,
         page' \in PageRow, page'.shown = page.shown, UNCHANGED <<server, history>>
  PROVE  PageInv'
BY LocalInv DEF PageInv

LEMMA PageParts ==
  ASSUME PageInv
  PROVE  /\ page.shown \in Draft \cup {NoDraft} /\ page.form \in Content
         /\ page.waiting \in SUBSET Buttons /\ page.mutation \in Mutations
         /\ page \in PageRow
         /\ LoadReplaced \in Mutations /\ requests \subseteq Request
         /\ RequestsSound(requests, server, history)
BY DEF PageInv, PageTyped, LoadReplaced, Mutations, PageRow

LEMMA AsksSound ==
  ASSUME PageInv, NEW kind \in Kinds \ {"refresh", "more"},
         kind = "publish" => HasDraft /\ ~Dirty, Asks(kind)
  PROVE  RequestsSound(requests', server, history)
<1>1. New(kind) \in Request /\ Sound(New(kind), server, history) /\ New(kind).kind = kind
  BY NewIs, NewSound
<1> QED BY <1>1, OneMoreSound, PageParts DEF Asks

LEMMA ClickInv == ASSUME PageInv, Click PROVE PageInv'
<1> USE PageParts
<1>1. ASSUME NEW p \in Parts, NEW v \in Values, Types(p, v) PROVE PageInv'
  <2>1. [page.form EXCEPT ![p] = v] \in Content  BY DEF Content
  <2>2. page' \in PageRow /\ page'.shown = page.shown
    BY <1>1, <2>1 DEF Types, PageRow
  <2> QED BY <1>1, <2>1, <2>2, SameDraftInv DEF Types
<1>2. ASSUME NEW p \in Parts, Saves(p) PROVE PageInv'
  <2>1. p \in Kinds \ {"refresh", "more"} /\ p # "publish" /\ p \in Buttons
    BY DEF Parts, Kinds, Buttons
  <2>2. RequestsSound(requests', server, history)  BY <1>2, <2>1, AsksSound DEF Saves
  <2>3. page' \in PageRow /\ page'.shown = page.shown
    BY <1>2, <2>1 DEF Saves, PageRow
  <2> QED BY <1>2, <2>1, <2>2, <2>3, SameDraftInv DEF Saves
<1>3. ASSUME Publishes PROVE PageInv'
  <2>1. "publish" \in Kinds \ {"refresh", "more"} /\ "publish" \in Buttons
    BY DEF Kinds, Buttons
  <2>2. RequestsSound(requests', server, history)  BY <1>3, <2>1, AsksSound DEF Publishes
  <2>3. page' \in PageRow /\ page'.shown = page.shown
    BY <1>3, <2>1 DEF Publishes, PageRow
  <2> QED BY <1>3, <2>1, <2>2, <2>3, SameDraftInv DEF Publishes
<1>4. ASSUME NEW kind \in {"discard", "create"}, Mutates(kind) PROVE PageInv'
  <2>1. kind \in Kinds \ {"refresh", "more"} /\ kind # "publish"  BY DEF Kinds
  <2>2. RequestsSound(requests', server, history)  BY <1>4, <2>1, AsksSound DEF Mutates
  <2>3. page' \in PageRow /\ page'.shown = page.shown
    BY <1>4 DEF Mutates, PageRow, Mutations
  <2> QED BY <1>4, <2>2, <2>3, SameDraftInv DEF Mutates
<1>5. ASSUME Reloads PROVE PageInv'
  <2>1. RequestsSound(Loading(requests), server, history)  BY LoadingSound
  <2>2. page' \in PageRow /\ page'.shown = page.shown
    BY <1>5 DEF Reloads, PageRow
  <2> QED BY <1>5, <2>1, <2>2, SameDraftInv DEF Reloads
<1>6. ASSUME LoadsMore PROVE PageInv'
  <2>1. "more" \in Kinds /\ history.cursor # 0  BY <1>6 DEF LoadsMore, Kinds
  <2>2. New("more") \in Request /\ Sound(New("more"), server, history)
    BY <2>1, NewIs, NewSound
  <2>3. \A q \in requests : q.kind \notin {"refresh", "more"}  BY <1>6 DEF LoadsMore, InFlight
  <2>4. RequestsSound(requests \cup {New("more")}, server, history)
    BY <2>2, <2>3, OneMoreSound
  <2>5. /\ page' = page /\ UNCHANGED <<server, history>>
        /\ requests' = requests \cup {New("more")}
    BY <1>6 DEF LoadsMore, Asks
  <2> QED BY <2>4, <2>5, SameDraftInv
<1> QED BY <1>1, <1>2, <1>3, <1>4, <1>5, <1>6 DEF Click, Discards, Creates

\* What arrives is some request, the others are as sound as before.
LEMMA ArrivedIs ==
  ASSUME PageInv, NEW r \in requests
  PROVE  /\ r \in Request /\ r.draft \in Draft \cup {NoDraft} /\ Known(r.draft, server)
         /\ RequestsSound(Others(r), server, history)
<1>1. r \in Request /\ Sound(r, server, history)  BY PageParts DEF RequestsSound
<1>2. RequestsSound(Others(r), server, history)  BY PageParts, FewerSound DEF Others
<1> QED BY <1>1, <1>2 DEF Request, Sound

LEMMA LoadArrivesInv == ASSUME PageInv, NEW r \in requests, LoadArrives(r) PROVE PageInv'
<1> DEFINE w == IF r.draft = NoDraft THEN {} ELSE page.waiting \cap {"publish"}
<1>1. w \in SUBSET Buttons  BY PageParts
<1>2. r.draft.content \in Content  BY ArrivedIs, DraftIs
<1>3. page' = [shown |-> r.draft, form |-> r.draft.content, waiting |-> w,
               mutation |-> LoadReplaced]
  BY DEF LoadArrives
<1> HIDE DEF w
<1>4. page' \in PageRow /\ page'.shown = r.draft
  BY <1>1, <1>2, <1>3, ArrivedIs, PageParts DEF PageRow
<1>5. Unmounted(r.draft) \in SUBSET Buttons  BY DEF Unmounted, Buttons
<1>6. RequestsSound(Unmount(Others(r), Unmounted(r.draft)), server, history)
  BY <1>5, ArrivedIs, UnmountSound
<1> QED BY <1>4, <1>6, ArrivedIs, LocalInv DEF LoadArrives

LEMMA SaveArrivesInv == ASSUME PageInv, NEW r \in requests, SaveArrives(r) PROVE PageInv'
<1>1. RequestsSound(KeepRequests(r.draft, Others(r)), server, history)
  BY ArrivedIs, KeptRequestsSound
<1>2. SetDraft(r.draft) \in PageRow /\ SetDraft(r.draft).shown = r.draft
  BY ArrivedIs, SetDraftIs DEF PageInv, PageRow
<1>3. page' \in PageRow /\ page'.shown = r.draft
  <2>1. r.kind \in Parts /\ r.draft.content \in Content
    BY ArrivedIs, DraftIs DEF SaveArrives, Arrives
  <2> DEFINE sd == SetDraft(r.draft)
             fo == [sd.form EXCEPT ![r.kind] = r.draft.content[r.kind]]
             wa == sd.waiting \ {r.kind}
  <2>2. fo \in Content /\ wa \in SUBSET Buttons  BY <1>2, <2>1 DEF PageRow, Content
  <2>3. CASE r.mounted /\ Keyed(r.draft)
    <3>1. page' = [sd EXCEPT !.form = fo, !.waiting = wa]
      BY <1>2, <2>3 DEF SaveArrives, PageRow
    <3> HIDE DEF sd, fo, wa
    <3>2. sd \in PageRow /\ sd.shown = r.draft  BY <1>2 DEF sd
    <3> QED BY <2>2, <3>1, <3>2 DEF PageRow
  <2>4. CASE ~(r.mounted /\ Keyed(r.draft))  BY <1>2, <2>4 DEF SaveArrives
  <2> QED BY <2>3, <2>4
<1> QED BY <1>1, <1>3, ArrivedIs, LocalInv DEF SaveArrives

LEMMA PublishArrivesInv ==
  ASSUME PageInv, NEW r \in requests, PublishArrives(r) PROVE PageInv'
<1>1. RequestsSound(Refreshing(KeepRequests(NoDraft, Others(r))), server, history)
  BY ArrivedIs, KeptRequestsSound, RefreshingSound
<1>2. page' \in PageRow /\ page'.shown = NoDraft
  BY SetDraftIs DEF PublishArrives, PageInv, PageRow
<1> QED BY <1>1, <1>2, LocalInv DEF PublishArrives, Known

LEMMA DiscardArrivesInv ==
  ASSUME PageInv, NEW r \in requests, DiscardArrives(r) PROVE PageInv'
<1>1. RequestsSound(Loading(Others(r)), server, history)  BY ArrivedIs, LoadingSound
<1>2. page' \in PageRow /\ page'.shown = page.shown
  BY PageParts DEF DiscardArrives, PageRow, Mutations
<1> QED BY <1>1, <1>2, SameDraftInv DEF DiscardArrives

LEMMA CreateArrivesInv ==
  ASSUME PageInv, NEW r \in requests, CreateArrives(r) PROVE PageInv'
<1>1. RequestsSound(KeepRequests(r.draft, Others(r)), server, history)
  BY ArrivedIs, KeptRequestsSound
<1>2. SetDraft(r.draft) \in PageRow /\ SetDraft(r.draft).shown = r.draft
  BY ArrivedIs, SetDraftIs DEF PageInv, PageRow
<1>3. page' \in PageRow /\ page'.shown = r.draft
  BY <1>2 DEF CreateArrives, PageRow, Mutations
<1> QED BY <1>1, <1>3, ArrivedIs, LocalInv DEF CreateArrives

\* An answer about the history, after which nothing waits for more of it.
LEMMA HistoryArrivesInv ==
  ASSUME PageInv, NEW r \in requests,
         \A q \in Others(r) : q.kind # "more",
         NEW h \in [items : SUBSET (1..MaxVersions), cursor : 0..MaxVersions], Ends(h),
         history' = h, requests' = Others(r), UNCHANGED <<server, page>>
  PROVE  PageInv'
<1>1. RequestsSound(Others(r), server, history)  BY ArrivedIs
<1>2. RequestsSound(Others(r), server, h)  BY <1>1 DEF RequestsSound, Sound
<1>3. PageTyped'  BY <1>2 DEF PageInv, PageTyped, RequestsSound
<1> QED BY <1>2, <1>3 DEF PageInv

LEMMA RefreshArrivesInv ==
  ASSUME PageInv, NEW r \in requests, RefreshArrives(r) PROVE PageInv'
<1>1. \A q \in Others(r) : q.kind # "more"
  BY PageParts DEF RefreshArrives, Others, RequestsSound, Alone
<1> DEFINE h == [items |-> Listed(0), cursor |-> NextCursor(Listed(0))]
<1>2. 0 \in 0..MaxVersions  BY PageConstants
<1>3. PageTyped /\ server.versions \in 0..MaxVersions  BY DEF PageInv, PageTyped
<1>4. /\ Listed(0) \in SUBSET (1..server.versions)
      /\ \A m \in Listed(0) : \A k \in m..server.versions : k \in Listed(0)
      /\ NextCursor(Listed(0)) \in 0..MaxVersions
      /\ NextCursor(Listed(0)) = 0 => Listed(0) = {} \/ 1 \in Listed(0)
      /\ NextCursor(Listed(0)) # 0 =>
           /\ NextCursor(Listed(0)) \in Listed(0) /\ 1 \notin Listed(0)
           /\ \A n \in Listed(0) : NextCursor(Listed(0)) <= n
  BY <1>2, <1>3, ListedIs
<1>5. h \in [items : SUBSET (1..MaxVersions), cursor : 0..MaxVersions]
  BY <1>3, <1>4, PageConstants
<1>6. ASSUME NEW m \in Listed(0), NEW n \in Listed(0), NEW k \in m..n PROVE k \in Listed(0)
  <2>1. k \in m..server.versions  BY <1>3, <1>4, PageConstants
  <2> QED BY <1>4, <2>1
<1>7. h.items = Listed(0) /\ h.cursor = NextCursor(Listed(0))  OBVIOUS
<1>8. history' = h  BY DEF RefreshArrives
<1> HIDE DEF h
<1>9. Ends(h)  BY <1>4, <1>6, <1>7 DEF Ends
<1> QED BY <1>1, <1>5, <1>8, <1>9, HistoryArrivesInv DEF RefreshArrives

\* The next versions join those that are listed without a gap.
LEMMA MoreArrivesInv ==
  ASSUME PageInv, NEW r \in requests, MoreArrives(r) PROVE PageInv'
<1>1. \A q \in Others(r) : q.kind # "more"
  BY PageParts DEF MoreArrives, Others, RequestsSound, Alone
<1>2. r.cursor = history.cursor /\ history.cursor # 0
  BY PageParts DEF MoreArrives, RequestsSound, Sound
<1> DEFINE c == history.cursor
           low == NextCursor(Listed(c))
           h == [items |-> history.items \cup Listed(c), cursor |-> low]
<1>3. PageTyped /\ c \in 1..MaxVersions /\ history.items \in SUBSET (1..MaxVersions)
  BY <1>2, PageConstants DEF PageInv, PageTyped
<1>4. /\ c \in history.items /\ 1 \notin history.items /\ \A n \in history.items : c <= n
      /\ \A m, n \in history.items : \A k \in m..n : k \in history.items
  BY <1>2 DEF PageInv, Ends
<1>5. /\ Listed(c) \in SUBSET (1..(c - 1)) /\ c - 1 \in Listed(c)
      /\ \A m \in Listed(c) : \A k \in m..(c - 1) : k \in Listed(c)
      /\ low \in 0..MaxVersions
      /\ low = 0 => Listed(c) = {} \/ 1 \in Listed(c)
      /\ low # 0 => /\ low \in Listed(c) /\ 1 \notin Listed(c)
                    /\ \A n \in Listed(c) : low <= n
  <2>1. c \in 0..MaxVersions /\ c # 0 /\ c # 1 /\ c - 1 # 0  BY <1>3, <1>4, PageConstants
  <2> HIDE DEF c
  <2> QED BY <1>3, <2>1, ListedIs
<1>6. history' = h  BY <1>2 DEF MoreArrives
<1>7. h.items = history.items \cup Listed(c) /\ h.cursor = low  OBVIOUS
<1>8. h \in [items : SUBSET (1..MaxVersions), cursor : 0..MaxVersions]
  BY <1>3, <1>5, PageConstants
<1> HIDE DEF h, low, c
<1>9. ASSUME NEW m \in h.items, NEW n \in h.items, NEW k \in m..n PROVE k \in h.items
  <2>1. CASE k < c
    <3>1. m \in Listed(c)  BY <1>3, <1>4, <1>7, <1>8, <2>1, PageConstants
    <3>2. k \in m..(c - 1)  BY <1>3, <1>8, <2>1, PageConstants
    <3> QED BY <1>5, <1>7, <3>1, <3>2
  <2>2. CASE c <= k
    <3>1. n \in history.items  BY <1>3, <1>5, <1>7, <1>8, <2>2, PageConstants
    <3>2. k \in c..n  BY <1>3, <1>8, <2>2, PageConstants
    <3> QED BY <1>4, <1>7, <3>1, <3>2
  <2>3. k \in Int /\ c \in Int  BY <1>3, PageConstants
  <2> QED BY <2>1, <2>2, <2>3
<1>10. low # 0 => low \in h.items /\ 1 \notin h.items /\ \A n \in h.items : low <= n
  BY <1>3, <1>4, <1>5, <1>7, PageConstants
<1>11. low = 0 => 1 \in h.items  BY <1>5, <1>7
<1>12. Ends(h)  BY <1>7, <1>9, <1>10, <1>11 DEF Ends
<1> QED BY <1>1, <1>6, <1>8, <1>12, HistoryArrivesInv DEF MoreArrives

LEMMA RequestFailsInv ==
  ASSUME PageInv, NEW r \in requests, RequestFails(r) PROVE PageInv'
<1>1. RequestsSound(Others(r), server, history)  BY ArrivedIs
<1>2. RequestsSound(Loading(Others(r)), server, history)  BY <1>1, LoadingSound
<1>3. Released(r) \in SUBSET Buttons  BY PageParts DEF Released
<1>4. "none" \in Mutations  BY DEF Mutations
<1>5. page' \in PageRow /\ page'.shown = page.shown
  <2>1. page' \in {[page EXCEPT !.waiting = Released(r)], [page EXCEPT !.mutation = "none"],
                   [page EXCEPT !.mutation = LoadReplaced], page}
    BY DEF RequestFails
  <2> QED BY <1>3, <1>4, <2>1, PageParts DEF PageRow
<1>6. requests' \in {Others(r), Loading(Others(r))} /\ UNCHANGED <<server, history>>
  BY DEF RequestFails
<1> QED BY <1>1, <1>2, <1>5, <1>6, SameDraftInv

-------------------------------------------------------------------------------
(* The page: the invariant, and what follows from it *)

LEMMA PageInitInv == PageInit => PageInv
<1> SUFFICES ASSUME PageInit PROVE PageInv  OBVIOUS
<1>1. BlankContent \in Content  BY BlankAssumption DEF BlankContent, Content
<1>2. PageTyped  BY <1>1, PageConstants DEF PageInit, PageTyped, Mutations
<1> QED BY <1>2 DEF PageInit, PageInv, Known, RequestsSound, Alone, Ends

LEMMA PageNextInv == PageInv /\ [PageNext]_pageVars => PageInv'
<1> SUFFICES ASSUME PageInv, [PageNext]_pageVars PROVE PageInv'  OBVIOUS
<1>1. ASSUME NEW r \in requests, Answered(r) PROVE PageInv'
  BY <1>1, LoadArrivesInv, SaveArrivesInv, PublishArrivesInv, DiscardArrivesInv,
     CreateArrivesInv, RefreshArrivesInv, MoreArrivesInv, RequestFailsInv DEF Answered
<1>2. CASE UNCHANGED pageVars
  BY <1>2 DEF pageVars, PageInv, PageTyped
<1> QED BY <1>1, <1>2, ServerInv, ClickInv, OtherClientInv DEF PageNext

THEOREM PageInductive == PageSpec => []PageInv
BY PageInitInv, PageNextInv, PTL DEF PageSpec

\* The list of versions has no gap and its cursor goes on where it ends, whatever is
\* published, and however the answers about it cross.
THEOREM NoGaps == PageSpec => []HistoryWithoutGaps
<1>1. PageInv => HistoryWithoutGaps
  <2> SUFFICES ASSUME PageInv PROVE HistoryWithoutGaps  OBVIOUS
  <2>1. PageTypeOK  BY DEF PageInv, PageTyped, PageTypeOK
  <2>2. history.cursor = NextCursor(history.items)  BY EndsIs DEF PageInv, PageTyped
  <2> QED BY <2>1, <2>2 DEF HistoryWithoutGaps, PageInv, Ends
<1> QED BY <1>1, PageInductive, PTL

\* What the server publishes from the draft that the page showed is what its editors
\* showed at the click.
THEOREM AsShown == PageSpec => PublishedAsShown
<1>1. ASSUME PageInv, NEW r \in requests, ServerPublishes(r), r.shown.id = server.draft.id
      PROVE  server.draft.content = r.form
  <2>1. Sound(r, server, history)  BY <1>1 DEF PageInv, RequestsSound
  <2>2. r.kind = "publish" /\ server.draft.revision = r.shown.revision
    BY <1>1 DEF ServerPublishes, Sent, Expected
  <2> QED BY <1>1, <2>1, <2>2 DEF Sound, Known
<1>2. PageInv /\ [PageNext]_pageVars =>
        [\A r \in requests : ServerPublishes(r) /\ r.shown.id = server.draft.id
           => server.draft.content = r.form]_pageVars
  BY <1>1
<1> QED BY <1>2, PageInductive, PTL DEF PageSpec, PublishedAsShown
===============================================================================
