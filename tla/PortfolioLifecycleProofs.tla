----------------------- MODULE PortfolioLifecycleProofs -----------------------
(***************************************************************************)
(* Proofs about PortfolioLifecycle, for any clients, holdings and bounds.   *)
(*                                                                          *)
(* That rows and status agree is inductive by itself.  What a client        *)
(* confirms needs more: ids of drafts are never used again, a client that   *)
(* saw the present draft saw an earlier revision of it or its content as    *)
(* far as it has read it, and reads the holdings of the right portfolio.    *)
(***************************************************************************)
EXTENDS PortfolioLifecycle, SequenceTheorems, TLAPS

\* What c was shown of a draft d with the same id, of the portfolio p.
Follows(c, d, p) ==
  LET seen == client[c].seen
  IN  /\ seen.revision <= d.revision
      /\ client[c].reading => client[c].of = p.id
      /\ seen.revision = d.revision =>
           /\ ~client[c].reading => seen = d
           /\ client[c].reading =>
                seen = [d EXCEPT !.content = [d.content EXCEPT !.holdings = NoHoldings]]

IdsAreNew ==
  /\ draft.id <= opened
  /\ \A c \in Clients : client[c].seen.id <= opened

ClientsFollow ==
  \A c \in Clients : HasDraft /\ client[c].seen.id = draft.id => Follows(c, draft, portfolio)

IInv == StatusAgrees /\ IdsAreNew /\ ClientsFollow

\* confirm_draft on any snapshots.
Freeze(vs, content) ==
  Append([n \in DOMAIN vs |-> [vs[n] EXCEPT !.status = "superseded"]],
         [status |-> "current", content |-> content])

CurrentOf(vs) == {n \in DOMAIN vs : vs[n].status = "current"}

-------------------------------------------------------------------------------
LEMMA NoContentIsContent == NoContent \in Content
BY HoldingsAssumption DEF NoContent, Content, Dates

LEMMA FrozenIsContent == ASSUME NEW content \in Content PROVE Frozen(content) \in Content
BY DEF Frozen, Content, Dates

LEMMA NoDraftIsSeen == NoDraft \in Seen /\ NoDraft.id = 0 /\ NoDraft \notin Draft
BY LimitsAssumption, NoContentIsContent DEF NoDraft, Seen, Draft

LEMMA DraftIsSeen == ASSUME NEW d \in Draft PROVE d \in Seen /\ d # NoDraft
BY LimitsAssumption, NoDraftIsSeen DEF Draft, Seen

LEMMA NewDraftIsDraft ==
  ASSUME opened \in Nat, opened < MaxDrafts
  PROVE  NewDraft \in Draft /\ NewDraft.id = opened + 1 /\ NewDraft.revision = 1
BY LimitsAssumption, NoContentIsContent DEF NewDraft, Draft

LEMMA DraftContent == TypeOK => draft.content \in Content
BY NoContentIsContent DEF TypeOK, Draft, NoDraft

LEMMA FunctionIsSeq ==
  ASSUME NEW S, NEW n \in Nat, NEW f \in [1..n -> S]
  PROVE  f \in Seq(S) /\ Len(f) = n
OBVIOUS

\* A confirmation adds one snapshot, of that content, which alone is current.
LEMMA FreezeAdds ==
  ASSUME NEW vs \in Seq(Snapshot), NEW content \in Content
  PROVE  /\ Freeze(vs, content) \in Seq(Snapshot)
         /\ Len(Freeze(vs, content)) = Len(vs) + 1
         /\ Freeze(vs, content)[Len(vs) + 1].content = content
         /\ CurrentOf(Freeze(vs, content)) = {Len(vs) + 1}
         /\ \A n \in 1..Len(vs) : Freeze(vs, content)[n].content = vs[n].content
<1> DEFINE old == [n \in DOMAIN vs |-> [vs[n] EXCEPT !.status = "superseded"]]
           new == [status |-> "current", content |-> content]
<1>1. /\ old \in Seq(Snapshot) /\ Len(old) = Len(vs)
      /\ \A n \in 1..Len(vs) : old[n].content = vs[n].content /\ old[n].status = "superseded"
  <2>1. \A n \in 1..Len(vs) : vs[n] \in Snapshot  OBVIOUS
  <2>2. \A n \in 1..Len(vs) : old[n] \in Snapshot /\ old[n].content = vs[n].content
                                /\ old[n].status = "superseded"
    BY <2>1 DEF Snapshot
  <2>3. DOMAIN vs = 1..Len(vs) /\ Len(vs) \in Nat  OBVIOUS
  <2>4. old \in [1..Len(vs) -> Snapshot]  BY <2>2, <2>3
  <2> QED BY <2>2, <2>3, <2>4, FunctionIsSeq
<1>2. new \in Snapshot  BY DEF Snapshot
<1>3. Freeze(vs, content) = Append(old, new)  BY DEF Freeze
<1> HIDE DEF old, new
<1>4. /\ Append(old, new) \in Seq(Snapshot)
      /\ Len(Append(old, new)) = Len(vs) + 1
      /\ Append(old, new)[Len(vs) + 1] = new
      /\ \A n \in 1..Len(vs) : Append(old, new)[n] = old[n]
  BY <1>1, <1>2
<1>5. new.content = content /\ new.status = "current"  BY DEF new
<1>6. CurrentOf(Append(old, new)) = {Len(vs) + 1}
  <2>1. DOMAIN Append(old, new) = 1..(Len(vs) + 1)  BY <1>4
  <2>2. Len(vs) \in Nat  OBVIOUS
  <2>3. \A n \in 1..(Len(vs) + 1) :
          Append(old, new)[n].status = "current" <=> n = Len(vs) + 1
    BY <1>1, <1>4, <1>5, <2>2
  <2> QED BY <2>1, <2>2, <2>3 DEF CurrentOf
<1> QED BY <1>1, <1>3, <1>4, <1>5, <1>6

-------------------------------------------------------------------------------
LEMMA InitIInv == Init => IInv
<1> SUFFICES ASSUME Init PROVE IInv  OBVIOUS
<1>1. [reading |-> FALSE, of |-> 0, seen |-> NoDraft] \in ClientRow
  BY NoDraftIsSeen, LimitsAssumption DEF ClientRow
<1>2. TypeOK
  <2>1. client \in [Clients -> ClientRow]  BY <1>1 DEF Init
  <2>2. portfolio \in Portfolio /\ opened \in 0..MaxDrafts
    BY LimitsAssumption DEF Init, Portfolio, NoPortfolio
  <2>3. <<>> \in Seq(Snapshot)  BY EmptySeq
  <2> QED BY <2>1, <2>2, <2>3 DEF Init, TypeOK
<1>3. IdsAreNew  BY NoDraftIsSeen DEF Init, IdsAreNew
<1>4. ClientsFollow  BY DEF Init, ClientsFollow, HasDraft
<1>5. StatusAgrees  BY <1>2 DEF Init, StatusAgrees, HasDraft, NoPortfolio
<1> QED BY <1>3, <1>4, <1>5 DEF IInv

\* The status agrees with the rows after every step.
LEMMA StatusStep == StatusAgrees /\ [Next]_vars /\ TypeOK' => StatusAgrees'
<1> SUFFICES ASSUME StatusAgrees, [Next]_vars, TypeOK' PROVE StatusAgrees'  OBVIOUS
<1> USE LimitsAssumption
<1>0. TypeOK  BY DEF StatusAgrees
<1>1. CASE UNCHANGED vars  BY <1>1 DEF StatusAgrees, HasDraft, vars
<1>2. ASSUME NEW c \in Clients, ClientStep(c) PROVE StatusAgrees'
  <2>1. CASE Open(c)
    <3>1. CASE HasDraft  BY <2>1, <3>1 DEF Open, StatusAgrees, HasDraft
    <3>2. CASE ~HasDraft
      <4>1. draft' = NewDraft /\ portfolio'.status = "draft" /\ UNCHANGED snapshots
        BY <2>1, <3>2 DEF Open
      <4>2. draft' # NoDraft
        BY <2>1, <3>2, <4>1, <1>0, NewDraftIsDraft, DraftIsSeen DEF Open, TypeOK
      <4> QED BY <4>1, <4>2 DEF StatusAgrees, HasDraft
    <3> QED BY <3>1, <3>2
  <2>2. ASSUME NEW content, Revise(c, content) PROVE StatusAgrees'
    <3>1. HasDraft /\ UNCHANGED <<portfolio, snapshots>> /\ draft \in Draft
      BY <1>0, <2>2 DEF Revise, Expected, HasDraft, TypeOK
    <3>2. draft'.id = draft.id  BY <2>2, <3>1 DEF Revise, Draft
    <3>3. HasDraft'
      <4>1. draft.id # 0  BY <3>1 DEF Draft
      <4> QED BY <3>2, <4>1, NoDraftIsSeen DEF HasDraft
    <3> QED BY <3>1, <3>3 DEF StatusAgrees
  <2>3. CASE Confirm(c)
    <3>1. portfolio'.status = "active"  BY <1>0, <2>3 DEF Confirm, TypeOK, Portfolio
    <3>2. snapshots' # <<>>
      <4>1. draft.content \in Content  BY <1>0, DraftContent
      <4>2. snapshots' = Freeze(snapshots, Frozen(draft.content))
        BY <2>3 DEF Confirm, Supersede, Freeze
      <4>3. Len(snapshots') = Len(snapshots) + 1 /\ Len(snapshots) \in Nat
        BY <1>0, <4>1, <4>2, FreezeAdds, FrozenIsContent DEF TypeOK
      <4> QED BY <4>3
    <3> QED BY <2>3, <3>1, <3>2 DEF StatusAgrees, HasDraft, Confirm
  <2>4. CASE Discard(c)
    <3>1. draft' = NoDraft /\ UNCHANGED snapshots  BY <2>4 DEF Discard
    <3>2. CASE snapshots = <<>>
      BY <2>4, <3>1, <3>2 DEF Discard, StatusAgrees, HasDraft, NoPortfolio
    <3>3. CASE snapshots # <<>>
      BY <1>0, <2>4, <3>1, <3>3 DEF Discard, StatusAgrees, HasDraft, TypeOK, Portfolio
    <3> QED BY <3>2, <3>3
  <2>5. CASE ReadDraft(c) \/ ReadHoldings(c)
    BY <2>5 DEF ReadDraft, ReadHoldings, StatusAgrees, HasDraft
  <2> QED BY <1>2, <2>1, <2>2, <2>3, <2>4, <2>5 DEF ClientStep, UpdateDraft, ReplaceHoldings
<1> QED BY <1>1, <1>2 DEF Next

\* A request that leaves the rows alone and shows a client what follows them.
LEMMA ShownKeepsIInv ==
  ASSUME IInv, NEW c \in Clients, NEW row \in ClientRow,
         UNCHANGED <<portfolio, draft, snapshots, opened>>,
         client' = [client EXCEPT ![c] = row],
         row.seen.id <= opened,
         HasDraft /\ row.seen.id = draft.id => Follows(c, draft, portfolio)'
  PROVE  IInv'
<1>0. TypeOK  BY DEF IInv, StatusAgrees
<1>1. TypeOK'  BY <1>0 DEF TypeOK
<1>2. \A x \in Clients : client'[x] = IF x = c THEN row ELSE client[x]
  BY <1>0 DEF TypeOK
<1>3. IdsAreNew'  BY <1>2 DEF IInv, IdsAreNew
<1>4. ClientsFollow'
  <2> SUFFICES ASSUME NEW x \in Clients, HasDraft', client'[x].seen.id = draft'.id
               PROVE  Follows(x, draft, portfolio)'
    BY DEF ClientsFollow
  <2>1. CASE x = c  BY <2>1, <1>2 DEF HasDraft
  <2>2. CASE x # c
    <3>1. Follows(x, draft, portfolio)  BY <2>2, <1>2 DEF IInv, ClientsFollow, HasDraft
    <3> QED BY <3>1, <2>2, <1>2 DEF Follows
  <2> QED BY <2>1, <2>2
<1>5. StatusAgrees'  BY <1>1 DEF IInv, StatusAgrees, HasDraft
<1> QED BY <1>3, <1>4, <1>5 DEF IInv

\* The draft there is, shown; or a new one, whose id nobody has seen.
LEMMA OpenKeepsIInv == ASSUME IInv, NEW c \in Clients, Open(c) PROVE IInv'
<1> USE LimitsAssumption
<1>0. TypeOK /\ IdsAreNew /\ ClientsFollow /\ opened \in Nat
  BY DEF IInv, StatusAgrees, TypeOK
<1>1. /\ draft' \in Draft /\ draft'.id <= opened' /\ opened' \in 0..MaxDrafts /\ opened <= opened'
      /\ ~HasDraft => draft'.id = opened + 1
      /\ HasDraft => UNCHANGED <<draft, portfolio>>
  <2>1. CASE HasDraft  BY <1>0, <2>1 DEF Open, HasDraft, TypeOK, IdsAreNew
  <2>2. CASE ~HasDraft  BY <1>0, <2>2, NewDraftIsDraft DEF Open, TypeOK
  <2> QED BY <2>1, <2>2
<1>2. draft' \in Seen  BY <1>1, DraftIsSeen
<1>3. /\ client' \in [Clients -> ClientRow]
      /\ \A x \in Clients : /\ client'[x].reading = client[x].reading
                             /\ client'[x].of = client[x].of
                             /\ client'[x].seen = IF x = c THEN draft' ELSE client[x].seen
  BY <1>0, <1>2 DEF TypeOK, ClientRow, Open, Shows
<1>4. portfolio' \in Portfolio
  BY <1>0, <1>1 DEF Open, Portfolio, TypeOK
<1>5. TypeOK'  BY <1>0, <1>1, <1>3, <1>4 DEF TypeOK, Open
<1>6. \A x \in Clients : client[x].seen.id \in Nat /\ client[x].seen.id <= opened
  BY <1>0 DEF TypeOK, ClientRow, Seen, IdsAreNew
<1>7. IdsAreNew'
  <2>1. opened' \in Nat  BY <1>1
  <2> QED BY <1>0, <1>1, <1>3, <1>6, <2>1 DEF IdsAreNew
<1>8. ClientsFollow'
  <2> SUFFICES ASSUME NEW x \in Clients, client'[x].seen.id = draft'.id
               PROVE  Follows(x, draft, portfolio)'
    BY DEF ClientsFollow
  <2>1. CASE x = c
    <3>1. client'[x].seen = draft' /\ ~client'[x].reading
      BY <1>3, <2>1 DEF Open, Idle
    <3>2. draft'.revision \in Nat  BY <1>1 DEF Draft
    <3> QED BY <3>1, <3>2 DEF Follows
  <2>2. CASE x # c
    <3>1. HasDraft  BY <1>0, <1>1, <1>3, <1>6, <2>2
    <3>2. Follows(x, draft, portfolio)  BY <1>0, <1>1, <1>3, <2>2, <3>1 DEF ClientsFollow
    <3> QED BY <1>1, <1>3, <2>2, <3>1, <3>2 DEF Follows
  <2> QED BY <2>1, <2>2
<1>9. StatusAgrees'
  <2>1. [Next]_vars  BY DEF Next, ClientStep
  <2> QED BY <1>5, <2>1, StatusStep DEF IInv
<1> QED BY <1>7, <1>8, <1>9 DEF IInv

\* The next revision of the draft: whoever saw an earlier one is behind.
LEMMA ReviseKeepsIInv ==
  ASSUME IInv, NEW c \in Clients, NEW content \in Content, Revise(c, content), ClientStep(c)
  PROVE  IInv'
<1> USE LimitsAssumption
<1>0. TypeOK /\ IdsAreNew /\ ClientsFollow /\ HasDraft /\ draft \in Draft
  BY DEF IInv, StatusAgrees, Revise, Expected, HasDraft, TypeOK
<1>1. /\ draft' \in Draft /\ draft' \in Seen
      /\ draft'.id = draft.id /\ draft'.revision = draft.revision + 1
  <2>1. draft' = [draft EXCEPT !.content = content, !.revision = draft.revision + 1]
    BY DEF Revise
  <2>2. draft.revision + 1 \in 1..MaxRevision  BY <1>0 DEF Revise, Draft
  <2>3. draft' \in Draft  BY <1>0, <2>1, <2>2 DEF Draft
  <2> QED BY <1>0, <2>1, <2>3, DraftIsSeen DEF Draft
<1>2. /\ client' \in [Clients -> ClientRow]
      /\ \A x \in Clients : /\ client'[x].reading = client[x].reading
                             /\ client'[x].of = client[x].of
                             /\ client'[x].seen = IF x = c THEN draft' ELSE client[x].seen
  BY <1>0, <1>1 DEF TypeOK, ClientRow, Revise, Shows
<1>3. TypeOK'  BY <1>0, <1>1, <1>2 DEF TypeOK, Revise
<1>4. IdsAreNew'  BY <1>0, <1>1, <1>2 DEF IdsAreNew, Revise
<1>5. ClientsFollow'
  <2> SUFFICES ASSUME NEW x \in Clients, client'[x].seen.id = draft'.id
               PROVE  Follows(x, draft, portfolio)'
    BY DEF ClientsFollow
  <2>1. draft.revision \in Nat /\ UNCHANGED portfolio  BY <1>0 DEF Draft, Revise
  <2>2. CASE x = c
    <3>1. client'[x].seen = draft' /\ ~client'[x].reading
      BY <1>2, <2>2 DEF Revise, Idle
    <3> QED BY <3>1, <1>1, <2>1 DEF Follows
  <2>3. CASE x # c
    <3>1. Follows(x, draft, portfolio)  BY <1>0, <1>1, <1>2, <2>3 DEF ClientsFollow
    <3>2. client[x].seen.revision \in Nat  BY <1>0 DEF TypeOK, ClientRow, Seen
    <3>3. client'[x].seen.revision < draft'.revision
      BY <1>1, <1>2, <2>1, <2>3, <3>1, <3>2 DEF Follows
    <3> QED BY <3>1, <3>3, <3>2, <1>1, <1>2, <2>1, <2>3 DEF Follows
  <2> QED BY <2>2, <2>3
<1>6. StatusAgrees'  BY <1>3, StatusStep DEF IInv, Next
<1> QED BY <1>4, <1>5, <1>6 DEF IInv

\* The draft is confirmed or discarded.
LEMMA EndedKeepsIInv ==
  ASSUME IInv, NEW c \in Clients, Confirm(c) \/ Discard(c)
  PROVE  IInv'
<1> USE LimitsAssumption
<1>0. TypeOK /\ IdsAreNew  BY DEF IInv, StatusAgrees
<1>1. draft' = NoDraft /\ UNCHANGED <<opened, client>>  BY DEF Confirm, Discard
<1>2. portfolio' \in Portfolio
  <2>1. NoPortfolio \in Portfolio  BY DEF NoPortfolio, Portfolio
  <2>2. [portfolio EXCEPT !.status = "active"] \in Portfolio  BY <1>0 DEF TypeOK, Portfolio
  <2> QED BY <2>1, <2>2 DEF Confirm, Discard
<1>3. snapshots' \in Seq(Snapshot)
  <2>1. CASE Discard(c)  BY <1>0, <2>1 DEF Discard, TypeOK
  <2>2. CASE Confirm(c)
    <3>1. snapshots' = Freeze(snapshots, Frozen(draft.content))
      BY <2>2 DEF Confirm, Supersede, Freeze
    <3>2. Frozen(draft.content) \in Content  BY <1>0, DraftContent, FrozenIsContent
    <3> QED BY <1>0, <3>1, <3>2, FreezeAdds DEF TypeOK
  <2> QED BY <2>1, <2>2
<1>4. TypeOK'  BY <1>0, <1>1, <1>2, <1>3 DEF TypeOK
<1>5. IdsAreNew'
  <2>1. opened \in Nat  BY <1>0 DEF TypeOK
  <2> QED BY <1>0, <1>1, <2>1, NoDraftIsSeen DEF IdsAreNew
<1>6. ClientsFollow'  BY <1>1 DEF ClientsFollow, HasDraft
<1>7. StatusAgrees'
  <2>1. [Next]_vars  BY DEF Next, ClientStep
  <2> QED BY <1>4, <2>1, StatusStep DEF IInv
<1> QED BY <1>5, <1>6, <1>7 DEF IInv

\* What a GET has read by the end of its two statements.
LEMMA ReadingKeepsIInv ==
  ASSUME IInv, NEW c \in Clients, ReadDraft(c) \/ ReadHoldings(c)
  PROVE  IInv'
<1> USE LimitsAssumption
<1>0. TypeOK /\ IdsAreNew /\ ClientsFollow  BY DEF IInv, StatusAgrees
<1>1. CASE ReadDraft(c)
  <2> DEFINE part == [draft EXCEPT !.content.holdings = NoHoldings]
             of   == IF HasDraft THEN portfolio.id ELSE 0
             row  == [reading |-> HasDraft, of |-> of, seen |-> part]
  <2>1. draft \in Seen /\ (HasDraft => draft \in Draft)
    BY <1>0, NoDraftIsSeen, DraftIsSeen DEF HasDraft, TypeOK
  <2>2. /\ part = [draft EXCEPT !.content = [draft.content EXCEPT !.holdings = NoHoldings]]
        /\ part \in Seen /\ part.id = draft.id /\ part.revision = draft.revision
    BY <2>1, HoldingsAssumption DEF Seen, Content
  <2>3. of \in 0..MaxDrafts  BY <1>0 DEF TypeOK, Portfolio
  <2>4. HasDraft \in BOOLEAN  BY DEF HasDraft
  <2> HIDE DEF part, of
  <2>5. row \in ClientRow  BY <2>2, <2>3, <2>4 DEF ClientRow
  <2>6. client' = [client EXCEPT ![c] = row]  BY <1>1 DEF ReadDraft, part, of
  <2>7. client'[c] = row  BY <2>6, <1>0 DEF TypeOK
  <2>8. UNCHANGED <<portfolio, draft, snapshots, opened>>  BY <1>1 DEF ReadDraft
  <2>9. ASSUME HasDraft PROVE Follows(c, draft, portfolio)'
    <3>1. /\ client'[c].reading /\ client'[c].seen = part
          /\ client'[c].of = portfolio'.id
      BY <2>7, <2>8, <2>9 DEF of
    <3>2. client'[c].seen.revision <= draft'.revision
      BY <3>1, <2>1, <2>2, <2>8 DEF Seen
    <3> QED BY <3>1, <3>2, <2>2, <2>8 DEF Follows
  <2>10. row.seen.id <= opened  BY <1>0, <2>2 DEF IdsAreNew
  <2> QED BY <2>5, <2>6, <2>8, <2>9, <2>10, ShownKeepsIInv
<1>2. CASE ReadHoldings(c)
  <2> DEFINE found == IF portfolio.id = client[c].of THEN draft.content.holdings ELSE NoHoldings
             whole == [client[c].seen EXCEPT !.content =
                         [client[c].seen.content EXCEPT !.holdings = found]]
             row   == [reading |-> FALSE, of |-> 0, seen |-> whole]
  <2>1. client[c] \in ClientRow /\ client[c].seen \in Seen /\ client[c].reading
    BY <1>0, <1>2 DEF TypeOK, ClientRow, ReadHoldings
  <2>2. found \in Holdings  BY <1>0, DraftContent, HoldingsAssumption DEF Content
  <2>3. /\ whole \in Seen
        /\ whole.id = client[c].seen.id /\ whole.revision = client[c].seen.revision
        /\ whole.content = [client[c].seen.content EXCEPT !.holdings = found]
    BY <2>1, <2>2 DEF Seen, Content
  <2>4. row \in ClientRow
    <3> HIDE DEF whole
    <3>1. 0 \in 0..MaxDrafts /\ FALSE \in BOOLEAN  OBVIOUS
    <3> QED BY <2>3, <3>1 DEF ClientRow
  <2>5. client' = [client EXCEPT ![c] = row]  BY <1>2 DEF ReadHoldings
  <2>6. client'[c] = row  BY <2>5, <1>0 DEF TypeOK
  <2>7. UNCHANGED <<portfolio, draft, snapshots, opened>>  BY <1>2 DEF ReadHoldings
  <2>8. ASSUME HasDraft, whole.id = draft.id PROVE Follows(c, draft, portfolio)'
    <3>1. Follows(c, draft, portfolio) /\ draft \in Draft
      BY <1>0, <2>3, <2>8 DEF ClientsFollow, HasDraft, TypeOK
    <3>2. ASSUME client[c].seen.revision = draft.revision PROVE whole = draft
      <4>1. client[c].seen = [draft EXCEPT !.content = [draft.content EXCEPT !.holdings = NoHoldings]]
        BY <3>1, <3>2, <2>1 DEF Follows
      <4>2. found = draft.content.holdings  BY <2>1, <3>1 DEF Follows
      <4>3. whole.content = draft.content
        <5>1. client[c].seen.content = [draft.content EXCEPT !.holdings = NoHoldings]
          BY <3>1, <4>1 DEF Draft
        <5> HIDE DEF whole, found
        <5> QED BY <2>3, <3>1, <4>2, <5>1 DEF Draft, Content
      <4>4. draft \in Seen  BY <3>1, DraftIsSeen
      <4>5. whole \in Seen /\ whole.id = draft.id /\ whole.revision = draft.revision
        BY <2>3, <2>8, <3>2
      <4> HIDE DEF whole
      <4> QED BY <4>3, <4>4, <4>5 DEF Seen
    <3> HIDE DEF whole
    <3>3. client'[c].seen = whole /\ ~client'[c].reading  BY <2>6
    <3> QED BY <3>1, <3>2, <3>3, <2>3, <2>7 DEF Follows
  <2>9. row.seen.id <= opened  BY <1>0, <2>3 DEF IdsAreNew
  <2> HIDE DEF row
  <2>10. row.seen = whole  BY DEF row
  <2> QED BY <2>4, <2>5, <2>7, <2>8, <2>9, <2>10, ShownKeepsIInv
<1> QED BY <1>1, <1>2

LEMMA NextIInv == IInv /\ [Next]_vars => IInv'
<1> SUFFICES ASSUME IInv, [Next]_vars PROVE IInv'  OBVIOUS
<1> USE LimitsAssumption
<1>0. TypeOK  BY DEF IInv, StatusAgrees
<1>1. CASE UNCHANGED vars
  BY <1>1 DEF IInv, StatusAgrees, TypeOK, IdsAreNew, ClientsFollow, Follows, HasDraft, vars
<1>2. ASSUME NEW c \in Clients, ClientStep(c) PROVE IInv'
  <2>1. CASE Open(c)  BY <2>1, OpenKeepsIInv
  <2>2. CASE UpdateDraft(c)
    <3>1. [draft.content EXCEPT !.date = "given"] \in Content
      BY <1>0, DraftContent DEF Content, Dates
    <3> QED BY <1>2, <2>2, <3>1, ReviseKeepsIInv DEF UpdateDraft
  <2>3. ASSUME NEW holdings \in Holdings, ReplaceHoldings(c, holdings) PROVE IInv'
    <3>1. [draft.content EXCEPT !.holdings = holdings] \in Content
      BY <1>0, DraftContent DEF Content
    <3> QED BY <1>2, <2>3, <3>1, ReviseKeepsIInv DEF ReplaceHoldings
  <2>4. CASE Confirm(c) \/ Discard(c)  BY <2>4, EndedKeepsIInv
  <2>5. CASE ReadDraft(c) \/ ReadHoldings(c)  BY <2>5, ReadingKeepsIInv
  <2> QED BY <1>2, <2>1, <2>2, <2>3, <2>4, <2>5 DEF ClientStep
<1> QED BY <1>1, <1>2 DEF Next

\* The invariant that the others follow from.
THEOREM Inductive == Spec => []IInv
BY InitIInv, NextIInv, PTL DEF Spec

\* The portfolio's status agrees with its draft and its snapshots after every request.
THEOREM Agrees == Spec => []StatusAgrees
<1>1. IInv => StatusAgrees  BY DEF IInv
<1> QED BY <1>1, Inductive, PTL

\* What is confirmed from the draft a client looked at is what it was shown.
THEOREM Confirmed == Spec => ConfirmedAsSeen
<1>1. ASSUME IInv, NEW c \in Clients, Confirm(c), client[c].seen.id = draft.id
      PROVE  snapshots'[Len(snapshots')].content = Frozen(client[c].seen.content)
  <2>1. TypeOK /\ HasDraft /\ ~client[c].reading /\ client[c].seen.revision = draft.revision
    BY <1>1 DEF IInv, StatusAgrees, Confirm, Expected, Idle
  <2>2. client[c].seen = draft  BY <1>1, <2>1 DEF IInv, ClientsFollow, Follows
  <2>3. /\ snapshots' = Freeze(snapshots, Frozen(draft.content))
        /\ snapshots \in Seq(Snapshot)
    BY <1>1, <2>1 DEF Confirm, Supersede, Freeze, TypeOK
  <2>4. Frozen(draft.content) \in Content  BY <2>1, DraftContent, FrozenIsContent
  <2>5. /\ Len(snapshots') = Len(snapshots) + 1
        /\ snapshots'[Len(snapshots) + 1].content = Frozen(draft.content)
    BY <2>3, <2>4, FreezeAdds
  <2> QED BY <2>2, <2>5
<1>2. IInv => [\A c \in Clients : Confirm(c) /\ client[c].seen.id = draft.id
                 => snapshots'[Len(snapshots')].content = Frozen(client[c].seen.content)]_vars
  BY <1>1
<1> QED BY <1>2, Inductive, PTL DEF ConfirmedAsSeen

-------------------------------------------------------------------------------
(* Refinement *)

Contents(vs) == [n \in DOMAIN vs |-> vs[n].content]

\* The contents of the snapshots grow by the content confirmed.
LEMMA ContentsGrow ==
  ASSUME NEW vs \in Seq(Snapshot), NEW content \in Content
  PROVE  /\ Contents(Freeze(vs, content)) = Append(Contents(vs), content)
         /\ Len(Contents(vs)) = Len(vs)
<1> DEFINE new == Freeze(vs, content)
<1>1. /\ new \in Seq(Snapshot) /\ Len(new) = Len(vs) + 1
      /\ new[Len(vs) + 1].content = content
      /\ \A n \in 1..Len(vs) : new[n].content = vs[n].content
  BY FreezeAdds
<1> HIDE DEF new
<1>2. /\ Len(vs) \in Nat /\ DOMAIN vs = 1..Len(vs)
      /\ \A n \in 1..Len(vs) : vs[n] \in Snapshot
  OBVIOUS
<1>3. Contents(vs) \in [1..Len(vs) -> Content]  BY <1>2 DEF Contents, Snapshot
<1>4. Contents(vs) \in Seq(Content) /\ Len(Contents(vs)) = Len(vs)
  BY <1>2, <1>3, FunctionIsSeq
<1> DEFINE grown == Append(Contents(vs), content)
<1>5. /\ grown \in Seq(Content) /\ Len(grown) = Len(vs) + 1
      /\ \A n \in 1..Len(vs) : grown[n] = Contents(vs)[n]
      /\ grown[Len(vs) + 1] = content
  BY <1>4, AppendProperties
<1>6. grown \in [1..(Len(vs) + 1) -> Content]  BY <1>5, LenProperties
<1> HIDE DEF grown
<1>7. DOMAIN new = 1..(Len(vs) + 1)  BY <1>1
<1>8. \A n \in 1..(Len(vs) + 1) : Contents(new)[n] = grown[n]
  <2> SUFFICES ASSUME NEW n \in 1..(Len(vs) + 1) PROVE Contents(new)[n] = grown[n]
    OBVIOUS
  <2>1. Contents(new)[n] = new[n].content  BY <1>7 DEF Contents
  <2>2. CASE n = Len(vs) + 1  BY <2>1, <2>2, <1>1, <1>5
  <2>3. CASE n # Len(vs) + 1
    <3>1. n \in 1..Len(vs)  BY <2>3, <1>2
    <3>2. Contents(vs)[n] = vs[n].content  BY <3>1, <1>2 DEF Contents
    <3> QED BY <2>1, <3>1, <3>2, <1>1, <1>5
  <2> QED BY <2>2, <2>3
<1>9. Contents(new) = [n \in 1..(Len(vs) + 1) |-> Contents(new)[n]]  BY <1>7 DEF Contents
<1>10. Contents(new) = grown  BY <1>6, <1>8, <1>9
<1> QED BY <1>4, <1>10 DEF new, grown

LEMMA InitMaps == Init => Document!Init
BY DEF Init, Document!Init, HasDraft, Current

\* Whatever leaves the snapshots alone edits the draft of the document, or nothing.
LEMMA EditsMap ==
  ASSUME TypeOK', UNCHANGED snapshots
  PROVE  Document!EditDraft
<1>1. (IF HasDraft THEN Frozen(draft.content) ELSE NoDraft)' \in Content \cup {NoDraft}
  <2>1. (draft.content \in Content)'  BY NoContentIsContent DEF TypeOK, Draft, NoDraft
  <2> QED BY <2>1, FrozenIsContent
<1> QED BY <1>1 DEF Document!EditDraft, Current

LEMMA ConfirmMaps ==
  ASSUME TypeOK, NEW c \in Clients, Confirm(c)
  PROVE  Document!PublishDirectly
<1> DEFINE content == Frozen(draft.content)
<1>1. /\ snapshots \in Seq(Snapshot) /\ content \in Content
      /\ snapshots' = Freeze(snapshots, content) /\ draft' = NoDraft
  BY DraftContent, FrozenIsContent DEF TypeOK, Confirm, Supersede, Freeze
<1> HIDE DEF content
<1>2. /\ Contents(snapshots)' = Append(Contents(snapshots), content)
      /\ Len(Contents(snapshots)) = Len(snapshots)
  BY <1>1, ContentsGrow DEF Contents
<1>3. Current' = {Len(snapshots) + 1}  BY <1>1, FreezeAdds DEF Current, CurrentOf
<1>4. (IF HasDraft THEN Frozen(draft.content) ELSE NoDraft)' = NoDraft  BY <1>1 DEF HasDraft
<1> QED BY <1>1, <1>2, <1>3, <1>4 DEF Document!PublishDirectly, Document!Add, Contents

LEMMA NextMaps == IInv /\ IInv' /\ [Next]_vars => [Document!Next]_(Document!vars)
<1> SUFFICES ASSUME IInv, IInv', [Next]_vars PROVE [Document!Next]_(Document!vars)
  OBVIOUS
<1>0. TypeOK /\ TypeOK'  BY DEF IInv, StatusAgrees
<1>1. CASE UNCHANGED snapshots  BY <1>0, <1>1, EditsMap DEF Document!Next
<1>2. CASE UNCHANGED vars  BY <1>1, <1>2 DEF vars
<1>3. ASSUME NEW c \in Clients, ClientStep(c) PROVE Document!Next \/ UNCHANGED snapshots
  <2>1. CASE Confirm(c)  BY <1>0, <2>1, ConfirmMaps DEF Document!Next
  <2>2. CASE ~Confirm(c)
    BY <1>3, <2>2 DEF ClientStep, Open, UpdateDraft, ReplaceHoldings, Revise, Discard,
       ReadDraft, ReadHoldings
  <2> QED BY <2>1, <2>2
<1> QED BY <1>1, <1>2, <1>3 DEF Next

\* The portfolio is a versioned document: a confirmation consumes the draft, snapshots
\* are only added and say what they said, the last one alone is current.
THEOREM Refinement == Spec => ImplementsDocument
BY Inductive, InitMaps, NextMaps, PTL DEF Spec, ImplementsDocument, Document!Spec

===============================================================================
