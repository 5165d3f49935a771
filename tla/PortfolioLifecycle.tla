-------------------------- MODULE PortfolioLifecycle --------------------------
(***************************************************************************)
(* The portfolio of a household (services/portfolios.py, repositories/      *)
(* portfolios.py, migrations 0004 to 0006): a draft of holdings with an     *)
(* expected revision, and snapshots that confirming it leaves behind.       *)
(*                                                                          *)
(* Every writing operation locks the portfolio row (the one that creates it *)
(* the household row before it) and is one transaction, hence one action.   *)
(* The page is put together from statements between which others commit.    *)
(***************************************************************************)
EXTENDS Integers, Sequences, FiniteSets

CONSTANTS
  Clients,
  Holdings,     \* lists of holdings
  NoHoldings,   \* the empty list
  MaxDrafts,    \* bound: drafts opened
  MaxRevision,  \* bound: expected_revision of a draft
  MaxSnapshots  \* bound: snapshots confirmed

ASSUME HoldingsAssumption == NoHoldings \in Holdings
ASSUME LimitsAssumption ==
  MaxDrafts \in Nat /\ MaxRevision \in Nat \ {0} /\ MaxSnapshots \in Nat

VARIABLES
  portfolio,    \* the row of portfolios: which it is, and its status
  draft,        \* row of portfolio_drafts with its holdings
  snapshots,    \* rows of portfolio_snapshots, by version number
  opened,       \* history: drafts opened so far, which names them
  client        \* the draft each client was shown, and whether a GET is under way

vars == <<portfolio, draft, snapshots, opened, client>>

-------------------------------------------------------------------------------
\* The valuation date may be missing until the draft is confirmed.
Dates   == {"missing", "given"}
Content == [date : Dates, holdings : Holdings]
NoContent == [date |-> "missing", holdings |-> NoHoldings]

NoDraft  == [id |-> 0, revision |-> 0, content |-> NoContent]
Draft    == [id : 1..MaxDrafts, revision : 1..MaxRevision, content : Content]
Seen     == [id : 0..MaxDrafts, revision : 0..MaxRevision, content : Content]
Snapshot == [status : {"current", "superseded"}, content : Content]

\* A portfolio is named by the draft it was created with.
Portfolio   == [id : 0..MaxDrafts, status : {"none", "draft", "active"}]
NoPortfolio == [id |-> 0, status |-> "none"]

\* Idle, or in a GET of that portfolio.
ClientRow == [reading : BOOLEAN, of : 0..MaxDrafts, seen : Seen]

HasDraft == draft # NoDraft
Idle(c)  == ~client[c].reading
Current  == {n \in DOMAIN snapshots : snapshots[n].status = "current"}

NewDraft == [id |-> opened + 1, revision |-> 1, content |-> NoContent]

\* The snapshot of a draft: a missing valuation date becomes the present day.
Frozen(content) == [content EXCEPT !.date = "given"]

\* fn_portfolio_lifecycle.
StatusMayBecome(new) ==
  \/ portfolio.status = new
  \/ portfolio.status = "draft" /\ new = "active"
  \/ portfolio.status = "active" /\ new = "draft"

Init ==
  /\ portfolio = NoPortfolio
  /\ draft = NoDraft
  /\ snapshots = <<>>
  /\ opened = 0
  /\ client = [c \in Clients |-> [reading |-> FALSE, of |-> 0, seen |-> NoDraft]]

Shows(c, row) == client' = [client EXCEPT ![c].seen = row]

-------------------------------------------------------------------------------
\* read_or_create_portfolio: the draft there is, or a new one, of a new portfolio
\* or of one whose last draft was confirmed or discarded.
Open(c) ==
  /\ Idle(c)
  /\ IF HasDraft
     THEN UNCHANGED <<portfolio, draft, opened>>
     ELSE /\ opened < MaxDrafts
          /\ portfolio' = [id |-> IF portfolio = NoPortfolio THEN opened + 1 ELSE portfolio.id,
                            status |-> "draft"]
          /\ draft' = NewDraft
          /\ opened' = opened + 1
  /\ Shows(c, draft')
  /\ UNCHANGED snapshots

\* Mutant: any revision will do.
Expected_Any(c) == HasDraft

\* The check of expected_revision, under the lock of the portfolio.
Expected(c) == HasDraft /\ client[c].seen.revision = draft.revision

Revise(c, content) ==
  /\ Idle(c)
  /\ Expected(c)
  /\ content # draft.content
  /\ draft.revision < MaxRevision
  /\ draft' = [draft EXCEPT !.content = content, !.revision = @ + 1]
  /\ Shows(c, draft')
  /\ UNCHANGED <<portfolio, snapshots, opened>>

\* update_draft: the valuation date; a date cannot be taken back.
UpdateDraft(c) == Revise(c, [draft.content EXCEPT !.date = "given"])

\* replace_holdings.
ReplaceHoldings(c, holdings) == Revise(c, [draft.content EXCEPT !.holdings = holdings])

\* Mutant: the snapshot before stays current.
Supersede_Nothing == snapshots

\* confirm_draft: the current snapshot is superseded ...
Supersede == [n \in DOMAIN snapshots |-> [snapshots[n] EXCEPT !.status = "superseded"]]

\* ... the draft is frozen into a new one, and deleted.
Confirm(c) ==
  /\ Idle(c)
  /\ Expected(c)
  /\ Len(snapshots) < MaxSnapshots
  /\ StatusMayBecome("active")
  /\ snapshots' = Append(Supersede,
                         [status |-> "current", content |-> Frozen(draft.content)])
  /\ draft' = NoDraft
  /\ portfolio' = [portfolio EXCEPT !.status = "active"]
  /\ UNCHANGED <<opened, client>>

\* Mutant: the portfolio is active without a snapshot.
Discard_KeepsPortfolio(c) ==
  /\ Idle(c)
  /\ Expected(c)
  /\ draft' = NoDraft
  /\ portfolio' = [portfolio EXCEPT !.status = "active"]
  /\ UNCHANGED <<snapshots, opened, client>>

\* discard_draft: without a snapshot the portfolio goes too.
Discard(c) ==
  /\ Idle(c)
  /\ Expected(c)
  /\ draft' = NoDraft
  /\ portfolio' = IF snapshots = <<>> THEN NoPortfolio
                  ELSE [portfolio EXCEPT !.status = "active"]
  /\ UNCHANGED <<snapshots, opened, client>>

\* read_current_state: the portfolio and its draft, if any ...
ReadDraft(c) ==
  /\ Idle(c)
  /\ client' = [client EXCEPT ![c] =
       [reading |-> HasDraft, of |-> IF HasDraft THEN portfolio.id ELSE 0,
        seen |-> [draft EXCEPT !.content.holdings = NoHoldings]]]
  /\ UNCHANGED <<portfolio, draft, snapshots, opened>>

\* ... and the holdings of whatever draft that portfolio has by then: they are found
\* by the portfolio, which all its drafts share.
ReadHoldings(c) ==
  /\ client[c].reading
  /\ client' = [client EXCEPT ![c] =
       [reading |-> FALSE, of |-> 0,
        seen |-> [client[c].seen EXCEPT !.content.holdings =
          IF portfolio.id = client[c].of THEN draft.content.holdings ELSE NoHoldings]]]
  /\ UNCHANGED <<portfolio, draft, snapshots, opened>>

-------------------------------------------------------------------------------
ClientStep(c) ==
  \/ Open(c) \/ UpdateDraft(c) \/ Confirm(c) \/ Discard(c)
  \/ \E holdings \in Holdings : ReplaceHoldings(c, holdings)
  \/ ReadDraft(c) \/ ReadHoldings(c)

Next == \E c \in Clients : ClientStep(c)

Spec == Init /\ [][Next]_vars

-------------------------------------------------------------------------------
(* Properties *)

TypeOK ==
  /\ portfolio \in Portfolio
  /\ draft \in Draft \cup {NoDraft}
  /\ snapshots \in Seq(Snapshot)
  /\ opened \in 0..MaxDrafts
  /\ client \in [Clients -> ClientRow]

\* The status of the portfolio agrees with its rows, as the deferred trigger of
\* migration 0004 demands at every commit: a draft row goes with "draft", an active
\* portfolio has a snapshot, snapshots are never left without their portfolio.
StatusAgrees ==
  /\ TypeOK
  /\ portfolio.status = "draft" <=> HasDraft
  /\ portfolio.status = "active" => snapshots # <<>>
  /\ portfolio.status = "none" => snapshots = <<>>

\* What a client confirms is what it was shown of that draft, although the page read
\* the draft and its holdings at different moments.
ConfirmedAsSeen ==
  [][\A c \in Clients :
       Confirm(c) /\ client[c].seen.id = draft.id
         => snapshots'[Len(snapshots')].content = Frozen(client[c].seen.content)]_vars

\* Drafts and snapshots are a versioned document whose content is what a
\* confirmation would freeze.
Document == INSTANCE VersionedDocument WITH
  Contents <- Content,
  draft    <- IF HasDraft THEN Frozen(draft.content) ELSE NoDraft,
  versions <- [n \in DOMAIN snapshots |-> snapshots[n].content],
  inForce  <- Current

ImplementsDocument == Document!Spec
===============================================================================
