--------------------------- MODULE DecisionJournal ----------------------------
(***************************************************************************)
(* The decision journal (services/decisions.py, repositories/decisions.py,  *)
(* migration 0003), the owner's approval and rejection of drafts that the   *)
(* research pipeline hands over (services/decision_lifecycle.py), and the   *)
(* policy a confirmation refers to.                                         *)
(*                                                                          *)
(* The services do not commit: _require_household has already begun the     *)
(* transaction of the session, so _ensure_transaction joins it, and whether *)
(* anything is kept is up to the caller.  Durable names the operations      *)
(* whose caller commits; the others answer and are rolled back when         *)
(* get_session closes the session.                                          *)
(*                                                                          *)
(* The policy is taken as the abstract document that PolicyLifecycle        *)
(* implements.                                                              *)
(***************************************************************************)
EXTENDS Integers, Sequences, FiniteSets

CONSTANTS
  Clients,        \* owners' pages, and the worker that hands drafts over
  Decisions,      \* identities of rows of decisions, never used twice
  Nobody,         \* stands for no client and for no decision
  Texts,          \* what a draft may say
  Blank,          \* a draft that lacks a required field
  Durable,        \* the operations whose caller commits
  MaxRevision,    \* bound: revision of a draft
  MaxCorrections, \* bound: corrections of a decision
  MaxVersions     \* bound: versions of the policy

Operations == {"create", "bridge", "update", "discard", "confirm", "approve",
               "reject", "archive", "unarchive", "correct"}

ASSUME NobodyAssumption == Nobody \notin Clients \cup Decisions
ASSUME BlankAssumption == Blank \notin Texts
ASSUME DurableAssumption == Durable \subseteq Operations
ASSUME CapsAssumption ==
  MaxRevision \in Nat \ {0} /\ MaxCorrections \in Nat /\ MaxVersions \in Nat

VARIABLES
  decision,       \* rows of decisions with their draft, snapshot, corrections
  acked,          \* history: each row as the last answer about it described it
  client,         \* what each client was shown, and the request it is in
  policyLock,     \* the client whose transaction holds the policy row
  polDraft, polVersions, polInForce   \* the policy

policyVars == <<polDraft, polVersions, polInForce>>
vars == <<decision, acked, client, policyLock, policyVars>>

-------------------------------------------------------------------------------
Says == Texts \cup {Blank}

\* The policy: what its versions say does not matter here.
Policy == INSTANCE VersionedDocument WITH
  Contents <- {"text"}, NoDraft <- "none",
  draft <- polDraft, versions <- polVersions, inForce <- polInForce

\* "unborn": the identity was never used.  "gone": it was, and there is no row.
Status == {"unborn", "gone", "draft", "confirmed", "archived"}

\* revision 0: no draft row; policy 0: no snapshot.
Row == [status : Status, revision : 0..MaxRevision, text : Says,
        policy : 0..MaxVersions, snapshot : Says,
        corrections : 0..MaxCorrections, reviews : 0..2]

NoRow == [status |-> "unborn", revision |-> 0, text |-> Blank, policy |-> 0,
          snapshot |-> Blank, corrections |-> 0, reviews |-> 0]

\* What a page shows of a draft: which, its revision, its text.
Seen == [id : Decisions \cup {Nobody}, revision : 0..MaxRevision, text : Says]
NothingSeen == [id |-> Nobody, revision |-> 0, text |-> Blank]

\* idle; a transaction that has locked the policy and waits for the decision; an
\* approval that has read the draft and has no lock yet, then the same lock.
Requests  == {"idle", "confirming", "approving", "approving-locked"}
ClientRow == [at : Requests, seen : Seen, policy : 0..MaxVersions]

HasRow(d)     == decision[d].status \notin {"unborn", "gone"}
IsDraft(d)    == decision[d].status = "draft"
HasSnapshot(d) == decision[d].status \in {"confirmed", "archived"}
Idle(c)       == client[c].at = "idle"
Published     == polInForce # {}
InForce       == CHOOSE n \in polInForce : TRUE

Init ==
  /\ decision = [d \in Decisions |-> NoRow]
  /\ acked = decision
  /\ client = [c \in Clients |-> [at |-> "idle", seen |-> NothingSeen, policy |-> 0]]
  /\ policyLock = Nobody
  /\ Policy!Init

-------------------------------------------------------------------------------
(* Sessions *)

\* The request op leaves the row of d as row, if its caller commits, and answers as
\* if it did.  An identity that was rolled back is never used again.
Answer(op, d, row) ==
  /\ decision' = [decision EXCEPT ![d] =
       IF op \in Durable THEN row
       ELSE IF @.status = "unborn" THEN [@ EXCEPT !.status = "gone"] ELSE @]
  /\ acked' = [acked EXCEPT ![d] = row]

\* c is idle again and has before it the draft of d as row says it is.
Shows(c, d, row) ==
  client' = [client EXCEPT ![c] =
    [at |-> "idle", policy |-> 0,
     seen |-> [id |-> d, revision |-> row.revision, text |-> row.text]]]

\* Mutant: the revision of the request is not compared.
Expected_Any(c, d) == IsDraft(d) /\ client[c].seen.id = d

\* The checks of status and expected_revision, under the lock of the decision.
Expected(c, d) ==
  /\ IsDraft(d)
  /\ client[c].seen.id = d
  /\ client[c].seen.revision = decision[d].revision

-------------------------------------------------------------------------------
(* Drafts *)

\* create_decision.
Create(c, d) ==
  LET row == [NoRow EXCEPT !.status = "draft", !.revision = 1]
  IN  /\ Idle(c)
      /\ decision[d].status = "unborn"
      /\ Answer("create", d, row)
      /\ Shows(c, d, row)
      /\ UNCHANGED <<policyLock, policyVars>>

\* DecisionBridgeService.create_decision_draft: created and filled in one go, by a
\* worker; no page shows it yet.
Bridge(c, d, text) ==
  /\ Idle(c)
  /\ decision[d].status = "unborn"
  /\ MaxRevision >= 2
  /\ Answer("bridge", d, [NoRow EXCEPT !.status = "draft", !.revision = 2, !.text = text])
  /\ UNCHANGED <<client, policyLock, policyVars>>

\* read_draft, as a page shows it.
Read(c, d) ==
  /\ Idle(c)
  /\ IsDraft(d)
  /\ Shows(c, d, decision[d])
  /\ UNCHANGED <<decision, acked, policyLock, policyVars>>

\* update_draft.
Update(c, d, text) ==
  LET row == [decision[d] EXCEPT !.text = text, !.revision = @ + 1]
  IN  /\ Idle(c)
      /\ Expected(c, d)
      /\ text # decision[d].text
      /\ decision[d].revision < MaxRevision
      /\ Answer("update", d, row)
      /\ Shows(c, d, row)
      /\ UNCHANGED <<policyLock, policyVars>>

\* discard_draft: the draft and its decision.
Discard(c, d) ==
  /\ Idle(c)
  /\ Expected(c, d)
  /\ Answer("discard", d, [NoRow EXCEPT !.status = "gone"])
  /\ UNCHANGED <<client, policyLock, policyVars>>

\* reject_decision: the revision it sends is the one it has just read.
Reject(c, d) ==
  /\ Idle(c)
  /\ IsDraft(d)
  /\ Answer("reject", d, [NoRow EXCEPT !.status = "gone"])
  /\ UNCHANGED <<client, policyLock, policyVars>>

-------------------------------------------------------------------------------
(* Confirmation locks the policy, then the decision and its draft *)

\* Mutant: the policy is read without FOR UPDATE.
TakePolicy_Unlocked(c, next, seen) ==
  /\ Published
  /\ client' = [client EXCEPT ![c] = [at |-> next, seen |-> seen, policy |-> InForce]]
  /\ UNCHANGED policyLock

\* The lock of the policy row, and the version in force under it.
TakePolicy(c, next, seen) ==
  /\ policyLock = Nobody
  /\ Published
  /\ policyLock' = c
  /\ client' = [client EXCEPT ![c] = [at |-> next, seen |-> seen, policy |-> InForce]]

ConfirmBegins(c) ==
  /\ Idle(c)
  /\ client[c].seen.id # Nobody
  /\ TakePolicy(c, "confirming", client[c].seen)
  /\ UNCHANGED <<decision, acked, policyVars>>

\* Mutant: a request that is over keeps its transaction open.
Ends_KeepsLock(c) ==
  /\ UNCHANGED policyLock
  /\ client' = [client EXCEPT ![c] = [@ EXCEPT !.at = "idle", !.policy = 0]]

\* The end of a transaction that may hold the policy row.
Ends(c) ==
  /\ policyLock' = IF policyLock = c THEN Nobody ELSE policyLock
  /\ client' = [client EXCEPT ![c] = [@ EXCEPT !.at = "idle", !.policy = 0]]

\* The row of a decision confirmed with this text, under the version c has read.
ConfirmedRow(c, d, text, reviews) ==
  [decision[d] EXCEPT !.status = "confirmed", !.revision = 0, !.text = Blank,
                      !.snapshot = text, !.policy = client[c].policy,
                      !.reviews = @ + reviews]

\* confirm_draft, called by the route with the revision of the page.
Confirm(c, d) ==
  /\ client[c].at = "confirming"
  /\ Expected(c, d)
  /\ decision[d].text # Blank
  /\ Answer("confirm", d, ConfirmedRow(c, d, decision[d].text, 0))
  /\ Ends(c)
  /\ UNCHANGED policyVars

\* confirm_draft refuses: not a draft any more, another revision, or incomplete.
ConfirmRefused(c) ==
  LET d == client[c].seen.id
  IN  /\ client[c].at = "confirming"
      /\ ~Expected(c, d) \/ decision[d].text = Blank
      /\ Ends(c)
      /\ UNCHANGED <<decision, acked, policyVars>>

\* OwnerDecisionService.confirm_decision: reads the draft without a lock.  The
\* session keeps the objects it has read: the SELECT ... FOR UPDATE that follows
\* waits for the rows, and returns them as they were.
ApproveReads(c, d) ==
  /\ Idle(c)
  /\ IsDraft(d)
  /\ client' = [client EXCEPT ![c].at = "approving",
       ![c].seen = [id |-> d, revision |-> decision[d].revision, text |-> decision[d].text]]
  /\ UNCHANGED <<decision, acked, policyLock, policyVars>>

ApproveLocks(c) ==
  /\ client[c].at = "approving"
  /\ TakePolicy(c, "approving-locked", client[c].seen)
  /\ UNCHANGED <<decision, acked, policyVars>>

\* Mutant: that the draft row is gone goes unnoticed.
Approve_Again(c, d) ==
  /\ client[c].at = "approving-locked"
  /\ client[c].seen.id = d
  /\ HasRow(d)
  /\ client[c].seen.text # Blank
  /\ Answer("approve", d, ConfirmedRow(c, d, client[c].seen.text, 1))
  /\ Ends(c)
  /\ UNCHANGED policyVars

\* confirm_draft within an approval, and the reviews it schedules: what was read is
\* confirmed, if the draft row is still there to be locked.
Approve(c, d) ==
  /\ client[c].at = "approving-locked"
  /\ client[c].seen.id = d
  /\ IsDraft(d)
  /\ client[c].seen.text # Blank
  /\ Answer("approve", d, ConfirmedRow(c, d, client[c].seen.text, 1))
  /\ Ends(c)
  /\ UNCHANGED policyVars

\* No policy in force, the draft gone, or incomplete.
ApproveRefused(c) ==
  /\ \/ client[c].at = "approving" /\ ~Published
     \/ /\ client[c].at = "approving-locked"
        /\ ~IsDraft(client[c].seen.id) \/ client[c].seen.text = Blank
  /\ Ends(c)
  /\ UNCHANGED <<decision, acked, policyVars>>

-------------------------------------------------------------------------------
(* After confirmation *)

\* archive_decision, unarchive_decision.
Move(c, d, op, from, to) ==
  /\ Idle(c)
  /\ decision[d].status = from
  /\ Answer(op, d, [decision[d] EXCEPT !.status = to])
  /\ UNCHANGED <<client, policyLock, policyVars>>

Archive(c, d)   == Move(c, d, "archive", "confirmed", "archived")
Unarchive(c, d) == Move(c, d, "unarchive", "archived", "confirmed")

\* append_correction: max + 1 under the lock of the decision.
Correct(c, d) ==
  /\ Idle(c)
  /\ HasSnapshot(d)
  /\ decision[d].corrections < MaxCorrections
  /\ Answer("correct", d, [decision[d] EXCEPT !.corrections = @ + 1])
  /\ UNCHANGED <<client, policyLock, policyVars>>

-------------------------------------------------------------------------------
\* The policy service writes under the same lock.
PolicyStep ==
  /\ policyLock = Nobody
  /\ Policy!Next
  /\ Len(polVersions') <= MaxVersions
  /\ UNCHANGED <<decision, acked, client, policyLock>>

OnDecision(c, d) ==
  \/ Create(c, d)
  \/ \E text \in Says : Bridge(c, d, text) \/ Update(c, d, text)
  \/ Read(c, d) \/ Discard(c, d) \/ Reject(c, d)
  \/ Confirm(c, d) \/ ApproveReads(c, d) \/ Approve(c, d)
  \/ Archive(c, d) \/ Unarchive(c, d) \/ Correct(c, d)

Next ==
  \/ \E c \in Clients, d \in Decisions : OnDecision(c, d)
  \/ \E c \in Clients :
       ConfirmBegins(c) \/ ConfirmRefused(c) \/ ApproveLocks(c) \/ ApproveRefused(c)
  \/ PolicyStep

\* A transaction runs on; one that waits for the policy gets it in turn, since
\* PostgreSQL queues those who wait for a row.
Proceeds(c) ==
  \/ \E d \in Decisions : Confirm(c, d) \/ Approve(c, d)
  \/ ConfirmRefused(c) \/ ApproveRefused(c)

Fairness == \A c \in Clients : WF_vars(Proceeds(c)) /\ SF_vars(ApproveLocks(c))

Spec     == Init /\ [][Next]_vars
FairSpec == Spec /\ Fairness

-------------------------------------------------------------------------------
(* Properties *)

TypeOK ==
  /\ decision \in [Decisions -> Row]
  /\ acked \in [Decisions -> Row]
  /\ client \in [Clients -> ClientRow]
  /\ policyLock \in Clients \cup {Nobody}
  /\ polDraft \in {"text", "none"}
  /\ polVersions \in Seq({"text"})
  /\ polInForce \in SUBSET (1..MaxVersions)

\* The rows of a decision agree with its status, as the trigger of migration 0003
\* demands; reviews are scheduled once, however many approvals meet.
RowsAgree ==
  /\ TypeOK
  /\ \A d \in Decisions :
       /\ IsDraft(d) <=> decision[d].revision > 0
       /\ HasSnapshot(d) <=> decision[d].policy > 0
       /\ HasSnapshot(d) => decision[d].snapshot # Blank
       /\ decision[d].corrections > 0 => HasSnapshot(d)
       /\ decision[d].reviews <= (IF HasSnapshot(d) THEN 1 ELSE 0)

\* A decision is confirmed under the version in force at the moment it becomes
\* visible, although the version was read before the decision was waited for.
ConfirmedUnderPolicyInForce ==
  [][\A d \in Decisions :
       ~HasSnapshot(d) /\ HasSnapshot(d)' => polInForce = {decision'[d].policy}]_vars

\* A client that confirms what its page shows gets a snapshot of just that, however
\* long ago the page was loaded.
ConfirmedAsSeen ==
  [][\A c \in Clients, d \in Decisions :
       Confirm(c, d) => acked'[d].snapshot = client[c].seen.text]_vars

\* Every request that has begun a transaction ends it.
RequestsEnd == \A c \in Clients : ~Idle(c) ~> Idle(c)

\* Documents say that a request that is answered with success has committed.
AcknowledgedIsDurable == \A d \in Decisions : acked[d].status \in {"draft", "confirmed", "archived"}
                                                => acked[d] = decision[d]

\* ... and that a draft which changed since it was read is not confirmed.
ApprovedIsCurrent ==
  [][\A c \in Clients, d \in Decisions :
       Approve(c, d) => client[c].seen.revision = decision[d].revision]_vars
===============================================================================
