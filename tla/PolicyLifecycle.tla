--------------------------- MODULE PolicyLifecycle ----------------------------
(***************************************************************************)
(* The investment policy of a household (services/policies.py,              *)
(* repositories/policies.py, migration 0002): one draft with a revision     *)
(* that every change raises, versions that publishing seals, one version in *)
(* force.                                                                   *)
(*                                                                          *)
(* Every operation but one locks the policy row first and runs in one       *)
(* transaction, so it is one action.  Two are not: a GET reads the draft    *)
(* and its allocations in two statements, and setup_personal_policy reads   *)
(* policy and draft without a lock and writes them later.                   *)
(*                                                                          *)
(* A client keeps what it was last shown, with the revision it will send as *)
(* expected_revision, for as long as it likes.                              *)
(***************************************************************************)
EXTENDS Integers, Sequences

CONSTANTS
  Clients,
  Texts,        \* what a text field may say
  Blank,        \* an empty text field
  MaxDrafts,    \* bound: drafts opened
  MaxRevision,  \* bound: revision of a draft
  MaxVersions   \* bound: versions published

ASSUME ContentsAssumption == Blank \notin Texts
ASSUME BoundsAssumption ==
  MaxDrafts \in Nat /\ MaxRevision \in Nat \ {0} /\ MaxVersions \in Nat

VARIABLES
  policy,       \* whether the row of investment_policies exists
  draft,        \* the row of investment_policy_drafts, with its allocations
  versions,     \* the rows of investment_policy_versions, by version number
  opened,       \* history: drafts opened so far, which names them
  client        \* what each client was shown, and the request it is in

vars == <<policy, draft, versions, opened, client>>

-------------------------------------------------------------------------------
Fields == Texts \cup {Blank}

\* Target percentages: none, some that do not add up to 100, or a full list.
Allocations == {"none", "partial", "full"}

\* "required" stands for objectives, time_horizon and decision_process, which
\* publishing demands; "other" for the text fields it does not.
Content      == [required : Fields, other : Fields, allocations : Allocations]
BlankContent == [required |-> Blank, other |-> Blank, allocations |-> "none"]

NoDraft == [id |-> 0, revision |-> 0, content |-> BlankContent]
Draft   == [id : 1..MaxDrafts, revision : 1..MaxRevision, content : Content]
Seen    == [id : 0..MaxDrafts, revision : 0..MaxRevision, content : Content]

Version == [status : {"published", "superseded"}, content : Content]

\* idle; between the two reads of a GET; between the reads and the writes of a
\* setup, having found no policy, a policy without a draft, or both.
Requests  == {"idle", "reading", "setup-nothing", "setup-policy", "setup-draft"}
ClientRow == [at : Requests, seen : Seen]

HasDraft == draft # NoDraft
Idle(c)  == client[c].at = "idle"

\* get_current_published.
InForce(vs)    == {n \in DOMAIN vs : vs[n].status = "published"}
NextNumber(vs) == Len(vs) + 1

NewDraft(content) == [id |-> opened + 1, revision |-> 1, content |-> content]

\* What publish_draft asks of a draft.
Complete(content) == content.required # Blank /\ content.allocations = "full"

\* Mutant: the version in force stays in force.
SupersedeAndAdd_KeepsOld(vs, content) ==
  Append(vs, [status |-> "published", content |-> content])

\* The version in force is superseded, the new one inserted and sealed.
SupersedeAndAdd(vs, content) ==
  Append([n \in DOMAIN vs |-> [vs[n] EXCEPT !.status = "superseded"]],
         [status |-> "published", content |-> content])

Init ==
  /\ policy = FALSE
  /\ draft = NoDraft
  /\ versions = <<>>
  /\ opened = 0
  /\ client = [c \in Clients |-> [at |-> "idle", seen |-> NoDraft]]

\* The response to c shows it row.
Shows(c, row) == client' = [client EXCEPT ![c].seen = row]

-------------------------------------------------------------------------------
(* The draft *)

\* create_policy: the policy and its first, blank draft.
Create(c) ==
  /\ Idle(c)
  /\ ~policy
  /\ opened < MaxDrafts
  /\ policy' = TRUE
  /\ draft' = NewDraft(BlankContent)
  /\ opened' = opened + 1
  /\ Shows(c, draft')
  /\ UNCHANGED versions

\* create_new_draft: blank, or a copy of the version in force.
Open(c) ==
  /\ Idle(c)
  /\ policy
  /\ ~HasDraft
  /\ opened < MaxDrafts
  /\ \E content \in {BlankContent} \cup {versions[n].content : n \in InForce(versions)} :
       draft' = NewDraft(content)
  /\ opened' = opened + 1
  /\ Shows(c, draft')
  /\ UNCHANGED <<policy, versions>>

\* Mutant: any revision will do.
Expected_Any(c) == HasDraft

\* The check of expected_revision, under the lock of the policy.
Expected(c) == HasDraft /\ client[c].seen.revision = draft.revision

\* Mutant: a change of the allocations does not count as a revision.
Revise_TextOnly(c, content) ==
  /\ Idle(c)
  /\ Expected(c)
  /\ content # draft.content
  /\ draft.revision < MaxRevision
  /\ draft' = [draft EXCEPT !.content = content,
                 !.revision = IF content.allocations = draft.content.allocations
                              THEN @ + 1 ELSE @]
  /\ Shows(c, draft')
  /\ UNCHANGED <<policy, versions, opened>>

\* A change of the draft: refused as stale or as no change, or one revision on.
Revise(c, content) ==
  /\ Idle(c)
  /\ Expected(c)
  /\ content # draft.content
  /\ draft.revision < MaxRevision
  /\ draft' = [draft EXCEPT !.content = content, !.revision = @ + 1]
  /\ Shows(c, draft')
  /\ UNCHANGED <<policy, versions, opened>>

\* update_draft_text.
EditText(c, required, other) ==
  Revise(c, [draft.content EXCEPT !.required = required, !.other = other])

\* replace_allocations.
ReplaceAllocations(c, allocations) ==
  Revise(c, [draft.content EXCEPT !.allocations = allocations])

\* discard_draft.
Discard(c) ==
  /\ Idle(c)
  /\ Expected(c)
  /\ draft' = NoDraft
  /\ UNCHANGED <<policy, versions, opened, client>>

\* publish_draft.
Publish(c) ==
  /\ Idle(c)
  /\ Expected(c)
  /\ Complete(draft.content)
  /\ NextNumber(versions) <= MaxVersions
  /\ versions' = SupersedeAndAdd(versions, draft.content)
  /\ draft' = NoDraft
  /\ UNCHANGED <<policy, opened, client>>

-------------------------------------------------------------------------------
(* Reading: read_current_draft is two statements *)

\* The row of the draft ...
ReadDraft(c) ==
  /\ Idle(c)
  /\ HasDraft
  /\ client' = [client EXCEPT ![c] =
       [at |-> "reading", seen |-> [draft EXCEPT !.content.allocations = "none"]]]
  /\ UNCHANGED <<policy, draft, versions, opened>>

\* ... and the allocations of that draft, which may be newer, or gone with it.
ReadAllocations(c) ==
  /\ client[c].at = "reading"
  /\ client' = [client EXCEPT ![c] =
       [at |-> "idle",
        seen |-> [client[c].seen EXCEPT !.content.allocations =
          IF client[c].seen.id = draft.id THEN draft.content.allocations ELSE "none"]]]
  /\ UNCHANGED <<policy, draft, versions, opened>>

-------------------------------------------------------------------------------
(* setup_personal_policy *)

\* It reads policy and draft without a lock.
SetupReads(c) ==
  /\ Idle(c)
  /\ client' = [client EXCEPT ![c] =
       [at   |-> IF ~policy THEN "setup-nothing"
                 ELSE IF HasDraft THEN "setup-draft" ELSE "setup-policy",
        seen |-> draft]]
  /\ UNCHANGED <<policy, draft, versions, opened>>

\* Whether the rows that the setup inserts or updates are still as it needs them:
\* neither a unique constraint nor an UPDATE of no row stops it.
SetupMayWrite(c) ==
  CASE client[c].at = "setup-nothing" -> ~policy
    [] client[c].at = "setup-policy"  -> ~HasDraft
    [] client[c].at = "setup-draft"   -> draft.id = client[c].seen.id
    [] OTHER                          -> FALSE

\* A setup answers with a version number, and shows no draft.
Returns(c) == client' = [client EXCEPT ![c] = [at |-> "idle", seen |-> NoDraft]]

\* What setup publishes: its own required texts and full allocations, and the
\* other texts as they were when it read the draft.
SetupContent(c, required) ==
  [required |-> required, other |-> client[c].seen.content.other,
   allocations |-> "full"]

SetupPublishes(c, required) ==
  /\ SetupMayWrite(c)
  /\ NextNumber(versions) <= MaxVersions
  /\ policy' = TRUE
  /\ versions' = SupersedeAndAdd(versions, SetupContent(c, required))
  /\ draft' = NoDraft
  /\ Returns(c)
  /\ UNCHANGED opened

\* The exception ends the request; its transaction leaves nothing behind.
SetupFails(c) ==
  /\ client[c].at \in {"setup-nothing", "setup-policy", "setup-draft"}
  /\ ~SetupMayWrite(c) \/ NextNumber(versions) > MaxVersions
  /\ Returns(c)
  /\ UNCHANGED <<policy, draft, versions, opened>>

-------------------------------------------------------------------------------
ClientStep(c) ==
  \/ Create(c)
  \/ Open(c)
  \/ \E required, other \in Fields : EditText(c, required, other)
  \/ \E allocations \in Allocations : ReplaceAllocations(c, allocations)
  \/ Discard(c)
  \/ Publish(c)
  \/ ReadDraft(c)
  \/ ReadAllocations(c)
  \/ SetupReads(c)
  \/ \E required \in Texts : SetupPublishes(c, required)
  \/ SetupFails(c)

Next == \E c \in Clients : ClientStep(c)

Spec == Init /\ [][Next]_vars

-------------------------------------------------------------------------------
(* Properties *)

TypeOK ==
  /\ policy \in BOOLEAN
  /\ draft \in Draft \cup {NoDraft}
  /\ versions \in Seq(Version)
  /\ opened \in 0..MaxDrafts
  /\ client \in [Clients -> ClientRow]

\* A revision names one content of a draft: a client that sends the revision the
\* draft has now, and looked at this draft, looked at what it says now, although
\* it read the row and the allocations at different moments.
RevisionNamesContent ==
  /\ TypeOK
  /\ \A c \in Clients :
       Idle(c) /\ HasDraft /\ client[c].seen.id = draft.id
               /\ client[c].seen.revision = draft.revision
         => client[c].seen = draft

\* What a client publishes from the draft it looked at is what it was shown
\* (publish_draft copies the draft it has locked, not one the client sent).
PublishedAsSeen ==
  [][\A c \in Clients :
       Publish(c) /\ client[c].seen.id = draft.id
         => versions'[Len(versions')].content = client[c].seen.content]_vars

\* Documents say that a stale expected_revision is refused.  Revisions start again
\* at 1 with every draft, so a revision seen in an earlier draft may pass.
StaleDraftRefused ==
  [][\A c \in Clients : Publish(c) => client[c].seen.id = draft.id]_vars

\* Draft, versions and the version in force are a versioned document: drafts are
\* consumed by publishing, versions are only added, one version is in force.
Document == INSTANCE VersionedDocument WITH
  Contents <- Content,
  draft    <- IF HasDraft THEN draft.content ELSE NoDraft,
  versions <- [n \in DOMAIN versions |-> versions[n].content],
  inForce  <- InForce(versions)

ImplementsDocument == Document!Spec
===============================================================================
