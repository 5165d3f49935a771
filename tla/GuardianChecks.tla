---------------------------- MODULE GuardianChecks ----------------------------
(***************************************************************************)
(* Guardian checks and their evaluation (services/guardian.py,              *)
(* guardian_evaluator.py, repositories/guardian.py, migration 0007).        *)
(*                                                                          *)
(* A check has at most one draft and any number of confirmed versions.      *)
(* Editing, confirming and discarding read first and write later, without a *)
(* lock on the check: only the unique constraint on version numbers and the *)
(* foreign key of the versions stand between two requests.  An evaluation   *)
(* holds the household's lock from its first statement to its commit; what  *)
(* writes an audit event, as all but the editing of a draft do, waits for    *)
(* that lock, so what an evaluation reads one after the other belongs       *)
(* together, and an edit of a draft is all that may come between.           *)
(***************************************************************************)
EXTENDS Integers, Sequences, FiniteSets

CONSTANTS
  Clients,
  Evaluators,   \* requests to evaluate, and the worker's child
  Checks,       \* identities; one that is deleted does not come back
  NoOne,        \* the household is not locked
  Thresholds,   \* percentage points, or days for a staleness check
  Targets,      \* target percentage of the category a drift check names
  Shares,       \* percentage of the portfolio that category has
  Valuations,   \* valuation dates of snapshots
  Days,         \* dates of evaluation
  MaxRevision,  \* bound: revision of a draft
  MaxVersions,  \* bound: confirmed versions of a check
  MaxInputs,    \* bound: policy versions, and snapshots
  MaxRuns       \* bound: evaluation runs

ASSUME NoOneAssumption == NoOne \notin Evaluators
ASSUME NumbersAssumption ==
  /\ Thresholds \subseteq Nat \ {0}
  /\ Targets \cup Shares \cup Valuations \cup Days \subseteq Nat
ASSUME BoundsAssumption ==
  MaxRevision \in Nat \ {0} /\ {MaxVersions, MaxInputs, MaxRuns} \subseteq Nat

VARIABLES
  check,        \* the rows of guardian_checks
  draft,        \* the rows of guardian_check_drafts
  confirmed,    \* the rows of guardian_check_confirmed, in order of commit
  policies,     \* targets of the published versions; the last is in force
  snapshots,    \* the confirmed snapshots; the last is the current one
  runs,         \* the rows of guardian_evaluation_runs, in order of commit
  events,       \* the rows of guardian_events
  client,       \* the request each client is in, and the draft it was shown
  locked,       \* who holds the household's lock
  evaluation    \* what each evaluation has read so far

documents == <<policies, snapshots>>
checkRows == <<check, draft, confirmed>>
results   == <<runs, events>>
vars == <<checkRows, documents, results, client, locked, evaluation>>

-------------------------------------------------------------------------------
Kinds == {"drift", "category_exposure", "staleness"}

Check   == [status : {"unused", "draft", "confirmed", "deleted"}, kind : Kinds]
NoDraft == [revision |-> 0, threshold |-> 0]
Draft   == [revision : 1..MaxRevision, threshold : Thresholds]
Version == [check : Checks, number : 1..MaxVersions, kind : Kinds, threshold : Thresholds]

Unlisted == -1      \* the policy has no target for the category
NoValue  == -1      \* the snapshot's total value is zero

Snapshot == [share : Shares \cup {NoValue}, day : Valuations]

\* What a request has read; number is the version number it will insert.
Request == [at : {"idle", "updating", "confirming", "numbered", "discarding", "deleting"},
            check : Checks, row : Draft \cup {NoDraft}, number : 0..MaxVersions + 1]

Everything == "everything"      \* an evaluation without target_check_id

Exists(k)     == check[k].status \in {"draft", "confirmed"}
HasDraft(k)   == draft[k] # NoDraft
VersionsOf(k) == {v \in DOMAIN confirmed : confirmed[v].check = k}
Numbers(k)    == {confirmed[v].number : v \in VersionsOf(k)}
Idle(c)       == client[c].at = "idle"

\* Mutant: nobody waits for an evaluation.
LockFree_Any == TRUE

\* The household's row is not locked FOR UPDATE.  An evaluation waits for that, and whoever
\* inserts a row that references the household: every audit event does.
LockFree == locked = NoOne

\* COALESCE(MAX(version_number), 0) + 1, the numbers being 1 to their maximum.
NextNumber(k) == Cardinality(Numbers(k)) + 1

Init ==
  /\ check = [k \in Checks |-> [status |-> "unused", kind |-> "drift"]]
  /\ draft = [k \in Checks |-> NoDraft]
  /\ confirmed = <<>>
  /\ policies = <<>> /\ snapshots = <<>>
  /\ runs = <<>> /\ events = {}
  /\ client \in [Clients -> {[at |-> "idle", check |-> k, row |-> NoDraft, number |-> 0]
                             : k \in Checks}]
  /\ locked = NoOne
  /\ evaluation = [e \in Evaluators |-> [at |-> "none"]]

-------------------------------------------------------------------------------
(* Drafts *)

\* create_guardian_check.
Create(c, k, kind, threshold) ==
  /\ Idle(c) /\ LockFree
  /\ check[k].status = "unused"
  /\ check' = [check EXCEPT ![k] = [status |-> "draft", kind |-> kind]]
  /\ draft' = [draft EXCEPT ![k] = [revision |-> 1, threshold |-> threshold]]
  /\ UNCHANGED <<confirmed, documents, results, client, locked, evaluation>>

\* GET, and the detail every response ends with: the client keeps the draft, if any.
Look(c, k) ==
  /\ Idle(c)
  /\ client' = [client EXCEPT ![c].check = k, ![c].row = draft[k]]
  /\ UNCHANGED <<checkRows, documents, results, locked, evaluation>>

\* The request of c goes on to at.
Goes(c, at) == client' = [client EXCEPT ![c].at = at]

\* A request has ended; what the client is told, it looks up again.
Answered(c) ==
  client' = [client EXCEPT ![c].at = "idle", ![c].row = NoDraft, ![c].number = 0]

\* The comparison of expected_revision, in Python.
Expected(c) ==
  LET k == client[c].check
  IN Exists(k) /\ HasDraft(k) /\ client[c].row.revision = draft[k].revision

\* update_guardian_draft reads the draft without a lock ...
UpdateReads(c, threshold) ==
  /\ Idle(c)
  /\ Expected(c)
  /\ client[c].row.revision < MaxRevision
  /\ client' = [client EXCEPT ![c].at = "updating", ![c].row.threshold = threshold]
  /\ UNCHANGED <<checkRows, documents, results, locked, evaluation>>

\* ... and writes what it read, one revision on, whatever the draft has become;
\* if the draft has gone meanwhile it updates no row.
UpdateWrites(c) ==
  LET k == client[c].check
  IN /\ client[c].at = "updating"
     /\ draft' = IF HasDraft(k)
                 THEN [draft EXCEPT ![k] = [client[c].row EXCEPT !.revision = @ + 1]]
                 ELSE draft
     /\ Answered(c)
     /\ UNCHANGED <<check, confirmed, documents, results, locked, evaluation>>

-------------------------------------------------------------------------------
(* confirm_guardian_check: the draft stays *)

ConfirmReads(c) ==
  /\ Idle(c)
  /\ Expected(c)
  /\ client' = [client EXCEPT ![c].at = "confirming", ![c].row = draft[client[c].check]]
  /\ UNCHANGED <<checkRows, documents, results, locked, evaluation>>

ConfirmNumbers(c) ==
  /\ client[c].at = "confirming"
  /\ client' = [client EXCEPT ![c].at = "numbered",
                              ![c].number = NextNumber(client[c].check)]
  /\ UNCHANGED <<checkRows, documents, results, locked, evaluation>>

\* Mutant: no unique constraint on the version numbers of a check.
NumberFree_Any(k, number) == TRUE

\* uq_guardian_check_confirmed_version.
NumberFree(k, number) == number \notin Numbers(k)

NewVersion(c) ==
  LET k == client[c].check
  IN [check |-> k, number |-> client[c].number, kind |-> check[k].kind,
      threshold |-> client[c].row.threshold]

ConfirmInserts(c) ==
  LET k == client[c].check
  IN /\ client[c].at = "numbered" /\ LockFree
     /\ Exists(k) /\ NumberFree(k, client[c].number)
     /\ client[c].number <= MaxVersions
     /\ confirmed' = Append(confirmed, NewVersion(c))
     /\ check' = [check EXCEPT ![k].status = "confirmed"]
     /\ Answered(c)
     /\ UNCHANGED <<draft, documents, results, locked, evaluation>>

\* The insert violates a constraint (or the bound): nothing of the request remains.
ConfirmFails(c) ==
  LET k == client[c].check
  IN /\ client[c].at = "numbered"
     /\ Exists(k) /\ NumberFree(k, client[c].number) => client[c].number > MaxVersions
     /\ Answered(c)
     /\ UNCHANGED <<checkRows, documents, results, locked, evaluation>>

-------------------------------------------------------------------------------
(* discard_guardian_check *)

\* It asks once whether the check has versions ...
DiscardReads(c) ==
  /\ Idle(c)
  /\ Exists(client[c].check)
  /\ Goes(c, IF VersionsOf(client[c].check) = {} THEN "deleting" ELSE "discarding")
  /\ UNCHANGED <<checkRows, documents, results, locked, evaluation>>

\* ... if so it only deletes the draft ...
DiscardsDraft(c) ==
  LET k == client[c].check
  IN /\ client[c].at = "discarding" /\ LockFree
     /\ draft' = [draft EXCEPT ![k] = NoDraft]
     /\ check' = [check EXCEPT ![k].status = "draft"]
     /\ Answered(c)
     /\ UNCHANGED <<confirmed, documents, results, locked, evaluation>>

\* fk_guardian_check_confirmed_check_id ON DELETE RESTRICT.
Deletable(k) == VersionsOf(k) = {}

\* ... and else the check with it, which may have been deleted already.
DeletesCheck(c) ==
  LET k == client[c].check
  IN /\ client[c].at = "deleting" /\ LockFree
     /\ Deletable(k)
     /\ draft' = [draft EXCEPT ![k] = NoDraft]
     /\ check' = [check EXCEPT ![k].status = "deleted"]
     /\ Answered(c)
     /\ UNCHANGED <<confirmed, documents, results, locked, evaluation>>

\* A version has appeared since: the transaction, and the deletion of the draft
\* with it, is rolled back.
DeleteRefused(c) ==
  /\ client[c].at = "deleting"
  /\ ~Deletable(client[c].check)
  /\ Answered(c)
  /\ UNCHANGED <<checkRows, documents, results, locked, evaluation>>

-------------------------------------------------------------------------------
(* The inputs: publish_draft of the policies, confirm_draft of the portfolios *)

PublishPolicy(target) ==
  /\ LockFree /\ Len(policies) < MaxInputs
  /\ policies' = Append(policies, target)
  /\ UNCHANGED <<checkRows, snapshots, results, client, locked, evaluation>>

ConfirmSnapshot(snapshot) ==
  /\ LockFree /\ Len(snapshots) < MaxInputs
  /\ snapshots' = Append(snapshots, snapshot)
  /\ UNCHANGED <<checkRows, policies, results, client, locked, evaluation>>

-------------------------------------------------------------------------------
(* Evaluation *)

Distance(a, b) == IF a > b THEN a - b ELSE b - a

\* evaluate_drift, evaluate_category_exposure, evaluate_staleness: strictly more
\* than the threshold.
Exceeded(version, target, snapshot, asOf) ==
  CASE version.kind = "drift" ->
         target # Unlisted /\ Distance(snapshot.share, target) > version.threshold
    [] version.kind = "category_exposure" -> snapshot.share > version.threshold
    [] version.kind = "staleness" -> asOf - snapshot.day > version.threshold

\* Mutant: an old valuation is reported once, not once for every date.
Fingerprint_Dateless(event) == <<event.version, event.snapshot,
  IF confirmed[event.version].kind = "staleness" THEN 0 ELSE event.policy>>

\* What uq_guardian_events_staleness and uq_guardian_events_drift_exposure make
\* unique: one event for a version and the inputs its breach depends on.
Fingerprint(event) == <<event.version, event.snapshot,
  IF confirmed[event.version].kind = "staleness" THEN event.asOf ELSE event.policy>>

\* SELECT ... FOR UPDATE on the household.
Lock(e, target, asOf) ==
  /\ evaluation[e].at = "none"
  /\ LockFree
  /\ Len(runs) < MaxRuns
  /\ locked' = e
  /\ evaluation' = [evaluation EXCEPT ![e] =
       [at |-> "locked", target |-> target, asOf |-> asOf]]
  /\ UNCHANGED <<checkRows, documents, results, client>>

\* The transaction commits, with row as its evaluation run.
Commits(e, row) ==
  /\ runs' = Append(runs, row)
  /\ locked' = NoOne
  /\ evaluation' = [evaluation EXCEPT ![e] = [at |-> "none"]]
  /\ UNCHANGED <<checkRows, documents, client>>

\* A run that evaluates nothing.
Skips(e, status) ==
  /\ Commits(e, [status |-> status, asOf |-> evaluation[e].asOf,
                 policy |-> 0, snapshot |-> 0, versions |-> {}])
  /\ UNCHANGED events

ReadPolicy(e) ==
  /\ evaluation[e].at = "locked"
  /\ policies # <<>>
  /\ evaluation' = [evaluation EXCEPT ![e] =
       [at |-> "policy", target |-> @.target, asOf |-> @.asOf, policy |-> Len(policies)]]
  /\ UNCHANGED <<checkRows, documents, results, client, locked>>

SkipNoPolicy(e) ==
  /\ evaluation[e].at = "locked"
  /\ policies = <<>>
  /\ Skips(e, "skipped_no_published_policy")

ReadSnapshot(e) ==
  /\ evaluation[e].at = "policy"
  /\ snapshots # <<>>
  /\ snapshots[Len(snapshots)].share # NoValue
  /\ evaluation' = [evaluation EXCEPT ![e] =
       [at |-> "snapshot", target |-> @.target, asOf |-> @.asOf, policy |-> @.policy,
        snapshot |-> Len(snapshots)]]
  /\ UNCHANGED <<checkRows, documents, results, client, locked>>

SkipNoSnapshot(e) ==
  /\ evaluation[e].at = "policy"
  /\ snapshots = <<>>
  /\ Skips(e, "skipped_no_portfolio_snapshot")

SkipZeroValue(e) ==
  /\ evaluation[e].at = "policy"
  /\ snapshots # <<>>
  /\ snapshots[Len(snapshots)].share = NoValue
  /\ Skips(e, "skipped_zero_total_value")

\* The versions to evaluate: all there are, not only the latest of each check.
Evaluated(target) ==
  IF target = Everything THEN DOMAIN confirmed ELSE VersionsOf(target)

\* The events that INSERT ... ON CONFLICT DO NOTHING adds.
NewEvents(e) ==
  LET ev == evaluation[e]
      breaches == {v \in Evaluated(ev.target) :
                     Exceeded(confirmed[v], policies[ev.policy],
                              snapshots[ev.snapshot], ev.asOf)}
      found == {[run |-> Len(runs) + 1, version |-> v, policy |-> ev.policy,
                 snapshot |-> ev.snapshot, asOf |-> ev.asOf] : v \in breaches}
  IN {event \in found : \A old \in events : Fingerprint(old) # Fingerprint(event)}

\* The versions are read, the run and its events written.
Complete(e) ==
  LET ev == evaluation[e]
  IN /\ ev.at = "snapshot"
     /\ events' = events \cup NewEvents(e)
     /\ Commits(e, [status |-> "completed", asOf |-> ev.asOf, policy |-> ev.policy,
                    snapshot |-> ev.snapshot, versions |-> Evaluated(ev.target)])

-------------------------------------------------------------------------------
ClientStep(c) ==
  \/ \E k \in Checks, kind \in Kinds, threshold \in Thresholds :
       Create(c, k, kind, threshold)
  \/ \E k \in Checks : Look(c, k)
  \/ \E threshold \in Thresholds : UpdateReads(c, threshold)
  \/ UpdateWrites(c)
  \/ ConfirmReads(c)
  \/ ConfirmNumbers(c)
  \/ ConfirmInserts(c)
  \/ ConfirmFails(c)
  \/ DiscardReads(c)
  \/ DiscardsDraft(c)
  \/ DeletesCheck(c)
  \/ DeleteRefused(c)

EvaluatorStep(e) ==
  \/ \E target \in Checks \cup {Everything}, asOf \in Days : Lock(e, target, asOf)
  \/ ReadPolicy(e)
  \/ SkipNoPolicy(e)
  \/ ReadSnapshot(e)
  \/ SkipNoSnapshot(e)
  \/ SkipZeroValue(e)
  \/ Complete(e)

Next ==
  \/ \E c \in Clients : ClientStep(c)
  \/ \E e \in Evaluators : EvaluatorStep(e)
  \/ \E target \in Targets \cup {Unlisted} : PublishPolicy(target)
  \/ \E snapshot \in Snapshot : ConfirmSnapshot(snapshot)

Spec == Init /\ [][Next]_vars

-------------------------------------------------------------------------------
(* Properties *)

Run == [status : {"completed", "skipped_no_published_policy",
                  "skipped_no_portfolio_snapshot", "skipped_zero_total_value"},
        asOf : Days, policy : 0..MaxInputs, snapshot : 0..MaxInputs,
        versions : SUBSET DOMAIN confirmed]

Event == [run : 1..MaxRuns, version : DOMAIN confirmed, policy : 1..MaxInputs,
          snapshot : 1..MaxInputs, asOf : Days]

TypeOK ==
  /\ check \in [Checks -> Check]
  /\ draft \in [Checks -> Draft \cup {NoDraft}]
  /\ confirmed \in Seq(Version)
  /\ policies \in Seq(Targets \cup {Unlisted})
  /\ snapshots \in Seq(Snapshot)
  /\ \A i \in DOMAIN runs : runs[i] \in Run
  /\ events \subseteq Event
  /\ client \in [Clients -> Request]
  /\ locked \in Evaluators \cup {NoOne}

\* However requests to confirm overlap, the versions of a check are numbered
\* without a gap and no number is given twice.
VersionsNumbered ==
  \A k \in Checks : Numbers(k) = 1..Cardinality(VersionsOf(k))

\* No draft and no version is left without its check, and a check is not left with
\* neither, although discarding looks for versions before it deletes.
ChecksHaveContent ==
  \A k \in Checks :
    /\ Exists(k) <=> (HasDraft(k) \/ VersionsOf(k) # {})
    /\ check[k].status = "confirmed" => VersionsOf(k) # {}

\* A check, its draft and its versions agree while editors, confirmations and discards
\* meet that take no lock.
ChecksAgree ==
  /\ TypeOK
  /\ VersionsNumbered
  /\ ChecksHaveContent

\* For every version a run evaluated there is one event of its breach, found by
\* this run or an earlier one, if and only if the inputs exceed the threshold.
BreachesRecordedOnce ==
  \A i \in DOMAIN runs : \A v \in runs[i].versions :
    LET ofThisBreach == {event \in events :
          /\ event.version = v
          /\ event.snapshot = runs[i].snapshot
          /\ IF confirmed[v].kind = "staleness" THEN event.asOf = runs[i].asOf
                                                ELSE event.policy = runs[i].policy}
        exceeded == Exceeded(confirmed[v], policies[runs[i].policy],
                             snapshots[runs[i].snapshot], runs[i].asOf)
    IN Cardinality(ofThisBreach) = IF exceeded THEN 1 ELSE 0

\* A run never looks at an older policy, or an older snapshot, than a run that was
\* recorded before it: the lock orders the reads like the commits.
RunsMoveForward ==
  \A i, j \in DOMAIN runs :
    i < j /\ runs[i].status = "completed" =>
      /\ runs[j].status # "skipped_no_published_policy"
      /\ runs[j].status = "completed" =>
           runs[i].policy <= runs[j].policy /\ runs[i].snapshot <= runs[j].snapshot

\* test_update_revision_conflict: an update with a revision that is no longer that
\* of the draft is a conflict.  The update that was checked before another one
\* wrote is not refused.
StaleEditRefused ==
  [][\A c \in Clients :
       LET k == client[c].check
       IN UpdateWrites(c) /\ HasDraft(k) => client[c].row.revision = draft[k].revision]_vars
===============================================================================
