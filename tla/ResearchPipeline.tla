--------------------------- MODULE ResearchPipeline ----------------------------
(***************************************************************************)
(* Research runs (services/pipeline_async.py, research_intelligence.py,     *)
(* llm_provider_runtime.py, dashboard_research.py): a background thread     *)
(* asks a model provider for several perspectives and a memo, hands the     *)
(* memo to a committee session and opens a decision draft.                  *)
(*                                                                          *)
(* The thread has one database session.  What it writes between two commits *)
(* is in tx, and an error of the database, even one whose exception is      *)
(* swallowed, makes every later statement up to the end of the transaction  *)
(* fail: tx.aborted.  The progress that pages poll is kept in the memory of *)
(* the process, the status of the run in the database.                      *)
(***************************************************************************)
EXTENDS CommitteeSessions

CONSTANT
  Perspectives  \* how many perspectives a memo rests on; 6 in the code

ASSUME PerspectivesAssumption == Perspectives \in Nat \ {0}

VARIABLES
  run,          \* rows of research_runs, with what is committed for them
  tracker,      \* PipelineProgressTracker: what pages are told
  thread        \* the background task of each run

researchVars == <<run, tracker, thread>>
vars == <<committeeVars, researchVars>>

-------------------------------------------------------------------------------
RunStatus == {"none", "pending", "collecting_evidence", "analyzing",
              "generating_memo", "completed", "failed"}
Progress == {"unknown", "pending", "collecting", "running", "scoring", "complete",
             "failed"}
Drafts   == {"none", "blank", "filled"}

\* analyses, memo: rows of perspective_analyses and of investment_memos; decision:
\* the decision draft opened for the run.
RunRow == [status : RunStatus, analyses : 0..Perspectives, memo : BOOLEAN,
           decision : Drafts]

\* Writes not committed yet: analyses, the session that gets the memo, the draft.
Transaction == [analyses : 0..Perspectives, session : Sessions \cup {NoSession},
                decision : Drafts, aborted : BOOLEAN]
NothingWritten == [analyses |-> 0, session |-> NoSession, decision |-> "none",
                   aborted |-> FALSE]

\* succeeded: perspectives that execute() counts as successful, asked: so far.
Thread == [at : {"none", "started", "collecting", "asking", "synthesizing", "memo",
                 "no-memo", "bridging", "linked", "drafted", "over"},
           asked : 0..Perspectives, succeeded : 0..Perspectives, tx : Transaction]
NoThread == [at |-> "none", asked |-> 0, succeeded |-> 0, tx |-> NothingWritten]

ThreadAt(r, place) == thread[r].at = place
Active(r) == thread[r].at \notin {"none", "over"}

Init ==
  /\ CommitteeInit
  /\ run = [r \in Runs |-> [status |-> "none", analyses |-> 0, memo |-> FALSE,
                            decision |-> "none"]]
  /\ tracker = [r \in Runs |-> "unknown"]
  /\ thread = [r \in Runs |-> NoThread]

\* The thread moves on with nothing pending.
Moves(r, to) == thread' = [thread EXCEPT ![r].at = to, ![r].tx = NothingWritten]

\* _set_run_status and its commit, the tracker, and the next place of the thread.
Reaches(r, status, progress, to) ==
  /\ run' = [run EXCEPT ![r].status = status]
  /\ tracker' = [tracker EXCEPT ![r] = progress]
  /\ Moves(r, to)

-------------------------------------------------------------------------------
\* start_research: idea, review request, research request and run are committed, the
\* tracker has an entry, and the task is scheduled for after the response.
StartResearch(r) ==
  /\ run[r].status = "none"
  /\ Reaches(r, "pending", "pending", "started")
  /\ UNCHANGED committeeVars

Collect(r) ==
  /\ ThreadAt(r, "started")
  /\ Reaches(r, "collecting_evidence", "collecting", "collecting")
  /\ UNCHANGED committeeVars

Analyze(r) ==
  /\ ThreadAt(r, "collecting")
  /\ Reaches(r, "analyzing", "running", "asking")
  /\ UNCHANGED committeeVars

\* One perspective has been asked for.
Asked(r, succeeded, tx) ==
  /\ ThreadAt(r, "asking")
  /\ thread[r].asked < Perspectives
  /\ thread' = [thread EXCEPT ![r].asked = @ + 1,
                              ![r].succeeded = @ + succeeded,
                              ![r].tx = tx]
  /\ UNCHANGED <<committeeVars, run, tracker>>

\* The answer is valid and its analysis inserted.
PerspectiveSucceeds(r) ==
  /\ ~thread[r].tx.aborted
  /\ Asked(r, 1, [thread[r].tx EXCEPT !.analyses = @ + 1])

\* Prompt, provider or validation refuse it, or the transaction is broken.
PerspectiveFails(r) == Asked(r, 0, thread[r].tx)

\* Mutant: a statement that failed counts as a success, since logging is fail-open.
PerspectiveBreaks_Unnoticed(r) == Asked(r, 1, [thread[r].tx EXCEPT !.aborted = TRUE])

\* The INSERT of the execution log or of the analysis fails.  The exception of the
\* log is swallowed, and the INSERT of the analysis then fails for it.
PerspectiveBreaks(r) == Asked(r, 0, [thread[r].tx EXCEPT !.aborted = TRUE])

\* Mutant: the thread waits for all perspectives to succeed.
PerspectivesEnd_AllSucceed(r) ==
  /\ ThreadAt(r, "asking")
  /\ thread[r].succeeded = Perspectives
  /\ run' = [run EXCEPT ![r].analyses =
       IF thread[r].tx.aborted THEN @ ELSE @ + thread[r].tx.analyses]
  /\ Moves(r, "synthesizing")
  /\ UNCHANGED <<committeeVars, tracker>>

\* The commit after the perspectives: of a broken transaction, a rollback.
PerspectivesEnd(r) ==
  /\ ThreadAt(r, "asking")
  /\ thread[r].asked = Perspectives
  /\ run' = [run EXCEPT ![r].analyses =
       IF thread[r].tx.aborted THEN @ ELSE @ + thread[r].tx.analyses]
  /\ Moves(r, "synthesizing")
  /\ UNCHANGED <<committeeVars, tracker>>

\* REQUIRED_PERSPECTIVES.
EnoughPerspectives(r) == thread[r].succeeded = Perspectives

\* A memo is generated, stored, committed.
MemoStored(r) ==
  /\ ThreadAt(r, "synthesizing")
  /\ EnoughPerspectives(r)
  /\ run' = [run EXCEPT ![r].memo = TRUE]
  /\ Moves(r, "memo")
  /\ UNCHANGED <<committeeVars, tracker>>

\* Not all perspectives succeeded, or the synthesis did not.
NoMemo(r) ==
  /\ ThreadAt(r, "synthesizing")
  /\ Moves(r, "no-memo")
  /\ UNCHANGED <<committeeVars, run, tracker>>

\* Memo or not, the status and the progress say so next.
MemoAnnounced(r) ==
  /\ ThreadAt(r, "memo")
  /\ Reaches(r, "generating_memo", "scoring", "bridging")
  /\ UNCHANGED committeeVars

\* generating_memo, then failed, with a commit each; nobody acts between the two.
NoMemoFails(r) ==
  /\ ThreadAt(r, "no-memo")
  /\ Reaches(r, "failed", "failed", "over")
  /\ UNCHANGED committeeVars

-------------------------------------------------------------------------------
(* To the committee and to the decision journal, in one transaction *)

\* complete_research: the latest draft session gets the memo, or if there is none a
\* new one.  Which draft is the latest is not modelled: it may be any.
LinkCommittee(r) ==
  LET drafts == {s \in Sessions : committee[s].status = "draft"}
  IN  /\ ThreadAt(r, "bridging")
      /\ \E s \in IF drafts # {} THEN drafts ELSE {r} :
           thread' = [thread EXCEPT ![r].at = "linked", ![r].tx.session = s]
      /\ UNCHANGED <<committeeVars, run, tracker>>

\* create_decision inserts a decision with a blank draft ...
OpenDraft(r) ==
  /\ ThreadAt(r, "linked")
  /\ thread' = [thread EXCEPT ![r].at = "drafted", ![r].tx.decision = "blank"]
  /\ UNCHANGED <<committeeVars, run, tracker>>

\* The commit makes the memo evidence of the session, which is inserted if it is the
\* run's own; UPDATE and INSERT of nothing, if the thread did not get as far as that.
CommitEvidence(r) ==
  /\ committee' = [s \in Sessions |->
       IF s # thread[r].tx.session THEN committee[s]
       ELSE [committee[s] EXCEPT !.status = IF @ = "none" THEN "draft" ELSE @,
                                 !.evidence = @ \cup {r}]]
  /\ UNCHANGED request

\* The end of a thread whose pending writes are committed with this status.
CommitsWith(r, status, decision, progress) ==
  /\ CommitEvidence(r)
  /\ run' = [run EXCEPT ![r].status = status, ![r].decision = decision]
  /\ tracker' = [tracker EXCEPT ![r] = progress]
  /\ Moves(r, "over")

\* ... that update_draft fills; evidence, decision and status are committed together.
Complete(r) ==
  /\ ThreadAt(r, "drafted")
  /\ CommitsWith(r, "completed", "filled", "complete")

-------------------------------------------------------------------------------
(* What can go wrong *)

\* An exception of the program, such as no credentials, no evidence, or a memo that is
\* too long for a draft: the handler writes 'failed' and commits, and with it whatever
\* the thread had written.
FailsCleanly(r) ==
  /\ \/ thread[r].at \in {"collecting", "linked", "drafted"}
     \/ ThreadAt(r, "asking") /\ thread[r].asked = 0
  /\ CommitsWith(r, "failed", thread[r].tx.decision, "failed")

\* An exception of the database: the handler's own UPDATE fails and is rolled back,
\* and the status stays what it was.  Among them the one of storing a memo after the
\* log entry of its synthesis failed.
FailsInDatabase(r) ==
  /\ Active(r)
  /\ tracker' = [tracker EXCEPT ![r] = "failed"]
  /\ Moves(r, "over")
  /\ UNCHANGED <<committeeVars, run>>

\* The API process dies: threads, requests and the tracker are gone, transactions are
\* rolled back, and nothing takes up the runs again.
Crash ==
  /\ request' = [c \in Clients |-> IdleRequest]
  /\ tracker' = [r \in Runs |-> "unknown"]
  /\ thread' = [r \in Runs |-> IF Active(r) THEN [NoThread EXCEPT !.at = "over"]
                                ELSE thread[r]]
  /\ UNCHANGED <<committee, run>>

-------------------------------------------------------------------------------
Works(r) ==
  \/ Collect(r) \/ Analyze(r)
  \/ PerspectiveSucceeds(r) \/ PerspectiveFails(r)
  \/ PerspectivesEnd(r) \/ MemoStored(r) \/ NoMemo(r)
  \/ MemoAnnounced(r) \/ NoMemoFails(r)
  \/ LinkCommittee(r) \/ OpenDraft(r) \/ Complete(r)

Breaks(r) == PerspectiveBreaks(r) \/ FailsCleanly(r) \/ FailsInDatabase(r)

Next ==
  \/ \E r \in Runs : StartResearch(r) \/ Works(r) \/ Breaks(r)
  \/ CommitteeStep /\ UNCHANGED researchVars
  \/ Crash

Spec == Init /\ [][Next]_vars

\* The thread runs on: calls of a provider end, by answer or by time-out.
FairSpec == Spec /\ \A r \in Runs : WF_vars(Works(r))

-------------------------------------------------------------------------------
(* Properties *)

TypeOK ==
  /\ CommitteeTypeOK
  /\ run \in [Runs -> RunRow]
  /\ tracker \in [Runs -> Progress]
  /\ thread \in [Runs -> Thread]

\* What is committed for a run agrees with its status and with what pages are told,
\* through swallowed errors, handlers that commit and crashes: a memo rests on all
\* perspectives, stored; completed means memo, evidence in one session and a filled
\* draft; no draft without a memo; and a page never sees the wrong end of a run.
ResearchAgrees ==
  /\ TypeOK
  /\ \A r \in Runs :
       /\ run[r].memo => run[r].analyses = Perspectives
       /\ run[r].decision # "none" => run[r].memo
       /\ run[r].status = "completed" <=> run[r].decision = "filled"
       /\ run[r].status = "completed" => \E s \in Sessions : r \in committee[s].evidence
       /\ \A s, t \in Sessions : r \in committee[s].evidence \cap committee[t].evidence => s = t
       /\ tracker[r] = "complete" => run[r].status = "completed"
       /\ tracker[r] = "failed" => run[r].status # "completed"

\* The thread of a run ends, whatever the providers and the database do.
ThreadsEnd == \A r \in Runs : Active(r) ~> ~Active(r)

\* execute_pipeline's docstring: the status is persisted on every transition; so what
\* pages see as failed is failed in the database.
FailureIsPersisted ==
  \A r \in Runs : tracker[r] = "failed" => run[r].status = "failed"
===============================================================================
