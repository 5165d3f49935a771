--------------------------- MODULE CommitteeSessions ---------------------------
(***************************************************************************)
(* Sessions of the investment committee (routers/committee.py,              *)
(* services/committee_orchestration.py, migration 0012): a preview collects *)
(* the evidence, a run sends it to a model provider and stores the report,  *)
(* and the owner records what he makes of it.                               *)
(*                                                                          *)
(* No request locks the session's row.  Each works with the status and the  *)
(* evidence it has read, across several commits and a call of up to two     *)
(* minutes, so that requests for one session overlap at every point.        *)
(*                                                                          *)
(* A component: ResearchPipeline composes it with the research runs that    *)
(* add their memo to the evidence of a session.                             *)
(***************************************************************************)
EXTENDS Integers

CONSTANTS
  Clients,      \* pages of the owner
  Sessions,     \* identities of sessions
  Runs,         \* research runs: each has an identity for a session that it may open,
                \* and can add one item of evidence to a session
  NoSession,    \* stands for no session
  MaxRetries,   \* max_retries of run_committee
  MaxPreviews,  \* bound: previews that add to the evidence of a session
  MaxOutcomes   \* bound: outcomes recorded for a session

ASSUME NoSessionAssumption == NoSession \notin Sessions
ASSUME RunsAssumption == Runs \subseteq Sessions /\ Runs \cap Nat = {}
ASSUME CommitteeBoundsAssumption ==
  MaxRetries \in Nat /\ MaxPreviews \in Nat /\ MaxOutcomes \in Nat

VARIABLES
  committee,    \* rows of committee_sessions with evidence, report, outcomes
  request       \* the request each client is in, and what it has read

committeeVars == <<committee, request>>

-------------------------------------------------------------------------------
\* "none": there is no such row yet.
Status == {"none", "draft", "queued", "running", "completed", "failed"}

\* What one preview adds is one item here; so is the memo of a run.
Items == (1..MaxPreviews) \cup Runs

\* report: the evidence the stored report was made from, {} if there is none.
SessionRow == [status : Status, evidence : SUBSET Items, report : SUBSET Items,
               outcomes : 0..MaxOutcomes]
NoRow == [status |-> "none", evidence |-> {}, report |-> {}, outcomes |-> 0]

\* idle; between the check of the status and what follows it, in a preview, a run
\* or an outcome; and on in a run: evidence read, queued, provider called, answered.
Request == [at : {"idle", "previewing", "checked", "read", "queued", "calling",
                  "answered", "recording"},
            session : Sessions \cup {NoSession},
            evidence : SUBSET Items,
            attempt : 0..MaxRetries]
IdleRequest == [at |-> "idle", session |-> NoSession, evidence |-> {}, attempt |-> 0]

At(c, place) == request[c].at = place
SessionOf(c) == request[c].session
HasReport(s) == committee[s].report # {}

CommitteeInit ==
  /\ committee = [s \in Sessions |-> NoRow]
  /\ request = [c \in Clients |-> IdleRequest]

\* Steps of a request: on to the next place, or over.
Enters(c, s, place) ==
  /\ At(c, "idle")
  /\ request' = [request EXCEPT ![c] = [IdleRequest EXCEPT !.at = place, !.session = s]]
GoesOn(c, from, to) == At(c, from) /\ request' = [request EXCEPT ![c].at = to]
Ends(c, from)       == At(c, from) /\ request' = [request EXCEPT ![c] = IdleRequest]

SetStatus(s, status) == committee' = [committee EXCEPT ![s].status = status]

-------------------------------------------------------------------------------
(* Draft and preview *)

\* create_committee_session.
CreateSession(s) ==
  /\ s \notin Runs
  /\ committee[s].status = "none"
  /\ SetStatus(s, "draft")
  /\ UNCHANGED request

\* The route looks at the status ...
PreviewChecks(c, s) ==
  /\ committee[s].status = "draft"
  /\ Enters(c, s, "previewing")
  /\ UNCHANGED committee

\* ... and the items of this preview are committed, whatever the status is by now.
PreviewCommits(c) ==
  LET s == SessionOf(c)
  IN  /\ Ends(c, "previewing")
      /\ \E n \in 1..MaxPreviews :
           /\ n \notin committee[s].evidence /\ 1..n - 1 \subseteq committee[s].evidence
           /\ committee' = [committee EXCEPT ![s].evidence = @ \cup {n}]

\* Nothing to show, or an exception.
PreviewFails(c) == Ends(c, "previewing") /\ UNCHANGED committee

-------------------------------------------------------------------------------
(* A run *)

\* The route looks at the status ...
RunChecks(c, s) ==
  /\ committee[s].status = "draft"
  /\ Enters(c, s, "checked")
  /\ UNCHANGED committee

\* ... then reads the evidence, which the session object keeps from here on ...
RunReads(c) ==
  /\ At(c, "checked")
  /\ committee[SessionOf(c)].evidence # {}
  /\ request' = [request EXCEPT ![c].at = "read",
                                ![c].evidence = committee[SessionOf(c)].evidence]
  /\ UNCHANGED committee

RunRefused(c) ==
  /\ Ends(c, "checked")
  /\ committee[SessionOf(c)].evidence = {}
  /\ UNCHANGED committee

\* ... and commits the new status over whatever another run has written.
RunQueues(c) ==
  /\ GoesOn(c, "read", "queued")
  /\ SetStatus(SessionOf(c), "queued")

\* orch.run_committee asks for 'queued' of the object it was given.
RunStarts(c) ==
  /\ GoesOn(c, "queued", "calling")
  /\ SetStatus(SessionOf(c), "running")

\* _call_with_retry: a time-out, 429 or 5xx is tried again ...
ProviderRetried(c) ==
  /\ At(c, "calling")
  /\ request[c].attempt < MaxRetries
  /\ request' = [request EXCEPT ![c].attempt = @ + 1]
  /\ UNCHANGED committee

\* ... until the last attempt; any other error is raised at once.  Neither is caught
\* where the status could be set: the session stays running.
ProviderGivesUp(c) == Ends(c, "calling") /\ UNCHANGED committee

ProviderAnswers(c) == GoesOn(c, "calling", "answered") /\ UNCHANGED committee

\* _fail_session: the payload exceeds the budget, or the answer is not acceptable.
SessionFails(c) ==
  /\ Ends(c, "calling") \/ Ends(c, "answered")
  /\ SetStatus(SessionOf(c), "failed")

\* Mutant: nothing makes the report of a session unique.
ReportUnique_Not(s) == TRUE

\* uq_committee_reports_session.
ReportUnique(s) == ~HasReport(s)

\* _persist_report and the status, in one commit.
ReportStored(c) ==
  LET s == SessionOf(c)
  IN  /\ Ends(c, "answered")
      /\ ReportUnique(s)
      /\ committee' = [committee EXCEPT ![s].report = request[c].evidence,
                                        ![s].status = "completed"]

\* The second report of a session violates the unique constraint.
ReportRefused(c) ==
  /\ Ends(c, "answered")
  /\ ~ReportUnique(SessionOf(c))
  /\ UNCHANGED committee

-------------------------------------------------------------------------------
(* Outcomes *)

\* Mutant: an outcome is taken for any session.
OutcomeChecks_AnyStatus(c, s) ==
  /\ committee[s].status # "none"
  /\ Enters(c, s, "recording")
  /\ UNCHANGED committee

\* The route asks for a completed session and its report ...
OutcomeChecks(c, s) ==
  /\ committee[s].status = "completed"
  /\ HasReport(s)
  /\ Enters(c, s, "recording")
  /\ UNCHANGED committee

\* ... and record_outcome appends, whatever the status is by now.
OutcomeRecorded(c) ==
  LET s == SessionOf(c)
  IN  /\ Ends(c, "recording")
      /\ committee[s].outcomes < MaxOutcomes
      /\ committee' = [committee EXCEPT ![s].outcomes = @ + 1]

-------------------------------------------------------------------------------
OnSession(c, s) == PreviewChecks(c, s) \/ RunChecks(c, s) \/ OutcomeChecks(c, s)

Proceeds(c) ==
  \/ PreviewCommits(c) \/ PreviewFails(c)
  \/ RunReads(c) \/ RunRefused(c) \/ RunQueues(c) \/ RunStarts(c)
  \/ ProviderRetried(c) \/ ProviderGivesUp(c) \/ ProviderAnswers(c)
  \/ SessionFails(c) \/ ReportStored(c) \/ ReportRefused(c)
  \/ OutcomeRecorded(c)

CommitteeStep ==
  \/ \E s \in Sessions : CreateSession(s)
  \/ \E c \in Clients, s \in Sessions : OnSession(c, s)
  \/ \E c \in Clients : Proceeds(c)

-------------------------------------------------------------------------------
(* Properties *)

CommitteeTypeOK ==
  /\ committee \in [Sessions -> SessionRow]
  /\ request \in [Clients -> Request]

\* Status, report, evidence and outcomes of a session agree, however runs of the
\* same session overlap: completed means that there is a report, made from evidence
\* of that very session; a session with a report is never a draft again; outcomes
\* are only recorded of a report.
SessionsAgree ==
  \A s \in Sessions :
    /\ committee[s].status = "completed" => HasReport(s)
    /\ HasReport(s) => committee[s].status \notin {"none", "draft"}
    /\ committee[s].report \subseteq committee[s].evidence
    /\ committee[s].outcomes > 0 => HasReport(s)

\* A report never changes once it is there, although two runs of one session can
\* both get as far as an answer.
ReportIsFinal ==
  [][\A s \in Sessions : HasReport(s) => committee'[s].report = committee[s].report]_committeeVars

\* Documents say that a provider failure makes the session failed: one that is
\* queued or running has a request that is at it.
NoneLeftRunning ==
  \A s \in Sessions :
    committee[s].status \in {"queued", "running"} => \E c \in Clients : SessionOf(c) = s
===============================================================================
