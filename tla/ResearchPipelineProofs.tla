------------------------ MODULE ResearchPipelineProofs -------------------------
(***************************************************************************)
(* Proofs about ResearchPipeline and the CommitteeSessions in it, for any   *)
(* clients, sessions, runs, retries and number of perspectives.             *)
(*                                                                          *)
(* A request knows evidence that its session had when it read it, and still *)
(* has, since evidence only grows; and a thread's pending writes agree with *)
(* what it has counted, since a statement that fails breaks the transaction *)
(* and is not counted.                                                      *)
(***************************************************************************)
EXTENDS ResearchPipeline, TLAPS

RowAgrees(row) ==
  /\ row.status = "completed" => row.report # {}
  /\ row.report # {} => row.status \notin {"none", "draft"}
  /\ row.report \subseteq row.evidence
  /\ row.outcomes > 0 => row.report # {}

\* What the request q of a client has read holds of the rows.
Knows(q, rows) ==
  /\ q.at # "idle" => q.session \in Sessions
  /\ q.at \in {"read", "queued", "calling", "answered"} =>
       q.evidence # {} /\ q.evidence \subseteq rows[q.session].evidence
  /\ q.at = "recording" => rows[q.session].report # {}

CommitteeInv ==
  /\ CommitteeTypeOK
  /\ SessionsAgree
  /\ \A c \in Clients : Knows(request[c], committee)

\* Evidence is only added, and a report stays.
Grow(old, new) ==
  \A s \in Sessions :
    /\ old[s].evidence \subseteq new[s].evidence
    /\ old[s].report # {} => new[s].report = old[s].report

-------------------------------------------------------------------------------
(* The committee *)

LEMMA SessionsAgreeIs == SessionsAgree <=> \A s \in Sessions : RowAgrees(committee[s])
BY DEF SessionsAgree, RowAgrees, HasReport

\* What was known is known.
LEMMA StillKnows ==
  ASSUME NEW q, NEW old, NEW new, Knows(q, old), Grow(old, new)
  PROVE  Knows(q, new)
<1>1. ASSUME q.at # "idle"
      PROVE  /\ old[q.session].evidence \subseteq new[q.session].evidence
             /\ old[q.session].report # {} => new[q.session].report # {}
  BY <1>1 DEF Knows, Grow
<1> QED BY <1>1 DEF Knows

\* A client's request moves on, and rows grow.
LEMMA RequestKeeps ==
  ASSUME CommitteeInv, NEW c \in Clients, NEW q \in Request,
         request' = [request EXCEPT ![c] = q] \/ UNCHANGED request,
         committee' \in [Sessions -> SessionRow], Grow(committee, committee'),
         \A s \in Sessions : RowAgrees(committee'[s]),
         UNCHANGED request \/ Knows(q, committee')
  PROVE  CommitteeInv'
<1>1. CommitteeTypeOK'  BY DEF CommitteeInv, CommitteeTypeOK
<1>2. SessionsAgree'  BY DEF SessionsAgree, RowAgrees, HasReport
<1>3. ASSUME NEW x \in Clients PROVE Knows(request'[x], committee')
  <2>1. Knows(request[x], committee)  BY DEF CommitteeInv
  <2>2. Knows(request[x], committee')  BY <2>1, StillKnows
  <2>3. UNCHANGED request \/ request'[x] = IF x = c THEN q ELSE request[x]
    BY DEF CommitteeInv, CommitteeTypeOK
  <2> QED BY <2>2, <2>3
<1> QED BY <1>1, <1>2, <1>3 DEF CommitteeInv

\* One row is changed.
LEMMA RowKeeps ==
  ASSUME CommitteeInv, NEW c \in Clients, NEW q \in Request,
         request' = [request EXCEPT ![c] = q] \/ UNCHANGED request,
         NEW s \in Sessions, NEW row \in SessionRow,
         committee' = [committee EXCEPT ![s] = row], RowAgrees(row),
         committee[s].evidence \subseteq row.evidence,
         HasReport(s) => row.report = committee[s].report,
         UNCHANGED request \/ Knows(q, committee')
  PROVE  CommitteeInv' /\ Grow(committee, committee')
<1>1. CommitteeTypeOK /\ \A x \in Sessions : RowAgrees(committee[x])
  BY SessionsAgreeIs DEF CommitteeInv
<1>2. committee' \in [Sessions -> SessionRow]  BY <1>1 DEF CommitteeTypeOK
<1>3. \A x \in Sessions : committee'[x] = IF x = s THEN row ELSE committee[x]
  BY <1>1 DEF CommitteeTypeOK
<1>4. Grow(committee, committee')  BY <1>3 DEF Grow, HasReport
<1>5. \A x \in Sessions : RowAgrees(committee'[x])  BY <1>1, <1>3
<1> QED BY <1>2, <1>4, <1>5, RequestKeeps

LEMMA IdleKnows == IdleRequest \in Request /\ \A rows : Knows(IdleRequest, rows)
<1>1. 0 \in 0..MaxRetries  BY CommitteeBoundsAssumption
<1>2. IdleRequest.at = "idle" /\ IdleRequest \in Request  BY <1>1 DEF IdleRequest, Request
<1> QED BY <1>2 DEF Knows

\* The status of a session is written, by a request that goes on or ends.
LEMMA StatusKeeps ==
  ASSUME CommitteeInv, NEW c \in Clients, NEW q \in Request,
         request' = [request EXCEPT ![c] = q],
         NEW s \in Sessions, NEW status \in {"queued", "running", "failed"},
         SetStatus(s, status),
         Knows(q, committee)
  PROVE  CommitteeInv' /\ Grow(committee, committee')
<1>1. CommitteeTypeOK /\ RowAgrees(committee[s]) /\ committee[s] \in SessionRow
  BY SessionsAgreeIs DEF CommitteeInv, CommitteeTypeOK
<1> DEFINE row == [committee[s] EXCEPT !.status = status]
<1>2. /\ row \in SessionRow /\ row.status = status /\ row.evidence = committee[s].evidence
      /\ row.report = committee[s].report /\ row.outcomes = committee[s].outcomes
  BY <1>1 DEF SessionRow, Status
<1>3. committee' = [committee EXCEPT ![s] = row]  BY DEF SetStatus
<1> HIDE DEF row
<1>4. RowAgrees(row)  BY <1>1, <1>2 DEF RowAgrees
<1>5. Grow(committee, committee')
  <2>1. \A x \in Sessions : committee'[x] = IF x = s THEN row ELSE committee[x]
    BY <1>1, <1>3 DEF CommitteeTypeOK
  <2> QED BY <1>2, <2>1 DEF Grow
<1>6. Knows(q, committee')  BY <1>5, StillKnows
<1> QED BY <1>2, <1>3, <1>4, <1>5, <1>6, RowKeeps

\* No row changes.
LEMMA NoRowKeeps ==
  ASSUME CommitteeInv, NEW c \in Clients, NEW q \in Request,
         request' = [request EXCEPT ![c] = q], UNCHANGED committee, Knows(q, committee)
  PROVE  CommitteeInv' /\ Grow(committee, committee')
<1>1. /\ CommitteeTypeOK /\ \A x \in Sessions : RowAgrees(committee[x])
      /\ Grow(committee, committee')
  BY SessionsAgreeIs DEF CommitteeInv, Grow
<1> QED BY <1>1, RequestKeeps DEF CommitteeTypeOK

LEMMA CommitteeKeeps ==
  ASSUME CommitteeInv, CommitteeStep
  PROVE  CommitteeInv' /\ Grow(committee, committee')
<1>0. /\ CommitteeTypeOK
      /\ \A s \in Sessions : committee[s] \in SessionRow /\ RowAgrees(committee[s])
      /\ \A c \in Clients : request[c] \in Request /\ Knows(request[c], committee)
  BY SessionsAgreeIs DEF CommitteeInv, CommitteeTypeOK
<1>1. ASSUME NEW s \in Sessions, CreateSession(s)
      PROVE  CommitteeInv' /\ Grow(committee, committee')
  <2> DEFINE row == [committee[s] EXCEPT !.status = "draft"]
  <2>1. /\ row \in SessionRow /\ row.status = "draft" /\ row.evidence = committee[s].evidence
        /\ row.report = committee[s].report /\ row.outcomes = committee[s].outcomes
    BY <1>0 DEF SessionRow, Status
  <2>2. committee' = [committee EXCEPT ![s] = row] /\ UNCHANGED request
        /\ committee[s].status = "none"
    BY <1>1 DEF CreateSession, SetStatus
  <2> HIDE DEF row
  <2>3. RowAgrees(row)  BY <1>0, <2>1, <2>2 DEF RowAgrees
  <2>4. \A x \in Sessions : committee'[x] = IF x = s THEN row ELSE committee[x]
    BY <1>0, <2>2 DEF CommitteeTypeOK
  <2>5. CommitteeTypeOK' /\ \A x \in Sessions : RowAgrees(committee'[x])
    BY <1>0, <2>1, <2>2, <2>3, <2>4 DEF CommitteeTypeOK
  <2>6. Grow(committee, committee')  BY <2>1, <2>4 DEF Grow
  <2>7. \A c \in Clients : Knows(request'[c], committee')  BY <1>0, <2>2, <2>6, StillKnows
  <2>8. SessionsAgree'  BY <2>5 DEF SessionsAgree, RowAgrees, HasReport
  <2> QED BY <2>5, <2>6, <2>7, <2>8 DEF CommitteeInv
<1>2. ASSUME NEW c \in Clients, NEW s \in Sessions, OnSession(c, s)
      PROVE  CommitteeInv' /\ Grow(committee, committee')
  <2>1. PICK place \in {"previewing", "checked", "recording"} :
          /\ Enters(c, s, place) /\ UNCHANGED committee
          /\ place = "recording" => HasReport(s)
    BY <1>2 DEF OnSession, PreviewChecks, RunChecks, OutcomeChecks
  <2> DEFINE q == [IdleRequest EXCEPT !.at = place, !.session = s]
  <2>2. q \in Request /\ q.at = place /\ q.session = s
    BY IdleKnows DEF Request
  <2>3. request' = [request EXCEPT ![c] = q]  BY <2>1 DEF Enters
  <2> HIDE DEF q
  <2>4. Knows(q, committee)  BY <2>1, <2>2 DEF Knows, HasReport
  <2> QED BY <2>1, <2>2, <2>3, <2>4, NoRowKeeps
<1>3. ASSUME NEW c \in Clients, Proceeds(c)
      PROVE  CommitteeInv' /\ Grow(committee, committee')
  <2> DEFINE q == request[c]
             s == SessionOf(c)
  <2>1. q \in Request /\ Knows(q, committee) /\ s = q.session  BY <1>0 DEF SessionOf
  <2>2. ASSUME NEW place, place # "idle", At(c, place)
        PROVE  s \in Sessions /\ q.at = place
    BY <2>1, <2>2 DEF Knows, At
  <2>3. ASSUME NEW from, Ends(c, from), UNCHANGED committee
        PROVE  CommitteeInv' /\ Grow(committee, committee')
    BY <2>3, IdleKnows, NoRowKeeps DEF Ends
  <2>4. ASSUME NEW from \in {"read", "queued", "calling"}, NEW to \in {"queued", "calling", "answered"},
               GoesOn(c, from, to)
        PROVE  LET moved == [q EXCEPT !.at = to]
               IN  /\ moved \in Request /\ Knows(moved, committee)
                   /\ request' = [request EXCEPT ![c] = moved]
                   /\ s \in Sessions
    <3> DEFINE moved == [q EXCEPT !.at = to]
    <3>1. request' = [request EXCEPT ![c] = moved] /\ At(c, from)
      BY <2>4 DEF GoesOn
    <3>2. /\ moved \in Request /\ moved.at = to /\ moved.session = q.session
          /\ moved.evidence = q.evidence
      BY <2>1 DEF Request
    <3>3. q.at = from /\ s \in Sessions  BY <2>2, <3>1
    <3> HIDE DEF moved
    <3>4. Knows(moved, committee)  BY <2>1, <3>2, <3>3 DEF Knows
    <3> QED BY <3>1, <3>2, <3>3, <3>4 DEF moved
  <2>5. CASE PreviewCommits(c)
    <3>1. PICK n \in 1..MaxPreviews :
            committee' = [committee EXCEPT ![s].evidence = @ \cup {n}]
      BY <2>5 DEF PreviewCommits
    <3>2. s \in Sessions /\ request' = [request EXCEPT ![c] = IdleRequest]
      BY <2>2, <2>5 DEF PreviewCommits, Ends
    <3> DEFINE row == [committee[s] EXCEPT !.evidence = @ \cup {n}]
    <3>3. committee[s].evidence \cup {n} \in SUBSET Items
      BY <1>0, <3>2 DEF SessionRow, Items
    <3>4. /\ row \in SessionRow /\ row.evidence = committee[s].evidence \cup {n}
          /\ row.status = committee[s].status /\ row.report = committee[s].report
          /\ row.outcomes = committee[s].outcomes
      BY <1>0, <3>2, <3>3 DEF SessionRow
    <3>5. committee' = [committee EXCEPT ![s] = row]  BY <1>0, <3>1, <3>2 DEF CommitteeTypeOK
    <3> HIDE DEF row, s
    <3>6. RowAgrees(row)  BY <1>0, <3>2, <3>4 DEF RowAgrees
    <3> QED BY <3>2, <3>4, <3>5, <3>6, IdleKnows, RowKeeps
  <2>6. CASE PreviewFails(c) \/ RunRefused(c) \/ ProviderGivesUp(c) \/ ReportRefused(c)
    BY <2>3, <2>6 DEF PreviewFails, RunRefused, ProviderGivesUp, ReportRefused
  <2>7. CASE RunReads(c)
    <3> DEFINE read == [q EXCEPT !.at = "read", !.evidence = committee[s].evidence]
    <3>1. s \in Sessions /\ committee[s].evidence # {} /\ UNCHANGED committee
      BY <2>2, <2>7 DEF RunReads
    <3>2. read \in Request /\ read.at = "read" /\ read.session = s
          /\ read.evidence = committee[s].evidence
      BY <1>0, <2>1, <3>1 DEF Request, SessionRow
    <3>3. request' = [request EXCEPT ![c] = read]
      BY <1>0, <2>7 DEF RunReads, CommitteeTypeOK
    <3> HIDE DEF read, s
    <3>4. Knows(read, committee)  BY <3>1, <3>2 DEF Knows
    <3> QED BY <3>1, <3>2, <3>3, <3>4, NoRowKeeps
  <2>8. CASE RunQueues(c)
    BY <2>4, <2>8, StatusKeeps DEF RunQueues
  <2>9. CASE RunStarts(c)
    BY <2>4, <2>9, StatusKeeps DEF RunStarts
  <2>10. CASE ProviderRetried(c)
    <3> DEFINE again == [q EXCEPT !.attempt = @ + 1]
    <3>1. q.attempt + 1 \in 0..MaxRetries
      BY <2>1, <2>10, CommitteeBoundsAssumption DEF ProviderRetried, Request
    <3>2. /\ again \in Request /\ again.at = q.at /\ again.session = q.session
          /\ again.evidence = q.evidence
      BY <2>1, <3>1 DEF Request
    <3>3. request' = [request EXCEPT ![c] = again] /\ UNCHANGED committee
      BY <1>0, <2>10 DEF ProviderRetried, CommitteeTypeOK
    <3> HIDE DEF again
    <3>4. Knows(again, committee)  BY <2>1, <3>2 DEF Knows
    <3> QED BY <3>2, <3>3, <3>4, NoRowKeeps
  <2>11. CASE ProviderAnswers(c)
    BY <2>4, <2>11, NoRowKeeps DEF ProviderAnswers
  <2>12. CASE SessionFails(c)
    <3>1. PICK from \in {"calling", "answered"} : Ends(c, from)
      BY <2>12 DEF SessionFails
    <3>2. s \in Sessions /\ request' = [request EXCEPT ![c] = IdleRequest]
      BY <2>2, <3>1 DEF Ends
    <3> QED BY <2>12, <3>2, IdleKnows, StatusKeeps DEF SessionFails
  <2>13. CASE ReportStored(c)
    <3> DEFINE row == [committee[s] EXCEPT !.report = q.evidence, !.status = "completed"]
    <3>1. /\ s \in Sessions /\ request' = [request EXCEPT ![c] = IdleRequest]
          /\ q.at = "answered"
      BY <2>2, <2>13 DEF ReportStored, Ends
    <3>2. /\ row \in SessionRow /\ row.evidence = committee[s].evidence
          /\ row.status = "completed" /\ row.report = q.evidence
          /\ row.outcomes = committee[s].outcomes
      BY <1>0, <2>1, <3>1 DEF SessionRow, Status, Request
    <3>3. committee' = [committee EXCEPT ![s] = row] /\ committee[s].report = {}
      BY <1>0, <2>13 DEF ReportStored, CommitteeTypeOK, ReportUnique, HasReport
    <3>4. q.evidence # {} /\ q.evidence \subseteq committee[s].evidence
      BY <2>1, <3>1 DEF Knows
    <3> HIDE DEF row, s
    <3>5. RowAgrees(row)  BY <1>0, <3>2, <3>4 DEF RowAgrees
    <3> QED BY <3>1, <3>2, <3>3, <3>5, IdleKnows, RowKeeps DEF HasReport
  <2>14. CASE OutcomeRecorded(c)
    <3> DEFINE row == [committee[s] EXCEPT !.outcomes = @ + 1]
    <3>1. /\ s \in Sessions /\ request' = [request EXCEPT ![c] = IdleRequest]
          /\ q.at = "recording" /\ committee[s].outcomes < MaxOutcomes
      BY <2>2, <2>14 DEF OutcomeRecorded, Ends
    <3>2. committee[s].outcomes + 1 \in 0..MaxOutcomes
      BY <1>0, <3>1, CommitteeBoundsAssumption DEF SessionRow
    <3>3. /\ row \in SessionRow /\ row.evidence = committee[s].evidence
          /\ row.status = committee[s].status /\ row.report = committee[s].report
      BY <1>0, <3>1, <3>2 DEF SessionRow
    <3>4. committee' = [committee EXCEPT ![s] = row]
      BY <1>0, <2>14 DEF OutcomeRecorded, CommitteeTypeOK
    <3>5. committee[s].report # {}  BY <2>1, <3>1 DEF Knows
    <3> HIDE DEF row, s
    <3>6. RowAgrees(row)  BY <1>0, <3>1, <3>3, <3>5 DEF RowAgrees
    <3> QED BY <3>1, <3>3, <3>4, <3>6, IdleKnows, RowKeeps
  <2> QED BY <1>3, <2>5, <2>6, <2>7, <2>8, <2>9, <2>10, <2>11, <2>12, <2>13, <2>14 DEF Proceeds
<1> QED BY <1>1, <1>2, <1>3 DEF CommitteeStep

\* The committee's own steps add no memo to the evidence: what a preview adds is a number.
LEMMA CommitteeAddsNoMemo ==
  ASSUME CommitteeTypeOK, CommitteeStep, NEW r \in Runs, NEW s \in Sessions
  PROVE  r \in committee'[s].evidence <=> r \in committee[s].evidence
<1>0. \A x \in Sessions : committee[x] \in SessionRow  BY DEF CommitteeTypeOK
<1>1. ASSUME NEW x, NEW status, SetStatus(x, status)
      PROVE  committee'[s].evidence = committee[s].evidence
  BY <1>0, <1>1 DEF SetStatus, CommitteeTypeOK, SessionRow
<1>2. ASSUME NEW c \in Clients, PreviewCommits(c)
      PROVE  r \in committee'[s].evidence <=> r \in committee[s].evidence
  <2>1. PICK n \in 1..MaxPreviews :
          committee' = [committee EXCEPT ![SessionOf(c)].evidence = @ \cup {n}]
    BY <1>2 DEF PreviewCommits
  <2>2. n # r  BY RunsAssumption, <2>1
  <2>3. committee'[s].evidence \in {committee[s].evidence, committee[s].evidence \cup {n}}
    BY <1>0, <2>1 DEF CommitteeTypeOK, SessionRow
  <2> QED BY <2>2, <2>3
<1>3. ASSUME NEW c \in Clients, ReportStored(c) \/ OutcomeRecorded(c)
      PROVE  committee'[s].evidence = committee[s].evidence
  BY <1>0, <1>3 DEF ReportStored, OutcomeRecorded, CommitteeTypeOK, SessionRow
<1>4. ASSUME NEW x \in Sessions, CreateSession(x)
      PROVE  committee'[s].evidence = committee[s].evidence
  BY <1>1, <1>4 DEF CreateSession
<1>5. ASSUME NEW c \in Clients, NEW x \in Sessions, OnSession(c, x)
      PROVE  committee' = committee
  BY <1>5 DEF OnSession, PreviewChecks, RunChecks, OutcomeChecks
<1>6. ASSUME NEW c \in Clients, Proceeds(c)
      PROVE  r \in committee'[s].evidence <=> r \in committee[s].evidence
  <2>1. CASE RunQueues(c) \/ RunStarts(c) \/ SessionFails(c)
    BY <1>1, <2>1 DEF RunQueues, RunStarts, SessionFails
  <2>2. CASE PreviewFails(c) \/ RunReads(c) \/ RunRefused(c) \/ ProviderRetried(c)
             \/ ProviderGivesUp(c) \/ ProviderAnswers(c) \/ ReportRefused(c)
    BY <2>2 DEF PreviewFails, RunReads, RunRefused, ProviderRetried, ProviderGivesUp,
                ProviderAnswers, ReportRefused
  <2> QED BY <1>2, <1>3, <1>6, <2>1, <2>2 DEF Proceeds
<1> QED BY <1>4, <1>5, <1>6 DEF CommitteeStep

\* The memo of r becomes evidence of the session x, or of none.
LEMMA EvidenceKeeps ==
  ASSUME CommitteeInv, NEW r \in Runs, CommitEvidence(r)
  PROVE  /\ CommitteeInv' /\ Grow(committee, committee')
         /\ \A s \in Sessions, q \in Runs :
              q \in committee'[s].evidence <=>
                q \in committee[s].evidence \/ (q = r /\ s = thread[r].tx.session)
<1>0. /\ CommitteeTypeOK
      /\ \A s \in Sessions : committee[s] \in SessionRow /\ RowAgrees(committee[s])
      /\ \A c \in Clients : Knows(request[c], committee)
  BY SessionsAgreeIs DEF CommitteeInv, CommitteeTypeOK
<1>1. ASSUME NEW s \in Sessions
      PROVE  /\ committee'[s] \in SessionRow /\ RowAgrees(committee'[s])
             /\ committee'[s].report = committee[s].report
             /\ committee'[s].evidence = IF s = thread[r].tx.session
                                         THEN committee[s].evidence \cup {r}
                                         ELSE committee[s].evidence
  <2>1. CASE s # thread[r].tx.session  BY <1>0, <2>1 DEF CommitEvidence
  <2>2. CASE s = thread[r].tx.session
    <3> DEFINE row == committee[s]
               new == [row EXCEPT !.status = IF @ = "none" THEN "draft" ELSE @,
                                  !.evidence = @ \cup {r}]
    <3>1. committee'[s] = new  BY <2>2 DEF CommitEvidence
    <3>2. row.evidence \cup {r} \in SUBSET Items  BY <1>0 DEF SessionRow, Items
    <3>3. /\ new \in SessionRow /\ new.report = row.report /\ new.outcomes = row.outcomes
          /\ new.evidence = row.evidence \cup {r}
          /\ new.status = IF row.status = "none" THEN "draft" ELSE row.status
      BY <1>0, <3>2 DEF SessionRow, Status
    <3> HIDE DEF new
    <3>4. RowAgrees(new)  BY <1>0, <3>3 DEF RowAgrees
    <3> QED BY <2>2, <3>1, <3>3, <3>4
  <2> QED BY <2>1, <2>2
<1>2. Grow(committee, committee')  BY <1>1 DEF Grow
<1>3. UNCHANGED request /\ \A c \in Clients : Knows(request[c], committee')
  BY <1>0, <1>2, StillKnows DEF CommitEvidence
<1>4. committee' = [s \in Sessions |-> committee'[s]]  BY DEF CommitEvidence
<1>5. committee' \in [Sessions -> SessionRow]  BY <1>1, <1>4
<1>6. CommitteeTypeOK' /\ SessionsAgree'
  BY <1>0, <1>1, <1>3, <1>5 DEF CommitteeTypeOK, SessionsAgree, RowAgrees, HasReport
<1> QED BY <1>1, <1>2, <1>3, <1>6 DEF CommitteeInv

-------------------------------------------------------------------------------
(* The research *)

\* The pending writes of a thread t are those of its place.
Pending(t) ==
  CASE t.at = "asking" ->
         /\ t.tx.session = NoSession /\ t.tx.decision = "none"
         /\ t.tx.analyses = t.succeeded /\ t.succeeded <= t.asked
         /\ t.tx.aborted => t.succeeded < t.asked
    [] t.at = "linked"  -> t.tx.session \in Sessions /\ t.tx.decision = "none"
    [] t.at = "drafted" -> t.tx.session \in Sessions /\ t.tx.decision = "blank"
    [] OTHER -> t.tx = NothingWritten

\* The row n of the run r, its thread t, its progress k and the committee's rows agree.
Committed(r, n, k, rows) ==
  /\ n.memo => n.analyses = Perspectives
  /\ n.decision # "none" => n.memo
  /\ n.status = "completed" <=> n.decision = "filled"
  /\ n.status = "completed" => \E s \in Sessions : r \in rows[s].evidence
  /\ \A s, t \in Sessions : r \in rows[s].evidence /\ r \in rows[t].evidence => s = t
  /\ k = "complete" => n.status = "completed"
  /\ k = "failed" => n.status # "completed"

Fits(r, n, t, k, rows) ==
  /\ Committed(r, n, k, rows)
  /\ n.status = "none" <=> t.at = "none"
  /\ t.at = "none" => t = NoThread
  /\ t.at \in {"none", "started", "collecting", "asking"} => n.analyses = 0
  /\ t.at \in {"started", "collecting"} => t.asked = 0 /\ t.succeeded = 0
  /\ t.at = "synthesizing" /\ t.succeeded = Perspectives => n.analyses = Perspectives
  /\ t.at \in {"memo", "bridging", "linked", "drafted"} => n.memo
  /\ Pending(t)
  /\ t.at # "over" => /\ n.decision = "none" /\ n.status # "completed"
                      /\ k \notin {"complete", "failed"}
                      /\ \A s \in Sessions : r \notin rows[s].evidence

IInv ==
  /\ CommitteeInv
  /\ run \in [Runs -> RunRow] /\ tracker \in [Runs -> Progress] /\ thread \in [Runs -> Thread]
  /\ \A r \in Runs : Fits(r, run[r], thread[r], tracker[r], committee)

LEMMA StillFits ==
  ASSUME NEW r, NEW n, NEW t, NEW k, NEW old, NEW new, Fits(r, n, t, k, old),
         \A s \in Sessions : r \in new[s].evidence <=> r \in old[s].evidence
  PROVE  Fits(r, n, t, k, new)
<1>1. Committed(r, n, k, new)  BY DEF Fits, Committed
<1> QED BY <1>1 DEF Fits

\* One run moves on.
LEMMA RunKeeps ==
  ASSUME IInv, CommitteeInv', NEW r \in Runs, NEW n \in RunRow, NEW t \in Thread,
         NEW k \in Progress,
         run' = [run EXCEPT ![r] = n], thread' = [thread EXCEPT ![r] = t],
         tracker' = [tracker EXCEPT ![r] = k], Fits(r, n, t, k, committee'),
         \A q \in Runs \ {r}, s \in Sessions :
           q \in committee'[s].evidence <=> q \in committee[s].evidence
  PROVE  IInv'
<1>1. /\ run' \in [Runs -> RunRow] /\ tracker' \in [Runs -> Progress]
      /\ thread' \in [Runs -> Thread]
  BY DEF IInv
<1>2. ASSUME NEW q \in Runs PROVE Fits(q, run'[q], thread'[q], tracker'[q], committee')
  <2>1. CASE q = r  BY <2>1 DEF IInv
  <2>2. CASE q # r
    <3>1. Fits(q, run[q], thread[q], tracker[q], committee)  BY DEF IInv
    <3>2. Fits(q, run[q], thread[q], tracker[q], committee')  BY <2>2, <3>1, StillFits
    <3> QED BY <2>2, <3>2 DEF IInv
  <2> QED BY <2>1, <2>2
<1> QED BY <1>1, <1>2 DEF IInv

\* One run moves on with nothing pending, and the committee knows nothing of it.
LEMMA ReachKeeps ==
  ASSUME IInv, NEW r \in Runs, UNCHANGED committeeVars,
         NEW n \in RunRow, NEW k \in Progress,
         NEW to \in {"started", "collecting", "asking", "synthesizing", "memo", "no-memo",
                     "bridging", "over"},
         run' = [run EXCEPT ![r] = n], tracker' = [tracker EXCEPT ![r] = k], Moves(r, to),
         thread[r].at # "over",
         n.status \notin {"none", "completed"}, n.decision = run[r].decision,
         n.memo => n.analyses = Perspectives,
         k # "complete",
         k = "failed" => to = "over",
         to \in {"started", "collecting", "asking"} =>
           n.analyses = 0 /\ thread[r].asked = 0 /\ thread[r].succeeded = 0,
         to = "synthesizing" /\ thread[r].succeeded = Perspectives => n.analyses = Perspectives,
         to \in {"memo", "bridging"} => n.memo
  PROVE  IInv'
<1> DEFINE t == [thread[r] EXCEPT !.at = to, !.tx = NothingWritten]
<1>0. Fits(r, run[r], thread[r], tracker[r], committee) /\ run[r] \in RunRow
      /\ thread[r] \in Thread
  BY DEF IInv
<1>1. n.decision = "none"  BY <1>0 DEF Fits
<1>2. NothingWritten \in Transaction
  BY PerspectivesAssumption DEF NothingWritten, Transaction, Drafts
<1>3. /\ t \in Thread /\ t.at = to /\ t.asked = thread[r].asked
      /\ t.succeeded = thread[r].succeeded /\ t.tx = NothingWritten
  BY <1>0, <1>2 DEF Thread
<1>4. CommitteeInv' /\ committee' = committee
  BY DEF IInv, CommitteeInv, CommitteeTypeOK, SessionsAgree, HasReport, committeeVars
<1>5. thread' = [thread EXCEPT ![r] = t]
  BY DEF Moves, IInv
<1> HIDE DEF t
<1>6. Committed(r, n, k, committee)
  BY <1>0, <1>1 DEF Fits, Committed
<1>7. Pending(t)
  BY <1>3, PerspectivesAssumption DEF Pending, NothingWritten
<1>8. Fits(r, n, t, k, committee')
  BY <1>0, <1>1, <1>3, <1>4, <1>6, <1>7 DEF Fits
<1> QED BY <1>3, <1>4, <1>5, <1>8, RunKeeps

\* The end of a thread that commits what it has written.
LEMMA CommitKeeps ==
  ASSUME IInv, NEW r \in Runs, NEW status \in RunStatus \ {"none"}, NEW decision \in Drafts,
         NEW k \in Progress, CommitsWith(r, status, decision, k), Active(r),
         decision # "none" => run[r].memo,
         status = "completed" <=> decision = "filled",
         status = "completed" => thread[r].tx.session \in Sessions,
         k = "complete" => status = "completed",
         k = "failed" => status # "completed"
  PROVE  IInv'
<1> DEFINE n == [run[r] EXCEPT !.status = status, !.decision = decision]
           t == [thread[r] EXCEPT !.at = "over", !.tx = NothingWritten]
<1>0. Fits(r, run[r], thread[r], tracker[r], committee) /\ run[r] \in RunRow
      /\ thread[r] \in Thread
  BY DEF IInv
<1>1. /\ n \in RunRow /\ n.status = status /\ n.decision = decision
      /\ n.analyses = run[r].analyses /\ n.memo = run[r].memo
  BY <1>0 DEF RunRow
<1>2. NothingWritten \in Transaction
  BY PerspectivesAssumption DEF NothingWritten, Transaction, Drafts
<1>3. t \in Thread /\ t.at = "over" /\ t.tx = NothingWritten
  BY <1>0, <1>2 DEF Thread
<1>4. /\ run' = [run EXCEPT ![r] = n] /\ thread' = [thread EXCEPT ![r] = t]
      /\ tracker' = [tracker EXCEPT ![r] = k]
  BY <1>0 DEF CommitsWith, Moves, IInv
<1>5. /\ CommitteeInv'
      /\ \A s \in Sessions, q \in Runs :
           q \in committee'[s].evidence <=>
             q \in committee[s].evidence \/ (q = r /\ s = thread[r].tx.session)
  BY EvidenceKeeps DEF CommitsWith, IInv
<1>6. \A s \in Sessions : r \notin committee[s].evidence
  BY <1>0 DEF Fits, Active
<1>7. \A s \in Sessions : r \in committee'[s].evidence <=> s = thread[r].tx.session
  BY <1>5, <1>6
<1> HIDE DEF n, t
<1>8. Committed(r, n, k, committee')
  <2>1. status = "completed" => \E s \in Sessions : r \in committee'[s].evidence
    BY <1>7
  <2>2. \A x, y \in Sessions :
          r \in committee'[x].evidence /\ r \in committee'[y].evidence => x = y
    BY <1>7
  <2>3. n.memo => n.analyses = Perspectives  BY <1>0, <1>1 DEF Fits, Committed
  <2> QED BY <1>1, <2>1, <2>2, <2>3 DEF Committed
<1>9. Fits(r, n, t, k, committee')
  <2>1. Pending(t)  BY <1>3 DEF Pending
  <2> QED BY <1>1, <1>3, <1>8, <2>1 DEF Fits
<1> QED BY <1>1, <1>3, <1>4, <1>5, <1>9, RunKeeps

\* The committee and the pages are as before; only the thread moves on.
LEMMA ThreadKeeps ==
  ASSUME IInv, NEW r \in Runs, NEW t \in Thread, thread' = [thread EXCEPT ![r] = t],
         UNCHANGED <<committeeVars, run, tracker>>, Active(r), Pending(t),
         \/ t.at = "asking" /\ thread[r].at = "asking"
         \/ t.at \in {"linked", "drafted"} /\ thread[r].at \in {"bridging", "linked"}
  PROVE  IInv'
<1>0. Fits(r, run[r], thread[r], tracker[r], committee) /\ run[r] \in RunRow
      /\ tracker[r] \in Progress
  BY DEF IInv
<1>1. CommitteeInv' /\ committee' = committee
  BY DEF IInv, CommitteeInv, CommitteeTypeOK, SessionsAgree, HasReport, committeeVars
<1>2. Fits(r, run[r], t, tracker[r], committee')
  BY <1>0, <1>1 DEF Fits, Active
<1>3. run' = [run EXCEPT ![r] = run[r]] /\ tracker' = [tracker EXCEPT ![r] = tracker[r]]
  BY DEF IInv
<1> QED BY <1>0, <1>1, <1>2, <1>3, RunKeeps

LEMMA AskedKeeps ==
  ASSUME IInv, NEW r \in Runs, NEW succeeded \in {0, 1}, NEW tx \in Transaction,
         Asked(r, succeeded, tx),
         tx.session = NoSession, tx.decision = "none",
         tx.analyses = thread[r].tx.analyses + succeeded,
         tx.aborted => succeeded = 0
  PROVE  IInv'
<1> DEFINE t == [thread[r] EXCEPT !.asked = @ + 1, !.succeeded = @ + succeeded, !.tx = tx]
<1>0. /\ thread[r] \in Thread /\ thread[r].at = "asking" /\ thread[r].asked < Perspectives
      /\ Pending(thread[r])
  BY DEF IInv, Asked, ThreadAt, Fits
<1>1. /\ thread[r].asked \in 0..Perspectives /\ thread[r].succeeded \in 0..Perspectives
      /\ thread[r].succeeded <= thread[r].asked
      /\ thread[r].tx.analyses = thread[r].succeeded
  BY <1>0 DEF Thread, Pending
<1>2. /\ thread[r].asked + 1 \in 0..Perspectives
      /\ thread[r].succeeded + succeeded \in 0..Perspectives
  BY <1>0, <1>1, PerspectivesAssumption
<1>3. /\ t \in Thread /\ t.at = "asking" /\ t.asked = thread[r].asked + 1
      /\ t.succeeded = thread[r].succeeded + succeeded /\ t.tx = tx
  BY <1>0, <1>2 DEF Thread
<1>4. thread' = [thread EXCEPT ![r] = t]  BY DEF Asked, IInv
<1> HIDE DEF t
<1>5. t.succeeded <= t.asked /\ (tx.aborted => t.succeeded < t.asked)
  BY <1>1, <1>3, PerspectivesAssumption
<1>6. Pending(t)  BY <1>1, <1>3, <1>5 DEF Pending
<1> QED BY <1>0, <1>3, <1>4, <1>6, ThreadKeeps DEF Asked, Active

\* Status and progress are announced, from one place to the next.
LEMMA ReachesKeeps ==
  ASSUME IInv, NEW r \in Runs, UNCHANGED committeeVars,
         NEW status \in RunStatus \ {"none", "completed"}, NEW k \in Progress \ {"complete"},
         NEW to \in {"started", "collecting", "asking", "bridging", "over"},
         Reaches(r, status, k, to),
         k = "failed" => to = "over",
         thread[r].at = CASE to = "started"    -> "none"
                          [] to = "collecting" -> "started"
                          [] to = "asking"     -> "collecting"
                          [] to = "bridging"   -> "memo"
                          [] to = "over"       -> "no-memo"
  PROVE  IInv'
<1> DEFINE n == [run[r] EXCEPT !.status = status]
<1>0. Fits(r, run[r], thread[r], tracker[r], committee) /\ run[r] \in RunRow
  BY DEF IInv
<1>1. /\ n \in RunRow /\ n.status = status /\ n.analyses = run[r].analyses
      /\ n.memo = run[r].memo /\ n.decision = run[r].decision
  BY <1>0 DEF RunRow
<1>2. /\ run' = [run EXCEPT ![r] = n] /\ tracker' = [tracker EXCEPT ![r] = k]
      /\ Moves(r, to)
  BY DEF Reaches, IInv
<1> HIDE DEF n
<1>3. n.memo => n.analyses = Perspectives  BY <1>0, <1>1 DEF Fits, Committed
<1>4. to \in {"started", "collecting", "asking"} =>
        n.analyses = 0 /\ thread[r].asked = 0 /\ thread[r].succeeded = 0
  BY <1>0, <1>1 DEF Fits, NoThread
<1>5. to \in {"memo", "bridging"} => n.memo  BY <1>0, <1>1 DEF Fits
<1>6. thread[r].at # "over"  OBVIOUS
<1> QED BY <1>1, <1>2, <1>3, <1>4, <1>5, <1>6, ReachKeeps

LEMMA WorksKeeps == ASSUME IInv, NEW r \in Runs, Works(r) \/ StartResearch(r) PROVE IInv'
<1>0. /\ Fits(r, run[r], thread[r], tracker[r], committee) /\ run[r] \in RunRow
      /\ thread[r] \in Thread /\ tracker[r] \in Progress
  BY DEF IInv
<1> DEFINE analyses == run[r].analyses
           memo == run[r].memo
<1>1. /\ analyses \in 0..Perspectives /\ memo \in BOOLEAN
      /\ memo => analyses = Perspectives
      /\ thread[r].at \notin {"none", "over"} =>
           run[r].status \notin {"none", "completed"} /\ tracker[r] \notin {"complete", "failed"}
  BY <1>0 DEF RunRow, Fits, Committed
<1>2. {"pending", "collecting_evidence", "analyzing", "generating_memo", "failed"}
         \subseteq RunStatus \ {"none", "completed"}
      /\ {"pending", "collecting", "running", "scoring", "failed"} \subseteq Progress \ {"complete"}
  BY DEF RunStatus, Progress
<1>3. CASE StartResearch(r)
  <2>1. thread[r].at = "none"  BY <1>0, <1>3 DEF StartResearch, Fits
  <2> QED BY <1>2, <1>3, <2>1, ReachesKeeps DEF StartResearch
<1>4. CASE Collect(r)
  BY <1>2, <1>4, ReachesKeeps DEF Collect, ThreadAt
<1>5. CASE Analyze(r)
  BY <1>2, <1>5, ReachesKeeps DEF Analyze, ThreadAt
<1>6. CASE PerspectiveSucceeds(r) \/ PerspectiveFails(r)
  <2> DEFINE tx == thread[r].tx
             more == [tx EXCEPT !.analyses = @ + 1]
  <2>1. /\ thread[r].at = "asking" /\ thread[r].asked < Perspectives /\ Pending(thread[r])
        /\ tx \in Transaction
    BY <1>0, <1>6 DEF PerspectiveSucceeds, PerspectiveFails, Asked, ThreadAt, Fits, Thread
  <2>2. /\ tx.session = NoSession /\ tx.decision = "none" /\ tx.analyses = thread[r].succeeded
        /\ thread[r].succeeded <= thread[r].asked
    BY <2>1 DEF Pending
  <2>3. CASE PerspectiveSucceeds(r)
    <3>1. tx.analyses + 1 \in 0..Perspectives
      BY <1>0, <2>1, <2>2, PerspectivesAssumption DEF Thread
    <3>2. /\ more \in Transaction /\ more.analyses = tx.analyses + 1
          /\ more.session = tx.session /\ more.decision = tx.decision
          /\ more.aborted = tx.aborted
      BY <2>1, <3>1 DEF Transaction
    <3>3. Asked(r, 1, more) /\ ~tx.aborted  BY <2>3 DEF PerspectiveSucceeds
    <3> HIDE DEF more
    <3> QED BY <2>2, <3>2, <3>3, AskedKeeps
  <2>4. CASE PerspectiveFails(r)
    <3>1. tx.analyses = tx.analyses + 0  BY <2>1 DEF Transaction
    <3> QED BY <2>1, <2>2, <2>4, <3>1, AskedKeeps DEF PerspectiveFails
  <2> QED BY <1>6, <2>3, <2>4
<1>7. CASE PerspectivesEnd(r)
  <2> DEFINE tx == thread[r].tx
             stored == IF tx.aborted THEN analyses ELSE analyses + tx.analyses
             n == [run[r] EXCEPT !.analyses = stored]
  <2>1. /\ thread[r].at = "asking" /\ thread[r].asked = Perspectives /\ Pending(thread[r])
        /\ analyses = 0 /\ tx \in Transaction /\ ~memo
    BY <1>0, <1>1, <1>7, PerspectivesAssumption
       DEF PerspectivesEnd, ThreadAt, Fits, Thread
  <2>2. /\ tx.analyses = thread[r].succeeded
        /\ tx.aborted => thread[r].succeeded < Perspectives
        /\ tx.analyses \in 0..Perspectives
    BY <2>1 DEF Pending, Transaction
  <2>3. /\ stored \in 0..Perspectives
        /\ thread[r].succeeded = Perspectives => stored = Perspectives
    <3>1. CASE tx.aborted  BY <2>1, <2>2, <3>1, PerspectivesAssumption
    <3>2. CASE ~tx.aborted  BY <2>1, <2>2, <3>2, PerspectivesAssumption
    <3> QED BY <3>1, <3>2
  <2>4. run' = [run EXCEPT ![r] = n] /\ tracker' = [tracker EXCEPT ![r] = tracker[r]]
        /\ Moves(r, "synthesizing") /\ UNCHANGED committeeVars
    BY <1>7 DEF PerspectivesEnd, IInv
  <2> HIDE DEF stored
  <2>5. /\ n \in RunRow /\ n.status = run[r].status /\ n.decision = run[r].decision
        /\ n.memo = memo /\ n.analyses = stored
    BY <1>0, <2>3 DEF RunRow
  <2> HIDE DEF n
  <2> QED BY <1>0, <1>1, <2>1, <2>3, <2>4, <2>5, ReachKeeps
<1>8. CASE MemoStored(r)
  <2> DEFINE n == [run[r] EXCEPT !.memo = TRUE]
  <2>1. thread[r].at = "synthesizing" /\ analyses = Perspectives
    BY <1>0, <1>8 DEF MemoStored, ThreadAt, EnoughPerspectives, Fits
  <2>2. run' = [run EXCEPT ![r] = n] /\ tracker' = [tracker EXCEPT ![r] = tracker[r]]
        /\ Moves(r, "memo") /\ UNCHANGED committeeVars
    BY <1>8 DEF MemoStored, IInv
  <2>3. /\ n \in RunRow /\ n.status = run[r].status /\ n.decision = run[r].decision
        /\ n.memo = TRUE /\ n.analyses = analyses
    BY <1>0 DEF RunRow
  <2> HIDE DEF n
  <2> QED BY <1>0, <1>1, <2>1, <2>2, <2>3, ReachKeeps
<1>9. CASE NoMemo(r)
  <2>1. thread[r].at = "synthesizing"  BY <1>9 DEF NoMemo, ThreadAt
  <2>2. run' = [run EXCEPT ![r] = run[r]] /\ tracker' = [tracker EXCEPT ![r] = tracker[r]]
        /\ Moves(r, "no-memo") /\ UNCHANGED committeeVars
    BY <1>9 DEF NoMemo, IInv
  <2> QED BY <1>0, <1>1, <2>1, <2>2, ReachKeeps
<1>10. CASE MemoAnnounced(r)
  BY <1>2, <1>10, ReachesKeeps DEF MemoAnnounced, ThreadAt
<1>11. CASE NoMemoFails(r)
  BY <1>2, <1>11, ReachesKeeps DEF NoMemoFails, ThreadAt
<1>12. CASE LinkCommittee(r) \/ OpenDraft(r)
  <2>1. /\ thread[r].tx \in Transaction /\ Active(r)
        /\ thread[r].at = IF LinkCommittee(r) THEN "bridging" ELSE "linked"
    BY <1>0, <1>12 DEF LinkCommittee, OpenDraft, ThreadAt, Active, Thread
  <2>2. CASE LinkCommittee(r)
    <3>1. PICK s \in Sessions :
            thread' = [thread EXCEPT ![r].at = "linked", ![r].tx.session = s]
      BY <2>2, RunsAssumption DEF LinkCommittee
    <3> DEFINE tx == [thread[r].tx EXCEPT !.session = s]
               t == [thread[r] EXCEPT !.at = "linked", !.tx = tx]
    <3>2. tx \in Transaction /\ tx.session = s /\ tx.decision = thread[r].tx.decision
      BY <2>1 DEF Transaction
    <3>3. t \in Thread /\ t.at = "linked" /\ t.tx = tx  BY <1>0, <3>2 DEF Thread
    <3>4. thread' = [thread EXCEPT ![r] = t]  BY <1>0, <2>1, <3>1 DEF IInv, Thread, Transaction
    <3>5. thread[r].tx.decision = "none"
      BY <1>0, <2>1, <2>2 DEF Fits, Pending, NothingWritten
    <3> HIDE DEF tx, t
    <3>6. Pending(t)  BY <3>2, <3>3, <3>5 DEF Pending
    <3> QED BY <2>1, <2>2, <3>3, <3>4, <3>6, ThreadKeeps DEF LinkCommittee
  <2>3. CASE OpenDraft(r)
    <3> DEFINE tx == [thread[r].tx EXCEPT !.decision = "blank"]
               t == [thread[r] EXCEPT !.at = "drafted", !.tx = tx]
    <3>1. tx \in Transaction /\ tx.session = thread[r].tx.session /\ tx.decision = "blank"
      BY <2>1 DEF Transaction, Drafts
    <3>2. t \in Thread /\ t.at = "drafted" /\ t.tx = tx  BY <1>0, <3>1 DEF Thread
    <3>3. thread' = [thread EXCEPT ![r] = t]
      BY <1>0, <2>1, <2>3 DEF OpenDraft, IInv, Thread, Transaction
    <3>4. thread[r].at = "linked" /\ thread[r].tx.session \in Sessions
      BY <1>0, <2>3 DEF OpenDraft, ThreadAt, Fits, Pending
    <3> HIDE DEF tx, t
    <3>5. Pending(t)  BY <3>1, <3>2, <3>4 DEF Pending
    <3> QED BY <2>1, <2>3, <3>2, <3>3, <3>4, <3>5, ThreadKeeps DEF OpenDraft
  <2> QED BY <1>12, <2>2, <2>3
<1>13. CASE Complete(r)
  <2>1. thread[r].at = "drafted" /\ Active(r) /\ memo /\ thread[r].tx.session \in Sessions
    BY <1>0, <1>13 DEF Complete, ThreadAt, Active, Fits, Pending
  <2>2. "completed" \in RunStatus \ {"none"} /\ "filled" \in Drafts /\ "complete" \in Progress
    BY DEF RunStatus, Drafts, Progress
  <2> QED BY <1>13, <2>1, <2>2, CommitKeeps DEF Complete
<1> QED BY <1>3, <1>4, <1>5, <1>6, <1>7, <1>8, <1>9, <1>10, <1>11, <1>12, <1>13 DEF Works

LEMMA BreaksKeeps == ASSUME IInv, NEW r \in Runs, Breaks(r) PROVE IInv'
<1>0. /\ Fits(r, run[r], thread[r], tracker[r], committee) /\ run[r] \in RunRow
      /\ thread[r] \in Thread /\ tracker[r] \in Progress
  BY DEF IInv
<1>1. CASE PerspectiveBreaks(r)
  <2> DEFINE tx == thread[r].tx
             broken == [tx EXCEPT !.aborted = TRUE]
  <2>1. /\ tx \in Transaction /\ tx.session = NoSession /\ tx.decision = "none"
        /\ tx.analyses \in 0..Perspectives
    BY <1>0, <1>1 DEF PerspectiveBreaks, Asked, ThreadAt, Fits, Pending, Thread, Transaction
  <2>2. /\ broken \in Transaction /\ broken.session = NoSession /\ broken.decision = "none"
        /\ broken.analyses = tx.analyses
    BY <2>1 DEF Transaction
  <2>3. tx.analyses = thread[r].tx.analyses + 0  BY <2>1, PerspectivesAssumption
  <2>4. Asked(r, 0, broken)  BY <1>1 DEF PerspectiveBreaks
  <2> HIDE DEF broken
  <2> QED BY <2>2, <2>3, <2>4, AskedKeeps
<1>2. CASE FailsCleanly(r)
  <2>1. Active(r) /\ CommitsWith(r, "failed", thread[r].tx.decision, "failed")
        /\ thread[r].at \in {"collecting", "linked", "drafted", "asking"}
    BY <1>2 DEF FailsCleanly, ThreadAt, Active
  <2>2. /\ thread[r].tx.decision \in {"none", "blank"}
        /\ thread[r].tx.decision # "none" => thread[r].at = "drafted"
    BY <1>0, <2>1 DEF Fits, Pending, NothingWritten
  <2>3. thread[r].tx.decision # "none" => run[r].memo  BY <1>0, <2>2 DEF Fits
  <2>4. "failed" \in RunStatus \ {"none"} /\ thread[r].tx.decision \in Drafts
        /\ "failed" \in Progress
    BY <2>2 DEF RunStatus, Drafts, Progress
  <2> QED BY <2>1, <2>2, <2>3, <2>4, CommitKeeps
<1>3. CASE FailsInDatabase(r)
  <2>1. run' = [run EXCEPT ![r] = run[r]] /\ tracker' = [tracker EXCEPT ![r] = "failed"]
        /\ Moves(r, "over") /\ UNCHANGED committeeVars
    BY <1>3 DEF FailsInDatabase, IInv
  <2>2. /\ run[r].status \notin {"none", "completed"} /\ thread[r].at # "over"
        /\ run[r].memo => run[r].analyses = Perspectives
    BY <1>0, <1>3 DEF Fits, Committed, FailsInDatabase, Active
  <2>3. "failed" \in Progress  BY DEF Progress
  <2> QED BY <1>0, <2>1, <2>2, <2>3, ReachKeeps
<1> QED BY <1>1, <1>2, <1>3 DEF Breaks

\* A process that dies takes requests, threads and progress with it.
LEMMA CrashKeeps == IInv /\ Crash => IInv'
<1> SUFFICES ASSUME IInv, Crash PROVE IInv'  OBVIOUS
<1>1. /\ request' = [c \in Clients |-> IdleRequest] /\ UNCHANGED <<committee, run>>
      /\ tracker' = [r \in Runs |-> "unknown"]
  BY DEF Crash
<1>2. CommitteeInv'
  <2>1. CommitteeTypeOK'
    BY <1>1, IdleKnows DEF IInv, CommitteeInv, CommitteeTypeOK
  <2>2. SessionsAgree'  BY <1>1 DEF IInv, CommitteeInv, SessionsAgree, HasReport
  <2>3. \A c \in Clients : request'[c] = IdleRequest  BY <1>1
  <2>4. \A c \in Clients : Knows(request'[c], committee')  BY <2>3, IdleKnows
  <2> QED BY <2>1, <2>2, <2>4 DEF CommitteeInv
<1>3. ASSUME NEW r \in Runs
      PROVE  /\ thread'[r] \in Thread
             /\ Fits(r, run'[r], thread'[r], tracker'[r], committee')
  <2>1. /\ Fits(r, run[r], thread[r], tracker[r], committee) /\ thread[r] \in Thread
        /\ thread'[r] = IF Active(r) THEN [NoThread EXCEPT !.at = "over"] ELSE thread[r]
        /\ tracker'[r] = "unknown"
    BY DEF IInv, Crash
  <2>2. Committed(r, run[r], "unknown", committee)  BY <2>1 DEF Fits, Committed
  <2>3. CASE ~Active(r)  BY <1>1, <2>1, <2>2, <2>3 DEF Fits
  <2>4. CASE Active(r)
    <3> DEFINE over == [NoThread EXCEPT !.at = "over"]
    <3>1. NothingWritten \in Transaction /\ 0 \in 0..Perspectives
      BY PerspectivesAssumption DEF NothingWritten, Transaction, Drafts
    <3>2. over \in Thread /\ over.at = "over" /\ over.tx = NothingWritten
      BY <3>1 DEF NoThread, Thread
    <3>3. thread'[r] = over  BY <2>1, <2>4
    <3> HIDE DEF over
    <3>4. run[r].status # "none"  BY <2>1, <2>4 DEF Fits, Active
    <3> QED BY <1>1, <2>1, <2>2, <3>2, <3>3, <3>4 DEF Fits, Pending
  <2> QED BY <2>3, <2>4
<1>4. thread' \in [Runs -> Thread]  BY <1>3 DEF Crash
<1>5. tracker' \in [Runs -> Progress]  BY <1>1 DEF Progress
<1> QED BY <1>1, <1>2, <1>3, <1>4, <1>5 DEF IInv

LEMMA InitIInv == Init => IInv
<1> SUFFICES ASSUME Init PROVE IInv  OBVIOUS
<1>1. NoRow \in SessionRow /\ RowAgrees(NoRow) /\ NoRow.evidence = {}
  BY CommitteeBoundsAssumption DEF NoRow, SessionRow, Status, RowAgrees
<1>2. CommitteeInv
  <2>1. /\ committee \in [Sessions -> SessionRow] /\ request \in [Clients -> Request]
        /\ \A s \in Sessions : committee[s] = NoRow
        /\ \A c \in Clients : request[c] = IdleRequest
    BY <1>1, IdleKnows DEF Init, CommitteeInit
  <2>2. SessionsAgree  BY <1>1, <2>1, SessionsAgreeIs
  <2> QED BY <2>1, <2>2, IdleKnows DEF CommitteeInv, CommitteeTypeOK
<1> DEFINE row == [status |-> "none", analyses |-> 0, memo |-> FALSE, decision |-> "none"]
<1>3. 0 \in 0..Perspectives /\ Perspectives # 0  BY PerspectivesAssumption
<1>4. /\ row \in RunRow /\ row.status = "none" /\ row.analyses = 0 /\ row.memo = FALSE
      /\ row.decision = "none"
  BY <1>3 DEF RunRow, RunStatus, Drafts
<1>5. NothingWritten \in Transaction  BY <1>3 DEF NothingWritten, Transaction, Drafts
<1>6. /\ NoThread \in Thread /\ NoThread.at = "none" /\ NoThread.tx = NothingWritten
  BY <1>3, <1>5 DEF NoThread, Thread
<1> HIDE DEF row
<1>7. \A r \in Runs : /\ run[r] = row /\ thread[r] = NoThread /\ tracker[r] = "unknown"
                      /\ \A s \in Sessions : r \notin committee[s].evidence
  BY <1>1 DEF Init, CommitteeInit, row
<1>8. /\ run \in [Runs -> RunRow] /\ tracker \in [Runs -> Progress]
      /\ thread \in [Runs -> Thread]
  BY <1>4, <1>6, <1>7 DEF Init, Progress
<1>9. ASSUME NEW r \in Runs PROVE Fits(r, run[r], thread[r], tracker[r], committee)
  <2>1. Committed(r, row, "unknown", committee)  BY <1>4, <1>7 DEF Committed
  <2>2. Pending(NoThread)  BY <1>6 DEF Pending
  <2> QED BY <1>4, <1>6, <1>7, <2>1, <2>2 DEF Fits
<1> QED BY <1>2, <1>8, <1>9 DEF IInv

LEMMA NextIInv == IInv /\ [Next]_vars => IInv'
<1> SUFFICES ASSUME IInv, [Next]_vars PROVE IInv'  OBVIOUS
<1>1. ASSUME CommitteeInv', UNCHANGED researchVars,
             \A r \in Runs, s \in Sessions :
               r \in committee'[s].evidence <=> r \in committee[s].evidence
      PROVE  IInv'
  <2>1. ASSUME NEW r \in Runs PROVE Fits(r, run[r], thread[r], tracker[r], committee')
    BY <1>1, StillFits DEF IInv
  <2> QED BY <1>1, <2>1 DEF IInv, researchVars
<1>2. CASE CommitteeStep /\ UNCHANGED researchVars
  <2>1. CommitteeInv' /\ CommitteeTypeOK  BY <1>2, CommitteeKeeps DEF IInv, CommitteeInv
  <2> QED BY <1>1, <1>2, <2>1, CommitteeAddsNoMemo
<1>3. CASE UNCHANGED vars
  <2>1. CommitteeInv'
    BY <1>3 DEF vars, committeeVars, IInv, CommitteeInv, CommitteeTypeOK, SessionsAgree, HasReport
  <2> QED BY <1>1, <1>3, <2>1 DEF vars, committeeVars
<1> QED BY <1>2, <1>3, WorksKeeps, BreaksKeeps, CrashKeeps DEF Next

\* The invariant that the others follow from.
THEOREM Inductive == Spec => []IInv
BY InitIInv, NextIInv, PTL DEF Spec

\* Status, report, evidence and outcomes of a committee session agree, although no
\* request of routers/committee.py locks its row.
THEOREM Agreement == Spec => []SessionsAgree
<1>1. IInv => SessionsAgree  BY DEF IInv, CommitteeInv
<1> QED BY <1>1, Inductive, PTL

\* What is committed for a research run agrees with its status and with the progress that
\* pages are told, through swallowed errors of the database, handlers that commit, and
\* crashes.
THEOREM Research == Spec => []ResearchAgrees
<1>1. ASSUME IInv PROVE ResearchAgrees
  <2>1. TypeOK  BY <1>1 DEF IInv, CommitteeInv, TypeOK
  <2>2. \A r \in Runs : Committed(r, run[r], tracker[r], committee)
    BY <1>1 DEF IInv, Fits
  <2> QED BY <2>1, <2>2 DEF ResearchAgrees, Committed
<1> QED BY <1>1, Inductive, PTL

\* A stored report never changes, although two runs of one session may both get an answer.
THEOREM Report == Spec => ReportIsFinal
<1>1. ASSUME IInv, [Next]_vars, NEW s \in Sessions, HasReport(s)
      PROVE  committee'[s].report = committee[s].report
  <2>1. CASE CommitteeStep
    BY <1>1, <2>1, CommitteeKeeps DEF IInv, Grow, HasReport
  <2>2. ASSUME NEW r \in Runs, CommitEvidence(r)
        PROVE  committee'[s].report = committee[s].report
    BY <1>1, <2>2, EvidenceKeeps DEF IInv, Grow, HasReport
  <2>3. CASE UNCHANGED vars \/ Crash  BY <2>3 DEF vars, committeeVars, Crash
  <2>4. ASSUME NEW r \in Runs, StartResearch(r) \/ Works(r) \/ Breaks(r)
        PROVE  committee'[s].report = committee[s].report
    <3>1. CASE Complete(r) \/ FailsCleanly(r)
      BY <2>2, <3>1 DEF Complete, FailsCleanly, CommitsWith
    <3>2. CASE ~(Complete(r) \/ FailsCleanly(r))
      BY <2>4, <3>2
         DEF StartResearch, Works, Breaks, Collect, Analyze, PerspectiveSucceeds,
             PerspectiveFails, PerspectivesEnd, MemoStored, NoMemo, MemoAnnounced,
             NoMemoFails, LinkCommittee, OpenDraft, PerspectiveBreaks, FailsInDatabase, Asked,
             committeeVars
    <3> QED BY <3>1, <3>2
  <2> QED BY <1>1, <2>1, <2>3, <2>4 DEF Next
<1>2. IInv /\ [Next]_vars =>
        [\A s \in Sessions : HasReport(s) =>
           committee'[s].report = committee[s].report]_committeeVars
  BY <1>1
<1> QED BY <1>2, Inductive, PTL DEF Spec, ReportIsFinal
===============================================================================
