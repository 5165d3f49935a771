---------------------- MODULE GuardianNotificationsProofs ----------------------
(***************************************************************************)
(* Proofs about GuardianChecks and Notifications, for any clients,          *)
(* evaluations, dispatchers, thresholds and bounds.                         *)
(*                                                                          *)
(* GuardianChecks: drafts and versions of a check agree because what a      *)
(* request has read of its versions stays true until it writes; events      *)
(* agree with runs because whoever evaluates holds the household's lock     *)
(* and reads rows that are never changed afterwards.                        *)
(*                                                                          *)
(* Notifications: who looks for delivered events, and who sends, holds the  *)
(* lock; so what the one who sends has not found is still not there.        *)
(***************************************************************************)
EXTENDS GuardianChecks, Notifications, SequenceTheorems, FiniteSetTheorems, TLAPS

-------------------------------------------------------------------------------
(* The inductive invariant of GuardianChecks *)

\* What an evaluation has read: indices of policies and snapshots that stay what they are.
EvaluationRow ==
  {[at |-> "none"]}
  \cup [at : {"locked"}, target : Checks \cup {Everything}, asOf : Days]
  \cup [at : {"policy"}, target : Checks \cup {Everything}, asOf : Days,
        policy : 1..Len(policies)]
  \cup [at : {"snapshot"}, target : Checks \cup {Everything}, asOf : Days,
        policy : 1..Len(policies), snapshot : 1..Len(snapshots)]

EvaluationTypeOK ==
  /\ evaluation \in [Evaluators -> EvaluationRow]
  /\ runs \in Seq(Run)

\* Who evaluates holds the household's lock, and will record one run more.
EvaluationLocked ==
  \A e \in Evaluators : evaluation[e].at # "none" => locked = e /\ Len(runs) < MaxRuns

\* What a request has read is what it may still use when it writes.
RequestsAgree ==
  \A c \in Clients :
    /\ client[c].at \in {"updating", "confirming", "numbered"} => client[c].row \in Draft
    /\ client[c].at = "updating" => client[c].row.revision < MaxRevision
    /\ client[c].at = "numbered" =>
         client[c].number \in 1..(Cardinality(VersionsOf(client[c].check)) + 1)
    /\ client[c].at = "discarding" => VersionsOf(client[c].check) # {}

\* MaxInputs is a bound.
InputsBounded == Len(policies) \in 0..MaxInputs /\ Len(snapshots) \in 0..MaxInputs

\* A run that evaluated something names a policy and a snapshot there are; another
\* has evaluated no version.
RunsAgree ==
  \A i \in DOMAIN runs :
    IF runs[i].status = "completed"
    THEN runs[i].policy \in 1..Len(policies) /\ runs[i].snapshot \in 1..Len(snapshots)
    ELSE runs[i].versions = {}

\* An event is that of a breach ...
EventsAreBreaches ==
  \A event \in events :
    /\ event.policy \in 1..Len(policies) /\ event.snapshot \in 1..Len(snapshots)
    /\ Exceeded(confirmed[event.version], policies[event.policy],
                snapshots[event.snapshot], event.asOf)

\* ... of which there is no other ...
EventsAreUnique ==
  \A a, b \in events : Fingerprint(a) = Fingerprint(b) => a = b

\* The event would be that of version v exceeded in run i.
Concerns(event, i, v) ==
  /\ event.version = v
  /\ event.snapshot = runs[i].snapshot
  /\ IF confirmed[v].kind = "staleness" THEN event.asOf = runs[i].asOf
                                        ELSE event.policy = runs[i].policy

\* ... and no breach that a run has seen is without its event.
BreachesHaveEvents ==
  \A i \in DOMAIN runs : \A v \in runs[i].versions :
    Exceeded(confirmed[v], policies[runs[i].policy], snapshots[runs[i].snapshot],
             runs[i].asOf)
    => \E event \in events : Concerns(event, i, v)

\* An evaluation under way has read nothing older than any run that is recorded.
EvaluationsMoveForward ==
  \A i \in DOMAIN runs, e \in Evaluators :
    runs[i].status = "completed" =>
      /\ evaluation[e].at \in {"policy", "snapshot"} => runs[i].policy <= evaluation[e].policy
      /\ evaluation[e].at = "snapshot" => runs[i].snapshot <= evaluation[e].snapshot

ChecksInv      == ChecksAgree /\ RequestsAgree
EvaluationsInv ==
  /\ EvaluationTypeOK
  /\ EvaluationLocked
  /\ InputsBounded
  /\ RunsAgree
  /\ EventsAreBreaches
  /\ EventsAreUnique
  /\ BreachesHaveEvents
  /\ EvaluationsMoveForward
  /\ RunsMoveForward

IInv == ChecksInv /\ EvaluationsInv

-------------------------------------------------------------------------------
(* Facts about the operators *)

\* The versions of a check are finitely many, and what indexes them.
LEMMA VersionsFinite ==
  ASSUME TypeOK, NEW k \in Checks
  PROVE  /\ Len(confirmed) \in Nat
         /\ DOMAIN confirmed = 1..Len(confirmed)
         /\ VersionsOf(k) \subseteq 1..Len(confirmed)
         /\ IsFiniteSet(VersionsOf(k))
         /\ Cardinality(VersionsOf(k)) \in Nat
<1>1. Len(confirmed) \in Nat /\ DOMAIN confirmed = 1..Len(confirmed)
  BY LenProperties DEF TypeOK
<1>2. VersionsOf(k) \subseteq 1..Len(confirmed)  BY <1>1 DEF VersionsOf
<1>3. IsFiniteSet(1..Len(confirmed))  BY <1>1, FS_Interval
<1>4. IsFiniteSet(VersionsOf(k))  BY <1>2, <1>3, FS_Subset
<1> QED BY <1>1, <1>2, <1>4, FS_CardinalityType

\* NextNumber is one more than there are versions, which are no more than the bound.
LEMMA NextNumberIs ==
  ASSUME TypeOK, VersionsNumbered, NEW k \in Checks
  PROVE  /\ NextNumber(k) = Cardinality(VersionsOf(k)) + 1
         /\ Cardinality(VersionsOf(k)) \in 0..MaxVersions
<1> DEFINE n == Cardinality(VersionsOf(k))
<1>1. n \in Nat  BY VersionsFinite
<1>2. Numbers(k) = 1..n  BY DEF VersionsNumbered
<1>3. Cardinality(1..n) = n
  <2>1. Cardinality(1..n) = IF 1 > n THEN 0 ELSE n - 1 + 1  BY <1>1, FS_Interval
  <2> HIDE DEF n
  <2> QED BY <1>1, <2>1
<1>4. ASSUME NEW m \in Numbers(k) PROVE m \in 1..MaxVersions
  <2>1. PICK i \in VersionsOf(k) : m = confirmed[i].number  BY DEF Numbers
  <2>2. confirmed[i] \in Version  BY <2>1, VersionsFinite, ElementOfSeq DEF TypeOK
  <2> QED BY <2>1, <2>2 DEF Version
<1>5. MaxVersions \in Nat  BY BoundsAssumption
<1> HIDE DEF n
<1>6. n <= MaxVersions
  <2>1. CASE n = 0  BY <1>5, <2>1
  <2>2. CASE n # 0
    <3>1. n \in 1..n  BY <1>1, <2>2
    <3> QED BY <1>2, <1>4, <3>1
  <2> QED BY <2>1, <2>2
<1>7. NextNumber(k) = n + 1  BY <1>2, <1>3 DEF NextNumber
<1> QED BY <1>1, <1>5, <1>6, <1>7 DEF n

\* One version more.
LEMMA VersionAppended ==
  ASSUME TypeOK, NEW v \in Version, confirmed' = Append(confirmed, v)
  PROVE  /\ confirmed' \in Seq(Version)
         /\ Len(confirmed) \in Nat /\ Len(confirmed') = Len(confirmed) + 1
         /\ \A i \in 1..Len(confirmed) : confirmed'[i] = confirmed[i]
         /\ \A k \in Checks :
              /\ VersionsOf(k)' = IF k = v.check THEN VersionsOf(k) \cup {Len(confirmed) + 1}
                                               ELSE VersionsOf(k)
              /\ Numbers(k)' = IF k = v.check THEN Numbers(k) \cup {v.number} ELSE Numbers(k)
<1>1. /\ confirmed' \in Seq(Version)
      /\ Len(confirmed) \in Nat /\ Len(confirmed') = Len(confirmed) + 1
      /\ \A i \in 1..Len(confirmed) : confirmed'[i] = confirmed[i]
      /\ confirmed'[Len(confirmed) + 1] = v
  BY AppendProperties, LenProperties DEF TypeOK
<1>2. DOMAIN confirmed = 1..Len(confirmed) /\ DOMAIN confirmed' = 1..(Len(confirmed) + 1)
  BY <1>1, LenProperties DEF TypeOK
<1>3. ASSUME NEW k \in Checks
      PROVE  VersionsOf(k)' = IF k = v.check THEN VersionsOf(k) \cup {Len(confirmed) + 1}
                                            ELSE VersionsOf(k)
  BY <1>1, <1>2 DEF VersionsOf
<1>4. ASSUME NEW k \in Checks
      PROVE  Numbers(k)' = IF k = v.check THEN Numbers(k) \cup {v.number} ELSE Numbers(k)
  <2>1. \A i \in VersionsOf(k) : confirmed'[i].number = confirmed[i].number
    BY <1>1, <1>2 DEF VersionsOf
  <2>2. Numbers(k)' = {confirmed'[i].number : i \in VersionsOf(k)'}  BY DEF Numbers
  <2>3. {confirmed'[i].number : i \in VersionsOf(k)} = Numbers(k)  BY <2>1 DEF Numbers
  <2>4. CASE k = v.check
    <3>1. Numbers(k)' = {confirmed'[i].number : i \in VersionsOf(k) \cup {Len(confirmed) + 1}}
      BY <1>3, <2>2, <2>4
    <3>2. Numbers(k)' = {confirmed'[i].number : i \in VersionsOf(k)}
                        \cup {confirmed'[Len(confirmed) + 1].number}
      BY <3>1
    <3> QED BY <1>1, <2>3, <2>4, <3>2
  <2>5. CASE k # v.check
    <3>1. VersionsOf(k)' = VersionsOf(k)  BY <1>3, <2>5
    <3>2. Numbers(k)' = {confirmed'[i].number : i \in VersionsOf(k)}
      BY <2>2, <3>1, Zenon
    <3> QED BY <2>3, <2>5, <3>2
  <2> QED BY <2>4, <2>5
<1> QED BY <1>1, <1>3, <1>4

-------------------------------------------------------------------------------
(* Drafts and versions *)

\* A step of a request that only reads leaves the rows alone, and what it has read is true.
LEMMA RequestReads ==
  ASSUME ChecksInv, TypeOK', UNCHANGED checkRows,
         NEW c \in Clients, NEW row \in Request, client' = [client EXCEPT ![c] = row],
         row.at \in {"updating", "confirming", "numbered"} => row.row \in Draft,
         row.at = "updating" => row.row.revision < MaxRevision,
         row.at = "numbered" => row.number \in 1..(Cardinality(VersionsOf(row.check)) + 1),
         row.at = "discarding" => VersionsOf(row.check) # {}
  PROVE  ChecksInv'
<1>1. TypeOK  BY DEF ChecksInv, ChecksAgree
<1>2. \A k : VersionsOf(k)' = VersionsOf(k) /\ Numbers(k)' = Numbers(k)
              /\ Exists(k)' = Exists(k) /\ HasDraft(k)' = HasDraft(k)
  BY DEF checkRows, VersionsOf, Numbers, Exists, HasDraft
<1>3. VersionsNumbered'  BY <1>2 DEF ChecksInv, ChecksAgree, VersionsNumbered
<1>4. ChecksHaveContent'
  BY <1>2 DEF ChecksInv, ChecksAgree, ChecksHaveContent, checkRows
<1>5. RequestsAgree'
  <2> SUFFICES ASSUME NEW d \in Clients
               PROVE  /\ client'[d].at \in {"updating", "confirming", "numbered"}
                            => client'[d].row \in Draft
                      /\ client'[d].at = "updating" => client'[d].row.revision < MaxRevision
                      /\ client'[d].at = "numbered" =>
                           client'[d].number \in 1..(Cardinality(VersionsOf(client'[d].check)) + 1)
                      /\ client'[d].at = "discarding" => VersionsOf(client'[d].check) # {}
    BY <1>2 DEF RequestsAgree
  <2>1. client'[d] = IF d = c THEN row ELSE client[d]  BY <1>1 DEF TypeOK
  <2>2. CASE d = c  BY <2>1, <2>2
  <2>3. CASE d # c  BY <2>1, <2>3 DEF ChecksInv, RequestsAgree
  <2> QED BY <2>2, <2>3
<1> QED BY <1>3, <1>4, <1>5 DEF ChecksInv, ChecksAgree

\* The answered request has read nothing.
LEMMA AnsweredIs ==
  ASSUME TypeOK, NEW c \in Clients, Answered(c)
  PROVE  /\ client' \in [Clients -> Request]
         /\ \A d \in Clients : d # c => client'[d] = client[d]
         /\ client'[c].at = "idle"
<1>1. client[c] \in Request  BY DEF TypeOK
<1>2. [client[c] EXCEPT !.at = "idle", !.row = NoDraft, !.number = 0] \in Request
  <2>1. MaxVersions \in Nat  BY BoundsAssumption
  <2>2. 0 \in 0..MaxVersions + 1 /\ NoDraft \in Draft \cup {NoDraft}  BY <2>1
  <2> QED BY <1>1, <2>2 DEF Request
<1>3. client' = [client EXCEPT ![c] =
        [client[c] EXCEPT !.at = "idle", !.row = NoDraft, !.number = 0]]
  BY DEF Answered
<1> QED BY <1>1, <1>2, <1>3 DEF TypeOK, Request

\* A request writes check and draft of k and is answered; the versions stay.
LEMMA RequestWrites ==
  ASSUME ChecksInv, TypeOK', UNCHANGED confirmed, NEW c \in Clients,
         \A d \in Clients : d # c => client'[d] = client[d], client'[c].at = "idle",
         NEW k \in Checks,
         \A j \in Checks : j # k => check'[j] = check[j] /\ draft'[j] = draft[j],
         Exists(k)' <=> HasDraft(k)' \/ VersionsOf(k) # {},
         check'[k].status = "confirmed" => VersionsOf(k) # {}
  PROVE  ChecksInv'
<1>1. \A j : VersionsOf(j)' = VersionsOf(j) /\ Numbers(j)' = Numbers(j)
  BY DEF VersionsOf, Numbers
<1>2. VersionsNumbered'  BY <1>1 DEF ChecksInv, ChecksAgree, VersionsNumbered
<1>3. ChecksHaveContent'
  <2> SUFFICES ASSUME NEW j \in Checks
               PROVE  /\ Exists(j)' <=> (HasDraft(j)' \/ VersionsOf(j) # {})
                      /\ check'[j].status = "confirmed" => VersionsOf(j) # {}
    BY <1>1 DEF ChecksHaveContent
  <2>1. CASE j = k  BY <2>1
  <2>2. CASE j # k
    BY <2>2 DEF ChecksInv, ChecksAgree, ChecksHaveContent, Exists, HasDraft
  <2> QED BY <2>1, <2>2
<1>4. RequestsAgree'
  <2> SUFFICES ASSUME NEW d \in Clients
               PROVE  /\ client'[d].at \in {"updating", "confirming", "numbered"}
                            => client'[d].row \in Draft
                      /\ client'[d].at = "updating" => client'[d].row.revision < MaxRevision
                      /\ client'[d].at = "numbered" =>
                           client'[d].number \in 1..(Cardinality(VersionsOf(client'[d].check)) + 1)
                      /\ client'[d].at = "discarding" => VersionsOf(client'[d].check) # {}
    BY <1>1 DEF RequestsAgree
  <2>1. CASE d = c  BY <2>1
  <2>2. CASE d # c  BY <2>2 DEF ChecksInv, RequestsAgree
  <2> QED BY <2>1, <2>2
<1> QED BY <1>2, <1>3, <1>4 DEF ChecksInv, ChecksAgree

\* What a step that adds no version has to keep of the types.
LEMMA ChecksTyped ==
  ASSUME TypeOK, UNCHANGED <<confirmed, documents, results, locked>>,
         check' \in [Checks -> Check], draft' \in [Checks -> Draft \cup {NoDraft}],
         client' \in [Clients -> Request]
  PROVE  TypeOK'
BY DEF TypeOK, documents, results, Run, Event

\* A request that reads goes on with what it has read.
LEMMA ReadsKeep ==
  ASSUME ChecksInv, UNCHANGED <<checkRows, documents, results, locked>>,
         NEW c \in Clients, NEW row \in Request, client' = [client EXCEPT ![c] = row],
         row.at \in {"updating", "confirming", "numbered"} => row.row \in Draft,
         row.at = "updating" => row.row.revision < MaxRevision,
         row.at = "numbered" => row.number \in 1..(Cardinality(VersionsOf(row.check)) + 1),
         row.at = "discarding" => VersionsOf(row.check) # {}
  PROVE  ChecksInv'
<1>1. TypeOK  BY DEF ChecksInv, ChecksAgree
<1>2. client' \in [Clients -> Request]  BY <1>1 DEF TypeOK
<1>3. TypeOK'  BY <1>1, <1>2, ChecksTyped DEF checkRows, TypeOK
<1> QED BY <1>3, RequestReads

LEMMA CreateKeeps ==
  ASSUME ChecksInv, NEW c \in Clients, NEW k \in Checks, NEW kind \in Kinds,
         NEW threshold \in Thresholds, Create(c, k, kind, threshold)
  PROVE  ChecksInv'
<1>1. TypeOK  BY DEF ChecksInv, ChecksAgree
<1> DEFINE new == [revision |-> 1, threshold |-> threshold]
           made == [status |-> "draft", kind |-> kind]
<1>2. made \in Check /\ made.status = "draft" /\ made.status # "confirmed"  BY DEF Check
<1>3. new \in Draft /\ new # NoDraft
  BY BoundsAssumption DEF Draft, NoDraft
<1>4. check' = [check EXCEPT ![k] = made] /\ draft' = [draft EXCEPT ![k] = new]
      /\ UNCHANGED <<confirmed, documents, results, client, locked>>
  BY DEF Create
<1> HIDE DEF new, made
<1>5. TypeOK'
  <2>1. check' \in [Checks -> Check] /\ draft' \in [Checks -> Draft \cup {NoDraft}]
    BY <1>1, <1>2, <1>3, <1>4 DEF TypeOK
  <2> QED BY <1>1, <1>4, <2>1, ChecksTyped DEF TypeOK
<1>6. check'[k] = made /\ draft'[k] = new
      /\ \A j \in Checks : j # k => check'[j] = check[j] /\ draft'[j] = draft[j]
  BY <1>1, <1>4 DEF TypeOK
<1>7. Exists(k)' /\ HasDraft(k)'  BY <1>2, <1>3, <1>6 DEF Exists, HasDraft
<1>8. client[c].at = "idle"  BY DEF Create, Idle
<1> QED BY <1>2, <1>4, <1>5, <1>6, <1>7, <1>8, RequestWrites

LEMMA LookKeeps ==
  ASSUME ChecksInv, NEW c \in Clients, NEW k \in Checks, Look(c, k)
  PROVE  ChecksInv'
<1>1. TypeOK  BY DEF ChecksInv, ChecksAgree
<1> DEFINE row == [client[c] EXCEPT !.check = k, !.row = draft[k]]
<1>2. client[c] \in Request /\ draft[k] \in Draft \cup {NoDraft}  BY <1>1 DEF TypeOK
<1>3. row \in Request /\ row.at = "idle"  BY <1>2 DEF Look, Idle, Request
<1>4. client' = [client EXCEPT ![c] = row] /\ UNCHANGED <<checkRows, documents, results, locked>>
  BY <1>1 DEF Look, TypeOK
<1> HIDE DEF row
<1> QED BY <1>3, <1>4, ReadsKeep

\* The draft that was expected is the draft the client was shown.
LEMMA ExpectedIs ==
  ASSUME TypeOK, NEW c \in Clients, Expected(c)
  PROVE  /\ client[c].check \in Checks /\ Exists(client[c].check)
         /\ client[c].row \in Draft /\ draft[client[c].check] \in Draft
<1>1. client[c] \in Request /\ client[c].check \in Checks  BY DEF TypeOK, Request
<1>2. client[c].row \in Draft \cup {NoDraft}  BY <1>1 DEF Request
<1>3. draft[client[c].check] \in Draft  BY <1>1 DEF Expected, HasDraft, TypeOK
<1>4. client[c].row # NoDraft
  <2>1. draft[client[c].check].revision # 0  BY <1>3 DEF Draft
  <2> QED BY <2>1 DEF Expected, NoDraft
<1> QED BY <1>1, <1>2, <1>3, <1>4 DEF Expected

LEMMA UpdateReadsKeeps ==
  ASSUME ChecksInv, NEW c \in Clients, NEW threshold \in Thresholds,
         UpdateReads(c, threshold)
  PROVE  ChecksInv'
<1>1. TypeOK  BY DEF ChecksInv, ChecksAgree
<1> DEFINE edited == [client[c].row EXCEPT !.threshold = threshold]
           row    == [client[c] EXCEPT !.at = "updating", !.row = edited]
<1>2. client[c] \in Request /\ client[c].row \in Draft
  BY <1>1, ExpectedIs DEF UpdateReads, TypeOK
<1>3. edited \in Draft /\ edited.revision < MaxRevision  BY <1>2 DEF UpdateReads, Draft
<1>4. client' = [client EXCEPT ![c] = row] /\ UNCHANGED <<checkRows, documents, results, locked>>
  BY <1>1, <1>2 DEF UpdateReads, TypeOK, Request
<1> HIDE DEF edited
<1>5. row \in Request /\ row.at = "updating" /\ row.row = edited  BY <1>2, <1>3 DEF Request
<1> HIDE DEF row
<1> QED BY <1>3, <1>4, <1>5, ReadsKeep

LEMMA UpdateWritesKeeps ==
  ASSUME ChecksInv, NEW c \in Clients, UpdateWrites(c)
  PROVE  ChecksInv'
<1>1. TypeOK  BY DEF ChecksInv, ChecksAgree
<1> DEFINE new == [client[c].row EXCEPT !.revision = @ + 1]
<1>2. PICK k \in Checks : k = client[c].check  BY <1>1 DEF TypeOK, Request
<1>3. client[c].row \in Draft /\ client[c].row.revision < MaxRevision
  BY DEF ChecksInv, RequestsAgree, UpdateWrites
<1>4. new \in Draft /\ new # NoDraft
  <2>1. MaxRevision \in Nat  BY BoundsAssumption
  <2> QED BY <1>3, <2>1 DEF Draft, NoDraft
<1>5. /\ draft' = IF HasDraft(k) THEN [draft EXCEPT ![k] = new] ELSE draft
      /\ Answered(c) /\ UNCHANGED <<check, confirmed, documents, results, locked>>
  BY <1>2 DEF UpdateWrites
<1> HIDE DEF new
<1>6. /\ client' \in [Clients -> Request] /\ client'[c].at = "idle"
      /\ \A d \in Clients : d # c => client'[d] = client[d]
  BY <1>1, <1>5, AnsweredIs
<1>7. TypeOK'
  <2>1. draft' \in [Checks -> Draft \cup {NoDraft}]  BY <1>1, <1>4, <1>5 DEF TypeOK
  <2> QED BY <1>1, <1>5, <1>6, <2>1, ChecksTyped DEF TypeOK
<1>8. /\ \A j \in Checks : j # k => check'[j] = check[j] /\ draft'[j] = draft[j]
      /\ HasDraft(k)' <=> HasDraft(k)
      /\ Exists(k)' <=> Exists(k)
      /\ check'[k] = check[k]
  <2>1. CASE HasDraft(k)  BY <1>1, <1>4, <1>5, <2>1 DEF TypeOK, HasDraft, Exists
  <2>2. CASE ~HasDraft(k)  BY <1>5, <2>2 DEF HasDraft, Exists
  <2> QED BY <2>1, <2>2
<1>9. /\ Exists(k) <=> HasDraft(k) \/ VersionsOf(k) # {}
      /\ check[k].status = "confirmed" => VersionsOf(k) # {}
  BY <1>2 DEF ChecksInv, ChecksAgree, ChecksHaveContent
<1> QED BY <1>2, <1>5, <1>6, <1>7, <1>8, <1>9, RequestWrites

LEMMA ConfirmReadsKeeps ==
  ASSUME ChecksInv, NEW c \in Clients, ConfirmReads(c)
  PROVE  ChecksInv'
<1>1. TypeOK  BY DEF ChecksInv, ChecksAgree
<1> DEFINE row == [client[c] EXCEPT !.at = "confirming", !.row = draft[client[c].check]]
<1>2. client[c] \in Request /\ draft[client[c].check] \in Draft
  BY <1>1, ExpectedIs DEF ConfirmReads, TypeOK
<1>3. row \in Request /\ row.at = "confirming" /\ row.row \in Draft  BY <1>2 DEF Request
<1>4. client' = [client EXCEPT ![c] = row] /\ UNCHANGED <<checkRows, documents, results, locked>>
  BY <1>1 DEF ConfirmReads, TypeOK
<1> HIDE DEF row
<1> QED BY <1>3, <1>4, ReadsKeep

LEMMA ConfirmNumbersKeeps ==
  ASSUME ChecksInv, NEW c \in Clients, ConfirmNumbers(c)
  PROVE  ChecksInv'
<1>1. TypeOK /\ VersionsNumbered  BY DEF ChecksInv, ChecksAgree
<1> DEFINE k   == client[c].check
           row == [client[c] EXCEPT !.at = "numbered", !.number = NextNumber(k)]
<1>2. client[c] \in Request /\ k \in Checks /\ client[c].row \in Draft
  BY <1>1 DEF TypeOK, Request, ChecksInv, RequestsAgree, ConfirmNumbers
<1>3. NextNumber(k) \in 0..MaxVersions + 1
      /\ NextNumber(k) \in 1..(Cardinality(VersionsOf(k)) + 1)
  <2>1. MaxVersions \in Nat  BY BoundsAssumption
  <2> QED BY <1>1, <1>2, <2>1, NextNumberIs
<1>4. /\ row \in Request /\ row.at = "numbered" /\ row.row = client[c].row
      /\ row.number = NextNumber(k) /\ row.check = k
  BY <1>2, <1>3 DEF Request
<1>5. client' = [client EXCEPT ![c] = row] /\ UNCHANGED <<checkRows, documents, results, locked>>
  BY <1>1 DEF ConfirmNumbers, TypeOK
<1> HIDE DEF row, k
<1> QED BY <1>2, <1>3, <1>4, <1>5, ReadsKeep

\* A request that is refused leaves everything as it was.
LEMMA RefusedKeeps ==
  ASSUME ChecksInv, NEW c \in Clients, Answered(c),
         UNCHANGED <<checkRows, documents, results, locked>>
  PROVE  ChecksInv'
<1>1. TypeOK  BY DEF ChecksInv, ChecksAgree
<1> DEFINE row == [client[c] EXCEPT !.at = "idle", !.row = NoDraft, !.number = 0]
<1>2. client' = [client EXCEPT ![c] = row]  BY <1>1 DEF Answered, TypeOK
<1>3. client' \in [Clients -> Request] /\ client'[c].at = "idle"  BY <1>1, AnsweredIs
<1>4. row \in Request /\ row.at = "idle"  BY <1>1, <1>2, <1>3 DEF TypeOK
<1> HIDE DEF row
<1> QED BY <1>2, <1>4, ReadsKeep

\* confirm_guardian_check inserts the number after the last one, if it may insert at all.
LEMMA ConfirmInsertsKeeps ==
  ASSUME ChecksInv, NEW c \in Clients, ConfirmInserts(c)
  PROVE  ChecksInv'
<1>1. TypeOK /\ VersionsNumbered  BY DEF ChecksInv, ChecksAgree
<1>2. PICK k \in Checks : k = client[c].check  BY <1>1 DEF TypeOK, Request
<1> DEFINE number == client[c].number
           v == [check |-> k, number |-> number, kind |-> check[k].kind,
                 threshold |-> client[c].row.threshold]
           n == Cardinality(VersionsOf(k))
<1>3. /\ client[c].at = "numbered" /\ Exists(k) /\ number \notin Numbers(k)
      /\ number <= MaxVersions /\ confirmed' = Append(confirmed, v)
      /\ check' = [check EXCEPT ![k].status = "confirmed"] /\ Answered(c)
      /\ UNCHANGED <<draft, documents, results, locked>>
  BY <1>2 DEF ConfirmInserts, NumberFree, NewVersion
<1>4. number \in 1..(n + 1) /\ client[c].row \in Draft
  BY <1>2, <1>3 DEF ChecksInv, RequestsAgree
<1>5. n \in Nat /\ Numbers(k) = 1..n  BY <1>1, VersionsFinite DEF VersionsNumbered
<1> HIDE DEF n, number
<1>6. number = n + 1  BY <1>3, <1>4, <1>5
<1>7. v \in Version /\ v.check = k /\ v.number = number
  <2>1. check[k] \in Check  BY <1>1 DEF TypeOK
  <2>2. MaxVersions \in Nat  BY BoundsAssumption
  <2>3. number \in 1..MaxVersions  BY <1>3, <1>5, <1>6, <2>2
  <2> QED BY <1>4, <2>1, <2>3 DEF Version, Check, Draft
<1> HIDE DEF v
<1>8. /\ confirmed' \in Seq(Version)
      /\ Len(confirmed) \in Nat /\ Len(confirmed') = Len(confirmed) + 1
      /\ \A j \in Checks :
           /\ VersionsOf(j)' = IF j = k THEN VersionsOf(j) \cup {Len(confirmed) + 1}
                                        ELSE VersionsOf(j)
           /\ Numbers(j)' = IF j = k THEN Numbers(j) \cup {number} ELSE Numbers(j)
  BY <1>1, <1>3, <1>7, VersionAppended
<1>9. /\ client' \in [Clients -> Request] /\ client'[c].at = "idle"
      /\ \A d \in Clients : d # c => client'[d] = client[d]
  BY <1>1, <1>3, AnsweredIs
<1>10. /\ check' \in [Checks -> Check] /\ check'[k].status = "confirmed"
       /\ \A j \in Checks : j # k => check'[j] = check[j]
  <2>1. [check[k] EXCEPT !.status = "confirmed"] \in Check  BY <1>1 DEF TypeOK, Check
  <2> QED BY <1>1, <1>3, <2>1 DEF TypeOK, Check
<1>11. DOMAIN confirmed \subseteq DOMAIN confirmed'
  BY <1>1, <1>8, LenProperties DEF TypeOK
<1>12. TypeOK'
  BY <1>1, <1>3, <1>8, <1>9, <1>10, <1>11 DEF TypeOK, documents, results, Run, Event
<1>13. \A j \in Checks : Cardinality(VersionsOf(j))' =
                           IF j = k THEN n + 1 ELSE Cardinality(VersionsOf(j))
  <2> SUFFICES ASSUME NEW j \in Checks
               PROVE  Cardinality(VersionsOf(j)') =
                        IF j = k THEN n + 1 ELSE Cardinality(VersionsOf(j))
    OBVIOUS
  <2>1. IsFiniteSet(VersionsOf(j)) /\ Len(confirmed) + 1 \notin VersionsOf(j)
    BY <1>1, <1>8, VersionsFinite
  <2>2. Cardinality(VersionsOf(j) \cup {Len(confirmed) + 1}) = Cardinality(VersionsOf(j)) + 1
    BY <2>1, FS_AddElement
  <2>3. CASE j = k  BY <1>8, <2>2, <2>3 DEF n
  <2>4. CASE j # k  BY <1>8, <2>4
  <2> QED BY <2>3, <2>4
<1>14. VersionsNumbered'
  <2> SUFFICES ASSUME NEW j \in Checks PROVE Numbers(j)' = 1..Cardinality(VersionsOf(j))'
    BY DEF VersionsNumbered
  <2>1. CASE j = k
    <3>1. (1..n) \cup {n + 1} = 1..(n + 1)  BY <1>5
    <3> QED BY <1>5, <1>6, <1>8, <1>13, <2>1, <3>1
  <2>2. CASE j # k  BY <1>1, <1>8, <1>13, <2>2 DEF VersionsNumbered
  <2> QED BY <2>1, <2>2
<1>15. ChecksHaveContent'
  <2> SUFFICES ASSUME NEW j \in Checks
               PROVE  /\ Exists(j)' <=> (HasDraft(j)' \/ VersionsOf(j)' # {})
                      /\ check'[j].status = "confirmed" => VersionsOf(j)' # {}
    BY DEF ChecksHaveContent
  <2>1. CASE j = k  BY <1>8, <1>10, <2>1 DEF Exists
  <2>2. CASE j # k
    <3>1. VersionsOf(j)' = VersionsOf(j) /\ check'[j] = check[j] /\ draft' = draft
      BY <1>3, <1>8, <1>10, <2>2
    <3> QED BY <3>1 DEF ChecksInv, ChecksAgree, ChecksHaveContent, Exists, HasDraft
  <2> QED BY <2>1, <2>2
<1>16. RequestsAgree'
  <2> SUFFICES ASSUME NEW d \in Clients
               PROVE  /\ client'[d].at \in {"updating", "confirming", "numbered"}
                            => client'[d].row \in Draft
                      /\ client'[d].at = "updating" => client'[d].row.revision < MaxRevision
                      /\ client'[d].at = "numbered" =>
                           client'[d].number \in 1..(Cardinality(VersionsOf(client[d].check)') + 1)
                      /\ client'[d].at = "discarding" => VersionsOf(client[d].check)' # {}
    BY DEF RequestsAgree
  <2>1. CASE d = c  BY <1>9, <2>1
  <2>2. CASE d # c
    <3>1. PICK j \in Checks : j = client[d].check  BY <1>1 DEF TypeOK, Request
    <3>2. client'[d] = client[d]  BY <1>9, <2>2
    <3>3. /\ Cardinality(VersionsOf(j)) \in Nat
          /\ Cardinality(VersionsOf(j)') \in {Cardinality(VersionsOf(j)),
                                              Cardinality(VersionsOf(j)) + 1}
          /\ VersionsOf(j) \subseteq VersionsOf(j)'
      BY <1>1, <1>8, <1>13, VersionsFinite DEF n
    <3>4. /\ client[d].at \in {"updating", "confirming", "numbered"} => client[d].row \in Draft
          /\ client[d].at = "updating" => client[d].row.revision < MaxRevision
          /\ client[d].at = "numbered" =>
               client[d].number \in 1..(Cardinality(VersionsOf(j)) + 1)
          /\ client[d].at = "discarding" => VersionsOf(j) # {}
      BY <3>1 DEF ChecksInv, RequestsAgree
    <3>5. VersionsOf(client[d].check)' = VersionsOf(j)'  BY <3>1, <3>2 DEF VersionsOf
    <3> QED BY <3>1, <3>2, <3>3, <3>4, <3>5
  <2> QED BY <2>1, <2>2
<1> QED BY <1>12, <1>14, <1>15, <1>16 DEF ChecksInv, ChecksAgree

LEMMA DiscardReadsKeeps ==
  ASSUME ChecksInv, NEW c \in Clients, DiscardReads(c)
  PROVE  ChecksInv'
<1>1. TypeOK  BY DEF ChecksInv, ChecksAgree
<1> DEFINE at  == IF VersionsOf(client[c].check) = {} THEN "deleting" ELSE "discarding"
           row == [client[c] EXCEPT !.at = at]
<1>2. client[c] \in Request  BY <1>1 DEF TypeOK
<1>3. at \in {"deleting", "discarding"} /\ (at = "discarding" => VersionsOf(client[c].check) # {})
  OBVIOUS
<1>4. client' = [client EXCEPT ![c] = row] /\ UNCHANGED <<checkRows, documents, results, locked>>
  BY <1>1 DEF DiscardReads, Goes, TypeOK
<1> HIDE DEF at
<1>5. row \in Request /\ row.at = at /\ row.check = client[c].check  BY <1>2, <1>3 DEF Request
<1> HIDE DEF row
<1> QED BY <1>3, <1>4, <1>5, ReadsKeep

\* discard_guardian_check of a check with versions: it had some when they were looked for.
LEMMA DiscardsDraftKeeps ==
  ASSUME ChecksInv, NEW c \in Clients, DiscardsDraft(c)
  PROVE  ChecksInv'
<1>1. TypeOK  BY DEF ChecksInv, ChecksAgree
<1>2. PICK k \in Checks : k = client[c].check  BY <1>1 DEF TypeOK, Request
<1>3. /\ draft' = [draft EXCEPT ![k] = NoDraft]
      /\ check' = [check EXCEPT ![k].status = "draft"]
      /\ Answered(c) /\ UNCHANGED <<confirmed, documents, results, locked>>
  BY <1>2 DEF DiscardsDraft
<1>4. VersionsOf(k) # {}  BY <1>2 DEF ChecksInv, RequestsAgree, DiscardsDraft
<1>5. /\ client' \in [Clients -> Request] /\ client'[c].at = "idle"
      /\ \A d \in Clients : d # c => client'[d] = client[d]
  BY <1>1, <1>3, AnsweredIs
<1>6. /\ check' \in [Checks -> Check] /\ check'[k].status = "draft"
      /\ draft' \in [Checks -> Draft \cup {NoDraft}]
      /\ \A j \in Checks : j # k => check'[j] = check[j] /\ draft'[j] = draft[j]
  <2>1. [check[k] EXCEPT !.status = "draft"] \in Check  BY <1>1 DEF TypeOK, Check
  <2> QED BY <1>1, <1>3, <2>1 DEF TypeOK, Check
<1>7. TypeOK'  BY <1>1, <1>3, <1>5, <1>6, ChecksTyped
<1>8. Exists(k)' /\ check'[k].status # "confirmed"  BY <1>6 DEF Exists
<1> QED BY <1>3, <1>4, <1>5, <1>6, <1>7, <1>8, RequestWrites

\* ... and of one without: the foreign key of the versions would refuse another.
LEMMA DeletesCheckKeeps ==
  ASSUME ChecksInv, NEW c \in Clients, DeletesCheck(c)
  PROVE  ChecksInv'
<1>1. TypeOK  BY DEF ChecksInv, ChecksAgree
<1>2. PICK k \in Checks : k = client[c].check  BY <1>1 DEF TypeOK, Request
<1>3. /\ draft' = [draft EXCEPT ![k] = NoDraft]
      /\ check' = [check EXCEPT ![k].status = "deleted"]
      /\ VersionsOf(k) = {}
      /\ Answered(c) /\ UNCHANGED <<confirmed, documents, results, locked>>
  BY <1>2 DEF DeletesCheck, Deletable
<1>4. /\ client' \in [Clients -> Request] /\ client'[c].at = "idle"
      /\ \A d \in Clients : d # c => client'[d] = client[d]
  BY <1>1, <1>3, AnsweredIs
<1>5. /\ check' \in [Checks -> Check] /\ check'[k].status = "deleted"
      /\ draft' \in [Checks -> Draft \cup {NoDraft}] /\ draft'[k] = NoDraft
      /\ \A j \in Checks : j # k => check'[j] = check[j] /\ draft'[j] = draft[j]
  <2>1. [check[k] EXCEPT !.status = "deleted"] \in Check  BY <1>1 DEF TypeOK, Check
  <2> QED BY <1>1, <1>3, <2>1 DEF TypeOK, Check
<1>6. TypeOK'  BY <1>1, <1>3, <1>4, <1>5, ChecksTyped
<1>7. ~Exists(k)' /\ ~HasDraft(k)' /\ check'[k].status # "confirmed"
  BY <1>5 DEF Exists, HasDraft
<1> QED BY <1>3, <1>4, <1>5, <1>6, <1>7, RequestWrites

\* Requests to edit, confirm and discard keep checks, drafts and versions in agreement.
LEMMA ClientStepKeeps ==
  ASSUME ChecksInv, NEW c \in Clients, ClientStep(c)
  PROVE  ChecksInv' /\ UNCHANGED <<documents, results, locked, evaluation>>
<1>1. UNCHANGED <<documents, results, locked, evaluation>>
  BY DEF ClientStep, Create, Look, UpdateReads, UpdateWrites, ConfirmReads, ConfirmNumbers,
     ConfirmInserts, ConfirmFails, DiscardReads, DiscardsDraft, DeletesCheck, DeleteRefused
<1>2. CASE ConfirmFails(c)  BY <1>2, RefusedKeeps DEF ConfirmFails
<1>3. CASE DeleteRefused(c)  BY <1>3, RefusedKeeps DEF DeleteRefused
<1> QED BY <1>1, <1>2, <1>3, CreateKeeps, LookKeeps, UpdateReadsKeeps, UpdateWritesKeeps,
           ConfirmReadsKeeps, ConfirmNumbersKeeps, ConfirmInsertsKeeps, DiscardReadsKeeps,
           DiscardsDraftKeeps, DeletesCheckKeeps DEF ClientStep

-------------------------------------------------------------------------------
(* Evaluations *)

\* Rows are added after those there are.
Grows(old, new) ==
  /\ Len(old) \in Nat /\ Len(new) \in Nat /\ Len(old) <= Len(new)
  /\ DOMAIN old = 1..Len(old) /\ DOMAIN new = 1..Len(new)
  /\ \A i \in 1..Len(old) : new[i] = old[i]

LEMMA AppendGrows ==
  ASSUME NEW S, NEW rows \in Seq(S), NEW row \in S
  PROVE  Grows(rows, rows) /\ Grows(rows, Append(rows, row))
BY LenProperties, AppendProperties DEF Grows

\* A breach depends on the policy or on the date, as its fingerprint does.
LEMMA ExceededBy ==
  ASSUME NEW version, version.kind \in Kinds, NEW snapshot,
         NEW target1, NEW target2, NEW date1, NEW date2,
         IF version.kind = "staleness" THEN date1 = date2 ELSE target1 = target2
  PROVE  Exceeded(version, target1, snapshot, date1) <=> Exceeded(version, target2, snapshot, date2)
<1>1. CASE version.kind = "staleness"  BY <1>1 DEF Exceeded
<1>2. CASE version.kind = "drift"  BY <1>2 DEF Exceeded
<1>3. CASE version.kind = "category_exposure"  BY <1>3 DEF Exceeded
<1> QED BY <1>1, <1>2, <1>3 DEF Kinds

\* What an evaluation has read, by where it is.
LEMMA EvaluationIs ==
  ASSUME EvaluationTypeOK, NEW e \in Evaluators
  PROVE  LET ev == evaluation[e]
         IN  /\ ev \in EvaluationRow
             /\ ev.at \in {"none", "locked", "policy", "snapshot"}
             /\ ev.at # "none" => ev.target \in Checks \cup {Everything} /\ ev.asOf \in Days
             /\ ev.at \in {"policy", "snapshot"} => ev.policy \in 1..Len(policies)
             /\ ev.at = "snapshot" => ev.snapshot \in 1..Len(snapshots)
BY DEF EvaluationTypeOK, EvaluationRow

\* Rows that are added to versions, policies and snapshots change nothing of what was
\* evaluated, or is being evaluated.
LEMMA InputsGrow ==
  ASSUME IInv, TypeOK', InputsBounded', UNCHANGED <<results, locked, evaluation>>,
         Grows(confirmed, confirmed'), Grows(policies, policies'), Grows(snapshots, snapshots')
  PROVE  EvaluationsInv'
<1>1. TypeOK  BY DEF IInv, ChecksInv, ChecksAgree
<1>2. /\ 1..Len(policies) \subseteq 1..Len(policies')
      /\ 1..Len(snapshots) \subseteq 1..Len(snapshots')
      /\ DOMAIN confirmed \subseteq DOMAIN confirmed'
  BY DEF Grows
<1>3. UNCHANGED runs /\ UNCHANGED events /\ UNCHANGED locked /\ UNCHANGED evaluation
  BY DEF results
<1>4. EvaluationTypeOK'
  <2>1. EvaluationRow \subseteq EvaluationRow'  BY <1>2 DEF EvaluationRow
  <2>2. evaluation' \in [Evaluators -> EvaluationRow']
    BY <1>3, <2>1 DEF IInv, EvaluationsInv, EvaluationTypeOK
  <2>3. Run \subseteq Run'  BY <1>2 DEF Run
  <2>4. runs' \in Seq(Run')
    BY <1>3, <2>3, SeqMonotonic DEF IInv, EvaluationsInv, EvaluationTypeOK
  <2> QED BY <2>2, <2>4 DEF EvaluationTypeOK
<1>5. EvaluationLocked'  BY <1>3 DEF IInv, EvaluationsInv, EvaluationLocked
<1>6. RunsAgree'  BY <1>2, <1>3 DEF IInv, EvaluationsInv, RunsAgree
<1>7. \A event \in events : event.version \in DOMAIN confirmed
                            /\ confirmed'[event.version] = confirmed[event.version]
  <2> SUFFICES ASSUME NEW event \in events
               PROVE  event.version \in DOMAIN confirmed
                      /\ confirmed'[event.version] = confirmed[event.version]
    OBVIOUS
  <2>1. event.version \in DOMAIN confirmed  BY <1>1 DEF TypeOK, Event
  <2> QED BY <2>1 DEF Grows
<1>8. EventsAreBreaches'
  <2> SUFFICES ASSUME NEW event \in events
               PROVE  /\ event.policy \in 1..Len(policies') /\ event.snapshot \in 1..Len(snapshots')
                      /\ Exceeded(confirmed'[event.version], policies'[event.policy],
                                  snapshots'[event.snapshot], event.asOf)
    BY <1>3 DEF EventsAreBreaches, Exceeded
  <2>1. /\ event.policy \in 1..Len(policies) /\ event.snapshot \in 1..Len(snapshots)
        /\ Exceeded(confirmed[event.version], policies[event.policy],
                    snapshots[event.snapshot], event.asOf)
    BY DEF IInv, EvaluationsInv, EventsAreBreaches
  <2>2. policies'[event.policy] = policies[event.policy]
        /\ snapshots'[event.snapshot] = snapshots[event.snapshot]
    BY <2>1 DEF Grows
  <2> QED BY <1>2, <1>7, <2>1, <2>2
<1>9. EventsAreUnique'
  BY <1>3, <1>7 DEF IInv, EvaluationsInv, EventsAreUnique, Fingerprint
<1>10. BreachesHaveEvents'
  <2> SUFFICES ASSUME NEW i \in DOMAIN runs, NEW v \in runs[i].versions,
                      Exceeded(confirmed'[v], policies'[runs[i].policy],
                               snapshots'[runs[i].snapshot], runs[i].asOf)
               PROVE  \E event \in events : Concerns(event, i, v)'
    BY <1>3 DEF BreachesHaveEvents, Exceeded
  <2>1. runs[i] \in Run /\ v \in DOMAIN confirmed  BY <1>1 DEF TypeOK, Run
  <2>2. confirmed'[v] = confirmed[v]  BY <2>1 DEF Grows
  <2>3. runs[i].policy \in 1..Len(policies) /\ runs[i].snapshot \in 1..Len(snapshots)
    BY DEF IInv, EvaluationsInv, RunsAgree
  <2>4. Exceeded(confirmed[v], policies[runs[i].policy], snapshots[runs[i].snapshot], runs[i].asOf)
    BY <2>2, <2>3 DEF Grows
  <2>5. PICK event \in events : Concerns(event, i, v)
    BY <2>4 DEF IInv, EvaluationsInv, BreachesHaveEvents
  <2> QED BY <1>3, <2>2, <2>5 DEF Concerns
<1>11. EvaluationsMoveForward'
  BY <1>3 DEF IInv, EvaluationsInv, EvaluationsMoveForward
<1>12. RunsMoveForward'  BY <1>3 DEF IInv, EvaluationsInv, RunsMoveForward
<1> QED BY <1>4, <1>5, <1>6, <1>8, <1>9, <1>10, <1>11, <1>12 DEF EvaluationsInv

\* An evaluation that has read something more goes on with the lock.
LEMMA EvaluationReads ==
  ASSUME IInv, NEW e \in Evaluators, NEW row \in EvaluationRow,
         evaluation' = [evaluation EXCEPT ![e] = row],
         UNCHANGED <<checkRows, documents, results, client>>,
         locked' = e, locked \in {e, NoOne}, Len(runs) < MaxRuns,
         \A i \in DOMAIN runs : runs[i].status = "completed" =>
           /\ row.at \in {"policy", "snapshot"} => runs[i].policy <= row.policy
           /\ row.at = "snapshot" => runs[i].snapshot <= row.snapshot
  PROVE  IInv'
<1>1. TypeOK  BY DEF IInv, ChecksInv, ChecksAgree
<1>2. TypeOK'  BY <1>1 DEF TypeOK, checkRows, documents, results, Run, Event
<1>3. ChecksInv'
  <2>1. \A k : VersionsOf(k)' = VersionsOf(k) /\ Numbers(k)' = Numbers(k)
                /\ Exists(k)' = Exists(k) /\ HasDraft(k)' = HasDraft(k)
    BY DEF checkRows, VersionsOf, Numbers, Exists, HasDraft
  <2>2. VersionsNumbered'  BY <2>1 DEF IInv, ChecksInv, ChecksAgree, VersionsNumbered
  <2>3. ChecksHaveContent'
    BY <2>1 DEF IInv, ChecksInv, ChecksAgree, ChecksHaveContent, checkRows
  <2>4. RequestsAgree'  BY <2>1 DEF IInv, ChecksInv, RequestsAgree, VersionsOf, checkRows
  <2> QED BY <1>2, <2>2, <2>3, <2>4 DEF ChecksInv, ChecksAgree
<1>4. \A d \in Evaluators : evaluation'[d] = IF d = e THEN row ELSE evaluation[d]
  BY DEF IInv, EvaluationsInv, EvaluationTypeOK
<1>5. EvaluationTypeOK'
  <2>1. EvaluationRow' = EvaluationRow /\ Run' = Run
    BY DEF EvaluationRow, Run, documents, checkRows
  <2>2. evaluation' \in [Evaluators -> EvaluationRow]
    BY DEF IInv, EvaluationsInv, EvaluationTypeOK
  <2> QED BY <2>1, <2>2 DEF IInv, EvaluationsInv, EvaluationTypeOK, results
<1>6. EvaluationLocked'
  BY <1>4, NoOneAssumption DEF IInv, EvaluationsInv, EvaluationLocked, results
<1>7. RunsAgree' /\ RunsMoveForward' /\ InputsBounded'
  BY DEF IInv, EvaluationsInv, RunsAgree, RunsMoveForward, InputsBounded, documents, results
<1>8. EventsAreBreaches' /\ EventsAreUnique' /\ BreachesHaveEvents'
  <2> USE DEF IInv, EvaluationsInv, documents, results, checkRows
  <2>1. EventsAreBreaches'  BY DEF EventsAreBreaches, Exceeded
  <2>2. EventsAreUnique'  BY DEF EventsAreUnique, Fingerprint
  <2>3. BreachesHaveEvents'
    <3> SUFFICES ASSUME NEW i \in DOMAIN runs, NEW v \in runs[i].versions,
                        Exceeded(confirmed[v], policies[runs[i].policy],
                                 snapshots[runs[i].snapshot], runs[i].asOf)
                 PROVE  \E event \in events : Concerns(event, i, v)'
      BY DEF BreachesHaveEvents, Exceeded
    <3>1. PICK event \in events : Concerns(event, i, v)  BY DEF BreachesHaveEvents
    <3> QED BY <3>1 DEF Concerns
  <2> QED BY <2>1, <2>2, <2>3
<1>9. EvaluationsMoveForward'
  <2> SUFFICES ASSUME NEW i \in DOMAIN runs, NEW d \in Evaluators, runs[i].status = "completed"
               PROVE  /\ evaluation'[d].at \in {"policy", "snapshot"}
                           => runs[i].policy <= evaluation'[d].policy
                      /\ evaluation'[d].at = "snapshot"
                           => runs[i].snapshot <= evaluation'[d].snapshot
    BY DEF EvaluationsMoveForward, results
  <2>1. CASE d = e  BY <1>4, <2>1
  <2>2. CASE d # e  BY <1>4, <2>2 DEF IInv, EvaluationsInv, EvaluationsMoveForward
  <2> QED BY <2>1, <2>2
<1> QED BY <1>3, <1>5, <1>6, <1>7, <1>8, <1>9 DEF IInv, EvaluationsInv

\* An evaluation commits its run, and with it the events of breaches that had none.
LEMMA EvaluationCommits ==
  ASSUME IInv, NEW e \in Evaluators, evaluation[e].at # "none",
         NEW row \in Run, Commits(e, row), events \subseteq events',
         \A a \in events' \ events :
           /\ a \in Event
           /\ a.policy \in 1..Len(policies) /\ a.snapshot \in 1..Len(snapshots)
           /\ Exceeded(confirmed[a.version], policies[a.policy], snapshots[a.snapshot], a.asOf)
           /\ \A b \in events' : Fingerprint(a) = Fingerprint(b) => a = b,
         IF row.status = "completed"
         THEN row.policy \in 1..Len(policies) /\ row.snapshot \in 1..Len(snapshots)
         ELSE row.versions = {},
         \A v \in row.versions :
           Exceeded(confirmed[v], policies[row.policy], snapshots[row.snapshot], row.asOf)
           => \E event \in events' :
                /\ event.version = v /\ event.snapshot = row.snapshot
                /\ IF confirmed[v].kind = "staleness" THEN event.asOf = row.asOf
                                                      ELSE event.policy = row.policy,
         \A i \in DOMAIN runs : runs[i].status = "completed" =>
           /\ row.status # "skipped_no_published_policy"
           /\ row.status = "completed" =>
                runs[i].policy <= row.policy /\ runs[i].snapshot <= row.snapshot
  PROVE  IInv'
<1> DEFINE last == Len(runs) + 1
<1>1. TypeOK  BY DEF IInv, ChecksInv, ChecksAgree
<1>2. UNCHANGED <<check, draft, confirmed, policies, snapshots, client>>
  BY DEF Commits, checkRows, documents
<1>3. /\ locked' = NoOne /\ evaluation' = [evaluation EXCEPT ![e] = [at |-> "none"]]
      /\ runs' = Append(runs, row)
  BY DEF Commits
<1>4. runs \in Seq(Run)  BY DEF IInv, EvaluationsInv, EvaluationTypeOK
<1>5. /\ runs' \in Seq(Run) /\ Len(runs) \in Nat
      /\ DOMAIN runs = 1..Len(runs) /\ DOMAIN runs' = 1..last
      /\ \A i \in 1..Len(runs) : runs'[i] = runs[i] /\ runs[i] \in Run
      /\ runs'[last] = row
  BY <1>3, <1>4, AppendProperties, LenProperties, ElementOfSeq
<1> HIDE DEF last
<1>6. Run' = Run /\ Event' = Event /\ EvaluationRow' = EvaluationRow
  BY <1>2 DEF Run, Event, EvaluationRow
<1>7. \A i \in 1..last : i = last \/ i \in 1..Len(runs)  BY <1>5 DEF last
<1>8. \A i \in DOMAIN runs' : runs'[i] \in Run  BY <1>5, <1>7
<1>9. events' \subseteq Event  BY <1>1 DEF TypeOK
<1>10. TypeOK'
  <2>1. locked' \in Evaluators \cup {NoOne}  BY <1>3
  <2> QED BY <1>1, <1>2, <1>6, <1>8, <1>9, <2>1 DEF TypeOK
<1>11. ChecksInv'
  <2>1. \A k : VersionsOf(k)' = VersionsOf(k) /\ Numbers(k)' = Numbers(k)
                /\ Exists(k)' = Exists(k) /\ HasDraft(k)' = HasDraft(k)
    BY <1>2 DEF VersionsOf, Numbers, Exists, HasDraft
  <2>2. VersionsNumbered'  BY <2>1 DEF IInv, ChecksInv, ChecksAgree, VersionsNumbered
  <2>3. ChecksHaveContent'
    BY <1>2, <2>1 DEF IInv, ChecksInv, ChecksAgree, ChecksHaveContent
  <2>4. RequestsAgree'  BY <1>2, <2>1 DEF IInv, ChecksInv, RequestsAgree, VersionsOf
  <2> QED BY <1>10, <2>2, <2>3, <2>4 DEF ChecksInv, ChecksAgree
<1>12. \A d \in Evaluators : evaluation'[d].at = "none"
  BY <1>3 DEF IInv, EvaluationsInv, EvaluationTypeOK, EvaluationLocked
<1>13. EvaluationTypeOK'
  <2>1. evaluation' \in [Evaluators -> EvaluationRow]
    BY <1>3 DEF IInv, EvaluationsInv, EvaluationTypeOK, EvaluationRow
  <2> QED BY <1>5, <1>6, <2>1 DEF EvaluationTypeOK
<1>14. EvaluationLocked' /\ EvaluationsMoveForward'
  BY <1>12 DEF EvaluationLocked, EvaluationsMoveForward
<1>15. RunsAgree' /\ InputsBounded'
  BY <1>2, <1>5, <1>7 DEF IInv, EvaluationsInv, RunsAgree, InputsBounded
<1>16. EventsAreBreaches'
  <2> SUFFICES ASSUME NEW a \in events'
               PROVE  /\ a.policy \in 1..Len(policies) /\ a.snapshot \in 1..Len(snapshots)
                      /\ Exceeded(confirmed[a.version], policies[a.policy],
                                  snapshots[a.snapshot], a.asOf)
    BY <1>2 DEF EventsAreBreaches, Exceeded
  <2> QED BY DEF IInv, EvaluationsInv, EventsAreBreaches
<1>17. EventsAreUnique'
  <2>1. \A a : Fingerprint(a)' = Fingerprint(a)  BY <1>2 DEF Fingerprint
  <2> QED BY <2>1 DEF IInv, EvaluationsInv, EventsAreUnique
<1>18. BreachesHaveEvents'
  <2> SUFFICES ASSUME NEW i \in DOMAIN runs', NEW v \in runs'[i].versions,
                      Exceeded(confirmed[v], policies[runs'[i].policy],
                               snapshots[runs'[i].snapshot], runs'[i].asOf)
               PROVE  \E event \in events' : Concerns(event, i, v)'
    BY <1>2 DEF BreachesHaveEvents, Exceeded
  <2>1. CASE i = last  BY <1>2, <1>5, <2>1 DEF Concerns
  <2>2. CASE i \in 1..Len(runs)
    <3>1. PICK event \in events : Concerns(event, i, v)
      BY <1>5, <2>2 DEF IInv, EvaluationsInv, BreachesHaveEvents
    <3> QED BY <1>2, <1>5, <2>2, <3>1 DEF Concerns
  <2> QED BY <1>5, <1>7, <2>1, <2>2
<1>19. RunsMoveForward'
  <2> SUFFICES ASSUME NEW i \in 1..last, NEW j \in 1..last, i < j, runs'[i].status = "completed"
               PROVE  /\ runs'[j].status # "skipped_no_published_policy"
                      /\ runs'[j].status = "completed" =>
                           /\ runs'[i].policy <= runs'[j].policy
                           /\ runs'[i].snapshot <= runs'[j].snapshot
    BY <1>5 DEF RunsMoveForward
  <2>1. i \in 1..Len(runs)  BY <1>5 DEF last
  <2>2. CASE j = last  BY <1>5, <2>1, <2>2
  <2>3. CASE j \in 1..Len(runs)
    BY <1>5, <2>1, <2>3 DEF IInv, EvaluationsInv, RunsMoveForward
  <2> QED BY <1>7, <2>2, <2>3
<1> QED BY <1>11, <1>13, <1>14, <1>15, <1>16, <1>17, <1>18, <1>19 DEF IInv, EvaluationsInv

LEMMA LockKeeps ==
  ASSUME IInv, NEW e \in Evaluators, NEW target \in Checks \cup {Everything}, NEW asOf \in Days,
         Lock(e, target, asOf)
  PROVE  IInv'
<1> DEFINE row == [at |-> "locked", target |-> target, asOf |-> asOf]
<1>1. row \in EvaluationRow /\ row.at = "locked"  BY DEF EvaluationRow
<1>2. /\ evaluation' = [evaluation EXCEPT ![e] = row]
      /\ UNCHANGED <<checkRows, documents, results, client>>
      /\ locked' = e /\ locked = NoOne /\ Len(runs) < MaxRuns
  BY DEF Lock, LockFree
<1> HIDE DEF row
<1> QED BY <1>1, <1>2, EvaluationReads

LEMMA ReadPolicyKeeps ==
  ASSUME IInv, NEW e \in Evaluators, ReadPolicy(e)
  PROVE  IInv'
<1> DEFINE ev  == evaluation[e]
           row == [at |-> "policy", target |-> ev.target, asOf |-> ev.asOf,
                   policy |-> Len(policies)]
<1>1. TypeOK /\ EvaluationTypeOK  BY DEF IInv, ChecksInv, ChecksAgree, EvaluationsInv
<1>2. ev.at = "locked" /\ ev.target \in Checks \cup {Everything} /\ ev.asOf \in Days
  BY <1>1, EvaluationIs DEF ReadPolicy
<1>3. Len(policies) \in 1..Len(policies)
  BY <1>1, EmptySeq, LenProperties DEF ReadPolicy, TypeOK
<1>4. row \in EvaluationRow /\ row.at = "policy" /\ row.policy = Len(policies)
  BY <1>2, <1>3 DEF EvaluationRow
<1>5. evaluation' = [evaluation EXCEPT ![e] = row]
      /\ UNCHANGED <<checkRows, documents, results, client, locked>>
  BY <1>1 DEF ReadPolicy, EvaluationTypeOK
<1>6. locked = e /\ Len(runs) < MaxRuns  BY <1>2 DEF IInv, EvaluationsInv, EvaluationLocked
<1>7. \A i \in DOMAIN runs : runs[i].status = "completed" => runs[i].policy <= Len(policies)
  BY DEF IInv, EvaluationsInv, RunsAgree
<1> HIDE DEF row, ev
<1> QED BY <1>4, <1>5, <1>6, <1>7, EvaluationReads

LEMMA ReadSnapshotKeeps ==
  ASSUME IInv, NEW e \in Evaluators, ReadSnapshot(e)
  PROVE  IInv'
<1> DEFINE ev  == evaluation[e]
           row == [at |-> "snapshot", target |-> ev.target, asOf |-> ev.asOf,
                   policy |-> ev.policy, snapshot |-> Len(snapshots)]
<1>1. TypeOK /\ EvaluationTypeOK  BY DEF IInv, ChecksInv, ChecksAgree, EvaluationsInv
<1>2. ev.at = "policy" /\ ev.target \in Checks \cup {Everything} /\ ev.asOf \in Days
      /\ ev.policy \in 1..Len(policies)
  BY <1>1, EvaluationIs DEF ReadSnapshot
<1>3. Len(snapshots) \in 1..Len(snapshots)
  BY <1>1, EmptySeq, LenProperties DEF ReadSnapshot, TypeOK
<1>4. row \in EvaluationRow /\ row.at = "snapshot" /\ row.policy = ev.policy
      /\ row.snapshot = Len(snapshots)
  BY <1>2, <1>3 DEF EvaluationRow
<1>5. evaluation' = [evaluation EXCEPT ![e] = row]
      /\ UNCHANGED <<checkRows, documents, results, client, locked>>
  BY <1>1 DEF ReadSnapshot, EvaluationTypeOK
<1>6. locked = e /\ Len(runs) < MaxRuns  BY <1>2 DEF IInv, EvaluationsInv, EvaluationLocked
<1>7. \A i \in DOMAIN runs : runs[i].status = "completed" =>
        runs[i].policy <= ev.policy /\ runs[i].snapshot <= Len(snapshots)
  BY <1>2 DEF IInv, EvaluationsInv, RunsAgree, EvaluationsMoveForward
<1> HIDE DEF row, ev
<1> QED BY <1>4, <1>5, <1>6, <1>7, EvaluationReads

\* A run that evaluates nothing; one without a policy is none that comes after a complete one.
LEMMA SkipsKeeps ==
  ASSUME IInv, NEW e \in Evaluators, evaluation[e].at # "none",
         NEW status \in {"skipped_no_published_policy", "skipped_no_portfolio_snapshot",
                         "skipped_zero_total_value"},
         status = "skipped_no_published_policy" => policies = <<>>,
         Skips(e, status)
  PROVE  IInv'
<1> DEFINE row == [status |-> status, asOf |-> evaluation[e].asOf,
                   policy |-> 0, snapshot |-> 0, versions |-> {}]
<1>1. evaluation[e].asOf \in Days  BY EvaluationIs DEF IInv, EvaluationsInv
<1>2. row \in Run /\ row.status = status /\ row.status # "completed" /\ row.versions = {}
  <2>1. 0 \in 0..MaxInputs  BY BoundsAssumption
  <2> QED BY <1>1, <2>1 DEF Run
<1>3. Commits(e, row) /\ events' = events  BY DEF Skips
<1>4. \A i \in DOMAIN runs : runs[i].status = "completed" =>
        row.status # "skipped_no_published_policy"
  <2> SUFFICES ASSUME NEW i \in DOMAIN runs, runs[i].status = "completed", policies = <<>>
               PROVE  FALSE
    BY <1>2
  <2>1. runs[i].policy \in 1..Len(policies)  BY DEF IInv, EvaluationsInv, RunsAgree
  <2> QED BY <2>1, EmptySeq
<1> HIDE DEF row
<1> QED BY <1>2, <1>3, <1>4, EvaluationCommits

\* uq_guardian_events_*: what was found and has no event gets one, once.
LEMMA CompleteKeeps ==
  ASSUME IInv, NEW e \in Evaluators, Complete(e)
  PROVE  IInv'
<1> DEFINE ev       == evaluation[e]
           row      == [status |-> "completed", asOf |-> ev.asOf, policy |-> ev.policy,
                        snapshot |-> ev.snapshot, versions |-> Evaluated(ev.target)]
           Of(v)    == [run |-> Len(runs) + 1, version |-> v, policy |-> ev.policy,
                        snapshot |-> ev.snapshot, asOf |-> ev.asOf]
           Breach(v) == Exceeded(confirmed[v], policies[ev.policy], snapshots[ev.snapshot], ev.asOf)
<1>1. TypeOK /\ EvaluationTypeOK  BY DEF IInv, ChecksInv, ChecksAgree, EvaluationsInv
<1>2. /\ ev.at = "snapshot" /\ ev.asOf \in Days
      /\ ev.policy \in 1..Len(policies) /\ ev.snapshot \in 1..Len(snapshots)
  BY <1>1, EvaluationIs DEF Complete
<1>3. Evaluated(ev.target) \subseteq DOMAIN confirmed  BY DEF Evaluated, VersionsOf
<1>4. /\ Len(policies) \in 0..MaxInputs /\ Len(snapshots) \in 0..MaxInputs
  BY DEF IInv, EvaluationsInv, InputsBounded
<1>5. ev.policy \in 1..MaxInputs /\ ev.snapshot \in 1..MaxInputs
  BY <1>2, <1>4, BoundsAssumption
<1>6. row \in Run  BY <1>2, <1>3, <1>5, BoundsAssumption DEF Run
<1>7. Len(runs) \in Nat /\ Len(runs) + 1 \in 1..MaxRuns
  BY <1>1, <1>2, LenProperties, BoundsAssumption
  DEF IInv, EvaluationsInv, EvaluationLocked, EvaluationTypeOK
<1>8. \A v \in Evaluated(ev.target) : Of(v) \in Event  BY <1>2, <1>3, <1>5, <1>7 DEF Event
<1>9. NewEvents(e) = {event \in {Of(v) : v \in {w \in Evaluated(ev.target) : Breach(w)}} :
                        \A old \in events : Fingerprint(old) # Fingerprint(event)}
  BY DEF NewEvents
<1>10. Commits(e, row) /\ events' = events \cup NewEvents(e)  BY DEF Complete
<1>11. /\ row.status = "completed" /\ row.policy = ev.policy /\ row.snapshot = ev.snapshot
       /\ row.asOf = ev.asOf /\ row.versions = Evaluated(ev.target)
  OBVIOUS
<1>12. \A v : /\ Of(v).version = v /\ Of(v).policy = ev.policy
              /\ Of(v).snapshot = ev.snapshot /\ Of(v).asOf = ev.asOf
  OBVIOUS
<1>13. \A v, w : Fingerprint(Of(v)) = Fingerprint(Of(w)) => v = w  BY <1>12 DEF Fingerprint
<1> HIDE DEF Of, row, Breach
<1>14. ASSUME NEW a \in events' \ events
       PROVE  /\ a \in Event
              /\ a.policy \in 1..Len(policies) /\ a.snapshot \in 1..Len(snapshots)
              /\ Exceeded(confirmed[a.version], policies[a.policy], snapshots[a.snapshot], a.asOf)
              /\ \A b \in events' : Fingerprint(a) = Fingerprint(b) => a = b
  <2>1. PICK v \in Evaluated(ev.target) : Breach(v) /\ a = Of(v)  BY <1>9, <1>10, <1>14
  <2>2. \A old \in events : Fingerprint(old) # Fingerprint(a)  BY <1>9, <1>10, <1>14
  <2>3. ASSUME NEW b \in events', Fingerprint(a) = Fingerprint(b) PROVE a = b
    <3>1. b \in NewEvents(e)  BY <1>10, <2>2, <2>3
    <3>2. PICK w \in Evaluated(ev.target) : b = Of(w)  BY <1>9, <3>1
    <3> QED BY <1>13, <2>1, <2>3, <3>2
  <2>4. Exceeded(confirmed[a.version], policies[a.policy], snapshots[a.snapshot], a.asOf)
    BY <1>12, <2>1 DEF Breach
  <2> QED BY <1>2, <1>8, <1>12, <2>1, <2>3, <2>4
<1>15. ASSUME NEW v \in row.versions,
              Exceeded(confirmed[v], policies[row.policy], snapshots[row.snapshot], row.asOf)
       PROVE  \E event \in events' :
                /\ event.version = v /\ event.snapshot = row.snapshot
                /\ IF confirmed[v].kind = "staleness" THEN event.asOf = row.asOf
                                                      ELSE event.policy = row.policy
  <2>1. v \in Evaluated(ev.target) /\ Breach(v)  BY <1>11, <1>15 DEF Breach
  <2>2. CASE Of(v) \in NewEvents(e)  BY <1>10, <1>11, <1>12, <2>2
  <2>3. CASE Of(v) \notin NewEvents(e)
    <3>1. PICK old \in events : Fingerprint(old) = Fingerprint(Of(v))  BY <1>9, <2>1, <2>3
    <3> QED BY <1>10, <1>11, <1>12, <3>1 DEF Fingerprint
  <2> QED BY <2>2, <2>3
<1>16. \A i \in DOMAIN runs : runs[i].status = "completed" =>
         /\ row.status # "skipped_no_published_policy"
         /\ runs[i].policy <= row.policy /\ runs[i].snapshot <= row.snapshot
  BY <1>2, <1>11 DEF IInv, EvaluationsInv, EvaluationsMoveForward
<1> QED BY <1>2, <1>6, <1>10, <1>11, <1>14, <1>15, <1>16, EvaluationCommits

LEMMA EvaluatorStepKeeps ==
  ASSUME IInv, NEW e \in Evaluators, EvaluatorStep(e)
  PROVE  IInv'
<1>1. CASE SkipNoPolicy(e)
  BY <1>1, SkipsKeeps DEF SkipNoPolicy
<1>2. CASE SkipNoSnapshot(e)
  BY <1>2, SkipsKeeps DEF SkipNoSnapshot
<1>3. CASE SkipZeroValue(e)
  BY <1>3, SkipsKeeps DEF SkipZeroValue
<1> QED BY <1>1, <1>2, <1>3, LockKeeps, ReadPolicyKeeps, ReadSnapshotKeeps, CompleteKeeps
        DEF EvaluatorStep

-------------------------------------------------------------------------------
(* The invariants of GuardianChecks *)

LEMMA InitIInv == Init => IInv
<1> SUFFICES ASSUME Init PROVE IInv  OBVIOUS
<1>1. \A k \in Checks : VersionsOf(k) = {} /\ Numbers(k) = {}
  BY EmptySeq DEF Init, VersionsOf, Numbers
<1>2. TypeOK
  <2>1. \A S : <<>> \in Seq(S)  BY EmptySeq
  <2>2. DOMAIN runs = {}  BY DEF Init
  <2>3. client \in [Clients -> Request]
    <3>1. 0 \in 0..MaxVersions + 1  BY BoundsAssumption
    <3>2. \A k \in Checks : [at |-> "idle", check |-> k, row |-> NoDraft, number |-> 0] \in Request
      BY <3>1 DEF Request
    <3> QED BY <3>2 DEF Init
  <2>4. check \in [Checks -> Check] /\ draft \in [Checks -> Draft \cup {NoDraft}]
    BY DEF Init, Check, Kinds
  <2> QED BY <2>1, <2>2, <2>3, <2>4 DEF Init, TypeOK
<1>3. VersionsNumbered
  BY <1>1, FS_EmptySet DEF VersionsNumbered
<1>4. ChecksHaveContent  BY <1>1 DEF Init, ChecksHaveContent, Exists, HasDraft
<1>5. RequestsAgree  BY DEF Init, RequestsAgree
<1>6. EvaluationTypeOK
  <2>1. evaluation \in [Evaluators -> EvaluationRow]  BY DEF Init, EvaluationRow
  <2> QED BY <2>1, EmptySeq DEF Init, EvaluationTypeOK
<1>7. EvaluationLocked /\ EvaluationsMoveForward
  BY DEF Init, EvaluationLocked, EvaluationsMoveForward
<1>8. InputsBounded  BY EmptySeq, BoundsAssumption DEF Init, InputsBounded
<1>9. RunsAgree /\ BreachesHaveEvents /\ RunsMoveForward /\ EventsAreBreaches /\ EventsAreUnique
  BY DEF Init, RunsAgree, BreachesHaveEvents, RunsMoveForward, EventsAreBreaches, EventsAreUnique
<1> QED BY <1>2, <1>3, <1>4, <1>5, <1>6, <1>7, <1>8, <1>9
        DEF IInv, ChecksInv, ChecksAgree, EvaluationsInv

\* Clients, and those who publish policies and confirm snapshots, only add to what
\* evaluations read.
LEMMA ClientStepIInv == ASSUME IInv, NEW c \in Clients, ClientStep(c) PROVE IInv'
<1>1. TypeOK  BY DEF IInv, ChecksInv, ChecksAgree
<1>2. ChecksInv' /\ UNCHANGED <<documents, results, locked, evaluation>>
  BY ClientStepKeeps DEF IInv
<1>3. TypeOK'  BY <1>2 DEF ChecksInv, ChecksAgree
<1>4. Grows(policies, policies') /\ Grows(snapshots, snapshots')
  BY <1>1, <1>2, LenProperties DEF Grows, TypeOK, documents
<1>5. Grows(confirmed, confirmed')
  <2>1. CASE UNCHANGED confirmed  BY <1>1, <2>1, LenProperties DEF Grows, TypeOK
  <2>2. CASE confirmed' = Append(confirmed, NewVersion(c))
    <3>1. /\ Len(confirmed) \in Nat /\ DOMAIN confirmed = 1..Len(confirmed)
          /\ Len(confirmed') \in Nat /\ DOMAIN confirmed' = 1..Len(confirmed')
      BY <1>1, <1>3, LenProperties DEF TypeOK
    <3> QED BY <1>1, <2>2, <3>1 DEF Grows, TypeOK
  <2>3. confirmed' = confirmed \/ confirmed' = Append(confirmed, NewVersion(c))
    BY DEF ClientStep, Create, Look, UpdateReads, UpdateWrites, ConfirmReads, ConfirmNumbers,
       ConfirmInserts, ConfirmFails, DiscardReads, DiscardsDraft, DeletesCheck, DeleteRefused,
       checkRows
  <2> QED BY <2>1, <2>2, <2>3
<1>6. InputsBounded'  BY <1>2 DEF IInv, EvaluationsInv, InputsBounded, documents
<1> QED BY <1>2, <1>3, <1>4, <1>5, <1>6, InputsGrow DEF IInv

\* Policies and snapshots that are added leave checks and requests alone.
LEMMA InputsKeep ==
  ASSUME IInv, UNCHANGED <<checkRows, results, client, locked, evaluation>>,
         policies' \in Seq(Targets \cup {Unlisted}), snapshots' \in Seq(Snapshot),
         Grows(policies, policies'), Grows(snapshots, snapshots'), InputsBounded'
  PROVE  IInv'
<1>1. TypeOK  BY DEF IInv, ChecksInv, ChecksAgree
<1>2. TypeOK'  BY <1>1 DEF TypeOK, checkRows, results, Run, Event
<1>3. Grows(confirmed, confirmed')
  BY <1>1, LenProperties DEF Grows, TypeOK, checkRows
<1>4. \A k : VersionsOf(k)' = VersionsOf(k) /\ Numbers(k)' = Numbers(k)
              /\ Exists(k)' = Exists(k) /\ HasDraft(k)' = HasDraft(k)
  BY DEF checkRows, VersionsOf, Numbers, Exists, HasDraft
<1>5. VersionsNumbered'  BY <1>4 DEF IInv, ChecksInv, ChecksAgree, VersionsNumbered
<1>6. ChecksHaveContent'
  BY <1>4 DEF IInv, ChecksInv, ChecksAgree, ChecksHaveContent, checkRows
<1>7. RequestsAgree'  BY <1>4 DEF IInv, ChecksInv, RequestsAgree, VersionsOf, checkRows
<1> QED BY <1>2, <1>3, <1>5, <1>6, <1>7, InputsGrow DEF IInv, ChecksInv, ChecksAgree

LEMMA NextIInv == IInv /\ [Next]_vars => IInv'
<1> SUFFICES ASSUME IInv, [Next]_vars PROVE IInv'  OBVIOUS
<1>1. TypeOK  BY DEF IInv, ChecksInv, ChecksAgree
<1>2. /\ Len(policies) \in Nat /\ Len(snapshots) \in Nat
      /\ Grows(policies, policies) /\ Grows(snapshots, snapshots)
  BY <1>1, LenProperties DEF TypeOK, Grows
<1>3. ASSUME NEW target \in Targets \cup {Unlisted}, PublishPolicy(target) PROVE IInv'
  <2>1. /\ policies' = Append(policies, target) /\ UNCHANGED snapshots
        /\ UNCHANGED <<checkRows, results, client, locked, evaluation>>
        /\ Len(policies) < MaxInputs
    BY <1>3 DEF PublishPolicy
  <2>2. policies' \in Seq(Targets \cup {Unlisted}) /\ Len(policies') = Len(policies) + 1
    BY <1>1, <2>1, AppendProperties DEF TypeOK
  <2>3. Grows(policies, policies')  BY <1>1, <2>1, AppendGrows DEF TypeOK
  <2>4. InputsBounded'
    BY <1>2, <2>1, <2>2, BoundsAssumption DEF IInv, EvaluationsInv, InputsBounded
  <2>5. snapshots' \in Seq(Snapshot) /\ Grows(snapshots, snapshots')
    BY <1>1, <1>2, <2>1 DEF TypeOK
  <2> QED BY <2>1, <2>2, <2>3, <2>4, <2>5, InputsKeep
<1>4. ASSUME NEW snapshot \in Snapshot, ConfirmSnapshot(snapshot) PROVE IInv'
  <2>1. /\ snapshots' = Append(snapshots, snapshot) /\ UNCHANGED policies
        /\ UNCHANGED <<checkRows, results, client, locked, evaluation>>
        /\ Len(snapshots) < MaxInputs
    BY <1>4 DEF ConfirmSnapshot
  <2>2. snapshots' \in Seq(Snapshot) /\ Len(snapshots') = Len(snapshots) + 1
    BY <1>1, <2>1, AppendProperties DEF TypeOK
  <2>3. Grows(snapshots, snapshots')  BY <1>1, <2>1, AppendGrows DEF TypeOK
  <2>4. InputsBounded'
    BY <1>2, <2>1, <2>2, BoundsAssumption DEF IInv, EvaluationsInv, InputsBounded
  <2>5. policies' \in Seq(Targets \cup {Unlisted}) /\ Grows(policies, policies')
    BY <1>1, <1>2, <2>1 DEF TypeOK
  <2> QED BY <2>1, <2>2, <2>3, <2>4, <2>5, InputsKeep
<1>5. CASE UNCHANGED vars
  <2>1. /\ UNCHANGED <<checkRows, results, client, locked, evaluation>>
        /\ UNCHANGED policies /\ UNCHANGED snapshots
    BY <1>5 DEF vars, documents
  <2>2. InputsBounded'  BY <2>1 DEF IInv, EvaluationsInv, InputsBounded
  <2>3. /\ policies' \in Seq(Targets \cup {Unlisted}) /\ Grows(policies, policies')
        /\ snapshots' \in Seq(Snapshot) /\ Grows(snapshots, snapshots')
    BY <1>1, <1>2, <2>1 DEF TypeOK
  <2> QED BY <2>1, <2>2, <2>3, InputsKeep
<1> QED BY <1>3, <1>4, <1>5, ClientStepIInv, EvaluatorStepKeeps DEF Next

\* The invariant that the others follow from.
THEOREM Inductive == Spec => []IInv
BY InitIInv, NextIInv, PTL DEF Spec

\* A check, its draft and its versions agree, and its versions are numbered without a gap,
\* although create, update, confirm and discard take no lock.
THEOREM Agreement == Spec => []ChecksAgree
<1>1. IInv => ChecksAgree  BY DEF IInv, ChecksInv
<1> QED BY <1>1, Inductive, PTL

\* No run of evaluate_all_checks looks back behind a run that was recorded before it.
THEOREM Forward == Spec => []RunsMoveForward
<1>1. IInv => RunsMoveForward  BY DEF IInv, EvaluationsInv
<1> QED BY <1>1, Inductive, PTL

\* What the evaluator found beyond a threshold has one event, whichever run found it, and
\* what it did not has none.
THEOREM Recorded == Spec => []BreachesRecordedOnce
<1>1. IInv => BreachesRecordedOnce
  <2> SUFFICES ASSUME IInv, NEW i \in DOMAIN runs, NEW v \in runs[i].versions
               PROVE  LET ofThisBreach == {event \in events :
                            /\ event.version = v
                            /\ event.snapshot = runs[i].snapshot
                            /\ IF confirmed[v].kind = "staleness"
                               THEN event.asOf = runs[i].asOf
                               ELSE event.policy = runs[i].policy}
                          exceeded == Exceeded(confirmed[v], policies[runs[i].policy],
                                               snapshots[runs[i].snapshot], runs[i].asOf)
                      IN Cardinality(ofThisBreach) = IF exceeded THEN 1 ELSE 0
    BY DEF BreachesRecordedOnce
  <2> DEFINE ofThisBreach == {event \in events : Concerns(event, i, v)}
             exceeded == Exceeded(confirmed[v], policies[runs[i].policy],
                                  snapshots[runs[i].snapshot], runs[i].asOf)
  <2>1. TypeOK  BY DEF IInv, ChecksInv, ChecksAgree
  <2>2. v \in DOMAIN confirmed  BY <2>1 DEF TypeOK, Run
  <2>3. confirmed[v].kind \in Kinds
    <3>1. confirmed \in Seq(Version)  BY <2>1 DEF TypeOK
    <3>2. confirmed[v] \in Version  BY <2>2, <3>1, LenProperties, ElementOfSeq
    <3> QED BY <3>2 DEF Version
  <2>4. \A a, b \in ofThisBreach : a = b
    <3> SUFFICES ASSUME NEW a \in ofThisBreach, NEW b \in ofThisBreach PROVE a = b  OBVIOUS
    <3>1. Fingerprint(a) = Fingerprint(b)  BY DEF Fingerprint, Concerns
    <3> QED BY <3>1 DEF IInv, EvaluationsInv, EventsAreUnique
  <2>5. \A a \in ofThisBreach : exceeded
    <3> SUFFICES ASSUME NEW a \in ofThisBreach PROVE exceeded  OBVIOUS
    <3>1. Exceeded(confirmed[v], policies[a.policy], snapshots[runs[i].snapshot], a.asOf)
      BY DEF IInv, EvaluationsInv, EventsAreBreaches, Concerns
    <3>2. IF confirmed[v].kind = "staleness" THEN a.asOf = runs[i].asOf
                                             ELSE a.policy = runs[i].policy
      BY DEF Concerns
    <3>3. IF confirmed[v].kind = "staleness" THEN a.asOf = runs[i].asOf
          ELSE policies[a.policy] = policies[runs[i].policy]
      BY <3>2
    <3> QED BY <2>3, <3>1, <3>3, ExceededBy
  <2>6. exceeded => ofThisBreach # {}
    BY DEF IInv, EvaluationsInv, BreachesHaveEvents
  <2> HIDE DEF exceeded, ofThisBreach
  <2>7. CASE exceeded
    <3>1. PICK a \in ofThisBreach : TRUE  BY <2>6, <2>7
    <3>2. ofThisBreach = {a}  BY <2>4, <3>1
    <3>3. Cardinality(ofThisBreach) = 1  BY <3>2, FS_Singleton
    <3> QED BY <2>7, <3>3 DEF ofThisBreach, exceeded, Concerns
  <2>8. CASE ~exceeded
    <3>1. ofThisBreach = {}  BY <2>5, <2>8
    <3>2. Cardinality(ofThisBreach) = 0  BY <3>1, FS_EmptySet
    <3> QED BY <2>8, <3>2 DEF ofThisBreach, exceeded, Concerns
  <2> QED BY <2>7, <2>8
<1> QED BY <1>1, Inductive, PTL

-------------------------------------------------------------------------------
(* The inductive invariant of Notifications *)

Locked == \A d \in Dispatchers : dispatch[d].at \in {"window", "send"} => lock = d

NothingAround ==
  \A d \in Dispatchers : At(d, "send") => ~IsWithinWindow(d)

NotifyInv == DeliveredOnce /\ Locked /\ NothingAround

-------------------------------------------------------------------------------
LEMMA RestAndWork ==
  /\ AtRest \notin Work /\ AtRest.at = "idle"
  /\ \A w \in Work : w.at # "idle" /\ w.at \in Places /\ w.kind \in Fingerprints /\ w.ref \in Ticks
                      /\ w.quiet \in BOOLEAN
<1>1. AtRest.at = "idle"  BY DEF AtRest
<1>2. ASSUME NEW w \in Work
      PROVE  w.at # "idle" /\ w.at \in Places /\ w.kind \in Fingerprints /\ w.ref \in Ticks
             /\ w.quiet \in BOOLEAN
  BY DEF Work, Places
<1> QED BY <1>1, <1>2

\* A dispatcher that is somewhere in notify() is at work.
LEMMA BusyWorks ==
  ASSUME NotifyTypeOK, NEW d \in Dispatchers, dispatch[d].at # "idle"
  PROVE  dispatch[d] \in Work
BY RestAndWork DEF NotifyTypeOK

\* One event more.
LEMMA Appended ==
  ASSUME NotifyTypeOK, NEW e \in Notification
  PROVE  /\ Append(notifications, e) \in Seq(Notification)
         /\ Len(notifications) \in Nat
         /\ DOMAIN notifications = 1..Len(notifications)
         /\ DOMAIN Append(notifications, e) = 1..(Len(notifications) + 1)
         /\ \A i \in 1..Len(notifications) :
              Append(notifications, e)[i] = notifications[i] /\ notifications[i] \in Notification
         /\ Append(notifications, e)[Len(notifications) + 1] = e
BY AppendProperties, LenProperties, ElementOfSeq DEF NotifyTypeOK

\* A step that leaves the events alone, and brings nobody to "send" nor a lock holder
\* out of it, keeps what is known of them.
LEMMA QuietStep ==
  ASSUME NotifyInv, NotifyTypeOK', UNCHANGED notifications, Locked',
         \A d \in Dispatchers : At(d, "send")' => UNCHANGED dispatch[d] \/ ~IsWithinWindow(d)'
  PROVE  NotifyInv'
<1>1. DeliveredOnce'  BY DEF NotifyInv, DeliveredOnce, Delivered
<1>2. NothingAround'
  <2> SUFFICES ASSUME NEW d \in Dispatchers, At(d, "send")', UNCHANGED dispatch[d]
               PROVE  ~IsWithinWindow(d)'
    BY DEF NothingAround
  <2>1. ~IsWithinWindow(d)  BY DEF NotifyInv, NothingAround, At
  <2> QED BY <2>1 DEF IsWithinWindow
<1> QED BY <1>1, <1>2 DEF NotifyInv

\* An event is recorded that was not delivered, or was by one who had looked around.
LEMMA EndsKeepsInv ==
  ASSUME NotifyInv, NEW d \in Dispatchers, ~Resting(d), NEW status \in Statuses, Ends(d, status),
         status = "delivered" => At(d, "send"),
         prefs' \in Preferences \cup {NoPrefs}, UNCHANGED now
  PROVE  NotifyInv'
<1> DEFINE e == [kind |-> dispatch[d].kind, status |-> status,
                 at |-> dispatch[d].ref, acknowledged |-> FALSE]
<1>0. NotifyTypeOK  BY DEF NotifyInv, DeliveredOnce
<1>1. dispatch[d] \in Work  BY <1>0, BusyWorks DEF Resting
<1>2. e \in Notification  BY <1>1, RestAndWork DEF Notification
<1>3. /\ e.kind = dispatch[d].kind /\ e.status = status /\ e.at = dispatch[d].ref
      /\ e.at \in Ticks
  BY <1>1, RestAndWork
<1> HIDE DEF e
<1>4. /\ notifications' = Append(notifications, e)
      /\ dispatch' = [dispatch EXCEPT ![d] = AtRest]
      /\ lock' = IF lock = d THEN Nobody ELSE lock
  BY DEF Ends, e
<1>5. \A x \in Dispatchers : dispatch'[x] = IF x = d THEN AtRest ELSE dispatch[x]
  BY <1>0, <1>4 DEF NotifyTypeOK
<1>6. /\ notifications' \in Seq(Notification) /\ Len(notifications) \in Nat
      /\ DOMAIN notifications = 1..Len(notifications)
      /\ DOMAIN notifications' = 1..(Len(notifications) + 1)
      /\ \A i \in 1..Len(notifications) :
           notifications'[i] = notifications[i] /\ notifications[i] \in Notification
      /\ notifications'[Len(notifications) + 1] = e
  BY <1>0, <1>2, <1>4, Appended
<1>7. NotifyTypeOK'
  <2>1. dispatch' \in [Dispatchers -> Work \cup {AtRest}]  BY <1>0, <1>4 DEF NotifyTypeOK
  <2>2. lock' \in Dispatchers \cup {Nobody}  BY <1>0, <1>4 DEF NotifyTypeOK
  <2> QED BY <1>0, <1>6, <2>1, <2>2 DEF NotifyTypeOK
<1>8. Locked'
  <2> SUFFICES ASSUME NEW x \in Dispatchers, dispatch'[x].at \in {"window", "send"}
               PROVE  lock' = x
    BY DEF Locked
  <2>1. x # d  BY <1>5, RestAndWork
  <2>2. lock = x  BY <1>5, <2>1 DEF NotifyInv, Locked
  <2> QED BY <1>4, <2>1, <2>2
<1>9. ASSUME NEW i \in 1..Len(notifications), status = "delivered", Delivered(i),
             notifications[i].kind = dispatch[d].kind
      PROVE  e.at - notifications[i].at > Window
  <2>1. ~(notifications[i].at >= dispatch[d].ref - Window)
    BY <1>6, <1>9 DEF NotifyInv, NothingAround, IsWithinWindow, Delivered
  <2>2. notifications[i].at \in Int /\ dispatch[d].ref \in Int /\ Window \in Int
    BY <1>3, <1>6, NotifyBoundsAssumption DEF Notification, Ticks
  <2> QED BY <1>3, <2>1, <2>2
<1>10. ASSUME NEW i \in DOMAIN notifications', NEW j \in DOMAIN notifications', i # j,
              Delivered(i)', Delivered(j)',
              notifications'[i].kind = notifications'[j].kind
       PROVE  \/ notifications'[i].at - notifications'[j].at > Window
              \/ notifications'[j].at - notifications'[i].at > Window
  <2> DEFINE last == Len(notifications) + 1
  <2>1. CASE i # last /\ j # last
    <3>1. i \in DOMAIN notifications /\ j \in DOMAIN notifications  BY <1>6, <2>1
    <3> QED BY <1>6, <1>10, <3>1 DEF NotifyInv, DeliveredOnce, Delivered
  <2>2. CASE i = last /\ j # last
    <3>1. j \in 1..Len(notifications)  BY <1>6, <2>2
    <3>2. e.at - notifications[j].at > Window  BY <1>3, <1>6, <1>9, <1>10, <2>2, <3>1 DEF Delivered
    <3> QED BY <1>6, <2>2, <3>1, <3>2
  <2>3. CASE j = last /\ i # last
    <3>1. i \in 1..Len(notifications)  BY <1>6, <2>3
    <3>2. e.at - notifications[i].at > Window  BY <1>3, <1>6, <1>9, <1>10, <2>3, <3>1 DEF Delivered
    <3> QED BY <1>6, <2>3, <3>1, <3>2
  <2> QED BY <1>10, <2>1, <2>2, <2>3
<1>11. DeliveredOnce'  BY <1>7, <1>10 DEF DeliveredOnce
<1>12. NothingAround'
  <2> SUFFICES ASSUME NEW x \in Dispatchers, At(x, "send")' PROVE ~IsWithinWindow(x)'
    BY DEF NothingAround
  <2>1. x # d /\ dispatch'[x] = dispatch[x]  BY <1>5, RestAndWork DEF At
  <2>2. At(x, "send") /\ lock = x  BY <2>1 DEF At, NotifyInv, Locked
  <2>3. status # "delivered"  BY <2>1, <2>2 DEF NotifyInv, Locked, At
  <2>4. ~IsWithinWindow(x)  BY <2>2 DEF NotifyInv, NothingAround
  <2> QED BY <1>3, <1>6, <2>1, <2>3, <2>4 DEF IsWithinWindow
<1> QED BY <1>8, <1>11, <1>12 DEF NotifyInv

-------------------------------------------------------------------------------
LEMMA NotifyInitInv == NotifyInit => NotifyInv
<1> SUFFICES ASSUME NotifyInit PROVE NotifyInv  OBVIOUS
<1>1. NotifyTypeOK
  <2>1. <<>> \in Seq(Notification)  BY EmptySeq
  <2>2. now \in Ticks  BY NotifyBoundsAssumption DEF NotifyInit, Ticks
  <2> QED BY <2>1, <2>2 DEF NotifyInit, NotifyTypeOK
<1>2. DeliveredOnce  BY <1>1 DEF NotifyInit, DeliveredOnce
<1>3. \A d \in Dispatchers : dispatch[d].at = "idle"  BY RestAndWork DEF NotifyInit
<1> QED BY <1>2, <1>3 DEF NotifyInv, Locked, NothingAround, At

\* A dispatcher goes on, with the lock if it needs it, after a look if it is to send.
LEMMA MovesKeepsInv ==
  ASSUME NotifyInv, NEW d \in Dispatchers, NEW row \in Work,
         dispatch' = [dispatch EXCEPT ![d] = row], UNCHANGED <<now, prefs, notifications>>,
         UNCHANGED lock \/ (lock = Nobody /\ lock' = d),
         row.at \in {"window", "send"} => lock' = d,
         row.at = "send" => row.kind = dispatch[d].kind /\ row.ref = dispatch[d].ref
                            /\ ~IsWithinWindow(d)
  PROVE  NotifyInv'
<1>0. NotifyTypeOK  BY DEF NotifyInv, DeliveredOnce
<1>1. \A x \in Dispatchers : dispatch'[x] = IF x = d THEN row ELSE dispatch[x]
  BY <1>0 DEF NotifyTypeOK
<1>2. dispatch' \in [Dispatchers -> Work \cup {AtRest}]  BY <1>0 DEF NotifyTypeOK
<1>3. NotifyTypeOK'  BY <1>0, <1>2 DEF NotifyTypeOK
<1>4. Locked'
  <2> SUFFICES ASSUME NEW x \in Dispatchers, dispatch'[x].at \in {"window", "send"}
               PROVE  lock' = x
    BY DEF Locked
  <2>1. CASE x = d  BY <1>1, <2>1
  <2>2. CASE x # d  BY <1>1, <2>2, NobodyAssumption DEF NotifyInv, Locked
  <2> QED BY <2>1, <2>2
<1>5. ASSUME NEW x \in Dispatchers, At(x, "send")'
      PROVE  UNCHANGED dispatch[x] \/ ~IsWithinWindow(x)'
  <2>1. CASE x # d  BY <1>1, <2>1
  <2>2. CASE x = d  BY <1>1, <1>5, <2>2 DEF At, IsWithinWindow
  <2> QED BY <2>1, <2>2
<1> QED BY <1>3, <1>4, <1>5, QuietStep

LEMMA ProceedsKeepsInv == ASSUME NotifyInv, NEW d \in Dispatchers, Proceeds(d) PROVE NotifyInv'
<1>0. NotifyTypeOK  BY DEF NotifyInv, DeliveredOnce
<1>1. ~Resting(d)
  BY DEF Proceeds, ReadsPreferences, FindsNoPreferences, CreatesPreferences, TakesLock, LooksAround,
     Delivers, At, Resting
<1>2. dispatch[d] \in Work  BY <1>0, <1>1, BusyWorks DEF Resting
<1>3. ASSUME Suppresses(d) PROVE NotifyInv'
  BY <1>0, <1>1, <1>3, EndsKeepsInv DEF Suppresses, Statuses, NotifyTypeOK
<1>4. ASSUME NEW place \in Places \ {"idle"}
      PROVE  LET row == [dispatch[d] EXCEPT !.at = place]
             IN  row \in Work /\ row.at = place /\ row.kind = dispatch[d].kind
                 /\ row.ref = dispatch[d].ref
  BY <1>2 DEF Work
<1>5. CASE ReadsPreferences(d)
  <2>1. CASE Allows(prefs, dispatch[d].kind)
    <3> DEFINE row == [dispatch[d] EXCEPT !.at = "lock", !.quiet = Quiet(d)]
    <3>1. Quiet(d) \in BOOLEAN  BY DEF Quiet
    <3> HIDE DEF Quiet
    <3>2. row \in Work /\ row.at = "lock"  BY <1>2, <3>1 DEF Work, Places
    <3>3. dispatch' = [dispatch EXCEPT ![d] = row] /\ UNCHANGED <<now, prefs, notifications, lock>>
      BY <1>5, <2>1 DEF ReadsPreferences
    <3> HIDE DEF row
    <3> QED BY <3>2, <3>3, MovesKeepsInv
  <2>2. CASE ~Allows(prefs, dispatch[d].kind)  BY <1>3, <1>5, <2>2 DEF ReadsPreferences
  <2> QED BY <2>1, <2>2
<1>6. CASE FindsNoPreferences(d)
  <2> DEFINE row == [dispatch[d] EXCEPT !.at = "create"]
  <2>1. row \in Work /\ row.at = "create"  BY <1>4 DEF Places
  <2>2. dispatch' = [dispatch EXCEPT ![d] = row] /\ UNCHANGED <<now, prefs, notifications, lock>>
    BY <1>6 DEF FindsNoPreferences, Moves
  <2> HIDE DEF row
  <2> QED BY <2>1, <2>2, MovesKeepsInv
<1>7. CASE CreatesPreferences(d)
  <2>1. prefs' \in Preferences \cup {NoPrefs} /\ UNCHANGED now /\ Ends(d, "suppressed")
    BY <1>7 DEF CreatesPreferences, Preferences
  <2> QED BY <1>1, <2>1, EndsKeepsInv DEF Statuses
<1>8. CASE TakesLock(d)
  <2> DEFINE row == [dispatch[d] EXCEPT !.at = "window"]
  <2>1. row \in Work /\ row.at = "window"  BY <1>4 DEF Places
  <2>2. /\ dispatch' = [dispatch EXCEPT ![d] = row] /\ UNCHANGED <<now, prefs, notifications>>
        /\ lock = Nobody /\ lock' = d
    BY <1>8 DEF TakesLock, Moves
  <2> HIDE DEF row
  <2> QED BY <2>1, <2>2, MovesKeepsInv
<1>9. CASE LooksAround(d)
  <2>1. CASE IsWithinWindow(d) \/ dispatch[d].quiet
    BY <1>3, <1>9, <2>1 DEF LooksAround
  <2>2. CASE ~(IsWithinWindow(d) \/ dispatch[d].quiet)
    <3> DEFINE row == [dispatch[d] EXCEPT !.at = "send"]
    <3>1. /\ row \in Work /\ row.at = "send"
          /\ row.kind = dispatch[d].kind /\ row.ref = dispatch[d].ref
      BY <1>4 DEF Places
    <3>2. dispatch' = [dispatch EXCEPT ![d] = row] /\ UNCHANGED <<now, prefs, notifications, lock>>
      BY <1>9, <2>2 DEF LooksAround, Moves
    <3>3. lock = d  BY <1>9 DEF LooksAround, At, NotifyInv, Locked
    <3> HIDE DEF row
    <3> QED BY <2>2, <3>1, <3>2, <3>3, MovesKeepsInv
  <2> QED BY <2>1, <2>2
<1>10. CASE Delivers(d)
  <2>1. PICK outcome \in Outcomes : Ends(d, outcome)  BY <1>10 DEF Delivers
  <2>2. outcome \in Statuses  BY OutcomesAssumption DEF Statuses
  <2>3. prefs' \in Preferences \cup {NoPrefs} /\ UNCHANGED now /\ At(d, "send")
    BY <1>0, <1>10 DEF Delivers, NotifyTypeOK
  <2> QED BY <1>1, <2>1, <2>2, <2>3, EndsKeepsInv
<1> QED BY <1>5, <1>6, <1>7, <1>8, <1>9, <1>10 DEF Proceeds

\* An event that is acknowledged keeps its kind, its time and how it ended.
LEMMA AcknowledgedKeepsInv ==
  ASSUME NotifyInv, NEW i \in DOMAIN notifications, Acknowledges(i)
  PROVE  NotifyInv'
<1>0. NotifyTypeOK  BY DEF NotifyInv, DeliveredOnce
<1>1. /\ notifications \in [1..Len(notifications) -> Notification] /\ Len(notifications) \in Nat
      /\ DOMAIN notifications = 1..Len(notifications)
  BY <1>0, LenProperties DEF NotifyTypeOK
<1>2. \A j \in DOMAIN notifications :
        [notifications[j] EXCEPT !.acknowledged = TRUE] \in Notification
  BY <1>1 DEF Notification
<1>3. notifications' = [notifications EXCEPT ![i] = [notifications[i] EXCEPT !.acknowledged = TRUE]]
  BY DEF Acknowledges
<1>4. notifications' \in [1..Len(notifications) -> Notification]  BY <1>1, <1>2, <1>3
<1>5. notifications' \in Seq(Notification) /\ DOMAIN notifications' = DOMAIN notifications
  <2>1. \A n \in Nat : \A f \in [1..n -> Notification] : f \in Seq(Notification)  OBVIOUS
  <2> QED BY <1>1, <1>4, <2>1
<1>6. \A j \in DOMAIN notifications : /\ notifications'[j].kind = notifications[j].kind
                              /\ notifications'[j].status = notifications[j].status
                              /\ notifications'[j].at = notifications[j].at
  BY <1>1, <1>3 DEF Notification
<1>7. UNCHANGED <<now, prefs, lock, dispatch>>  BY DEF Acknowledges
<1>8. NotifyTypeOK'  BY <1>0, <1>5, <1>7 DEF NotifyTypeOK
<1>9. DeliveredOnce'
  <2> SUFFICES ASSUME NEW j \in DOMAIN notifications', NEW k \in DOMAIN notifications', j # k,
                      Delivered(j)', Delivered(k)', notifications'[j].kind = notifications'[k].kind
               PROVE  notifications'[j].at - notifications'[k].at > Window
                      \/ notifications'[k].at - notifications'[j].at > Window
    BY <1>8 DEF DeliveredOnce
  <2> QED BY <1>5, <1>6 DEF NotifyInv, DeliveredOnce, Delivered
<1>10. Locked'  BY <1>7 DEF NotifyInv, Locked
<1>11. NothingAround'
  BY <1>5, <1>6, <1>7 DEF NotifyInv, NothingAround, IsWithinWindow, At
<1> QED BY <1>9, <1>10, <1>11 DEF NotifyInv

LEMMA NotifyNextInv == NotifyInv /\ [NotifyNext]_notifyVars => NotifyInv'
<1> SUFFICES ASSUME NotifyInv, [NotifyNext]_notifyVars PROVE NotifyInv'  OBVIOUS
<1>0. NotifyTypeOK  BY DEF NotifyInv, DeliveredOnce
<1>1. ASSUME NotifyTypeOK', UNCHANGED <<notifications, lock, dispatch>> PROVE NotifyInv'
  <2>1. Locked'  BY <1>1 DEF NotifyInv, Locked
  <2> QED BY <1>1, <2>1, QuietStep
<1>2. CASE UNCHANGED notifyVars  BY <1>0, <1>1, <1>2 DEF notifyVars, NotifyTypeOK
<1>3. ASSUME NEW d \in Dispatchers, Fails(d) PROVE NotifyInv'
  <2>1. /\ dispatch' = [dispatch EXCEPT ![d] = AtRest] /\ UNCHANGED <<now, prefs, notifications>>
        /\ lock' = IF lock = d THEN Nobody ELSE lock
    BY <1>3 DEF Fails
  <2>2. \A x \in Dispatchers : dispatch'[x] = IF x = d THEN AtRest ELSE dispatch[x]
    BY <1>0, <2>1 DEF NotifyTypeOK
  <2>3. NotifyTypeOK'
    <3>1. dispatch' \in [Dispatchers -> Work \cup {AtRest}]  BY <1>0, <2>1 DEF NotifyTypeOK
    <3> QED BY <1>0, <2>1, <3>1 DEF NotifyTypeOK
  <2>4. Locked'
    <3> SUFFICES ASSUME NEW x \in Dispatchers, dispatch'[x].at \in {"window", "send"}
                 PROVE  lock' = x
      BY DEF Locked
    <3>1. x # d  BY <2>2, RestAndWork
    <3> QED BY <2>1, <2>2, <3>1 DEF NotifyInv, Locked
  <2>5. ASSUME NEW x \in Dispatchers, At(x, "send")' PROVE UNCHANGED dispatch[x]
    BY <2>2, <2>5, RestAndWork DEF At
  <2> QED BY <2>1, <2>3, <2>4, <2>5, QuietStep
<1>4. ASSUME NEW d \in Dispatchers, NEW k \in Fingerprints, Begins(d, k) PROVE NotifyInv'
  <2> DEFINE row == [at |-> "preferences", kind |-> k, ref |-> now, quiet |-> FALSE]
  <2>1. row \in Work /\ row.at = "preferences"  BY <1>0 DEF Work, Places, NotifyTypeOK
  <2>2. dispatch' = [dispatch EXCEPT ![d] = row] /\ UNCHANGED <<now, prefs, notifications, lock>>
    BY <1>4 DEF Begins
  <2> HIDE DEF row
  <2> QED BY <2>1, <2>2, MovesKeepsInv
<1>5. CASE Owner
  <2>1. CASE OwnerCreatesPreferences
    BY <1>0, <1>1, <2>1 DEF OwnerCreatesPreferences, NotifyTypeOK, Preferences
  <2>2. ASSUME NEW p \in Preferences, UpdatesPreferences(p) PROVE NotifyInv'
    BY <1>0, <1>1, <2>2 DEF UpdatesPreferences, NotifyTypeOK
  <2>3. ASSUME NEW i \in DOMAIN notifications, Acknowledges(i) PROVE NotifyInv'
    BY <2>3, AcknowledgedKeepsInv
  <2> QED BY <1>5, <2>1, <2>2, <2>3 DEF Owner
<1>6. CASE Tick
  <2>1. now' \in Ticks  BY <1>0, <1>6, NotifyBoundsAssumption DEF Tick, NotifyTypeOK, Ticks
  <2> QED BY <1>0, <1>1, <1>6, <2>1 DEF Tick, NotifyTypeOK
<1> QED BY <1>2, <1>3, <1>4, <1>5, <1>6, ProceedsKeepsInv DEF NotifyNext

\* The invariant that DeliveredOnce follows from.
THEOREM NotifyInductive == NotifySpec => []NotifyInv
BY NotifyInitInv, NotifyNextInv, PTL DEF NotifySpec

\* Nothing is delivered twice within the window, whoever read the clock before he waited
\* for the advisory lock of notify().
THEOREM Once == NotifySpec => []DeliveredOnce
<1>1. NotifyInv => DeliveredOnce  BY DEF NotifyInv
<1> QED BY <1>1, NotifyInductive, PTL

\* Whoever creates default preferences in get_preferences finds none; only a PATCH of the
\* owner changes those there are, and it notifies nobody.
THEOREM OwnerOnly == NotifySpec => OnlyOwnerSets
<1>1. ASSUME [NotifyNext]_notifyVars, NEW d \in Dispatchers, dispatch'[d] # dispatch[d],
             prefs # NoPrefs
      PROVE  prefs' = prefs
  <2>1. ASSUME NEW x \in Dispatchers, Proceeds(x) PROVE prefs' = prefs
    BY <1>1, <2>1 DEF Proceeds, ReadsPreferences, Suppresses, FindsNoPreferences,
       CreatesPreferences, TakesLock, LooksAround, Delivers
  <2>2. ASSUME NEW x \in Dispatchers, Fails(x) PROVE prefs' = prefs  BY <2>2 DEF Fails
  <2>3. ASSUME NEW x \in Dispatchers, NEW k \in Fingerprints, Begins(x, k)
        PROVE  prefs' = prefs
    BY <2>3 DEF Begins
  <2>4. ~Owner /\ ~Tick
    BY <1>1 DEF Owner, OwnerCreatesPreferences, UpdatesPreferences, Acknowledges, Tick
  <2> QED BY <1>1, <2>1, <2>2, <2>3, <2>4 DEF NotifyNext, notifyVars
<1>2. [NotifyNext]_notifyVars
      => [(\E d \in Dispatchers : dispatch'[d] # dispatch[d]) /\ prefs # NoPrefs
            => prefs' = prefs]_notifyVars
  BY <1>1
<1> QED BY <1>2, PTL DEF NotifySpec, OnlyOwnerSets

===============================================================================
