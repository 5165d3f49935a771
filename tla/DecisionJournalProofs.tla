------------------------- MODULE DecisionJournalProofs -------------------------
(***************************************************************************)
(* Proofs about DecisionJournal, for any clients, decisions, texts, bounds  *)
(* and set of operations whose caller commits.                              *)
(*                                                                          *)
(* Who is about to confirm holds the policy row, so the version it has read *)
(* is still the one in force; and a page that shows the present revision of *)
(* a draft shows its present text, since a revision is written once.        *)
(***************************************************************************)
EXTENDS DecisionJournal, SequenceTheorems, TLAPS

Agrees(row) ==
  /\ row.status = "draft" <=> row.revision > 0
  /\ row.status \in {"confirmed", "archived"} <=> row.policy > 0
  /\ row.policy > 0 => row.snapshot # Blank
  /\ row.corrections > 0 => row.policy > 0
  /\ row.reviews <= (IF row.policy > 0 THEN 1 ELSE 0)

\* What a page shows of a draft that is row by now.  Pages of updates that are rolled
\* back are ahead of the row.
Follows(seen, row) ==
  /\ "update" \in Durable => seen.revision <= row.revision
  /\ seen.revision = row.revision => seen.text = row.text

Locking(c) == client[c].at \in {"confirming", "approving-locked"}

LockedPolicy ==
  \A c \in Clients : Locking(c) =>
    policyLock = c /\ client[c].policy > 0 /\ polInForce = {client[c].policy}

OneInForce == \A m, n \in polInForce : m = n

SeenWasThere ==
  \A c \in Clients, d \in Decisions : client[c].seen.id = d => decision[d].status # "unborn"

PagesFollow ==
  \A c \in Clients, d \in Decisions :
    IsDraft(d) /\ client[c].seen.id = d => Follows(client[c].seen, decision[d])

IInv == RowsAgree /\ LockedPolicy /\ OneInForce /\ SeenWasThere /\ PagesFollow

-------------------------------------------------------------------------------
LEMMA RowsAgreeIs == RowsAgree <=> TypeOK /\ \A d \in Decisions : Agrees(decision[d])
<1>1. ASSUME TypeOK, NEW d \in Decisions PROVE decision[d] \in Row  BY <1>1 DEF TypeOK
<1> QED BY <1>1 DEF RowsAgree, Agrees, IsDraft, HasSnapshot, Row

\* After an answer the row is the new one, the old one, or gone.
LEMMA AnswerGives ==
  ASSUME TypeOK, NEW op, NEW d \in Decisions, NEW row \in Row, Answer(op, d, row)
  PROVE  /\ decision' \in [Decisions -> Row] /\ acked' \in [Decisions -> Row]
         /\ \A e \in Decisions : e # d => decision'[e] = decision[e]
         /\ acked'[d] = row
         /\ op \in Durable => decision'[d] = row
         /\ op \notin Durable =>
              IF decision[d].status = "unborn"
              THEN decision'[d] = [decision[d] EXCEPT !.status = "gone"]
              ELSE decision'[d] = decision[d]
<1>1. decision[d] \in Row  BY DEF TypeOK
<1>2. [decision[d] EXCEPT !.status = "gone"] \in Row  BY <1>1 DEF Row, Status
<1> QED BY <1>1, <1>2 DEF Answer, TypeOK

\* What an answer about d does to the rows and to what pages show of them.
LEMMA AnswerStep ==
  ASSUME IInv, NEW op, NEW d \in Decisions, NEW row \in Row, Answer(op, d, row),
         Agrees(row), row.status # "unborn",
         row.status = "draft" =>
           \/ decision[d].status = "unborn"
           \/ op = "update" /\ IsDraft(d) /\ row.revision = decision[d].revision + 1
  PROVE  /\ decision' \in [Decisions -> Row] /\ acked' \in [Decisions -> Row]
         /\ \A e \in Decisions : Agrees(decision'[e])
         /\ \A e \in Decisions : decision[e].status # "unborn" => decision'[e].status # "unborn"
         /\ decision'[d].status # "unborn"
         /\ \A c \in Clients, e \in Decisions :
              IsDraft(e)' /\ client[c].seen.id = e => Follows(client[c].seen, decision'[e])
<1>0. TypeOK /\ \A e \in Decisions : Agrees(decision[e])  BY RowsAgreeIs DEF IInv
<1>1. decision[d] \in Row  BY <1>0 DEF TypeOK
<1> USE <1>0, <1>1
<1>2. /\ decision' \in [Decisions -> Row] /\ acked' \in [Decisions -> Row]
      /\ \A e \in Decisions : e # d => decision'[e] = decision[e]
      /\ op \in Durable => decision'[d] = row
      /\ op \notin Durable =>
           IF decision[d].status = "unborn"
           THEN decision'[d] = [decision[d] EXCEPT !.status = "gone"]
           ELSE decision'[d] = decision[d]
  BY AnswerGives
<1>3. LET gone == [decision[d] EXCEPT !.status = "gone"]
      IN  decision[d].status = "unborn" => Agrees(gone) /\ gone.status = "gone"
  BY DEF Agrees, Row
<1>4. Agrees(decision'[d]) /\ decision'[d].status # "unborn"  BY <1>2, <1>3
<1>5. ASSUME NEW c \in Clients, IsDraft(d)', client[c].seen.id = d
      PROVE  Follows(client[c].seen, decision'[d])
  <2>1. decision[d].status # "unborn"  BY <1>5 DEF IInv, SeenWasThere
  <2>2. CASE decision'[d] = decision[d]
    BY <1>5, <2>2 DEF IInv, PagesFollow, IsDraft
  <2>3. CASE decision'[d] = row /\ op \in Durable
    <3>1. op = "update" /\ IsDraft(d) /\ row.revision = decision[d].revision + 1
      BY <1>5, <2>1, <2>3 DEF IsDraft
    <3>2. client[c].seen.revision <= decision[d].revision
      BY <1>5, <2>3, <3>1 DEF IInv, PagesFollow, Follows
    <3>3. client[c].seen.revision \in Int /\ decision[d].revision \in Int
      BY DEF TypeOK, ClientRow, Seen, Row
    <3> QED BY <2>3, <3>1, <3>2, <3>3 DEF Follows
  <2> QED BY <1>2, <2>1, <2>2, <2>3
<1>6. ASSUME NEW c \in Clients, NEW e \in Decisions, e # d, IsDraft(e)', client[c].seen.id = e
      PROVE  Follows(client[c].seen, decision'[e])
  BY <1>2, <1>6 DEF IInv, PagesFollow, IsDraft
<1> QED BY <1>2, <1>4, <1>5, <1>6

\* A request about d by a client that is in no transaction of its own, after which its
\* page shows what it did, or the policy row is free again.
LEMMA RequestKeepsIInv ==
  ASSUME IInv, UNCHANGED policyVars,
         decision' \in [Decisions -> Row], acked' \in [Decisions -> Row],
         client' \in [Clients -> ClientRow], policyLock' \in Clients \cup {Nobody},
         \A e \in Decisions : Agrees(decision'[e]),
         LockedPolicy', SeenWasThere', PagesFollow'
  PROVE  IInv'
<1>1. TypeOK  BY DEF IInv, RowsAgree
<1>2. TypeOK'  BY <1>1 DEF TypeOK, policyVars
<1>3. RowsAgree'
  <2>1. ASSUME NEW d \in Decisions PROVE decision'[d] \in Row  OBVIOUS
  <2> QED BY <1>2, <2>1 DEF RowsAgree, Agrees, IsDraft, HasSnapshot, Row
<1>4. OneInForce'  BY DEF IInv, OneInForce, policyVars
<1> QED BY <1>3, <1>4 DEF IInv

-------------------------------------------------------------------------------
\* One that answers and leaves pages and locks as they are.
LEMMA SilentKeepsIInv ==
  ASSUME IInv, NEW op, NEW d \in Decisions, NEW row \in Row, Answer(op, d, row),
         UNCHANGED <<client, policyLock, policyVars>>,
         Agrees(row), row.status # "unborn",
         row.status = "draft" => decision[d].status = "unborn"
  PROVE  IInv'
<1>1. TypeOK  BY DEF IInv, RowsAgree
<1>2. /\ decision' \in [Decisions -> Row] /\ acked' \in [Decisions -> Row]
      /\ \A e \in Decisions : Agrees(decision'[e])
      /\ \A e \in Decisions : decision[e].status # "unborn" => decision'[e].status # "unborn"
      /\ \A c \in Clients, e \in Decisions :
           IsDraft(e)' /\ client[c].seen.id = e => Follows(client[c].seen, decision'[e])
  BY AnswerStep
<1>3. LockedPolicy'  BY DEF IInv, LockedPolicy, Locking, policyVars
<1>4. SeenWasThere'  BY <1>2 DEF IInv, SeenWasThere
<1>5. PagesFollow'  BY <1>2 DEF PagesFollow
<1>6. client' \in [Clients -> ClientRow] /\ policyLock' \in Clients \cup {Nobody}
  BY <1>1 DEF TypeOK
<1> QED BY <1>2, <1>3, <1>4, <1>5, <1>6, RequestKeepsIInv

\* One that answers and shows what it did.
LEMMA ShownKeepsIInv ==
  ASSUME IInv, NEW c \in Clients, NEW op, NEW d \in Decisions, NEW row \in Row,
         Idle(c), Answer(op, d, row), Shows(c, d, row), UNCHANGED <<policyLock, policyVars>>,
         Agrees(row), row.status = "draft",
         \/ decision[d].status = "unborn"
         \/ op = "update" /\ IsDraft(d) /\ row.revision = decision[d].revision + 1
  PROVE  IInv'
<1>1. TypeOK  BY DEF IInv, RowsAgree
<1>2. /\ decision' \in [Decisions -> Row] /\ acked' \in [Decisions -> Row]
      /\ \A e \in Decisions : Agrees(decision'[e])
      /\ \A e \in Decisions : decision[e].status # "unborn" => decision'[e].status # "unborn"
      /\ decision'[d].status # "unborn"
      /\ \A x \in Clients, e \in Decisions :
           IsDraft(e)' /\ client[x].seen.id = e => Follows(client[x].seen, decision'[e])
  BY AnswerStep
<1> DEFINE seen == [id |-> d, revision |-> row.revision, text |-> row.text]
           page == [at |-> "idle", policy |-> 0, seen |-> seen]
<1>3. seen \in Seen /\ page \in ClientRow /\ page.seen = seen
  BY CapsAssumption DEF Seen, Row, ClientRow, Requests
<1>4. seen.id = d /\ seen.revision = row.revision /\ seen.text = row.text /\ page.at = "idle"
  OBVIOUS
<1>5. /\ client' = [client EXCEPT ![c] = page]
      /\ \A x \in Clients : client'[x] = IF x = c THEN page ELSE client[x]
  BY <1>1 DEF Shows, TypeOK
<1> HIDE DEF seen, page
<1>6. client' \in [Clients -> ClientRow] /\ policyLock' \in Clients \cup {Nobody}
  BY <1>1, <1>3, <1>5 DEF TypeOK
<1>7. LockedPolicy'
  BY <1>4, <1>5 DEF IInv, LockedPolicy, Locking, policyVars
<1>8. SeenWasThere'  BY <1>2, <1>3, <1>4, <1>5 DEF IInv, SeenWasThere
<1>9. IsDraft(d)' => Follows(seen, decision'[d])
  <2>1. CASE op \in Durable
    <3>1. decision'[d] = row  BY <1>1, <2>1, AnswerGives
    <3> QED BY <1>4, <3>1 DEF Follows, Row
  <2>2. CASE op \notin Durable /\ decision[d].status = "unborn"
    <3>1. decision'[d] = [decision[d] EXCEPT !.status = "gone"]  BY <1>1, <2>2, AnswerGives
    <3>2. decision'[d].status = "gone"  BY <1>1, <3>1 DEF TypeOK, Row
    <3> QED BY <3>2 DEF IsDraft
  <2>3. CASE op \notin Durable /\ decision[d].status # "unborn"
    <3>1. decision'[d] = decision[d]  BY <1>1, <2>3, AnswerGives
    <3>2. row.revision = decision[d].revision + 1 /\ op = "update"  BY <2>3
    <3>3. decision[d].revision \in Int  BY <1>1 DEF TypeOK, Row
    <3> QED BY <1>4, <2>3, <3>1, <3>2, <3>3 DEF Follows
  <2> QED BY <2>1, <2>2, <2>3
<1>10. PagesFollow'
  <2> SUFFICES ASSUME NEW x \in Clients, NEW e \in Decisions, IsDraft(e)', client'[x].seen.id = e
               PROVE  Follows(client'[x].seen, decision'[e])
    BY DEF PagesFollow
  <2>1. CASE x = c  BY <1>3, <1>4, <1>5, <1>9, <2>1
  <2>2. CASE x # c  BY <1>2, <1>5, <2>2
  <2> QED BY <2>1, <2>2
<1> QED BY <1>2, <1>6, <1>7, <1>8, <1>10, RequestKeepsIInv

\* Pages move on, and no row changes.
LEMMA PageKeepsIInv ==
  ASSUME IInv, NEW c \in Clients, NEW page \in ClientRow,
         client' = [client EXCEPT ![c] = page], UNCHANGED <<decision, acked, policyVars>>,
         policyLock' \in Clients \cup {Nobody}, LockedPolicy',
         \/ page.seen = client[c].seen
         \/ \E d \in Decisions : /\ IsDraft(d)
                                /\ page.seen = [id |-> d, revision |-> decision[d].revision,
                                                text |-> decision[d].text]
  PROVE  IInv'
<1>1. TypeOK /\ \A e \in Decisions : Agrees(decision[e])  BY RowsAgreeIs DEF IInv
<1>2. \A x \in Clients : client'[x] = IF x = c THEN page ELSE client[x]  BY <1>1 DEF TypeOK
<1>3. client' \in [Clients -> ClientRow]  BY <1>1 DEF TypeOK
<1>4. ASSUME NEW e \in Decisions, page.seen.id = e
      PROVE  decision[e].status # "unborn" /\ (IsDraft(e) => Follows(page.seen, decision[e]))
  <2>1. CASE page.seen = client[c].seen
    BY <1>4, <2>1 DEF IInv, SeenWasThere, PagesFollow
  <2>2. ASSUME NEW d \in Decisions, IsDraft(d),
               page.seen = [id |-> d, revision |-> decision[d].revision,
                            text |-> decision[d].text]
        PROVE  decision[e].status # "unborn" /\ Follows(page.seen, decision[e])
    <3>1. e = d  BY <1>4, <2>2
    <3>2. page.seen.revision = decision[e].revision /\ page.seen.text = decision[e].text
      BY <2>2, <3>1
    <3>3. decision[e].revision \in Int  BY <1>1 DEF TypeOK, Row
    <3> QED BY <2>2, <3>1, <3>2, <3>3 DEF IsDraft, Follows
  <2> QED BY <2>1, <2>2
<1>5. SeenWasThere'  BY <1>2, <1>4 DEF IInv, SeenWasThere
<1>6. PagesFollow'  BY <1>2, <1>4 DEF IInv, PagesFollow, IsDraft
<1> QED BY <1>1, <1>3, <1>5, <1>6, RequestKeepsIInv DEF TypeOK

\* The policy row is locked, and its version in force read.
LEMMA TakeKeepsIInv ==
  ASSUME IInv, NEW c \in Clients, NEW next \in {"confirming", "approving-locked"},
         TakePolicy(c, next, client[c].seen), UNCHANGED <<decision, acked, policyVars>>
  PROVE  IInv'
<1>1. TypeOK  BY DEF IInv, RowsAgree
<1>2. InForce \in polInForce /\ polInForce = {InForce}
  BY DEF TakePolicy, Published, InForce, IInv, OneInForce
<1>3. InForce \in 1..MaxVersions  BY <1>1, <1>2 DEF TypeOK
<1> DEFINE page == [at |-> next, seen |-> client[c].seen, policy |-> InForce]
<1>4. page \in ClientRow /\ page.policy > 0
  BY <1>1, <1>3, CapsAssumption DEF TypeOK, ClientRow, Requests
<1>5. page.seen = client[c].seen /\ page.policy = InForce  OBVIOUS
<1>6. /\ client' = [client EXCEPT ![c] = page]
      /\ policyLock = Nobody /\ policyLock' = c
  BY DEF TakePolicy
<1> HIDE DEF page
<1>7. \A x \in Clients : client'[x] = IF x = c THEN page ELSE client[x]
  BY <1>1, <1>6 DEF TypeOK
<1>8. LockedPolicy'
  <2> SUFFICES ASSUME NEW x \in Clients, Locking(x)'
               PROVE  policyLock' = x /\ client'[x].policy > 0
                      /\ polInForce' = {client'[x].policy}
    BY DEF LockedPolicy
  <2>1. CASE x = c  BY <1>2, <1>4, <1>5, <1>6, <1>7, <2>1 DEF policyVars
  <2>2. CASE x # c
    <3>1. Locking(x)  BY <1>7, <2>2 DEF Locking
    <3> QED BY <1>6, <3>1, NobodyAssumption DEF IInv, LockedPolicy
  <2> QED BY <2>1, <2>2
<1> QED BY <1>1, <1>4, <1>5, <1>6, <1>8, PageKeepsIInv DEF TypeOK

\* The end of a transaction.
LEMMA EndsGives ==
  ASSUME IInv, NEW c \in Clients, Ends(c), UNCHANGED policyVars
  PROVE  /\ client' \in [Clients -> ClientRow]
         /\ policyLock' \in Clients \cup {Nobody}
         /\ \A x \in Clients : client'[x].seen = client[x].seen
         /\ LockedPolicy'
<1>1. TypeOK  BY DEF IInv, RowsAgree
<1> DEFINE page == [client[c] EXCEPT !.at = "idle", !.policy = 0]
<1>2. client[c] \in ClientRow  BY <1>1 DEF TypeOK
<1>3. page \in ClientRow /\ page.seen = client[c].seen /\ page.at = "idle"
  <2>1. 0 \in 0..MaxVersions /\ "idle" \in Requests  BY CapsAssumption DEF Requests
  <2> QED BY <1>2, <2>1 DEF ClientRow
<1>4. /\ client' = [client EXCEPT ![c] = page]
      /\ policyLock' = IF policyLock = c THEN Nobody ELSE policyLock
  BY DEF Ends
<1> HIDE DEF page
<1>5. \A x \in Clients : client'[x] = IF x = c THEN page ELSE client[x]
  BY <1>1, <1>4 DEF TypeOK
<1>6. client' \in [Clients -> ClientRow]  BY <1>1, <1>3, <1>4 DEF TypeOK
<1>7. LockedPolicy'
  <2> SUFFICES ASSUME NEW x \in Clients, Locking(x)'
               PROVE  policyLock' = x /\ client'[x].policy > 0
                      /\ polInForce' = {client'[x].policy}
    BY DEF LockedPolicy
  <2>1. x # c  BY <1>3, <1>5 DEF Locking
  <2>2. Locking(x)  BY <1>5, <2>1 DEF Locking
  <2> QED BY <1>4, <1>5, <2>1, <2>2 DEF IInv, LockedPolicy, policyVars
<1> QED BY <1>1, <1>3, <1>4, <1>5, <1>6, <1>7 DEF TypeOK

\* Nothing but the end of a transaction.
LEMMA RefusalKeepsIInv ==
  ASSUME IInv, NEW c \in Clients, Ends(c), UNCHANGED <<decision, acked, policyVars>>
  PROVE  IInv'
<1>1. TypeOK /\ \A e \in Decisions : Agrees(decision[e])  BY RowsAgreeIs DEF IInv
<1>2. /\ client' \in [Clients -> ClientRow] /\ policyLock' \in Clients \cup {Nobody}
      /\ \A x \in Clients : client'[x].seen = client[x].seen
      /\ LockedPolicy'
  BY EndsGives
<1>3. SeenWasThere'  BY <1>2 DEF IInv, SeenWasThere
<1>4. PagesFollow'  BY <1>2 DEF IInv, PagesFollow, IsDraft
<1> QED BY <1>1, <1>2, <1>3, <1>4, RequestKeepsIInv DEF TypeOK

\* A confirmation, by either way.
LEMMA ConfirmedKeepsIInv ==
  ASSUME IInv, NEW c \in Clients, NEW op, NEW d \in Decisions, NEW text \in Texts,
         NEW reviews \in 0..1, Locking(c), IsDraft(d),
         Answer(op, d, ConfirmedRow(c, d, text, reviews)), Ends(c), UNCHANGED policyVars
  PROVE  /\ IInv'
         /\ acked'[d].snapshot = text
         /\ HasSnapshot(d)' => polInForce = {decision'[d].policy}
<1>1. TypeOK /\ \A e \in Decisions : Agrees(decision[e])  BY RowsAgreeIs DEF IInv
<1> DEFINE row == ConfirmedRow(c, d, text, reviews)
<1>2. decision[d] \in Row /\ decision[d].reviews = 0 /\ decision[d].corrections = 0
  <2>1. decision[d] \in Row /\ Agrees(decision[d])  BY <1>1 DEF TypeOK
  <2> QED BY <2>1 DEF Agrees, IsDraft, Row
<1>3. client[c].policy \in 0..MaxVersions /\ client[c].policy > 0
      /\ polInForce = {client[c].policy}
  BY <1>1 DEF IInv, LockedPolicy, TypeOK, ClientRow
<1>4. /\ row.status = "confirmed" /\ row.revision = 0 /\ row.snapshot = text
      /\ row.policy = client[c].policy /\ row.reviews = reviews /\ row.corrections = 0
      /\ row \in Row
  <2>1. 0 \in 0..MaxRevision  BY CapsAssumption
  <2>2. "confirmed" \in Status /\ text \in Says /\ Blank \in Says  BY DEF Status, Says
  <2>3. decision[d].reviews + reviews = reviews /\ reviews \in 0..2  BY <1>2
  <2> QED BY <1>2, <1>3, <2>1, <2>2, <2>3 DEF ConfirmedRow, Row
<1> HIDE DEF row
<1>5. Agrees(row)  BY <1>3, <1>4, BlankAssumption DEF Agrees
<1>6. Answer(op, d, row)  BY DEF row
<1>7. /\ decision' \in [Decisions -> Row] /\ acked' \in [Decisions -> Row]
      /\ \A e \in Decisions : Agrees(decision'[e])
      /\ \A e \in Decisions : decision[e].status # "unborn" => decision'[e].status # "unborn"
      /\ \A x \in Clients, e \in Decisions :
           IsDraft(e)' /\ client[x].seen.id = e => Follows(client[x].seen, decision'[e])
  BY <1>4, <1>5, <1>6, AnswerStep
<1>8. /\ client' \in [Clients -> ClientRow] /\ policyLock' \in Clients \cup {Nobody}
      /\ \A x \in Clients : client'[x].seen = client[x].seen
      /\ LockedPolicy'
  BY EndsGives
<1>9. SeenWasThere'  BY <1>7, <1>8 DEF IInv, SeenWasThere
<1>10. PagesFollow'  BY <1>7, <1>8 DEF PagesFollow
<1>11. acked'[d] = row /\ (decision'[d] = row \/ decision'[d] = decision[d])
  BY <1>1, <1>4, <1>6, AnswerGives DEF IsDraft
<1>12. HasSnapshot(d)' => decision'[d] = row  BY <1>11 DEF HasSnapshot, IsDraft
<1> QED BY <1>3, <1>4, <1>7, <1>8, <1>9, <1>10, <1>11, <1>12, RequestKeepsIInv

\* The policy service writes while nobody holds the row.
LEMMA PolicyKeepsIInv == IInv /\ PolicyStep => IInv'
<1> SUFFICES ASSUME IInv, PolicyStep PROVE IInv'  OBVIOUS
<1>1. TypeOK /\ \A e \in Decisions : Agrees(decision[e])  BY RowsAgreeIs DEF IInv
<1>2. UNCHANGED <<decision, acked, client, policyLock>> /\ policyLock = Nobody
  BY DEF PolicyStep
<1>3. polVersions \in Seq({"text"}) /\ Len(polVersions) \in Nat
  BY <1>1, LenProperties DEF TypeOK
<1>4. ASSUME NEW content \in {"text"}, Policy!Add(content)
      PROVE  /\ polDraft' = "none" /\ polVersions' \in Seq({"text"})
             /\ polInForce' = {Len(polVersions) + 1} /\ Len(polVersions) + 1 \in 1..MaxVersions
  <2>1. /\ polVersions' = Append(polVersions, content) /\ polDraft' = "none"
        /\ polInForce' = {Len(polVersions) + 1}
    BY <1>4 DEF Policy!Add
  <2>2. polVersions' \in Seq({"text"}) /\ Len(polVersions') = Len(polVersions) + 1
    BY <1>3, <2>1, AppendProperties
  <2>3. Len(polVersions') <= MaxVersions  BY DEF PolicyStep
  <2> QED BY <1>3, <2>1, <2>2, <2>3, CapsAssumption
<1>5. /\ polDraft' \in {"text", "none"} /\ polVersions' \in Seq({"text"})
      /\ polInForce' \in SUBSET (1..MaxVersions) /\ OneInForce'
  <2>1. CASE Policy!EditDraft
    BY <1>1, <2>1 DEF Policy!EditDraft, TypeOK, IInv, OneInForce
  <2>2. CASE Policy!Publish
    <3>1. polDraft = "text"  BY <1>1, <2>2 DEF Policy!Publish, TypeOK
    <3>2. Policy!Add("text")  BY <2>2, <3>1 DEF Policy!Publish
    <3> QED BY <1>4, <3>2 DEF OneInForce
  <2>3. CASE Policy!PublishDirectly
    BY <1>4, <2>3 DEF Policy!PublishDirectly, OneInForce
  <2> QED BY <2>1, <2>2, <2>3 DEF PolicyStep, Policy!Next
<1>6. RowsAgree'
  BY <1>1, <1>2, <1>5 DEF TypeOK, IInv, RowsAgree, IsDraft, HasSnapshot
<1>7. LockedPolicy'
  BY <1>2, NobodyAssumption DEF IInv, LockedPolicy, Locking
<1>8. SeenWasThere' /\ PagesFollow'
  BY <1>2 DEF IInv, SeenWasThere, PagesFollow, IsDraft
<1> QED BY <1>5, <1>6, <1>7, <1>8 DEF IInv

-------------------------------------------------------------------------------
LEMMA NoRowIsRow ==
  /\ NoRow \in Row /\ NoRow.status = "unborn"
  /\ Agrees(NoRow) /\ Agrees([NoRow EXCEPT !.status = "gone"])
  /\ [NoRow EXCEPT !.status = "gone"] \in Row
<1>1. 0 \in 0..MaxRevision /\ 0 \in 0..MaxVersions /\ 0 \in 0..MaxCorrections /\ 0 \in 0..2
  BY CapsAssumption
<1>2. Blank \in Says /\ "unborn" \in Status /\ "gone" \in Status  BY DEF Says, Status
<1> QED BY <1>1, <1>2 DEF NoRow, Row, Agrees

LEMMA InitIInv == Init => IInv
<1> SUFFICES ASSUME Init PROVE IInv  OBVIOUS
<1>1. TypeOK
  <2> DEFINE page == [at |-> "idle", seen |-> NothingSeen, policy |-> 0]
  <2>1. page \in ClientRow
    <3>1. 0 \in 0..MaxRevision /\ 0 \in 0..MaxVersions  BY CapsAssumption
    <3>2. NothingSeen \in Seen  BY <3>1 DEF NothingSeen, Seen, Says
    <3> QED BY <3>1, <3>2 DEF ClientRow, Requests
  <2>2. \A c \in Clients : client[c] = page  BY DEF Init
  <2> HIDE DEF page
  <2>3. client \in [Clients -> ClientRow]  BY <2>1, <2>2 DEF Init
  <2>4. decision \in [Decisions -> Row] /\ acked \in [Decisions -> Row]
    BY NoRowIsRow DEF Init
  <2>5. polDraft = "none" /\ polVersions = <<>> /\ polInForce = {}
    BY DEF Init, Policy!Init
  <2>6. polVersions \in Seq({"text"})  BY <2>5, EmptySeq
  <2>7. policyLock \in Clients \cup {Nobody}  BY DEF Init
  <2> QED BY <2>3, <2>4, <2>5, <2>6, <2>7 DEF TypeOK
<1>2. RowsAgree
  <2>1. \A d \in Decisions : Agrees(decision[d])  BY NoRowIsRow DEF Init
  <2> QED BY <1>1, <2>1, RowsAgreeIs
<1>3. \A c \in Clients : client[c].at = "idle" /\ client[c].seen.id = Nobody
  BY DEF Init, NothingSeen
<1>4. polInForce = {}  BY DEF Init, Policy!Init
<1> QED BY <1>2, <1>3, <1>4, NobodyAssumption
        DEF IInv, LockedPolicy, Locking, OneInForce, SeenWasThere, PagesFollow

\* What a step on a decision keeps, and when it makes a snapshot.
LEMMA OnDecisionKeepsIInv ==
  ASSUME IInv, NEW c \in Clients, NEW d \in Decisions, OnDecision(c, d)
  PROVE  IInv'
<1>0. TypeOK /\ Agrees(decision[d]) /\ decision[d] \in Row
  BY RowsAgreeIs DEF IInv, TypeOK
<1> DEFINE gone == [NoRow EXCEPT !.status = "gone"]
<1>1. gone \in Row /\ Agrees(gone) /\ gone.status = "gone"  BY NoRowIsRow DEF NoRow
<1>2. CASE Create(c, d)
  <2> DEFINE row == [NoRow EXCEPT !.status = "draft", !.revision = 1]
  <2>1. 1 \in 1..MaxRevision /\ 1 \in 0..MaxRevision /\ "draft" \in Status
    BY CapsAssumption DEF Status
  <2>2. /\ row \in Row /\ row.status = "draft" /\ row.revision = 1 /\ row.policy = 0
        /\ row.corrections = 0 /\ row.reviews = 0
    BY <2>1, NoRowIsRow DEF NoRow, Row
  <2>3. Agrees(row)  BY <2>1, <2>2 DEF Agrees
  <2>4. /\ Idle(c) /\ Answer("create", d, row) /\ Shows(c, d, row)
        /\ UNCHANGED <<policyLock, policyVars>> /\ decision[d].status = "unborn"
    BY <1>2 DEF Create
  <2> HIDE DEF row
  <2> QED BY <2>2, <2>3, <2>4, ShownKeepsIInv
<1>3. ASSUME NEW text \in Says, Bridge(c, d, text) PROVE IInv'
  <2> DEFINE row == [NoRow EXCEPT !.status = "draft", !.revision = 2, !.text = text]
  <2>1. 2 \in 0..MaxRevision /\ "draft" \in Status
    BY <1>3, CapsAssumption DEF Bridge, Status
  <2>2. /\ row \in Row /\ row.status = "draft" /\ row.revision = 2 /\ row.policy = 0
        /\ row.corrections = 0 /\ row.reviews = 0
    BY <2>1, NoRowIsRow DEF NoRow, Row
  <2>3. /\ Answer("bridge", d, row) /\ UNCHANGED <<client, policyLock, policyVars>>
        /\ decision[d].status = "unborn"
    BY <1>3 DEF Bridge
  <2> HIDE DEF row
  <2>4. Agrees(row)  BY <2>2 DEF Agrees
  <2> QED BY <2>2, <2>3, <2>4, SilentKeepsIInv
<1>4. ASSUME NEW text \in Says, Update(c, d, text) PROVE IInv'
  <2> DEFINE row == [decision[d] EXCEPT !.text = text, !.revision = @ + 1]
  <2>1. IsDraft(d) /\ decision[d].revision < MaxRevision
    BY <1>4 DEF Update, Expected
  <2>2. decision[d].revision + 1 \in 0..MaxRevision /\ decision[d].revision + 1 > 0
    BY <1>0, <2>1, CapsAssumption DEF Row
  <2>3. /\ row \in Row /\ row.revision = decision[d].revision + 1 /\ row.status = "draft"
        /\ row.policy = decision[d].policy /\ row.snapshot = decision[d].snapshot
        /\ row.corrections = decision[d].corrections /\ row.reviews = decision[d].reviews
    BY <1>0, <2>1, <2>2 DEF Row, IsDraft
  <2>4. /\ Idle(c) /\ Answer("update", d, row) /\ Shows(c, d, row)
        /\ UNCHANGED <<policyLock, policyVars>>
    BY <1>4 DEF Update
  <2> HIDE DEF row
  <2>5. Agrees(row)  BY <1>0, <2>1, <2>2, <2>3 DEF Agrees, IsDraft
  <2> QED BY <2>1, <2>3, <2>4, <2>5, ShownKeepsIInv
<1>5. CASE Read(c, d)
  <2> DEFINE page == [at |-> "idle", policy |-> 0,
                      seen |-> [id |-> d, revision |-> decision[d].revision,
                                text |-> decision[d].text]]
  <2>1. page \in ClientRow  BY <1>0, CapsAssumption DEF ClientRow, Seen, Row, Requests
  <2>2. page.at = "idle" /\ page.seen = [id |-> d, revision |-> decision[d].revision,
                                         text |-> decision[d].text]
    OBVIOUS
  <2>3. /\ client' = [client EXCEPT ![c] = page]
        /\ UNCHANGED <<decision, acked, policyLock, policyVars>> /\ IsDraft(d)
    BY <1>5 DEF Read, Shows
  <2> HIDE DEF page
  <2>4. \A x \in Clients : client'[x] = IF x = c THEN page ELSE client[x]
    BY <1>0, <2>3 DEF TypeOK
  <2>5. LockedPolicy'
    BY <2>2, <2>3, <2>4 DEF IInv, LockedPolicy, Locking, policyVars
  <2> QED BY <1>0, <2>1, <2>2, <2>3, <2>5, PageKeepsIInv DEF TypeOK
<1>6. CASE Discard(c, d) \/ Reject(c, d)
  <2>1. PICK op \in {"discard", "reject"} :
          Answer(op, d, gone) /\ UNCHANGED <<client, policyLock, policyVars>>
    BY <1>6 DEF Discard, Reject
  <2> HIDE DEF gone
  <2> QED BY <1>1, <2>1, SilentKeepsIInv
<1>7. CASE Confirm(c, d)
  <2>1. /\ Locking(c) /\ IsDraft(d) /\ decision[d].text \in Texts
        /\ Answer("confirm", d, ConfirmedRow(c, d, decision[d].text, 0)) /\ Ends(c)
        /\ UNCHANGED policyVars /\ 0 \in 0..1
    BY <1>0, <1>7 DEF Confirm, Expected, Locking, Row, Says
  <2> QED BY <2>1, ConfirmedKeepsIInv
<1>8. CASE ApproveReads(c, d)
  <2> DEFINE seen == [id |-> d, revision |-> decision[d].revision, text |-> decision[d].text]
             page == [client[c] EXCEPT !.at = "approving", !.seen = seen]
  <2>1. seen \in Seen  BY <1>0 DEF Seen, Row
  <2>2. client[c] \in ClientRow /\ "approving" \in Requests  BY <1>0 DEF TypeOK, Requests
  <2>3. page \in ClientRow /\ page.at = "approving" /\ page.seen = seen
    BY <2>1, <2>2 DEF ClientRow
  <2>4. /\ client' = [client EXCEPT ![c] = page]
        /\ UNCHANGED <<decision, acked, policyLock, policyVars>> /\ IsDraft(d)
    BY <1>0, <1>8 DEF ApproveReads, TypeOK
  <2> HIDE DEF page
  <2>5. \A x \in Clients : client'[x] = IF x = c THEN page ELSE client[x]
    BY <1>0, <2>4 DEF TypeOK
  <2>6. LockedPolicy'
    BY <2>3, <2>4, <2>5 DEF IInv, LockedPolicy, Locking, policyVars
  <2> QED BY <1>0, <2>3, <2>4, <2>6, PageKeepsIInv DEF TypeOK
<1>9. CASE Approve(c, d)
  <2>1. client[c].seen.text \in Texts
    BY <1>0, <1>9 DEF Approve, TypeOK, ClientRow, Seen, Says
  <2>2. /\ Locking(c) /\ IsDraft(d)
        /\ Answer("approve", d, ConfirmedRow(c, d, client[c].seen.text, 1)) /\ Ends(c)
        /\ UNCHANGED policyVars /\ 1 \in 0..1
    BY <1>9 DEF Approve, Locking
  <2> QED BY <2>1, <2>2, ConfirmedKeepsIInv
<1>10. CASE Archive(c, d) \/ Unarchive(c, d)
  <2>1. PICK op \in {"archive", "unarchive"}, to \in {"confirmed", "archived"} :
          /\ decision[d].status \in {"confirmed", "archived"}
          /\ Answer(op, d, [decision[d] EXCEPT !.status = to])
          /\ UNCHANGED <<client, policyLock, policyVars>>
    BY <1>10 DEF Archive, Unarchive, Move
  <2> DEFINE row == [decision[d] EXCEPT !.status = to]
  <2>2. /\ row \in Row /\ row.status = to /\ row.revision = decision[d].revision
        /\ row.policy = decision[d].policy /\ row.snapshot = decision[d].snapshot
        /\ row.corrections = decision[d].corrections /\ row.reviews = decision[d].reviews
    BY <1>0 DEF Row, Status
  <2>3. Answer(op, d, row)  BY <2>1
  <2> HIDE DEF row
  <2>4. Agrees(row)  BY <1>0, <2>1, <2>2 DEF Agrees
  <2> QED BY <2>1, <2>2, <2>3, <2>4, SilentKeepsIInv
<1>11. CASE Correct(c, d)
  <2> DEFINE row == [decision[d] EXCEPT !.corrections = @ + 1]
  <2>1. decision[d].corrections + 1 \in 0..MaxCorrections
    BY <1>0, <1>11, CapsAssumption DEF Correct, Row
  <2>2. /\ row \in Row /\ row.status = decision[d].status /\ row.revision = decision[d].revision
        /\ row.policy = decision[d].policy /\ row.snapshot = decision[d].snapshot
        /\ row.reviews = decision[d].reviews
    BY <1>0, <2>1 DEF Row
  <2>3. /\ Answer("correct", d, row) /\ UNCHANGED <<client, policyLock, policyVars>>
        /\ HasSnapshot(d)
    BY <1>11 DEF Correct
  <2> HIDE DEF row
  <2>4. Agrees(row)  BY <1>0, <2>2, <2>3 DEF Agrees, HasSnapshot
  <2>5. row.status \notin {"draft", "unborn"}  BY <2>2, <2>3 DEF HasSnapshot
  <2> QED BY <2>2, <2>3, <2>4, <2>5, SilentKeepsIInv
<1> QED BY <1>2, <1>3, <1>4, <1>5, <1>6, <1>7, <1>8, <1>9, <1>10, <1>11 DEF OnDecision

LEMMA NextIInv == IInv /\ [Next]_vars => IInv'
<1> SUFFICES ASSUME IInv, [Next]_vars PROVE IInv'  OBVIOUS
<1>1. CASE UNCHANGED vars
  BY <1>1 DEF vars, policyVars, IInv, RowsAgree, TypeOK, IsDraft, HasSnapshot, LockedPolicy,
              Locking, OneInForce, SeenWasThere, PagesFollow
<1>2. ASSUME NEW c \in Clients, ConfirmBegins(c) \/ ApproveLocks(c) PROVE IInv'
  BY <1>2, TakeKeepsIInv DEF ConfirmBegins, ApproveLocks
<1>3. ASSUME NEW c \in Clients, ConfirmRefused(c) \/ ApproveRefused(c) PROVE IInv'
  BY <1>3, RefusalKeepsIInv DEF ConfirmRefused, ApproveRefused
<1> QED BY <1>1, <1>2, <1>3, OnDecisionKeepsIInv, PolicyKeepsIInv DEF Next

\* The invariant that the others follow from.
THEOREM Inductive == Spec => []IInv
BY InitIInv, NextIInv, PTL DEF Spec

\* Status, draft, snapshot, corrections and reviews of a decision agree, whichever
\* transactions of decisions.py and decision_lifecycle.py overlap and whichever of them
\* are rolled back.
THEOREM Rows == Spec => []RowsAgree
<1>1. IInv => RowsAgree  BY DEF IInv
<1> QED BY <1>1, Inductive, PTL

\* confirm_draft makes a snapshot under the version in force at that moment.
THEOREM UnderPolicyInForce == Spec => ConfirmedUnderPolicyInForce
<1>1. ASSUME IInv, [Next]_vars, NEW d \in Decisions, ~HasSnapshot(d), HasSnapshot(d)'
      PROVE  polInForce = {decision'[d].policy}
  <2>0. TypeOK  BY <1>1 DEF IInv, RowsAgree
  <2>1. decision'[d].status # decision[d].status  BY <1>1 DEF HasSnapshot
  <2>2. PICK c \in Clients, e \in Decisions : OnDecision(c, e)
    BY <1>1, <2>1 DEF Next, vars, PolicyStep, ConfirmBegins, ConfirmRefused, ApproveLocks,
                      ApproveRefused
  <2>3. ASSUME NEW op, NEW row, Answer(op, e, row) PROVE e = d /\ decision'[d] = row
    <3>1. e = d  BY <2>0, <2>1, <2>3 DEF Answer, TypeOK
    <3>2. op \in Durable
      BY <1>1, <2>0, <2>1, <2>3, <3>1 DEF Answer, TypeOK, Row, HasSnapshot
    <3> QED BY <2>0, <2>3, <3>1, <3>2 DEF Answer, TypeOK
  <2>4. CASE Confirm(c, e)
    <3>1. Answer("confirm", e, ConfirmedRow(c, e, decision[e].text, 0))
      BY <2>4 DEF Confirm
    <3>2. e = d  BY <2>3, <3>1
    <3>3. /\ Locking(c) /\ IsDraft(d) /\ decision[d].text \in Texts
          /\ Answer("confirm", d, ConfirmedRow(c, d, decision[d].text, 0)) /\ Ends(c)
          /\ UNCHANGED policyVars /\ 0 \in 0..1
      BY <2>0, <2>4, <3>2 DEF Confirm, Expected, Locking, TypeOK, Row, Says
    <3> QED BY <1>1, <3>3, ConfirmedKeepsIInv
  <2>5. CASE Approve(c, e)
    <3>1. Answer("approve", e, ConfirmedRow(c, e, client[c].seen.text, 1))
      BY <2>5 DEF Approve
    <3>2. e = d  BY <2>3, <3>1
    <3>3. client[c].seen.text \in Texts
      BY <2>0, <2>5 DEF Approve, TypeOK, ClientRow, Seen, Says
    <3>4. /\ Locking(c) /\ IsDraft(d)
          /\ Answer("approve", d, ConfirmedRow(c, d, client[c].seen.text, 1)) /\ Ends(c)
          /\ UNCHANGED policyVars /\ 1 \in 0..1
      BY <2>5, <3>2 DEF Approve, Locking
    <3> QED BY <1>1, <3>3, <3>4, ConfirmedKeepsIInv
  <2>6. CASE Read(c, e) \/ ApproveReads(c, e)
    BY <2>1, <2>6 DEF Read, ApproveReads
  <2>7. CASE Create(c, e)
    <3> DEFINE row == [NoRow EXCEPT !.status = "draft", !.revision = 1]
    <3>1. row.status = "draft" /\ decision'[d] = row  BY <2>3, <2>7 DEF Create, NoRow
    <3> QED BY <1>1, <3>1 DEF HasSnapshot
  <2>8. ASSUME NEW text \in Says, Bridge(c, e, text) PROVE FALSE
    <3> DEFINE row == [NoRow EXCEPT !.status = "draft", !.revision = 2, !.text = text]
    <3>1. row.status = "draft" /\ decision'[d] = row  BY <2>3, <2>8 DEF Bridge, NoRow
    <3> QED BY <1>1, <3>1 DEF HasSnapshot
  <2>9. ASSUME NEW text \in Says, Update(c, e, text) PROVE FALSE
    <3> DEFINE row == [decision[e] EXCEPT !.text = text, !.revision = @ + 1]
    <3>1. decision'[d] = row /\ decision[e].status = "draft" /\ decision[e] \in Row
      BY <2>0, <2>3, <2>9 DEF Update, Expected, IsDraft, TypeOK
    <3>2. row.status = "draft"  BY <3>1 DEF Row
    <3> QED BY <1>1, <3>1, <3>2 DEF HasSnapshot
  <2>10. CASE Discard(c, e) \/ Reject(c, e)
    <3> DEFINE row == [NoRow EXCEPT !.status = "gone"]
    <3>1. row.status = "gone" /\ decision'[d] = row  BY <2>3, <2>10 DEF Discard, Reject, NoRow
    <3> QED BY <1>1, <3>1 DEF HasSnapshot
  <2>11. CASE Archive(c, e) \/ Unarchive(c, e) \/ Correct(c, e)
    <3>1. PICK op, row : Answer(op, e, row) /\ HasSnapshot(e)
      BY <2>11 DEF Archive, Unarchive, Correct, Move, HasSnapshot
    <3> QED BY <1>1, <2>3, <3>1
  <2> QED BY <2>2, <2>4, <2>5, <2>6, <2>7, <2>8, <2>9, <2>10, <2>11 DEF OnDecision
<1>2. IInv /\ [Next]_vars =>
        [\A d \in Decisions :
           ~HasSnapshot(d) /\ HasSnapshot(d)' => polInForce = {decision'[d].policy}]_vars
  BY <1>1
<1> QED BY <1>2, Inductive, PTL DEF Spec, ConfirmedUnderPolicyInForce

\* The route of confirm_draft makes a snapshot of what the page shows.
THEOREM AsSeen == Spec => ConfirmedAsSeen
<1>1. ASSUME IInv, NEW c \in Clients, NEW d \in Decisions, Confirm(c, d)
      PROVE  acked'[d].snapshot = client[c].seen.text
  <2>0. TypeOK  BY <1>1 DEF IInv, RowsAgree
  <2>1. /\ Locking(c) /\ Expected(c, d) /\ IsDraft(d) /\ decision[d].text \in Texts
        /\ Answer("confirm", d, ConfirmedRow(c, d, decision[d].text, 0)) /\ Ends(c)
        /\ UNCHANGED policyVars /\ 0 \in 0..1
    BY <1>1, <2>0 DEF Confirm, Expected, Locking, TypeOK, Row, Says
  <2>2. acked'[d].snapshot = decision[d].text  BY <1>1, <2>1, ConfirmedKeepsIInv
  <2>3. client[c].seen.text = decision[d].text
    BY <1>1, <2>1 DEF Expected, IInv, PagesFollow, Follows
  <2> QED BY <2>2, <2>3
<1>2. IInv /\ [Next]_vars =>
        [\A c \in Clients, d \in Decisions :
           Confirm(c, d) => acked'[d].snapshot = client[c].seen.text]_vars
  BY <1>1
<1> QED BY <1>2, Inductive, PTL DEF Spec, ConfirmedAsSeen
===============================================================================
