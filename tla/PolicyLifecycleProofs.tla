------------------------ MODULE PolicyLifecycleProofs -------------------------
(***************************************************************************)
(* Proofs about PolicyLifecycle, for any clients, texts and bounds.         *)
(*                                                                          *)
(* What is inductive is that ids of drafts are never used again, and that a *)
(* client which saw the present draft saw an earlier revision of it, or     *)
(* this one and then its content, as far as it has read it.                 *)
(***************************************************************************)
EXTENDS PolicyLifecycle, SequenceTheorems, TLAPS

\* What c was shown of a draft d with the same id.
Follows(c, d) ==
  LET seen == client[c].seen
  IN  /\ seen.revision <= d.revision
      /\ seen.revision = d.revision =>
           /\ client[c].at = "idle" => seen = d
           /\ client[c].at = "reading" =>
                seen = [d EXCEPT !.content = [d.content EXCEPT !.allocations = "none"]]

IdsAreNew ==
  /\ draft.id <= opened
  /\ \A c \in Clients : client[c].seen.id <= opened

ClientsFollow ==
  \A c \in Clients : HasDraft /\ client[c].seen.id = draft.id => Follows(c, draft)

IInv == TypeOK /\ IdsAreNew /\ ClientsFollow

-------------------------------------------------------------------------------
LEMMA BlankIsContent == BlankContent \in Content
BY DEF BlankContent, Content, Fields, Allocations

LEMMA NoDraftIsSeen == NoDraft \in Seen /\ NoDraft.id = 0 /\ NoDraft \notin Draft
BY BoundsAssumption, BlankIsContent DEF NoDraft, Seen, Draft

LEMMA DraftIsSeen == ASSUME NEW d \in Draft PROVE d \in Seen
BY BoundsAssumption DEF Draft, Seen

LEMMA NewDraftIsDraft ==
  ASSUME TypeOK, opened < MaxDrafts, NEW content \in Content
  PROVE  /\ NewDraft(content) \in Draft
         /\ NewDraft(content).id = opened + 1
         /\ NewDraft(content).revision = 1
         /\ NewDraft(content).content = content
BY BoundsAssumption DEF TypeOK, NewDraft, Draft

LEMMA FunctionIsSeq ==
  ASSUME NEW S, NEW n \in Nat, NEW f \in [1..n -> S]
  PROVE  f \in Seq(S) /\ Len(f) = n
OBVIOUS

\* Publishing adds one version, of that content, which alone is in force.
LEMMA SupersedeAndAddAdds ==
  ASSUME NEW vs \in Seq(Version), NEW content \in Content
  PROVE  /\ SupersedeAndAdd(vs, content) \in Seq(Version)
         /\ Len(SupersedeAndAdd(vs, content)) = Len(vs) + 1
         /\ SupersedeAndAdd(vs, content)[Len(vs) + 1].content = content
         /\ InForce(SupersedeAndAdd(vs, content)) = {Len(vs) + 1}
         /\ \A n \in 1..Len(vs) : SupersedeAndAdd(vs, content)[n].content = vs[n].content
<1> DEFINE old == [n \in DOMAIN vs |-> [vs[n] EXCEPT !.status = "superseded"]]
           new == [status |-> "published", content |-> content]
<1>1. /\ old \in Seq(Version) /\ Len(old) = Len(vs)
      /\ \A n \in 1..Len(vs) : old[n].content = vs[n].content /\ old[n].status = "superseded"
  <2>1. \A n \in 1..Len(vs) : vs[n] \in Version  OBVIOUS
  <2>2. \A n \in 1..Len(vs) : old[n] \in Version /\ old[n].content = vs[n].content
                                /\ old[n].status = "superseded"
    BY <2>1 DEF Version
  <2>3. DOMAIN vs = 1..Len(vs) /\ Len(vs) \in Nat  OBVIOUS
  <2>4. old \in [1..Len(vs) -> Version]  BY <2>2, <2>3
  <2> QED BY <2>2, <2>3, <2>4, FunctionIsSeq
<1>2. new \in Version  BY DEF Version
<1>3. SupersedeAndAdd(vs, content) = Append(old, new)  BY DEF SupersedeAndAdd
<1> HIDE DEF old, new
<1>4. /\ Append(old, new) \in Seq(Version)
      /\ Len(Append(old, new)) = Len(vs) + 1
      /\ Append(old, new)[Len(vs) + 1] = new
      /\ \A n \in 1..Len(vs) : Append(old, new)[n] = old[n]
  BY <1>1, <1>2
<1>5. new.content = content /\ new.status = "published"  BY DEF new
<1>6. InForce(Append(old, new)) = {Len(vs) + 1}
  <2>1. DOMAIN Append(old, new) = 1..(Len(vs) + 1)  BY <1>4
  <2>2. Len(vs) \in Nat  OBVIOUS
  <2>3. \A n \in 1..(Len(vs) + 1) :
          Append(old, new)[n].status = "published" <=> n = Len(vs) + 1
    BY <1>1, <1>4, <1>5, <2>2
  <2> QED BY <2>1, <2>2, <2>3 DEF InForce
<1> QED BY <1>1, <1>3, <1>4, <1>5, <1>6

-------------------------------------------------------------------------------
LEMMA InitIInv == Init => IInv
<1> SUFFICES ASSUME Init PROVE IInv  OBVIOUS
<1>1. [at |-> "idle", seen |-> NoDraft] \in ClientRow
  BY NoDraftIsSeen DEF ClientRow, Requests
<1>2. TypeOK
  <2>1. client \in [Clients -> ClientRow]  BY <1>1 DEF Init
  <2>2. opened \in 0..MaxDrafts  BY BoundsAssumption DEF Init
  <2>3. <<>> \in Seq(Version)  BY EmptySeq
  <2>4. policy \in BOOLEAN  BY DEF Init
  <2> QED BY <2>1, <2>2, <2>3, <2>4 DEF Init, TypeOK
<1>3. IdsAreNew  BY NoDraftIsSeen DEF Init, IdsAreNew
<1>4. ClientsFollow  BY DEF Init, ClientsFollow, HasDraft
<1> QED BY <1>2, <1>3, <1>4 DEF IInv

\* A request that leaves the draft alone and shows a client what follows it.
LEMMA ShownKeepsIInv ==
  ASSUME IInv, NEW c \in Clients, NEW row \in ClientRow,
         UNCHANGED <<policy, draft, opened>>, versions' \in Seq(Version),
         client' = [client EXCEPT ![c] = row],
         row.seen.id <= opened,
         HasDraft /\ row.seen.id = draft.id => Follows(c, draft)'
  PROVE  IInv'
<1>1. TypeOK'  BY DEF IInv, TypeOK
<1>2. \A x \in Clients : client'[x] = IF x = c THEN row ELSE client[x]
  BY DEF IInv, TypeOK
<1>3. IdsAreNew'  BY <1>2 DEF IInv, IdsAreNew
<1>4. ClientsFollow'
  <2> SUFFICES ASSUME NEW x \in Clients, HasDraft', client'[x].seen.id = draft'.id
               PROVE  Follows(x, draft)'
    BY DEF ClientsFollow
  <2>1. CASE x = c  BY <2>1, <1>2 DEF HasDraft
  <2>2. CASE x # c
    <3>1. Follows(x, draft)  BY <2>2, <1>2 DEF IInv, ClientsFollow, HasDraft
    <3> QED BY <3>1, <2>2, <1>2 DEF Follows
  <2> QED BY <2>1, <2>2
<1> QED BY <1>1, <1>3, <1>4 DEF IInv

\* A request that ends the draft and leaves the clients with what they were shown.
LEMMA EndedKeepsIInv ==
  ASSUME IInv, draft' = NoDraft, policy' \in BOOLEAN, UNCHANGED opened,
         versions' \in Seq(Version),
         client' \in [Clients -> ClientRow],
         \A c \in Clients : client'[c].seen \in {client[c].seen, NoDraft}
  PROVE  IInv'
<1>1. TypeOK'  BY DEF IInv, TypeOK
<1>2. IdsAreNew'
  BY NoDraftIsSeen, BoundsAssumption DEF IInv, IdsAreNew, TypeOK
<1>3. ClientsFollow'  BY DEF ClientsFollow, HasDraft
<1> QED BY <1>1, <1>2, <1>3 DEF IInv

\* A new draft: nobody has seen its id.
LEMMA OpenedKeepsIInv ==
  ASSUME IInv, NEW c \in Clients, Idle(c), opened < MaxDrafts, NEW content \in Content,
         policy' \in BOOLEAN, draft' = NewDraft(content), opened' = opened + 1,
         UNCHANGED versions, client' = [client EXCEPT ![c].seen = draft']
  PROVE  IInv'
<1> USE BoundsAssumption
<1>0. TypeOK /\ IdsAreNew  BY DEF IInv
<1>1. /\ draft' \in Draft /\ draft' \in Seen
      /\ draft'.id = opened + 1
  BY <1>0, NewDraftIsDraft, DraftIsSeen
<1>2. /\ client' \in [Clients -> ClientRow]
      /\ \A x \in Clients : /\ client'[x].at = client[x].at
                             /\ client'[x].seen = IF x = c THEN draft' ELSE client[x].seen
  BY <1>0, <1>1 DEF TypeOK, ClientRow
<1>3. TypeOK'  BY <1>0, <1>1, <1>2 DEF TypeOK
<1>4. IdsAreNew'
  <2>1. opened \in Nat /\ \A x \in Clients : client[x].seen.id \in Nat
    BY <1>0 DEF TypeOK, ClientRow, Seen
  <2> QED BY <1>0, <1>1, <1>2, <2>1 DEF IdsAreNew
<1>5. ClientsFollow'
  <2> SUFFICES ASSUME NEW x \in Clients, client'[x].seen.id = draft'.id
               PROVE  Follows(x, draft)'
    BY DEF ClientsFollow
  <2>1. opened \in Nat /\ client[x].seen.id \in Nat /\ client[x].seen.id <= opened
    BY <1>0 DEF TypeOK, ClientRow, Seen, IdsAreNew
  <2>2. x = c  BY <1>1, <1>2, <2>1
  <2>3. client'[x].seen = draft' /\ client'[x].at = "idle"  BY <1>2, <2>2 DEF Idle
  <2>4. draft'.revision \in Nat  BY <1>1 DEF Draft
  <2> QED BY <2>3, <2>4 DEF Follows
<1> QED BY <1>3, <1>4, <1>5 DEF IInv

\* The next revision of the draft: whoever saw an earlier one is behind.
LEMMA ReviseKeepsIInv ==
  ASSUME IInv, NEW c \in Clients, NEW content \in Content, Revise(c, content)
  PROVE  IInv'
<1> USE BoundsAssumption
<1>0. TypeOK /\ IdsAreNew /\ ClientsFollow /\ HasDraft /\ draft \in Draft
  BY DEF IInv, Revise, Expected, HasDraft, TypeOK
<1>1. /\ draft' \in Draft /\ draft' \in Seen
      /\ draft'.id = draft.id /\ draft'.revision = draft.revision + 1
  <2>1. draft' = [draft EXCEPT !.content = content, !.revision = draft.revision + 1]
    BY DEF Revise
  <2>2. draft.revision + 1 \in 1..MaxRevision  BY <1>0 DEF Revise, Draft
  <2>3. draft' \in Draft  BY <1>0, <2>1, <2>2 DEF Draft
  <2> QED BY <1>0, <2>1, <2>3, DraftIsSeen DEF Draft
<1>2. /\ client' \in [Clients -> ClientRow]
      /\ \A x \in Clients : /\ client'[x].at = client[x].at
                             /\ client'[x].seen = IF x = c THEN draft' ELSE client[x].seen
  BY <1>0, <1>1 DEF TypeOK, ClientRow, Revise, Shows
<1>3. TypeOK'  BY <1>0, <1>1, <1>2 DEF TypeOK, Revise
<1>4. IdsAreNew'  BY <1>0, <1>1, <1>2 DEF IdsAreNew, Revise
<1>5. ClientsFollow'
  <2> SUFFICES ASSUME NEW x \in Clients, client'[x].seen.id = draft'.id
               PROVE  Follows(x, draft)'
    BY DEF ClientsFollow
  <2>1. draft.revision \in Nat  BY <1>0 DEF Draft
  <2>2. CASE x = c
    <3>1. client'[x].seen = draft' /\ client'[x].at = "idle"
      BY <1>2, <2>2 DEF Revise, Idle
    <3> QED BY <3>1, <1>1, <2>1 DEF Follows
  <2>3. CASE x # c
    <3>1. Follows(x, draft)  BY <1>0, <1>1, <1>2, <2>3 DEF ClientsFollow
    <3>2. client[x].seen.revision \in Nat  BY <1>0 DEF TypeOK, ClientRow, Seen
    <3>3. client'[x].seen.revision < draft'.revision
      BY <1>1, <1>2, <2>1, <2>3, <3>1, <3>2 DEF Follows
    <3> QED BY <3>3, <3>2, <1>1, <1>2, <2>1, <2>3 DEF Follows
  <2> QED BY <2>2, <2>3
<1> QED BY <1>3, <1>4, <1>5 DEF IInv

\* What a GET has read by the end of its two statements.
LEMMA ReadingKeepsIInv ==
  ASSUME IInv, NEW c \in Clients, ReadDraft(c) \/ ReadAllocations(c)
  PROVE  IInv'
<1> USE BoundsAssumption
<1>0. TypeOK /\ IdsAreNew /\ ClientsFollow  BY DEF IInv
<1>1. CASE ReadDraft(c)
  <2> DEFINE part == [draft EXCEPT !.content.allocations = "none"]
             row  == [at |-> "reading", seen |-> part]
  <2>1. draft \in Draft  BY <1>0, <1>1 DEF ReadDraft, HasDraft, TypeOK
  <2>2. /\ part = [draft EXCEPT !.content = [draft.content EXCEPT !.allocations = "none"]]
        /\ part \in Draft /\ part.id = draft.id /\ part.revision = draft.revision
    BY <2>1 DEF Draft, Content, Allocations
  <2>3. row \in ClientRow  BY <2>2, DraftIsSeen DEF ClientRow, Requests
  <2> HIDE DEF part
  <2>4. client' = [client EXCEPT ![c] = row]  BY <1>1 DEF ReadDraft, part
  <2>5. client'[c] = row  BY <2>4, <1>0 DEF TypeOK
  <2>6. draft.revision \in Nat  BY <2>1 DEF Draft
  <2>7. UNCHANGED <<policy, draft, versions, opened>>  BY <1>1 DEF ReadDraft
  <2>8. Follows(c, draft)'
    <3>1. client'[c].at = "reading" /\ client'[c].seen = part  BY <2>5
    <3>2. client'[c].seen.revision <= draft'.revision  BY <3>1, <2>2, <2>6, <2>7
    <3> QED BY <3>1, <3>2, <2>2, <2>7 DEF Follows
  <2>9. row.seen.id <= opened  BY <1>0, <2>2 DEF IdsAreNew
  <2>10. versions' \in Seq(Version)  BY <1>0, <2>7 DEF TypeOK
  <2> QED BY <2>3, <2>4, <2>7, <2>8, <2>9, <2>10, ShownKeepsIInv
<1>2. CASE ReadAllocations(c)
  <2> DEFINE found == IF client[c].seen.id = draft.id THEN draft.content.allocations ELSE "none"
             whole == [client[c].seen EXCEPT !.content =
                         [client[c].seen.content EXCEPT !.allocations = found]]
             row   == [at |-> "idle", seen |-> whole]
  <2>1. client[c] \in ClientRow /\ client[c].seen \in Seen /\ client[c].at = "reading"
    BY <1>0, <1>2 DEF TypeOK, ClientRow, ReadAllocations
  <2>2. found \in Allocations
    BY <1>0, NoDraftIsSeen DEF TypeOK, Draft, Content, Allocations, NoDraft, BlankContent
  <2>3. /\ whole \in Seen
        /\ whole.id = client[c].seen.id /\ whole.revision = client[c].seen.revision
    BY <2>1, <2>2 DEF Seen, Content
  <2>4. row \in ClientRow  BY <2>3 DEF ClientRow, Requests
  <2>5. client' = [client EXCEPT ![c] = row]  BY <1>2 DEF ReadAllocations
  <2>6. client'[c] = row  BY <2>5, <1>0 DEF TypeOK
  <2>7. UNCHANGED <<policy, draft, versions, opened>>  BY <1>2 DEF ReadAllocations
  <2>8. ASSUME HasDraft, whole.id = draft.id PROVE Follows(c, draft)'
    <3>1. Follows(c, draft) /\ draft \in Draft
      BY <1>0, <2>3, <2>8 DEF ClientsFollow, HasDraft, TypeOK
    <3>2. ASSUME client[c].seen.revision = draft.revision PROVE whole = draft
      <4>1. client[c].seen = [draft EXCEPT !.content = [draft.content EXCEPT !.allocations = "none"]]
        BY <3>1, <3>2, <2>1 DEF Follows
      <4>2. found = draft.content.allocations  BY <2>3, <2>8
      <4>3. whole.content = draft.content
        <5>1. whole.content = [client[c].seen.content EXCEPT !.allocations = found]
          BY <2>1 DEF Seen
        <5>2. client[c].seen.content = [draft.content EXCEPT !.allocations = "none"]
          BY <3>1, <4>1 DEF Draft
        <5> HIDE DEF whole, found
        <5> QED BY <3>1, <4>2, <5>1, <5>2 DEF Draft, Content
      <4> HIDE DEF whole
      <4> QED BY <3>1, <3>2, <4>3, <2>3, <2>8, DraftIsSeen DEF Seen
    <3> HIDE DEF whole
    <3> QED BY <3>1, <3>2, <2>3, <2>6, <2>7 DEF Follows
  <2>9. row.seen.id <= opened  BY <1>0, <2>3 DEF IdsAreNew
  <2>10. versions' \in Seq(Version)  BY <1>0, <2>7 DEF TypeOK
  <2> HIDE DEF row
  <2>11. row.seen = whole  BY DEF row
  <2> QED BY <2>4, <2>5, <2>7, <2>8, <2>9, <2>10, <2>11, ShownKeepsIInv
<1> QED BY <1>1, <1>2

\* A setup reads, publishes, or fails.
LEMMA SetupKeepsIInv ==
  ASSUME IInv, NEW c \in Clients,
         SetupReads(c) \/ SetupFails(c) \/ \E required \in Texts : SetupPublishes(c, required)
  PROVE  IInv'
<1> USE BoundsAssumption
<1>0. TypeOK /\ IdsAreNew /\ ClientsFollow  BY DEF IInv
<1>1. CASE SetupReads(c)
  <2> DEFINE row == [at |-> IF ~policy THEN "setup-nothing"
                            ELSE IF HasDraft THEN "setup-draft" ELSE "setup-policy",
                     seen |-> draft]
  <2>1. draft \in Seen  BY <1>0, NoDraftIsSeen, DraftIsSeen DEF TypeOK
  <2>2. row \in ClientRow /\ row.seen = draft /\ row.at \notin {"idle", "reading"}
    BY <2>1 DEF ClientRow, Requests
  <2>3. client' = [client EXCEPT ![c] = row] /\ UNCHANGED <<policy, draft, versions, opened>>
    BY <1>1 DEF SetupReads
  <2> HIDE DEF row
  <2>4. client'[c] = row  BY <2>3, <1>0 DEF TypeOK
  <2>5. draft.revision \in Nat  BY <2>1 DEF Seen
  <2>6. Follows(c, draft)'  BY <2>2, <2>3, <2>4, <2>5 DEF Follows
  <2>7. row.seen.id <= opened /\ versions' \in Seq(Version)
    BY <1>0, <2>2, <2>3 DEF IdsAreNew, TypeOK
  <2> QED BY <2>2, <2>3, <2>6, <2>7, ShownKeepsIInv
<1> DEFINE done == [at |-> "idle", seen |-> NoDraft]
<1>2. done \in ClientRow /\ done.seen = NoDraft  BY NoDraftIsSeen DEF ClientRow, Requests
<1>3. ASSUME Returns(c)
      PROVE  /\ client' = [client EXCEPT ![c] = done]
             /\ client' \in [Clients -> ClientRow]
             /\ \A x \in Clients : client'[x].seen \in {client[x].seen, NoDraft}
  BY <1>0, <1>2, <1>3 DEF Returns, TypeOK
<1>4. CASE SetupFails(c)
  <2>1. Returns(c) /\ UNCHANGED <<policy, draft, versions, opened>>  BY <1>4 DEF SetupFails
  <2>2. done.seen.id <= opened /\ versions' \in Seq(Version)
    BY <1>0, <1>2, <2>1, NoDraftIsSeen DEF TypeOK
  <2>3. ~(HasDraft /\ done.seen.id = draft.id)
    BY <1>0, <1>2, NoDraftIsSeen DEF TypeOK, HasDraft, Draft
  <2> QED BY <1>2, <1>3, <2>1, <2>2, <2>3, ShownKeepsIInv
<1>5. ASSUME NEW required \in Texts, SetupPublishes(c, required) PROVE IInv'
  <2>1. SetupContent(c, required) \in Content
    BY <1>0 DEF SetupContent, Content, Fields, Allocations, TypeOK, ClientRow, Seen
  <2>2. versions' \in Seq(Version)
    BY <1>0, <1>5, <2>1, SupersedeAndAddAdds DEF SetupPublishes, TypeOK
  <2>3. Returns(c) /\ draft' = NoDraft /\ UNCHANGED opened /\ policy' = TRUE
    BY <1>5 DEF SetupPublishes
  <2> QED BY <1>3, <2>2, <2>3, EndedKeepsIInv
<1> QED BY <1>1, <1>4, <1>5

LEMMA NextIInv == IInv /\ [Next]_vars => IInv'
<1> SUFFICES ASSUME IInv, [Next]_vars PROVE IInv'  OBVIOUS
<1> USE BoundsAssumption
<1>0. TypeOK  BY DEF IInv
<1>1. CASE UNCHANGED vars
  BY <1>1 DEF IInv, TypeOK, IdsAreNew, ClientsFollow, Follows, HasDraft, vars
<1>2. ASSUME NEW c \in Clients, ClientStep(c) PROVE IInv'
  <2>1. CASE Create(c)
    <3>1. policy' \in BOOLEAN  BY <2>1 DEF Create
    <3>2. /\ Idle(c) /\ opened < MaxDrafts /\ draft' = NewDraft(BlankContent)
          /\ opened' = opened + 1 /\ UNCHANGED versions
          /\ client' = [client EXCEPT ![c].seen = draft']
      BY <2>1 DEF Create, Shows
    <3> QED BY <3>1, <3>2, BlankIsContent, OpenedKeepsIInv
  <2>2. CASE Open(c)
    <3>1. PICK content \in {BlankContent} \cup {versions[n].content : n \in InForce(versions)} :
            draft' = NewDraft(content)
      BY <2>2 DEF Open
    <3>2. content \in Content
      <4>1. \A n \in DOMAIN versions : versions[n] \in Version  BY <1>0 DEF TypeOK
      <4> QED BY <3>1, <4>1, BlankIsContent DEF InForce, Version
    <3>3. policy' \in BOOLEAN  BY <2>2, <1>0 DEF Open, TypeOK
    <3>4. /\ Idle(c) /\ opened < MaxDrafts /\ opened' = opened + 1 /\ UNCHANGED versions
          /\ client' = [client EXCEPT ![c].seen = draft']
      BY <2>2 DEF Open, Shows
    <3> QED BY <3>1, <3>2, <3>3, <3>4, OpenedKeepsIInv
  <2>3. ASSUME NEW required \in Fields, NEW other \in Fields, EditText(c, required, other)
        PROVE  IInv'
    <3>1. draft.content \in Content  BY <1>0, BlankIsContent DEF TypeOK, Draft, NoDraft
    <3>2. [draft.content EXCEPT !.required = required, !.other = other] \in Content
      BY <3>1 DEF Content
    <3> QED BY <2>3, <3>2, ReviseKeepsIInv DEF EditText
  <2>4. ASSUME NEW allocations \in Allocations, ReplaceAllocations(c, allocations)
        PROVE  IInv'
    <3>1. draft.content \in Content  BY <1>0, BlankIsContent DEF TypeOK, Draft, NoDraft
    <3>2. [draft.content EXCEPT !.allocations = allocations] \in Content
      BY <3>1 DEF Content
    <3> QED BY <2>4, <3>2, ReviseKeepsIInv DEF ReplaceAllocations
  <2>5. CASE Discard(c)
    <3>1. draft' = NoDraft /\ UNCHANGED <<policy, versions, opened, client>>
      BY <2>5 DEF Discard
    <3> QED BY <1>0, <3>1, EndedKeepsIInv DEF TypeOK
  <2>6. CASE Publish(c)
    <3>1. draft' = NoDraft /\ UNCHANGED <<policy, opened, client>>  BY <2>6 DEF Publish
    <3>2. versions' \in Seq(Version)
      <4>1. draft.content \in Content  BY <1>0, BlankIsContent DEF TypeOK, Draft, NoDraft
      <4> QED BY <1>0, <2>6, <4>1, SupersedeAndAddAdds DEF Publish, TypeOK
    <3> QED BY <1>0, <3>1, <3>2, EndedKeepsIInv DEF TypeOK
  <2>7. CASE ReadDraft(c) \/ ReadAllocations(c)  BY <2>7, ReadingKeepsIInv
  <2>8. CASE SetupReads(c) \/ SetupFails(c) \/ \E required \in Texts : SetupPublishes(c, required)
    BY <2>8, SetupKeepsIInv
  <2> QED BY <1>2, <2>1, <2>2, <2>3, <2>4, <2>5, <2>6, <2>7, <2>8 DEF ClientStep
<1> QED BY <1>1, <1>2 DEF Next

\* The invariant that the others follow from.
THEOREM Inductive == Spec => []IInv
BY InitIInv, NextIInv, PTL DEF Spec

\* A revision names one content of a draft, for whoever has read it to the end
\* (services/policies.py, read_current_draft and the locked updates).
LEMMA IInvNames == IInv => RevisionNamesContent
<1> SUFFICES ASSUME IInv, NEW c \in Clients, Idle(c), HasDraft, client[c].seen.id = draft.id,
                    client[c].seen.revision = draft.revision
             PROVE  client[c].seen = draft
  BY DEF RevisionNamesContent, IInv
<1> QED BY DEF IInv, ClientsFollow, Follows, Idle

THEOREM Names == Spec => []RevisionNamesContent
BY Inductive, IInvNames, PTL

\* What is published from the draft a client looked at is what it was shown.
THEOREM Published == Spec => PublishedAsSeen
<1>1. ASSUME IInv, NEW c \in Clients, Publish(c), client[c].seen.id = draft.id
      PROVE  versions'[Len(versions')].content = client[c].seen.content
  <2>1. client[c].seen = draft
    BY <1>1, IInvNames DEF RevisionNamesContent, Publish, Expected
  <2>2. draft.content \in Content
    BY <1>1, BlankIsContent DEF IInv, TypeOK, Draft, NoDraft
  <2>3. versions' = SupersedeAndAdd(versions, draft.content) /\ versions \in Seq(Version)
    BY <1>1 DEF Publish, IInv, TypeOK
  <2>4. Len(versions') = Len(versions) + 1 /\ versions'[Len(versions) + 1].content = draft.content
    BY <2>2, <2>3, SupersedeAndAddAdds
  <2> QED BY <2>1, <2>4
<1>2. IInv => [\A c \in Clients : Publish(c) /\ client[c].seen.id = draft.id
                 => versions'[Len(versions')].content = client[c].seen.content]_vars
  BY <1>1
<1> QED BY <1>2, Inductive, PTL DEF PublishedAsSeen

-------------------------------------------------------------------------------
(* Refinement *)

Contents(vs) == [n \in DOMAIN vs |-> vs[n].content]

\* The contents of the versions grow by the content published.
LEMMA ContentsGrow ==
  ASSUME NEW vs \in Seq(Version), NEW content \in Content
  PROVE  /\ Contents(SupersedeAndAdd(vs, content)) = Append(Contents(vs), content)
         /\ Len(Contents(vs)) = Len(vs)
<1> DEFINE new == SupersedeAndAdd(vs, content)
<1>1. /\ new \in Seq(Version) /\ Len(new) = Len(vs) + 1
      /\ new[Len(vs) + 1].content = content
      /\ \A n \in 1..Len(vs) : new[n].content = vs[n].content
  BY SupersedeAndAddAdds
<1> HIDE DEF new
<1>2. /\ Len(vs) \in Nat /\ DOMAIN vs = 1..Len(vs)
      /\ \A n \in 1..Len(vs) : vs[n] \in Version
  OBVIOUS
<1>3. Contents(vs) \in [1..Len(vs) -> Content]  BY <1>2 DEF Contents, Version
<1>4. Contents(vs) \in Seq(Content) /\ Len(Contents(vs)) = Len(vs)
  BY <1>2, <1>3, FunctionIsSeq
<1> DEFINE grown == Append(Contents(vs), content)
<1>5. /\ grown \in Seq(Content) /\ Len(grown) = Len(vs) + 1
      /\ \A n \in 1..Len(vs) : grown[n] = Contents(vs)[n]
      /\ grown[Len(vs) + 1] = content
  BY <1>4, AppendProperties
<1>6. grown \in [1..(Len(vs) + 1) -> Content]  BY <1>5, LenProperties
<1> HIDE DEF grown
<1>7. DOMAIN new = 1..(Len(vs) + 1)  BY <1>1
<1>8. \A n \in 1..(Len(vs) + 1) : Contents(new)[n] = grown[n]
  <2> SUFFICES ASSUME NEW n \in 1..(Len(vs) + 1) PROVE Contents(new)[n] = grown[n]
    OBVIOUS
  <2>1. Contents(new)[n] = new[n].content  BY <1>7 DEF Contents
  <2>2. CASE n = Len(vs) + 1  BY <2>1, <2>2, <1>1, <1>5
  <2>3. CASE n # Len(vs) + 1
    <3>1. n \in 1..Len(vs)  BY <2>3, <1>2
    <3>2. Contents(vs)[n] = vs[n].content  BY <3>1, <1>2 DEF Contents
    <3> QED BY <2>1, <3>1, <3>2, <1>1, <1>5
  <2> QED BY <2>2, <2>3
<1>9. Contents(new) = [n \in 1..(Len(vs) + 1) |-> Contents(new)[n]]  BY <1>7 DEF Contents
<1>10. Contents(new) = grown  BY <1>6, <1>8, <1>9
<1> QED BY <1>4, <1>10 DEF new, grown

LEMMA InitMaps == Init => Document!Init
BY DEF Init, Document!Init, HasDraft, InForce

\* Whatever leaves the versions alone edits the draft of the document, or nothing.
LEMMA EditsMap ==
  ASSUME TypeOK', UNCHANGED versions
  PROVE  Document!EditDraft
<1>1. (IF HasDraft THEN draft.content ELSE NoDraft)' \in Content \cup {NoDraft}
  BY DEF TypeOK, HasDraft, Draft
<1> QED BY <1>1 DEF Document!EditDraft, InForce

\* Both ways of publishing add a version that says what they say.
LEMMA PublishingMaps ==
  ASSUME TypeOK, NEW content \in Content,
         versions' = SupersedeAndAdd(versions, content), draft' = NoDraft
  PROVE  Document!PublishDirectly
<1>1. versions \in Seq(Version)  BY DEF TypeOK
<1>2. /\ Contents(versions)' = Append(Contents(versions), content)
      /\ Len(Contents(versions)) = Len(versions)
  BY <1>1, ContentsGrow DEF Contents
<1>3. InForce(versions)' = {Len(versions) + 1}  BY <1>1, SupersedeAndAddAdds DEF InForce
<1>4. (IF HasDraft THEN draft.content ELSE NoDraft)' = NoDraft  BY DEF HasDraft
<1> QED BY <1>2, <1>3, <1>4 DEF Document!PublishDirectly, Document!Add, Contents

LEMMA NextMaps == IInv /\ IInv' /\ [Next]_vars => [Document!Next]_(Document!vars)
<1> SUFFICES ASSUME IInv, IInv', [Next]_vars PROVE [Document!Next]_(Document!vars)
  OBVIOUS
<1>0. TypeOK /\ TypeOK'  BY DEF IInv
<1>1. CASE UNCHANGED versions  BY <1>0, <1>1, EditsMap DEF Document!Next
<1>2. ASSUME NEW c \in Clients, Publish(c) PROVE Document!Next
  <2>1. draft.content \in Content  BY <1>0, BlankIsContent DEF TypeOK, Draft, NoDraft
  <2> QED BY <1>0, <1>2, <2>1, PublishingMaps DEF Publish, Document!Next
<1>3. ASSUME NEW c \in Clients, NEW required \in Texts, SetupPublishes(c, required)
      PROVE  Document!Next
  <2>1. SetupContent(c, required) \in Content
    BY <1>0 DEF SetupContent, Content, Fields, Allocations, TypeOK, ClientRow, Seen
  <2> QED BY <1>0, <1>3, <2>1, PublishingMaps DEF SetupPublishes, Document!Next
<1>4. CASE UNCHANGED vars  BY <1>1, <1>4 DEF vars
<1>5. ASSUME NEW c \in Clients, ClientStep(c) PROVE Document!Next \/ UNCHANGED versions
  BY <1>2, <1>3, <1>5 DEF ClientStep, Create, Open, EditText, ReplaceAllocations, Revise, Discard,
     ReadDraft, ReadAllocations, SetupReads, SetupFails
<1> QED BY <1>1, <1>4, <1>5 DEF Next

\* The policy is a versioned document: publishing consumes the draft, versions are only
\* added and say what they said, the last one alone is in force.
THEOREM Refinement == Spec => ImplementsDocument
BY Inductive, InitMaps, NextMaps, PTL DEF Spec, ImplementsDocument, Document!Spec

===============================================================================
