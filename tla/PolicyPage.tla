------------------------------- MODULE PolicyPage -------------------------------
(***************************************************************************)
(* The page of the investment policy in the browser (frontend/app/policy/   *)
(* policy-client.tsx, frontend/lib/policy-api.ts), with the policy as the   *)
(* server keeps it (PolicyLifecycle has the server in detail) and other     *)
(* clients that change it too.                                              *)
(*                                                                          *)
(* Every click sends a request; the server acts on it at one moment, and    *)
(* its answer arrives later, or never.  Meanwhile the owner types on,       *)
(* clicks elsewhere, and answers to other requests arrive.                  *)
(*                                                                          *)
(* The policy exists; its creation is like the one of a draft.  The audit   *)
(* timeline is loaded like the history, without a cursor.                   *)
(***************************************************************************)
EXTENDS Integers, FiniteSets

CONSTANTS
  Values,       \* what the text, or the allocations, of a draft may be
  Blank,        \* the value both start with
  MaxDrafts,    \* bound: drafts opened
  MaxRevision,  \* bound: revision of a draft
  OldVersions,  \* versions published before the page is opened
  MaxVersions,  \* bound: versions published
  MaxRequests,  \* bound: requests under way when another one is sent
  PageSize      \* versions that one answer about the history holds

ASSUME BlankAssumption  == Blank \in Values
ASSUME BoundsAssumption ==
  /\ {MaxDrafts, MaxVersions, MaxRequests} \subseteq Nat /\ MaxRevision \in Nat \ {0}
  /\ OldVersions \in 0..MaxVersions /\ PageSize \in Nat \ {0}

VARIABLES
  server,    \* the draft, the number of versions, and drafts opened so far
  page,      \* what the page shows, what is typed, which buttons wait
  history,   \* the versions that the page lists, and the cursor of the next ones
  requests   \* requests that the page still waits for

pageVars == <<server, page, history, requests>>

-------------------------------------------------------------------------------
\* DraftTextEditor and AllocationEditor each keep a part of the draft.
Parts   == {"text", "allocations"}
Content == [Parts -> Values]

BlankContent == [p \in Parts |-> Blank]
NoDraft      == [id |-> 0, revision |-> 0, content |-> BlankContent]
Draft        == [id : 1..MaxDrafts, revision : 1..MaxRevision, content : Content]

\* A button waits while its request is under way.
Buttons == Parts \cup {"publish"}

\* The mutation of the page itself, to create or discard a draft; a discard ends with
\* the load that follows it.
Mutations == {"none", "sent", "loading"}

Kinds  == Parts \cup {"publish", "discard", "create", "load", "refresh", "more"}
Phases == {"sent", "done", "refused"}

\* What is sent: the draft shown and the values typed; the cursor.  What is answered:
\* a draft.  mounted: the editor that sent it is still there.
Request == [kind : Kinds, phase : Phases, shown : Draft \cup {NoDraft}, form : Content,
            cursor : 0..MaxVersions, draft : Draft \cup {NoDraft}, mounted : BOOLEAN]

\* The page is opened, and finds no draft.
PageInit ==
  /\ server = [draft |-> NoDraft, versions |-> OldVersions, opened |-> 0]
  /\ page = [shown |-> NoDraft, form |-> BlankContent, waiting |-> {}, mutation |-> "none"]
  /\ history = [items |-> {}, cursor |-> 0]
  /\ requests = {}

Shown    == page.shown
HasDraft == Shown # NoDraft
Dirty    == HasDraft /\ page.form # Shown.content
Waits(b) == b \in page.waiting

New(kind) ==
  [kind |-> kind, phase |-> "sent",
   shown |-> IF kind \in Buttons \cup {"discard"} THEN Shown ELSE NoDraft,
   form  |-> IF kind \in Buttons \cup {"load"} THEN page.form ELSE BlankContent,
   cursor |-> IF kind = "more" THEN history.cursor ELSE 0,
   draft |-> NoDraft, mounted |-> TRUE]

InFlight(kinds) == {r \in requests : r.kind \in kinds}

\* Mutant: neither aborts nor counts generations.
Without_Keeps(kinds, rs) == rs

\* A request that replaces others aborts them, and raises the sequence or the generation
\* by which an answer that comes nevertheless is passed over.
Without(kinds, rs) == {r \in rs : r.kind \notin kinds}

\* The history is asked for from its start.
Refreshing(rs) == Without({"refresh", "more"}, rs) \cup {New("refresh")}

-------------------------------------------------------------------------------
(* The server: what it does with a request, at one moment between click and answer *)

Sent(r, kinds) == r.kind \in kinds /\ r.phase = "sent"

Answers(r, answer) == requests' = (requests \ {r}) \cup {answer}

\* Mutant: the revision is not compared.
Expected_Any(r) == server.draft # NoDraft

\* The check of expected_revision.
Expected(r) == server.draft # NoDraft /\ server.draft.revision = r.shown.revision

Edited(p, v) == [server EXCEPT !.draft.content[p] = v, !.draft.revision = @ + 1]
Published    == [server EXCEPT !.draft = NoDraft, !.versions = @ + 1]
Discarded    == [server EXCEPT !.draft = NoDraft]
Opened(content) ==
  [server EXCEPT !.draft = [id |-> server.opened + 1, revision |-> 1, content |-> content],
                 !.opened = @ + 1]

ServerEdits(r) ==
  /\ Sent(r, Parts)
  /\ Expected(r)
  /\ server.draft.revision < MaxRevision
  /\ server.draft.content[r.kind] # r.form[r.kind]
  /\ server' = Edited(r.kind, r.form[r.kind])
  /\ Answers(r, [r EXCEPT !.phase = "done", !.draft = server'.draft])
  /\ UNCHANGED <<page, history>>

ServerPublishes(r) ==
  /\ Sent(r, {"publish"})
  /\ Expected(r)
  /\ server.versions < MaxVersions
  /\ server' = Published
  /\ Answers(r, [r EXCEPT !.phase = "done"])
  /\ UNCHANGED <<page, history>>

ServerDiscards(r) ==
  /\ Sent(r, {"discard"})
  /\ Expected(r)
  /\ server' = Discarded
  /\ Answers(r, [r EXCEPT !.phase = "done"])
  /\ UNCHANGED <<page, history>>

\* The draft is blank (or a copy of the version in force, of which only the number is
\* kept here).
ServerOpens(r) ==
  /\ Sent(r, {"create"})
  /\ server.draft = NoDraft
  /\ server.opened < MaxDrafts
  /\ server' = Opened(BlankContent)
  /\ Answers(r, [r EXCEPT !.phase = "done", !.draft = server'.draft])
  /\ UNCHANGED <<page, history>>

\* 409: there is a draft already.  A refusal of another request ends like one whose
\* connection breaks.
ServerRefuses(r) ==
  /\ Sent(r, {"create"})
  /\ server.draft # NoDraft
  /\ Answers(r, [r EXCEPT !.phase = "refused"])
  /\ UNCHANGED <<server, page, history>>

ServerReads(r) ==
  /\ Sent(r, {"load"})
  /\ Answers(r, [r EXCEPT !.phase = "done", !.draft = server.draft])
  /\ UNCHANGED <<server, page, history>>

\* Another page, or a client of the API.
OtherClient ==
  /\ \/ /\ server.draft # NoDraft /\ server.draft.revision < MaxRevision
        /\ \E p \in Parts : \E v \in Values \ {server.draft.content[p]} :
             server' = Edited(p, v)
     \/ server.draft # NoDraft /\ server.versions < MaxVersions /\ server' = Published
     \/ server.draft # NoDraft /\ server' = Discarded
     \/ /\ server.draft = NoDraft /\ server.opened < MaxDrafts
        /\ server' = Opened(BlankContent)
  /\ UNCHANGED <<page, history, requests>>

-------------------------------------------------------------------------------
(* Clicks *)

Asks(kind) ==
  /\ Cardinality(requests) <= MaxRequests
  /\ requests' = requests \cup {New(kind)}

\* The editors stay open while a save is under way.
Types(p, v) ==
  /\ HasDraft
  /\ page.form[p] # v
  /\ page' = [page EXCEPT !.form[p] = v]
  /\ UNCHANGED <<server, history, requests>>

Saves(p) ==
  /\ HasDraft /\ ~Waits(p)
  /\ page.form[p] # Shown.content[p]
  /\ page' = [page EXCEPT !.waiting = @ \cup {p}]
  /\ Asks(p)
  /\ UNCHANGED <<server, history>>

\* After the review, which is closed to drafts with unsaved changes.
Publishes ==
  /\ HasDraft /\ ~Dirty /\ ~Waits("publish")
  /\ page' = [page EXCEPT !.waiting = @ \cup {"publish"}]
  /\ Asks("publish")
  /\ UNCHANGED <<server, history>>

Mutates(kind) ==
  /\ page.mutation = "none"
  /\ page' = [page EXCEPT !.mutation = "sent"]
  /\ Asks(kind)
  /\ UNCHANGED <<server, history>>

Discards == HasDraft /\ Mutates("discard")
Creates  == ~HasDraft /\ Mutates("create")

\* loadWorkspace starts, with refreshHistory.
Loading(rs) == Refreshing(Without({"load"}, rs)) \cup {New("load")}

\* A discard that waits for a load is done when that load is replaced.
LoadReplaced == IF page.mutation = "loading" THEN "none" ELSE page.mutation

\* Asks to confirm first if there are unsaved changes.
Reloads ==
  /\ Cardinality(requests) <= MaxRequests
  /\ page' = [page EXCEPT !.mutation = LoadReplaced]
  /\ requests' = Loading(requests)
  /\ UNCHANGED <<server, history>>

LoadsMore ==
  /\ history.cursor # 0
  /\ InFlight({"refresh", "more"}) = {}
  /\ Asks("more")
  /\ UNCHANGED <<server, page, history>>

-------------------------------------------------------------------------------
(* Answers *)

Arrives(r, kinds) == r.kind \in kinds /\ r.phase = "done"

Others(r) == requests \ {r}

\* setDraft: the editors are keyed by the draft, and mounted anew for another one.
Keyed(d) == d # NoDraft /\ d.id = Shown.id

StillWaiting(d) ==
  IF Keyed(d) THEN page.waiting
  ELSE IF d = NoDraft THEN {} ELSE page.waiting \cap {"publish"}

Unmounted(d) == IF d = NoDraft THEN Buttons ELSE Parts

Unmount(rs, kinds) ==
  {IF r.kind \in kinds THEN [r EXCEPT !.mounted = FALSE] ELSE r : r \in rs}

SetDraft(d) ==
  [page EXCEPT !.shown = d, !.form = IF Keyed(d) THEN @ ELSE d.content,
               !.waiting = StillWaiting(d)]

KeepRequests(d, rs) == IF Keyed(d) THEN rs ELSE Unmount(rs, Unmounted(d))

\* The editors are mounted anew in any case: the epoch of the workspace is another.
LoadArrives(r) ==
  /\ Arrives(r, {"load"})
  /\ page' = [shown |-> r.draft, form |-> r.draft.content,
              waiting |-> IF r.draft = NoDraft THEN {} ELSE page.waiting \cap {"publish"},
              mutation |-> LoadReplaced]
  /\ requests' = Unmount(Others(r), Unmounted(r.draft))
  /\ UNCHANGED <<server, history>>

\* acceptDraft, and the form of the editor if it is still the one that saved.
SaveArrives(r) ==
  /\ Arrives(r, Parts)
  /\ page' = IF r.mounted /\ Keyed(r.draft)
             THEN [SetDraft(r.draft) EXCEPT !.form[r.kind] = r.draft.content[r.kind],
                                            !.waiting = @ \ {r.kind}]
             ELSE SetDraft(r.draft)
  /\ requests' = KeepRequests(r.draft, Others(r))
  /\ UNCHANGED <<server, history>>

\* handlePublished.
PublishArrives(r) ==
  /\ Arrives(r, {"publish"})
  /\ page' = SetDraft(NoDraft)
  /\ requests' = Refreshing(KeepRequests(NoDraft, Others(r)))
  /\ UNCHANGED <<server, history>>

DiscardArrives(r) ==
  /\ Arrives(r, {"discard"})
  /\ page' = [page EXCEPT !.mutation = "loading"]
  /\ requests' = Loading(Others(r))
  /\ UNCHANGED <<server, history>>

CreateArrives(r) ==
  /\ Arrives(r, {"create"})
  /\ page' = [SetDraft(r.draft) EXCEPT !.mutation = "none"]
  /\ requests' = KeepRequests(r.draft, Others(r))
  /\ UNCHANGED <<server, history>>

\* What the server lists: at most PageSize versions below the cursor, newest first.  It
\* reads them when the answer arrives; what is below a cursor does not change.
Listed(below) ==
  LET top == IF below = 0 THEN server.versions ELSE below - 1
  IN  {n \in 1..top : n > top - PageSize}

Lowest(items) == CHOOSE n \in items : \A m \in items : n <= m

NextCursor(items) == IF items = {} \/ 1 \in items THEN 0 ELSE Lowest(items)

RefreshArrives(r) ==
  /\ r.kind = "refresh"
  /\ history' = [items |-> Listed(0), cursor |-> NextCursor(Listed(0))]
  /\ requests' = Others(r)
  /\ UNCHANGED <<server, page>>

MoreArrives(r) ==
  /\ r.kind = "more"
  /\ history' = [items  |-> history.items \cup Listed(r.cursor),
                 cursor |-> NextCursor(Listed(r.cursor))]
  /\ requests' = Others(r)
  /\ UNCHANGED <<server, page>>

\* Mutant: only success releases the button.
Released_Never(r) == page.waiting

\* The finally of a save or a publication.
Released(r) == IF r.mounted THEN page.waiting \ {r.kind} ELSE page.waiting

\* The request is refused, or the connection breaks, before the server acts or after.  A
\* creation that is refused loads what there is, unless that would replace what is typed.
RequestFails(r) ==
  /\ r \in requests
  /\ CASE r.kind \in Buttons ->
            page' = [page EXCEPT !.waiting = Released(r)] /\ requests' = Others(r)
       [] r.kind = "discard" ->
            page' = [page EXCEPT !.mutation = "none"] /\ requests' = Others(r)
       [] r.kind = "create" ->
            /\ page' = [page EXCEPT !.mutation = "none"]
            /\ requests' = IF r.phase = "refused" /\ ~Dirty THEN Loading(Others(r)) ELSE Others(r)
       [] r.kind = "load" ->
            page' = [page EXCEPT !.mutation = LoadReplaced] /\ requests' = Others(r)
       [] OTHER -> UNCHANGED page /\ requests' = Others(r)
  /\ UNCHANGED <<server, history>>

-------------------------------------------------------------------------------
Server(r) ==
  ServerEdits(r) \/ ServerPublishes(r) \/ ServerDiscards(r) \/ ServerOpens(r)
  \/ ServerRefuses(r) \/ ServerReads(r)

Answered(r) ==
  LoadArrives(r) \/ SaveArrives(r) \/ PublishArrives(r) \/ DiscardArrives(r)
  \/ CreateArrives(r) \/ RefreshArrives(r) \/ MoreArrives(r) \/ RequestFails(r)

Click ==
  \/ \E p \in Parts : Saves(p) \/ \E v \in Values : Types(p, v)
  \/ Publishes \/ Discards \/ Creates \/ Reloads \/ LoadsMore

PageNext == (\E r \in requests : Server(r) \/ Answered(r)) \/ Click \/ OtherClient

PageSpec == PageInit /\ [][PageNext]_pageVars

\* Every request whose answer a button waits for is answered, or fails.
PageFairSpec ==
  /\ PageSpec
  /\ \A kind \in Kinds \ {"refresh", "more"} :
       WF_pageVars(\E r \in InFlight({kind}) : Answered(r))

-------------------------------------------------------------------------------
(* Properties *)

PageTypeOK ==
  /\ server.draft \in Draft \cup {NoDraft}
  /\ server.versions \in 0..MaxVersions /\ server.opened \in 0..MaxDrafts
  /\ page.shown \in Draft \cup {NoDraft} /\ page.form \in Content
  /\ page.waiting \subseteq Buttons /\ page.mutation \in Mutations
  /\ history.items \subseteq 1..MaxVersions /\ history.cursor \in 0..MaxVersions
  /\ requests \subseteq Request

\* The list of versions has no gap, and its cursor goes on where it ends, whatever is
\* published while the next versions are asked for.
HistoryWithoutGaps ==
  /\ PageTypeOK
  /\ \A m, n \in history.items : \A k \in m..n : k \in history.items
  /\ history.cursor = NextCursor(history.items)

\* What is published from the draft that the page showed is what its editors and its
\* review showed at the click: no unsaved change, and no change of another page.
PublishedAsShown ==
  [][\A r \in requests : ServerPublishes(r) /\ r.shown.id = server.draft.id
       => server.draft.content = r.form]_pageVars

\* A button that waits is released, though its editor may have been replaced meanwhile.
ButtonsComeBack ==
  /\ \A b \in Buttons : Waits(b) ~> ~Waits(b)
  /\ page.mutation # "none" ~> page.mutation = "none"

\* Documents say that a reload that would replace unsaved changes needs a confirmation,
\* and that a save keeps what is typed.  What is typed after the click is replaced.
TypingKept ==
  [][\A r \in requests : LoadArrives(r) \/ SaveArrives(r)
       => \A p \in Parts : page.form[p] \in {Shown.content[p], r.form[p], page'.form[p]}]_pageVars

\* Documents say that a response that is stale does not replace newer state.  A load
\* that was read before a save may arrive after it.
SettledPageIsCurrent ==
  [][\A r \in requests : LoadArrives(r) /\ r.draft.id = Shown.id
       => r.draft.revision >= Shown.revision]_pageVars
===============================================================================
