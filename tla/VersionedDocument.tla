-------------------------- MODULE VersionedDocument ---------------------------
(***************************************************************************)
(* What the policy and the portfolio services promise alike: a document is  *)
(* edited in a draft, of which there is at most one; publishing turns the   *)
(* draft as it stands into the next version; a version, once there, stays   *)
(* what it is, and the last one is the one in force.                        *)
(***************************************************************************)
EXTENDS Integers, Sequences

CONSTANTS
  Contents,     \* what a draft or a version may say
  NoDraft       \* stands for the absence of a draft

VARIABLES
  draft,        \* the content of the draft, or NoDraft
  versions,     \* the contents published so far, oldest first
  inForce       \* the numbers of the versions in force

vars == <<draft, versions, inForce>>

Init ==
  /\ draft = NoDraft
  /\ versions = <<>>
  /\ inForce = {}

\* content becomes the last version and the one in force; the draft is gone.
Add(content) ==
  /\ versions' = Append(versions, content)
  /\ inForce' = {Len(versions) + 1}
  /\ draft' = NoDraft

\* A draft is opened, changed or thrown away; no version is touched.
EditDraft ==
  /\ draft' \in Contents \cup {NoDraft}
  /\ UNCHANGED <<versions, inForce>>

\* The draft becomes the version in force.
Publish == draft # NoDraft /\ Add(draft)

\* A version written in one go, whatever the draft said.
PublishDirectly == \E content \in Contents : Add(content)

Next == EditDraft \/ Publish \/ PublishDirectly

Spec == Init /\ [][Next]_vars
===============================================================================
