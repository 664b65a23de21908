---------------------------- MODULE DualControl ----------------------------
(***************************************************************************)
(* What the approval chain promises: a batch is released at most once, as  *)
(* it was endorsed, by somebody who neither prepared nor endorsed it, on   *)
(* the endorsement of somebody who did not prepare it.                     *)
(***************************************************************************)
CONSTANTS People, Contents, Nobody

VARIABLES
  draft,     \* what the batch would pay
  authors,   \* everybody who had a hand in it
  endorsed,  \* the last endorsement: who, and of what
  released   \* what was released and by whom

dvars == <<draft, authors, endorsed, released>>

Unreleased == [by |-> Nobody]

DInit == /\ draft \in Contents
         /\ authors = {}
         /\ endorsed.by = Nobody
         /\ released = Unreleased

Prepare == /\ released = Unreleased
           /\ draft' \in Contents
           /\ \E p \in People : authors' = authors \cup {p}
           /\ UNCHANGED <<endorsed, released>>

Endorse == /\ released = Unreleased
           /\ \E p \in People \ authors : endorsed' = [by |-> p, content |-> draft]
           /\ UNCHANGED <<draft, authors, released>>

Release == /\ released = Unreleased
           /\ endorsed.by \in People \ authors
           /\ endorsed.content = draft
           /\ \E p \in People \ (authors \cup {endorsed.by}) :
                released' = [by |-> p, content |-> draft]
           /\ UNCHANGED <<draft, authors, endorsed>>

DNext == Prepare \/ Endorse \/ Release

DSpec == DInit /\ [][DNext]_dvars
===========================================================================
