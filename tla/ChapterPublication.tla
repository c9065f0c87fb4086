-------------------------- MODULE ChapterPublication --------------------------
(***************************************************************************)
(* What finalization promises the author of a book, without attempts,      *)
(* revisions, tabs or workers: a chapter enters the book only by the        *)
(* author's standing approval of one exact text and one exact set of        *)
(* changes, given under the authorities that are still the current ones     *)
(* when it is published; publishing uses the approval up and moves the      *)
(* Canon on by one.                                                         *)
(***************************************************************************)
EXTENDS Naturals, Sequences

CONSTANTS
  Matters,      \* what an author approves: a text and its changes
  Standings,    \* the authorities that can stand, but for the Canon revision
  NoApproval

VARIABLES
  canon,        \* the Canon revision
  standing,     \* the other authorities in force
  approval,     \* [matter, canon, standing], or NoApproval
  book          \* the matters published, in order

pubVars == <<canon, standing, approval, book>>

Init ==
  /\ canon = 0
  /\ standing \in Standings
  /\ approval = NoApproval
  /\ book = <<>>

\* Planning, outline or model bindings change: an approval may go stale.
Drift ==
  /\ standing' \in Standings
  /\ UNCHANGED <<canon, approval, book>>

Approve ==
  /\ approval = NoApproval
  /\ approval' \in [matter : Matters, canon : {canon}, standing : {standing}]
  /\ UNCHANGED <<canon, standing, book>>

Withdraw ==
  /\ approval' = NoApproval
  /\ UNCHANGED <<canon, standing, book>>

Publish ==
  /\ approval # NoApproval
  /\ approval.canon = canon
  /\ approval.standing = standing
  /\ book' = Append(book, approval.matter)
  /\ approval' = NoApproval
  /\ canon' = canon + 1
  /\ standing' \in Standings

Next == Drift \/ Approve \/ Withdraw \/ Publish

Spec == Init /\ [][Next]_pubVars
=============================================================================
