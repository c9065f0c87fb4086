--------------------------- MODULE RecoverableDraft ---------------------------
(***************************************************************************)
(* What a chapter session promises its author about the working draft, with *)
(* no operations, leases or reviews in sight: revisions are numbered one by *)
(* one; whatever is not the author's own save keeps the text it replaces;   *)
(* what is kept stays kept; and once the session is closed nothing changes. *)
(***************************************************************************)
EXTENDS Naturals

CONSTANTS
  Texts,       \* every text the draft can hold
  OwnTexts     \* the ones the author types

VARIABLES
  rev, text,   \* the draft
  kept,        \* revisions that can be brought back: a set of [rev, text]
  closed

draftVars == <<rev, text, kept, closed>>

Init ==
  /\ rev = 1
  /\ text \in OwnTexts
  /\ kept = {}
  /\ closed = FALSE

\* The author saves: the author has seen the text that goes.
Save ==
  /\ ~closed
  /\ rev' = rev + 1
  /\ text' \in OwnTexts
  /\ UNCHANGED <<kept, closed>>

\* Anything else that rewrites the draft keeps the text it replaces.
Replace ==
  /\ ~closed
  /\ rev' = rev + 1
  /\ text' \in Texts
  /\ kept' = kept \cup {[rev |-> rev, text |-> text]}
  /\ UNCHANGED closed

Close ==
  /\ ~closed
  /\ closed' = TRUE
  /\ UNCHANGED <<rev, text, kept>>

Next == Save \/ Replace \/ Close

Spec == Init /\ [][Next]_draftVars
=============================================================================
