---------------------------- MODULE LatestAnswer ----------------------------
(***************************************************************************)
(* What a page that asks and shows may promise: what it shows is the       *)
(* answer to the question asked last, or an answer it showed before while  *)
(* it still waits or after a failure; it is busy only from a question to   *)
(* the answer or the failure of that very question.                        *)
(***************************************************************************)
CONSTANTS
  Questions,    \* what can be asked
  Nothing       \* no question, no answer

VARIABLES
  asked,        \* the question asked last
  shown,        \* the question whose answer is on the screen
  busy          \* the page waits for an answer

vars == <<asked, shown, busy>>

Init == asked = Nothing /\ shown = Nothing /\ busy = FALSE

\* A new question, whether or not an older one is still open.
Ask == /\ asked' \in Questions
       /\ busy' = TRUE
       /\ UNCHANGED shown

Answer == busy /\ shown' = asked /\ busy' = FALSE /\ UNCHANGED asked

Fail == busy /\ busy' = FALSE /\ UNCHANGED <<asked, shown>>

\* The page is left, and the next one opens with a question of its own or none.
Turn == /\ shown' = Nothing
        /\ \/ asked' = Nothing /\ busy' = FALSE
           \/ asked' \in Questions /\ busy' = TRUE

Next == Ask \/ Answer \/ Fail \/ Turn

Spec == Init /\ [][Next]_vars
=============================================================================
