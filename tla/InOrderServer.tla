---------------------------- MODULE InOrderServer ----------------------------
(***************************************************************************)
(* What a client of the MCP server may count on: every message it has sent *)
(* whole is handled once, in the order sent, and the server leaves only    *)
(* when it owes nothing.                                                   *)
(***************************************************************************)
EXTENDS Sequences

CONSTANTS
  Messages,     \* what a client may send
  ReplyTo(_)    \* the replies a message calls for: a sequence of one or none

VARIABLES
  asked,        \* the messages sent whole and not handled yet
  answers,      \* the replies given
  gone          \* the server has left

vars == <<asked, answers, gone>>

Init == asked = <<>> /\ answers = <<>> /\ gone = FALSE

Ask == /\ \E m \in Messages : asked' = Append(asked, m)
       /\ UNCHANGED <<answers, gone>>

Answer == /\ ~gone
          /\ asked # <<>>
          /\ asked' = Tail(asked)
          /\ answers' = answers \o ReplyTo(Head(asked))
          /\ UNCHANGED gone

Leave == /\ ~gone
         /\ asked = <<>>
         /\ gone' = TRUE
         /\ UNCHANGED <<asked, answers>>

Next == Ask \/ Answer \/ Leave

Spec == Init /\ [][Next]_vars
=============================================================================
