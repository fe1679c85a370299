----------------------------- MODULE Confirmation -----------------------------
(***************************************************************************)
(* What bot/telegram_control.py and the command queue promise of a         *)
(* question the operator is asked: it is a new one, it can be answered     *)
(* until it expires, one answer makes it due, and what is due is run at    *)
(* most once.  A question or an answer may be forgotten, by a sweep, a     *)
(* crash or an exception; nothing that was asked before is asked again.    *)
(***************************************************************************)

CONSTANT Questions   \* what can ever be asked

VARIABLES
  spent,   \* cannot be asked any more
  open,    \* may still be answered
  due,     \* answered, to be run
  ran

vars == <<spent, open, due, ran>>

Init == spent = {} /\ open = {} /\ due = {} /\ ran = {}

New == Questions \ spent
Spends(n) == spent \union {n} \subseteq spent'

Ask ==
  \E n \in New :
    /\ Spends(n) /\ open' \subseteq open \union {n} /\ UNCHANGED <<due, ran>>

\* What needs no answer.
Order ==
  \E n \in New :
    /\ Spends(n) /\ due' = due \union {n} /\ UNCHANGED <<open, ran>>

Confirm ==
  \E n \in open :
    /\ open' \subseteq open \ {n} /\ due' = due \union {n}
    /\ spent \subseteq spent' /\ UNCHANGED ran

Run ==
  \E n \in due :
    /\ due' \subseteq due \ {n} /\ ran' = ran \union {n}
    /\ UNCHANGED <<spent, open>>

Forget ==
  /\ open' \subseteq open /\ due' \subseteq due
  /\ spent \subseteq spent' /\ UNCHANGED ran

Next == Forget \/ Ask \/ Order \/ Confirm \/ Run

Spec == Init /\ [][Next]_vars
===============================================================================
