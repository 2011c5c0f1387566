------------------------------ MODULE DTXCalls ------------------------------
(***************************************************************************)
(* What DTXConnection promises to the program, without threads, queues,     *)
(* maps or identifiers: a callback runs because the service has answered    *)
(* the message it was given for, and a synchronous call returns because its *)
(* callback has run, or because it has given up.                            *)
(* Messages are named by numbers that the connection never uses twice.      *)
(***************************************************************************)
CONSTANT GivesUp  \* may a synchronous call return without a response?

VARIABLES
  sent,     \* messages accepted from the program
  answered, \* messages the service has answered
  invoked,  \* messages whose callback has run
  waiting   \* messages whose synchronous call waits

vars == <<sent, answered, invoked, waiting>>

Init == sent = {} /\ answered = {} /\ invoked = {} /\ waiting = {}

Send ==
  /\ \E t \in sent' \ sent : sent' = sent \cup {t}
  /\ UNCHANGED <<answered, invoked, waiting>>

Answer ==
  /\ \E t \in sent \ answered : answered' = answered \cup {t}
  /\ UNCHANGED <<sent, invoked, waiting>>

Invoke ==
  /\ \E t \in answered \ invoked : invoked' = invoked \cup {t}
  /\ UNCHANGED <<sent, answered, waiting>>

Wait ==
  /\ \E t \in sent \ waiting : waiting' = waiting \cup {t}
  /\ UNCHANGED <<sent, answered, invoked>>

Return ==
  /\ \E t \in waiting : (t \in invoked \/ GivesUp) /\ waiting' = waiting \ {t}
  /\ UNCHANGED <<sent, answered, invoked>>

Next == Send \/ Answer \/ Invoke \/ Wait \/ Return

Spec == Init /\ [][Next]_vars

\* Every answer is handed on, and every call whose callback has run returns.
ServedCallReturns ==
  /\ \E t \in waiting \cap invoked : waiting' = waiting \ {t}
  /\ UNCHANGED <<sent, answered, invoked>>

FairSpec == Spec /\ WF_vars(Invoke) /\ WF_vars(ServedCallReturns)

=============================================================================
