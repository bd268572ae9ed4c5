---------------------------- MODULE OneIdentity ----------------------------
(***************************************************************************)
(* What the tools are promised of a process that may have to log in late:  *)
(* it has no identity, and turns calls away, until it has one; from then   *)
(* on every call is served, and always as the same agent.                  *)
(***************************************************************************)
EXTENDS Naturals

CONSTANTS Call, Agent, Nobody

VARIABLES
  identity,   \* whom the process acts for, or Nobody
  serving,    \* the calls that are past the login: their requests are made
  life        \* the number of the process

vars == <<identity, serving, life>>

Init ==
  /\ identity \in Agent \cup {Nobody}
  /\ serving = {}
  /\ life = 0

\* The call that logs in, if it is one that does, is served too.
LogIn ==
  /\ identity = Nobody
  /\ identity' \in Agent
  /\ serving' = serving \/ \E c \in Call : serving' = serving \cup {c}
  /\ UNCHANGED life

Serve(c) ==
  /\ identity # Nobody
  /\ serving' = serving \cup {c}
  /\ UNCHANGED <<identity, life>>

End(c) ==
  /\ serving' = serving \ {c}
  /\ UNCHANGED <<identity, life>>

\* The process is gone, and its successor has an identity or none.
Replace ==
  /\ identity' \in Agent \cup {Nobody}
  /\ serving' = {}
  /\ life' = life + 1

Next == LogIn \/ Replace \/ \E c \in Call : Serve(c) \/ End(c)

Spec == Init /\ [][Next]_vars

-----------------------------------------------------------------------------
\* No request is ever made for nobody.
ServedAsSomebody == serving # {} => identity # Nobody
=============================================================================
