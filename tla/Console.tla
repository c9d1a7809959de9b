------------------------------ MODULE Console ------------------------------
(***************************************************************************)
(* What the web console promises, without cookies, expiry dates, tokens or *)
(* the store of sessions: a session opens once, for an account the         *)
(* identity authority vouched for, and closes for good; and whatever a     *)
(* visitor does, it entered through a session that was open then, and the  *)
(* authority has vouched for its account since.                            *)
(***************************************************************************)
CONSTANTS Requests, Sessions   \* a session is a pair <<identifier, account>>

VARIABLES
  opened,    \* every session that ever was open
  open,      \* those that are
  barred,    \* the accounts the authority no longer accepts
  visit      \* per request: how far it is, and through which session

consoleVars == <<opened, open, barred, visit>>

NoVisit == [stage |-> "none"]

ConsoleInit ==
  /\ opened = {} /\ open = {} /\ barred = {}
  /\ visit = [k \in Requests |-> NoVisit]

Enter(k, s) ==
  /\ visit[k] = NoVisit /\ s \in open
  /\ visit' = [visit EXCEPT ![k] = [stage |-> "entered", of |-> s]]
  /\ UNCHANGED <<opened, open, barred>>

Vouch(k) ==
  /\ visit[k].stage = "entered" /\ visit[k].of[2] \notin barred
  /\ visit' = [visit EXCEPT ![k].stage = "vouched"]
  /\ UNCHANGED <<opened, open, barred>>

\* A visitor that presents a credential instead of a session.
Present(k, login) ==
  /\ visit[k] = NoVisit /\ login[2] \notin barred
  /\ visit' = [visit EXCEPT ![k] = [stage |-> "vouched", of |-> login]]
  /\ UNCHANGED <<opened, open, barred>>

Open(k, s) ==
  /\ visit[k].stage = "vouched" /\ s[2] = visit[k].of[2]
  /\ \A t \in opened : t[1] # s[1]
  /\ opened' = opened \cup {s} /\ open' = open \cup {s}
  /\ visit' = [visit EXCEPT ![k] = NoVisit]
  /\ UNCHANGED barred

Act(k) ==
  /\ visit[k].stage = "vouched" /\ visit[k].of \in opened
  /\ visit' = [visit EXCEPT ![k].stage = "acting"]
  /\ UNCHANGED <<opened, open, barred>>

Acted(k) ==
  /\ visit[k].stage = "acting"
  /\ visit' = [visit EXCEPT ![k].stage = "vouched"]
  /\ UNCHANGED <<opened, open, barred>>

Leave(k) == visit' = [visit EXCEPT ![k] = NoVisit] /\ UNCHANGED <<opened, open, barred>>

Close(s) == open' = open \ {s} /\ UNCHANGED <<opened, barred, visit>>

Bar(a) == barred' = barred \cup {a} /\ UNCHANGED <<opened, open, visit>>

ConsoleNext ==
  \/ \E k \in Requests :
       \/ Vouch(k) \/ Act(k) \/ Acted(k) \/ Leave(k)
       \/ \E s \in Sessions : Enter(k, s) \/ Present(k, s) \/ Open(k, s)
  \/ \E s \in Sessions : Close(s) \/ Bar(s[2])

ConsoleSpec == ConsoleInit /\ [][ConsoleNext]_consoleVars
=============================================================================
