----------------------------- MODULE WebSession -----------------------------
(***************************************************************************)
(* The sessions of the web console: the session store (web/session.go),    *)
(* its synchronizer tokens (web/csrf.go), signing in and out               *)
(* (web/login.go), and the resolution of a principal that every handler    *)
(* runs behind (web/web.go).                                               *)
(*                                                                         *)
(* Each request is served by a goroutine of its own.  The two stores have  *)
(* a lock each, so a request takes one step per call to a store, and a     *)
(* step for its call to the identity authority.  What a handler asks of    *)
(* the orchestrator is one step, "acts"; the orchestrator may refuse it.   *)
(***************************************************************************)
EXTENDS Naturals, FiniteSets

CONSTANTS
  Requests,  \* requests served at a time
  Ids,       \* session identifiers: 256 random bits, so never drawn twice
  Tokens,    \* synchronizer tokens, drawn the same way
  Accounts,
  None       \* no identifier, no token, no account

ASSUME WebAssumption == None \notin Ids /\ None \notin Tokens /\ None \notin Accounts

VARIABLES
  accountOf,   \* the account an identifier was drawn for
  live,        \* the identifiers the session store holds
  expired,     \* the identifiers whose deadline has passed
  drawn,       \* the tokens drawn so far
  tokens,      \* the token of an identifier in the token store
  refused,     \* the accounts whose credential the authority refuses
  request,     \* where each request stands
  rendered     \* history: the <<identifier, token>> pairs of forms rendered

storeVars == <<accountOf, live, tokens, drawn>>
vars == <<storeVars, expired, refused, request, rendered>>

Issued == {id \in Ids : accountOf[id] # None}

Idle == [pc |-> "idle"]
Request ==
  [pc : {"resolved", "principal", "act", "render", "delete", "drop", "create"},
   kind : {"get", "post", "logout", "login"},
   id : Ids \cup {None}, form : Tokens \cup {None}, account : Accounts]

TypeOK ==
  /\ accountOf \in [Ids -> Accounts \cup {None}]
  /\ live \subseteq Issued /\ expired \subseteq Issued
  /\ drawn \subseteq Tokens
  /\ tokens \in [Ids -> drawn \cup {None}]
  /\ refused \subseteq Accounts
  /\ request \in [Requests -> {Idle} \cup Request]
  /\ \A k \in Requests :
       request[k] # Idle => \/ request[k].id \in Issued
                            \/ request[k].kind = "login" /\ request[k].pc = "create"
  /\ rendered \subseteq Issued \X drawn

Init ==
  /\ accountOf = [id \in Ids |-> None]
  /\ live = {} /\ expired = {} /\ drawn = {}
  /\ tokens = [id \in Ids |-> None]
  /\ refused = {}
  /\ request = [k \in Requests |-> Idle]
  /\ rendered = {}

GoesTo(k, pc) == request' = [request EXCEPT ![k].pc = pc]
Ends(k) == request' = [request EXCEPT ![k] = Idle]

\* A form that some page carried: every handler but a page wants one.
Forms(kind) == IF kind = "get" THEN {None} ELSE {r[2] : r \in rendered}

-----------------------------------------------------------------------------
(* Who is asking.                                                          *)

\* The store's verdict on an identifier it holds.
Get(id) == id \in live /\ id \notin expired

\* The cookie names a session; an expired one is deleted, and nothing else is.
Resolve(k, kind, id, form) ==
  /\ request[k] = Idle
  /\ \/ /\ Get(id)
        /\ request' = [request EXCEPT ![k] =
             [pc |-> "resolved", kind |-> kind, id |-> id, form |-> form,
              account |-> accountOf[id]]]
        /\ UNCHANGED live
     \/ /\ ~Get(id)
        /\ live' = live \ {id}
        /\ UNCHANGED request
  /\ UNCHANGED <<accountOf, tokens, drawn, expired, refused, rendered>>

\* The authority accepts the credential of the session.
Authenticate(k) ==
  /\ request[k].pc = "resolved"
  /\ request[k].account \notin refused
  /\ GoesTo(k, "principal")
  /\ UNCHANGED <<storeVars, expired, refused, rendered>>

\* It refuses it, or the call itself fails: the session is destroyed.
AuthenticateFails(k) ==
  /\ request[k].pc = "resolved"
  /\ GoesTo(k, "delete")
  /\ UNCHANGED <<storeVars, expired, refused, rendered>>

\* destroySession, and then what the request was for.
Delete(k) ==
  /\ request[k].pc = "delete"
  /\ live' = live \ {request[k].id}
  /\ GoesTo(k, "drop")
  /\ UNCHANGED <<accountOf, tokens, drawn, expired, refused, rendered>>

Drop(k) ==
  /\ request[k].pc = "drop"
  /\ tokens' = [tokens EXCEPT ![request[k].id] = None]
  /\ IF request[k].kind = "login" THEN GoesTo(k, "create") ELSE Ends(k)
  /\ UNCHANGED <<accountOf, live, drawn, expired, refused, rendered>>

-----------------------------------------------------------------------------
(* What a principal may do.                                                *)

\* A form gets a token of its own.
EnsureFresh(id, token) == token \in Tokens \ drawn

\* A session has one token, drawn for the first form.
Ensure(id, token) ==
  IF tokens[id] = None THEN token \in Tokens \ drawn ELSE token = tokens[id]

\* A page: the form it carries is the session's.
Render(k) ==
  /\ \/ request[k].pc = "principal" /\ request[k].kind = "get"
     \/ request[k].pc = "render"
  /\ \E token \in Tokens :
       /\ Ensure(request[k].id, token)
       /\ tokens' = [tokens EXCEPT ![request[k].id] = token]
       /\ drawn' = drawn \cup {token}
       /\ rendered' = rendered \cup {<<request[k].id, token>>}
  /\ Ends(k)
  /\ UNCHANGED <<accountOf, live, expired, refused>>

\* Any token of the store will do.
VerifyAnyToken(id, form) == \E other \in Ids : tokens[other] = form

Verify(id, form) == tokens[id] = form

VerifyForm(k) ==
  /\ request[k].pc = "principal" /\ request[k].kind # "get"
  /\ Verify(request[k].id, request[k].form)
  /\ GoesTo(k, IF request[k].kind = "logout" THEN "delete" ELSE "act")
  /\ UNCHANGED <<storeVars, expired, refused, rendered>>

\* The handler asks the orchestrator; an invitation renders the page again.
Acts(k) ==
  /\ request[k].pc = "act"
  /\ Ends(k) \/ GoesTo(k, "render")
  /\ UNCHANGED <<storeVars, expired, refused, rendered>>

\* A refused form or origin, an error of the orchestrator, a page without a
\* form, no randomness for a token or an identifier.
GivesUp(k) ==
  /\ request[k].pc \in {"principal", "act", "render", "create"}
  /\ Ends(k)
  /\ UNCHANGED <<storeVars, expired, refused, rendered>>

-----------------------------------------------------------------------------
(* Signing in.                                                             *)

\* The authority accepts the credential of a; the session that came along is
\* destroyed first, whoever's it was.
Login(k, a, prior) ==
  /\ request[k] = Idle
  /\ a \notin refused
  /\ request' = [request EXCEPT ![k] =
       [pc |-> IF prior = None THEN "create" ELSE "delete",
        kind |-> "login", id |-> prior, form |-> None, account |-> a]]
  /\ UNCHANGED <<storeVars, expired, refused, rendered>>

\* Signs in under the identifier that came along.
KeepsIdentifier(k, id) == IF request[k].id = None THEN id \notin Issued ELSE id = request[k].id

NewSessionID(k, id) == id \notin Issued

Create(k, id) ==
  /\ request[k].pc = "create"
  /\ NewSessionID(k, id)
  /\ accountOf' = [accountOf EXCEPT ![id] = request[k].account]
  /\ live' = live \cup {id}
  /\ Ends(k)
  /\ UNCHANGED <<tokens, drawn, expired, refused, rendered>>

-----------------------------------------------------------------------------
\* The deadline is set when the session is created, and never moved.
Expires(id) ==
  /\ expired' = expired \cup {id}
  /\ UNCHANGED <<storeVars, refused, request, rendered>>

CredentialRefused(a) ==
  /\ refused' = refused \cup {a}
  /\ UNCHANGED <<storeVars, expired, request, rendered>>

Arrive(k) ==
  \/ \E id \in live, kind \in {"get", "post", "logout"} :
       \E form \in Forms(kind) : Resolve(k, kind, id, form)
  \/ \E a \in Accounts, prior \in Issued \cup {None} : Login(k, a, prior)

Serve(k) ==
  \/ Authenticate(k) \/ AuthenticateFails(k) \/ Delete(k) \/ Drop(k)
  \/ Render(k) \/ VerifyForm(k) \/ Acts(k) \/ GivesUp(k)
  \/ \E id \in Ids : Create(k, id)

Next ==
  \/ \E k \in Requests : Arrive(k) \/ Serve(k)
  \/ \E id \in Issued : Expires(id)
  \/ \E a \in Accounts : CredentialRefused(a)

Spec == Init /\ [][Next]_vars

-----------------------------------------------------------------------------
\* A form rendered into a page of a session stays good for as long as the
\* session is held, whatever else is rendered, destroyed or signed in
\* meanwhile: two pages do not invalidate each other's forms.
FormsStayValid ==
  \A r \in rendered : r[1] \in live => tokens[r[1]] = r[2]

\* No request that changes something is passed on to the orchestrator (they are
\* form posts; pages ask it too, for what they show) but through a form that
\* was rendered for the very session it comes back with.
OwnFormsOnly ==
  \A k \in Requests : request[k].pc = "act" => <<request[k].id, request[k].form>> \in rendered

\* A session opens once, for an account that was vouched for, and closes for
\* good, by expiry, sign-out, refusal or a new sign-in; and nothing is done
\* but by a request that found its session open and was then vouched for.
SessionOf(id) == <<id, accountOf[id]>>

VisitOf(r) ==
  IF r.pc = "idle" THEN [stage |-> "none"]
  ELSE IF r.kind = "login" THEN [stage |-> "vouched", of |-> <<None, r.account>>]
  ELSE IF r.pc \in {"delete", "drop"} THEN [stage |-> "none"]
  ELSE [stage |-> CASE r.pc = "resolved" -> "entered"
                    [] r.pc = "act" -> "acting"
                    [] OTHER -> "vouched",
        of |-> <<r.id, r.account>>]

ConsoleView == INSTANCE Console WITH
  Sessions <- (Ids \cup {None}) \X Accounts,
  opened <- {SessionOf(id) : id \in Issued},
  open <- {SessionOf(id) : id \in live \ expired},
  barred <- refused,
  visit <- [k \in Requests |-> VisitOf(request[k])]

MeetsConsole == ConsoleView!ConsoleSpec
=============================================================================
