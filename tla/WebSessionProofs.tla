-------------------------- MODULE WebSessionProofs --------------------------
(* Proofs about WebSession, for any number of requests, identifiers,       *)
(* tokens and accounts.                                                    *)
EXTENDS WebSession, TLAPS

-----------------------------------------------------------------------------
(* The inductive invariant.                                                *)

\* What a request carries, by what it is for.
WellFormed(r) ==
  /\ r.kind = "login" => r.pc \in {"delete", "drop", "create"}
  /\ r.pc = "create" => r.kind = "login"
  /\ r.pc \in {"act", "render"} => r.kind = "post"
  /\ r.kind \in {"post", "logout"} => r.form \in drawn
  /\ r.kind # "login" => r.account = accountOf[r.id]

Carries == \A k \in Requests : request[k] # Idle => WellFormed(request[k])

\* A token is stored when a form carries it.
TokensRendered == \A id \in Ids : tokens[id] # None => <<id, tokens[id]>> \in rendered

\* The session is deleted before its token is dropped.
DeletedFirst == \A k \in Requests : request[k].pc = "drop" => request[k].id \notin live

IInv == TypeOK /\ Carries /\ TokensRendered /\ DeletedFirst /\ FormsStayValid /\ OwnFormsOnly

-----------------------------------------------------------------------------
LEMMA InitHolds == Init => IInv
  <1> SUFFICES ASSUME Init PROVE IInv  OBVIOUS
  <1>1. TypeOK  BY SMTT(30) DEF Init, TypeOK, Issued, Idle
  <1>2. Carries /\ DeletedFirst /\ OwnFormsOnly
    BY DEF Init, Carries, DeletedFirst, OwnFormsOnly, Idle
  <1>3. TokensRendered /\ FormsStayValid
    BY DEF Init, TokensRendered, FormsStayValid
  <1> QED  BY <1>1, <1>2, <1>3 DEF IInv

\* What every step leaves to check of one that changes a single request only.
LEMMA RequestOnly ==
  ASSUME IInv, NEW k \in Requests, NEW r \in {Idle} \cup Request,
         UNCHANGED <<storeVars, expired, refused, rendered>>,
         request' = [request EXCEPT ![k] = r],
         r # Idle => /\ WellFormed(r)
                     /\ r.id \in Issued \/ (r.kind = "login" /\ r.pc = "create"),
         r.pc = "drop" => r.id \notin live,
         r.pc = "act" => <<r.id, r.form>> \in rendered
  PROVE IInv'
  <1>0. request \in [Requests -> {Idle} \cup Request]  BY DEF IInv, TypeOK
  <1>1. \A j \in Requests : request'[j] = IF j = k THEN r ELSE request[j]  BY <1>0
  <1>2. TypeOK'
    <2>1. request' \in [Requests -> {Idle} \cup Request]  BY <1>0
    <2>2. \A j \in Requests : request'[j] # Idle =>
            \/ request'[j].id \in Issued
            \/ request'[j].kind = "login" /\ request'[j].pc = "create"
      BY <1>1 DEF IInv, TypeOK
    <2>3. Issued' = Issued  BY DEF storeVars, Issued
    <2> QED  BY <2>1, <2>2, <2>3 DEF IInv, TypeOK, storeVars
  <1>3. Carries'
    <2>1. \A j \in Requests : request'[j] # Idle => WellFormed(request'[j])
      BY <1>1 DEF IInv, Carries
    <2> QED  BY <2>1 DEF Carries, WellFormed, storeVars
  <1>4. DeletedFirst'  BY <1>1 DEF IInv, DeletedFirst, storeVars
  <1>5. OwnFormsOnly'  BY <1>1 DEF IInv, OwnFormsOnly
  <1>6. TokensRendered' /\ FormsStayValid'
    BY DEF IInv, TokensRendered, FormsStayValid, storeVars
  <1> QED  BY <1>2, <1>3, <1>4, <1>5, <1>6 DEF IInv

\* A request in progress moves on.
LEMMA GoesToRecord ==
  ASSUME IInv, NEW k \in Requests, request[k] # Idle,
         NEW pc \in {"resolved", "principal", "act", "render", "delete", "drop", "create"},
         GoesTo(k, pc)
  PROVE  /\ [request[k] EXCEPT !.pc = pc] \in Request
         /\ request' = [request EXCEPT ![k] = [request[k] EXCEPT !.pc = pc]]
  BY DEF IInv, TypeOK, GoesTo, Request

\* Only the identifiers held change, downwards.
LEMMA FewerLive ==
  ASSUME IInv, NEW id, live' = live \ {id},
         UNCHANGED <<accountOf, tokens, drawn, expired, refused, rendered, request>>
  PROVE  IInv'
  <1>1. TypeOK'  BY DEF IInv, TypeOK, Issued
  <1>2. Carries'  BY DEF IInv, Carries, WellFormed
  <1>3. DeletedFirst' /\ OwnFormsOnly' /\ TokensRendered' /\ FormsStayValid'
    BY DEF IInv, DeletedFirst, OwnFormsOnly, TokensRendered, FormsStayValid
  <1> QED  BY <1>1, <1>2, <1>3 DEF IInv

LEMMA ResolveKeeps ==
  ASSUME IInv, NEW k \in Requests, NEW kind \in {"get", "post", "logout"},
         NEW id \in live, NEW form \in Forms(kind), Resolve(k, kind, id, form)
  PROVE  IInv'
  <1>0. id \in Issued  BY DEF IInv, TypeOK
  <1>1. CASE ~Get(id)  BY <1>1, FewerLive DEF Resolve
  <1>2. CASE Get(id)
    <2> DEFINE r == [pc |-> "resolved", kind |-> kind, id |-> id, form |-> form,
                     account |-> accountOf[id]]
    <2>1. UNCHANGED <<storeVars, expired, refused, rendered>>
          /\ request' = [request EXCEPT ![k] = r]
      BY <1>2 DEF Resolve, storeVars
    <2>2. form \in drawn \/ (kind = "get" /\ form = None)
      BY DEF Forms, IInv, TypeOK
    <2>3. r \in Request /\ accountOf[id] \in Accounts
      BY <1>0, <2>2 DEF Request, Issued, IInv, TypeOK
    <2>4. WellFormed(r)  BY <2>2 DEF WellFormed
    <2>5. r.pc = "resolved" /\ r.id \in Issued  BY <1>0
    <2> HIDE DEF r
    <2> QED  BY <2>1, <2>3, <2>4, <2>5, RequestOnly
  <1> QED  BY <1>1, <1>2

LEMMA RequestStepKeeps ==
  ASSUME IInv, NEW k \in Requests,
         Authenticate(k) \/ AuthenticateFails(k) \/ VerifyForm(k) \/ Acts(k) \/ GivesUp(k)
  PROVE  IInv'
  <1>0. UNCHANGED <<storeVars, expired, refused, rendered>>
    BY DEF Authenticate, AuthenticateFails, VerifyForm, Acts, GivesUp
  <1>1. request[k] # Idle /\ request[k] \in Request /\ WellFormed(request[k])
    BY DEF Authenticate, AuthenticateFails, VerifyForm, Acts, GivesUp, Idle, IInv, TypeOK, Carries
  <1>2. CASE Ends(k)
    <2>1. request' = [request EXCEPT ![k] = Idle] /\ Idle.pc = "idle"  BY <1>2 DEF Ends, Idle
    <2> QED  BY <1>0, <2>1, RequestOnly
  <1>3. ASSUME NEW pc \in {"principal", "act", "render", "delete"}, GoesTo(k, pc),
               request[k].kind # "login",
               pc \in {"act", "render"} => request[k].kind = "post",
               pc = "act" => <<request[k].id, request[k].form>> \in rendered
        PROVE  IInv'
    <2> DEFINE r == [request[k] EXCEPT !.pc = pc]
    <2>1. r \in Request /\ request' = [request EXCEPT ![k] = r]  BY <1>1, <1>3, GoesToRecord
    <2>2. r.pc = pc /\ r.id = request[k].id /\ r.form = request[k].form
          /\ r.kind = request[k].kind /\ r.account = request[k].account
      BY <1>1 DEF Request
    <2>3. WellFormed(r)  BY <1>1, <1>3, <2>2 DEF WellFormed
    <2>4. r.id \in Issued  BY <1>1, <1>3, <2>2 DEF IInv, TypeOK
    <2> HIDE DEF r
    <2> QED  BY <1>0, <1>3, <2>1, <2>2, <2>3, <2>4, RequestOnly
  <1>4. CASE Authenticate(k) \/ AuthenticateFails(k)
    BY <1>1, <1>3, <1>4 DEF Authenticate, AuthenticateFails, WellFormed
  <1>5. CASE VerifyForm(k)
    <2>1. request[k].kind \in {"post", "logout"} /\ request[k].id \in Issued
      BY <1>1, <1>5 DEF VerifyForm, Request, WellFormed, IInv, TypeOK
    <2>2. request[k].form \in drawn /\ request[k].form # None
      BY <1>1, <2>1, WebAssumption DEF WellFormed, IInv, TypeOK
    <2>3. <<request[k].id, request[k].form>> \in rendered
      BY <1>5, <2>1, <2>2 DEF VerifyForm, Verify, IInv, TokensRendered, Issued
    <2>4. CASE request[k].kind = "logout"
      BY <1>3, <1>5, <2>4 DEF VerifyForm
    <2>5. CASE request[k].kind = "post"
      BY <1>3, <1>5, <2>3, <2>5 DEF VerifyForm
    <2> QED  BY <2>1, <2>4, <2>5
  <1>6. CASE Acts(k)
    <2>1. request[k].kind = "post"  BY <1>1, <1>6 DEF Acts, WellFormed
    <2> QED  BY <1>2, <1>3, <1>6, <2>1 DEF Acts
  <1>7. CASE GivesUp(k)  BY <1>2, <1>7 DEF GivesUp
  <1> QED  BY <1>4, <1>5, <1>6, <1>7

LEMMA DeleteKeeps ==
  ASSUME IInv, NEW k \in Requests, Delete(k)
  PROVE  IInv'
  <1> DEFINE r == [request[k] EXCEPT !.pc = "drop"]
  <1>1. request[k] # Idle /\ request[k] \in Request /\ WellFormed(request[k])
        /\ request[k].id \in Issued
    BY DEF Delete, Idle, IInv, TypeOK, Carries
  <1>2. r \in Request /\ request' = [request EXCEPT ![k] = r]
    BY <1>1, GoesToRecord DEF Delete
  <1>3. r.pc = "drop" /\ r.id = request[k].id /\ r.form = request[k].form
        /\ r.kind = request[k].kind /\ r.account = request[k].account
    BY <1>1 DEF Request
  <1>4. WellFormed(r)  BY <1>1, <1>3 DEF WellFormed
  <1> HIDE DEF r
  <1>5. \A j \in Requests : request'[j] = IF j = k THEN r ELSE request[j]
    BY <1>2 DEF IInv, TypeOK
  <1>6. UNCHANGED <<accountOf, tokens, drawn, expired, refused, rendered>>
        /\ live' = live \ {request[k].id}
    BY DEF Delete
  <1>7. TypeOK'
    <2>1. Issued' = Issued  BY <1>6 DEF Issued
    <2>2. request' \in [Requests -> {Idle} \cup Request]  BY <1>2 DEF IInv, TypeOK
    <2>3. \A j \in Requests : request'[j] # Idle =>
            \/ request'[j].id \in Issued
            \/ request'[j].kind = "login" /\ request'[j].pc = "create"
      BY <1>1, <1>3, <1>5 DEF IInv, TypeOK
    <2> QED  BY <1>6, <2>1, <2>2, <2>3 DEF IInv, TypeOK
  <1>8. Carries'
    <2>1. \A j \in Requests : request'[j] # Idle => WellFormed(request'[j])
      BY <1>4, <1>5 DEF IInv, Carries
    <2> QED  BY <1>6, <2>1 DEF Carries, WellFormed
  <1>9. DeletedFirst'  BY <1>3, <1>5, <1>6 DEF IInv, DeletedFirst
  <1>10. OwnFormsOnly'  BY <1>3, <1>5, <1>6 DEF IInv, OwnFormsOnly
  <1>11. TokensRendered' /\ FormsStayValid'
    BY <1>6 DEF IInv, TokensRendered, FormsStayValid
  <1> QED  BY <1>7, <1>8, <1>9, <1>10, <1>11 DEF IInv

LEMMA DropKeeps ==
  ASSUME IInv, NEW k \in Requests, Drop(k)
  PROVE  IInv'
  <1> DEFINE r == IF request[k].kind = "login" THEN [request[k] EXCEPT !.pc = "create"] ELSE Idle
  <1>1. request[k] # Idle /\ request[k] \in Request /\ WellFormed(request[k])
        /\ request[k].id \in Issued /\ request[k].id \notin live
    BY DEF Drop, Idle, IInv, TypeOK, Carries, DeletedFirst
  <1>2. r \in {Idle} \cup Request /\ request' = [request EXCEPT ![k] = r]
    <2>1. CASE request[k].kind = "login"
      <3>1. GoesTo(k, "create")  BY <2>1 DEF Drop
      <3> QED  BY <1>1, <2>1, <3>1, GoesToRecord
    <2>2. CASE request[k].kind # "login"  BY <2>2 DEF Drop, Ends
    <2> QED  BY <2>1, <2>2
  <1>3. r = Idle \/ (r.pc = "create" /\ r.kind = "login")
    BY <1>1 DEF Request
  <1>4. r # Idle => WellFormed(r)
    BY <1>1, <1>3 DEF WellFormed
  <1>5. r.pc \in {"idle", "create"}  BY <1>3 DEF Idle
  <1> HIDE DEF r
  <1>6. \A j \in Requests : request'[j] = IF j = k THEN r ELSE request[j]
    BY <1>2 DEF IInv, TypeOK
  <1>7. UNCHANGED <<accountOf, live, drawn, expired, refused, rendered>>
        /\ tokens' = [tokens EXCEPT ![request[k].id] = None]
    BY DEF Drop
  <1>8. tokens \in [Ids -> drawn \cup {None}] /\ request[k].id \in Ids
    BY <1>1 DEF IInv, TypeOK, Issued
  <1>9. TypeOK'
    <2>1. Issued' = Issued  BY <1>7 DEF Issued
    <2>2. request' \in [Requests -> {Idle} \cup Request]  BY <1>2 DEF IInv, TypeOK
    <2>3. \A j \in Requests : request'[j] # Idle =>
            \/ request'[j].id \in Issued
            \/ request'[j].kind = "login" /\ request'[j].pc = "create"
      BY <1>3, <1>6 DEF IInv, TypeOK
    <2>4. tokens' \in [Ids -> drawn \cup {None}]  BY <1>7, <1>8
    <2> QED  BY <1>7, <2>1, <2>2, <2>3, <2>4 DEF IInv, TypeOK
  <1>10. Carries'
    <2>1. \A j \in Requests : request'[j] # Idle => WellFormed(request'[j])
      BY <1>4, <1>6 DEF IInv, Carries
    <2> QED  BY <1>7, <2>1 DEF Carries, WellFormed
  <1>11. DeletedFirst'  BY <1>5, <1>6, <1>7 DEF IInv, DeletedFirst
  <1>12. OwnFormsOnly'  BY <1>5, <1>6, <1>7 DEF IInv, OwnFormsOnly
  <1>13. TokensRendered'  BY <1>7, <1>8 DEF IInv, TokensRendered
  <1>14. FormsStayValid'
    BY <1>1, <1>7, <1>8 DEF IInv, FormsStayValid, TypeOK, Issued
  <1> QED  BY <1>9, <1>10, <1>11, <1>12, <1>13, <1>14 DEF IInv

LEMMA RenderKeeps ==
  ASSUME IInv, NEW k \in Requests, Render(k)
  PROVE  IInv'
  <1> PICK token \in Tokens :
        /\ Ensure(request[k].id, token)
        /\ tokens' = [tokens EXCEPT ![request[k].id] = token]
        /\ drawn' = drawn \cup {token}
        /\ rendered' = rendered \cup {<<request[k].id, token>>}
    BY DEF Render
  <1> DEFINE id == request[k].id
  <1>1. request[k] # Idle /\ id \in Issued /\ id \in Ids
    BY DEF Render, Idle, IInv, TypeOK, Carries, Issued, WellFormed
  <1> HIDE DEF id
  <1>2. request' = [request EXCEPT ![k] = Idle] /\ UNCHANGED <<accountOf, live, expired, refused>>
    BY DEF Render, Ends
  <1>3. \A j \in Requests : request'[j] = IF j = k THEN Idle ELSE request[j]
    BY <1>2 DEF IInv, TypeOK
  <1>4. tokens \in [Ids -> drawn \cup {None}] /\ rendered \subseteq Issued \X drawn
    BY DEF IInv, TypeOK
  <1>5. tokens' = [tokens EXCEPT ![id] = token] /\ rendered' = rendered \cup {<<id, token>>}
        /\ Ensure(id, token)
    BY DEF id
  <1>6. Issued' = Issued  BY <1>2 DEF Issued
  <1>7. tokens' \in [Ids -> drawn' \cup {None}] /\ rendered' \subseteq Issued \X drawn'
    <2>1. drawn' = drawn \cup {token}  OBVIOUS
    <2>2. tokens' \in [Ids -> drawn' \cup {None}]
      <3>1. tokens \in [Ids -> drawn' \cup {None}]  BY <1>4, <2>1
      <3> QED  BY <1>1, <1>5, <2>1, <3>1
    <2>3. <<id, token>> \in Issued \X drawn'  BY <1>1, <2>1
    <2> QED  BY <1>4, <1>5, <2>1, <2>2, <2>3
  <1>8. TypeOK'
    <2>1. request' \in [Requests -> {Idle} \cup Request]  BY <1>2 DEF IInv, TypeOK
    <2>2. \A j \in Requests : request'[j] # Idle =>
            \/ request'[j].id \in Issued
            \/ request'[j].kind = "login" /\ request'[j].pc = "create"
      BY <1>3 DEF IInv, TypeOK
    <2> QED  BY <1>2, <1>6, <1>7, <2>1, <2>2 DEF IInv, TypeOK
  <1>9. Carries'
    <2>1. \A j \in Requests : request'[j] # Idle => request[j] # Idle /\ request'[j] = request[j]
      BY <1>3
    <2> QED  BY <1>2, <2>1 DEF IInv, Carries, WellFormed
  <1>10. DeletedFirst' /\ OwnFormsOnly'
    BY <1>2, <1>3, <1>5 DEF IInv, DeletedFirst, OwnFormsOnly, Idle
  <1>11. TokensRendered'  BY <1>1, <1>4, <1>5 DEF IInv, TokensRendered
  <1>12. FormsStayValid'
    <2> SUFFICES ASSUME NEW f \in rendered', f[1] \in live PROVE tokens'[f[1]] = f[2]
      BY <1>2 DEF FormsStayValid
    <2>1. CASE f = <<id, token>>  BY <1>1, <1>4, <1>5, <2>1
    <2>2. CASE f \in rendered
      <3>1. tokens[f[1]] = f[2] /\ f[1] \in Ids /\ f[2] \in drawn
        BY <1>4, <2>2 DEF IInv, FormsStayValid, Issued
      <3>2. f[2] # None  BY <3>1, WebAssumption DEF IInv, TypeOK
      <3>3. f[1] = id => token = f[2]  BY <1>5, <3>1, <3>2 DEF Ensure
      <3> QED  BY <1>1, <1>4, <1>5, <3>1, <3>3
    <2> QED  BY <1>5, <2>1, <2>2
  <1> QED  BY <1>8, <1>9, <1>10, <1>11, <1>12 DEF IInv

LEMMA LoginKeeps ==
  ASSUME IInv, NEW k \in Requests, NEW a \in Accounts, NEW prior \in Issued \cup {None},
         Login(k, a, prior)
  PROVE  IInv'
  <1> DEFINE r == [pc |-> IF prior = None THEN "create" ELSE "delete",
                   kind |-> "login", id |-> prior, form |-> None, account |-> a]
  <1>1. UNCHANGED <<storeVars, expired, refused, rendered>>
        /\ request' = [request EXCEPT ![k] = r]
    BY DEF Login
  <1>2. r \in Request  BY DEF Request, Issued
  <1>3. WellFormed(r)  BY DEF WellFormed
  <1>4. r.id \in Issued \/ (r.kind = "login" /\ r.pc = "create")  OBVIOUS
  <1>5. r.pc \in {"create", "delete"}  OBVIOUS
  <1> HIDE DEF r
  <1> QED  BY <1>1, <1>2, <1>3, <1>4, <1>5, RequestOnly

LEMMA CreateKeeps ==
  ASSUME IInv, NEW k \in Requests, NEW id \in Ids, Create(k, id)
  PROVE  IInv'
  <1>1. request[k] # Idle /\ request[k] \in Request /\ request[k].account \in Accounts
    BY DEF Create, Idle, IInv, TypeOK, Request
  <1>2. id \notin Issued /\ accountOf' = [accountOf EXCEPT ![id] = request[k].account]
        /\ live' = live \cup {id} /\ request' = [request EXCEPT ![k] = Idle]
        /\ UNCHANGED <<tokens, drawn, expired, refused, rendered>>
    BY DEF Create, NewSessionID, Ends
  <1>3. \A j \in Requests : request'[j] = IF j = k THEN Idle ELSE request[j]
    BY <1>2 DEF IInv, TypeOK
  <1>4. accountOf \in [Ids -> Accounts \cup {None}]  BY DEF IInv, TypeOK
  <1>5. accountOf' \in [Ids -> Accounts \cup {None}] /\ Issued' = Issued \cup {id}
    BY <1>1, <1>2, <1>4, WebAssumption DEF Issued
  <1>6. TypeOK'
    <2>1. request' \in [Requests -> {Idle} \cup Request]  BY <1>2 DEF IInv, TypeOK
    <2>2. \A j \in Requests : request'[j] # Idle =>
            \/ request'[j].id \in Issued'
            \/ request'[j].kind = "login" /\ request'[j].pc = "create"
      BY <1>3, <1>5 DEF IInv, TypeOK
    <2> QED  BY <1>2, <1>5, <2>1, <2>2 DEF IInv, TypeOK
  <1>7. Carries'
    <2> SUFFICES ASSUME NEW j \in Requests, request'[j] # Idle PROVE WellFormed(request[j])'
      BY DEF Carries
    <2>1. request'[j] = request[j] /\ request[j] # Idle /\ WellFormed(request[j])
          /\ request[j] \in Request
      BY <1>3 DEF IInv, Carries, TypeOK
    <2>2. request[j].kind # "login" => request[j].id \in Issued  BY <2>1 DEF IInv, TypeOK
    <2>3. \A other \in Issued : accountOf'[other] = accountOf[other]
      BY <1>2, <1>4 DEF Issued
    <2> QED  BY <1>2, <2>1, <2>2, <2>3 DEF WellFormed
  <1>8. DeletedFirst'
    <2> SUFFICES ASSUME NEW j \in Requests, request'[j].pc = "drop"
                 PROVE  request'[j].id \notin live'
      BY DEF DeletedFirst
    <2>1. request'[j] = request[j] /\ request[j] # Idle  BY <1>3 DEF Idle
    <2>2. request[j].id \in Issued /\ request[j].id \notin live
      BY <2>1 DEF IInv, TypeOK, DeletedFirst
    <2> QED  BY <1>2, <2>1, <2>2
  <1>9. OwnFormsOnly'  BY <1>2, <1>3 DEF IInv, OwnFormsOnly, Idle
  <1>10. TokensRendered'  BY <1>2 DEF IInv, TokensRendered
  <1>11. FormsStayValid'
    BY <1>2 DEF IInv, FormsStayValid, TypeOK
  <1> QED  BY <1>6, <1>7, <1>8, <1>9, <1>10, <1>11 DEF IInv

LEMMA OutsideKeeps ==
  ASSUME IInv,
         (\E id \in Issued : Expires(id)) \/ (\E a \in Accounts : CredentialRefused(a))
  PROVE  IInv'
  <1>1. UNCHANGED <<storeVars, request, rendered>>
        /\ expired' \subseteq Issued /\ refused' \subseteq Accounts
    BY DEF Expires, CredentialRefused, IInv, TypeOK
  <1>2. TypeOK'  BY <1>1 DEF IInv, TypeOK, Issued, storeVars
  <1>3. Carries' /\ DeletedFirst' /\ OwnFormsOnly' /\ TokensRendered' /\ FormsStayValid'
    BY <1>1 DEF IInv, Carries, WellFormed, DeletedFirst, OwnFormsOnly, TokensRendered,
              FormsStayValid, storeVars
  <1> QED  BY <1>2, <1>3 DEF IInv

LEMMA StepKeeps == IInv /\ [Next]_vars => IInv'
  <1> SUFFICES ASSUME IInv, [Next]_vars PROVE IInv'  OBVIOUS
  <1>1. CASE UNCHANGED vars
    BY <1>1 DEF vars, storeVars, IInv, TypeOK, Issued, Carries, WellFormed, DeletedFirst,
              OwnFormsOnly, TokensRendered, FormsStayValid
  <1>2. ASSUME NEW k \in Requests, Arrive(k) PROVE IInv'
    BY <1>2, ResolveKeeps, LoginKeeps DEF Arrive
  <1>3. ASSUME NEW k \in Requests, Serve(k) PROVE IInv'
    BY <1>3, RequestStepKeeps, DeleteKeeps, DropKeeps, RenderKeeps, CreateKeeps DEF Serve
  <1> QED  BY <1>1, <1>2, <1>3, OutsideKeeps DEF Next

THEOREM WebInvariant == Spec => []IInv
  BY InitHolds, StepKeeps, PTL DEF Spec

\* The console's state is well typed: no request acts for an identifier that
\* was never issued, except a sign-in that came without one (web/login.go).
THEOREM WebTypeCorrect == Spec => []TypeOK
  <1>1. IInv => TypeOK  BY DEF IInv
  <1> QED  BY <1>1, WebInvariant, PTL

\* Forms stay valid while their session is held (web/csrf.go, ensure and drop).
THEOREM FormsValid == Spec => []FormsStayValid
  <1>1. IInv => FormsStayValid  BY DEF IInv
  <1> QED  BY <1>1, WebInvariant, PTL

\* Nothing is asked but through a form of the session (web/csrf.go, requireCSRF).
THEOREM FormsOwn == Spec => []OwnFormsOnly
  <1>1. IInv => OwnFormsOnly  BY DEF IInv
  <1> QED  BY <1>1, WebInvariant, PTL

-----------------------------------------------------------------------------
(* The requests implement what the console promises.                       *)

Opened == {SessionOf(id) : id \in Issued}
Open == {SessionOf(id) : id \in live \ expired}
Visits == [k \in Requests |-> VisitOf(request[k])]
NoVisit == [stage |-> "none"]

LEMMA SessionsKept ==
  ASSUME UNCHANGED <<accountOf, live, expired>>
  PROVE  Opened' = Opened /\ Open' = Open
  BY DEF Opened, Open, SessionOf, Issued

LEMMA VisitChanges ==
  ASSUME IInv, NEW k \in Requests, NEW r, request' = [request EXCEPT ![k] = r]
  PROVE  Visits' = [Visits EXCEPT ![k] = VisitOf(r)]
  BY DEF Visits, IInv, TypeOK

LEMMA VisitOfRequest ==
  ASSUME IInv, NEW k \in Requests
  PROVE  Visits[k] = VisitOf(request[k])
  BY DEF Visits

LEMMA IdleVisit == VisitOf(Idle) = NoVisit
  BY DEF VisitOf, Idle, NoVisit

\* The session of a request that is not a sign-in.
LEMMA CarriesSession ==
  ASSUME IInv, NEW k \in Requests, request[k] # Idle, request[k].kind # "login"
  PROVE  /\ request[k].id \in Issued
         /\ <<request[k].id, request[k].account>> = SessionOf(request[k].id)
         /\ SessionOf(request[k].id) \in Opened
  BY DEF IInv, TypeOK, Carries, WellFormed, SessionOf, Opened

\* Deleting an identifier closes its session, or closes nothing.
LEMMA Closing ==
  ASSUME IInv, NEW id \in Issued, UNCHANGED accountOf,
         live' \ expired' = (live \ expired) \ {id}
  PROVE  /\ Opened' = Opened
         /\ Open' = Open \ {SessionOf(id)}
         /\ SessionOf(id) \in (Ids \cup {None}) \X Accounts
  <1>1. Opened' = Opened  BY DEF Opened, SessionOf, Issued
  <1>2. Open' = {SessionOf(other) : other \in (live \ expired) \ {id}}
    BY DEF Open, SessionOf
  <1>3. \A other : SessionOf(other) = SessionOf(id) => other = id  BY DEF SessionOf
  <1>4. Open' = Open \ {SessionOf(id)}  BY <1>2, <1>3 DEF Open
  <1>5. SessionOf(id) \in (Ids \cup {None}) \X Accounts
    BY DEF SessionOf, Issued, IInv, TypeOK
  <1> QED  BY <1>1, <1>4, <1>5

LEMMA InitMaps == Init => ConsoleView!ConsoleInit
  BY IdleVisit DEF Init, ConsoleView!ConsoleInit, ConsoleView!NoVisit, NoVisit, Issued

LEMMA VisitEnds ==
  ASSUME IInv, NEW k \in Requests, Ends(k), UNCHANGED <<accountOf, live, expired, refused>>
  PROVE  ConsoleView!Leave(k)
  <1>1. Visits' = [Visits EXCEPT ![k] = NoVisit]
    BY VisitChanges, IdleVisit DEF Ends
  <1> QED
    BY <1>1, SessionsKept DEF ConsoleView!Leave, ConsoleView!NoVisit, NoVisit, Visits, Opened, Open

LEMMA ResolveMaps ==
  ASSUME IInv, NEW k \in Requests, NEW kind \in {"get", "post", "logout"},
         NEW id \in live, NEW form, Resolve(k, kind, id, form)
  PROVE  ConsoleView!ConsoleNext \/ UNCHANGED ConsoleView!consoleVars
  <1>0. id \in Issued  BY DEF IInv, TypeOK
  <1>1. CASE Get(id)
    <2> DEFINE r == [pc |-> "resolved", kind |-> kind, id |-> id, form |-> form,
                     account |-> accountOf[id]]
    <2>1. request' = [request EXCEPT ![k] = r] /\ UNCHANGED <<accountOf, live, expired, refused>>
      BY <1>1 DEF Resolve
    <2>2. VisitOf(r) = [stage |-> "entered", of |-> SessionOf(id)]
      BY DEF VisitOf, SessionOf
    <2> HIDE DEF r
    <2>3. Visits' = [Visits EXCEPT ![k] = [stage |-> "entered", of |-> SessionOf(id)]]
      BY <2>1, <2>2, VisitChanges
    <2>4. Visits[k] = NoVisit  BY VisitOfRequest, IdleVisit DEF Resolve
    <2>5. SessionOf(id) \in Open  BY <1>1 DEF Open, Get
    <2>6. Opened' = Opened /\ Open' = Open  BY <2>1, SessionsKept
    <2>7. ConsoleView!Enter(k, SessionOf(id))
      BY <2>1, <2>3, <2>4, <2>5, <2>6
      DEF ConsoleView!Enter, ConsoleView!NoVisit, NoVisit, Visits, Opened, Open
    <2>8. SessionOf(id) \in (Ids \cup {None}) \X Accounts
      BY <1>0 DEF SessionOf, Issued, IInv, TypeOK
    <2> QED  BY <2>7, <2>8 DEF ConsoleView!ConsoleNext
  <1>2. CASE ~Get(id)
    <2>1. live' \ expired' = live \ expired /\ UNCHANGED <<accountOf, request, refused>>
      BY <1>2 DEF Resolve, Get
    <2> QED  BY <2>1 DEF ConsoleView!consoleVars, Issued, SessionOf
  <1> QED  BY <1>1, <1>2

\* A request that moves on, as its visit shows it.
LEMMA GoesToMaps ==
  ASSUME IInv, NEW k \in Requests, request[k] # Idle,
         NEW pc \in {"resolved", "principal", "act", "render", "delete", "drop", "create"},
         GoesTo(k, pc)
  PROVE  Visits' = [Visits EXCEPT ![k] = VisitOf([request[k] EXCEPT !.pc = pc])]
  <1> DEFINE r == [request[k] EXCEPT !.pc = pc]
  <1>1. request' = [request EXCEPT ![k] = r]  BY GoesToRecord
  <1> HIDE DEF r
  <1>2. Visits' = [Visits EXCEPT ![k] = VisitOf(r)]  BY <1>1, VisitChanges
  <1> QED  BY <1>2 DEF r

LEMMA PrincipalMaps ==
  ASSUME IInv, NEW k \in Requests,
         Authenticate(k) \/ AuthenticateFails(k) \/ VerifyForm(k) \/ Acts(k)
  PROVE  ConsoleView!Vouch(k) \/ ConsoleView!Act(k) \/ ConsoleView!Acted(k)
           \/ ConsoleView!Leave(k)
  <1> DEFINE q == request[k]
             s == <<request[k].id, request[k].account>>
  <1>1. q # Idle /\ q \in Request /\ WellFormed(q) /\ q.kind # "login"
    BY DEF Authenticate, AuthenticateFails, VerifyForm, Acts, Idle, IInv, TypeOK, Carries,
           WellFormed
  <1>2. s \in Opened /\ s[2] = q.account  BY <1>1, CarriesSession
  <1>3. UNCHANGED <<accountOf, live, expired, refused>>
    BY DEF Authenticate, AuthenticateFails, VerifyForm, Acts, storeVars
  <1>4. Opened' = Opened /\ Open' = Open  BY <1>3, SessionsKept
  <1>5. Visits[k] = VisitOf(q)  BY VisitOfRequest
  <1>6. q.pc # "idle"  BY <1>1 DEF Request
  <1>7. \A pc \in {"principal", "act", "render"} :
          VisitOf([q EXCEPT !.pc = pc])
            = [stage |-> IF pc = "act" THEN "acting" ELSE "vouched", of |-> s]
    BY <1>1 DEF VisitOf, Request
  <1>8. VisitOf([q EXCEPT !.pc = "delete"]) = NoVisit
    BY <1>1 DEF VisitOf, Request, NoVisit
  <1> HIDE DEF s
  <1>9. CASE Authenticate(k)
    <2>1. VisitOf(q) = [stage |-> "entered", of |-> s]
      BY <1>1, <1>9 DEF Authenticate, VisitOf, s
    <2>2. Visits' = [Visits EXCEPT ![k] = [stage |-> "vouched", of |-> s]]
      BY <1>1, <1>7, <1>9, GoesToMaps DEF Authenticate
    <2>3. Visits' = [Visits EXCEPT ![k].stage = "vouched"]
      <3>1. Visits[k] = [stage |-> "entered", of |-> s]  BY <1>5, <2>1
      <3>2. [Visits[k] EXCEPT !.stage = "vouched"] = [stage |-> "vouched", of |-> s]
        BY <3>1
      <3> QED  BY <2>2, <3>2
    <2>4. Visits[k].stage = "entered" /\ Visits[k].of[2] \notin refused
      BY <1>2, <1>5, <1>9, <2>1 DEF Authenticate
    <2> QED
      BY <1>3, <1>4, <2>3, <2>4 DEF ConsoleView!Vouch, Visits, Opened, Open
  <1>10. CASE AuthenticateFails(k)
    <2>1. Visits' = [Visits EXCEPT ![k] = NoVisit]
      BY <1>1, <1>8, <1>10, GoesToMaps DEF AuthenticateFails
    <2> QED
      BY <1>3, <1>4, <2>1
      DEF ConsoleView!Leave, ConsoleView!NoVisit, NoVisit, Visits, Opened, Open
  <1>11. CASE VerifyForm(k)
    <2>1. CASE q.kind = "logout"
      <3>1. Visits' = [Visits EXCEPT ![k] = NoVisit]
        BY <1>1, <1>8, <1>11, <2>1, GoesToMaps DEF VerifyForm
      <3> QED
        BY <1>3, <1>4, <3>1
        DEF ConsoleView!Leave, ConsoleView!NoVisit, NoVisit, Visits, Opened, Open
    <2>2. CASE q.kind # "logout"
      <3>1. VisitOf(q) = [stage |-> "vouched", of |-> s]
        BY <1>1, <1>11 DEF VerifyForm, VisitOf, s
      <3>2. Visits' = [Visits EXCEPT ![k] = [stage |-> "acting", of |-> s]]
        BY <1>1, <1>7, <1>11, <2>2, GoesToMaps DEF VerifyForm
      <3>3. Visits' = [Visits EXCEPT ![k].stage = "acting"]
        <4>1. Visits[k] = [stage |-> "vouched", of |-> s]  BY <1>5, <3>1
        <4>2. [Visits[k] EXCEPT !.stage = "acting"] = [stage |-> "acting", of |-> s]
          BY <4>1
        <4> QED  BY <3>2, <4>2
      <3>4. Visits[k].stage = "vouched" /\ Visits[k].of \in Opened
        BY <1>2, <1>5, <3>1
      <3> QED
        BY <1>3, <1>4, <3>3, <3>4 DEF ConsoleView!Act, Visits, Opened, Open
    <2> QED  BY <2>1, <2>2
  <1>12. CASE Acts(k)
    <2>1. CASE Ends(k)  BY <1>3, <2>1, VisitEnds
    <2>2. CASE GoesTo(k, "render")
      <3>1. VisitOf(q) = [stage |-> "acting", of |-> s]
        BY <1>1, <1>12 DEF Acts, VisitOf, s
      <3>2. Visits' = [Visits EXCEPT ![k] = [stage |-> "vouched", of |-> s]]
        BY <1>1, <1>7, <2>2, GoesToMaps
      <3>3. Visits' = [Visits EXCEPT ![k].stage = "vouched"]
        <4>1. Visits[k] = [stage |-> "acting", of |-> s]  BY <1>5, <3>1
        <4>2. [Visits[k] EXCEPT !.stage = "vouched"] = [stage |-> "vouched", of |-> s]
          BY <4>1
        <4> QED  BY <3>2, <4>2
      <3> QED
        BY <1>3, <1>4, <1>5, <3>1, <3>3 DEF ConsoleView!Acted, Visits, Opened, Open
    <2> QED  BY <1>12, <2>1, <2>2 DEF Acts
  <1> QED  BY <1>9, <1>10, <1>11, <1>12

LEMMA DestroyMaps ==
  ASSUME IInv, NEW k \in Requests, Delete(k) \/ Drop(k)
  PROVE  ConsoleView!ConsoleNext \/ UNCHANGED ConsoleView!consoleVars
  <1> DEFINE q == request[k]
  <1>1. q # Idle /\ q \in Request /\ q.id \in Issued
    BY DEF Delete, Drop, Idle, IInv, TypeOK
  <1>2. Visits[k] = VisitOf(q)  BY VisitOfRequest
  <1>3. VisitOf(q) = IF q.kind = "login" THEN [stage |-> "vouched", of |-> <<None, q.account>>]
                     ELSE NoVisit
    BY DEF Delete, Drop, VisitOf, NoVisit
  <1>4. \A pc \in {"drop", "create"} :
          (pc = "create" => q.kind = "login") => VisitOf([q EXCEPT !.pc = pc]) = VisitOf(q)
    BY <1>1, <1>3 DEF VisitOf, Request, NoVisit
  <1>5. Visits' = Visits
    <2>1. \A v : v = Visits[k] => [Visits EXCEPT ![k] = v] = Visits  BY DEF Visits
    <2>2. CASE Delete(k)
      BY <1>1, <1>2, <1>4, <2>1, <2>2, GoesToMaps DEF Delete
    <2>3. CASE Drop(k) /\ q.kind = "login"
      BY <1>1, <1>2, <1>4, <2>1, <2>3, GoesToMaps DEF Drop
    <2>4. CASE Drop(k) /\ q.kind # "login"
      BY <1>2, <1>3, <2>1, <2>4, VisitChanges, IdleVisit DEF Drop, Ends
    <2> QED  BY <2>2, <2>3, <2>4
  <1>6. CASE Delete(k)
    <2>1. live' \ expired' = (live \ expired) \ {q.id} /\ UNCHANGED <<accountOf, refused>>
      BY <1>6 DEF Delete
    <2>2. /\ Opened' = Opened /\ Open' = Open \ {SessionOf(q.id)}
          /\ SessionOf(q.id) \in (Ids \cup {None}) \X Accounts
      BY <1>1, <2>1, Closing
    <2>3. ConsoleView!Close(SessionOf(q.id))
      BY <1>5, <2>1, <2>2 DEF ConsoleView!Close, Visits, Opened, Open
    <2> QED  BY <2>2, <2>3 DEF ConsoleView!ConsoleNext
  <1>7. CASE Drop(k)
    <2>1. UNCHANGED <<accountOf, live, expired, refused>>  BY <1>7 DEF Drop
    <2>2. Opened' = Opened /\ Open' = Open  BY <2>1, SessionsKept
    <2> QED  BY <1>5, <2>1, <2>2 DEF ConsoleView!consoleVars, Visits, Opened, Open
  <1> QED  BY <1>6, <1>7

LEMMA LoginMaps ==
  ASSUME IInv, NEW k \in Requests, NEW a \in Accounts, NEW prior, Login(k, a, prior)
  PROVE  ConsoleView!Present(k, <<None, a>>)
  <1> DEFINE r == [pc |-> IF prior = None THEN "create" ELSE "delete",
                   kind |-> "login", id |-> prior, form |-> None, account |-> a]
  <1>1. request' = [request EXCEPT ![k] = r] /\ UNCHANGED <<accountOf, live, expired, refused>>
        /\ a \notin refused
    BY DEF Login, storeVars
  <1>2. VisitOf(r) = [stage |-> "vouched", of |-> <<None, a>>]  BY DEF VisitOf
  <1> HIDE DEF r
  <1>3. Visits' = [Visits EXCEPT ![k] = [stage |-> "vouched", of |-> <<None, a>>]]
    BY <1>1, <1>2, VisitChanges
  <1>4. Visits[k] = NoVisit  BY VisitOfRequest, IdleVisit DEF Login
  <1>5. Opened' = Opened /\ Open' = Open  BY <1>1, SessionsKept
  <1> QED
    BY <1>1, <1>3, <1>4, <1>5
    DEF ConsoleView!Present, ConsoleView!NoVisit, NoVisit, Visits, Opened, Open

LEMMA CreateMaps ==
  ASSUME IInv, NEW k \in Requests, NEW id \in Ids, Create(k, id)
  PROVE  ConsoleView!Open(k, <<id, request[k].account>>)
         /\ <<id, request[k].account>> \in (Ids \cup {None}) \X Accounts
  <1> DEFINE q == request[k]
             s == <<id, request[k].account>>
  <1>1. q # Idle /\ q \in Request /\ WellFormed(q) /\ q.kind = "login"
    BY DEF Create, Idle, IInv, TypeOK, Carries, WellFormed
  <1>2. q.account \in Accounts  BY <1>1 DEF Request
  <1>3. VisitOf(q) = [stage |-> "vouched", of |-> <<None, q.account>>]
    BY <1>1 DEF Create, VisitOf
  <1>4. Visits[k].stage = "vouched" /\ s[2] = Visits[k].of[2]
    BY <1>3, VisitOfRequest
  <1>5. accountOf \in [Ids -> Accounts \cup {None}] /\ live \subseteq Issued
        /\ expired \subseteq Issued
    BY DEF IInv, TypeOK
  <1>6. id \notin Issued /\ accountOf' = [accountOf EXCEPT ![id] = q.account]
        /\ live' = live \cup {id} /\ UNCHANGED <<expired, refused>>
    BY DEF Create, NewSessionID
  <1>7. Issued' = Issued \cup {id} /\ \A other \in Issued : accountOf'[other] = accountOf[other]
    BY <1>2, <1>5, <1>6, WebAssumption DEF Issued
  <1>8. accountOf'[id] = q.account  BY <1>5, <1>6
  <1>9. Opened' = {<<other, accountOf'[other]>> : other \in Issued \cup {id}}
    BY <1>7 DEF Opened, SessionOf
  <1>10. Opened' = Opened \cup {s}  BY <1>7, <1>8, <1>9 DEF Opened, SessionOf
  <1>11. live' \ expired' = (live \ expired) \cup {id}  BY <1>5, <1>6
  <1>12. Open' = {<<other, accountOf'[other]>> : other \in (live \ expired) \cup {id}}
    BY <1>11 DEF Open, SessionOf
  <1>13. Open' = Open \cup {s}
    BY <1>5, <1>7, <1>8, <1>12 DEF Open, SessionOf
  <1>14. \A t \in Opened : t[1] # s[1]  BY <1>6 DEF Opened, SessionOf
  <1>15. Visits' = [Visits EXCEPT ![k] = NoVisit]
    BY VisitChanges, IdleVisit DEF Create, Ends
  <1>16. s \in (Ids \cup {None}) \X Accounts  BY <1>2
  <1> HIDE DEF s
  <1>17. ConsoleView!Open(k, s)
    BY <1>4, <1>6, <1>10, <1>13, <1>14, <1>15
    DEF ConsoleView!Open, ConsoleView!NoVisit, NoVisit, Visits, Opened, Open
  <1> QED  BY <1>16, <1>17 DEF s

LEMMA OutsideMaps ==
  ASSUME IInv,
         (\E id \in Issued : Expires(id)) \/ (\E a \in Accounts : CredentialRefused(a))
  PROVE  ConsoleView!ConsoleNext \/ UNCHANGED ConsoleView!consoleVars
  <1>1. ASSUME NEW id \in Issued, Expires(id) PROVE ConsoleView!ConsoleNext
    <2>1. UNCHANGED <<accountOf, refused, request>>
          /\ live' \ expired' = (live \ expired) \ {id}
      BY <1>1 DEF Expires, storeVars
    <2>2. /\ Opened' = Opened /\ Open' = Open \ {SessionOf(id)}
          /\ SessionOf(id) \in (Ids \cup {None}) \X Accounts
      BY <2>1, Closing
    <2>3. ConsoleView!Close(SessionOf(id))
      BY <2>1, <2>2 DEF ConsoleView!Close, Opened, Open
    <2> QED  BY <2>2, <2>3 DEF ConsoleView!ConsoleNext
  <1>2. ASSUME NEW a \in Accounts, CredentialRefused(a)
        PROVE  ConsoleView!ConsoleNext
    <2>1. UNCHANGED <<accountOf, live, expired, request>> /\ refused' = refused \cup {a}
      BY <1>2 DEF CredentialRefused, storeVars
    <2>2. Opened' = Opened /\ Open' = Open  BY <2>1, SessionsKept
    <2>3. ConsoleView!Bar(<<None, a>>[2])
      BY <2>1, <2>2 DEF ConsoleView!Bar, Opened, Open
    <2>4. <<None, a>> \in (Ids \cup {None}) \X Accounts  OBVIOUS
    <2> QED  BY <2>3, <2>4 DEF ConsoleView!ConsoleNext
  <1> QED  BY <1>1, <1>2

LEMMA StepMaps ==
  IInv /\ [Next]_vars => [ConsoleView!ConsoleNext]_(ConsoleView!consoleVars)
  <1> SUFFICES ASSUME IInv, [Next]_vars
               PROVE  ConsoleView!ConsoleNext \/ UNCHANGED ConsoleView!consoleVars
    OBVIOUS
  <1>1. CASE UNCHANGED vars
    BY <1>1 DEF vars, storeVars, ConsoleView!consoleVars, Issued, SessionOf, VisitOf
  <1>2. ASSUME NEW k \in Requests, Arrive(k)
        PROVE  ConsoleView!ConsoleNext \/ UNCHANGED ConsoleView!consoleVars
    <2>1. ASSUME NEW a \in Accounts, NEW prior, Login(k, a, prior) PROVE ConsoleView!ConsoleNext
      <3>1. <<None, a>> \in (Ids \cup {None}) \X Accounts  OBVIOUS
      <3> QED  BY <2>1, <3>1, LoginMaps DEF ConsoleView!ConsoleNext
    <2> QED  BY <1>2, <2>1, ResolveMaps DEF Arrive
  <1>3. ASSUME NEW k \in Requests, Serve(k)
        PROVE  ConsoleView!ConsoleNext \/ UNCHANGED ConsoleView!consoleVars
    <2>1. CASE Authenticate(k) \/ AuthenticateFails(k) \/ VerifyForm(k) \/ Acts(k)
      BY <2>1, PrincipalMaps DEF ConsoleView!ConsoleNext
    <2>2. CASE Delete(k) \/ Drop(k)  BY <2>2, DestroyMaps
    <2>3. CASE Render(k) \/ GivesUp(k)
      <3>1. Ends(k) /\ UNCHANGED <<accountOf, live, expired, refused>>
        BY <2>3 DEF Render, GivesUp, storeVars
      <3> QED  BY <3>1, VisitEnds DEF ConsoleView!ConsoleNext
    <2>4. CASE \E id \in Ids : Create(k, id)
      BY <2>4, CreateMaps DEF ConsoleView!ConsoleNext
    <2> QED  BY <1>3, <2>1, <2>2, <2>3, <2>4 DEF Serve
  <1> QED  BY <1>1, <1>2, <1>3, OutsideMaps DEF Next

\* Sessions open once and close for good, and nobody does anything but by a
\* session that was open and vouched for (web/web.go, requirePrincipal).
THEOREM ConsoleKept == Spec => MeetsConsole
  BY InitMaps, StepMaps, WebInvariant, PTL DEF Spec, MeetsConsole, ConsoleView!ConsoleSpec
=============================================================================
