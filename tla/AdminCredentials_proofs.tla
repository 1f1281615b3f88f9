----------------------- MODULE AdminCredentials_proofs -----------------------
(***************************************************************************)
(* What the stored bot token, the bot's row and its webhook route say of   *)
(* each other, for any number of admin requests and tokens.                *)
(***************************************************************************)
EXTENDS AdminCredentials, TLAPS

\* The stages at which a request has written the credential.
Written == {"stored", "installed", "ready"}

\* The row lock: whoever has written the credential holds it.
LockHeld == \A r \in Requests : request[r].stage \in Written <=> lock = r

\* What a request will commit, as far as it has got.
WillCommit(r) ==
  LET q == request[r]
  IN  /\ q.stage # "idle" => q.token \in Tokens
      /\ q.stage \in {"stored", "installed"} => q.kind = "bot"
      /\ q.stage \in Written => q.row.secret = q.token
      /\ q.stage = "installed" \/ (q.stage = "ready" /\ q.kind = "bot") =>
           q.bot.exists /\ q.routes = 1
      /\ q.stage = "ready" /\ q.kind = "bot" => q.bot.verified \in {Null, q.token}

\* As long as no two requests have overlapped, there is one at a time, what it
\* has loaded is what is stored, and it keeps the columns of the row together.
InTurn ==
  overlap \/
    /\ \A r, q \in Requests : ~At(r, "idle") /\ ~At(q, "idle") => r = q
    /\ \A r \in Requests :
         /\ At(r, "loaded") => request[r].seen = cred
         /\ request[r].stage \in Written =>
              /\ request[r].row.four = request[r].token
              /\ request[r].row.verified \in {Null, request[r].token}

\* The inductive invariant.
CredentialInv ==
  /\ TypeOK /\ LockHeld /\ (\A r \in Requests : WillCommit(r)) /\ InTurn
  /\ BotIsWhole /\ BotVerifiedHonestly /\ VerifiedInTurn

-----------------------------------------------------------------------------
(* What the operators return. *)

\* The record a request starts from and returns to.
LEMMA IdleType == Idle \in Request /\ NoCred \in CredRow /\ NoBot \in BotRow
  BY CredentialsAssumption DEF Idle, Request, NoCred, CredRow, NoBot, BotRow, Stamp

\* The UPDATE leaves a row with the new secret; its other columns are the new
\* ones when the row had not changed since it was loaded.
LEMMA RotatedRow ==
  ASSUME NEW seen \in CredRow, NEW token \in Tokens, cred \in CredRow
  PROVE  /\ Rotated(seen, token) \in CredRow
         /\ Rotated(seen, token).secret = token
         /\ seen = cred => Rotated(seen, token) = NewSecret(seen, token)
  <1> DEFINE new == NewSecret(seen, token)
             pick(f) == IF new[f] # seen[f] THEN new[f] ELSE cred[f]
             columns == {"secret", "four", "verified"}
  <1>1. DOMAIN cred = columns
    BY DEF CredRow
  <1>2. new = [secret |-> token, four |-> token, verified |-> Null]
    BY DEF NewSecret
  <1>3. Merge(cred, seen, new) = [f \in columns |-> pick(f)]
    BY <1>1 DEF Merge
  <1>4. pick("four") \in Stamp /\ pick("verified") \in Stamp
    BY <1>2 DEF CredRow, Stamp
  <1>5. seen = cred => pick("four") = token /\ pick("verified") = Null
    BY <1>2
  <1> HIDE DEF pick, new
  <1>6. Rotated(seen, token)
          = [secret |-> token, four |-> pick("four"), verified |-> pick("verified")]
    BY <1>3 DEF Rotated, new
  <1> QED
    BY <1>2, <1>4, <1>5, <1>6 DEF CredRow, Stamp, new

-----------------------------------------------------------------------------
(* The steps of one request. *)

\* A step that changes one request and nothing that is stored keeps what concerns
\* the others; it has to account for its own part.
LEMMA LocalStep ==
  ASSUME CredentialInv, NEW r \in Requests, NEW q \in Request,
         request' = [request EXCEPT ![r] = q],
         UNCHANGED <<cred, bot, routes, rotated, overlap>>,
         lock' \in Requests \cup {Null},
         \A p \in Requests \ {r} : lock' = p <=> lock = p,
         q.stage \in Written <=> lock' = r,
         WillCommit(r)',
         q.stage # "idle" => ~At(r, "idle"),
         overlap \/
           /\ q.stage = "loaded" => q.seen = cred
           /\ q.stage \in Written => q.row.four = q.token /\ q.row.verified \in {Null, q.token}
  PROVE  CredentialInv'
  <1>0. request'[r] = q /\ \A p \in Requests \ {r} : request'[p] = request[p]
    BY DEF CredentialInv, TypeOK
  <1>1. TypeOK'
    BY DEF CredentialInv, TypeOK
  <1>2. LockHeld'
    BY <1>0 DEF CredentialInv, LockHeld
  <1>3. \A p \in Requests : WillCommit(p)'
    BY <1>0 DEF CredentialInv, WillCommit
  <1>4. InTurn'
    BY <1>0 DEF CredentialInv, InTurn, At
  <1>5. BotIsWhole' /\ BotVerifiedHonestly' /\ VerifiedInTurn'
    BY DEF CredentialInv, BotIsWhole, BotVerifiedHonestly, VerifiedInTurn
  <1> QED
    BY <1>1, <1>2, <1>3, <1>4, <1>5 DEF CredentialInv

\* A session that closes without a commit leaves no trace.
LEMMA CloseKeeps ==
  ASSUME CredentialInv, NEW r \in Requests, Close(r), UNCHANGED <<Database, overlap>>
  PROVE  CredentialInv'
  <1>1. /\ request' = [request EXCEPT ![r] = Idle] /\ Idle \in Request
        /\ lock' = IF lock = r THEN Null ELSE lock
        /\ lock \in Requests \cup {Null} /\ Null \notin Requests
        /\ UNCHANGED <<cred, bot, routes, rotated, overlap>>
    BY IdleType, CredentialsAssumption DEF Close, Database, CredentialInv, TypeOK
  <1>2. request'[r] = Idle /\ Idle.stage = "idle" /\ "idle" \notin Written
    BY <1>1 DEF CredentialInv, TypeOK, Idle, Written
  <1>3. WillCommit(r)'
    BY <1>2 DEF WillCommit, Written
  <1>4. Idle.stage # "loaded"
    BY <1>2
  <1> QED
    BY <1>1, <1>2, <1>3, <1>4, LocalStep

\* get_named: from now on there are two requests, unless nobody else is at work.
LEMMA LoadKeeps ==
  ASSUME CredentialInv, NEW r \in Requests, NEW kind \in {"credential", "bot"},
         NEW token \in Tokens, Load(r, kind, token)
  PROVE  CredentialInv'
  <1> DEFINE q == [Idle EXCEPT !.stage = "loaded", !.kind = kind, !.token = token, !.seen = cred]
  <1>0. /\ request \in [Requests -> Request] /\ cred \in CredRow /\ At(r, "idle")
        /\ request' = [request EXCEPT ![r] = q]
        /\ UNCHANGED <<cred, bot, routes, rotated, lock>>
        /\ overlap' = (overlap \/ \E p \in Requests : ~At(p, "idle"))
    BY DEF Load, CredentialInv, TypeOK, Database
  <1>1. q \in Request /\ q.stage = "loaded" /\ q.token \in Tokens /\ q.seen = cred
    BY <1>0, IdleType DEF Request, Idle, Stamp
  <1> HIDE DEF q
  <1>2. request'[r] = q /\ \A p \in Requests \ {r} : request'[p] = request[p]
    BY <1>0
  <1>3. TypeOK'
    BY <1>0, <1>1 DEF CredentialInv, TypeOK
  <1>4. LockHeld'
    BY <1>0, <1>1, <1>2 DEF CredentialInv, LockHeld, Written, At
  <1>5. \A p \in Requests : WillCommit(p)'
    BY <1>1, <1>2 DEF CredentialInv, WillCommit, Written
  <1>6. InTurn'
    BY <1>0, <1>1, <1>2 DEF CredentialInv, InTurn, Written, At
  <1>7. BotIsWhole' /\ BotVerifiedHonestly' /\ VerifiedInTurn'
    BY <1>0 DEF CredentialInv, BotIsWhole, BotVerifiedHonestly, VerifiedInTurn
  <1> QED
    BY <1>3, <1>4, <1>5, <1>6, <1>7 DEF CredentialInv

\* The flush takes the lock.
LEMMA StoreKeeps ==
  ASSUME CredentialInv, NEW r \in Requests, Store(r)
  PROVE  CredentialInv'
  <1> DEFINE s == request[r]
             row == Rotated(s.seen, s.token)
             stage == IF s.kind = "bot" THEN "stored" ELSE "ready"
             q == [s EXCEPT !.stage = stage, !.row = row, !.seen = NoCred]
  <1>0. /\ request \in [Requests -> Request] /\ s \in Request /\ cred \in CredRow
        /\ At(r, "loaded") /\ lock = Null /\ lock' = r /\ Null \notin Requests
        /\ UNCHANGED <<cred, bot, routes, rotated, overlap>>
        /\ s.token \in Tokens /\ NoCred \in CredRow
    BY IdleType, CredentialsAssumption
    DEF Store, CredentialInv, TypeOK, Database, WillCommit, At
  <1>1. s.seen \in CredRow /\ s.kind \in {"bot", "credential"}
    BY <1>0 DEF Request
  <1>2. row \in CredRow /\ row.secret = s.token
        /\ (s.seen = cred => row.four = s.token /\ row.verified = Null)
    BY <1>0, <1>1, RotatedRow DEF NewSecret
  <1>3. request' = [request EXCEPT ![r] = q]
    BY <1>0 DEF Store, Request
  <1>4. /\ q \in Request /\ q.stage = stage /\ q.row = row /\ q.token = s.token
        /\ q.kind = s.kind
    BY <1>0, <1>1, <1>2 DEF Request
  <1>5. /\ stage \in Written /\ stage # "installed" /\ stage # "loaded"
        /\ stage \in {"stored", "installed"} => s.kind = "bot"
        /\ stage = "ready" => s.kind # "bot"
    BY <1>1 DEF Written
  <1>6. overlap \/ s.seen = cred
    BY <1>0 DEF CredentialInv, InTurn
  <1> HIDE DEF q, row, stage
  <1>7. WillCommit(r)'
    <2>1. request'[r] = q
      BY <1>0, <1>3
    <2> QED
      BY <1>0, <1>2, <1>4, <1>5, <2>1 DEF WillCommit
  <1>8. ~At(r, "idle")
    BY <1>0 DEF At
  <1> QED
    BY <1>0, <1>2, <1>3, <1>4, <1>5, <1>6, <1>7, <1>8, LocalStep

\* upsert_bot finds the bot's row and route, there together or not at all, and
\* will leave both.
LEMMA InstallKeeps ==
  ASSUME CredentialInv, NEW r \in Requests, Install(r)
  PROVE  CredentialInv'
  <1> DEFINE s == request[r]
             b == [bot EXCEPT !.exists = TRUE]
             n == EnsuredRoutes(routes)
             q == [s EXCEPT !.stage = "installed", !.bot = b, !.routes = n]
  <1>0. /\ request \in [Requests -> Request] /\ s \in Request /\ bot \in BotRow
        /\ At(r, "stored") /\ lock' = lock /\ lock \in Requests \cup {Null}
        /\ UNCHANGED <<cred, bot, routes, rotated, overlap>>
        /\ routes \in 0..1 /\ MaxRoutes \in Nat \ {0}
    BY CredentialsAssumption DEF Install, CredentialInv, TypeOK, Database, BotIsWhole
  <1>1. n = 1 /\ n \in 0..MaxRoutes
    BY <1>0 DEF EnsuredRoutes
  <1>2. b \in BotRow /\ b.exists
    BY <1>0 DEF BotRow
  <1>3. request' = [request EXCEPT ![r] = q]
    BY <1>0 DEF Install
  <1>4. /\ q \in Request /\ q.stage = "installed" /\ q.bot = b /\ q.routes = n
        /\ q.token = s.token /\ q.kind = s.kind /\ q.row = s.row
    BY <1>0, <1>1, <1>2 DEF Request
  <1>5. /\ s.stage = "stored" /\ s.stage \in Written /\ q.stage \in Written
        /\ s.kind = "bot" /\ s.token \in Tokens /\ s.row.secret = s.token /\ lock = r
    BY <1>0, <1>4 DEF At, Written, CredentialInv, LockHeld, WillCommit
  <1> HIDE DEF q, b, n
  <1>6. WillCommit(r)'
    <2>1. request'[r] = q
      BY <1>0, <1>3
    <2> QED
      BY <1>1, <1>2, <1>4, <1>5, <2>1 DEF WillCommit
  <1>7. overlap \/ (q.row.four = q.token /\ q.row.verified \in {Null, q.token})
    BY <1>4, <1>5 DEF CredentialInv, InTurn
  <1>8. ~At(r, "idle") /\ q.stage # "loaded"
    BY <1>4, <1>5 DEF At
  <1> QED
    BY <1>0, <1>3, <1>4, <1>5, <1>6, <1>7, <1>8, LocalStep

\* get_me is asked about the token this request has stored; whatever it answers
\* goes to the row of that token.
LEMMA AskKeeps ==
  ASSUME CredentialInv, NEW r \in Requests, Verify(r) \/ CannotVerify(r)
  PROVE  CredentialInv'
  <1> DEFINE s == request[r]
  <1>0. /\ request \in [Requests -> Request] /\ s \in Request
        /\ At(r, "installed") /\ lock' = lock /\ lock \in Requests \cup {Null}
        /\ UNCHANGED <<cred, bot, routes, rotated, overlap>>
    BY DEF Verify, CannotVerify, CredentialInv, TypeOK, Database
  <1>1. /\ s.stage = "installed" /\ s.stage \in Written
        /\ s.kind = "bot" /\ s.token \in Tokens /\ s.row.secret = s.token /\ lock = r
        /\ s.bot.exists /\ s.routes = 1
        /\ overlap \/ (s.row.four = s.token /\ s.row.verified \in {Null, s.token})
    BY <1>0 DEF At, Written, CredentialInv, LockHeld, WillCommit, InTurn
  <1>2. PICK q \in Request :
          /\ request' = [request EXCEPT ![r] = q]
          /\ q.stage = "ready" /\ q.kind = s.kind /\ q.token = s.token
          /\ q.row.secret = s.row.secret /\ q.row.four = s.row.four
          /\ q.row.verified \in {s.row.verified, s.token}
          /\ q.bot.exists = s.bot.exists /\ q.bot.verified \in {Null, s.token}
          /\ q.routes = s.routes
    <2>1. s.token \in Stamp /\ Null \in Stamp
      BY <1>1 DEF Stamp
    <2>2. CASE Verify(r)
      <3> DEFINE b == [s.bot EXCEPT !.verified = s.token]
                 row == [s.row EXCEPT !.verified = s.token]
                 q == [s EXCEPT !.stage = "ready", !.bot = b, !.row = row]
      <3>1. s.bot \in BotRow /\ s.row \in CredRow
        BY <1>0 DEF Request
      <3>2. b \in BotRow /\ row \in CredRow /\ b.exists = s.bot.exists /\ b.verified = s.token
            /\ row.secret = s.row.secret /\ row.four = s.row.four /\ row.verified = s.token
        BY <2>1, <3>1 DEF BotRow, CredRow
      <3>3. request' = [request EXCEPT ![r] = q]
        BY <1>0, <2>2 DEF Verify
      <3>4. q \in Request /\ q.stage = "ready" /\ q.bot = b /\ q.row = row
            /\ q.kind = s.kind /\ q.token = s.token /\ q.routes = s.routes
        BY <1>0, <3>2 DEF Request
      <3> HIDE DEF q, b, row
      <3> QED
        BY <3>2, <3>3, <3>4
    <2>3. CASE CannotVerify(r)
      <3> DEFINE b == [s.bot EXCEPT !.verified = Null]
                 q == [s EXCEPT !.stage = "ready", !.bot = b]
      <3>1. s.bot \in BotRow
        BY <1>0 DEF Request
      <3>2. b \in BotRow /\ b.exists = s.bot.exists /\ b.verified = Null
        BY <2>1, <3>1 DEF BotRow
      <3>3. request' = [request EXCEPT ![r] = q]
        BY <1>0, <2>3 DEF CannotVerify
      <3>4. q \in Request /\ q.stage = "ready" /\ q.bot = b /\ q.row = s.row
            /\ q.kind = s.kind /\ q.token = s.token /\ q.routes = s.routes
        BY <1>0, <3>2 DEF Request
      <3> HIDE DEF q, b
      <3> QED
        BY <3>2, <3>3, <3>4
    <2> QED
      BY <2>2, <2>3
  <1>3. WillCommit(r)'
    <2>1. request'[r] = q
      BY <1>0, <1>2
    <2> QED
      BY <1>1, <1>2, <2>1 DEF WillCommit
  <1>4. overlap \/ (q.row.four = q.token /\ q.row.verified \in {Null, q.token})
    BY <1>1, <1>2
  <1>5. ~At(r, "idle") /\ q.stage # "loaded" /\ q.stage \in Written
    BY <1>1, <1>2 DEF At, Written
  <1> QED
    BY <1>0, <1>1, <1>2, <1>3, <1>4, <1>5, LocalStep

\* The commit.  The others have at most loaded the credential: it was locked.
LEMMA CommitKeeps ==
  ASSUME CredentialInv, NEW r \in Requests, Commit(r)
  PROVE  CredentialInv'
  <1> DEFINE s == request[r]
  <1>0. /\ request \in [Requests -> Request] /\ s \in Request
        /\ s.stage = "ready" /\ s.stage \in Written
        /\ request' = [request EXCEPT ![r] = Idle] /\ cred' = s.row
        /\ rotated' = (s.kind = "credential") /\ UNCHANGED overlap
        /\ Null \notin Requests \cup Tokens /\ s.token \in Tokens /\ s.row.secret = s.token
    BY CredentialsAssumption
    DEF Commit, Close, At, Written, CredentialInv, TypeOK, WillCommit
  <1>1. lock = r /\ lock' = Null
    BY <1>0 DEF Commit, Close, CredentialInv, LockHeld
  <1>2. request'[r] = Idle /\ \A p \in Requests \ {r} : request'[p] = request[p]
    BY <1>0
  <1>3. \A p \in Requests : request'[p].stage \notin Written
    BY <1>0, <1>1, <1>2 DEF CredentialInv, LockHeld, Idle, Written
  <1>4. /\ s.row \in CredRow /\ s.bot \in BotRow /\ s.routes \in 0..MaxRoutes
        /\ s.kind \in {"credential", "bot"}
        /\ s.kind = "bot" => bot' = s.bot /\ routes' = s.routes
        /\ s.kind # "bot" => UNCHANGED <<bot, routes>>
    BY <1>0 DEF Request, Commit
  <1>5. TypeOK'
    BY <1>0, <1>1, <1>4, IdleType DEF CredentialInv, TypeOK
  <1>6. LockHeld'
    BY <1>0, <1>1, <1>3 DEF LockHeld
  <1>7. \A p \in Requests : WillCommit(p)'
    BY <1>2 DEF CredentialInv, WillCommit, Idle, Written
  <1>8. InTurn'
    <2> SUFFICES ASSUME ~overlap
                 PROVE  \A p \in Requests : request'[p].stage = "idle"
      BY <1>0, <1>3 DEF InTurn, At
    <2> QED
      BY <1>0, <1>2 DEF CredentialInv, InTurn, At, Idle
  <1>9. cred' # NoCred
    BY <1>0 DEF NoCred
  <1>10. BotIsWhole'
    <2>1. CASE s.kind = "bot"
      BY <1>0, <1>4, <1>9, <2>1 DEF CredentialInv, WillCommit, BotIsWhole
    <2>2. CASE s.kind # "bot"
      BY <1>4, <1>9, <2>2 DEF CredentialInv, BotIsWhole
    <2> QED
      BY <2>1, <2>2
  <1>11. BotVerifiedHonestly'
    <2>1. CASE s.kind = "bot"
      BY <1>0, <1>4, <2>1 DEF CredentialInv, WillCommit, BotVerifiedHonestly
    <2>2. CASE s.kind # "bot"
      BY <1>0, <1>4, <2>2 DEF BotVerifiedHonestly
    <2> QED
      BY <2>1, <2>2
  <1>12. VerifiedInTurn'
    BY <1>0 DEF CredentialInv, InTurn, VerifiedInTurn
  <1> QED
    BY <1>5, <1>6, <1>7, <1>8, <1>10, <1>11, <1>12 DEF CredentialInv

-----------------------------------------------------------------------------
(* The theorems. *)

\* Nothing is stored and nobody is at work.
LEMMA InitCredentials == Init => CredentialInv
  <1> SUFFICES ASSUME Init PROVE CredentialInv
    OBVIOUS
  <1>1. TypeOK
    <2>1. routes \in 0..MaxRoutes
      BY CredentialsAssumption DEF Init
    <2>2. rotated \in BOOLEAN /\ overlap \in BOOLEAN
      BY DEF Init
    <2>3. request \in [Requests -> Request]
      BY IdleType DEF Init
    <2> QED
      BY <2>1, <2>2, <2>3, IdleType DEF Init, TypeOK
  <1>2. \A r \in Requests : request[r] = Idle /\ request[r].stage = "idle"
    BY DEF Init, Idle
  <1>3. LockHeld /\ (\A r \in Requests : WillCommit(r)) /\ InTurn
    BY <1>2, CredentialsAssumption DEF Init, LockHeld, WillCommit, InTurn, Written, At
  <1>4. BotIsWhole /\ BotVerifiedHonestly /\ VerifiedInTurn
    BY DEF Init, BotIsWhole, BotVerifiedHonestly, VerifiedInTurn, NoBot, NoCred
  <1> QED
    BY <1>1, <1>3, <1>4 DEF CredentialInv

\* Every step keeps the invariant.
LEMMA NextCredentials == CredentialInv /\ [Next]_vars => CredentialInv'
  <1> SUFFICES ASSUME CredentialInv, [Next]_vars PROVE CredentialInv'
    OBVIOUS
  <1>1. ASSUME NEW r \in Requests, LosesInsert(r) \/ Fail(r) PROVE CredentialInv'
    BY <1>1, CloseKeeps DEF LosesInsert, Fail
  <1>2. CASE UNCHANGED vars
    BY <1>2
    DEF vars, CredentialInv, TypeOK, LockHeld, WillCommit, InTurn, At, BotIsWhole,
        BotVerifiedHonestly, VerifiedInTurn
  <1> QED
    BY <1>1, <1>2, LoadKeeps, StoreKeeps, InstallKeeps, AskKeeps, CommitKeeps
    DEF Next, Advance

\* Who holds the row, what each request will commit and what that leaves behind:
\* the inductive invariant of the credential requests.
THEOREM CredentialInvariant == Spec => []CredentialInv
  BY InitCredentials, NextCredentials, PTL DEF Spec

\* Every reachable state of the requests is well formed; in particular no more
\* webhook routes are ever made than there is room for.
THEOREM TypesHold == Spec => []TypeOK
  <1>1. CredentialInv => TypeOK
    BY DEF CredentialInv
  <1> QED
    BY <1>1, CredentialInvariant, PTL

\* admin.py:101, "One stable, unguessable path per tenant": however requests to
\* install a bot race, fail or break off, the bot's row, one webhook route and a
\* token are there together or not at all.  It is the lock on the credential,
\* taken first, that makes the look-up and the insertion of the route safe.
THEOREM OneRoutePerBot == Spec => []BotIsWhole
  <1>1. CredentialInv => BotIsWhole
    BY DEF CredentialInv
  <1> QED
    BY <1>1, CredentialInvariant, PTL

\* tenant.py:145-146, as far as upsert_bot carries it out (the token is checked,
\* the channel and the permissions are not): a bot marked verified was verified
\* with the token that is installed, unless that one came in by PUT /credentials
\* since.
THEOREM BotMarkIsHonest == Spec => []BotVerifiedHonestly
  <1>1. CredentialInv => BotVerifiedHonestly
    BY DEF CredentialInv
  <1> QED
    BY <1>1, CredentialInvariant, PTL

\* admin.py:84: as long as requests come one at a time, a rotated secret is not
\* taken for verified and the four characters shown are its own.
THEOREM RotationInvalidates == Spec => []VerifiedInTurn
  <1>1. CredentialInv => VerifiedInTurn
    BY DEF CredentialInv
  <1> QED
    BY <1>1, CredentialInvariant, PTL
=============================================================================
