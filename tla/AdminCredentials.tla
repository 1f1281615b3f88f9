-------------------------- MODULE AdminCredentials --------------------------
(***************************************************************************)
(* A tenant's bot token under the admin API (adapters/web/routers/         *)
(* admin.py): PUT /admin/credentials replaces the stored secret, PUT       *)
(* /admin/telegram-bot replaces it, makes sure of the bot's row and        *)
(* webhook route, and asks Telegram whether the token works.  Any number   *)
(* of such requests at once.                                               *)
(*                                                                         *)
(* A request is one transaction.  It loads the credential, updates or      *)
(* inserts it, and the row stays locked until the request ends; the two    *)
(* are different moments, and an UPDATE writes only the columns that       *)
(* differ from what was loaded (UnitOfWork).                               *)
(***************************************************************************)
EXTENDS UnitOfWork, Integers, FiniteSets

CONSTANTS Requests,
          Tokens,    \* secrets an admin may enter
          Genuine,   \* the ones Telegram knows
          Null,      \* a column without value, a row that is not there
          MaxRoutes  \* the webhook routes are counted up to here

ASSUME CredentialsAssumption ==
  /\ Null \notin Tokens \cup Requests
  /\ Genuine \subseteq Tokens
  /\ MaxRoutes \in Nat \ {0}

VARIABLES cred,      \* ProviderCredential (TELEGRAM, bot_token)
          bot,       \* TelegramBotConfig
          routes,    \* how many WebhookRoute rows the tenant has
          lock,      \* who has written the credential and not yet committed
          request,   \* each admin request
          rotated,   \* history: the last change was a bare PUT /credentials
          overlap    \* history: two requests have been under way at once

vars == <<cred, bot, routes, lock, request, rotated, overlap>>

Stamp == Tokens \cup {Null}

\* `four` is last_four(secret), taken to tell tokens apart.  `verified` stands
\* for verified_at by the token get_me accepted at that time.
CredRow == [secret : Stamp, four : Stamp, verified : Stamp]
BotRow == [exists : BOOLEAN, verified : Stamp]

NoCred == [secret |-> Null, four |-> Null, verified |-> Null]
NoBot == [exists |-> FALSE, verified |-> Null]

Idle == [stage |-> "idle", kind |-> "credential", token |-> Null, seen |-> NoCred,
         row |-> NoCred, bot |-> NoBot, routes |-> 0]

Request == [stage : {"idle", "loaded", "stored", "installed", "ready"},
            kind : {"credential", "bot"}, token : Stamp, seen : CredRow,
            row : CredRow, bot : BotRow, routes : 0..MaxRoutes]

\* TypeOK: every variable has its type.
TypeOK ==
  /\ cred \in CredRow /\ bot \in BotRow /\ routes \in 0..MaxRoutes
  /\ lock \in Requests \cup {Null}
  /\ request \in [Requests -> Request]
  /\ rotated \in BOOLEAN /\ overlap \in BOOLEAN

Init ==
  /\ cred = NoCred /\ bot = NoBot /\ routes = 0
  /\ lock = Null
  /\ request = [r \in Requests |-> Idle]
  /\ rotated = FALSE /\ overlap = FALSE

At(r, stage) == request[r].stage = stage
Database == <<cred, bot, routes, rotated>>

-----------------------------------------------------------------------------
(* One request. *)

\* _store_secret: get_named.
Load(r, kind, token) ==
  /\ At(r, "idle")
  /\ request' = [request EXCEPT ![r] = [Idle EXCEPT !.stage = "loaded", !.kind = kind,
                                                    !.token = token, !.seen = cred]]
  /\ overlap' = (overlap \/ \E q \in Requests : ~At(q, "idle"))
  /\ UNCHANGED <<Database, lock>>

\* Mutant: a new key keeps the verification of the old one.
BugStaysVerified(row, token) == [row EXCEPT !.secret = token, !.four = token]

\* Mutant: every secret is taken for one too short to show any of.
BugShowsNothing(row, token) == [secret |-> token, four |-> "", verified |-> Null]

\* _store_secret: the columns it assigns.
NewSecret(row, token) == [secret |-> token, four |-> token, verified |-> Null]

\* The row the UPDATE leaves.  The ciphertext is new each time, even for the
\* same secret, so it is always among the columns written.
Rotated(seen, token) == [Merge(cred, seen, NewSecret(seen, token)) EXCEPT !.secret = token]

\* The flush: UPDATE of the row that was found, INSERT if none was.  Either
\* waits for a transaction that has written the row.
Store(r) ==
  LET q == request[r]
  IN  /\ At(r, "loaded") /\ lock = Null
      /\ q.seen = NoCred => cred = NoCred
      /\ lock' = r
      /\ request' = [request EXCEPT
           ![r].stage = IF q.kind = "bot" THEN "stored" ELSE "ready",
           ![r].row = Rotated(q.seen, q.token), ![r].seen = NoCred]
      /\ UNCHANGED <<Database, overlap>>

\* Mutant: a new path for every installation.
BugNewRoute(n) == n + 1

\* _ensure_webhook_route: the tenant's path, made if there is none.
EnsuredRoutes(n) == IF n = 0 THEN 1 ELSE n

\* upsert_bot: the bot's row and the webhook route.  scalar_one_or_none raises
\* when there are two routes.
Install(r) ==
  /\ At(r, "stored") /\ routes <= 1
  /\ request' = [request EXCEPT ![r].stage = "installed",
                                ![r].bot = [bot EXCEPT !.exists = TRUE],
                                ![r].routes = EnsuredRoutes(routes)]
  /\ UNCHANGED <<Database, lock, overlap>>

\* get_me accepts the token this request has stored.
Verify(r) ==
  LET token == request[r].token
  IN  /\ At(r, "installed") /\ token \in Genuine
      /\ request' = [request EXCEPT ![r].stage = "ready", ![r].bot.verified = token,
                                    ![r].row.verified = token]
      /\ UNCHANGED <<Database, lock, overlap>>

\* Mutant: the except branch leaves the bot's row as it was.
BugKeepsBotVerified(r) ==
  /\ At(r, "installed")
  /\ request' = [request EXCEPT ![r].stage = "ready"]
  /\ UNCHANGED <<Database, lock, overlap>>

\* get_me refuses the token or is not reached; the token is saved all the same.
CannotVerify(r) ==
  /\ At(r, "installed")
  /\ request' = [request EXCEPT ![r].stage = "ready", ![r].bot.verified = Null]
  /\ UNCHANGED <<Database, lock, overlap>>

\* Mutant: the transaction stays open.
BugKeepsLock(r) ==
  /\ request' = [request EXCEPT ![r] = Idle]
  /\ UNCHANGED lock

\* The session is closed and gives up its lock.
Close(r) ==
  /\ request' = [request EXCEPT ![r] = Idle]
  /\ lock' = IF lock = r THEN Null ELSE lock

\* get_tenant_session commits after the handler.
Commit(r) ==
  LET q == request[r]
  IN  /\ At(r, "ready")
      /\ cred' = q.row
      /\ IF q.kind = "bot" THEN bot' = q.bot /\ routes' = q.routes
                           ELSE UNCHANGED <<bot, routes>>
      /\ rotated' = (q.kind = "credential")
      /\ Close(r) /\ UNCHANGED overlap

\* A row was found missing, and another request has inserted it since:
\* IntegrityError.
LosesInsert(r) ==
  /\ At(r, "loaded") /\ lock = Null
  /\ request[r].seen = NoCred /\ cred # NoCred
  /\ Close(r) /\ UNCHANGED <<Database, overlap>>

\* The secret cannot be sealed (503), the connection breaks, the process dies.
Fail(r) ==
  /\ ~At(r, "idle")
  /\ Close(r) /\ UNCHANGED <<Database, overlap>>

-----------------------------------------------------------------------------

Advance(r) ==
  Store(r) \/ Install(r) \/ Verify(r) \/ CannotVerify(r) \/ Commit(r) \/ LosesInsert(r)

Next ==
  \E r \in Requests :
    \/ \E kind \in {"credential", "bot"}, token \in Tokens : Load(r, kind, token)
    \/ Advance(r)
    \/ Fail(r)

Spec == Init /\ [][Next]_vars

\* A request under way is carried on: get_me returns or times out, and
\* PostgreSQL serves the transactions waiting for the row in turn.
FairSpec == Spec /\ \A r \in Requests : SF_vars(Advance(r))

-----------------------------------------------------------------------------
(* Properties. *)

\* admin.py:101, "One stable, unguessable path per tenant": the bot's row, its
\* one webhook route and its token are there together or not at all.
BotIsWhole ==
  /\ routes = IF bot.exists THEN 1 ELSE 0
  /\ bot.exists => cred # NoCred

\* tenant.py:145-146 has the bot's `verified_at` set only once three checks "have
\* actually passed": "token valid, channel present, permissions sufficient".
\* upsert_bot makes the first of them only, and this is about that one: the mark
\* belongs to the installed token, unless that was replaced behind the bot's back
\* by PUT /credentials.
BotVerifiedHonestly == rotated \/ bot.verified \in {Null, cred.secret}

\* admin.py:84, "Rotating a key invalidates whatever we previously verified with
\* it": a credential marked verified is the one Telegram accepted, and the four
\* characters shown are its own, as long as no two requests have overlapped.
VerifiedInTurn ==
  overlap \/ (cred.verified \in {Null, cred.secret} /\ cred.four = cred.secret)

\* A request ends, whatever the others do.
RequestsEnd == \A r \in Requests : ~At(r, "idle") ~> At(r, "idle")
=============================================================================
