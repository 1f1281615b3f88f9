------------------------------ MODULE VipStore ------------------------------
(***************************************************************************)
(* What one tenant's webhook handlers and compliance sweeps share: the     *)
(* committed rows of the database, the row locks open transactions hold,   *)
(* and Telegram's own state.                                               *)
(*                                                                         *)
(* A transaction reads committed rows and keeps its changes to itself; its *)
(* commit writes, of every row it loaded, the columns it changed (the      *)
(* SQLAlchemy unit of work, under PostgreSQL's READ COMMITTED).  A row it  *)
(* updated or inserted stays locked until it ends, so another transaction  *)
(* that wants the row waits: its action is disabled.                       *)
(*                                                                         *)
(* The tenant is fully configured throughout: an active program and an     *)
(* active channel per market.  Time is counted in days.                    *)
(***************************************************************************)
EXTENDS Compliance, UnitOfWork, Sequences, FiniteSets

CONSTANTS Users,      \* Telegram users
          Uids,       \* exchange accounts
          Markets,
          Programs,   \* market -> [minimum_balance, minimum_trades, grace]
          Checks,     \* the answers the exchange may give
          InviteTtl,  \* DEFAULT_INVITE_TTL
          Procs,      \* who may run a transaction
          NoOne,
          MaxDay,     \* the clock stops here
          MaxLinks    \* at most this many links are ever minted

ASSUME StoreAssumption ==
  /\ Checks \subseteq Check /\ Markets # {}
  /\ Programs \in [Markets -> [minimum_balance : Nat, minimum_trades : Nat, grace : Nat]]
  /\ InviteTtl \in Nat /\ MaxDay \in Nat /\ MaxLinks \in Nat
  /\ NoOne \notin Users \cup Procs

VARIABLES now,       \* today
          accounts,  \* ReferralAccount rows, by uid; owner NoOne: no row
          subs,      \* Subscription rows, by user and market
          members,   \* VIPMembership rows, by user and market (= channel)
          links,     \* Telegram: every invite link minted so far
          held,      \* the links whose text reached a user
          chat,      \* Telegram: each user's standing in each channel
          locks      \* who holds which row lock

storeVars == <<now, accounts, subs, members, links, held, chat, locks>>

Keys == Users \X Markets
Day == 0..MaxDay

AccountRow == [owner : Users \cup {NoOne}, market : Markets,
               status : {"UNVERIFIED", "VERIFIED", "REJECTED"}]

\* `n` rows; the status is that of the row a query returns first.
SubRow == [n : Nat, status : {"ACTIVE", "EXPIRED"}]

MemberRow == [status : Statuses, link : 0..MaxLinks, issuedAt : Day \cup {NoTime},
              since : Day \cup {NoTime}, warnings : Nat,
              lastWarning : Day \cup {NoTime}, revokedAt : Day \cup {NoTime}]

Link == [key : Keys, expires : Nat, used : BOOLEAN]

Standings == {"out", "in", "banned"}

RowsOf(jobs) == ({"account"} \X Uids) \cup ({"member", "sub"} \X Keys)
                \cup ({"user"} \X Users) \cup ({"job"} \X jobs)

StoreTypeOK(jobs) ==
  /\ now \in Day
  /\ accounts \in [Uids -> AccountRow]
  /\ subs \in [Keys -> SubRow]
  /\ members \in [Keys -> MemberRow]
  /\ links \in Seq(Link) /\ Len(links) <= MaxLinks
  /\ held \subseteq 1..MaxLinks
  /\ chat \in [Keys -> Standings]
  /\ locks \in [RowsOf(jobs) -> Procs \cup {NoOne}]

AbsentRow == [status |-> "ABSENT", link |-> NoLink, issuedAt |-> NoTime,
              since |-> NoTime, warnings |-> 0, lastWarning |-> NoTime,
              revokedAt |-> NoTime]

\* Nobody is known yet.  The market and status of an absent account are place
\* holders.
StoreInit(jobs) ==
  /\ now = 0
  /\ accounts = [uid \in Uids |->
                   [owner |-> NoOne, market |-> CHOOSE m \in Markets : TRUE,
                    status |-> "UNVERIFIED"]]
  /\ subs = [k \in Keys |-> [n |-> 0, status |-> "ACTIVE"]]
  /\ members = [k \in Keys |-> AbsentRow]
  /\ links = <<>> /\ held = {}
  /\ chat = [k \in Keys |-> "out"]
  /\ locks = [r \in RowsOf(jobs) |-> NoOne]

-----------------------------------------------------------------------------
(* Row locks. *)

Free(p, rows) == \A r \in rows : locks[r] \in {NoOne, p}

Locked(p, rows) == [r \in DOMAIN locks |-> IF r \in rows THEN p ELSE locks[r]]

Released(p) == [r \in DOMAIN locks |-> IF locks[r] = p THEN NoOne ELSE locks[r]]

-----------------------------------------------------------------------------
(* What onboarding writes into a row. *)

\* Mutant: the reason ends up in the status column.
BugStatusIsReason(account, u, market, reason) ==
  [owner |-> u, market |-> market,
   status |-> IF reason = "ELIGIBLE" THEN "VERIFIED" ELSE reason]

\* submit_uid: the account's columns once the exchange has been asked.  The
\* market is that of the first submission; later ones do not touch it.  The
\* compliance_state, balance and timestamps written beside the status are
\* never read again and are left out.
CheckedAccount(account, u, market, reason) ==
  [owner  |-> u,
   market |-> IF account.owner = NoOne THEN market ELSE account.market,
   status |-> CASE reason = "ELIGIBLE"             -> "VERIFIED"
                [] reason = "PROVIDER_UNAVAILABLE" -> "UNVERIFIED"
                [] reason \in Faults               -> "REJECTED"]

\* Mutant: an expired subscription is found and left as it is.
BugLeavesExpired(sub) == IF sub.n = 0 THEN [n |-> 1, status |-> "ACTIVE"] ELSE sub

\* _ensure_subscription, for one more row or for the one there is.
EnsuredSub(sub) == [n |-> IF sub.n = 0 THEN 1 ELSE sub.n, status |-> "ACTIVE"]

\* Mutant: a returning member keeps the warnings of the old spell.
BugKeepsWarnings(row, today) ==
  IF row.status = "ABSENT" THEN [row EXCEPT !.status = "PENDING", !.since = today]
  ELSE IF row.status \in {"REVOKED", "EXPIRED"}
  THEN [row EXCEPT !.status = "PENDING", !.revokedAt = NoTime]
  ELSE row

\* _ensure_membership.
EnsuredMember(row, today) ==
  IF row.status = "ABSENT"
  THEN [row EXCEPT !.status = "PENDING", !.since = today]
  ELSE IF row.status \in {"REVOKED", "EXPIRED"}
  THEN [row EXCEPT !.status = "PENDING", !.revokedAt = NoTime,
                   !.warnings = 0, !.lastWarning = NoTime]
  ELSE row

\* Mutant: a link is minted for every submission.
BugNeverReuses(row, today) == FALSE

\* InviteService._live_link: the recorded link may be handed out again.
LiveLink(row, today) ==
  /\ row.link # NoLink
  /\ row.status \in {"INVITED", "ACTIVE"}
  /\ today < row.issuedAt + InviteTtl

\* InviteService.issue, when a link was minted.
IssuedMember(row, link, today) ==
  [row EXCEPT !.link = link, !.issuedAt = today,
              !.status = IF row.status = "ACTIVE" THEN "ACTIVE" ELSE "INVITED"]

\* create_invite_link: single use, good for InviteTtl.
Mint(k, today) ==
  /\ Len(links) < MaxLinks
  /\ links' = Append(links, [key |-> k, expires |-> today + InviteTtl, used |-> FALSE])

-----------------------------------------------------------------------------
(* The world outside the program. *)

\* A user follows a link they were given.
Join(k, l) ==
  /\ l \in held /\ links[l].key = k
  /\ ~links[l].used /\ now < links[l].expires
  /\ chat[k] = "out"
  /\ chat' = [chat EXCEPT ![k] = "in"]
  /\ links' = [links EXCEPT ![l].used = TRUE]
  /\ UNCHANGED <<now, accounts, subs, members, held, locks>>

Tick ==
  /\ now < MaxDay
  /\ now' = now + 1
  /\ UNCHANGED <<accounts, subs, members, links, held, chat, locks>>
=============================================================================
