------------------------- MODULE ReferralOnboarding -------------------------
(***************************************************************************)
(* A UID arrives (app/services/referral_onboarding.py and                  *)
(* invite_service.py, under the commit, the rollback and the reply of      *)
(* app/adapters/web/routers/telegram_webhook.py), with any number of       *)
(* updates in progress at once.                                            *)
(*                                                                         *)
(* One update is one transaction, cut where it waits: for a row lock, for  *)
(* the exchange, for Telegram.  The reply goes out after the commit.       *)
(*                                                                         *)
(* The UID is well formed and the market is configured: the two answers    *)
(* that change nothing are left out.                                       *)
(***************************************************************************)
EXTENDS VipStore

CONSTANT Hooks  \* the updates that may be in progress at once

ASSUME OnboardingAssumption == Hooks \subseteq Procs

VARIABLES users,   \* TelegramUser rows
          hook,    \* the transaction of each update
          backing  \* history: the accounts each membership was granted for

onboardingVars == <<users, hook, backing>>
vars == <<storeVars, onboardingVars>>

\* What an update carries, what it has read (account, sub, seen) and what it
\* will write (new); `fresh` when it inserts the user.
Idle == [stage |-> "idle", user |-> NoOne, market |-> NoOne, uid |-> NoOne,
         fresh |-> FALSE, account |-> NoOne, reason |-> "ELIGIBLE",
         sub |-> "kept", seen |-> AbsentRow, new |-> AbsentRow, link |-> NoLink]

Stages == {"idle", "naming", "asking", "verifying", "enrolling", "joining",
           "issuing", "saving", "replying"}

Hook == [stage : Stages, user : Users \cup {NoOne}, market : Markets \cup {NoOne},
         uid : Uids \cup {NoOne}, fresh : BOOLEAN, account : AccountRow \cup {NoOne},
         reason : Reasons, sub : {"kept", "revived", "inserted"},
         seen : MemberRow, new : MemberRow, link : 0..MaxLinks]

\* TypeOK: every variable has its type.
TypeOK ==
  /\ StoreTypeOK({})
  /\ users \subseteq Users
  /\ hook \in [Hooks -> Hook]
  /\ backing \in [Keys -> SUBSET Uids]

Init ==
  /\ StoreInit({})
  /\ users = {}
  /\ hook = [w \in Hooks |-> Idle]
  /\ backing = [k \in Keys |-> {}]

KeyOf(w) == <<hook[w].user, hook[w].market>>
UserRow(w) == <<"user", hook[w].user>>
AccountRowOf(w) == <<"account", hook[w].uid>>
SubRowOf(w) == <<"sub", KeyOf(w)>>
MemberRowOf(w) == <<"member", KeyOf(w)>>

-----------------------------------------------------------------------------
(* One update. *)

\* _ensure_user looks the sender up.
Receive(w, u, market, uid) ==
  /\ hook[w].stage = "idle"
  /\ hook' = [hook EXCEPT ![w] =
       [Idle EXCEPT !.user = u, !.market = market, !.uid = uid,
                    !.fresh = u \notin users, !.stage = "naming"]]
  /\ UNCHANGED <<storeVars, users, backing>>

\* Mutant: the transaction is left open.
BugStaysOpen(w) ==
  /\ hook' = [hook EXCEPT ![w] = Idle]
  /\ UNCHANGED <<now, accounts, subs, members, held, chat, locks, users, backing>>

\* The transaction is rolled back and the sender gets the apology.
Fail(w) ==
  /\ hook' = [hook EXCEPT ![w] = Idle]
  /\ locks' = Released(w)
  /\ UNCHANGED <<now, accounts, subs, members, held, chat, users, backing>>

\* An unknown sender is inserted (another update may have inserted them since:
\* IntegrityError); then get_by_uid.
InsertUser(w) ==
  /\ hook[w].stage = "naming" /\ hook[w].fresh /\ Free(w, {UserRow(w)})
  /\ IF hook[w].user \in users
     THEN Fail(w)
     ELSE /\ locks' = Locked(w, {UserRow(w)})
          /\ hook' = [hook EXCEPT ![w].stage = "asking",
                                  ![w].account = accounts[hook[w].uid]]
          /\ UNCHANGED <<now, accounts, subs, members, held, chat, users, backing>>
  /\ UNCHANGED links

KnownUser(w) ==
  /\ hook[w].stage = "naming" /\ ~hook[w].fresh
  /\ hook' = [hook EXCEPT ![w].stage = "asking", ![w].account = accounts[hook[w].uid]]
  /\ UNCHANGED <<storeVars, users, backing>>

\* What every commit writes besides the account, subscription and membership.
CommitUser(w) ==
  /\ users' = IF hook[w].fresh THEN users \cup {hook[w].user} ELSE users
  /\ locks' = Released(w)

\* The UID is somebody else's: nothing but the sender is recorded.
Claimed(w) ==
  /\ hook[w].stage = "asking" /\ hook[w].account.owner \notin {NoOne, hook[w].user}
  /\ CommitUser(w)
  /\ hook' = [hook EXCEPT ![w] = Idle]
  /\ UNCHANGED <<now, accounts, subs, members, links, held, chat, backing>>

\* validate_user answers, or does not.
Ask(w, check) ==
  /\ hook[w].stage = "asking" /\ hook[w].account.owner \in {NoOne, hook[w].user}
  /\ hook' = [hook EXCEPT ![w].stage = "verifying",
       ![w].reason = evaluate_referral(check, Programs[hook[w].market], FALSE)]
  /\ UNCHANGED <<storeVars, users, backing>>

\* The account as the commit will leave it.
AccountAfter(w) ==
  LET h == hook[w]
  IN  Merge(accounts[h.uid], h.account, CheckedAccount(h.account, h.user, h.market, h.reason))

\* Mutants: no subscription is looked for; any one found is taken to be active.
BugAlwaysInserts(sub) == "inserted"

BugAnySubWillDo(sub) == IF sub.n = 0 THEN "inserted" ELSE "kept"

\* _ensure_subscription: what is to be done about the subscription it finds.
SubPlan(sub) ==
  IF sub.n = 0 THEN "inserted" ELSE IF sub.status = "ACTIVE" THEN "kept" ELSE "revived"

\* Mutant: the unique key on (tenant, provider, uid) is missing.
BugTakenUnseen(w) == FALSE

\* The UID was free when it was looked up and is not any more: IntegrityError.
Taken(w) == hook[w].account.owner = NoOne /\ accounts[hook[w].uid].owner # NoOne

\* The account row is written.  An outage or a rejection ends the update here.
Verify(w) ==
  LET h == hook[w]
  IN  /\ h.stage = "verifying" /\ Free(w, {AccountRowOf(w)})
      /\ CASE Taken(w) ->
                Fail(w) /\ UNCHANGED links
           [] ~Taken(w) /\ h.reason # "ELIGIBLE" ->
                /\ accounts' = [accounts EXCEPT ![h.uid] = AccountAfter(w)]
                /\ CommitUser(w)
                /\ hook' = [hook EXCEPT ![w] = Idle]
                /\ UNCHANGED <<now, subs, members, links, held, chat, backing>>
           [] ~Taken(w) /\ h.reason = "ELIGIBLE" ->
                /\ locks' = Locked(w, {AccountRowOf(w)})
                /\ hook' = [hook EXCEPT ![w].stage = "enrolling",
                                        ![w].sub = SubPlan(subs[KeyOf(w)])]
                /\ UNCHANGED <<now, accounts, subs, members, links, held, chat,
                               users, backing>>

\* The subscription is inserted or made ACTIVE again; _ensure_membership reads
\* the membership, which it will have to insert if there is none.
Entitle(w) ==
  LET rows == IF hook[w].sub = "revived" THEN {SubRowOf(w)} ELSE {}
      row == members[KeyOf(w)]
  IN  /\ hook[w].stage = "enrolling" /\ Free(w, rows)
      /\ locks' = Locked(w, rows)
      /\ hook' = [hook EXCEPT
           ![w].stage = IF row.status = "ABSENT" THEN "joining" ELSE "issuing",
           ![w].seen = row, ![w].new = EnsuredMember(row, now)]
      /\ UNCHANGED <<now, accounts, subs, members, links, held, chat, users, backing>>

\* The new membership is inserted (another update may have inserted it since).
InsertMember(w) ==
  /\ hook[w].stage = "joining" /\ Free(w, {MemberRowOf(w)})
  /\ IF members[KeyOf(w)].status # "ABSENT"
     THEN Fail(w)
     ELSE /\ locks' = Locked(w, {MemberRowOf(w)})
          /\ hook' = [hook EXCEPT ![w].stage = "issuing"]
          /\ UNCHANGED <<now, accounts, subs, members, held, chat, users, backing>>
  /\ UNCHANGED links

\* InviteService.issue finds a live link ...
Reuse(w) ==
  /\ hook[w].stage = "issuing" /\ LiveLink(hook[w].new, now)
  /\ hook' = [hook EXCEPT ![w].stage = "saving", ![w].link = hook[w].new.link]
  /\ UNCHANGED <<storeVars, users, backing>>

\* ... or asks Telegram for one.
Issue(w) ==
  LET link == Len(links) + 1
  IN  /\ hook[w].stage = "issuing" /\ ~LiveLink(hook[w].new, now)
      /\ Mint(KeyOf(w), now)
      /\ hook' = [hook EXCEPT ![w].stage = "saving", ![w].link = link,
                              ![w].new = IssuedMember(hook[w].new, link, now)]
      /\ UNCHANGED <<now, accounts, subs, members, held, chat, locks, users, backing>>

\* Mutant: the failure is swallowed and the member recorded as invited.
BugInvitedAnyway(w) ==
  /\ hook[w].stage = "issuing" /\ ~LiveLink(hook[w].new, now)
  /\ hook' = [hook EXCEPT ![w].stage = "saving",
                          ![w].new = IssuedMember(hook[w].new, NoLink, now)]
  /\ UNCHANGED <<storeVars, users, backing>>

\* Telegram refuses, or mints the link and its answer is lost.
IssueFails(w) ==
  /\ hook[w].stage = "issuing" /\ ~LiveLink(hook[w].new, now)
  /\ UNCHANGED links \/ Mint(KeyOf(w), now)
  /\ Fail(w)

\* The membership is saved, if it changed, and the transaction commits.
Save(w) ==
  LET h == hook[w]
      k == KeyOf(w)
  IN  /\ h.stage = "saving"
      /\ Free(w, IF h.new = h.seen /\ h.sub # "inserted" THEN {} ELSE {MemberRowOf(w)})
      /\ accounts' = [accounts EXCEPT ![h.uid] = AccountAfter(w)]
      /\ subs' = [subs EXCEPT ![k] =
           CASE h.sub = "inserted" -> [n |-> @.n + 1, status |-> "ACTIVE"]
             [] h.sub = "revived"  -> [@ EXCEPT !.status = "ACTIVE"]
             [] h.sub = "kept"     -> @]
      /\ members' = [members EXCEPT ![k] = Merge(@, h.seen, h.new)]
      /\ backing' = [backing EXCEPT ![k] = @ \cup {h.uid}]
      /\ CommitUser(w)
      /\ hook' = [hook EXCEPT ![w] = [Idle EXCEPT !.stage = "replying", !.link = h.link]]
      /\ UNCHANGED <<now, links, held, chat>>

\* The reply with the link is sent; it may not arrive.
Deliver(w, arrives) ==
  /\ hook[w].stage = "replying"
  /\ held' = IF arrives THEN held \cup {hook[w].link} ELSE held
  /\ hook' = [hook EXCEPT ![w] = Idle]
  /\ UNCHANGED <<now, accounts, subs, members, links, chat, locks, users, backing>>

\* The process dies, or something is raised that nothing here expects (the
\* exchange's body is no object, Bitunix!Raises): the webhook rolls back.
Crash(w) == hook[w].stage # "idle" /\ Fail(w) /\ UNCHANGED links

-----------------------------------------------------------------------------
(* The rest of the system, and the world. *)

\* The user talks to the bot before sending a UID (BotConversation._ensure_user).
Start(u) ==
  /\ u \notin users /\ locks[<<"user", u>>] = NoOne
  /\ users' = users \cup {u}
  /\ UNCHANGED <<storeVars, hook, backing>>

\* A compliance sweep removes a member after looking at one of their accounts
\* (MembershipMonitor has its steps).  Grace, channel and subscription are those
\* of the account's market, which need not be the membership's.
Remove(k, uid) ==
  LET market == accounts[uid].market
      target == <<k[1], market>>
  IN  /\ members[k].status \in Monitored /\ accounts[uid].owner = k[1]
      /\ ~InGrace(members[k], Programs[market], now)
      /\ \A r \in {<<"account", uid>>, <<"member", k>>, <<"sub", target>>} :
           locks[r] = NoOne
      /\ members' = [members EXCEPT ![k] = ApplyDecision(@, "REVOKE", now)]
      /\ subs' = [subs EXCEPT ![target].status = IF subs[target].n > 0 THEN "EXPIRED" ELSE @]
      /\ chat' = [chat EXCEPT ![target] = "out"]
      /\ UNCHANGED <<now, accounts, links, held, locks, onboardingVars>>

JoinChannel == \E k \in Keys, l \in 1..Len(links) : Join(k, l) /\ UNCHANGED onboardingVars

DayPasses == Tick /\ UNCHANGED onboardingVars

Advance(w) ==
  \/ InsertUser(w) \/ KnownUser(w) \/ Claimed(w)
  \/ \E check \in Checks : Ask(w, check)
  \/ Verify(w) \/ Entitle(w) \/ InsertMember(w)
  \/ Reuse(w) \/ Issue(w) \/ IssueFails(w) \/ Save(w)
  \/ \E arrives \in BOOLEAN : Deliver(w, arrives)

Next ==
  \/ \E w \in Hooks :
       \/ \E u \in Users, m \in Markets, uid \in Uids : Receive(w, u, m, uid)
       \/ Advance(w) \/ Crash(w)
  \/ \E u \in Users : Start(u)
  \/ \E k \in Keys, uid \in Uids : Remove(k, uid)
  \/ JoinChannel
  \/ DayPasses

Spec == Init /\ [][Next]_vars

\* An update in progress is carried on (see MembershipMonitor!FairSpec).
FairSpec == Spec /\ \A w \in Hooks : SF_vars(Advance(w))

-----------------------------------------------------------------------------
(* Properties. *)

\* membership.py, the anti-sharing rule: one exchange account never backs the
\* memberships of two people, however their submissions interleave.
OneAccountOneMember ==
  \A j, k \in Keys : j[1] # k[1] => backing[j] \cap backing[k] = {}

\* invite_service.py, "the member is not left recorded as invited without a
\* link": a committed membership is never half-way, and an invited member's
\* link is one Telegram minted for that channel and user, expiring when the
\* row says.
InvitedHasLink ==
  \A k \in Keys :
    LET m == members[k]
    IN  /\ m.status \in {"ABSENT", "INVITED", "REVOKED"}
        /\ m.status = "INVITED" =>
             /\ m.link \in 1..Len(links)
             /\ links[m.link].key = k
             /\ links[m.link].expires = m.issuedAt + InviteTtl

\* There is no unique key on subscriptions, yet a user who submits one UID has
\* one subscription per membership: the key on the UID makes concurrent
\* submissions of it take turns.  (Two different UIDs of one user at the same
\* time do get past it; see the README.)
OneSubscription ==
  \A k \in Keys : subs[k].n = IF members[k].status = "ABSENT" THEN 0 ELSE 1

\* enums.py:42, "an EXPIRED entitlement leaves a REVOKED membership": the right
\* to access and the Telegram side agree, also when the member is removed or
\* returns while a submission of theirs is in progress.  (For a member whose
\* account is of the membership's own market; see the README.)
EntitlementMatches ==
  \A k \in Keys :
    members[k].status # "ABSENT" =>
      subs[k].status = IF members[k].status = "REVOKED" THEN "EXPIRED" ELSE "ACTIVE"

\* invite_service.py:12, a retried webhook or a double tap "cannot mint a second
\* invite": nobody holds two open links to one channel.
OneOpenLink ==
  \A k \in Keys :
    Cardinality({l \in held : links[l].key = k /\ ~links[l].used
                              /\ now < links[l].expires}) <= 1

\* Every update is answered, or dropped with its transaction.
UpdatesEnd == \A w \in Hooks : hook[w].stage # "idle" ~> hook[w].stage = "idle"
=============================================================================
