------------------------- MODULE MembershipMonitor -------------------------
(***************************************************************************)
(* The compliance sweep of one tenant (app/jobs/membership_monitor.py,     *)
(* under the period claim of app/jobs/period_lock.py and the commit and    *)
(* rollback of app/jobs/scheduler.py), run by any number of instances.     *)
(*                                                                         *)
(* A sweep is one transaction.  It claims its period by inserting a job    *)
(* row, loads the monitored memberships once, works through them and       *)
(* commits at the end; whatever goes wrong on the way rolls everything     *)
(* back.  Telegram is outside the transaction: what was sent stays sent.   *)
(*                                                                         *)
(* A sweep takes the members in no particular order (list_by_status has no *)
(* ORDER BY).  An account row it has checked and a membership row it has   *)
(* changed are locked from that step on: the flush that really takes the   *)
(* locks comes no later than the sweep's next query.                       *)
(*                                                                         *)
(* Onboarding is one step here (Enrol); ReferralOnboarding has its         *)
(* interleavings.                                                          *)
(***************************************************************************)
EXTENDS VipStore

CONSTANTS Instances,        \* the processes whose scheduler fires
          PeriodDays,       \* DEFAULT_COMPLIANCE_PERIOD
          MaxWarnings,      \* CompliancePolicy.max_warnings
          WarningInterval,  \* CompliancePolicy.warning_interval_days
          MaxNotices        \* messages are counted up to here; 0 keeps no history of
                            \* messages and rollbacks

ASSUME MonitorAssumption ==
  /\ Instances \subseteq Procs
  /\ PeriodDays \in Nat \ {0}
  /\ MaxWarnings \in Nat /\ WarningInterval \in Nat /\ MaxNotices \in Nat

VARIABLES jobs,       \* JobExecution: the committed state of each period
          sweep,      \* each instance's transaction
          notices,    \* history: messages the sweeps of a period sent a member
          told,       \* history: the periods in which a member was sent a warning
          aborted,    \* history: the periods of which a sweep was rolled back
          warned      \* history: warnings committed since admission or recovery

monitorVars == <<jobs, sweep, notices, told, aborted, warned>>
vars == <<storeVars, monitorVars>>

period_start_for(day) == (day \div PeriodDays) * PeriodDays
Periods == {period_start_for(d) : d \in Day}

\* What a sweep keeps to itself until it commits: the membership rows as it
\* loaded them and as it changed them, the subscriptions it ended and the
\* accounts it has added a TradingActivitySnapshot for.  (Only the holder of a
\* period adds snapshots of it, so no committed one can be in the way.)
Idle == [stage |-> "idle", moment |-> 0, todo |-> {},
         seen |-> [k \in Keys |-> AbsentRow], new |-> [k \in Keys |-> AbsentRow],
         ended |-> {}, shots |-> {}]

Sweep == [stage : {"idle", "claiming", "running"}, moment : Day, todo : SUBSET Keys,
          seen : [Keys -> MemberRow], new : [Keys -> MemberRow],
          ended : SUBSET Keys, shots : SUBSET Uids]

\* TypeOK: every variable has its type.
TypeOK ==
  /\ StoreTypeOK(Periods)
  /\ jobs \in [Periods -> {"NONE", "SUCCEEDED"}]
  /\ sweep \in [Instances -> Sweep]
  /\ notices \in [Keys -> [Periods -> 0..MaxNotices]]
  /\ told \in [Keys -> SUBSET Periods]
  /\ aborted \subseteq Periods
  /\ warned \in [Keys -> Nat]

Init ==
  /\ StoreInit(Periods)
  /\ jobs = [p \in Periods |-> "NONE"]
  /\ sweep = [i \in Instances |-> Idle]
  /\ notices = [k \in Keys |-> [p \in Periods |-> 0]]
  /\ told = [k \in Keys |-> {}]
  /\ aborted = {}
  /\ warned = [k \in Keys |-> 0]

PeriodOf(i) == period_start_for(sweep[i].moment)
JobRow(i) == <<"job", PeriodOf(i)>>
Running(i) == sweep[i].stage = "running"
AccountsOf(u) == {uid \in Uids : accounts[uid].owner = u}
PolicyFor(market) == [max_warnings |-> MaxWarnings, warning_interval |-> WarningInterval,
                      grace |-> Programs[market].grace]

-----------------------------------------------------------------------------
(* One sweep. *)

\* The scheduler fires; the moment is read before the claim is attempted.
StartSweep(i) ==
  /\ sweep[i].stage = "idle"
  /\ sweep' = [sweep EXCEPT ![i].stage = "claiming", ![i].moment = now]
  /\ UNCHANGED <<storeVars, jobs, notices, told, aborted, warned>>

\* Mutant: the claim is a SELECT, with no unique key behind it.
BugClaimUnguarded(i) ==
  /\ sweep[i].stage = "claiming" /\ jobs[PeriodOf(i)] = "NONE"
  /\ sweep' = [sweep EXCEPT ![i].stage = "running", ![i].seen = members,
                            ![i].new = members,
                            ![i].todo = {k \in Keys : members[k].status \in Monitored}]
  /\ UNCHANGED <<storeVars, jobs, notices, told, aborted, warned>>

\* Mutant: a committed job row does not stand in the way of another claim.
BugClaimsAgain(i) ==
  /\ sweep[i].stage = "claiming" /\ Free(i, {JobRow(i)})
  /\ locks' = Locked(i, {JobRow(i)})
  /\ sweep' = [sweep EXCEPT ![i].stage = "running", ![i].seen = members,
                            ![i].new = members,
                            ![i].todo = {k \in Keys : members[k].status \in Monitored}]
  /\ UNCHANGED <<now, accounts, subs, members, links, held, chat,
                 jobs, notices, told, aborted, warned>>

\* claim_period inserts the row and the monitored members are loaded.  While
\* another transaction holds the key, the insert waits.
Claim(i) ==
  /\ sweep[i].stage = "claiming"
  /\ Free(i, {JobRow(i)}) /\ jobs[PeriodOf(i)] = "NONE"
  /\ locks' = Locked(i, {JobRow(i)})
  /\ sweep' = [sweep EXCEPT ![i].stage = "running", ![i].seen = members,
                            ![i].new = members,
                            ![i].todo = {k \in Keys : members[k].status \in Monitored}]
  /\ UNCHANGED <<now, accounts, subs, members, links, held, chat,
                 jobs, notices, told, aborted, warned>>

\* Mutant: an instance that finds the period taken tries again.
BugRetriesClaim(i) ==
  /\ sweep[i].stage = "claiming"
  /\ Free(i, {JobRow(i)}) /\ jobs[PeriodOf(i)] # "NONE"
  /\ UNCHANGED vars

\* The key is taken: IntegrityError, and the instance stands down.
StandDown(i) ==
  /\ sweep[i].stage = "claiming"
  /\ Free(i, {JobRow(i)}) /\ jobs[PeriodOf(i)] # "NONE"
  /\ sweep' = [sweep EXCEPT ![i] = Idle]
  /\ UNCHANGED <<storeVars, jobs, notices, told, aborted, warned>>

\* The decision _process reaches for k through the account uid.  _process takes
\* accounts[0] of an unordered list: any account of the user.
Decision(i, k, uid, check) ==
  LET market == accounts[uid].market
      reason == evaluate_referral(check, Programs[market], TRUE)
  IN  decide_compliance(sweep[i].new[k], reason, PolicyFor(market), sweep[i].moment)

\* _apply resolves channel and subscription from the account's market.
Target(k, uid) == <<k[1], accounts[uid].market>>

\* The rows _process and _apply write.
RowsWritten(i, k, uid, action) ==
  {<<"account", uid>>}
  \cup (IF action = "NONE" THEN {} ELSE {<<"member", k>>})
  \cup (IF action = "REVOKE" /\ subs[Target(k, uid)].n > 0
        THEN {<<"sub", Target(k, uid)>>} ELSE {})

CanProcess(i, k, uid, check) ==
  /\ Running(i) /\ k \in sweep[i].todo
  /\ uid \in AccountsOf(k[1])
  /\ Free(i, RowsWritten(i, k, uid, Decision(i, k, uid, check)))

\* A second snapshot of the same account breaks the unique key.
Clashes(i, uid, check) == check.answered /\ uid \in sweep[i].shots

\* Mutants: a removal forgets to lift the ban; a removal only tells the member.
BugNoUnban(action) == CASE action = "NONE"                -> <<>>
                        [] action \in {"WARN", "RESTORE"} -> <<"send">>
                        [] action = "REVOKE"              -> <<"ban", "send">>

BugOnlyTells(action) == IF action = "NONE" THEN <<>> ELSE <<"send">>

\* The Telegram calls of an action, in order.
CallsOf(action) == CASE action = "NONE"               -> <<>>
                     [] action \in {"WARN", "RESTORE"} -> <<"send">>
                     [] action = "REVOKE"             -> <<"ban", "unban", "send">>

\* Telegram after the first n of the calls took effect.
Called(i, k, target, action, n) ==
  LET done == {CallsOf(action)[j] : j \in 1..n}
  IN  /\ chat' = [chat EXCEPT ![target] =
                    IF "unban" \in done THEN "out" ELSE IF "ban" \in done THEN "banned" ELSE @]
      /\ notices' = [notices EXCEPT ![k][PeriodOf(i)] =
                        IF "send" \in done /\ @ < MaxNotices THEN @ + 1 ELSE @]
      /\ told' = [told EXCEPT ![k] =
                    IF action = "WARN" /\ "send" \in done /\ MaxNotices # 0
                    THEN @ \cup {PeriodOf(i)} ELSE @]

\* _process and _apply for one member, every call to Telegram answered.
ProcessMember(i, k, uid, check) ==
  LET action == Decision(i, k, uid, check)
      target == Target(k, uid)
      s == sweep[i]
  IN  /\ CanProcess(i, k, uid, check)
      /\ ~Clashes(i, uid, check)
      /\ Called(i, k, target, action, Len(CallsOf(action)))
      /\ locks' = Locked(i, RowsWritten(i, k, uid, action))
      /\ sweep' = [sweep EXCEPT ![i] =
           [s EXCEPT
             !.todo = s.todo \ {k},
             !.new = [s.new EXCEPT ![k] = ApplyDecision(s.new[k], action, s.moment)],
             !.ended = IF action = "REVOKE" /\ subs[target].n > 0
                       THEN s.ended \cup {target} ELSE s.ended,
             !.shots = IF check.answered THEN s.shots \cup {uid} ELSE s.shots]]
      /\ UNCHANGED <<now, accounts, subs, members, links, held,
                     jobs, aborted, warned>>

\* Mutant: the except branch forgets the rollback and the transaction stays open.
BugStaysOpen(i) ==
  /\ sweep' = [sweep EXCEPT ![i] = Idle]
  /\ aborted' = IF MaxNotices = 0 THEN {} ELSE aborted \cup {PeriodOf(i)}
  /\ UNCHANGED <<now, accounts, subs, members, links, held, locks, jobs, warned>>

\* run() marks its job row FAILED and raises; the scheduler rolls back, and the
\* mark goes with the rest.
Rollback(i) ==
  /\ sweep' = [sweep EXCEPT ![i] = Idle]
  /\ locks' = Released(i)
  /\ aborted' = IF MaxNotices = 0 THEN {} ELSE aborted \cup {PeriodOf(i)}
  /\ UNCHANGED <<now, accounts, subs, members, links, held, jobs, warned>>

\* A Telegram call raises ProviderUnavailableError after n calls took effect;
\* the last of them may be the one whose answer was lost.
TelegramFails(i, k, uid, check) ==
  LET action == Decision(i, k, uid, check)
  IN  /\ CanProcess(i, k, uid, check) /\ ~Clashes(i, uid, check)
      /\ action # "NONE"
      /\ \E n \in 0..Len(CallsOf(action)) : Called(i, k, Target(k, uid), action, n)
      /\ Rollback(i)

\* The snapshot's INSERT fails at the next flush, before any Telegram call.
SnapshotClash(i, k, uid, check) ==
  /\ CanProcess(i, k, uid, check) /\ Clashes(i, uid, check)
  /\ Rollback(i) /\ UNCHANGED <<chat, notices, told>>

\* The process dies, or loses its connection.
Crash(i) ==
  /\ Running(i)
  /\ Rollback(i) /\ UNCHANGED <<chat, notices, told>>

\* Every member left is held by another sweep.
Blocked(i) ==
  /\ Running(i) /\ sweep[i].todo # {}
  /\ ~\E k \in Keys, uid \in Uids, check \in Checks : CanProcess(i, k, uid, check)

\* PostgreSQL breaks a cycle of waiting transactions by failing one of them.
DeadlockVictim(i) ==
  /\ Blocked(i) /\ \A j \in Instances : Running(j) => Blocked(j)
  /\ Rollback(i) /\ UNCHANGED <<chat, notices, told>>

\* finish, and the scheduler's commit.
FinishSweep(i) ==
  LET s == sweep[i]
  IN  /\ Running(i) /\ s.todo = {}
      /\ members' = [k \in Keys |-> Merge(members[k], s.seen[k], s.new[k])]
      /\ subs' = [k \in Keys |->
           IF k \in s.ended THEN [subs[k] EXCEPT !.status = "EXPIRED"] ELSE subs[k]]
      /\ jobs' = [jobs EXCEPT ![PeriodOf(i)] = "SUCCEEDED"]
      /\ locks' = Released(i)
      /\ sweep' = [sweep EXCEPT ![i] = Idle]
      /\ warned' = [k \in Keys |->
           IF s.new[k].warnings > s.seen[k].warnings THEN warned[k] + 1
           ELSE IF s.new[k].warnings < s.seen[k].warnings THEN 0 ELSE warned[k]]
      /\ UNCHANGED <<now, accounts, links, held, chat, notices, told, aborted>>

-----------------------------------------------------------------------------
(* The rest of the system, and the world. *)

\* submit_uid of user u for a market, from the first read to the reply, when it
\* need not wait for a row it writes.  (A reply that is lost is a link nobody
\* follows.)
Enrol(u, market, uid, check) ==
  LET k == <<u, market>>
      reason == evaluate_referral(check, Programs[market], FALSE)
      row == EnsuredMember(members[k], now)
      rows == {<<"account", uid>>}
              \cup (IF LiveLink(row, now) /\ subs[k].n > 0 THEN {} ELSE {<<"member", k>>})
              \cup (IF subs[k].status = "ACTIVE" THEN {} ELSE {<<"sub", k>>})
  IN  /\ accounts[uid].owner \in {NoOne, u}
      /\ \A r \in IF reason = "ELIGIBLE" THEN rows ELSE {<<"account", uid>>} :
           locks[r] = NoOne
      /\ accounts' = [accounts EXCEPT ![uid] = CheckedAccount(@, u, market, reason)]
      /\ IF reason # "ELIGIBLE"
         THEN UNCHANGED <<subs, members, links, held, warned>>
         ELSE /\ subs' = [subs EXCEPT ![k] = EnsuredSub(@)]
              /\ IF LiveLink(row, now)
                 THEN members' = [members EXCEPT ![k] = row] /\ UNCHANGED links
                 ELSE /\ Mint(k, now)
                      /\ members' = [members EXCEPT ![k] =
                                       IssuedMember(row, Len(links) + 1, now)]
              /\ held' = held \cup {members'[k].link}
              /\ IF row.status = "PENDING"
                 THEN warned' = [warned EXCEPT ![k] = 0]
                 ELSE UNCHANGED warned
      /\ UNCHANGED <<now, chat, locks, jobs, sweep, notices, told, aborted>>

JoinChannel == \E k \in Keys, l \in 1..Len(links) : Join(k, l) /\ UNCHANGED monitorVars

DayPasses == Tick /\ UNCHANGED monitorVars

Advance(i) ==
  \/ Claim(i) \/ StandDown(i) \/ DeadlockVictim(i) \/ FinishSweep(i)
  \/ \E k \in Keys, uid \in Uids, check \in Checks :
       \/ ProcessMember(i, k, uid, check)
       \/ SnapshotClash(i, k, uid, check)

Next ==
  \/ \E i \in Instances :
       \/ StartSweep(i) \/ Advance(i) \/ Crash(i)
       \/ \E k \in Keys, uid \in Uids, check \in Checks : TelegramFails(i, k, uid, check)
  \/ \E u \in Users, m \in Markets, uid \in Uids, check \in Checks :
       Enrol(u, m, uid, check)
  \/ JoinChannel
  \/ DayPasses

Spec == Init /\ [][Next]_vars

\* A sweep under way is carried on: every call it awaits returns or times out
\* (httpx), and PostgreSQL serves the transactions waiting for a lock in turn
\* and breaks deadlocks, so a sweep that can move again and again does move.
\* Nothing makes the scheduler fire, a call fail or a process crash.
FairSpec == Spec /\ \A i \in Instances : SF_vars(Advance(i))

-----------------------------------------------------------------------------
(* Properties. *)

\* period_lock.py, "exactly once across every instance": at most one sweep works
\* on a period, and none works on a period that is done.
ClaimIsExclusive ==
  \A i \in Instances : Running(i) =>
    /\ jobs[PeriodOf(i)] = "NONE"
    /\ \A j \in Instances \ {i} : Running(j) => PeriodOf(j) # PeriodOf(i)

\* What makes the claim exclusive: a sweep that works on a period holds the key
\* of its job row, and no job row of the period is committed.
HoldsClaim ==
  \A i \in Instances : Running(i) =>
    locks[JobRow(i)] = i /\ jobs[PeriodOf(i)] = "NONE"

\* The inductive invariant behind ClaimIsExclusive.
ClaimInv == TypeOK /\ HoldsClaim

\* PHASE0 section 32 as far as it holds: when no sweep of a period had to be
\* rolled back, the period brings each member at most one message.
CleanPeriodOneNotice ==
  \A k \in Keys, p \in Periods \ aborted : notices[k][p] <= 1

\* period_lock.py:12, "must not send duplicate messages".
OneNoticePerPeriod == \A k \in Keys, p \in Periods : notices[k][p] <= 1

\* compliance.py:14, warnings are counted: the row's count is the number of
\* warnings committed since the member was admitted or recovered.
WarningsCounted == \A k \in Keys : members[k].warnings = warned[k]

\* _apply lifts its own ban: whoever is recorded as removed is not banned, so a
\* later invite link works.
RevokedMayReturn ==
  \A k \in Keys : members[k].status = "REVOKED" => chat[k] # "banned"

\* membership.py:147, "a removal names the channel it removes from": on the day
\* of the removal the member is out of the channel of the row that says so,
\* unless they let themselves in again with a link still open.
RevokedIsOut ==
  \A k \in Keys : members[k].status = "REVOKED" =>
    \/ chat[k] # "in"
    \/ \E l \in held : links[l].key = k /\ links[l].used
                       /\ links[l].expires > members[k].revokedAt

\* enums.py:42, "an EXPIRED entitlement leaves a REVOKED membership": the right
\* to access and the Telegram side agree whenever both are committed.
EntitlementMatches ==
  \A k \in Keys :
    /\ members[k].status = "REVOKED" => subs[k].status = "EXPIRED"
    /\ members[k].status = "INVITED" => subs[k].n = 1 /\ subs[k].status = "ACTIVE"

\* compliance.py:14, "warnings are spaced, counted, and capped": nobody is
\* removed who was not sent warnings in as many different periods as the policy
\* demands, although overlapping sweeps count from the same stale row, overwrite
\* each other's count and are rolled back after their messages went out.  (Of all
\* the member's spells together, when a history of messages is kept.)
WarnedBeforeRemoval ==
  \A k \in Keys : members[k].status = "REVOKED" => Cardinality(told[k]) >= MaxWarnings

\* A sweep that fired ends, whatever the other instances do.
SweepsEnd == \A i \in Instances : sweep[i].stage # "idle" ~> sweep[i].stage = "idle"

\* Each membership follows the course MembershipCourse promises.
Course(k) == INSTANCE MembershipCourse
  WITH Grace <- Programs[k[2]].grace, Links <- 1..MaxLinks,
       row <- [f \in DOMAIN members[k] \ {"issuedAt"} |-> members[k][f]]

FollowsCourse ==
  /\ \A k \in Keys : Course(k)!Init
  /\ [][\A k \in Keys : [Course(k)!Next]_(Course(k)!vars)]_vars
=============================================================================
