------------------------ MODULE MonitorRecords_proofs ------------------------
(***************************************************************************)
(* What the sweeps leave on record, for any number of users, accounts and  *)
(* periods.  With any number of instances: a period that was not rolled    *)
(* back brings one message, and nobody is removed without the warnings.    *)
(* With one instance: the warnings on the row are the warnings committed,  *)
(* and each membership follows the course MembershipCourse promises.  If,  *)
(* besides, nobody's account belongs to another market than the            *)
(* membership: a removed member is out, may return and has no entitlement  *)
(* left.                                                                   *)
(***************************************************************************)
EXTENDS MembershipMonitor_proofs, FiniteSetTheorems

-----------------------------------------------------------------------------
(* The invariants. *)

\* A message of a period that saw no rollback was sent by the sweep that is
\* working on it, and has dealt with the member, or by the one that is done.
NoticeInv ==
  /\ ClaimInv
  /\ \A k \in Keys, p \in Periods \ aborted :
       /\ notices[k][p] <= 1
       /\ notices[k][p] # 0 =>
            \/ jobs[p] = "SUCCEEDED"
            \/ \E i \in Instances : Running(i) /\ PeriodOf(i) = p /\ k \notin sweep[i].todo

\* The periods that are done and in which the member was sent a warning.
Warnings(k) == {p \in told[k] : jobs[p] = "SUCCEEDED"}

\* No row, committed, loaded or about to be written, shows a removal that was not
\* preceded by the warnings, ...
Deserved(k, m) == m.status = "REVOKED" => Cardinality(told[k]) >= MaxWarnings

\* ... or counts more warnings than were sent in periods done; the one a sweep
\* adds was sent in its own period, which is not done yet.
Counted(i, k) ==
  LET s == sweep[i].seen[k]
      n == sweep[i].new[k]
  IN  /\ Deserved(k, s) /\ Deserved(k, n)
      /\ s.warnings <= Cardinality(Warnings(k))
      /\ n.warnings <= s.warnings \/ (n.warnings = s.warnings + 1 /\ PeriodOf(i) \in told[k])
      /\ k \in sweep[i].todo => n = s

WarningInv ==
  /\ ClaimInv
  /\ \A k \in Keys : /\ Deserved(k, members[k])
                     /\ members[k].warnings <= Cardinality(Warnings(k))
  /\ \A i \in Instances : Running(i) => \A k \in Keys : Counted(i, k)

\* Hypotheses of the theorems below.
OneInstance == \A i, j \in Instances : i = j
OwnMarket == \A k \in Keys, x \in Uids :
  members[k].status # "ABSENT" /\ accounts[x].owner = k[1] => accounts[x].market = k[2]
OneGrace == \A m, n \in Markets : Programs[m].grace = Programs[n].grace

\* The rows this code leaves behind.
RowShape(m) ==
  /\ m.status \in {"ABSENT", "INVITED", "REVOKED"}
  /\ m.status = "ABSENT" => m = AbsentRow
  /\ m.status = "INVITED" => m.link # NoLink /\ m.revokedAt = NoTime

\* What a running sweep may rely on for one member: an invited member it loaded
\* has at most got a new link since, and the row it will write is one decision
\* away from the row it loaded, none for the members still to be dealt with.
Pending(i, k) ==
  LET s == sweep[i].seen[k]
      n == sweep[i].new[k]
      t == sweep[i].moment
  IN  /\ RowShape(s)
      /\ s.status = "INVITED" => Settled(members[k], s)
      /\ k \in sweep[i].todo => s.status = "INVITED" /\ n = s
      /\ \E reason \in Reasons, market \in Markets :
           n = ApplyDecision(s, decide_compliance(s, reason, PolicyFor(market), t), t)

RecordInv ==
  /\ TypeOK
  /\ \A k \in Keys : RowShape(members[k]) /\ members[k].warnings = warned[k]
  /\ \A i \in Instances :
       sweep[i].moment <= now /\ (Running(i) => \A k \in Keys : Pending(i, k))

\* Telegram's side of a removal that was made on day t.
IsOut(k, t) ==
  /\ chat[k] # "banned"
  /\ \/ chat[k] # "in"
     \/ \E l \in held :
          /\ l \in 1..Len(links)
          /\ links[l].key = k /\ links[l].used /\ links[l].expires > t

\* A sweep has a removal of k to commit.
Removing(i, k) == sweep[i].seen[k].status = "INVITED" /\ sweep[i].new[k].status = "REVOKED"

\* Entitlement and standing go with the row of the member.
Agrees(k) ==
  /\ subs[k].n \in {0, 1}
  /\ members[k].status = "INVITED" => subs[k] = [n |-> 1, status |-> "ACTIVE"]
  /\ members[k].status = "REVOKED" =>
       /\ subs[k].status = "EXPIRED" /\ members[k].revokedAt <= now
       /\ IsOut(k, members[k].revokedAt)

\* A running sweep is about to end the subscriptions of those it removed.
EndsOf(i) ==
  IF Running(i)
  THEN \A k \in Keys : /\ k \in sweep[i].ended <=> Removing(i, k)
                       /\ Removing(i, k) => IsOut(k, sweep[i].moment)
  ELSE sweep[i].ended = {}

RemovalInv ==
  /\ RecordInv
  /\ \A k \in Keys : Agrees(k)
  /\ \A i \in Instances : EndsOf(i)

-----------------------------------------------------------------------------
(* Steps. *)

\* A sweep is rolled back, perhaps in the middle of its calls for a member.
Fails(i) ==
  /\ Running(i) /\ Rollback(i)
  /\ \/ UNCHANGED <<chat, notices, told>>
     \/ \E k \in Keys, uid \in Uids, check \in Checks :
          LET action == Decision(i, k, uid, check)
          IN  /\ k \in sweep[i].todo /\ uid \in AccountsOf(k[1])
              /\ \E n \in 0..Len(CallsOf(action)) : Called(i, k, Target(k, uid), action, n)

\* A sweep ends without a commit.
Ends(i) == StandDown(i) \/ Fails(i)

\* What is left of Next when the ways to fail are taken together.
LEMMA StepKinds ==
  ASSUME [Next]_vars
  PROVE  \/ \E i \in Instances : StartSweep(i) \/ Claim(i) \/ Ends(i) \/ FinishSweep(i)
         \/ \E i \in Instances, k \in Keys, uid \in Uids, check \in Checks :
              ProcessMember(i, k, uid, check)
         \/ \E u \in Users, m \in Markets, uid \in Uids, check \in Checks :
              Enrol(u, m, uid, check)
         \/ JoinChannel \/ DayPasses \/ UNCHANGED vars
  <1>1. ASSUME NEW i \in Instances, Crash(i) \/ DeadlockVictim(i) PROVE Ends(i)
    BY <1>1 DEF Crash, DeadlockVictim, Blocked, Fails, Ends
  <1>2. ASSUME NEW i \in Instances, NEW k \in Keys, NEW uid \in Uids, NEW check \in Checks,
               SnapshotClash(i, k, uid, check) \/ TelegramFails(i, k, uid, check)
        PROVE  Ends(i)
    BY <1>2 DEF SnapshotClash, TelegramFails, CanProcess, Fails, Ends
  <1>3. ASSUME NEW i \in Instances, StandDown(i) PROVE Ends(i)
    BY <1>3 DEF Ends
  <1> QED
    BY <1>1, <1>2, <1>3 DEF Next, Advance

\* A sweep that ends without a commit leaves the rows as they were.
LEMMA EndsKeeps ==
  ASSUME TypeOK, NEW i \in Instances, Ends(i)
  PROVE  /\ sweep' = [sweep EXCEPT ![i] = Idle] /\ sweep'[i] = Idle
         /\ \A j \in Instances \ {i} : sweep'[j] = sweep[j]
         /\ UNCHANGED <<now, accounts, subs, members, links, held, jobs, warned>>
  <1>1. sweep \in [Instances -> Sweep]
    BY DEF TypeOK
  <1> QED
    BY <1>1 DEF Ends, Fails, StandDown, Rollback, storeVars

\* What working on one member does to the sweep.
LEMMA ProcessEffect ==
  ASSUME TypeOK, NEW i \in Instances, NEW k \in Keys, NEW uid \in Uids, NEW check \in Checks,
         ProcessMember(i, k, uid, check)
  PROVE  LET s == sweep[i]
             action == Decision(i, k, uid, check)
         IN  /\ s.stage = "running" /\ k \in s.todo /\ accounts[uid].owner = k[1]
             /\ sweep'[i].stage = "running" /\ sweep'[i].moment = s.moment
             /\ sweep'[i].todo = s.todo \ {k} /\ sweep'[i].seen = s.seen
             /\ sweep'[i].new = [s.new EXCEPT ![k] = ApplyDecision(s.new[k], action, s.moment)]
             /\ sweep'[i].ended = IF action = "REVOKE" /\ subs[Target(k, uid)].n > 0
                                  THEN s.ended \cup {Target(k, uid)} ELSE s.ended
             /\ \A j \in Instances \ {i} : sweep'[j] = sweep[j]
             /\ UNCHANGED <<now, accounts, subs, members, links, held, jobs, aborted, warned>>
  <1> DEFINE action == Decision(i, k, uid, check)
             target == Target(k, uid)
             s == sweep[i]
             ended == IF action = "REVOKE" /\ subs[target].n > 0
                      THEN s.ended \cup {target} ELSE s.ended
             shots == IF check.answered THEN s.shots \cup {uid} ELSE s.shots
             new == [s.new EXCEPT ![k] = ApplyDecision(s.new[k], action, s.moment)]
  <1>1. s \in Sweep /\ sweep \in [Instances -> Sweep]
    BY DEF TypeOK
  <1>2. /\ sweep' = [sweep EXCEPT ![i] =
           [s EXCEPT !.todo = s.todo \ {k}, !.new = new, !.ended = ended, !.shots = shots]]
        /\ UNCHANGED <<now, accounts, subs, members, links, held, jobs, aborted, warned>>
    BY DEF ProcessMember
  <1>3. s.stage = "running" /\ k \in s.todo /\ accounts[uid].owner = k[1]
    BY DEF ProcessMember, CanProcess, Running, AccountsOf
  <1> HIDE DEF new, ended, shots
  <1>4. /\ sweep'[i].stage = s.stage /\ sweep'[i].moment = s.moment
        /\ sweep'[i].todo = s.todo \ {k} /\ sweep'[i].seen = s.seen
        /\ sweep'[i].new = new /\ sweep'[i].ended = ended
        /\ \A j \in Instances \ {i} : sweep'[j] = sweep[j]
    BY <1>1, <1>2 DEF Sweep
  <1> QED
    BY <1>2, <1>3, <1>4 DEF new, ended

\* What a claim does to the sweep.
LEMMA ClaimEffect ==
  ASSUME TypeOK, NEW i \in Instances, Claim(i)
  PROVE  /\ sweep[i].stage = "claiming"
         /\ sweep'[i].stage = "running" /\ sweep'[i].moment = sweep[i].moment
         /\ sweep'[i].seen = members /\ sweep'[i].new = members
         /\ sweep'[i].todo = {k \in Keys : members[k].status \in Monitored}
         /\ sweep'[i].ended = sweep[i].ended
         /\ \A j \in Instances \ {i} : sweep'[j] = sweep[j]
         /\ UNCHANGED <<now, accounts, subs, members, links, held, chat,
                        jobs, notices, told, aborted, warned>>
  <1>1. sweep[i] \in Sweep /\ sweep \in [Instances -> Sweep]
    BY DEF TypeOK
  <1> QED
    BY <1>1 DEF Claim, Sweep

\* What a firing scheduler does to the sweep.
LEMMA StartEffect ==
  ASSUME TypeOK, NEW i \in Instances, StartSweep(i)
  PROVE  /\ sweep[i].stage = "idle" /\ sweep'[i].stage = "claiming"
         /\ sweep'[i].moment = now
         /\ sweep'[i].todo = sweep[i].todo /\ sweep'[i].new = sweep[i].new
         /\ sweep'[i].ended = sweep[i].ended
         /\ \A j \in Instances \ {i} : sweep'[j] = sweep[j]
         /\ UNCHANGED <<storeVars, jobs, notices, told, aborted, warned>>
  <1>1. sweep[i] \in Sweep /\ sweep \in [Instances -> Sweep]
    BY DEF TypeOK
  <1> QED
    BY <1>1 DEF StartSweep, Sweep

\* Onboarding touches one membership.
LEMMA EnrolOthers ==
  ASSUME TypeOK, NEW u \in Users, NEW market \in Markets, NEW uid \in Uids,
         NEW check \in Checks, Enrol(u, market, uid, check)
  PROVE  /\ \A j \in Keys \ {<<u, market>>} :
              members'[j] = members[j] /\ subs'[j] = subs[j] /\ warned'[j] = warned[j]
         /\ held \subseteq held'
         /\ UNCHANGED <<now, chat, locks, jobs, sweep, notices, told, aborted>>
  <1> DEFINE k == <<u, market>>
             reason == evaluate_referral(check, Programs[market], FALSE)
             row == EnsuredMember(members[k], now)
  <1>0. /\ k \in Keys /\ members \in [Keys -> MemberRow] /\ subs \in [Keys -> SubRow]
        /\ warned \in [Keys -> Nat]
    BY DEF TypeOK, StoreTypeOK, Keys
  <1>1. UNCHANGED <<now, chat, locks, jobs, sweep, notices, told, aborted>>
    BY DEF Enrol
  <1>2. CASE reason # "ELIGIBLE"
    <2>1. UNCHANGED <<subs, members, held, warned>>
      BY <1>2 DEF Enrol
    <2> QED
      BY <1>1, <2>1
  <1>3. CASE reason = "ELIGIBLE"
    <2>1. /\ subs' = [subs EXCEPT ![k] = EnsuredSub(subs[k])]
          /\ held' = held \cup {members'[k].link}
      BY <1>3 DEF Enrol
    <2>2. \/ members' = [members EXCEPT ![k] = row]
          \/ members' = [members EXCEPT ![k] = IssuedMember(row, Len(links) + 1, now)]
      BY <1>3 DEF Enrol
    <2>3. warned' = warned \/ warned' = [warned EXCEPT ![k] = 0]
      BY <1>3 DEF Enrol
    <2> HIDE DEF row, k
    <2>4. \A j \in Keys \ {k} :
            members'[j] = members[j] /\ subs'[j] = subs[j] /\ warned'[j] = warned[j]
      BY <1>0, <2>1, <2>2, <2>3
    <2> QED
      BY <1>1, <2>1, <2>4 DEF k
  <1> QED
    BY <1>2, <1>3

\* The one membership stays as it is or gets a new link, its warnings are counted
\* from the admission on, and its subscription is made good.
LEMMA EnrolRow ==
  ASSUME TypeOK, NEW u \in Users, NEW market \in Markets, NEW uid \in Uids,
         NEW check \in Checks, Enrol(u, market, uid, check),
         NEW k \in Keys, k = <<u, market>>, NEW row, row = EnsuredMember(members[k], now)
  PROVE  \/ /\ UNCHANGED <<members, links, warned>>
            /\ \/ subs'[k] = subs[k]
               \/ members[k].status = row.status /\ row.status \in {"INVITED", "ACTIVE"}
                  /\ subs'[k] = EnsuredSub(subs[k])
         \/ /\ Mint(k, now)
            /\ members'[k] = IssuedMember(row, Len(links) + 1, now)
            /\ warned'[k] = IF row.status = "PENDING" THEN 0 ELSE warned[k]
            /\ subs'[k] = EnsuredSub(subs[k])
  <1> DEFINE reason == evaluate_referral(check, Programs[market], FALSE)
  <1>0. /\ members \in [Keys -> MemberRow] /\ subs \in [Keys -> SubRow]
        /\ warned \in [Keys -> Nat] /\ members[k] \in MemberRow
    BY DEF TypeOK, StoreTypeOK
  <1>1. CASE reason # "ELIGIBLE"
    <2>1. UNCHANGED <<subs, members, links, warned>>
      BY <1>1 DEF Enrol
    <2> QED
      BY <2>1
  <1>2. CASE reason = "ELIGIBLE"
    <2>1. /\ subs' = [subs EXCEPT ![k] = EnsuredSub(subs[k])]
          /\ warned' = IF row.status = "PENDING" THEN [warned EXCEPT ![k] = 0] ELSE warned
      BY <1>2 DEF Enrol
    <2>2. CASE LiveLink(row, now)
      <3>1. members' = [members EXCEPT ![k] = row] /\ links' = links
        BY <1>2, <2>2 DEF Enrol
      <3>2. row.status \in {"INVITED", "ACTIVE"}
        BY <2>2 DEF LiveLink
      <3>3. row = members[k]
        BY <1>0, <3>2 DEF EnsuredMember, MemberRow
      <3> QED
        BY <1>0, <2>1, <3>1, <3>2, <3>3
    <2>3. CASE ~LiveLink(row, now)
      <3>1. /\ members' = [members EXCEPT ![k] = IssuedMember(row, Len(links) + 1, now)]
            /\ Mint(k, now)
        BY <1>2, <2>3 DEF Enrol
      <3> QED
        BY <1>0, <2>1, <3>1
    <2> QED
      BY <2>2, <2>3
  <1> QED
    BY <1>1, <1>2

-----------------------------------------------------------------------------
(* One message in a clean period. *)

\* The calls made for a member add at most one message, to that member.
LEMMA CalledNotices ==
  ASSUME TypeOK, NEW i \in Instances, NEW k \in Keys, NEW target, NEW action, NEW n,
         Called(i, k, target, action, n), NEW j \in Keys, NEW p \in Periods
  PROVE  IF j = k /\ p = PeriodOf(i)
         THEN notices'[j][p] \in {notices[j][p], notices[j][p] + 1}
         ELSE notices'[j][p] = notices[j][p]
  <1> DEFINE at == PeriodOf(i)
             count == IF "send" \in {CallsOf(action)[h] : h \in 1..n} /\ notices[k][at] < MaxNotices
                      THEN notices[k][at] + 1 ELSE notices[k][at]
  <1>1. /\ at \in Periods /\ notices \in [Keys -> [Periods -> 0..MaxNotices]]
    BY PeriodType DEF TypeOK
  <1>2. notices' = [notices EXCEPT ![k] = [notices[k] EXCEPT ![at] = count]]
    BY DEF Called
  <1>3. count \in {notices[k][at], notices[k][at] + 1}
    OBVIOUS
  <1> HIDE DEF count, at
  <1>4. IF j = k /\ p = at THEN notices'[j][p] = count ELSE notices'[j][p] = notices[j][p]
    BY <1>1, <1>2
  <1> QED
    BY <1>3, <1>4 DEF at

\* A sweep that does not move goes on vouching for the messages it sent.
LEMMA VouchFrame ==
  ASSUME NEW k \in Keys, NEW p, NEW j \in Instances, Running(j), PeriodOf(j) = p,
         k \notin sweep[j].todo, sweep'[j] = sweep[j]
  PROVE  \E i \in Instances : Running(i)' /\ PeriodOf(i)' = p /\ k \notin sweep'[i].todo
  BY DEF Running, PeriodOf

\* One step.
LEMMA NoticeStep ==
  ASSUME NoticeInv, [Next]_vars
  PROVE  NoticeInv'
  <1>0. ClaimInv /\ ClaimInv' /\ TypeOK /\ TypeOK' /\ HoldsClaim
    BY NextClaim DEF NoticeInv, ClaimInv
  <1> DEFINE Vouched(k, p) ==
               /\ notices[k][p] <= 1
               /\ notices[k][p] # 0 =>
                    \/ jobs[p] = "SUCCEEDED"
                    \/ \E i \in Instances : Running(i) /\ PeriodOf(i) = p /\ k \notin sweep[i].todo
  <1> SUFFICES ASSUME NEW k \in Keys, NEW p \in Periods, p \notin aborted'
               PROVE  Vouched(k, p)'
    BY <1>0 DEF NoticeInv
  <1>1. CASE MaxNotices = 0
    <2>1. notices'[k][p] \in 0..MaxNotices
      BY <1>0 DEF TypeOK
    <2> QED
      BY <1>1, <2>1
  <1>2. CASE MaxNotices # 0
    <2>1. ASSUME NEW i \in Instances, StartSweep(i) \/ Claim(i) \/ StandDown(i)
          PROVE  Vouched(k, p)'
      <3>1. /\ sweep[i].stage # "running" /\ \A j \in Instances \ {i} : sweep'[j] = sweep[j]
            /\ UNCHANGED <<notices, jobs, aborted>>
        <4>1. CASE StartSweep(i)
          BY <1>0, <4>1, StartEffect
        <4>2. CASE Claim(i)
          BY <1>0, <4>2, ClaimEffect
        <4>3. CASE StandDown(i)
          BY <1>0, <4>3 DEF StandDown, TypeOK
        <4> QED
          BY <2>1, <4>1, <4>2, <4>3
      <3>2. Vouched(k, p)
        BY <3>1 DEF NoticeInv
      <3>3. ASSUME NEW j \in Instances, Running(j), PeriodOf(j) = p, k \notin sweep[j].todo
            PROVE  \E h \in Instances : Running(h)' /\ PeriodOf(h)' = p /\ k \notin sweep'[h].todo
        BY <3>1, <3>3, VouchFrame DEF Running
      <3> QED
        BY <3>1, <3>2, <3>3
    <2>2. ASSUME NEW i \in Instances, Fails(i) PROVE Vouched(k, p)'
      <3>1. /\ aborted' = aborted \cup {PeriodOf(i)} /\ jobs' = jobs
            /\ \A j \in Instances \ {i} : sweep'[j] = sweep[j]
        BY <1>0, <1>2, <2>2 DEF Fails, Rollback, TypeOK
      <3>2. p # PeriodOf(i) /\ Vouched(k, p)
        BY <3>1 DEF NoticeInv
      <3>3. notices'[k][p] = notices[k][p]
        BY <1>0, <2>2, <3>2, CalledNotices DEF Fails
      <3>4. ASSUME NEW j \in Instances, Running(j), PeriodOf(j) = p, k \notin sweep[j].todo
            PROVE  \E h \in Instances : Running(h)' /\ PeriodOf(h)' = p /\ k \notin sweep'[h].todo
        BY <3>1, <3>2, <3>4, VouchFrame
      <3> QED
        BY <3>1, <3>2, <3>3, <3>4
    <2>3. ASSUME NEW i \in Instances, FinishSweep(i) PROVE Vouched(k, p)'
      <3>1. /\ jobs' = [jobs EXCEPT ![PeriodOf(i)] = "SUCCEEDED"]
            /\ UNCHANGED <<notices, aborted>>
            /\ \A j \in Instances \ {i} : sweep'[j] = sweep[j]
            /\ jobs \in [Periods -> {"NONE", "SUCCEEDED"}]
        BY <1>0, <2>3 DEF FinishSweep, TypeOK
      <3>2. Vouched(k, p)
        BY <3>1 DEF NoticeInv
      <3>3. CASE p = PeriodOf(i)
        BY <3>1, <3>2, <3>3
      <3>4. CASE p # PeriodOf(i)
        <4>1. ASSUME NEW j \in Instances, Running(j), PeriodOf(j) = p, k \notin sweep[j].todo
              PROVE  \E h \in Instances : Running(h)' /\ PeriodOf(h)' = p /\ k \notin sweep'[h].todo
          BY <3>1, <3>4, <4>1, VouchFrame
        <4> QED
          BY <3>1, <3>2, <3>4, <4>1
      <3> QED
        BY <3>3, <3>4
    <2>4. ASSUME NEW i \in Instances, NEW m \in Keys, NEW uid \in Uids, NEW check \in Checks,
                 ProcessMember(i, m, uid, check)
          PROVE  Vouched(k, p)'
      <3>1. /\ Running(i) /\ m \in sweep[i].todo /\ Running(i)' /\ PeriodOf(i)' = PeriodOf(i)
            /\ sweep'[i].todo = sweep[i].todo \ {m}
            /\ \A j \in Instances \ {i} : sweep'[j] = sweep[j]
            /\ UNCHANGED <<jobs, aborted>>
        BY <1>0, <2>4, ProcessEffect DEF Running, PeriodOf
      <3>2. Vouched(k, p)
        BY <3>1 DEF NoticeInv
      <3>3. IF k = m /\ p = PeriodOf(i)
            THEN notices'[k][p] \in {notices[k][p], notices[k][p] + 1}
            ELSE notices'[k][p] = notices[k][p]
        BY <1>0, <2>4, CalledNotices DEF ProcessMember
      <3>4. CASE k = m /\ p = PeriodOf(i)
        <4>1. jobs[p] = "NONE" /\ \A j \in Instances : Running(j) /\ PeriodOf(j) = p => j = i
          BY <1>0, <3>1, <3>4, ClaimsDiffer DEF HoldsClaim
        <4>2. notices[k][p] = 0
          BY <3>1, <3>2, <3>4, <4>1
        <4> QED
          BY <3>1, <3>3, <3>4, <4>2
      <3>5. CASE ~(k = m /\ p = PeriodOf(i))
        <4>1. ASSUME NEW j \in Instances, Running(j), PeriodOf(j) = p, k \notin sweep[j].todo
              PROVE  \E h \in Instances : Running(h)' /\ PeriodOf(h)' = p /\ k \notin sweep'[h].todo
          <5>1. CASE j = i
            BY <3>1, <4>1, <5>1
          <5>2. CASE j # i
            BY <3>1, <4>1, <5>2, VouchFrame
          <5> QED
            BY <5>1, <5>2
        <4> QED
          BY <3>1, <3>2, <3>3, <3>5, <4>1
      <3> QED
        BY <3>4, <3>5
    <2>5. ASSUME UNCHANGED <<sweep, jobs, notices, aborted>> PROVE Vouched(k, p)'
      BY <2>5 DEF NoticeInv, Running, PeriodOf
    <2>6. CASE JoinChannel \/ DayPasses \/ UNCHANGED vars
      BY <2>5, <2>6 DEF JoinChannel, DayPasses, vars, monitorVars
    <2>7. ASSUME NEW u \in Users, NEW m \in Markets, NEW uid \in Uids, NEW check \in Checks,
                 Enrol(u, m, uid, check)
          PROVE  Vouched(k, p)'
      <3>1. UNCHANGED <<sweep, jobs, notices, aborted>>
        BY <2>7 DEF Enrol
      <3> QED
        BY <2>5, <3>1
    <2> QED
      BY <2>1, <2>2, <2>3, <2>4, <2>6, <2>7, StepKinds DEF Ends
  <1> QED
    BY <1>1, <1>2

\* PHASE0 section 32 as far as it holds, for any number of instances: a period of
\* which no sweep was rolled back brings each member at most one message.
THEOREM OneMessage == Spec => []CleanPeriodOneNotice
  <1>1. Init => NoticeInv
    <2> SUFFICES ASSUME Init PROVE NoticeInv
      OBVIOUS
    <2>1. ClaimInv
      BY InitType DEF Init, ClaimInv, HoldsClaim, Running, Idle
    <2> QED
      BY <2>1 DEF Init, NoticeInv
  <1>2. NoticeInv /\ [Next]_vars => NoticeInv'
    BY NoticeStep
  <1>3. NoticeInv => CleanPeriodOneNotice
    BY DEF NoticeInv, CleanPeriodOneNotice
  <1> QED
    BY <1>1, <1>2, <1>3, PTL DEF Spec

-----------------------------------------------------------------------------
(* Nobody is removed without the warnings. *)

\* There are finitely many periods.
LEMMA PeriodsFinite == IsFiniteSet(Periods)
  <1> DEFINE f == [d \in Day |-> period_start_for(d)]
  <1>1. IsFiniteSet(Day)
    BY FS_Interval, StoreAssumption DEF Day
  <1>2. f \in Surjection(Day, Periods)
    BY DEF Surjection, Periods
  <1> QED
    BY <1>1, <1>2, FS_Surjection

\* The periods counted for a member are finitely many, and when there are more of
\* them there are at least as many.
LEMMA CountsGrow ==
  ASSUME TypeOK, TypeOK', NEW k \in Keys, told[k] \subseteq told'[k],
         \A p \in Periods : jobs[p] = "SUCCEEDED" => jobs'[p] = "SUCCEEDED"
  PROVE  /\ IsFiniteSet(Warnings(k)) /\ Cardinality(Warnings(k)) \in Nat
         /\ Cardinality(told[k]) \in Nat /\ Cardinality(told'[k]) \in Nat
         /\ Cardinality(Warnings(k)') \in Nat
         /\ Cardinality(Warnings(k)) <= Cardinality(told[k])
         /\ Cardinality(Warnings(k)) <= Cardinality(Warnings(k)')
         /\ Cardinality(told[k]) <= Cardinality(told'[k])
  <1>1. told[k] \subseteq Periods /\ told'[k] \subseteq Periods
    BY DEF TypeOK
  <1>2. IsFiniteSet(told[k]) /\ IsFiniteSet(told'[k])
    BY <1>1, PeriodsFinite, FS_Subset
  <1>3. Warnings(k) \subseteq told[k] /\ Warnings(k)' \subseteq told'[k]
    BY DEF Warnings
  <1>4. IsFiniteSet(Warnings(k)) /\ IsFiniteSet(Warnings(k)')
    BY <1>2, <1>3, FS_Subset
  <1>5. Warnings(k) \subseteq Warnings(k)'
    BY <1>1 DEF Warnings
  <1>6. /\ Cardinality(Warnings(k)) \in Nat /\ Cardinality(told[k]) \in Nat
        /\ Cardinality(told'[k]) \in Nat /\ Cardinality(Warnings(k)') \in Nat
    BY <1>2, <1>4, FS_CardinalityType
  <1>7. Cardinality(Warnings(k)) <= Cardinality(told[k])
    BY <1>2, <1>3, FS_Subset
  <1>8. Cardinality(Warnings(k)) <= Cardinality(Warnings(k)')
    BY <1>4, <1>5, FS_Subset
  <1>9. Cardinality(told[k]) <= Cardinality(told'[k])
    BY <1>2, FS_Subset
  <1> QED
    BY <1>4, <1>6, <1>7, <1>8, <1>9

\* What was sent stays sent, and a period that is done stays done.
LEMMA SentStays ==
  ASSUME TypeOK, TypeOK', [Next]_vars
  PROVE  /\ \A k \in Keys : told[k] \subseteq told'[k]
         /\ \A p \in Periods : jobs[p] = "SUCCEEDED" => jobs'[p] = "SUCCEEDED"
  <1>0. told \in [Keys -> SUBSET Periods] /\ jobs \in [Periods -> {"NONE", "SUCCEEDED"}]
    BY DEF TypeOK
  <1>1. ASSUME NEW i \in Instances, NEW k \in Keys, NEW target, NEW action, NEW n,
               Called(i, k, target, action, n)
        PROVE  \A j \in Keys : told[j] \subseteq told'[j]
    BY <1>0, <1>1 DEF Called
  <1>2. ASSUME NEW i \in Instances, StartSweep(i) \/ Claim(i) \/ StandDown(i)
        PROVE  UNCHANGED <<told, jobs>>
    BY <1>2 DEF StartSweep, Claim, StandDown
  <1>3. ASSUME NEW i \in Instances, Fails(i)
        PROVE  jobs' = jobs /\ \A j \in Keys : told[j] \subseteq told'[j]
    <2>1. jobs' = jobs
      BY <1>3 DEF Fails, Rollback
    <2> QED
      BY <1>1, <1>3, <2>1 DEF Fails
  <1>4. ASSUME NEW i \in Instances, FinishSweep(i)
        PROVE  told' = told /\ \A p \in Periods : jobs[p] = "SUCCEEDED" => jobs'[p] = "SUCCEEDED"
    BY <1>0, <1>4 DEF FinishSweep
  <1>5. ASSUME NEW i \in Instances, NEW k \in Keys, NEW uid \in Uids, NEW check \in Checks,
               ProcessMember(i, k, uid, check)
        PROVE  jobs' = jobs /\ \A j \in Keys : told[j] \subseteq told'[j]
    BY <1>1, <1>5 DEF ProcessMember
  <1>6. ASSUME NEW u \in Users, NEW m \in Markets, NEW uid \in Uids, NEW check \in Checks,
               Enrol(u, m, uid, check)
        PROVE  UNCHANGED <<told, jobs>>
    BY <1>6 DEF Enrol
  <1>7. CASE JoinChannel \/ DayPasses \/ UNCHANGED vars
    BY <1>7 DEF JoinChannel, DayPasses, vars, monitorVars
  <1> QED
    BY <1>2, <1>3, <1>4, <1>5, <1>6, <1>7, StepKinds DEF Ends

\* A row that stays goes on being counted.
LEMMA CountedFrame ==
  ASSUME WarningInv, TypeOK', [Next]_vars, NEW k \in Keys, NEW m \in MemberRow
  PROVE  /\ Deserved(k, m) => Deserved(k, m)'
         /\ m.warnings <= Cardinality(Warnings(k)) => m.warnings <= Cardinality(Warnings(k)')
         /\ \A j \in Instances :
              Running(j) /\ sweep'[j] = sweep[j] => Counted(j, k)'
  <1>0. TypeOK /\ sweep \in [Instances -> Sweep] /\ MaxWarnings \in Nat
    BY MonitorAssumption DEF WarningInv, ClaimInv, TypeOK
  <1>1. /\ Cardinality(Warnings(k)) \in Nat /\ Cardinality(Warnings(k)') \in Nat
        /\ Cardinality(told[k]) \in Nat /\ Cardinality(told'[k]) \in Nat
        /\ Cardinality(Warnings(k)) <= Cardinality(Warnings(k)')
        /\ Cardinality(told[k]) <= Cardinality(told'[k])
        /\ told[k] \subseteq told'[k]
    BY <1>0, CountsGrow, SentStays
  <1>2. ASSUME NEW r \in MemberRow
        PROVE  /\ Deserved(k, r) => Deserved(k, r)'
               /\ r.warnings <= Cardinality(Warnings(k)) =>
                    r.warnings <= Cardinality(Warnings(k)')
    BY <1>0, <1>1 DEF Deserved, MemberRow
  <1>3. ASSUME NEW j \in Instances, Running(j), sweep'[j] = sweep[j] PROVE Counted(j, k)'
    <2>1. sweep[j].seen[k] \in MemberRow /\ sweep[j].new[k] \in MemberRow
      BY <1>0 DEF Sweep
    <2>2. Counted(j, k) /\ PeriodOf(j)' = PeriodOf(j)
      BY <1>3 DEF WarningInv, PeriodOf
    <2>3. /\ Deserved(k, sweep[j].seen[k]) => Deserved(k, sweep[j].seen[k])'
          /\ Deserved(k, sweep[j].new[k]) => Deserved(k, sweep[j].new[k])'
          /\ sweep[j].seen[k].warnings <= Cardinality(Warnings(k)) =>
               sweep[j].seen[k].warnings <= Cardinality(Warnings(k)')
      BY <1>3, <2>1, <1>0, <1>1 DEF Deserved, MemberRow
    <2> QED
      BY <1>1, <1>3, <2>2, <2>3 DEF Counted
  <1> QED
    BY <1>2, <1>3

\* The message of a warning is on record once the member has been dealt with.
LEMMA WarningSent ==
  ASSUME TypeOK, MaxNotices # 0, NEW i \in Instances, NEW k \in Keys, NEW uid \in Uids,
         NEW check \in Checks, ProcessMember(i, k, uid, check),
         Decision(i, k, uid, check) = "WARN"
  PROVE  PeriodOf(i) \in told'[k]
  <1>1. /\ Called(i, k, Target(k, uid), "WARN", Len(CallsOf("WARN")))
        /\ told \in [Keys -> SUBSET Periods]
    BY DEF ProcessMember, TypeOK
  <1>2. CallsOf("WARN") = <<"send">> /\ Len(CallsOf("WARN")) = 1
    BY DEF CallsOf
  <1>3. "send" \in {CallsOf("WARN")[j] : j \in 1..Len(CallsOf("WARN"))}
    BY <1>2
  <1> QED
    BY <1>1, <1>3 DEF Called

\* What the decisions do to the count and to the status.
LEMMA DecisionCounts ==
  ASSUME NEW m \in MemberRow, NEW action \in Actions, NEW t
  PROVE  LET n == ApplyDecision(m, action, t)
         IN  /\ n.warnings \in {0, m.warnings} \/ (action = "WARN" /\ n.warnings = m.warnings + 1)
             /\ n.status = "REVOKED" => m.status = "REVOKED" \/ action = "REVOKE"
  <1>1. CASE action = "NONE"
    BY <1>1 DEF ApplyDecision
  <1>2. CASE action = "RESTORE"
    BY <1>2 DEF ApplyDecision, MemberRow
  <1>3. CASE action = "WARN"
    BY <1>3 DEF ApplyDecision, MemberRow
  <1>4. CASE action = "REVOKE"
    BY <1>4 DEF ApplyDecision, MemberRow
  <1> QED
    BY <1>1, <1>2, <1>3, <1>4 DEF Actions

\* One member is dealt with.
LEMMA WarningProcess ==
  ASSUME WarningInv, MaxNotices # 0, NEW i \in Instances, NEW k \in Keys, NEW uid \in Uids,
         NEW check \in Checks, ProcessMember(i, k, uid, check), [Next]_vars, TypeOK'
  PROVE  Counted(i, k)'
  <1> DEFINE s == sweep[i].seen[k]
             action == Decision(i, k, uid, check)
             n == ApplyDecision(s, action, sweep[i].moment)
  <1>0. TypeOK /\ sweep[i] \in Sweep /\ MaxWarnings \in Nat /\ s \in MemberRow
        /\ sweep[i].new \in [Keys -> MemberRow]
    BY MonitorAssumption DEF WarningInv, ClaimInv, TypeOK, Sweep
  <1>1. /\ sweep[i].stage = "running" /\ k \in sweep[i].todo
        /\ sweep'[i].moment = sweep[i].moment /\ sweep'[i].todo = sweep[i].todo \ {k}
        /\ sweep'[i].seen = sweep[i].seen
        /\ sweep'[i].new = [sweep[i].new EXCEPT ![k] =
             ApplyDecision(sweep[i].new[k], action, sweep[i].moment)]
    BY <1>0, ProcessEffect
  <1>2. Counted(i, k) /\ sweep[i].new[k] = s
    BY <1>1 DEF WarningInv, Counted, Running
  <1>3. sweep'[i].new[k] = n /\ sweep'[i].seen[k] = s /\ PeriodOf(i)' = PeriodOf(i)
    BY <1>0, <1>1, <1>2 DEF PeriodOf
  <1>4. /\ Cardinality(Warnings(k)) \in Nat /\ Cardinality(Warnings(k)') \in Nat
        /\ Cardinality(told[k]) \in Nat /\ Cardinality(told'[k]) \in Nat
        /\ Cardinality(Warnings(k)) <= Cardinality(told[k])
        /\ Cardinality(Warnings(k)) <= Cardinality(Warnings(k)')
        /\ Cardinality(told[k]) <= Cardinality(told'[k])
    BY <1>0, CountsGrow, SentStays
  <1>5. /\ s.warnings \in Nat /\ s.warnings <= Cardinality(Warnings(k))
        /\ s.status = "REVOKED" => Cardinality(told[k]) >= MaxWarnings
    BY <1>0, <1>2 DEF Counted, Deserved, MemberRow
  <1>6. action = "REVOKE" => s.warnings >= MaxWarnings
    BY <1>2 DEF Decision, decide_compliance, PolicyFor
  <1>7. action = "WARN" => PeriodOf(i) \in told'[k]
    BY <1>0, WarningSent
  <1>8. action \in Actions
    BY DecisionType
  <1>9. /\ n.warnings \in {0, s.warnings} \/ (action = "WARN" /\ n.warnings = s.warnings + 1)
        /\ n.status = "REVOKED" => s.status = "REVOKED" \/ action = "REVOKE"
    BY <1>0, <1>8, DecisionCounts
  <1> HIDE DEF n, s, action
  <1>10. n.warnings <= s.warnings \/ (n.warnings = s.warnings + 1 /\ PeriodOf(i) \in told'[k])
    BY <1>5, <1>7, <1>9
  <1>11. n.status = "REVOKED" => Cardinality(told'[k]) >= MaxWarnings
    BY <1>0, <1>4, <1>5, <1>6, <1>9
  <1>12. s.status = "REVOKED" => Cardinality(told'[k]) >= MaxWarnings
    BY <1>0, <1>4, <1>5
  <1>13. s.warnings <= Cardinality(Warnings(k)')
    BY <1>4, <1>5
  <1>14. k \notin sweep'[i].todo
    BY <1>1
  <1> QED
    BY <1>3, <1>10, <1>11, <1>12, <1>13, <1>14 DEF Counted, Deserved

\* The commit of a sweep adds its period to the ones done.
LEMMA WarningFinish ==
  ASSUME WarningInv, TypeOK', [Next]_vars, NEW i \in Instances, FinishSweep(i), NEW k \in Keys
  PROVE  Deserved(k, members[k])' /\ members'[k].warnings <= Cardinality(Warnings(k)')
  <1> DEFINE s == sweep[i].seen[k]
             n == sweep[i].new[k]
             p == PeriodOf(i)
  <1>0. /\ TypeOK /\ s \in MemberRow /\ n \in MemberRow /\ members[k] \in MemberRow
        /\ p \in Periods /\ MaxWarnings \in Nat /\ told[k] \subseteq Periods
        /\ jobs \in [Periods -> {"NONE", "SUCCEEDED"}]
    BY MonitorAssumption, PeriodType DEF WarningInv, ClaimInv, TypeOK, StoreTypeOK, Sweep
  <1>1. /\ Running(i) /\ members'[k] = Merge(members[k], s, n)
        /\ jobs' = [jobs EXCEPT ![p] = "SUCCEEDED"] /\ told' = told
    BY DEF FinishSweep
  <1>2. Counted(i, k) /\ jobs[p] = "NONE"
    BY <1>1 DEF WarningInv, ClaimInv, HoldsClaim
  <1>3. members'[k].warnings \in {members[k].warnings, n.warnings}
        /\ members'[k].status \in {members[k].status, n.status}
    BY <1>0, <1>1 DEF Merge, MemberRow
  <1>4. Warnings(k)' = IF p \in told[k] THEN Warnings(k) \cup {p} ELSE Warnings(k)
    BY <1>0, <1>1 DEF Warnings
  <1>5. p \notin Warnings(k)
    BY <1>2 DEF Warnings
  <1>6. /\ IsFiniteSet(Warnings(k)) /\ Cardinality(Warnings(k)) \in Nat
        /\ Cardinality(Warnings(k)') \in Nat
        /\ Cardinality(Warnings(k)) <= Cardinality(Warnings(k)')
    BY <1>0, CountsGrow, SentStays
  <1>7. p \in told[k] => Cardinality(Warnings(k)') = Cardinality(Warnings(k)) + 1
    BY <1>4, <1>5, <1>6, FS_AddElement
  <1>8. /\ members[k].warnings \in Nat /\ s.warnings \in Nat /\ n.warnings \in Nat
        /\ members[k].warnings <= Cardinality(Warnings(k))
        /\ s.warnings <= Cardinality(Warnings(k))
        /\ n.warnings <= s.warnings \/ (n.warnings = s.warnings + 1 /\ p \in told[k])
    BY <1>0, <1>2 DEF WarningInv, Counted, MemberRow
  <1>9. members'[k].warnings <= Cardinality(Warnings(k)')
    BY <1>3, <1>6, <1>7, <1>8
  <1>10. Deserved(k, members[k])'
    BY <1>1, <1>2, <1>3 DEF WarningInv, Counted, Deserved
  <1> QED
    BY <1>9, <1>10

\* Onboarding admits with no warnings, or leaves the count alone.
LEMMA WarningEnrol ==
  ASSUME TypeOK, NEW u \in Users, NEW market \in Markets, NEW uid \in Uids,
         NEW check \in Checks, Enrol(u, market, uid, check), NEW k \in Keys
  PROVE  \/ members'[k] = members[k]
         \/ members'[k].status # "REVOKED" /\ members'[k].warnings \in {0, members[k].warnings}
  <1> DEFINE row == EnsuredMember(members[k], now)
  <1>1. CASE k # <<u, market>>
    BY <1>1, EnrolOthers
  <1>2. CASE k = <<u, market>>
    <2>1. members' = members \/ members'[k] = IssuedMember(row, Len(links) + 1, now)
      BY <1>2, EnrolRow
    <2>2. members[k] \in MemberRow
      BY DEF TypeOK, StoreTypeOK
    <2>a. now \in Day
      BY DEF TypeOK, StoreTypeOK
    <2>b. row \in MemberRow
      BY <2>2, <2>a, AdmissionType, StoreAssumption DEF NoLink
    <2>c. row.warnings \in {0, members[k].warnings}
      BY <2>2 DEF EnsuredMember, MemberRow
    <2>3. row.warnings \in {0, members[k].warnings} /\ row \in MemberRow
      BY <2>b, <2>c
    <2> HIDE DEF row
    <2>4. /\ IssuedMember(row, Len(links) + 1, now).status # "REVOKED"
          /\ IssuedMember(row, Len(links) + 1, now).warnings = row.warnings
      BY <2>3 DEF IssuedMember, MemberRow
    <2> QED
      BY <2>1, <2>3, <2>4
  <1> QED
    BY <1>1, <1>2

\* One step.
LEMMA WarningStep ==
  ASSUME WarningInv, MaxNotices # 0, [Next]_vars
  PROVE  WarningInv'
  <1>0. /\ ClaimInv /\ ClaimInv' /\ TypeOK /\ TypeOK' /\ members \in [Keys -> MemberRow]
        /\ sweep \in [Instances -> Sweep]
    BY NextClaim DEF WarningInv, ClaimInv, TypeOK, StoreTypeOK
  <1> DEFINE RowsFine == \A k \in Keys : /\ Deserved(k, members[k])
                                         /\ members[k].warnings <= Cardinality(Warnings(k))
             SweepFine(j) == Running(j) => \A k \in Keys : Counted(j, k)
  <1>a. ASSUME NEW k \in Keys, members'[k] = members[k]
        PROVE  Deserved(k, members[k])' /\ members'[k].warnings <= Cardinality(Warnings(k)')
    <2>1. PICK m \in MemberRow : m = members[k]
      BY <1>0
    <2>2. Deserved(k, m) /\ m.warnings <= Cardinality(Warnings(k))
      BY <2>1 DEF WarningInv
    <2>3. Deserved(k, m)' /\ m.warnings <= Cardinality(Warnings(k)')
      BY <1>0, <2>2, CountedFrame
    <2> QED
      BY <1>a, <2>1, <2>3 DEF Deserved
  <1>b. ASSUME NEW j \in Instances, sweep'[j] = sweep[j] PROVE SweepFine(j)'
    <2> SUFFICES ASSUME Running(j)', NEW k \in Keys PROVE Counted(j, k)'
      OBVIOUS
    <2>1. Running(j)
      BY <1>b DEF Running
    <2>2. PICK m \in MemberRow : m = members[k]
      BY <1>0
    <2> QED
      BY <1>0, <1>b, <2>1, <2>2, CountedFrame
  <1>c. WarningInv' <=> ClaimInv' /\ RowsFine' /\ \A j \in Instances : SweepFine(j)'
    BY DEF WarningInv
  <1> HIDE DEF RowsFine, SweepFine
  <1>1. ASSUME NEW i \in Instances, StartSweep(i) \/ Claim(i) \/ Ends(i) PROVE WarningInv'
    <2>1. members' = members /\ \A j \in Instances \ {i} : sweep'[j] = sweep[j]
      BY <1>0, <1>1, StartEffect, ClaimEffect, EndsKeeps DEF storeVars
    <2>2. RowsFine'
      BY <1>a, <2>1 DEF RowsFine
    <2>3. SweepFine(i)'
      <3>1. CASE StartSweep(i)
        BY <1>0, <3>1, StartEffect DEF SweepFine, Running
      <3>2. CASE Ends(i)
        BY <1>0, <3>2, EndsKeeps DEF SweepFine, Running, Idle
      <3>3. CASE Claim(i)
        <4> SUFFICES ASSUME NEW k \in Keys PROVE Counted(i, k)'
          BY DEF SweepFine
        <4>1. sweep'[i].seen[k] = members[k] /\ sweep'[i].new[k] = members[k]
          BY <1>0, <3>3, ClaimEffect
        <4>2. Deserved(k, members[k])' /\ members[k].warnings <= Cardinality(Warnings(k)')
          BY <1>a, <2>1
        <4>3. /\ Deserved(k, sweep[i].seen[k])' /\ Deserved(k, sweep[i].new[k])'
              /\ sweep'[i].seen[k].warnings <= Cardinality(Warnings(k)')
          BY <2>1, <4>1, <4>2 DEF Deserved
        <4>4. sweep'[i].new[k] = sweep'[i].seen[k] /\ sweep'[i].seen[k].warnings \in Nat
          BY <1>0, <4>1 DEF MemberRow
        <4>5. sweep'[i].new[k].warnings <= sweep'[i].seen[k].warnings
          BY <4>4
        <4> QED
          BY <4>3, <4>4, <4>5 DEF Counted
      <3> QED
        BY <1>1, <3>1, <3>2, <3>3
    <2> QED
      BY <1>0, <1>b, <1>c, <2>1, <2>2, <2>3
  <1>2. ASSUME NEW i \in Instances, FinishSweep(i) PROVE WarningInv'
    <2>1. sweep' = [sweep EXCEPT ![i] = Idle]
      BY <1>2 DEF FinishSweep
    <2>2. RowsFine'
      BY <1>0, <1>2, WarningFinish DEF RowsFine
    <2>3. SweepFine(i)' /\ \A j \in Instances \ {i} : sweep'[j] = sweep[j]
      BY <1>0, <2>1 DEF SweepFine, Running, Idle
    <2> QED
      BY <1>0, <1>b, <1>c, <2>2, <2>3
  <1>3. ASSUME NEW i \in Instances, NEW m \in Keys, NEW uid \in Uids, NEW check \in Checks,
               ProcessMember(i, m, uid, check)
        PROVE  WarningInv'
    <2> DEFINE row == ApplyDecision(sweep[i].new[m], Decision(i, m, uid, check), sweep[i].moment)
    <2>1. /\ members' = members /\ \A j \in Instances \ {i} : sweep'[j] = sweep[j]
          /\ sweep[i].stage = "running"
          /\ sweep'[i].moment = sweep[i].moment /\ sweep'[i].todo = sweep[i].todo \ {m}
          /\ sweep'[i].seen = sweep[i].seen
          /\ sweep'[i].new = [sweep[i].new EXCEPT ![m] = row]
      BY <1>0, <1>3, ProcessEffect
    <2> HIDE DEF row
    <2>2. RowsFine'
      BY <1>a, <2>1 DEF RowsFine
    <2>3. ASSUME NEW k \in Keys PROVE Counted(i, k)'
      <3>1. CASE k = m
        BY <1>0, <1>3, <3>1, WarningProcess
      <3>2. CASE k # m
        <4>1. /\ sweep[i].new \in [Keys -> MemberRow] /\ sweep[i].seen[k] \in MemberRow
              /\ sweep[i].new[k] \in MemberRow
          BY <1>0 DEF Sweep
        <4>2. sweep'[i].new[k] = sweep[i].new[k] /\ sweep'[i].seen[k] = sweep[i].seen[k]
              /\ PeriodOf(i)' = PeriodOf(i)
          BY <2>1, <3>2, <4>1 DEF PeriodOf
        <4>3. Counted(i, k)
          BY <2>1 DEF WarningInv, Running
        <4>4. PICK s \in MemberRow, n \in MemberRow : s = sweep[i].seen[k] /\ n = sweep[i].new[k]
          BY <4>1
        <4>5. Deserved(k, s)' /\ Deserved(k, n)' /\ s.warnings <= Cardinality(Warnings(k)')
          BY <1>0, <4>3, <4>4, CountedFrame DEF Counted
        <4>6. told[k] \subseteq told'[k]
          BY <1>0, SentStays
        <4> QED
          BY <2>1, <4>2, <4>3, <4>4, <4>5, <4>6 DEF Counted, Deserved
      <3> QED
        BY <3>1, <3>2
    <2> QED
      BY <1>0, <1>b, <1>c, <2>1, <2>2, <2>3 DEF SweepFine
  <1>4. ASSUME NEW u \in Users, NEW market \in Markets, NEW uid \in Uids, NEW check \in Checks,
               Enrol(u, market, uid, check)
        PROVE  WarningInv'
    <2>1. UNCHANGED <<sweep, told, jobs>>
      BY <1>0, <1>4, EnrolOthers
    <2>2. ASSUME NEW k \in Keys
          PROVE  Deserved(k, members[k])' /\ members'[k].warnings <= Cardinality(Warnings(k)')
      <3>1. CASE members'[k] = members[k]
        BY <1>a, <3>1
      <3>2. CASE members'[k].status # "REVOKED" /\ members'[k].warnings \in {0, members[k].warnings}
        <4>1. Cardinality(Warnings(k)) \in Nat /\ Warnings(k)' = Warnings(k)
          BY <1>0, <2>1, CountsGrow, SentStays DEF Warnings
        <4>2. members[k].warnings <= Cardinality(Warnings(k))
          BY DEF WarningInv
        <4> QED
          BY <3>2, <4>1, <4>2 DEF Deserved
      <3> QED
        BY <1>0, <1>4, <3>1, <3>2, WarningEnrol
    <2> QED
      BY <1>0, <1>b, <1>c, <2>1, <2>2 DEF RowsFine
  <1>5. CASE JoinChannel \/ DayPasses \/ UNCHANGED vars
    <2>1. UNCHANGED <<sweep, members>>
      BY <1>5 DEF JoinChannel, Join, DayPasses, Tick, vars, storeVars, monitorVars
    <2> QED
      BY <1>0, <1>a, <1>b, <1>c, <2>1 DEF RowsFine
  <1> QED
    BY <1>1, <1>2, <1>3, <1>4, <1>5, StepKinds

\* For any number of instances, and however their sweeps overlap, overwrite one
\* another's counts, fail or crash, the count on a row is covered by warnings
\* sent in as many periods done.
THEOREM CountIsCovered == MaxNotices # 0 => (Spec => []WarningInv)
  <1> SUFFICES ASSUME MaxNotices # 0 PROVE Spec => []WarningInv
    OBVIOUS
  <1>1. Init => WarningInv
    <2> SUFFICES ASSUME Init PROVE WarningInv
      OBVIOUS
    <2>1. ClaimInv /\ TypeOK
      BY InitType DEF Init, ClaimInv, HoldsClaim, Running, Idle
    <2>2. ASSUME NEW k \in Keys PROVE Warnings(k) = {}
      BY <2>2 DEF Init, Warnings
    <2>3. \A k \in Keys : members[k].warnings = 0 /\ members[k].status = "ABSENT"
      BY DEF Init, StoreInit, AbsentRow
    <2>4. \A i \in Instances : ~Running(i)
      BY DEF Init, Running, Idle
    <2> QED
      BY <2>1, <2>2, <2>3, <2>4, FS_EmptySet DEF WarningInv, Deserved
  <1>2. WarningInv /\ [Next]_vars => WarningInv'
    BY WarningStep
  <1> QED
    BY <1>1, <1>2, PTL DEF Spec

\* compliance.py:14, "warnings are spaced, counted, and capped": with any number of
\* instances nobody is removed who was not sent warnings in as many different
\* periods as the policy demands.
THEOREM NobodyRemovedUnwarned == MaxNotices # 0 => (Spec => []WarnedBeforeRemoval)
  <1> SUFFICES ASSUME MaxNotices # 0 PROVE Spec => []WarnedBeforeRemoval
    OBVIOUS
  <1>1. WarningInv => WarnedBeforeRemoval
    BY DEF WarningInv, Deserved, WarnedBeforeRemoval
  <1> QED
    BY <1>1, CountIsCovered, PTL

-----------------------------------------------------------------------------
(* One instance: the rows follow the decisions. *)

\* What was decided on the loaded row would be decided on the row as it is.
LEMMA DecisionSettled ==
  ASSUME NEW m, NEW s, Settled(m, s), NEW reason, NEW policy, NEW t
  PROVE  decide_compliance(m, reason, policy, t) = decide_compliance(s, reason, policy, t)
  BY DEF decide_compliance, Settled, InGrace, TooSoon

\* Only invited members are decided about, and what is decided leaves a row of the
\* shape this code leaves behind.
LEMMA DecisionShape ==
  ASSUME NEW m \in MemberRow, RowShape(m), NEW reason, NEW policy, NEW t \in Day, NEW action,
         action = decide_compliance(m, reason, policy, t)
  PROVE  /\ action \in Actions
         /\ action # "NONE" => m.status = "INVITED"
         /\ RowShape(ApplyDecision(m, action, t))
  <1>1. action \in Actions
    BY DEF decide_compliance, Actions
  <1>2. action # "NONE" => m.status = "INVITED"
    BY DEF decide_compliance, RowShape, Monitored
  <1>3. CASE action = "NONE"
    BY <1>1, <1>2, <1>3 DEF ApplyDecision
  <1>4. CASE action \in {"RESTORE", "WARN"}
    BY <1>1, <1>2, <1>4 DEF ApplyDecision, RowShape, MemberRow
  <1>5. CASE action = "REVOKE"
    BY <1>1, <1>2, <1>5 DEF ApplyDecision, RowShape, MemberRow
  <1> QED
    BY <1>1, <1>2, <1>3, <1>4, <1>5 DEF Actions

\* So does an admission.
LEMMA AdmissionShape ==
  ASSUME NEW m \in MemberRow, RowShape(m), NEW t \in Day, NEW link \in 1..MaxLinks,
         NEW new, new = IssuedMember(EnsuredMember(m, t), link, t)
  PROVE  /\ RowShape(new) /\ new.status = "INVITED" /\ new.link = link
         /\ m.status = "INVITED" => Settled(new, m)
         /\ new.warnings = IF EnsuredMember(m, t).status = "PENDING" THEN 0 ELSE m.warnings
  <1>0. link # NoLink
    BY DEF NoLink
  <1>1. CASE m.status = "ABSENT"
    <2>1. m = AbsentRow
      BY <1>1 DEF RowShape
    <2> QED
      BY <1>0, <1>1, <2>1 DEF EnsuredMember, IssuedMember, AbsentRow, RowShape
  <1>2. CASE m.status = "REVOKED"
    BY <1>0, <1>2 DEF EnsuredMember, IssuedMember, MemberRow, RowShape
  <1>3. CASE m.status = "INVITED"
    BY <1>0, <1>3 DEF EnsuredMember, IssuedMember, MemberRow, RowShape, Settled
  <1> QED
    BY <1>1, <1>2, <1>3 DEF RowShape

\* What a sweep may rely on survives a step that leaves the sweep and, but for the
\* link, the members it found invited.
LEMMA PendingFrame ==
  ASSUME NEW i \in Instances, NEW k \in Keys, Pending(i, k), sweep'[i] = sweep[i],
         sweep[i].seen[k].status = "INVITED" => Settled(members'[k], sweep[i].seen[k])
  PROVE  Pending(i, k)'
  BY DEF Pending

\* A commit applies to each row a decision taken on the row as it is.
LEMMA FinishRow ==
  ASSUME RecordInv, NEW i \in Instances, FinishSweep(i), NEW k \in Keys
  PROVE  \E reason \in Reasons, market \in Markets :
           LET t == sweep[i].moment
               action == decide_compliance(members[k], reason, PolicyFor(market), t)
           IN  /\ members'[k] = ApplyDecision(members[k], action, t)
               /\ sweep[i].new[k] = ApplyDecision(sweep[i].seen[k], action, t)
               /\ action # "NONE" => Settled(members[k], sweep[i].seen[k])
  <1> DEFINE s == sweep[i].seen[k]
             n == sweep[i].new[k]
             t == sweep[i].moment
             m == members[k]
  <1>1. /\ Running(i) /\ members'[k] = Merge(m, s, n) /\ Pending(i, k) /\ RowShape(m)
    BY DEF FinishSweep, RecordInv
  <1>2. /\ m \in MemberRow /\ s \in MemberRow /\ t \in Day
    BY DEF RecordInv, TypeOK, StoreTypeOK, Sweep
  <1>3. PICK reason \in Reasons, market \in Markets :
          n = ApplyDecision(s, decide_compliance(s, reason, PolicyFor(market), t), t)
    BY <1>1 DEF Pending
  <1> DEFINE a == decide_compliance(s, reason, PolicyFor(market), t)
  <1>4. a \in Actions /\ RowShape(s) /\ (a # "NONE" => s.status = "INVITED")
    BY <1>1, <1>2, DecisionShape DEF Pending
  <1>5. CASE s.status = "INVITED"
    <2>1. Settled(m, s) /\ s.link # NoLink
      BY <1>1, <1>4, <1>5 DEF Pending, RowShape
    <2>2. members'[k] = ApplyDecision(m, a, t)
      BY <1>1, <1>2, <1>3, <1>4, <2>1, MergeDecision
    <2>3. a = decide_compliance(m, reason, PolicyFor(market), t)
      BY <2>1, DecisionSettled
    <2> HIDE DEF a
    <2> QED
      BY <1>3, <2>1, <2>2, <2>3 DEF a
  <1>6. CASE s.status # "INVITED"
    <2>1. n = s
      <3>1. a = "NONE"
        BY <1>4, <1>6
      <3> QED
        BY <1>3, <3>1 DEF ApplyDecision
    <2>2. members'[k] = m
      BY <1>1, <1>2, <2>1, MergeNothing
    <2>3. decide_compliance(m, "PROVIDER_UNAVAILABLE", PolicyFor(market), t) = "NONE"
      BY DEF decide_compliance
    <2>4. ApplyDecision(m, "NONE", t) = m /\ ApplyDecision(s, "NONE", t) = s
      BY DEF ApplyDecision
    <2>5. "PROVIDER_UNAVAILABLE" \in Reasons
      BY DEF Reasons
    <2> QED
      BY <2>1, <2>2, <2>3, <2>4, <2>5
  <1> QED
    BY <1>5, <1>6

\* The rows keep their shape and their count.
LEMMA RowsStep ==
  ASSUME RecordInv, [Next]_vars, NEW k \in Keys
  PROVE  RowShape(members'[k]) /\ members'[k].warnings = warned'[k]
  <1>0. /\ TypeOK /\ RowShape(members[k]) /\ members[k].warnings = warned[k]
        /\ members[k] \in MemberRow /\ now \in Day /\ warned[k] \in Nat
    BY DEF RecordInv, TypeOK, StoreTypeOK
  <1>1. ASSUME UNCHANGED <<members, warned>>
        PROVE  RowShape(members'[k]) /\ members'[k].warnings = warned'[k]
    BY <1>0, <1>1
  <1>2. ASSUME NEW i \in Instances, StartSweep(i) \/ Claim(i) \/ Ends(i)
        PROVE  UNCHANGED <<members, warned>>
    BY <1>2 DEF StartSweep, Claim, Ends, Fails, StandDown, Rollback, storeVars
  <1>3. ASSUME NEW i \in Instances, NEW j \in Keys, NEW uid \in Uids, NEW check \in Checks,
               ProcessMember(i, j, uid, check)
        PROVE  UNCHANGED <<members, warned>>
    BY <1>3 DEF ProcessMember
  <1>4. ASSUME NEW i \in Instances, FinishSweep(i)
        PROVE  RowShape(members'[k]) /\ members'[k].warnings = warned'[k]
    <2> DEFINE s == sweep[i].seen[k]
               n == sweep[i].new[k]
               t == sweep[i].moment
               m == members[k]
    <2>1. PICK reason \in Reasons, market \in Markets :
            LET a == decide_compliance(m, reason, PolicyFor(market), t)
            IN  /\ members'[k] = ApplyDecision(m, a, t) /\ n = ApplyDecision(s, a, t)
                /\ a # "NONE" => Settled(m, s)
      BY <1>4, FinishRow
    <2> DEFINE a == decide_compliance(m, reason, PolicyFor(market), t)
    <2>2. s \in MemberRow /\ t \in Day /\ s.warnings \in Nat /\ m.warnings \in Nat
      BY <1>0 DEF TypeOK, StoreTypeOK, Sweep, MemberRow
    <2>3. a \in Actions /\ RowShape(members'[k])
      BY <1>0, <2>1, <2>2, DecisionShape
    <2>4. warned'[k] = IF n.warnings > s.warnings THEN warned[k] + 1
                       ELSE IF n.warnings < s.warnings THEN 0 ELSE warned[k]
      BY <1>4 DEF FinishSweep
    <2> HIDE DEF a
    <2>5. /\ members'[k] = ApplyDecision(m, a, t) /\ n = ApplyDecision(s, a, t)
          /\ a # "NONE" => m.warnings = s.warnings
      BY <2>1 DEF a, Settled
    <2>6. members'[k].warnings = warned'[k]
      <3>1. CASE a = "NONE"
        BY <1>0, <2>2, <2>4, <2>5, <3>1 DEF ApplyDecision
      <3>2. CASE a = "RESTORE"
        <4>1. members'[k].warnings = 0 /\ n.warnings = 0
          BY <1>0, <2>2, <2>5, <3>2 DEF ApplyDecision, MemberRow
        <4> QED
          BY <1>0, <2>2, <2>4, <2>5, <3>2, <4>1
      <3>3. CASE a = "WARN"
        <4>1. members'[k].warnings = m.warnings + 1 /\ n.warnings = s.warnings + 1
          BY <1>0, <2>2, <2>5, <3>3 DEF ApplyDecision, MemberRow
        <4> QED
          BY <1>0, <2>2, <2>4, <2>5, <4>1
      <3>4. CASE a = "REVOKE"
        <4>1. members'[k].warnings = m.warnings /\ n.warnings = s.warnings
          BY <1>0, <2>2, <2>5, <3>4 DEF ApplyDecision, MemberRow
        <4> QED
          BY <1>0, <2>2, <2>4, <4>1
      <3> QED
        BY <2>3, <3>1, <3>2, <3>3, <3>4 DEF Actions
    <2> QED
      BY <2>3, <2>6
  <1>5. ASSUME NEW u \in Users, NEW market \in Markets, NEW uid \in Uids, NEW check \in Checks,
               Enrol(u, market, uid, check)
        PROVE  RowShape(members'[k]) /\ members'[k].warnings = warned'[k]
    <2>1. CASE k # <<u, market>>
      BY <1>0, <1>5, <2>1, EnrolOthers
    <2>2. CASE k = <<u, market>>
      <3> DEFINE row == EnsuredMember(members[k], now)
      <3>1. \/ UNCHANGED <<members, warned>>
            \/ /\ Mint(k, now) /\ members'[k] = IssuedMember(row, Len(links) + 1, now)
               /\ warned'[k] = IF row.status = "PENDING" THEN 0 ELSE warned[k]
        BY <1>0, <1>5, <2>2, EnrolRow
      <3>2. CASE /\ Mint(k, now) /\ members'[k] = IssuedMember(row, Len(links) + 1, now)
                 /\ warned'[k] = IF row.status = "PENDING" THEN 0 ELSE warned[k]
        <4>1. Len(links) + 1 \in 1..MaxLinks
          BY <1>0, <3>2, MintType DEF TypeOK
        <4> QED
          BY <1>0, <3>2, <4>1, AdmissionShape
      <3> QED
        BY <1>1, <3>1, <3>2
    <2> QED
      BY <2>1, <2>2
  <1>6. CASE JoinChannel \/ DayPasses \/ UNCHANGED vars
    BY <1>1, <1>6 DEF JoinChannel, Join, DayPasses, Tick, vars, storeVars, monitorVars
  <1> QED
    BY <1>1, <1>2, <1>3, <1>4, <1>5, <1>6, StepKinds

\* What the one sweep may rely on.
LEMMA PendingStep ==
  ASSUME OneInstance, RecordInv, [Next]_vars, NEW i \in Instances, Running(i)', NEW k \in Keys
  PROVE  Pending(i, k)'
  <1>0. /\ TypeOK /\ TypeOK' /\ RowShape(members[k]) /\ members[k] \in MemberRow /\ now \in Day
        /\ Running(i) => Pending(i, k)
        /\ \A j \in Instances : j = i
    BY NextType DEF RecordInv, TypeOK, StoreTypeOK, OneInstance
  <1>1. ASSUME sweep' = sweep, members' = members PROVE Pending(i, k)'
    <2>1. Running(i)
      BY <1>1 DEF Running
    <2> QED
      BY <1>0, <1>1, <2>1, PendingFrame DEF Pending
  <1>2. CASE StartSweep(i) \/ Ends(i) \/ FinishSweep(i)
    <2>1. CASE StartSweep(i)
      BY <1>0, <2>1, StartEffect DEF Running
    <2>2. CASE Ends(i)
      BY <1>0, <2>2, EndsKeeps DEF Running, Idle
    <2>3. CASE FinishSweep(i)
      BY <1>0, <2>3 DEF FinishSweep, Running, Idle, TypeOK
    <2> QED
      BY <1>2, <2>1, <2>2, <2>3
  <1>3. CASE Claim(i)
    <2>1. /\ sweep'[i].seen[k] = members[k] /\ sweep'[i].new[k] = members[k]
          /\ k \in sweep'[i].todo => members[k].status \in Monitored
          /\ members' = members
      BY <1>0, <1>3, ClaimEffect
    <2>2. Settled(members[k], members[k])
      BY DEF Settled
    <2>3. PICK market \in Markets : TRUE
      BY StoreAssumption
    <2>4. /\ "PROVIDER_UNAVAILABLE" \in Reasons
          /\ \A t : decide_compliance(members[k], "PROVIDER_UNAVAILABLE", PolicyFor(market), t) = "NONE"
          /\ \A t : ApplyDecision(members[k], "NONE", t) = members[k]
      BY DEF Reasons, decide_compliance, ApplyDecision
    <2>5. members[k].status \in Monitored => members[k].status = "INVITED"
      BY <1>0 DEF RowShape, Monitored
    <2> QED
      BY <1>0, <2>1, <2>2, <2>3, <2>4, <2>5 DEF Pending
  <1>4. ASSUME NEW j \in Keys, NEW uid \in Uids, NEW check \in Checks,
               ProcessMember(i, j, uid, check)
        PROVE  Pending(i, k)'
    <2> DEFINE t == sweep[i].moment
               a == Decision(i, j, uid, check)
    <2>1. /\ Running(i) /\ j \in sweep[i].todo /\ sweep'[i].moment = t
          /\ sweep'[i].todo = sweep[i].todo \ {j} /\ sweep'[i].seen = sweep[i].seen
          /\ sweep'[i].new = [sweep[i].new EXCEPT ![j] = ApplyDecision(sweep[i].new[j], a, t)]
          /\ members' = members
      BY <1>0, <1>4, ProcessEffect DEF Running
    <2>2. sweep[i].new \in [Keys -> MemberRow] /\ Pending(i, k)
      BY <1>0, <2>1 DEF TypeOK, Sweep
    <2>3. CASE j # k
      <3>1. sweep'[i].new[k] = sweep[i].new[k] /\ (k \in sweep'[i].todo => k \in sweep[i].todo)
        BY <2>1, <2>2, <2>3
      <3> QED
        BY <2>1, <2>2, <3>1 DEF Pending
    <2>4. CASE j = k
      <3>1. sweep[i].new[k] = sweep[i].seen[k]
        BY <2>1, <2>2, <2>4 DEF Pending
      <3>2. PICK reason \in Reasons, market \in Markets :
              a = decide_compliance(sweep[i].new[k], reason, PolicyFor(market), t)
        <4>1. accounts[uid].market \in Markets
          BY <1>0 DEF TypeOK, StoreTypeOK, AccountRow
        <4> QED
          BY <2>4, <4>1, ReasonType DEF Decision
      <3> HIDE DEF a
      <3>3. sweep'[i].new[k] = ApplyDecision(sweep[i].new[k], a, t) /\ k \notin sweep'[i].todo
        BY <2>1, <2>2, <2>4
      <3> QED
        BY <2>1, <2>2, <3>1, <3>2, <3>3 DEF Pending
    <2> QED
      BY <2>3, <2>4
  <1>5. ASSUME NEW u \in Users, NEW market \in Markets, NEW uid \in Uids, NEW check \in Checks,
               Enrol(u, market, uid, check)
        PROVE  Pending(i, k)'
    <2>1. sweep' = sweep
      BY <1>0, <1>5, EnrolOthers
    <2>2. Pending(i, k)
      BY <1>0, <2>1 DEF Running
    <2>3. CASE members'[k] = members[k]
      BY <2>1, <2>2, <2>3, PendingFrame DEF Pending
    <2>4. CASE members'[k] # members[k]
      <3> DEFINE row == EnsuredMember(members[k], now)
      <3>1. k = <<u, market>>
        BY <1>0, <1>5, <2>4, EnrolOthers
      <3>2. Mint(k, now) /\ members'[k] = IssuedMember(row, Len(links) + 1, now)
        BY <1>0, <1>5, <2>4, <3>1, EnrolRow
      <3>3. Len(links) + 1 \in 1..MaxLinks
        BY <1>0, <3>2, MintType DEF TypeOK
      <3>4. members[k].status = "INVITED" => Settled(members'[k], members[k])
        BY <1>0, <3>2, <3>3, AdmissionShape
      <3>5. sweep[i].seen[k].status = "INVITED" => Settled(members'[k], sweep[i].seen[k])
        BY <2>2, <3>4 DEF Pending, Settled
      <3> QED
        BY <2>1, <2>2, <3>5, PendingFrame
    <2> QED
      BY <2>3, <2>4
  <1>6. CASE JoinChannel \/ DayPasses \/ UNCHANGED vars
    BY <1>1, <1>6 DEF JoinChannel, Join, DayPasses, Tick, vars, storeVars, monitorVars
  <1> QED
    BY <1>0, <1>2, <1>3, <1>4, <1>5, <1>6, StepKinds

\* A sweep's moment is never ahead of the clock.
LEMMA MomentStep ==
  ASSUME RecordInv, [Next]_vars, NEW i \in Instances
  PROVE  sweep'[i].moment <= now'
  <1>0. TypeOK /\ sweep[i].moment <= now /\ now \in Nat /\ sweep[i].moment \in Nat
        /\ sweep \in [Instances -> Sweep]
    BY PeriodType DEF RecordInv, TypeOK, StoreTypeOK, Day
  <1>1. ASSUME NEW j \in Instances, StartSweep(j) \/ Claim(j) \/ Ends(j)
        PROVE  sweep'[i].moment <= now'
    <2>1. CASE StartSweep(j)
      BY <1>0, <2>1, StartEffect DEF storeVars
    <2>2. CASE Claim(j)
      BY <1>0, <2>2, ClaimEffect
    <2>3. CASE Ends(j)
      BY <1>0, <2>3, EndsKeeps DEF Idle
    <2> QED
      BY <1>1, <2>1, <2>2, <2>3
  <1>2. ASSUME NEW j \in Instances, FinishSweep(j) PROVE sweep'[i].moment <= now'
    BY <1>0, <1>2 DEF FinishSweep, Idle
  <1>3. ASSUME NEW j \in Instances, NEW k \in Keys, NEW uid \in Uids, NEW check \in Checks,
               ProcessMember(j, k, uid, check)
        PROVE  sweep'[i].moment <= now'
    <2>1. /\ sweep'[j].moment = sweep[j].moment /\ now' = now
          /\ \A h \in Instances \ {j} : sweep'[h] = sweep[h]
      BY <1>0, <1>3, ProcessEffect
    <2> QED
      BY <1>0, <2>1
  <1>4. ASSUME NEW u \in Users, NEW market \in Markets, NEW uid \in Uids, NEW check \in Checks,
               Enrol(u, market, uid, check)
        PROVE  sweep'[i].moment <= now'
    BY <1>0, <1>4, EnrolOthers
  <1>5. CASE DayPasses
    BY <1>0, <1>5 DEF DayPasses, Tick, monitorVars
  <1>6. CASE JoinChannel \/ UNCHANGED vars
    BY <1>0, <1>6 DEF JoinChannel, Join, vars, storeVars, monitorVars
  <1> QED
    BY <1>1, <1>2, <1>3, <1>4, <1>5, <1>6, StepKinds

\* One step.
LEMMA RecordStep ==
  ASSUME OneInstance, RecordInv, [Next]_vars
  PROVE  RecordInv'
  <1>1. TypeOK'
    BY NextType DEF RecordInv
  <1> QED
    BY <1>1, RowsStep, PendingStep, MomentStep DEF RecordInv

\* It holds when nobody is known yet.
LEMMA RecordInit == ASSUME Init PROVE RecordInv
  <1>1. TypeOK
    BY InitType
  <1>2. \A k \in Keys : RowShape(members[k]) /\ members[k].warnings = warned[k]
    BY DEF Init, StoreInit, RowShape, AbsentRow
  <1>3. \A i \in Instances : sweep[i].moment <= now /\ ~Running(i)
    BY DEF Init, StoreInit, Idle, Running
  <1> QED
    BY <1>1, <1>2, <1>3 DEF RecordInv

\* With one instance: an invited member a sweep loaded has at most got a new link
\* since, and the row the sweep will write is one decision away from it.
THEOREM RecordInvariant == OneInstance => (Spec => []RecordInv)
  <1> SUFFICES ASSUME OneInstance PROVE Spec => []RecordInv
    OBVIOUS
  <1>1. RecordInv /\ [Next]_vars => RecordInv'
    BY RecordStep
  <1> QED
    BY <1>1, RecordInit, PTL DEF Spec

\* compliance.py, warnings are counted: with one instance the row's count is the
\* number of warnings committed since the member was admitted or recovered,
\* whatever is rolled back, crashes or overlaps with onboarding.
THEOREM CountIsHonest == OneInstance => (Spec => []WarningsCounted)
  <1> SUFFICES ASSUME OneInstance PROVE Spec => []WarningsCounted
    OBVIOUS
  <1>1. RecordInv => WarningsCounted
    BY DEF RecordInv, WarningsCounted
  <1>2. Spec => []RecordInv
    BY RecordInvariant
  <1> QED
    BY <1>1, <1>2, PTL

-----------------------------------------------------------------------------
(* One instance, one grace period: each membership follows its course. *)

\* The columns of a membership row that its course is about.
CourseRow(m) == [f \in DOMAIN m \ {"issuedAt"} |-> m[f]]

\* They are six.
LEMMA CourseRowIs ==
  ASSUME NEW m \in MemberRow
  PROVE  CourseRow(m) = [status |-> m.status, since |-> m.since, warnings |-> m.warnings,
                         lastWarning |-> m.lastWarning, revokedAt |-> m.revokedAt,
                         link |-> m.link]
  <1> DEFINE columns == {"status", "link", "since", "warnings", "lastWarning", "revokedAt"}
  <1>1. DOMAIN m \ {"issuedAt"} = columns
    BY DEF MemberRow
  <1>2. CourseRow(m) = [f \in columns |-> m[f]]
    BY <1>1 DEF CourseRow
  <1> QED
    BY <1>2

\* A decision is taken, and applied, on those columns alone.
LEMMA CourseDecision ==
  ASSUME NEW m \in MemberRow, NEW reason, NEW policy, NEW t \in Day, NEW a,
         a = decide_compliance(m, reason, policy, t)
  PROVE  /\ decide_compliance(CourseRow(m), reason, policy, t) = a
         /\ ApplyDecision(CourseRow(m), a, t) = CourseRow(ApplyDecision(m, a, t))
  <1>1. a \in Actions
    BY DEF decide_compliance, Actions
  <1> DEFINE c == CourseRow(m)
             new == ApplyDecision(m, a, t)
  <1>2. new \in MemberRow
    BY <1>1, ApplyDecisionType
  <1>3. /\ c = [status |-> m.status, since |-> m.since, warnings |-> m.warnings,
                lastWarning |-> m.lastWarning, revokedAt |-> m.revokedAt, link |-> m.link]
        /\ CourseRow(new) = [status |-> new.status, since |-> new.since,
                warnings |-> new.warnings, lastWarning |-> new.lastWarning,
                revokedAt |-> new.revokedAt, link |-> new.link]
    BY <1>2, CourseRowIs
  <1> HIDE DEF c
  <1>4. decide_compliance(c, reason, policy, t) = a
    BY <1>3 DEF decide_compliance, InGrace, TooSoon
  <1>5. ApplyDecision(c, a, t) = CourseRow(new)
    <2>1. CASE a = "NONE"
      BY <2>1, <1>3 DEF ApplyDecision
    <2>2. CASE a = "RESTORE"
      BY <2>2, <1>3 DEF ApplyDecision, MemberRow
    <2>3. CASE a = "WARN"
      BY <2>3, <1>3 DEF ApplyDecision, MemberRow
    <2>4. CASE a = "REVOKE"
      BY <2>4, <1>3 DEF ApplyDecision, MemberRow
    <2> QED
      BY <1>1, <2>1, <2>2, <2>3, <2>4 DEF Actions
  <1> QED
    BY <1>4, <1>5 DEF c

\* An admission is one of the three of the course.
Admits(c, d, t, link) ==
  \/ /\ c.status = "ABSENT"
     /\ d = [c EXCEPT !.status = "INVITED", !.since = t, !.link = link]
  \/ /\ c.status = "REVOKED"
     /\ d = [c EXCEPT !.status = "INVITED", !.warnings = 0, !.lastWarning = NoTime,
                      !.revokedAt = NoTime, !.link = link]
  \/ /\ c.status = "INVITED"
     /\ d = [c EXCEPT !.link = link]

LEMMA CourseAdmission ==
  ASSUME NEW m \in MemberRow, RowShape(m), NEW t \in Day, NEW link \in 1..MaxLinks,
         NEW new, new = IssuedMember(EnsuredMember(m, t), link, t)
  PROVE  Admits(CourseRow(m), CourseRow(new), t, link)
  <1> DEFINE c == CourseRow(m)
             d == CourseRow(new)
             columns == {"status", "since", "warnings", "lastWarning", "revokedAt", "link"}
  <1>0. link \in 0..MaxLinks
    OBVIOUS
  <1>1. new \in MemberRow
    BY <1>0, AdmissionType
  <1>2. /\ c = [status |-> m.status, since |-> m.since, warnings |-> m.warnings,
                lastWarning |-> m.lastWarning, revokedAt |-> m.revokedAt, link |-> m.link]
        /\ d = [status |-> new.status, since |-> new.since, warnings |-> new.warnings,
                lastWarning |-> new.lastWarning, revokedAt |-> new.revokedAt,
                link |-> new.link]
    BY <1>1, CourseRowIs
  <1> HIDE DEF c, d
  <1>3. CASE m.status = "ABSENT"
    <2>1. m = AbsentRow
      BY <1>3 DEF RowShape
    <2>2. /\ new.status = "INVITED" /\ new.since = t /\ new.link = link
          /\ new.warnings = m.warnings /\ new.lastWarning = m.lastWarning
          /\ new.revokedAt = m.revokedAt
      BY <1>3, <2>1 DEF EnsuredMember, IssuedMember, AbsentRow
    <2> DEFINE q == [c EXCEPT !.status = "INVITED", !.since = t, !.link = link]
    <2>3. d = q
      <3>1. /\ q.status = d.status /\ q.since = d.since /\ q.warnings = d.warnings
            /\ q.lastWarning = d.lastWarning /\ q.revokedAt = d.revokedAt /\ q.link = d.link
        BY <1>2, <2>2
      <3>2. q = [f \in columns |-> q[f]] /\ d = [f \in columns |-> d[f]]
        BY <1>2
      <3> HIDE DEF q
      <3> QED
        BY <3>1, <3>2
    <2>4. c.status = "ABSENT"
      BY <1>2, <1>3
    <2>5. Admits(c, d, t, link)
      BY <2>3, <2>4, Zenon DEF Admits
    <2> QED
      BY <2>5 DEF c, d
  <1>4. CASE m.status = "REVOKED"
    <2>1. /\ new.status = "INVITED" /\ new.since = m.since /\ new.link = link
          /\ new.warnings = 0 /\ new.lastWarning = NoTime /\ new.revokedAt = NoTime
      BY <1>4 DEF EnsuredMember, IssuedMember, MemberRow
    <2> DEFINE q == [c EXCEPT !.status = "INVITED", !.warnings = 0, !.lastWarning = NoTime,
                              !.revokedAt = NoTime, !.link = link]
    <2>2. d = q
      <3>1. /\ q.status = d.status /\ q.since = d.since /\ q.warnings = d.warnings
            /\ q.lastWarning = d.lastWarning /\ q.revokedAt = d.revokedAt /\ q.link = d.link
        BY <1>2, <2>1
      <3>2. q = [f \in columns |-> q[f]] /\ d = [f \in columns |-> d[f]]
        BY <1>2
      <3> HIDE DEF q
      <3> QED
        BY <3>1, <3>2
    <2>3. c.status = "REVOKED"
      BY <1>2, <1>4
    <2>4. Admits(c, d, t, link)
      BY <2>2, <2>3, Zenon DEF Admits
    <2> QED
      BY <2>4 DEF c, d
  <1>5. CASE m.status = "INVITED"
    <2>1. /\ new.status = m.status /\ new.since = m.since /\ new.link = link
          /\ new.warnings = m.warnings /\ new.lastWarning = m.lastWarning
          /\ new.revokedAt = m.revokedAt
      BY <1>5 DEF EnsuredMember, IssuedMember, MemberRow
    <2>2. d = [c EXCEPT !.link = link]
      BY <1>2, <2>1
    <2> QED
      BY <1>2, <1>5, <2>2 DEF Admits, c, d
  <1> QED
    BY <1>3, <1>4, <1>5 DEF RowShape

\* The course's decisions are the sweep's.
LEMMA CourseOperators ==
  ASSUME NEW k
  PROVE  /\ Course(k)!Reasons = Reasons
         /\ \A m, reason, policy, t :
              Course(k)!decide_compliance(m, reason, policy, t)
                = decide_compliance(m, reason, policy, t)
         /\ \A m, a, t : Course(k)!ApplyDecision(m, a, t) = ApplyDecision(m, a, t)
  <1>1. Course(k)!Reasons = Reasons
    BY DEF Course!Reasons, Reasons
  <1>2. \A m, reason, policy, t :
          Course(k)!decide_compliance(m, reason, policy, t)
            = decide_compliance(m, reason, policy, t)
    BY Zenon DEF Course!decide_compliance, decide_compliance, Course!Monitored, Monitored,
                 Course!InGrace, InGrace, Course!TooSoon, TooSoon, Course!NoTime, NoTime
  <1>3. \A m, a, t : Course(k)!ApplyDecision(m, a, t) = ApplyDecision(m, a, t)
    BY Zenon DEF Course!ApplyDecision, ApplyDecision, Course!NoTime, NoTime, Course!NoLink, NoLink
  <1> QED
    BY <1>1, <1>2, <1>3

\* A step that leaves the row alone is none of the course.
LEMMA CourseStutter ==
  ASSUME NEW k \in Keys, members'[k] = members[k], now' = now
  PROVE  [Course(k)!Next]_(Course(k)!vars)
  BY DEF Course!vars

\* Onboarding admits, readmits or hands out a new link.
LEMMA CourseEnrol ==
  ASSUME RecordInv, NEW u \in Users, NEW market \in Markets, NEW uid \in Uids,
         NEW check \in Checks, Enrol(u, market, uid, check), NEW k \in Keys
  PROVE  [Course(k)!Next]_(Course(k)!vars)
  <1> DEFINE row == EnsuredMember(members[k], now)
             l == Len(links) + 1
  <1>0. /\ TypeOK /\ RowShape(members[k]) /\ members[k] \in MemberRow /\ now \in Day
    BY DEF RecordInv, TypeOK, StoreTypeOK
  <1>1. now' = now
    BY <1>0, EnrolOthers
  <1>2. CASE members'[k] = members[k]
    BY <1>1, <1>2, CourseStutter
  <1>3. CASE members'[k] # members[k]
    <2>1. k = <<u, market>>
      BY <1>0, <1>3, EnrolOthers
    <2>2. Mint(k, now) /\ members'[k] = IssuedMember(row, l, now)
      BY <1>0, <1>3, <2>1, EnrolRow
    <2>3. l \in 1..MaxLinks
      BY <1>0, <2>2, MintType DEF TypeOK
    <2> HIDE DEF l
    <2>4. Admits(CourseRow(members[k]), CourseRow(members'[k]), now, l)
      BY <1>0, <2>2, <2>3, CourseAdmission
    <2>5. Course(k)!Admit \/ Course(k)!Readmit \/ Course(k)!Reissue
      BY <1>1, <2>3, <2>4
      DEF Admits, CourseRow, Course!Admit, Course!Readmit, Course!Reissue, Course!NoTime, NoTime
    <2> QED
      BY <2>5 DEF Course!Next
  <1> QED
    BY <1>2, <1>3

\* A commit is a compliance pass of every membership it decided about.
LEMMA CourseFinish ==
  ASSUME OneGrace, RecordInv, NEW i \in Instances, FinishSweep(i), NEW k \in Keys
  PROVE  [Course(k)!Next]_(Course(k)!vars)
  <1> DEFINE m == members[k]
  <1>0. PICK t \in Day : t = sweep[i].moment
    BY DEF RecordInv, TypeOK, Sweep
  <1>1. PICK reason \in Reasons, market \in Markets :
          members'[k] = ApplyDecision(m, decide_compliance(m, reason, PolicyFor(market), t), t)
    BY <1>0, FinishRow
  <1> DEFINE a == decide_compliance(m, reason, PolicyFor(market), t)
  <1>2. /\ m \in MemberRow /\ t \in Day /\ t <= now /\ RowShape(m) /\ now' = now
        /\ k[2] \in Markets
    BY <1>0 DEF RecordInv, TypeOK, StoreTypeOK, FinishSweep, Keys
  <1>3. t \in 0..now
    BY <1>2 DEF RecordInv, TypeOK, StoreTypeOK, Day
  <1>4. CASE m.status = "ABSENT"
    <2>1. a = "NONE"
      BY <1>4 DEF decide_compliance, Monitored
    <2>2. members'[k] = m
      BY <1>1, <2>1 DEF ApplyDecision
    <2> QED
      BY <1>2, <2>2, CourseStutter
  <1>5. CASE m.status # "ABSENT"
    <2> DEFINE policy == [max_warnings |-> MaxWarnings, warning_interval |-> WarningInterval,
                          grace |-> Programs[k[2]].grace]
    <2>1. PolicyFor(market) = policy
      BY <1>2 DEF PolicyFor, OneGrace
    <2>2. /\ decide_compliance(CourseRow(m), reason, policy, t) = a
          /\ ApplyDecision(CourseRow(m), a, t) = CourseRow(members'[k])
      BY <1>1, <1>2, <2>1, CourseDecision
    <2>3. CourseRow(m).status # "ABSENT"
      BY <1>2, <1>5, CourseRowIs
    <2> HIDE DEF a
    <2>4. Course(k)!Pass(reason, t)
      BY <1>2, <2>2, <2>3, CourseOperators DEF CourseRow, Course!Pass, Course!Policy
    <2>5. reason \in Course(k)!Reasons
      BY CourseOperators
    <2>6. \E r \in Course(k)!Reasons, moment \in 0..now : Course(k)!Pass(r, moment)
      BY <1>3, <2>4, <2>5
    <2>7. Course(k)!Next
      BY <2>6 DEF Course!Next
    <2> QED
      BY <2>7
  <1> QED
    BY <1>4, <1>5

\* One step of the system is a step of every course, or none.
LEMMA CourseStep ==
  ASSUME OneGrace, RecordInv, [Next]_vars, NEW k \in Keys
  PROVE  [Course(k)!Next]_(Course(k)!vars)
  <1>1. ASSUME NEW i \in Instances, StartSweep(i) \/ Claim(i) \/ Ends(i)
        PROVE  members'[k] = members[k] /\ now' = now
    BY <1>1 DEF StartSweep, Claim, Ends, Fails, StandDown, Rollback, storeVars
  <1>2. ASSUME NEW i \in Instances, NEW j \in Keys, NEW uid \in Uids, NEW check \in Checks,
               ProcessMember(i, j, uid, check)
        PROVE  members'[k] = members[k] /\ now' = now
    BY <1>2 DEF ProcessMember
  <1>3. CASE JoinChannel \/ UNCHANGED vars
    <2>1. members'[k] = members[k] /\ now' = now
      BY <1>3 DEF JoinChannel, Join, vars, storeVars
    <2> QED
      BY <2>1, CourseStutter
  <1>4. CASE DayPasses
    <2>1. Course(k)!Tick
      BY <1>4 DEF DayPasses, Tick, Course!Tick
    <2> QED
      BY <2>1 DEF Course!Next
  <1> QED
    BY <1>1, <1>2, <1>3, <1>4, CourseStutter, CourseEnrol, CourseFinish, StepKinds

\* MembershipCourse is implemented: with one instance, and one grace period for
\* every market, each membership row takes the steps of its course and no others,
\* however sweeps, failures and onboarding interleave.
THEOREM CourseImplemented == OneInstance /\ OneGrace => (Spec => FollowsCourse)
  <1> SUFFICES ASSUME OneInstance, OneGrace PROVE Spec => FollowsCourse
    OBVIOUS
  <1>1. Init => \A k \in Keys : Course(k)!Init
    <2> SUFFICES ASSUME Init, NEW k \in Keys PROVE Course(k)!Init
      OBVIOUS
    <2>1. members[k] = AbsentRow /\ now = 0
      BY DEF Init, StoreInit
    <2>2. CourseRow(members[k]) = [status |-> "ABSENT", since |-> NoTime, warnings |-> 0,
                                   lastWarning |-> NoTime, revokedAt |-> NoTime,
                                   link |-> NoLink]
      BY <2>1, AbsentRowType, CourseRowIs DEF AbsentRow
    <2> QED
      BY <2>1, <2>2 DEF CourseRow, Course!Init, Course!NoTime, Course!NoLink, NoTime, NoLink
  <1>2. RecordInv /\ [Next]_vars => [\A k \in Keys : [Course(k)!Next]_(Course(k)!vars)]_vars
    BY CourseStep
  <1>3. Spec => []RecordInv
    BY RecordInvariant
  <1> QED
    BY <1>1, <1>2, <1>3, PTL DEF Spec, FollowsCourse

-----------------------------------------------------------------------------
(* One instance, accounts of the member's own market: removals. *)

\* What a sweep's calls for a member do to the standings in the channels.
LEMMA CalledStandings ==
  ASSUME TypeOK, NEW i \in Instances, NEW k \in Keys, NEW action \in Actions,
         NEW n \in 0..Len(CallsOf(action)), Called(i, k, k, action, n)
  PROVE  /\ \A j \in Keys \ {k} : chat'[j] = chat[j]
         /\ action # "REVOKE" => chat'[k] = chat[k]
         /\ action = "REVOKE" /\ n = Len(CallsOf(action)) => chat'[k] = "out"
  <1> DEFINE done == {CallsOf(action)[j] : j \in 1..n}
  <1>1. chat \in [Keys -> Standings]
    BY DEF TypeOK, StoreTypeOK
  <1>2. chat' = [chat EXCEPT ![k] = IF "unban" \in done THEN "out"
                                    ELSE IF "ban" \in done THEN "banned" ELSE chat[k]]
    BY DEF Called
  <1>3. action # "REVOKE" => "unban" \notin done /\ "ban" \notin done
    <2>1. CASE action = "NONE"
      <3>1. CallsOf(action) = <<>>
        BY <2>1 DEF CallsOf
      <3> QED
        BY <3>1
    <2>2. CASE action \in {"WARN", "RESTORE"}
      <3>1. CallsOf(action) = <<"send">>
        BY <2>2 DEF CallsOf
      <3> QED
        BY <3>1
    <2> QED
      BY <2>1, <2>2 DEF Actions
  <1>4. ASSUME action = "REVOKE", n = Len(CallsOf(action)) PROVE "unban" \in done
    <2>1. CallsOf(action) = <<"ban", "unban", "send">>
      BY <1>4 DEF CallsOf
    <2>2. n = 3 /\ CallsOf(action)[2] = "unban"
      BY <1>4, <2>1
    <2> QED
      BY <2>2
  <1> HIDE DEF done
  <1> QED
    BY <1>1, <1>2, <1>3, <1>4

\* A member a sweep has still to deal with is invited, its subscription is its own.
LEMMA TodoInvited ==
  ASSUME OwnMarket, RecordInv, NEW i \in Instances, Running(i), NEW k \in Keys,
         k \in sweep[i].todo, NEW uid \in Uids, accounts[uid].owner = k[1]
  PROVE  /\ members[k].status = "INVITED" /\ ~Removing(i, k)
         /\ sweep[i].seen[k].status = "INVITED" /\ sweep[i].new[k] = sweep[i].seen[k]
         /\ Target(k, uid) = k
  <1>1. Pending(i, k)
    BY DEF RecordInv
  <1>2. /\ sweep[i].seen[k].status = "INVITED" /\ sweep[i].new[k] = sweep[i].seen[k]
        /\ members[k].status = "INVITED"
    BY <1>1 DEF Pending, Settled
  <1>3. accounts[uid].market = k[2]
    BY <1>2 DEF OwnMarket
  <1>4. k = <<k[1], k[2]>>
    BY DEF Keys
  <1> QED
    BY <1>2, <1>3, <1>4 DEF Removing, Target

\* Whoever is out stays out, but for links they still held, while no sweep calls
\* Telegram about them.
LEMMA OutStays ==
  ASSUME TypeOK, NEW k \in Keys, NEW t \in Int, t <= now, IsOut(k, t),
         held \subseteq held',
         \/ chat'[k] = chat[k] /\ links' = links
         \/ \E j \in Keys : chat'[k] = chat[k] /\ Mint(j, now)
         \/ \E j \in Keys, l \in 1..Len(links) : Join(j, l)
  PROVE  IsOut(k, t)'
  <1>0. links \in Seq(Link) /\ Len(links) \in Nat /\ chat \in [Keys -> Standings]
        /\ now \in Nat
    BY DEF TypeOK, StoreTypeOK, Day
  <1>1. CASE chat'[k] = chat[k] /\ links' = links
    BY <1>1 DEF IsOut
  <1>2. ASSUME NEW j \in Keys, chat'[k] = chat[k], Mint(j, now) PROVE IsOut(k, t)'
    <2>1. /\ Len(links') = Len(links) + 1
          /\ \A l \in 1..Len(links) : links'[l] = links[l]
      BY <1>0, <1>2 DEF Mint
    <2> QED
      BY <1>0, <1>2, <2>1 DEF IsOut
  <1>3. ASSUME NEW j \in Keys, NEW l \in 1..Len(links), Join(j, l) PROVE IsOut(k, t)'
    <2>1. /\ l \in held /\ links[l].key = j /\ now < links[l].expires
          /\ chat' = [chat EXCEPT ![j] = "in"]
          /\ links' = [links EXCEPT ![l] = [links[l] EXCEPT !.used = TRUE]]
      BY <1>3 DEF Join
    <2>2. links[l] \in Link /\ l \in DOMAIN links
      BY <1>0
    <2>3. /\ Len(links') = Len(links)
          /\ \A h \in (1..Len(links)) \ {l} : links'[h] = links[h]
          /\ links'[l] = [links[l] EXCEPT !.used = TRUE]
      <3>1. [links[l] EXCEPT !.used = TRUE] \in Link
        BY <2>2 DEF Link
      <3> QED
        BY <1>0, <2>1, <2>2, <3>1
    <2>4. /\ links'[l].key = links[l].key /\ links'[l].expires = links[l].expires
          /\ links'[l].used /\ links[l].expires \in Nat
      BY <2>2, <2>3 DEF Link
    <2>5. CASE j = k
      <3>1. chat'[k] # "banned"
        BY <1>0, <2>1, <2>5
      <3>2. links'[l].expires > t
        BY <1>0, <2>1, <2>4
      <3>3. l \in held' /\ l \in 1..Len(links') /\ links'[l].key = k
        BY <2>1, <2>3, <2>4, <2>5
      <3> QED
        BY <2>4, <3>1, <3>2, <3>3 DEF IsOut
    <2>6. CASE j # k
      <3>1. chat'[k] = chat[k]
        BY <1>0, <2>1, <2>6
      <3>2. \A h \in 1..Len(links) :
              h \in 1..Len(links') /\ links'[h].key = links[h].key
              /\ links'[h].expires = links[h].expires /\ (links[h].used => links'[h].used)
        BY <2>3, <2>4
      <3> QED
        BY <3>1, <3>2 DEF IsOut
    <2> QED
      BY <2>5, <2>6
  <1> QED
    BY <1>1, <1>2, <1>3

\* What a removal on day t did at Telegram lasts, as long as no sweep has the member
\* still to deal with.
LEMMA OutStep ==
  ASSUME OwnMarket, RecordInv, [Next]_vars, NEW k \in Keys, NEW t \in Int, t <= now,
         IsOut(k, t), \A i \in Instances : Running(i) => k \notin sweep[i].todo
  PROVE  IsOut(k, t)'
  <1>0. TypeOK
    BY DEF RecordInv
  <1>1. ASSUME chat'[k] = chat[k], links' = links, held' = held PROVE IsOut(k, t)'
    BY <1>0, <1>1, OutStays
  <1>2. ASSUME NEW i \in Instances, StartSweep(i) \/ Claim(i) \/ StandDown(i) \/ FinishSweep(i)
        PROVE  chat'[k] = chat[k] /\ links' = links /\ held' = held
    BY <1>2 DEF StartSweep, Claim, StandDown, FinishSweep, storeVars
  <1>3. ASSUME NEW i \in Instances, NEW j \in Keys, NEW uid \in Uids, NEW check \in Checks,
               Running(i), j \in sweep[i].todo, accounts[uid].owner = j[1], NEW action,
               action = Decision(i, j, uid, check), NEW n \in 0..Len(CallsOf(action)),
               Called(i, j, Target(j, uid), action, n)
        PROVE  chat'[k] = chat[k]
    <2>1. Target(j, uid) = j /\ j # k
      BY <1>3, TodoInvited
    <2>2. action \in Actions
      BY <1>3 DEF Decision, decide_compliance, Actions
    <2>3. Called(i, j, j, action, n)
      BY <1>3, <2>1
    <2> QED
      BY <1>0, <2>1, <2>2, <2>3, CalledStandings
  <1>4. ASSUME NEW i \in Instances, Fails(i)
        PROVE  chat'[k] = chat[k] /\ links' = links /\ held' = held
    <2>1. links' = links /\ held' = held /\ Running(i)
      BY <1>4 DEF Fails, Rollback
    <2>2. CASE UNCHANGED <<chat, notices, told>>
      BY <2>1, <2>2
    <2>3. CASE ~UNCHANGED <<chat, notices, told>>
      <3>1. PICK j \in Keys, uid \in Uids, check \in Checks :
              /\ j \in sweep[i].todo /\ accounts[uid].owner = j[1]
              /\ \E n \in 0..Len(CallsOf(Decision(i, j, uid, check))) :
                   Called(i, j, Target(j, uid), Decision(i, j, uid, check), n)
        BY <1>4, <2>3 DEF Fails, AccountsOf
      <3> QED
        BY <1>3, <2>1, <3>1
    <2> QED
      BY <2>2, <2>3
  <1>5. ASSUME NEW i \in Instances, NEW j \in Keys, NEW uid \in Uids, NEW check \in Checks,
               ProcessMember(i, j, uid, check)
        PROVE  chat'[k] = chat[k] /\ links' = links /\ held' = held
    <2> DEFINE action == Decision(i, j, uid, check)
    <2>1. /\ links' = links /\ held' = held /\ Running(i) /\ j \in sweep[i].todo
          /\ accounts[uid].owner = j[1]
      BY <1>0, <1>5, ProcessEffect DEF Running
    <2>2. Called(i, j, Target(j, uid), action, Len(CallsOf(action)))
      BY <1>5 DEF ProcessMember
    <2>3. action \in Actions
      BY DEF Decision, decide_compliance, Actions
    <2>4. Len(CallsOf(action)) \in 0..Len(CallsOf(action))
      BY <2>3 DEF CallsOf, Actions
    <2> QED
      BY <1>3, <2>1, <2>2, <2>4
  <1>6. ASSUME NEW u \in Users, NEW m \in Markets, NEW uid \in Uids, NEW check \in Checks,
               Enrol(u, m, uid, check)
        PROVE  IsOut(k, t)'
    <2>1. chat' = chat /\ held \subseteq held' /\ <<u, m>> \in Keys
      BY <1>0, <1>6, EnrolOthers DEF Keys
    <2>2. links' = links \/ Mint(<<u, m>>, now)
      BY <1>0, <1>6, <2>1, EnrolRow
    <2> QED
      BY <1>0, <2>1, <2>2, OutStays
  <1>7. CASE JoinChannel
    <2>1. PICK j \in Keys, l \in 1..Len(links) : Join(j, l)
      BY <1>7 DEF JoinChannel
    <2>2. held' = held
      BY <2>1 DEF Join
    <2> QED
      BY <1>0, <2>1, <2>2, OutStays
  <1>8. CASE DayPasses \/ UNCHANGED vars
    BY <1>1, <1>8 DEF DayPasses, Tick, vars, storeVars
  <1> QED
    BY <1>1, <1>2, <1>4, <1>5, <1>6, <1>7, <1>8, StepKinds DEF Ends

\* The row of a member, its subscription and its standing after one step.
LEMMA AgreesStep ==
  ASSUME OwnMarket, RemovalInv, [Next]_vars, NEW k \in Keys
  PROVE  Agrees(k)'
  <1> DEFINE m == members[k]
  <1>0. /\ RecordInv /\ TypeOK /\ Agrees(k) /\ RowShape(m) /\ m \in MemberRow
        /\ subs[k] \in SubRow /\ now \in Day /\ now \in Nat /\ m.revokedAt \in Int
    BY DEF RemovalInv, RecordInv, TypeOK, StoreTypeOK, Day, MemberRow, NoTime
  \* A row that stays as it is.
  <1>1. ASSUME members'[k] = m, now' \in {now, now + 1}, subs'[k] = subs[k]
        PROVE  Agrees(k)'
    <2>1. CASE m.status = "REVOKED"
      <3>1. PICK t \in Int : t = m.revokedAt
        BY <1>0
      <3>2. t <= now /\ IsOut(k, t) /\ subs[k].status = "EXPIRED"
        BY <1>0, <2>1, <3>1 DEF Agrees
      <3>3. \A i \in Instances : Running(i) => k \notin sweep[i].todo
        BY <1>0, <2>1 DEF RecordInv, Pending, Settled
      <3>4. IsOut(k, t)'
        BY <1>0, <3>2, <3>3, OutStep
      <3>5. IsOut(k, members[k].revokedAt)'
        BY <1>1, <3>1, <3>4 DEF IsOut
      <3> QED
        BY <1>0, <1>1, <2>1, <3>1, <3>2, <3>5 DEF Agrees
    <2>2. CASE m.status # "REVOKED"
      BY <1>0, <1>1, <2>2 DEF Agrees
    <2> QED
      BY <2>1, <2>2
  <1>2. ASSUME NEW i \in Instances, StartSweep(i) \/ Claim(i) \/ Ends(i) PROVE Agrees(k)'
    <2>1. members'[k] = m /\ now' = now /\ subs'[k] = subs[k]
      BY <1>2 DEF StartSweep, Claim, Ends, Fails, StandDown, Rollback, storeVars
    <2> QED
      BY <1>1, <2>1
  <1>3. ASSUME NEW i \in Instances, NEW j \in Keys, NEW uid \in Uids, NEW check \in Checks,
               ProcessMember(i, j, uid, check)
        PROVE  Agrees(k)'
    <2>1. members'[k] = m /\ now' = now /\ subs'[k] = subs[k]
      BY <1>3 DEF ProcessMember
    <2> QED
      BY <1>1, <2>1
  <1>4. ASSUME NEW i \in Instances, FinishSweep(i) PROVE Agrees(k)'
    <2> DEFINE s == sweep[i].seen[k]
               n == sweep[i].new[k]
    <2>0. PICK t \in Day : t = sweep[i].moment
      BY <1>0 DEF TypeOK, Sweep
    <2>1. PICK reason \in Reasons, market \in Markets :
            LET a == decide_compliance(m, reason, PolicyFor(market), t)
            IN  /\ members'[k] = ApplyDecision(m, a, t) /\ n = ApplyDecision(s, a, t)
                /\ a # "NONE" => Settled(m, s)
      BY <1>0, <1>4, <2>0, FinishRow
    <2> DEFINE a == decide_compliance(m, reason, PolicyFor(market), t)
    <2>2. a \in Actions /\ (a # "NONE" => m.status = "INVITED")
      BY <1>0, DecisionShape
    <2> HIDE DEF a
    <2>3. /\ members'[k] = ApplyDecision(m, a, t) /\ n = ApplyDecision(s, a, t)
          /\ a # "NONE" => s.status = "INVITED"
      BY <2>1, <2>2 DEF a, Settled
    <2>4. /\ Running(i) /\ now' = now /\ chat' = chat /\ links' = links /\ held' = held
          /\ subs'[k] = IF k \in sweep[i].ended THEN [subs[k] EXCEPT !.status = "EXPIRED"]
                        ELSE subs[k]
      BY <1>4 DEF FinishSweep
    <2>5. s \in MemberRow /\ t <= now
      BY <1>0, <2>0 DEF RecordInv, TypeOK, Sweep
    <2>6. /\ k \in sweep[i].ended <=> Removing(i, k)
          /\ Removing(i, k) => IsOut(k, t)
      BY <2>0, <2>4 DEF RemovalInv, EndsOf
    <2>7. CASE a = "REVOKE"
      <3>1. n.status = "REVOKED" /\ members'[k].status = "REVOKED" /\ members'[k].revokedAt = t
        BY <1>0, <2>3, <2>5, <2>7 DEF ApplyDecision, MemberRow
      <3>2. Removing(i, k)
        BY <2>3, <2>7, <3>1 DEF Removing
      <3>3. subs'[k].status = "EXPIRED" /\ subs'[k].n = subs[k].n
        BY <1>0, <2>4, <2>6, <3>2 DEF SubRow
      <3>4. IsOut(k, members[k].revokedAt)'
        BY <2>4, <2>6, <3>1, <3>2 DEF IsOut
      <3> QED
        BY <1>0, <2>4, <2>5, <3>1, <3>3, <3>4 DEF Agrees
    <2>8. CASE a = "NONE"
      <3>1. members'[k] = m /\ n = s
        BY <2>3, <2>8 DEF ApplyDecision
      <3>2. ~Removing(i, k)
        BY <3>1 DEF Removing
      <3>3. subs'[k] = subs[k]
        BY <2>4, <2>6, <3>2
      <3> QED
        BY <1>1, <2>4, <3>1, <3>3
    <2>9. CASE a \in {"WARN", "RESTORE"}
      <3>1. n.status = "INVITED" /\ members'[k].status = "INVITED" /\ m.status = "INVITED"
        BY <1>0, <2>2, <2>3, <2>5, <2>9 DEF ApplyDecision, MemberRow
      <3>2. subs'[k] = subs[k]
        BY <2>4, <2>6, <3>1 DEF Removing
      <3> QED
        BY <1>0, <3>1, <3>2 DEF Agrees
    <2> QED
      BY <2>2, <2>7, <2>8, <2>9 DEF Actions
  <1>5. ASSUME NEW u \in Users, NEW market \in Markets, NEW uid \in Uids, NEW check \in Checks,
               Enrol(u, market, uid, check)
        PROVE  Agrees(k)'
    <2>0. now' = now
      BY <1>0, <1>5, EnrolOthers
    <2>1. CASE k # <<u, market>>
      BY <1>0, <1>1, <1>5, <2>0, <2>1, EnrolOthers
    <2>2. CASE k = <<u, market>>
      <3> DEFINE row == EnsuredMember(m, now)
      <3>1. \/ members' = members /\ subs'[k] = subs[k]
            \/ /\ members' = members /\ m.status \in {"INVITED", "ACTIVE"}
               /\ subs'[k] = EnsuredSub(subs[k])
            \/ /\ Mint(k, now) /\ members'[k] = IssuedMember(row, Len(links) + 1, now)
               /\ subs'[k] = EnsuredSub(subs[k])
        BY <1>0, <1>5, <2>2, EnrolRow
      <3>2. EnsuredSub(subs[k]) = [n |-> 1, status |-> "ACTIVE"]
        BY <1>0 DEF Agrees, EnsuredSub
      <3>3. CASE members' = members /\ subs'[k] = subs[k]
        BY <1>1, <2>0, <3>3
      <3>4. CASE /\ members' = members /\ m.status \in {"INVITED", "ACTIVE"}
                 /\ subs'[k] = EnsuredSub(subs[k])
        BY <3>2, <3>4 DEF Agrees
      <3>5. CASE /\ Mint(k, now) /\ members'[k] = IssuedMember(row, Len(links) + 1, now)
                 /\ subs'[k] = EnsuredSub(subs[k])
        <4>1. Len(links) + 1 \in 1..MaxLinks
          BY <1>0, <3>5, MintType DEF TypeOK
        <4>2. members'[k].status = "INVITED"
          BY <1>0, <3>5, <4>1, AdmissionShape
        <4> QED
          BY <3>2, <3>5, <4>2 DEF Agrees
      <3> QED
        BY <3>1, <3>3, <3>4, <3>5
    <2> QED
      BY <2>1, <2>2
  <1>6. CASE JoinChannel \/ DayPasses \/ UNCHANGED vars
    <2>1. members'[k] = m /\ now' \in {now, now + 1} /\ subs'[k] = subs[k]
      BY <1>6 DEF JoinChannel, Join, DayPasses, Tick, vars, storeVars
    <2> QED
      BY <1>1, <2>1
  <1> QED
    BY <1>2, <1>3, <1>4, <1>5, <1>6, StepKinds

\* The subscriptions the one sweep will end, after one step.
LEMMA EndsStep ==
  ASSUME OneInstance, OwnMarket, RemovalInv, [Next]_vars, NEW i \in Instances
  PROVE  EndsOf(i)'
  <1>0. /\ RecordInv /\ TypeOK /\ EndsOf(i) /\ \A j \in Instances : j = i
        /\ sweep \in [Instances -> Sweep] /\ sweep[i] \in Sweep
    BY DEF RemovalInv, RecordInv, TypeOK, OneInstance
  \* What a removal did at Telegram lasts.
  <1>1. ASSUME Running(i), NEW k \in Keys, Removing(i, k), sweep'[i].moment = sweep[i].moment
        PROVE  IsOut(k, sweep[i].moment)'
    <2>1. PICK t \in Int : t = sweep[i].moment
      BY <1>0 DEF Sweep, Day
    <2>2. t <= now /\ IsOut(k, t)
      BY <1>0, <1>1, <2>1 DEF RecordInv, EndsOf
    <2>3. \A j \in Instances : Running(j) => k \notin sweep[j].todo
      BY <1>0, <1>1 DEF RecordInv, Pending, Removing
    <2>4. IsOut(k, t)'
      BY <1>0, <2>2, <2>3, OutStep
    <2> QED
      BY <1>1, <2>1, <2>4 DEF IsOut
  <1>2. ASSUME sweep' = sweep PROVE EndsOf(i)'
    <2>1. CASE Running(i)
      <3>1. \A k \in Keys : Removing(i, k) => IsOut(k, sweep[i].moment)'
        BY <1>1, <1>2, <2>1
      <3>2. \A k \in Keys : (k \in sweep[i].ended <=> Removing(i, k))
        BY <1>0, <2>1 DEF EndsOf
      <3> QED
        BY <1>2, <2>1, <3>1, <3>2 DEF EndsOf, Running, Removing
    <2>2. CASE ~Running(i)
      BY <1>0, <1>2, <2>2 DEF EndsOf, Running
    <2> QED
      BY <2>1, <2>2
  <1>3. CASE StartSweep(i)
    <2>1. sweep[i].stage = "idle" /\ sweep'[i].stage = "claiming"
          /\ sweep'[i].ended = sweep[i].ended
      BY <1>0, <1>3, StartEffect
    <2> QED
      BY <1>0, <2>1 DEF EndsOf, Running
  <1>4. CASE Claim(i)
    <2>1. /\ sweep[i].stage = "claiming" /\ sweep'[i].stage = "running"
          /\ sweep'[i].seen = members /\ sweep'[i].new = members
          /\ sweep'[i].ended = sweep[i].ended
      BY <1>0, <1>4, ClaimEffect
    <2>2. sweep'[i].ended = {}
      BY <1>0, <2>1 DEF EndsOf, Running
    <2>3. \A k \in Keys : ~Removing(i, k)'
      BY <2>1 DEF Removing
    <2> QED
      BY <2>1, <2>2, <2>3 DEF EndsOf, Running
  <1>5. CASE Ends(i) \/ FinishSweep(i)
    <2>1. sweep'[i] = Idle
      BY <1>0, <1>5, EndsKeeps DEF FinishSweep
    <2> QED
      BY <2>1 DEF EndsOf, Running, Idle
  <1>6. ASSUME NEW j \in Keys, NEW uid \in Uids, NEW check \in Checks,
               ProcessMember(i, j, uid, check)
        PROVE  EndsOf(i)'
    <2> DEFINE a == Decision(i, j, uid, check)
               s == sweep[i]
    <2>1. /\ s.stage = "running" /\ j \in s.todo /\ accounts[uid].owner = j[1]
          /\ sweep'[i].stage = "running" /\ sweep'[i].moment = s.moment
          /\ sweep'[i].seen = s.seen
          /\ sweep'[i].new = [s.new EXCEPT ![j] = ApplyDecision(s.new[j], a, s.moment)]
          /\ sweep'[i].ended = IF a = "REVOKE" /\ subs[Target(j, uid)].n > 0
                               THEN s.ended \cup {Target(j, uid)} ELSE s.ended
      BY <1>0, <1>6, ProcessEffect
    <2>2. /\ members[j].status = "INVITED" /\ ~Removing(i, j) /\ s.seen[j].status = "INVITED"
          /\ s.new[j] = s.seen[j] /\ Target(j, uid) = j
      BY <1>0, <2>1, TodoInvited DEF Running
    <2>3. subs[j].n > 0
      BY <2>2 DEF RemovalInv, Agrees
    <2>4. a \in Actions /\ s.new \in [Keys -> MemberRow] /\ s.new[j] \in MemberRow
      BY <1>0 DEF Decision, decide_compliance, Actions, Sweep
    <2>5. Called(i, j, j, a, Len(CallsOf(a)))
      BY <1>6, <2>2 DEF ProcessMember
    <2> HIDE DEF a
    <2>6. sweep'[i].ended = IF a = "REVOKE" THEN s.ended \cup {j} ELSE s.ended
      BY <2>1, <2>2, <2>3
    <2>7. sweep'[i].new[j].status = "REVOKED" <=> a = "REVOKE"
      <3>1. sweep'[i].new[j] = ApplyDecision(s.new[j], a, s.moment)
        BY <2>1, <2>4
      <3> QED
        BY <2>2, <2>4, <3>1 DEF ApplyDecision, Actions, MemberRow
    <2>8. ASSUME NEW k \in Keys
          PROVE  /\ k \in sweep'[i].ended <=> Removing(i, k)'
                 /\ Removing(i, k)' => IsOut(k, sweep[i].moment)'
      <3>0. k \in s.ended <=> Removing(i, k)
        BY <1>0, <2>1 DEF EndsOf, Running
      <3>1. CASE k # j
        <4>1. Removing(i, k)' <=> Removing(i, k)
          BY <2>1, <2>4, <3>1 DEF Removing
        <4>2. k \in sweep'[i].ended <=> k \in s.ended
          BY <2>6, <3>1
        <4>3. Removing(i, k) => IsOut(k, sweep[i].moment)'
          BY <1>1, <2>1 DEF Running
        <4> QED
          BY <3>0, <4>1, <4>2, <4>3
      <3>2. CASE k = j
        <4>1. Removing(i, k)' <=> a = "REVOKE"
          BY <2>1, <2>2, <2>7, <3>2 DEF Removing
        <4>2. k \in sweep'[i].ended <=> a = "REVOKE"
          BY <2>2, <2>6, <3>0, <3>2
        <4>3. ASSUME a = "REVOKE" PROVE chat'[k] = "out"
          <5>1. Len(CallsOf(a)) \in 0..Len(CallsOf(a))
            BY <2>4 DEF CallsOf, Actions
          <5> QED
            BY <1>0, <2>4, <2>5, <3>2, <4>3, <5>1, CalledStandings
        <4> QED
          BY <4>1, <4>2, <4>3 DEF IsOut
      <3> QED
        BY <3>1, <3>2
    <2> QED
      BY <2>1, <2>8 DEF EndsOf, Running
  <1>7. ASSUME NEW u \in Users, NEW m \in Markets, NEW uid \in Uids, NEW check \in Checks,
               Enrol(u, m, uid, check)
        PROVE  sweep' = sweep
    BY <1>0, <1>7, EnrolOthers
  <1>8. CASE JoinChannel \/ DayPasses \/ UNCHANGED vars
    BY <1>2, <1>8 DEF JoinChannel, DayPasses, vars, monitorVars
  <1> QED
    BY <1>0, <1>2, <1>3, <1>4, <1>5, <1>6, <1>7, <1>8, StepKinds

\* With one instance, and no account of another market than its owner's
\* memberships: whoever is recorded as removed was really put out, and a sweep that
\* has put somebody out will record it and end the subscription.
THEOREM RemovalInvariant == OneInstance => (Spec /\ []OwnMarket => []RemovalInv)
  <1> SUFFICES ASSUME OneInstance PROVE Spec /\ []OwnMarket => []RemovalInv
    OBVIOUS
  <1>1. Init => RemovalInv
    <2> SUFFICES ASSUME Init PROVE RemovalInv
      OBVIOUS
    <2>1. \A k \in Keys : Agrees(k)
      BY DEF Init, StoreInit, AbsentRow, Agrees
    <2>2. \A i \in Instances : EndsOf(i)
      BY DEF Init, Idle, Running, EndsOf
    <2> QED
      BY <2>1, <2>2, RecordInit DEF RemovalInv
  <1>2. OwnMarket /\ RemovalInv /\ [Next]_vars => RemovalInv'
    <2> SUFFICES ASSUME OwnMarket, RemovalInv, [Next]_vars PROVE RemovalInv'
      OBVIOUS
    <2>1. RecordInv'
      BY RecordStep DEF RemovalInv
    <2> QED
      BY <2>1, AgreesStep, EndsStep DEF RemovalInv
  <1> QED
    BY <1>1, <1>2, PTL DEF Spec

\* _apply lifts its own ban: a member recorded as removed may come back with a new
\* link, whatever sweeps failed between the ban and its lifting before.
THEOREM RemovedMayReturn == OneInstance => (Spec /\ []OwnMarket => []RevokedMayReturn)
  <1> SUFFICES ASSUME OneInstance PROVE Spec /\ []OwnMarket => []RevokedMayReturn
    OBVIOUS
  <1>1. RemovalInv => RevokedMayReturn
    BY DEF RemovalInv, Agrees, IsOut, RevokedMayReturn
  <1>2. Spec /\ []OwnMarket => []RemovalInv
    BY RemovalInvariant
  <1> QED
    BY <1>1, <1>2, PTL

\* membership.py, "a removal names the channel it removes from": a member recorded
\* as removed is out of that channel, or back through a link still open then.
THEOREM RemovedIsOut == OneInstance => (Spec /\ []OwnMarket => []RevokedIsOut)
  <1> SUFFICES ASSUME OneInstance PROVE Spec /\ []OwnMarket => []RevokedIsOut
    OBVIOUS
  <1>1. RemovalInv => RevokedIsOut
    BY DEF RemovalInv, Agrees, IsOut, RevokedIsOut
  <1>2. Spec /\ []OwnMarket => []RemovalInv
    BY RemovalInvariant
  <1> QED
    BY <1>1, <1>2, PTL

\* enums.py, "an EXPIRED entitlement leaves a REVOKED membership": row and
\* subscription agree in every committed state, through removals and returns.
THEOREM EntitlementsFollow == OneInstance => (Spec /\ []OwnMarket => []EntitlementMatches)
  <1> SUFFICES ASSUME OneInstance PROVE Spec /\ []OwnMarket => []EntitlementMatches
    OBVIOUS
  <1>1. RemovalInv => EntitlementMatches
    BY DEF RemovalInv, Agrees, EntitlementMatches
  <1>2. Spec /\ []OwnMarket => []RemovalInv
    BY RemovalInvariant
  <1> QED
    BY <1>1, <1>2, PTL
=============================================================================
