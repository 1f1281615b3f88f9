--------------------- MODULE ComplianceScheduler_proofs ---------------------
(***************************************************************************)
(* Tenant isolation of the scheduled passes and the API requests, for any  *)
(* number of tenants, processes, connections and requests and however the  *)
(* connections are pooled.                                                 *)
(***************************************************************************)
EXTENDS ComplianceScheduler, TLAPS

\* No two sessions have the same connection.
OwnConnection ==
  \A p, q \in Clients : InTransaction(p) /\ p # q => session[p].conn # session[q].conn

\* On PostgreSQL, the setting of a connection in use is its session's tenant.
SettingIsOwn ==
  \A p \in Clients : InTransaction(p) /\ postgres => setting[session[p].conn] = session[p].tenant

\* A connection that lies in the pool carries no tenant over to its next user.
PoolIsClean ==
  \A c \in Conns : (\A p \in Clients : session[p].conn # c) => setting[c] = NoTenant

\* The inductive invariant behind ScopedExactly.
ScopeInv == ScopeTypeOK /\ OwnConnection /\ SettingIsOwn /\ PoolIsClean

-----------------------------------------------------------------------------
(* Sessions, whoever opens them. *)

\* A transaction that begins gets a connection of its own, clean, and publishes
\* its tenant there.
LEMMA BeginScope ==
  ASSUME ScopeInv, NEW p \in Clients, NEW t \in Tenants \cup {NoTenant}, Begin(p, t)
  PROVE  ScopeInv'
  <1>1. PICK c \in Pool[p] :
          /\ \A q \in Clients : session[q].conn # c
          /\ session' = [session EXCEPT ![p] = [tenant |-> t, conn |-> c]]
          /\ setting' = Published(c, t)
    BY DEF Begin
  <1>2. c \in Conns /\ c # NoConn
    BY ScopeAssumption
  <1>3. /\ postgres' = postgres /\ postgres \in BOOLEAN
        /\ setting \in [Conns -> Tenants \cup {NoTenant}] /\ session \in [Clients -> Session]
    BY DEF ScopeInv, ScopeTypeOK, Begin
  <1>4. setting[c] = NoTenant
    BY <1>1, <1>2 DEF ScopeInv, PoolIsClean
  <1>5. /\ setting' \in [Conns -> Tenants \cup {NoTenant}]
        /\ \A d \in Conns \ {c} : setting'[d] = setting[d]
        /\ postgres => setting'[c] = t
    BY <1>1, <1>2, <1>3, <1>4 DEF Published
  <1>6. /\ session'[p] = [tenant |-> t, conn |-> c]
        /\ \A q \in Clients \ {p} : session'[q] = session[q]
    BY <1>1, <1>3
  <1>7. ScopeTypeOK'
    <2>1. [tenant |-> t, conn |-> c] \in Session
      BY <1>2 DEF Session
    <2> QED
      BY <1>1, <1>3, <1>5, <2>1 DEF ScopeTypeOK
  <1>8. OwnConnection'
    BY <1>1, <1>6 DEF ScopeInv, OwnConnection, InTransaction
  <1>9. SettingIsOwn'
    <2> SUFFICES ASSUME NEW q \in Clients, InTransaction(q)', postgres
                 PROVE  setting'[session'[q].conn] = session'[q].tenant
      BY <1>3 DEF SettingIsOwn
    <2>1. CASE q = p
      BY <1>5, <1>6, <2>1
    <2>2. CASE q # p
      <3>1. session'[q] = session[q] /\ InTransaction(q)
        BY <1>6, <2>2 DEF InTransaction
      <3>2. session[q].conn \in Conns /\ session[q].conn # c
        BY <1>1, <1>3, <3>1 DEF InTransaction, Session
      <3> QED
        BY <1>5, <3>1, <3>2 DEF ScopeInv, SettingIsOwn
    <2> QED
      BY <2>1, <2>2
  <1>10. PoolIsClean'
    <2> SUFFICES ASSUME NEW d \in Conns, \A q \in Clients : session'[q].conn # d
                 PROVE  setting'[d] = NoTenant
      BY DEF PoolIsClean
    <2>1. d # c
      BY <1>6
    <2>2. \A q \in Clients : session[q].conn # d
      <3>1. session[p].conn = NoConn /\ NoConn \notin Conns
        BY ScopeAssumption DEF Begin, InTransaction
      <3> QED
        BY <1>6, <3>1
    <2> QED
      BY <1>5, <2>1, <2>2 DEF ScopeInv, PoolIsClean
  <1> QED
    BY <1>7, <1>8, <1>9, <1>10 DEF ScopeInv

\* A transaction that ends leaves its connection clean and the others theirs.
LEMMA EndScope ==
  ASSUME ScopeInv, NEW p \in Clients, End(p)
  PROVE  ScopeInv'
  <1> DEFINE c == session[p].conn
  <1>1. /\ postgres' = postgres /\ postgres \in BOOLEAN
        /\ setting \in [Conns -> Tenants \cup {NoTenant}] /\ session \in [Clients -> Session]
        /\ setting' = [setting EXCEPT ![c] = NoTenant]
        /\ session' = [session EXCEPT ![p] = Closed]
    BY DEF ScopeInv, ScopeTypeOK, End, Unpublished
  <1>2. Closed \in Session
    BY DEF Closed, Session
  <1>3. ScopeTypeOK'
    BY <1>1, <1>2 DEF ScopeTypeOK
  <1>4. session'[p].conn = NoConn /\ \A q \in Clients \ {p} : session'[q] = session[q]
    BY <1>1 DEF Closed
  <1>5. OwnConnection'
    BY <1>4 DEF ScopeInv, OwnConnection, InTransaction
  <1>6. SettingIsOwn'
    <2> SUFFICES ASSUME NEW q \in Clients, InTransaction(q)', postgres
                 PROVE  setting'[session'[q].conn] = session'[q].tenant
      BY <1>1 DEF SettingIsOwn
    <2>1. q # p /\ session'[q] = session[q] /\ InTransaction(q)
      BY <1>4 DEF InTransaction
    <2>2. session[q].conn # c
      BY <2>1 DEF ScopeInv, OwnConnection
    <2>3. setting[session[q].conn] = session[q].tenant
      BY <2>1 DEF ScopeInv, SettingIsOwn
    <2> QED
      BY <1>1, <2>1, <2>2, <2>3
  <1>7. PoolIsClean'
    <2> SUFFICES ASSUME NEW d \in Conns, \A q \in Clients : session'[q].conn # d
                 PROVE  setting'[d] = NoTenant
      BY DEF PoolIsClean
    <2>1. CASE d = c
      BY <1>1, <2>1
    <2>2. CASE d # c
      <3>1. \A q \in Clients : session[q].conn # d
        BY <1>4, <2>2
      <3> QED
        BY <1>1, <2>2, <3>1 DEF ScopeInv, PoolIsClean
    <2> QED
      BY <2>1, <2>2
  <1> QED
    BY <1>3, <1>5, <1>6, <1>7 DEF ScopeInv

\* A step that leaves the sessions alone leaves their isolation alone.
LEMMA StillScope == ScopeInv /\ UNCHANGED scopeVars => ScopeInv'
  BY DEF ScopeInv, ScopeTypeOK, OwnConnection, SettingIsOwn, PoolIsClean, InTransaction,
         scopeVars

\* What a session of the invariant can see.
LEMMA SeesOwn ==
  ASSUME ScopeInv, NEW p \in Clients, InTransaction(p)
  PROVE  /\ session[p].tenant # NoTenant => OrmSees(p) = {session[p].tenant}
         /\ postgres => CoreSees(p) = {session[p].tenant} \ {NoTenant}
  <1>1. session[p].tenant \in Tenants \cup {NoTenant} /\ NoTenant \notin Tenants
    BY ScopeAssumption DEF ScopeInv, ScopeTypeOK, Session
  <1>2. postgres => setting[session[p].conn] = session[p].tenant
    BY DEF ScopeInv, SettingIsOwn
  <1> QED
    BY <1>1, <1>2 DEF OrmSees, CoreSees, Policy, Criteria

-----------------------------------------------------------------------------
(* The scheduler and the requests. *)

\* Whoever runs a pass or a request may have a session.
LEMMA WhoIsClient == Instances \subseteq Clients /\ Requests \subseteq Clients
  BY SchedulerAssumption

\* A step of a pass opens a session, of the registry or of the next tenant, ends
\* one, or leaves them all alone.
LEMMA PassScope ==
  ASSUME NEW i \in Instances, Fire(i) \/ Advance(i) \/ Crash(i)
  PROVE  \/ \E t \in Tenants \cup {NoTenant} : Begin(i, t)
         \/ End(i)
         \/ UNCHANGED scopeVars
  BY DEF Fire, Advance, Crash, OpenRegistry, ReadRegistry, OpenTenant, Build, Skip,
         Abandon, Claim, StandDown, Finish, Fail, EndPass

\* So does a step of a request.
LEMMA RequestScope ==
  ASSUME NEW r \in Requests,
         \/ \E t \in Tenants, kind \in {"payment", "credential"} : Receive(r, t, kind)
         \/ Answer(r)
  PROVE  (\E t \in Tenants : Begin(r, t)) \/ End(r)
  BY DEF Receive, Answer, Commit, Reject

\* Every step keeps the sessions apart.
LEMMA NextScope == ScopeInv /\ [Next]_vars => ScopeInv'
  <1> SUFFICES ASSUME ScopeInv, [Next]_vars PROVE ScopeInv'
    OBVIOUS
  <1>1. ASSUME NEW i \in Instances, Fire(i) \/ Advance(i) \/ Crash(i) PROVE ScopeInv'
    BY <1>1, PassScope, BeginScope, EndScope, StillScope, WhoIsClient
  <1>2. ASSUME NEW r \in Requests,
               \/ \E t \in Tenants, kind \in {"payment", "credential"} : Receive(r, t, kind)
               \/ Answer(r)
        PROVE  ScopeInv'
    BY <1>2, RequestScope, BeginScope, EndScope, WhoIsClient
  <1>3. CASE ChangeKey \/ NextPeriod \/ UNCHANGED vars
    BY <1>3, StillScope DEF ChangeKey, NextPeriod, vars
  <1> QED
    BY <1>1, <1>2, <1>3 DEF Next

\* Connections are never shared, never carry a tenant over, and always say whose
\* session they serve: the inductive invariant of tenant isolation.
THEOREM SessionsApart == Spec => []ScopeInv
  <1>1. Init => ScopeInv
    BY ScopeAssumption
    DEF Init, ScopeInit, ScopeInv, ScopeTypeOK, OwnConnection, SettingIsOwn, PoolIsClean,
        InTransaction, Closed, Session
  <1> QED
    BY <1>1, NextScope, PTL DEF Spec

\* tenant_scope.py:28: a session of a tenant reads that tenant's rows, all of
\* them and no others, and one without a tenant reaches nobody's on PostgreSQL,
\* whatever the passes, the requests, crashes and rollbacks did to the pooled
\* connection before.
THEOREM TenantsIsolated == Spec => []ScopedExactly
  <1>1. ScopeInv => ScopedExactly
    BY SeesOwn DEF ScopedExactly
  <1> QED
    BY <1>1, SessionsApart, PTL

-----------------------------------------------------------------------------
(* Type correctness. *)

\* The steps of a pass within a tenant or without keep the types of what only a
\* pass writes.
LEMMA PassType ==
  ASSUME TypeOK, NEW i \in Instances, Fire(i) \/ Advance(i) \/ Crash(i)
  PROVE  /\ pass' \in [Instances -> Pass] /\ jobs' \in [Tenants -> SUBSET Periods]
         /\ faults' \in 0..MaxFaults
         /\ UNCHANGED <<creds, period, request, rotations>>
  <1>0. /\ pass \in [Instances -> Pass] /\ pass[i] \in Pass /\ period \in Periods
        /\ jobs \in [Tenants -> SUBSET Periods] /\ faults \in 0..MaxFaults
        /\ MaxFaults \in Nat /\ Active \subseteq Tenants /\ 0 \in Periods
    BY SchedulerAssumption DEF TypeOK, Periods
  <1>1. Resting \in Pass /\ [Resting EXCEPT !.stage = "fired"] \in Pass
    BY <1>0 DEF Resting, Pass
  <1>2. CASE Fire(i) \/ EndPass(i) \/ Crash(i)
    BY <1>0, <1>1, <1>2 DEF Fire, EndPass, Crash, SweepSteps
  <1>3. CASE OpenRegistry(i) \/ Claim(i)
    BY <1>0, <1>3 DEF OpenRegistry, Claim, Goto, SweepSteps, Pass
  <1>4. CASE ReadRegistry(i)
    BY <1>0, <1>4 DEF ReadRegistry, SweepSteps, Pass
  <1>5. ASSUME NEW t \in Tenants, OpenTenant(i, t)
        PROVE  /\ pass' \in [Instances -> Pass]
               /\ UNCHANGED <<jobs, faults, creds, period, request, rotations>>
    BY <1>0, <1>5 DEF OpenTenant, SweepSteps, Pass
  <1>6. CASE Build(i)
    BY <1>0, <1>6 DEF Build, SweepSteps, Pass
  <1>7. CASE Skip(i) \/ Abandon(i) \/ StandDown(i)
    BY <1>0, <1>7 DEF Skip, Abandon, StandDown, LeaveTenant, SweepSteps, Pass
  <1>8. CASE Finish(i)
    <2>1. pass[i].moment \in Periods
      BY <1>0 DEF Pass
    <2>2. pass' \in [Instances -> Pass] /\ UNCHANGED <<faults, creds, period, request, rotations>>
      BY <1>0, <1>8 DEF Finish, LeaveTenant, SweepSteps, Pass
    <2>3. jobs' \in [Tenants -> SUBSET Periods]
      BY <1>0, <1>8, <2>1 DEF Finish
    <2> QED
      BY <1>0, <2>2, <2>3
  <1>9. CASE Fail(i)
    <2>1. pass' \in [Instances -> Pass] /\ UNCHANGED <<jobs, creds, period, request, rotations>>
      BY <1>0, <1>9 DEF Fail, LeaveTenant, SweepSteps, Pass
    <2>2. faults' \in 0..MaxFaults
      BY <1>0, <1>9 DEF Fail
    <2> QED
      BY <1>0, <2>1, <2>2
  <1> QED
    BY <1>0, <1>2, <1>3, <1>4, <1>5, <1>6, <1>7, <1>8, <1>9 DEF Advance

\* Every step keeps the types.
LEMMA NextType == TypeOK /\ ScopeInv' /\ [Next]_vars => TypeOK'
  <1> SUFFICES ASSUME TypeOK, ScopeTypeOK', [Next]_vars PROVE TypeOK'
    BY DEF ScopeInv
  <1>1. ASSUME NEW i \in Instances, Fire(i) \/ Advance(i) \/ Crash(i) PROVE TypeOK'
    BY <1>1, PassType DEF TypeOK
  <1>2. ASSUME NEW r \in Requests, NEW t \in Tenants, NEW kind \in {"payment", "credential"},
               Receive(r, t, kind)
        PROVE  TypeOK'
    <2>1. request' \in [Requests -> Request]
      BY <1>2 DEF Receive, TypeOK, Request
    <2> QED
      BY <1>2, <2>1 DEF Receive, PassSteps, TypeOK
  <1>3. ASSUME NEW r \in Requests, Answer(r) PROVE TypeOK'
    <2>1. NoRequest \in Request
      BY DEF NoRequest, Request
    <2>2. request' \in [Requests -> Request] /\ UNCHANGED <<jobs, period, pass, faults, rotations>>
      BY <1>3, <2>1 DEF Answer, Commit, Reject, PassSteps, TypeOK
    <2>3. creds' \in [Tenants -> CredentialStates]
      <3>1. \A t : AfterPut(creds[t]) \subseteq CredentialStates
        BY DEF AfterPut, CredentialStates
      <3> QED
        BY <1>3, <3>1 DEF Answer, Commit, Reject, TypeOK
    <2> QED
      BY <2>2, <2>3 DEF TypeOK
  <1>4. CASE ChangeKey
    <2>1. creds' \in [Tenants -> CredentialStates] /\ rotations' \in 0..MaxRotations
      BY <1>4, SchedulerAssumption DEF ChangeKey, TypeOK, CredentialStates
    <2> QED
      BY <1>4, <2>1 DEF ChangeKey, TypeOK
  <1>5. CASE NextPeriod
    <2>1. period' \in Periods
      BY <1>5, SchedulerAssumption DEF NextPeriod, TypeOK, Periods
    <2> QED
      BY <1>5, <2>1 DEF NextPeriod, TypeOK
  <1>6. CASE UNCHANGED vars
    BY <1>6 DEF vars, schedulerVars, TypeOK
  <1> QED
    BY <1>1, <1>2, <1>3, <1>4, <1>5, <1>6 DEF Next

\* Every reachable state of the passes and the requests is well formed.
THEOREM TypesHold == Spec => []TypeOK
  <1>1. Init => TypeOK
    BY ScopeAssumption, SchedulerAssumption
    DEF Init, ScopeInit, TypeOK, ScopeTypeOK, Closed, Session, CredentialStates, Periods,
        Resting, Pass, NoRequest, Request
  <1> QED
    BY <1>1, NextType, SessionsApart, PTL DEF Spec

-----------------------------------------------------------------------------
(* A session is open exactly while there is work for it, and is its tenant's. *)

\* The stages in which a pass is working on a tenant.
Working(i) == pass[i].stage \in {"building", "claiming", "running"}

\* What a pass's session is at each stage.
PassInSession(i) ==
  IF Working(i) THEN InTransaction(i) /\ session[i].tenant = pass[i].at /\ pass[i].at \in Tenants
  ELSE InTransaction(i) <=> At(i, "listing")

\* What a request's session is before and during its handling.
RequestInSession(r) ==
  IF request[r] = NoRequest THEN ~InTransaction(r)
  ELSE InTransaction(r) /\ session[r].tenant = request[r].tenant /\ request[r].tenant \in Tenants

SessionInv ==
  (\A i \in Instances : PassInSession(i)) /\ (\A r \in Requests : RequestInSession(r))

\* Begin and End concern one client.
LEMMA OtherSessions ==
  ASSUME ScopeInv, NEW p \in Clients, NEW t, Begin(p, t) \/ End(p)
  PROVE  /\ \A q \in Clients \ {p} : session'[q] = session[q]
         /\ Begin(p, t) => InTransaction(p)' /\ session'[p].tenant = t
         /\ End(p) => ~InTransaction(p)'
  <1>1. session \in [Clients -> Session]
    BY DEF ScopeInv, ScopeTypeOK
  <1>2. CASE Begin(p, t)
    <2>1. PICK c \in Pool[p] : session' = [session EXCEPT ![p] = [tenant |-> t, conn |-> c]]
      BY <1>2 DEF Begin
    <2>2. c # NoConn
      BY ScopeAssumption
    <2>3. ~End(p) \/ c = NoConn
      BY <1>1, <2>1 DEF End, Closed
    <2> QED
      BY <1>1, <2>1, <2>2, <2>3 DEF InTransaction
  <1>3. CASE End(p) /\ ~Begin(p, t)
    BY <1>1, <1>3 DEF End, Closed, InTransaction
  <1> QED
    BY <1>2, <1>3

\* A step of one pass leaves the other passes and the requests as they are.
LEMMA PassKeepsSessions ==
  ASSUME TypeOK, ScopeInv, SessionInv, NEW i \in Instances, Fire(i) \/ Advance(i) \/ Crash(i)
  PROVE  SessionInv'
  <1>0. /\ pass \in [Instances -> Pass] /\ pass[i] \in Pass /\ PassInSession(i)
        /\ i \in Clients /\ Instances \cap Requests = {}
        /\ Instances \subseteq Clients /\ Requests \subseteq Clients
    BY SchedulerAssumption DEF TypeOK, SessionInv
  <1>1. /\ request' = request /\ \A j \in Instances \ {i} : pass'[j] = pass[j]
    <2>1. request' = request
      BY PassType
    <2>2. \A j \in Instances \ {i} : pass'[j] = pass[j]
      BY <1>0 DEF Fire, Advance, Crash, OpenRegistry, ReadRegistry, OpenTenant, Build, Skip,
         Abandon, Claim, StandDown, Finish, Fail, EndPass, Goto, LeaveTenant
    <2> QED
      BY <2>1, <2>2
  <1>2. \A q \in Clients \ {i} : session'[q] = session[q]
    <2>1. CASE UNCHANGED scopeVars
      BY <2>1 DEF scopeVars
    <2>2. CASE ~UNCHANGED scopeVars
      BY <1>0, <2>2, PassScope, OtherSessions
    <2> QED
      BY <2>1, <2>2
  <1>3. /\ \A j \in Instances \ {i} : PassInSession(j)'
        /\ \A r \in Requests : RequestInSession(r)'
    BY <1>0, <1>1, <1>2
    DEF SessionInv, PassInSession, RequestInSession, Working, InTransaction, At
  <1>4. PassInSession(i)'
    <2>1. CASE Fire(i) \/ EndPass(i)
      <3>1. session' = session /\ pass'[i].stage \in {"fired", "idle"}
        BY <1>0, <2>1 DEF Fire, EndPass, Resting, scopeVars
      <3>2. ~InTransaction(i)
        BY <1>0, <2>1 DEF Fire, EndPass, At, PassInSession, Working
      <3> QED
        BY <3>1, <3>2 DEF PassInSession, Working, InTransaction, At
    <2>2. CASE OpenRegistry(i)
      <3>1. InTransaction(i)' /\ pass'[i].stage = "listing"
        BY <1>0, <2>2, OtherSessions DEF OpenRegistry, Goto, Pass
      <3> QED
        BY <3>1 DEF PassInSession, Working, At
    <2>3. CASE ReadRegistry(i) \/ Skip(i) \/ Abandon(i) \/ StandDown(i) \/ Finish(i)
               \/ Fail(i) \/ Crash(i)
      <3>1. End(i)
        BY <2>3 DEF ReadRegistry, Skip, Abandon, StandDown, Finish, Fail, Crash
      <3>2. pass'[i].stage \in {"choosing", "idle"}
        BY <1>0, <2>3 DEF ReadRegistry, Skip, Abandon, StandDown, Finish, Fail, Crash,
           LeaveTenant, Resting, Pass
      <3>3. ~InTransaction(i)'
        BY <1>0, <3>1, OtherSessions
      <3> QED
        BY <3>2, <3>3 DEF PassInSession, Working, At
    <2>4. ASSUME NEW t \in Tenants, OpenTenant(i, t) PROVE PassInSession(i)'
      <3>1. InTransaction(i)' /\ session'[i].tenant = t
        BY <1>0, <2>4, OtherSessions DEF OpenTenant
      <3>2. pass'[i].stage = "building" /\ pass'[i].at = t
        BY <1>0, <2>4 DEF OpenTenant, Pass
      <3> QED
        BY <3>1, <3>2 DEF PassInSession, Working
    <2>5. CASE Build(i) \/ Claim(i)
      <3>1. session' = session /\ pass'[i].stage \in {"claiming", "running"}
            /\ pass'[i].at = pass[i].at
        BY <1>0, <2>5 DEF Build, Claim, Goto, scopeVars, Pass
      <3>2. Working(i)
        BY <2>5 DEF Build, Claim, At, Working
      <3> QED
        BY <1>0, <3>1, <3>2 DEF PassInSession, Working, InTransaction
    <2> QED
      BY <2>1, <2>2, <2>3, <2>4, <2>5 DEF Advance
  <1> QED
    BY <1>3, <1>4 DEF SessionInv

\* Neither does a step of a request touch the passes and the other requests.
LEMMA RequestKeepsSessions ==
  ASSUME TypeOK, ScopeInv, SessionInv, NEW r \in Requests,
         \/ \E t \in Tenants, kind \in {"payment", "credential"} : Receive(r, t, kind)
         \/ Answer(r)
  PROVE  SessionInv'
  <1>0. /\ request \in [Requests -> Request] /\ r \in Clients /\ Instances \cap Requests = {}
        /\ Instances \subseteq Clients /\ Requests \subseteq Clients /\ NoTenant \notin Tenants
    BY SchedulerAssumption, ScopeAssumption DEF TypeOK
  <1>1. pass' = pass /\ \A q \in Requests \ {r} : request'[q] = request[q]
    BY <1>0 DEF Receive, Answer, Commit, Reject, PassSteps
  <1>2. \A q \in Clients \ {r} : session'[q] = session[q]
    BY <1>0, RequestScope, OtherSessions
  <1>3. RequestInSession(r)'
    <2>1. ASSUME NEW t \in Tenants, NEW kind, Receive(r, t, kind) PROVE RequestInSession(r)'
      <3>1. InTransaction(r)' /\ session'[r].tenant = t
        BY <1>0, <2>1, OtherSessions DEF Receive
      <3>2. request'[r] = [kind |-> kind, tenant |-> t]
        BY <1>0, <2>1 DEF Receive
      <3>3. request'[r] # NoRequest
        BY <1>0, <3>2 DEF NoRequest
      <3> QED
        BY <3>1, <3>2, <3>3 DEF RequestInSession
    <2>2. CASE Answer(r)
      <3>1. ~InTransaction(r)' /\ request'[r] = NoRequest
        BY <1>0, <2>2, OtherSessions DEF Answer, Commit, Reject
      <3> QED
        BY <3>1 DEF RequestInSession
    <2> QED
      BY <2>1, <2>2
  <1> QED
    BY <1>0, <1>1, <1>2, <1>3
    DEF SessionInv, PassInSession, RequestInSession, Working, InTransaction, At

\* Every step leaves every client with the session its work calls for.
LEMMA NextSession == TypeOK /\ ScopeInv /\ SessionInv /\ [Next]_vars => SessionInv'
  <1> SUFFICES ASSUME TypeOK, ScopeInv, SessionInv, [Next]_vars PROVE SessionInv'
    OBVIOUS
  <1>1. CASE ChangeKey \/ NextPeriod \/ UNCHANGED vars
    <2>1. UNCHANGED <<session, pass, request>>
      BY <1>1 DEF ChangeKey, NextPeriod, vars, scopeVars, schedulerVars
    <2> QED
      BY <2>1
      DEF SessionInv, PassInSession, RequestInSession, Working, InTransaction, At
  <1> QED
    BY <1>1, PassKeepsSessions, RequestKeepsSessions DEF Next

\* scheduler.py:9, "each in its own session and its own transaction": a pass reads
\* its tenant's rows and no others from the factory's first query to the commit, a
\* request those of the tenant in its header, and no connection outlives the work
\* it was checked out for, crash, skip or failure included.
THEOREM WorkStaysInTenant == Spec => []OwnTenantOnly
  <1>1. Init => SessionInv
    BY WhoIsClient
       DEF Init, ScopeInit, SessionInv, PassInSession, RequestInSession, Working,
           InTransaction, At, Closed, Resting
  <1>2. ScopeInv /\ SessionInv => OwnTenantOnly
    <2> SUFFICES ASSUME ScopeInv, SessionInv PROVE OwnTenantOnly
      OBVIOUS
    <2>1. ASSUME NEW i \in Instances, Working(i)
          PROVE  InTransaction(i) /\ OrmSees(i) = {pass[i].at}
      BY <2>1, SeesOwn, WhoIsClient, ScopeAssumption DEF SessionInv, PassInSession
    <2>2. ASSUME NEW r \in Requests, request[r] # NoRequest
          PROVE  InTransaction(r) /\ OrmSees(r) = {request[r].tenant}
      BY <2>2, SeesOwn, WhoIsClient, ScopeAssumption DEF SessionInv, RequestInSession
    <2> QED
      BY <2>1, <2>2 DEF OwnTenantOnly, SessionInv, PassInSession, RequestInSession, Working
  <1> QED
    BY <1>1, <1>2, NextSession, TypesHold, SessionsApart, PTL DEF Spec
=============================================================================
