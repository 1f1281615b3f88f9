------------------------ MODULE ComplianceScheduler ------------------------
(***************************************************************************)
(* The scheduled pass over all tenants (app/jobs/scheduler.py), building   *)
(* each tenant's providers from its stored credentials                     *)
(* (services/provider_factory.py, core/crypto.py), while API requests of   *)
(* the same process write payments and credentials.  Every session is one  *)
(* of TenantScope.                                                         *)
(*                                                                         *)
(* The sweep of one tenant, from its period claim to its commit, is three  *)
(* steps here; MembershipMonitor has its inside.                           *)
(***************************************************************************)
EXTENDS TenantScope

CONSTANTS Active,        \* the tenants the registry calls active; no code here edits it
          Instances,     \* the processes whose scheduler fires
          Requests,      \* API requests that may be under way at once
          Silent,        \* tenants with a failing member who has blocked the bot
          MaxPeriod,     \* the clock stops in this period
          MaxFaults,     \* crashes and passing failures
          MaxRotations   \* changes of the encryption key

ASSUME SchedulerAssumption ==
  /\ Clients = Instances \cup Requests /\ Instances \cap Requests = {}
  /\ Silent \subseteq Tenants /\ Active \subseteq Tenants
  /\ {MaxPeriod, MaxFaults, MaxRotations} \subseteq Nat

VARIABLES creds,      \* what ProviderFactory would make of each tenant's secrets
          jobs,       \* the periods whose sweep is committed, by tenant
          period,     \* the current compliance period
          pass,       \* each instance's run_compliance_sweep
          request,    \* each API request
          faults, rotations

schedulerVars == <<creds, jobs, period, pass, request, faults, rotations>>
vars == <<scopeVars, schedulerVars>>

Periods == 0..MaxPeriod

\* api_key, api_secret, the bot's row and bot_token are asked for in this order:
\* all are good, or the first that is not is missing or cannot be decrypted.
CredentialStates == {"missing", "unreadable", "good"}

Resting == [stage |-> "idle", left |-> {}, at |-> NoTenant, moment |-> 0]
NoRequest == [kind |-> "none", tenant |-> NoTenant]

Pass == [stage : {"idle", "fired", "listing", "choosing", "building", "claiming", "running"},
         left : SUBSET Tenants, at : Tenants \cup {NoTenant}, moment : Periods]

Request == [kind : {"none", "payment", "credential"}, tenant : Tenants \cup {NoTenant}]

\* TypeOK: every variable has its type.
TypeOK ==
  /\ ScopeTypeOK
  /\ creds \in [Tenants -> CredentialStates]
  /\ jobs \in [Tenants -> SUBSET Periods]
  /\ period \in Periods
  /\ pass \in [Instances -> Pass]
  /\ request \in [Requests -> Request]
  /\ faults \in 0..MaxFaults /\ rotations \in 0..MaxRotations

\* Some tenants have entered their credentials.
Init ==
  /\ ScopeInit
  /\ creds \in [Tenants -> {"missing", "good"}]
  /\ jobs = [t \in Tenants |-> {}]
  /\ period = 0
  /\ pass = [i \in Instances |-> Resting]
  /\ request = [r \in Requests |-> NoRequest]
  /\ faults = 0 /\ rotations = 0

At(i, stage) == pass[i].stage = stage
Goto(i, stage) == pass' = [pass EXCEPT ![i].stage = stage]
LeaveTenant(i, stage) ==
  pass' = [pass EXCEPT ![i].stage = stage, ![i].at = NoTenant, ![i].moment = 0]
SweepSteps == UNCHANGED <<creds, period, request, rotations>>

-----------------------------------------------------------------------------
(* One pass. *)

\* APScheduler fires; max_instances keeps a second pass of the process back.
Fire(i) ==
  /\ At(i, "idle")
  /\ pass' = [pass EXCEPT ![i] = [Resting EXCEPT !.stage = "fired"]]
  /\ SweepSteps /\ UNCHANGED <<scopeVars, jobs, faults>>

\* active_tenant_ids, on a session without a tenant: the registry is not scoped.
OpenRegistry(i) ==
  /\ At(i, "fired") /\ Begin(i, NoTenant) /\ Goto(i, "listing")
  /\ SweepSteps /\ UNCHANGED <<jobs, faults>>

ReadRegistry(i) ==
  /\ At(i, "listing") /\ End(i)
  /\ pass' = [pass EXCEPT ![i].stage = "choosing", ![i].left = Active]
  /\ SweepSteps /\ UNCHANGED <<jobs, faults>>

\* Mutant: the session's first statement comes before bind_tenant.
BugBindsLate(i, t) ==
  /\ At(i, "choosing") /\ t \in pass[i].left
  /\ Begin(i, NoTenant)
  /\ pass' = [pass EXCEPT ![i].stage = "building", ![i].at = t, ![i].left = @ \ {t}]
  /\ SweepSteps /\ UNCHANGED <<jobs, faults>>

\* The next tenant, in no particular order, in a session of its own.
OpenTenant(i, t) ==
  /\ At(i, "choosing") /\ t \in pass[i].left
  /\ Begin(i, t)
  /\ pass' = [pass EXCEPT ![i].stage = "building", ![i].at = t, ![i].left = @ \ {t}]
  /\ SweepSteps /\ UNCHANGED <<jobs, faults>>

\* What the factory finds: a credential it cannot see is one that is missing.
Found(i) == IF pass[i].at \in OrmSees(i) THEN creds[pass[i].at] ELSE "missing"

\* Mutant: the period is rounded up.
BugRoundsUp(i) ==
  /\ At(i, "building") /\ Found(i) = "good"
  /\ pass' = [pass EXCEPT ![i].stage = "claiming", ![i].moment = period + 1]
  /\ SweepSteps /\ UNCHANGED <<scopeVars, jobs, faults>>

\* The factory has all it needs; run() reads the clock.
Build(i) ==
  /\ At(i, "building") /\ Found(i) = "good"
  /\ pass' = [pass EXCEPT ![i].stage = "claiming", ![i].moment = period]
  /\ SweepSteps /\ UNCHANGED <<scopeVars, jobs, faults>>

\* Mutant: a tenant that is not set up ends the pass.
BugSkipIsFatal(i) ==
  /\ At(i, "building") /\ Found(i) = "missing"
  /\ End(i) /\ LeaveTenant(i, "idle")
  /\ SweepSteps /\ UNCHANGED <<jobs, faults>>

\* Mutant: a tenant that is not set up is tried again.
BugSkipRetries(i) ==
  /\ At(i, "building") /\ Found(i) = "missing"
  /\ End(i)
  /\ pass' = [pass EXCEPT ![i].stage = "choosing", ![i].left = @ \cup {pass[i].at}]
  /\ SweepSteps /\ UNCHANGED <<jobs, faults>>

\* MissingCredentialError: on to the next tenant.
Skip(i) ==
  /\ At(i, "building") /\ Found(i) = "missing"
  /\ End(i) /\ LeaveTenant(i, "choosing")
  /\ SweepSteps /\ UNCHANGED <<jobs, faults>>

\* CredentialEncryptionError, of decrypt_secret, leaves the loop: the tenants
\* that are left are not visited.
Abandon(i) ==
  /\ At(i, "building") /\ Found(i) = "unreadable"
  /\ End(i) /\ LeaveTenant(i, "idle")
  /\ SweepSteps /\ UNCHANGED <<jobs, faults>>

\* Another instance holds the uncommitted job row of the same tenant and period.
Contended(i) ==
  \E j \in Instances \ {i} :
    At(j, "running") /\ pass[j].at = pass[i].at /\ pass[j].moment = pass[i].moment

Claimed(i) == pass[i].moment \in jobs[pass[i].at]

Claim(i) ==
  /\ At(i, "claiming") /\ ~Contended(i) /\ ~Claimed(i)
  /\ pass[i].at \in CoreSees(i)                          \* WITH CHECK
  /\ Goto(i, "running")
  /\ SweepSteps /\ UNCHANGED <<scopeVars, jobs, faults>>

\* The period is taken; the report says so and the empty transaction commits.
StandDown(i) ==
  /\ At(i, "claiming") /\ ~Contended(i) /\ Claimed(i)
  /\ End(i) /\ LeaveTenant(i, "choosing")
  /\ SweepSteps /\ UNCHANGED <<jobs, faults>>

\* The sweep reaches its end and is committed.
Finish(i) ==
  /\ At(i, "running") /\ pass[i].at \notin Silent
  /\ jobs' = [jobs EXCEPT ![pass[i].at] = @ \cup {pass[i].moment}]
  /\ End(i) /\ LeaveTenant(i, "choosing")
  /\ SweepSteps /\ UNCHANGED faults

\* The sweep raises; everything is rolled back, the FAILED mark included, and
\* the pass goes on.  For a Silent tenant it always ends like this: the message
\* to the member who blocked the bot is due again each time.
Fail(i) ==
  /\ At(i, "running")
  /\ \/ pass[i].at \in Silent /\ UNCHANGED faults
     \/ pass[i].at \notin Silent /\ faults < MaxFaults /\ faults' = faults + 1
  /\ End(i) /\ LeaveTenant(i, "choosing")
  /\ SweepSteps /\ UNCHANGED jobs

EndPass(i) ==
  /\ At(i, "choosing") /\ pass[i].left = {}
  /\ pass' = [pass EXCEPT ![i] = Resting]
  /\ SweepSteps /\ UNCHANGED <<scopeVars, jobs, faults>>

\* The process dies in the middle of a tenant; its connection breaks.
Crash(i) ==
  /\ InTransaction(i) /\ faults < MaxFaults /\ faults' = faults + 1
  /\ End(i) /\ pass' = [pass EXCEPT ![i] = Resting]
  /\ SweepSteps /\ UNCHANGED jobs

-----------------------------------------------------------------------------
(* API requests, and the world. *)

PassSteps == UNCHANGED <<jobs, period, pass, faults, rotations>>

\* A request with a valid X-Tenant-ID reaches POST /webhooks/payments or PUT
\* /admin/credentials; get_tenant_session binds its session.  (A request
\* without the header is answered before any session is opened.)
Receive(r, t, kind) ==
  /\ request[r] = NoRequest
  /\ Begin(r, t)
  /\ request' = [request EXCEPT ![r] = [kind |-> kind, tenant |-> t]]
  /\ PassSteps /\ UNCHANGED creds

\* One secret is entered anew.  If it was the first that was not good, the next
\* such decides; only a change of key can have left one unreadable.
AfterPut(state) ==
  IF state = "good" THEN {"good"}
  ELSE {"missing", "good"} \cup IF rotations > 0 THEN {"unreadable"} ELSE {}

\* process_payment inserts a row, with a new id each time, that no code reads
\* and the model does not keep; upsert_credential and upsert_bot seal one secret
\* with the present key.  Then the session is committed.
Commit(r) ==
  LET t == request[r].tenant
  IN  /\ request[r] # NoRequest /\ t \in CoreSees(r)
      /\ IF request[r].kind = "credential"
         THEN \E state \in AfterPut(creds[t]) : creds' = [creds EXCEPT ![t] = state]
         ELSE UNCHANGED creds
      /\ End(r) /\ request' = [request EXCEPT ![r] = NoRequest]
      /\ PassSteps

\* The handler raises, and the session is rolled back.
Reject(r) ==
  /\ request[r] # NoRequest
  /\ End(r) /\ request' = [request EXCEPT ![r] = NoRequest]
  /\ PassSteps /\ UNCHANGED creds

\* A secret before the one that is missing may have been entered.
AfterRotation(state) ==
  IF state = "missing" THEN {"missing", "unreadable"} ELSE {"unreadable"}

\* The service is redeployed with another CREDENTIAL_ENCRYPTION_KEY: what was
\* sealed with the old one cannot be opened.
ChangeKey ==
  /\ rotations < MaxRotations /\ rotations' = rotations + 1
  /\ \A i \in Instances : At(i, "idle")
  /\ \A r \in Requests : request[r] = NoRequest
  /\ creds' \in [Tenants -> CredentialStates]
  /\ \A t \in Tenants : creds'[t] \in AfterRotation(creds[t])
  /\ UNCHANGED <<scopeVars, jobs, period, pass, request, faults>>

NextPeriod ==
  /\ period < MaxPeriod /\ period' = period + 1
  /\ UNCHANGED <<scopeVars, creds, jobs, pass, request, faults, rotations>>

-----------------------------------------------------------------------------

Advance(i) ==
  \/ OpenRegistry(i) \/ ReadRegistry(i) \/ \E t \in Tenants : OpenTenant(i, t)
  \/ Build(i) \/ Skip(i) \/ Abandon(i) \/ Claim(i) \/ StandDown(i)
  \/ Finish(i) \/ Fail(i) \/ EndPass(i)

Answer(r) == Commit(r) \/ Reject(r)

Next ==
  \/ \E i \in Instances : Fire(i) \/ Advance(i) \/ Crash(i)
  \/ \E r \in Requests :
       \/ \E t \in Tenants, kind \in {"payment", "credential"} : Receive(r, t, kind)
       \/ Answer(r)
  \/ ChangeKey \/ NextPeriod

Spec == Init /\ [][Next]_vars

\* The scheduler's interval comes round again and again; a pass under way is
\* carried on and a request answered, since every call they await returns or
\* times out, the pool serves its waiters in turn and PostgreSQL the waiters
\* for a key.  Crashes and passing failures are finitely many (MaxFaults).
FairSpec ==
  /\ Spec
  /\ \A i \in Instances : WF_vars(Fire(i)) /\ SF_vars(Advance(i))
  /\ \A r \in Requests : WF_vars(Answer(r))

-----------------------------------------------------------------------------
(* Properties. *)

\* scheduler.py:9, a tenant's trouble "must not stop the sweep for everyone
\* else": a pass that has ended, other than by a crash, has visited every tenant
\* it listed.
EveryTenantVisited == \A i \in Instances : At(i, "idle") => pass[i].left = {}

\* scheduler.py:9, "each in its own session and its own transaction": a pass reads
\* the rows of the tenant it is working on and no others, a request those of the
\* tenant it was sent for, and neither keeps a connection beyond its work.
OwnTenantOnly ==
  /\ \A i \in Instances :
       IF pass[i].stage \in {"building", "claiming", "running"}
       THEN InTransaction(i) /\ OrmSees(i) = {pass[i].at}
       ELSE InTransaction(i) <=> At(i, "listing")
  /\ \A r \in Requests :
       IF request[r] = NoRequest THEN ~InTransaction(r)
       ELSE InTransaction(r) /\ OrmSees(r) = {request[r].tenant}

Readable == \A t \in Tenants : creds[t] # "unreadable"
Sweepable(t) == t \in Active \ Silent /\ creds[t] = "good"

\* As far as that holds: once every stored credential can be read, a tenant that
\* is set up has its present period swept, whichever other tenants are not set
\* up or fail in every pass.
SetUpIsSwept ==
  \A t \in Tenants :
    <>[](Readable /\ Sweepable(t)) => <>[](period \in jobs[t])

\* A pass that fired ends, whatever the other instance and the requests do.
PassesEnd == \A i \in Instances : ~At(i, "idle") ~> At(i, "idle")
=============================================================================
