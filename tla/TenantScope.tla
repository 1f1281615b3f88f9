---------------------------- MODULE TenantScope ----------------------------
(***************************************************************************)
(* How a database session is confined to one tenant (core/tenant_scope.py, *)
(* the row policies of the migrations, and the places sessions are made).  *)
(*                                                                         *)
(* The tenant is kept on the session.  A transaction checks a connection   *)
(* out of its process's pool; as it begins, the tenant is published to     *)
(* PostgreSQL in a setting of that connection which lasts as long as the   *)
(* transaction.  Two layers read the tenant: the loader criteria of ORM    *)
(* reads from the session, the row policy of every statement from the      *)
(* setting.  A row is represented by the tenant it belongs to, the one     *)
(* column both layers look at.                                             *)
(***************************************************************************)
EXTENDS Integers, FiniteSets

CONSTANTS Tenants,
          NoTenant,
          Clients,   \* whoever may have a session open
          Conns,     \* database connections
          NoConn,
          Pool       \* client -> the connections of its process

ASSUME ScopeAssumption ==
  /\ NoTenant \notin Tenants /\ NoConn \notin Conns
  /\ Pool \in [Clients -> SUBSET Conns] /\ \A p \in Clients : Pool[p] # {}

VARIABLES postgres,  \* PostgreSQL under an ordinary role, or SQLite
          setting,   \* app.tenant_id of each connection
          session    \* each client's session: its tenant, its connection

scopeVars == <<postgres, setting, session>>

Session == [tenant : Tenants \cup {NoTenant}, conn : Conns \cup {NoConn}]

Closed == [tenant |-> NoTenant, conn |-> NoConn]

ScopeTypeOK ==
  /\ postgres \in BOOLEAN
  /\ setting \in [Conns -> Tenants \cup {NoTenant}]
  /\ session \in [Clients -> Session]

ScopeInit ==
  /\ postgres \in BOOLEAN
  /\ setting = [c \in Conns |-> NoTenant]
  /\ session = [p \in Clients |-> Closed]

-----------------------------------------------------------------------------
(* What a statement on p's connection can see. *)

InTransaction(p) == session[p].conn # NoConn

\* The row policy: tenant_id = app.tenant_id, and no row when there is none.
Policy(p, t) == postgres => t = setting[session[p].conn]

\* The loader criteria, added to ORM reads of a session that has a tenant.
Criteria(p, t) == session[p].tenant # NoTenant => t = session[p].tenant

\* Whose rows an ORM read returns that does not filter by itself, and whose
\* rows any other statement reaches.
OrmSees(p)  == {t \in Tenants : Policy(p, t) /\ Criteria(p, t)}
CoreSees(p) == {t \in Tenants : Policy(p, t)}

-----------------------------------------------------------------------------
(* Transactions. *)

\* Mutant: nothing is published, as when the listener is not registered.
BugNotPublished(c, t) == setting

\* after_begin publishes the session's tenant, if there is one and PostgreSQL
\* is there to read it.
Published(c, t) ==
  IF t = NoTenant \/ ~postgres THEN setting ELSE [setting EXCEPT ![c] = t]

\* A session is opened, bound to t unless t is NoTenant, and runs its first
\* statement: a connection nobody uses is checked out.
Begin(p, t) ==
  /\ ~InTransaction(p)
  /\ \E c \in Pool[p] :
       /\ \A q \in Clients : session[q].conn # c
       /\ session' = [session EXCEPT ![p] = [tenant |-> t, conn |-> c]]
       /\ setting' = Published(c, t)
  /\ UNCHANGED postgres

\* Mutant: set_config(..., false), good for the connection's life.
BugSettingStays(c) == setting

\* set_config(..., true): the setting goes with the transaction.
Unpublished(c) == [setting EXCEPT ![c] = NoTenant]

\* The transaction ends, either way, and the session is closed; the connection
\* is back in the pool.
End(p) ==
  /\ setting' = Unpublished(session[p].conn)
  /\ session' = [session EXCEPT ![p] = Closed]
  /\ UNCHANGED postgres

-----------------------------------------------------------------------------
(* Properties. *)

\* tenant_scope.py:28, "the common path is automatic and the worst case is empty
\* rather than someone else's data".  A session of a tenant reads that tenant's
\* rows, all of them and no others, by the ORM and on PostgreSQL by any
\* statement; one without a tenant reaches nobody's rows on PostgreSQL.
ScopedExactly ==
  \A p \in Clients : InTransaction(p) =>
    LET own == {session[p].tenant} \ {NoTenant}
    IN  /\ own # {} => OrmSees(p) = own
        /\ postgres => CoreSees(p) = own
=============================================================================
