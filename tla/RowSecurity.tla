---------------------------- MODULE RowSecurity ----------------------------
(***************************************************************************)
(* Which rows a statement sees.  PostgreSQL compares the tenant of a row   *)
(* with app.tenant_id, a setting of the connection                         *)
(* (src/backend/alembic/versions/0001_initial.py, 0005_rls_missing_ok.py). *)
(* A session takes a connection from the pool, sets it for the length of a *)
(* transaction and gives the connection back                               *)
(* (src/backend/app/db/session.py, sync_session.py); sessions that look up *)
(* a login or an API key set no tenant.  The role is one that row security *)
(* applies to: a superuser's statements see everything.                    *)
(*                                                                         *)
(* A setting that was never set on a connection reads as NULL.  Once it    *)
(* was, ending the transaction or resetting it leaves it empty, and the    *)
(* empty text is not a UUID: the statement fails.                          *)
(***************************************************************************)
EXTENDS FiniteSets

CONSTANTS Tenants, Connections, Sessions

VARIABLES
  setting,  \* of each connection: outside the transaction, and in it
  session   \* of each session: its stage, its tenant, its connection

rlsVars == <<setting, session>>

None == "none"
Fresh == [base |-> "NULL", plain |-> None, local |-> None]
NoSession == [at |-> "idle", tenant |-> None, on |-> None]

Init ==
  /\ setting = [c \in Connections |-> Fresh]
  /\ session = [s \in Sessions |-> NoSession]

Free(c) == \A s \in Sessions : session[s].on # c

(* SET, SET LOCAL: the transaction's value, kept or not when it commits.   *)
Set(v, t) == [v EXCEPT !.plain = t, !.local = None]
SetLocal(v, t) == [v EXCEPT !.local = t]
Reset(v) == Set(v, "")

Current(c) ==
  LET v == setting[c] IN
  CASE v.local # None -> v.local [] v.plain # None -> v.plain [] OTHER -> v.base

Forgotten(v) == IF v.plain = None /\ v.local = None THEN v.base
                ELSE IF v.base = "NULL" THEN "" ELSE v.base
Rollback(v) == [Fresh EXCEPT !.base = Forgotten(v)]
Commit(v) == [Fresh EXCEPT !.base = IF v.plain # None THEN v.plain ELSE Forgotten(v)]

(* -------------------------------------------------------------- sessions *)

Take(s, t, c) == session' = [session EXCEPT ![s] = [at |-> "open", tenant |-> t, on |-> c]]
To(s, stage) == session' = [session EXCEPT ![s].at = stage]

ScopeSetting(s, t, c) ==
  /\ session[s] = NoSession /\ Free(c)
  /\ Take(s, t, c)
  /\ setting' = [setting EXCEPT ![c] = Set(@, t)]

(* session_scope, sync_session_scope, with a tenant.                       *)
Scope(s, t, c) ==
  /\ session[s] = NoSession /\ Free(c)
  /\ Take(s, t, c)
  /\ setting' = [setting EXCEPT ![c] = SetLocal(@, t)]

(* The lookups of login, refresh_token and ApiKeyService; the scope of a   *)
(* task that lists the tenants.                                            *)
Unscoped(s, c) ==
  /\ session[s] = NoSession /\ Free(c)
  /\ Take(s, None, c)
  /\ UNCHANGED setting

(* The block ends; an exception rolls back.                                *)
Finish(s) ==
  /\ session[s].at = "open"
  /\ \E end \in {"commit", "rollback"} :
       setting' = [setting EXCEPT ![session[s].on] =
                     IF end = "commit" THEN Commit(@) ELSE Rollback(@)]
  /\ To(s, "finished")

(* reset_tenant_id runs in the transaction its own statement begins.       *)
ResetTenant(s) ==
  /\ session[s].at = "finished" /\ session[s].tenant # None
  /\ setting' = [setting EXCEPT ![session[s].on] = Reset(@)]
  /\ To(s, "reset")

(* Closing a session rolls back what is open.  The scope of a worker       *)
(* resets nothing.                                                         *)
Close(s) ==
  /\ session[s].at \in {"finished", "reset"}
  /\ setting' = [setting EXCEPT ![session[s].on] = Rollback(@)]
  /\ session' = [session EXCEPT ![s] = NoSession]

(* pool_pre_ping finds a dead connection: another one takes its place.     *)
Reconnect(c) ==
  /\ Free(c)
  /\ setting' = [setting EXCEPT ![c] = Fresh]
  /\ UNCHANGED session

Next ==
  \/ \E s \in Sessions, c \in Connections :
       Unscoped(s, c) \/ \E t \in Tenants : Scope(s, t, c)
  \/ \E s \in Sessions : Finish(s) \/ ResetTenant(s) \/ Close(s)
  \/ \E c \in Connections : Reconnect(c)

Spec == Init /\ [][Next]_rlsVars

(* -------------------------------------------------------------- policies *)

(* tenant_isolation, with missing_ok: whose rows a statement sees.         *)
Sees(c) == Tenants \cap {Current(c)}

(* ------------------------------------------------------------- properties *)

Values == Tenants \cup {""}

TypeOK ==
  /\ setting \in [Connections -> [base : Values \cup {"NULL"},
                                  plain : Values \cup {None}, local : Values \cup {None}]]
  /\ session \in [Sessions -> [at : {"idle", "open", "finished", "reset"},
                               tenant : Tenants \cup {None},
                               on : Connections \cup {None}]]
  /\ \A s, o \in Sessions : session[s].on = session[o].on /\ s # o => session[s] = NoSession

(* Whatever ran before on its connection, and however it ended, a          *)
(* statement in a session of a tenant sees that tenant's rows, one in a    *)
(* session without a tenant no one's, and the pool holds no connection     *)
(* that is still a tenant's (session_scope, set_tenant_id,                 *)
(* reset_tenant_id, the policies).                                         *)
OwnRowsOnly ==
  /\ \A s \in Sessions : session[s].at = "open" =>
       Sees(session[s].on) = {session[s].tenant} \cap Tenants
  /\ \A c \in Connections : Free(c) => Sees(c) = {}
=============================================================================
