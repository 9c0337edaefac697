------------------------------ MODULE AuditLog ------------------------------
(***************************************************************************)
(* What an auditor may rely on: per tenant one list of the write requests   *)
(* that were recorded, which only ever grows at its end.  Each entry names  *)
(* the one before it, a request is recorded once at most, and what a caller *)
(* is told was recorded is in the list.                                     *)
(***************************************************************************)
EXTENDS Naturals, Sequences

CONSTANTS Calls, Tenants, TenantOf, Genesis, NoCall

VARIABLES log,     (* the entries of each tenant, oldest first              *)
          result   (* what each caller was told                             *)

vars == <<log, result>>

Init ==
  /\ log = [t \in Tenants |-> << >>]
  /\ result = [c \in Calls |-> NoCall]

LastCall(entries) ==
  IF entries = << >> THEN Genesis ELSE entries[Len(entries)].call

Record(t, c) ==
  /\ TenantOf[c] = t
  /\ \A i \in DOMAIN log[t] : log[t][i].call # c
  /\ log' = [log EXCEPT ![t] = Append(@, [call |-> c, prev |-> LastCall(@)])]
  /\ \/ result' = [result EXCEPT ![c] = c]
     \/ UNCHANGED result

Next == \E t \in Tenants, c \in Calls : Record(t, c)

Spec == Init /\ [][Next]_vars
=============================================================================
