----------------------------- MODULE Sessions -----------------------------
(***************************************************************************)
(* What stands for a login: access tokens, refresh tokens and the one-time *)
(* tickets that open a WebSocket (src/backend/app/api/v1/auth.py, ws.py,   *)
(* core/security.py).  Tokens are signed and kept nowhere, so none can be  *)
(* taken back: what ends the access of a disabled account is that its      *)
(* status is read before a token is issued, and that tokens run out.  An   *)
(* API key's client is a principal of its own, without refresh tokens.     *)
(***************************************************************************)
EXTENDS Integers, FiniteSets, FiniteSetsExt

CONSTANTS
  Requests,    \* slots for concurrent requests
  AccessTTL,   \* jwt_access_token_expire_minutes, in ticks
  RefreshTTL,  \* jwt_refresh_token_expire_days, in ticks
  TicketTTL,   \* _WS_TICKET_TTL_SECONDS, in ticks
  KeyStale,    \* ticks a revoked key is still found: Admission's bound
  MaxDelay     \* bound: ticks between two steps of a request

Principals == {"account", "key"}

VARIABLES
  live,      \* the account is ACTIVE, the key valid
  off,       \* ticks since it was last disabled
  access,    \* the remaining lives of its access tokens
  refresh,   \* the remaining lives of the account's refresh tokens
  tickets,   \* the remaining lives of its tickets in Redis
  request    \* the stage of every request, its ticks there, whose it is

sessionVars == <<live, off, access, refresh, tickets, request>>

Longest == Max({KeyStale, MaxDelay}) + AccessTTL + MaxDelay + TicketTTL + 1
Idle == [at |-> "idle", age |-> 0, who |-> "account"]
Advance(r, stage, p) == request' = [request EXCEPT ![r] = [at |-> stage, age |-> 0, who |-> p]]
End(r) == request' = [request EXCEPT ![r] = Idle]

Init ==
  /\ live = [p \in Principals |-> TRUE]
  /\ off = [p \in Principals |-> 0]
  /\ access = [p \in Principals |-> {}]
  /\ refresh = {}
  /\ tickets = [p \in Principals |-> {}]
  /\ request = [r \in Requests |-> Idle]

Found(p) == live[p] \/ (p = "key" /\ off[p] <= KeyStale)

(* -------------------------------------------------- login, refresh, token *)

(* login: the row is read, the password verified, the status checked.  The *)
(* login time is committed before the tokens are made.                     *)
Login(r) ==
  /\ request[r].at = "idle"
  /\ live["account"]
  /\ Advance(r, "checked", "account")
  /\ UNCHANGED <<live, off, access, refresh, tickets>>

(* _consume_refresh_jti asks an asynchronous client without awaiting the   *)
(* answer: the coroutine it takes for one is true, whatever Redis holds.   *)
Consumed == TRUE

(* refresh_token: any refresh token that has not expired will do.          *)
Verify(r) ==
  /\ request[r].at = "idle"
  /\ refresh # {} /\ Consumed
  /\ Advance(r, "verified", "account")
  /\ UNCHANGED <<live, off, access, refresh, tickets>>

CheckSkipped(r) ==
  /\ request[r].at = "verified"
  /\ Advance(r, "checked", "account")
  /\ UNCHANGED <<live, off, access, refresh, tickets>>

(* The row is read again: only an ACTIVE account gets new tokens.          *)
CheckStatus(r) ==
  /\ request[r].at = "verified"
  /\ IF live["account"] THEN Advance(r, "checked", "account") ELSE End(r)
  /\ UNCHANGED <<live, off, access, refresh, tickets>>

(* create_access_token, create_refresh_token.                              *)
Issue(r) ==
  /\ request[r].at = "checked"
  /\ access' = [access EXCEPT !["account"] = @ \cup {AccessTTL}]
  /\ refresh' = refresh \cup {RefreshTTL}
  /\ End(r)
  /\ UNCHANGED <<live, off, tickets>>

(* The database or the client is gone before the tokens are made.          *)
Fail(r) ==
  /\ request[r].at # "idle"
  /\ End(r)
  /\ UNCHANGED <<live, off, access, refresh, tickets>>

(* token_endpoint: nothing is awaited between the lookup's answer and the  *)
(* token.                                                                  *)
KeyToken ==
  /\ Found("key")
  /\ access' = [access EXCEPT !["key"] = @ \cup {AccessTTL}]
  /\ UNCHANGED <<live, off, refresh, tickets, request>>

(* -------------------------------------------------------------- tickets *)

(* create_ws_ticket: get_current_user wants a live access token.           *)
AskTicket(r, p) ==
  /\ request[r].at = "idle"
  /\ access[p] # {}
  /\ Advance(r, "ticket", p)
  /\ UNCHANGED <<live, off, access, refresh, tickets>>

StoreTicket(r) ==
  /\ request[r].at = "ticket"
  /\ tickets' = [tickets EXCEPT ![request[r].who] = @ \cup {TicketTTL}]
  /\ End(r)
  /\ UNCHANGED <<live, off, access, refresh>>

(* _consume_ws_ticket: GETDEL.  Also when the handshake fails after it.    *)
UseTicket(p) ==
  /\ \E left \in tickets[p] : tickets' = [tickets EXCEPT ![p] = @ \ {left}]
  /\ UNCHANGED <<live, off, access, refresh, request>>

(* -------------------------------------------------------------- elsewhere *)

(* An administrator disables the account or puts it back, a key is revoked;*)
(* nothing in this code does.                                              *)
SetLive(p) ==
  /\ live' = [live EXCEPT ![p] = ~@]
  /\ off' = [off EXCEPT ![p] = 0]
  /\ UNCHANGED <<access, refresh, tickets, request>>

Older(lives) == {n - 1 : n \in lives \ {1}}

Tick ==
  /\ \A r \in Requests : request[r].at # "idle" => request[r].age < MaxDelay
  /\ request' = [r \in Requests |-> IF request[r].at = "idle" THEN Idle
                                    ELSE [request[r] EXCEPT !.age = @ + 1]]
  /\ off' = [p \in Principals |-> IF live[p] THEN 0 ELSE Min({off[p] + 1, Longest})]
  /\ access' = [p \in Principals |-> Older(access[p])]
  /\ tickets' = [p \in Principals |-> Older(tickets[p])]
  /\ refresh' = Older(refresh)
  /\ UNCHANGED live

Next ==
  \/ \E r \in Requests :
       \/ Login(r) \/ Verify(r) \/ CheckStatus(r) \/ Issue(r) \/ Fail(r)
       \/ StoreTicket(r) \/ \E p \in Principals : AskTicket(r, p)
  \/ \E p \in Principals : UseTicket(p) \/ SetLive(p)
  \/ KeyToken \/ Tick

Spec == Init /\ [][Next]_sessionVars

(* ------------------------------------------------------------- properties *)

TypeOK ==
  /\ live \in [Principals -> BOOLEAN]
  /\ off \in [Principals -> 0..Longest]
  /\ access \in [Principals -> SUBSET (1..AccessTTL)]
  /\ refresh \subseteq 1..RefreshTTL
  /\ tickets \in [Principals -> SUBSET (1..TicketTTL)]
  /\ request \in [Requests -> [at : {"idle", "verified", "checked", "ticket"},
                               age : 0..MaxDelay, who : Principals]]

Grace(p) == (IF p = "key" THEN KeyStale ELSE MaxDelay) + AccessTTL

(* A principal that stays disabled loses what it holds: its last access    *)
(* token AccessTTL after the last one that could still be issued, and the  *)
(* last ticket bought with it TicketTTL and a request's delay later,       *)
(* although refresh tokens live on and can be presented again (login,      *)
(* refresh_token, token_endpoint, create_ws_ticket).                       *)
DisabledLosesAccess ==
  \A p \in Principals : ~live[p] =>
    /\ off[p] > Grace(p) => access[p] = {}
    /\ off[p] > Grace(p) + MaxDelay + TicketTTL => tickets[p] = {}
=============================================================================
