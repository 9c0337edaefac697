--------------------------- MODULE WebhookConfig ---------------------------
(***************************************************************************)
(* The webhook configuration of one merchant: columns of its row and a few  *)
(* keys of risk_profile, written by overlapping requests, and read when     *)
(* scoring dispatches an event.                                             *)
(*                                                                          *)
(* A request loads the row and, at commit, writes the columns it changed    *)
(* and risk_profile as a whole.  A challenge is the URL it was sent to: the *)
(* identifiers are unique.                                                  *)
(***************************************************************************)
CONSTANTS Urls,      (* webhook URLs that pass validation                     *)
          NoUrl,
          Handlers   (* requests the API serves at the same time              *)

VARIABLES
  row,      (* the merchant: webhook_url, webhook_secret, status, risk_profile*)
  req,      (* each handler's transaction: what it loaded and will write      *)
  approved, (* history: URLs whose last configuration was verified or waived  *)
  crossed   (* history: the configuration stems from overlapping requests     *)

vars == <<row, req, approved, crossed>>

Statuses == {"ACTIVE", "PENDING_VERIFICATION", "INACTIVE"}
Profiles == [webhook_status : {"unset", "ACTIVE", "PENDING_VERIFICATION", "DELETED"},
             challenge_id : Urls \cup {NoUrl}]
Rows == [url : Urls \cup {NoUrl}, secret : BOOLEAN, status : Statuses,
         profile : Profiles]

Columns == {"url", "secret", "status"}
Idle == [op |-> "idle"]

TypeOK ==
  /\ row \in Rows
  /\ \A h \in Handlers :
       \/ req[h] = Idle
       \/ /\ req[h].op \in {"configure", "verify", "delete"}
          /\ req[h].write \in Rows
          /\ req[h].columns \subseteq Columns
          /\ req[h].alone \in BOOLEAN
          /\ req[h].approve \in Urls \cup {NoUrl}
          /\ req[h].withdraw \in Urls \cup {NoUrl}
  /\ approved \subseteq Urls
  /\ crossed \in BOOLEAN

Init ==
  /\ row = [url |-> NoUrl, secret |-> FALSE, status |-> "ACTIVE",
            profile |-> [webhook_status |-> "unset", challenge_id |-> NoUrl]]
  /\ req = [h \in Handlers |-> Idle]
  /\ approved = {}
  /\ crossed = FALSE

-----------------------------------------------------------------------------
(* assigned: the columns that get a value no row had before.                *)
Load(h, op, write, assigned, approve, withdraw) ==
  /\ req[h] = Idle
  /\ req' = [req EXCEPT ![h] =
               [op |-> op, write |-> write, alone |-> TRUE,
                columns |-> assigned \cup {c \in Columns : write[c] # row[c]},
                approve |-> approve, withdraw |-> withdraw]]
  /\ UNCHANGED <<row, approved, crossed>>

(* _set_pending                                                             *)
PendingProfileOnly(r, u) ==
  [r EXCEPT !.profile = [webhook_status |-> "PENDING_VERIFICATION",
                         challenge_id |-> u]]

Pending(r, u) ==
  [r EXCEPT !.status = "PENDING_VERIFICATION",
            !.profile = [webhook_status |-> "PENDING_VERIFICATION",
                         challenge_id |-> u]]

(* _run_challenge: every status below 400 will do, redirects included.      *)
Answers == [status : {"2xx", "3xx", "error", "none"}, echoes : BOOLEAN]
Echoed(answer) == answer.status \in {"2xx", "3xx"} /\ answer.echoes

(* A request may waive the challenge (challenge_expected).                  *)
Approvals == {~expected \/ Echoed(answer) : expected \in BOOLEAN, answer \in Answers}

(* create_webhook: the challenge has been answered, or waived, before the   *)
(* row is loaded.  An approved URL leaves the merchant's own status alone.  *)
CreateWebhook(h, u) ==
  \E approval \in Approvals :
    IF approval
    THEN Load(h, "configure",
              [row EXCEPT !.url = u, !.secret = TRUE,
                          !.profile.webhook_status = "ACTIVE"],
              {"secret"}, u, NoUrl)
    ELSE Load(h, "configure", Pending([row EXCEPT !.url = u, !.secret = TRUE], u),
              {"secret"}, NoUrl, u)

(* update_webhook: the secret may be kept when there is one; the challenge  *)
(* is sent with the row loaded.                                             *)
UpdateWebhook(h, u) ==
  \E assigned \in {{"secret"}} \cup (IF row.secret THEN {{}} ELSE {}),
     approval \in Approvals :
    IF approval
    THEN Load(h, "configure",
              [url |-> u, secret |-> TRUE, status |-> "ACTIVE",
               profile |-> [webhook_status |-> "ACTIVE", challenge_id |-> NoUrl]],
              assigned, u, NoUrl)
    ELSE Load(h, "configure", Pending([row EXCEPT !.url = u, !.secret = TRUE], u),
              assigned, NoUrl, u)

(* verify_webhook_challenge, by hand.                                       *)
VerifyAny(h, u) ==
  Load(h, "verify",
       [row EXCEPT !.status = "ACTIVE",
                   !.profile = [webhook_status |-> "ACTIVE",
                                challenge_id |-> NoUrl]],
       {}, u, NoUrl)

Verify(h, u) ==
  /\ row.profile.challenge_id = u
  /\ VerifyAny(h, u)

(* delete_webhook: the challenge stays.                                     *)
DeleteWebhook(h) ==
  Load(h, "delete",
       [row EXCEPT !.url = NoUrl, !.secret = FALSE, !.status = "INACTIVE",
                   !.profile.webhook_status = "DELETED"],
       {}, NoUrl, NoUrl)

(* The UPDATE has the columns that differ from what was loaded, and the     *)
(* whole profile, which always differs in a timestamp.                      *)
Merged(r) ==
  [c \in {"url", "secret", "status", "profile"} |->
     IF c = "profile" \/ c \in r.columns THEN r.write[c] ELSE row[c]]

Commit(h) ==
  /\ req[h] # Idle
  /\ row' = Merged(req[h])
  /\ approved' = (approved \cup ({req[h].approve} \ {NoUrl})) \ {req[h].withdraw}
  /\ crossed' = IF req[h].alone THEN crossed /\ req[h].op = "verify" ELSE TRUE
  /\ req' = [k \in Handlers |-> IF k = h \/ req[k] = Idle THEN Idle
                                ELSE [req[k] EXCEPT !.alone = FALSE]]

Abort(h) ==
  /\ req[h] # Idle
  /\ req' = [req EXCEPT ![h] = Idle]
  /\ UNCHANGED <<row, approved, crossed>>

-----------------------------------------------------------------------------
(* Scoring dispatches to merchants with a URL and status ACTIVE.            *)
Enabled == row.url # NoUrl /\ row.status = "ACTIVE"

(* _merchant_to_out: the status a client is shown.                          *)
Reported ==
  CASE row.profile.webhook_status # "unset" -> row.profile.webhook_status
    [] row.url # NoUrl -> "ACTIVE"
    [] OTHER -> row.status

Next ==
  \E h \in Handlers :
    \/ DeleteWebhook(h) \/ Commit(h) \/ Abort(h)
    \/ \E u \in Urls : CreateWebhook(h, u) \/ UpdateWebhook(h, u) \/ Verify(h, u)

Spec == Init /\ [][Next]_vars

-----------------------------------------------------------------------------
(* However registrations, updates, manual verifications and deletions       *)
(* follow on each other, a merchant is dispatched events only when its URL  *)
(* echoed its challenge, was verified by hand or had the challenge waived,  *)
(* and the API reports it ACTIVE - unless requests overlapped, whose columns*)
(* can mix.                                                                 *)
EnabledMeansApproved ==
  crossed \/ (Enabled => row.url \in approved /\ Reported = "ACTIVE")
=============================================================================
