----------------------------- MODULE MailOutbox -----------------------------
(***************************************************************************)
(* The account-mail outbox (services/mail_outbox) and the account links it *)
(* delivers (controllers/account).                                         *)
(*                                                                         *)
(* A request stores a mail and, for a registration or a change of address, *)
(* the link it carries.  Workers of all replicas claim mails under a lease *)
(* and a delivery slot, talk to the SMTP server without a transaction, and *)
(* record the outcome if they still hold the lease.  A recorded delivery   *)
(* makes the link the current one, which its reader may use once.          *)
(*                                                                         *)
(* Database transactions are single steps: the account ones run under the  *)
(* registration lock, the others lock the rows they change.  A request     *)
(* refused by a rate window, a lock or a replayed operation changes        *)
(* nothing and is a stuttering step.                                       *)
(***************************************************************************)
EXTENDS Integers, FiniteSets

CONSTANTS
  Operations,      \* operation ids
  Accounts,
  Requested,       \* purposes that users ask for
  Workers,         \* replicas running the reconciler
  Slots,           \* MailDeliverySlots
  Tokens,          \* lease tokens
  NoToken, NoSlot, NoAccount,
  MaxAttempts,     \* MAX_ATTEMPTS
  MaxActive,       \* MAX_ACTIVE_MESSAGES
  MaxStored,       \* MAX_STORED_ROWS
  MaxStamps,       \* bound: security stamps of an account
  MaxGenerations,  \* bound: links of an account and purpose
  MaxCrashes       \* bound: crashes of workers and database errors

Purposes == {"Registration", "EmailChange", "Recovery"}
LinkPurposes == {"Registration", "EmailChange"}

ASSUME MailBoundsAssumption ==
  /\ MaxAttempts \in Nat \ {0} /\ MaxActive \in Nat /\ MaxStored \in Nat
  /\ MaxStamps \in Nat /\ MaxGenerations \in Nat /\ MaxCrashes \in Nat
  /\ Requested \subseteq Purposes
  /\ IsFiniteSet(Operations) /\ IsFiniteSet(Slots)

ASSUME MailNullsAssumption ==
  NoToken \notin Tokens /\ NoSlot \notin Slots /\ NoAccount \notin Accounts

VARIABLES
  mail,     \* MailOutbox
  slot,     \* MailDeliverySlots
  link,     \* AccountLinkAttempts, by mail operation
  account,  \* AspNetUsers: email_confirmed and security_stamp
  worker,   \* the batch a replica is delivering
  smtp,     \* what reached the SMTP server
  crashes

vars == <<mail, slot, link, account, worker, smtp, crashes>>

Stages == {"idle", "leased", "sending", "sent", "failed", "skipped"}

\* "pending" is a row neither delivered nor dead; live: its lease has not
\* expired; due: available_at_utc has passed.
Mails ==
  [account : Accounts \cup {NoAccount}, purpose : Purposes,
   status : {"absent", "pending", "delivered", "dead"},
   superseded : BOOLEAN, attempts : 0..MaxAttempts, due : BOOLEAN,
   token : Tokens \cup {NoToken}, live : BOOLEAN, slot : Slots \cup {NoSlot}]
Leases == [token : Tokens \cup {NoToken}, live : BOOLEAN]
Links ==
  [staged : BOOLEAN, gen : 0..MaxGenerations, stamp : 0..MaxStamps,
   current : BOOLEAN, delivered : BOOLEAN, consumed : BOOLEAN, expired : BOOLEAN]
Batches == [token : Tokens \cup {NoToken}, stage : [Operations -> Stages]]

\* Types of the tables, the workers and the SMTP server's history.
TypeOK ==
  /\ mail \in [Operations -> Mails]
  /\ slot \in [Slots -> Leases]
  /\ link \in [Operations -> Links]
  /\ account \in [Accounts -> [confirmed : BOOLEAN, stamp : 0..MaxStamps]]
  /\ worker \in [Workers -> Batches]
  /\ smtp \in [Operations -> [tries : 0..MaxAttempts, accepted : BOOLEAN]]
  /\ crashes \in 0..MaxCrashes

NoMail ==
  [account |-> NoAccount, purpose |-> "Recovery", status |-> "absent",
   superseded |-> FALSE, attempts |-> 0, due |-> FALSE,
   token |-> NoToken, live |-> FALSE, slot |-> NoSlot]
NoLease == [token |-> NoToken, live |-> FALSE]
NoLink ==
  [staged |-> FALSE, gen |-> 0, stamp |-> 0, current |-> FALSE,
   delivered |-> FALSE, consumed |-> FALSE, expired |-> FALSE]
NoBatch == [token |-> NoToken, stage |-> [o \in Operations |-> "idle"]]
Unsent == [tries |-> 0, accepted |-> FALSE]

Init ==
  /\ mail = [o \in Operations |-> NoMail]
  /\ slot = [s \in Slots |-> NoLease]
  /\ link = [o \in Operations |-> NoLink]
  /\ account \in [Accounts -> [confirmed : BOOLEAN, stamp : {0}]]
  /\ worker = [w \in Workers |-> NoBatch]
  /\ smtp = [o \in Operations |-> Unsent]
  /\ crashes = 0

(***************************************************************************)
(* A request: enqueue_in_transaction and stage in one transaction.         *)
(***************************************************************************)
\* Who may ask: an unconfirmed account registers again, a confirmed one
\* changes its address.
MayRequest(a, purpose) ==
  /\ purpose = "Registration" => ~ account[a].confirmed
  /\ purpose = "EmailChange" => account[a].confirmed

Active == {o \in Operations : mail[o].status = "pending"}
Stored == {o \in Operations : mail[o].status # "absent"}

HasCapacity == Cardinality(Active) < MaxActive /\ Cardinality(Stored) < MaxStored

\* The rows of one account and purpose.
Of(a, purpose) ==
  {o \in Stored : mail[o].account = a /\ mail[o].purpose = purpose}

NewMail(a, purpose) ==
  [account |-> a, purpose |-> purpose, status |-> "pending",
   superseded |-> FALSE, attempts |-> 0, due |-> TRUE,
   token |-> NoToken, live |-> FALSE, slot |-> NoSlot]

\* An older mail is superseded; it dies at once unless a worker holds it.
Superseded(m) ==
  [m EXCEPT !.superseded = TRUE,
            !.status = IF m.status = "pending" /\ m.token = NoToken
                       THEN "dead" ELSE m.status]

\* COALESCE(MAX(generation), 0) + 1
IsNextGeneration(g, a, purpose) ==
  /\ \A r \in Of(a, purpose) : link[r].gen < g
  /\ g = 1 \/ \E r \in Of(a, purpose) : link[r].gen = g - 1

\* The link of a new mail, of generation g.
NewLink(a, g) ==
  [staged |-> TRUE, gen |-> g, stamp |-> account[a].stamp, current |-> FALSE,
   delivered |-> FALSE, consumed |-> FALSE, expired |-> FALSE]

\* Mutant: the resend retires the link that was delivered.
stage_Retires(o, a, purpose, g) ==
  link' = [r \in Operations |->
             IF r = o THEN NewLink(a, g)
             ELSE IF r \in Of(a, purpose) THEN [link[r] EXCEPT !.current = FALSE]
             ELSE link[r]]

\* The new link is not current before its delivery.
stage(o, a, purpose, g) == link' = [link EXCEPT ![o] = NewLink(a, g)]

enqueue_in_transaction(o, a, purpose) ==
  /\ mail[o].status = "absent"
  /\ MayRequest(a, purpose)
  /\ HasCapacity
  /\ mail' = [r \in Operations |->
       IF r = o THEN NewMail(a, purpose)
       ELSE IF r \in Of(a, purpose) /\ ~ mail[r].superseded
       THEN Superseded(mail[r])
       ELSE mail[r]]
  /\ IF purpose \in LinkPurposes
     THEN \E g \in 1..MaxGenerations :
            IsNextGeneration(g, a, purpose) /\ stage(o, a, purpose, g)
     ELSE UNCHANGED link
  /\ UNCHANGED <<slot, account, worker, smtp, crashes>>

(***************************************************************************)
(* Delivery: claim_pending, deliver_one, finish_job.                       *)
(***************************************************************************)
Claimable(o) ==
  /\ mail[o].status = "pending" /\ ~ mail[o].superseded
  /\ mail[o].attempts < MaxAttempts
  /\ mail[o].due
  /\ ~ mail[o].live

FreeSlots == {s \in Slots : ~ slot[s].live}

\* Uuid::new_v4
Fresh(t) ==
  /\ \A o \in Operations : mail[o].token # t
  /\ \A s \in Slots : slot[s].token # t
  /\ \A w \in Workers : worker[w].token # t

\* A worker without a batch claims the mails J, each with a slot of its own.
claim_pending(w, t, J, place) ==
  /\ worker[w] = NoBatch
  /\ Fresh(t)
  /\ J # {} /\ \A o \in J : Claimable(o)
  /\ place \in [J -> FreeSlots] /\ \A p, q \in J : place[p] = place[q] => p = q
  /\ slot' = [s \in Slots |-> IF \E o \in J : place[o] = s
                              THEN [token |-> t, live |-> TRUE] ELSE slot[s]]
  /\ mail' = [o \in Operations |->
       IF o \in J
       THEN [mail[o] EXCEPT !.token = t, !.live = TRUE, !.slot = place[o],
                            !.attempts = mail[o].attempts + 1]
       ELSE mail[o]]
  /\ worker' = [worker EXCEPT ![w] =
       [token |-> t, stage |-> [o \in Operations |->
                                  IF o \in J THEN "leased" ELSE "idle"]]]
  /\ UNCHANGED <<link, account, smtp, crashes>>

Moves(w, o, from, to) ==
  /\ worker[w].stage[o] = from
  /\ worker' = [worker EXCEPT ![w].stage[o] = to]

Held(w, o) == worker[w].token # NoToken /\ mail[o].token = worker[w].token

\* The worker reads the row again: superseded, or taken from it.
deliver_one(w, o) ==
  /\ IF Held(w, o) /\ ~ mail[o].superseded
     THEN /\ Moves(w, o, "leased", "sending")
          /\ smtp' = [smtp EXCEPT ![o].tries = smtp[o].tries + 1]
     ELSE /\ Moves(w, o, "leased", "skipped")
          /\ UNCHANGED smtp
  /\ UNCHANGED <<mail, slot, link, account, crashes>>

\* The server answers, refuses, or accepts and the answer is lost.
send_required(w, o) ==
  /\ \/ /\ Moves(w, o, "sending", "sent")
        /\ smtp' = [smtp EXCEPT ![o].accepted = TRUE]
     \/ /\ Moves(w, o, "sending", "failed")
        /\ \/ UNCHANGED smtp
           \/ smtp' = [smtp EXCEPT ![o].accepted = TRUE]
  /\ UNCHANGED <<mail, slot, link, account, crashes>>

\* pending_identity: the link waits for its delivery.
Pending(o) ==
  link[o].staged /\ ~ link[o].delivered /\ ~ link[o].consumed /\ ~ link[o].expired

\* Links of the account and purpose of o.
Siblings(o) == Of(mail[o].account, mail[o].purpose) \ {o}

\* Mutant: the new link replaces only links requested before it.
acknowledge_fenced_success_OlderOnly(o) ==
  [r \in Operations |->
     IF r = o THEN [link[r] EXCEPT !.current = TRUE, !.delivered = TRUE]
     ELSE IF r \in Siblings(o) /\ link[r].gen < link[o].gen
       THEN [link[r] EXCEPT !.current = FALSE]
     ELSE link[r]]

acknowledge_fenced_success(o) ==
  [r \in Operations |->
     IF r = o THEN [link[r] EXCEPT !.current = TRUE, !.delivered = TRUE]
     ELSE IF r \in Siblings(o) THEN [link[r] EXCEPT !.current = FALSE]
     ELSE link[r]]

\* Mutant: a failed attempt is given back.
Finished_Refunds(m, outcome) ==
  [m EXCEPT !.status = IF outcome = "sent" THEN "delivered"
                       ELSE IF outcome = "failed" THEN "pending" ELSE "dead",
            !.attempts = IF outcome = "failed" THEN m.attempts - 1 ELSE m.attempts,
            !.due = m.due /\ outcome # "failed",
            !.token = NoToken, !.live = FALSE, !.slot = NoSlot]

\* The row after an attempt that ended with the outcome.
Finished(m, outcome) ==
  [m EXCEPT !.status = IF outcome = "sent" THEN "delivered"
                       ELSE IF outcome = "failed" /\ m.attempts < MaxAttempts
                       THEN "pending" ELSE "dead",
            !.due = m.due /\ outcome # "failed",
            !.token = NoToken, !.live = FALSE, !.slot = NoSlot]

\* The batch without o; the token is forgotten with its last mail.
Without(batch, o) ==
  LET rest == [batch.stage EXCEPT ![o] = "idle"]
  IN  IF \A r \in Operations : rest[r] = "idle" THEN NoBatch
      ELSE [token |-> batch.token, stage |-> rest]

Acknowledges(o, outcome) == outcome = "sent" /\ Pending(o)

\* Mutant: the switch of the link is left to a later pass.
finish_job_LinkLater(w, o) ==
  LET outcome == worker[w].stage[o] IN
  /\ outcome \in {"sent", "failed", "skipped"}
  /\ IF Held(w, o)
     THEN /\ mail' = [mail EXCEPT ![o] = Finished(mail[o], outcome)]
          /\ slot' = IF slot[mail[o].slot].token = worker[w].token
                     THEN [slot EXCEPT ![mail[o].slot] = NoLease] ELSE slot
     ELSE UNCHANGED <<mail, slot>>
  /\ worker' = [worker EXCEPT ![w] = Without(worker[w], o)]
  /\ UNCHANGED <<link, account, smtp, crashes>>

\* One transaction: outcome, slot and link; rolled back when the lease is lost.
finish_job(w, o) ==
  LET outcome == worker[w].stage[o] IN
  /\ outcome \in {"sent", "failed", "skipped"}
  /\ IF Held(w, o)
     THEN /\ mail' = [mail EXCEPT ![o] = Finished(mail[o], outcome)]
          /\ slot' = IF slot[mail[o].slot].token = worker[w].token
                     THEN [slot EXCEPT ![mail[o].slot] = NoLease] ELSE slot
          /\ link' = IF Acknowledges(o, outcome)
                     THEN acknowledge_fenced_success(o) ELSE link
     ELSE UNCHANGED <<mail, slot, link>>
  /\ worker' = [worker EXCEPT ![w] = Without(worker[w], o)]
  /\ UNCHANGED <<account, smtp, crashes>>

\* A database error rolls the transaction back: the leases stay.
RecordingFails(w, o) ==
  /\ worker[w].stage[o] \in {"sent", "failed", "skipped"}
  /\ crashes < MaxCrashes
  /\ crashes' = crashes + 1
  /\ worker' = [worker EXCEPT ![w] = Without(worker[w], o)]
  /\ UNCHANGED <<mail, slot, link, account, smtp>>

\* The replica dies: the leases stay.
Crash(w) ==
  /\ worker[w] # NoBatch
  /\ crashes < MaxCrashes
  /\ crashes' = crashes + 1
  /\ worker' = [worker EXCEPT ![w] = NoBatch]
  /\ UNCHANGED <<mail, slot, link, account, smtp>>

(***************************************************************************)
(* Time and maintenance.  A slot is leased just before its mail, so its    *)
(* lease ends first.                                                       *)
(***************************************************************************)
SlotLapses(s) ==
  /\ slot[s].live
  /\ slot' = [slot EXCEPT ![s].live = FALSE]
  /\ UNCHANGED <<mail, link, account, worker, smtp, crashes>>

LeaseLapses(o) ==
  /\ mail[o].live
  /\ slot[mail[o].slot].token = mail[o].token => ~ slot[mail[o].slot].live
  /\ mail' = [mail EXCEPT ![o].live = FALSE]
  /\ UNCHANGED <<slot, link, account, worker, smtp, crashes>>

BackoffEnds(o) ==
  /\ mail[o].status = "pending" /\ ~ mail[o].due
  /\ mail' = [mail EXCEPT ![o].due = TRUE]
  /\ UNCHANGED <<slot, link, account, worker, smtp, crashes>>

LinkExpires(o) ==
  /\ link[o].staged /\ ~ link[o].expired
  /\ link' = [link EXCEPT ![o].expired = TRUE]
  /\ UNCHANGED <<mail, slot, account, worker, smtp, crashes>>

\* Mutant: superseded mails are left to the workers.
expire_stale_ExhaustedOnly(o) ==
  /\ mail[o].status = "pending" /\ ~ mail[o].live
  /\ mail[o].attempts >= MaxAttempts
  /\ mail' = [mail EXCEPT ![o].status = "dead", ![o].token = NoToken,
                          ![o].slot = NoSlot]
  /\ UNCHANGED <<slot, link, account, worker, smtp, crashes>>

\* Nobody delivers the mail and nobody will.
expire_stale(o) ==
  /\ mail[o].status = "pending" /\ ~ mail[o].live
  /\ mail[o].attempts >= MaxAttempts \/ mail[o].superseded
  /\ mail' = [mail EXCEPT ![o].status = "dead", ![o].token = NoToken,
                          ![o].slot = NoSlot]
  /\ UNCHANGED <<slot, link, account, worker, smtp, crashes>>

\* After the retention of seven days the link has expired, and stage deletes
\* it too; no delivery is under way, and the id stands for a new operation.
purge_terminal(o) ==
  /\ mail[o].status \in {"delivered", "dead"}
  /\ link[o].staged => link[o].expired
  /\ \A w \in Workers : worker[w].stage[o] = "idle"
  /\ mail' = [mail EXCEPT ![o] = NoMail]
  /\ link' = [link EXCEPT ![o] = NoLink]
  /\ smtp' = [smtp EXCEPT ![o] = Unsent]
  /\ UNCHANGED <<slot, account, worker, crashes>>

(***************************************************************************)
(* The reader of an accepted mail follows its link: confirm_token and      *)
(* confirm_digest_email_change.  Following it again replays the result.    *)
(***************************************************************************)
\* link_attempts::claim and the checks of the account.
Usable(o) ==
  LET a == mail[o].account IN
  /\ smtp[o].accepted
  /\ link[o].current /\ ~ link[o].consumed /\ ~ link[o].expired
  /\ mail[o].purpose = "Registration" => mail[o].status = "delivered"
  /\ account[a].confirmed = (mail[o].purpose = "EmailChange")
  /\ link[o].stamp = account[a].stamp

FollowLink(o) ==
  LET a == mail[o].account IN
  /\ Usable(o)
  /\ account[a].stamp < MaxStamps
  /\ account' = [account EXCEPT ![a] =
       [confirmed |-> TRUE, stamp |-> account[a].stamp + 1]]
  /\ link' = [link EXCEPT ![o].consumed = TRUE, ![o].current = FALSE]
  /\ UNCHANGED <<mail, slot, worker, smtp, crashes>>

\* A logout, a new password or an administrator gives the account a new stamp.
RotateStamp(a) ==
  /\ account[a].stamp < MaxStamps
  /\ account' = [account EXCEPT ![a].stamp = account[a].stamp + 1]
  /\ UNCHANGED <<mail, slot, link, worker, smtp, crashes>>

Next ==
  \/ \E o \in Operations, a \in Accounts, p \in Requested :
       enqueue_in_transaction(o, a, p)
  \/ \E w \in Workers, t \in Tokens, J \in SUBSET Operations :
       \E place \in [J -> FreeSlots] : claim_pending(w, t, J, place)
  \/ \E w \in Workers, o \in Operations :
       \/ deliver_one(w, o) \/ send_required(w, o)
       \/ finish_job(w, o) \/ RecordingFails(w, o)
  \/ \E w \in Workers : Crash(w)
  \/ \E s \in Slots : SlotLapses(s)
  \/ \E o \in Operations :
       \/ LeaseLapses(o) \/ BackoffEnds(o) \/ LinkExpires(o)
       \/ expire_stale(o) \/ purge_terminal(o) \/ FollowLink(o)
  \/ \E a \in Accounts : RotateStamp(a)

Spec == Init /\ [][Next]_vars

(***************************************************************************)
(* Fairness: leases and delays end, a worker finishes what it started (the *)
(* SMTP exchange is bounded by SMTP_SEND_TIMEOUT), maintenance runs every  *)
(* second, and SMTP is configured.  Claims are strongly fair for each      *)
(* mail: the oldest due mail is claimed first.                             *)
(***************************************************************************)
ClaimOf(o) ==
  \E w \in Workers, t \in Tokens, J \in SUBSET Operations :
    /\ o \in J
    /\ \E place \in [J -> FreeSlots] : claim_pending(w, t, J, place)

FairSpec ==
  /\ Spec
  /\ \A s \in Slots : WF_vars(SlotLapses(s))
  /\ \A o \in Operations :
       /\ WF_vars(LeaseLapses(o)) /\ WF_vars(BackoffEnds(o))
       /\ WF_vars(expire_stale(o)) /\ SF_vars(ClaimOf(o))
  /\ \A w \in Workers, o \in Operations :
       WF_vars(deliver_one(w, o) \/ send_required(w, o) \/ finish_job(w, o))

(***************************************************************************)
(* Properties.                                                             *)
(***************************************************************************)
\* A mail is transmitted at most once per attempt it was charged, whatever
\* crashes, lapsed leases and lost answers happen, so never more than
\* MAX_ATTEMPTS times (claim_pending, finish_job).
TransmissionsArePaid ==
  \A o \in Operations : smtp[o].tries <= mail[o].attempts

\* "The SMTP success marker and account-link generation switch commit
\* together": a delivered mail has a delivered link, unless the link expired
\* first (finish_job).
DeliveryActivatesLink ==
  \A o \in Operations :
    mail[o].status = "delivered" /\ link[o].staged =>
      link[o].delivered \/ link[o].expired

\* At most one link of an account and purpose can be used, with several
\* workers acknowledging mails of the same account in any order
\* (acknowledge_fenced_success).
OneCurrentLink ==
  \A o, r \in Operations :
    /\ o # r /\ link[o].current /\ link[r].current
    /\ mail[o].account = mail[r].account
    => mail[o].purpose # mail[r].purpose

\* A link is current only when the SMTP server accepted its mail and the
\* acknowledgement is recorded (deliver_one, finish_job).
CurrentLinkWasSent ==
  \A o \in Operations :
    link[o].current => smtp[o].accepted /\ mail[o].status = "delivered"

\* Two links issued under the same security stamp never both change the
\* account, also when the older one is acknowledged after the newer one was
\* used (confirm_token, confirm_digest_email_change).
LinksActOncePerStamp ==
  \A o, r \in Operations :
    /\ o # r /\ link[o].consumed /\ link[r].consumed
    /\ mail[o].account = mail[r].account
    => link[o].stamp # link[r].stamp

\* "Failed SMTP delivery cannot invalidate the last delivered link": a
\* current link ends by its use, its retention, or an accepted mail of the
\* same account and purpose (stage, acknowledge_fenced_success).
LastLinkSurvives ==
  [][\A o \in Operations :
       link[o].current /\ ~ link'[o].current =>
         \/ link'[o].consumed \/ link[o].expired
         \/ \E r \in Siblings(o) : smtp[r].accepted /\ link'[r].current]_vars

\* A worker that records its outcome late frees the delivery slot only if it
\* still leases it (finish_job).
SlotsAreFreedByTheirOwner ==
  [][\A s \in Slots :
       slot[s].live /\ slot'[s].token = NoToken =>
         \E w \in Workers, o \in Operations :
           /\ worker[w].token = slot[s].token /\ mail[o].slot = s
           /\ worker[w].stage[o] # "idle" /\ worker'[w].stage[o] = "idle"]_vars

\* Every mail is delivered or given up, with workers crashing and mails
\* superseded while they are transmitted (expire_stale, claim_pending).
EveryMailSettles ==
  \A o \in Operations : (mail[o].status = "pending") ~> (mail[o].status # "pending")

\* "A late worker response can never reactivate an older generation": a link
\* replaces the current one only if it is newer (acknowledge_fenced_success).
NewestLinkStays ==
  [][\A o \in Operations : \A r \in Siblings(o) :
       link[r].current /\ ~ link[o].current /\ link'[o].current =>
         link[r].gen < link[o].gen]_vars
=============================================================================
