-------------------------- MODULE MailOutboxProofs --------------------------
(***************************************************************************)
(* Safety of MailOutbox for any mails, accounts, workers, slots and tokens.*)
(* The proof has two layers.  The leases come first: what a worker may say *)
(* of a mail it holds.  The links rest on them: what may be said of a link *)
(* that can be or has been used.                                           *)
(***************************************************************************)
EXTENDS MailOutbox, TLAPS

(***************************************************************************)
(* The invariants.                                                         *)
(***************************************************************************)
\* Two workers never remember the same lease token.
TokensDistinct ==
  \A v, w \in Workers :
    v # w /\ worker[v].token = worker[w].token => worker[v].token = NoToken

\* A leased row is pending, an absent one was never charged, and every
\* transmission was.
RowInv(o) ==
  /\ mail[o].token # NoToken => mail[o].status = "pending"
  /\ mail[o].status = "absent" => mail[o].attempts = 0
  /\ mail[o].status # "absent" => mail[o].account \in Accounts
  /\ smtp[o].tries <= mail[o].attempts

\* A worker that holds a mail and has not sent it has an attempt to spend;
\* what it calls sent was accepted.
WorkInv(w, o) ==
  /\ worker[w].stage[o] = "leased" /\ Held(w, o) =>
       smtp[o].tries < mail[o].attempts
  /\ worker[w].stage[o] = "sent" => smtp[o].accepted

LeaseInv ==
  /\ TypeOK
  /\ TokensDistinct
  /\ \A o \in Operations : RowInv(o)
  /\ \A w \in Workers, o \in Operations : WorkInv(w, o)

\* A link that can be or was used belongs to a delivered and accepted mail;
\* its use gave the account a newer stamp.
LinkInv(o) ==
  /\ link[o].current \/ link[o].consumed =>
       link[o].staged /\ mail[o].status = "delivered" /\ smtp[o].accepted
  /\ link[o].consumed => link[o].stamp < account[mail[o].account].stamp

LinksInv ==
  /\ \A o \in Operations : LinkInv(o)
  /\ DeliveryActivatesLink /\ OneCurrentLink /\ LinksActOncePerStamp

\* A live slot lease has an owner.
SlotInv == \A s \in Slots : slot[s].live => slot[s].token # NoToken

(***************************************************************************)
(* The leases.                                                             *)
(***************************************************************************)
\* The updates of a row keep its type, and change the fields they name.
LEMMA NewRow ==
  ASSUME NEW a \in Accounts, NEW p \in Purposes
  PROVE  /\ NoMail \in Mails
         /\ NewMail(a, p) \in Mails
         /\ NewMail(a, p).token = NoToken /\ NewMail(a, p).attempts = 0
         /\ NewMail(a, p).account = a /\ NewMail(a, p).purpose = p
         /\ NewMail(a, p).status = "pending"
BY MailBoundsAssumption DEF Mails, NoMail, NewMail, Purposes

LEMMA SupersededRow ==
  ASSUME NEW m \in Mails
  PROVE  /\ Superseded(m) \in Mails
         /\ Superseded(m).token = m.token /\ Superseded(m).attempts = m.attempts
         /\ Superseded(m).account = m.account /\ Superseded(m).purpose = m.purpose
         /\ \/ Superseded(m).status = m.status
            \/ Superseded(m).status = "dead" /\ m.status = "pending" /\ m.token = NoToken
BY DEF Mails, Superseded

LEMMA FlaggedRow ==
  ASSUME NEW m \in Mails
  PROVE  /\ [m EXCEPT !.live = FALSE] \in Mails
         /\ [m EXCEPT !.due = TRUE] \in Mails
         /\ [m EXCEPT !.status = "dead", !.token = NoToken, !.slot = NoSlot] \in Mails
BY DEF Mails

LEMMA FinishedRow ==
  ASSUME NEW m \in Mails, NEW outcome
  PROVE  /\ Finished(m, outcome) \in Mails
         /\ Finished(m, outcome).token = NoToken
         /\ Finished(m, outcome).attempts = m.attempts
         /\ Finished(m, outcome).account = m.account
         /\ Finished(m, outcome).purpose = m.purpose
         /\ Finished(m, outcome).status \in {"delivered", "pending", "dead"}
         /\ Finished(m, outcome).status = "delivered" <=> outcome = "sent"
<1>1. (m.due /\ outcome # "failed") \in BOOLEAN OBVIOUS
<1>2. CASE outcome = "sent" BY <1>1, <1>2 DEF Mails, Finished
<1>3. CASE outcome # "sent" /\ outcome = "failed" /\ m.attempts < MaxAttempts
  BY <1>1, <1>3 DEF Mails, Finished
<1>4. CASE outcome # "sent" /\ ~ (outcome = "failed" /\ m.attempts < MaxAttempts)
  BY <1>1, <1>4 DEF Mails, Finished
<1> QED BY <1>2, <1>3, <1>4

LEMMA BatchTypes ==
  ASSUME NEW b \in Batches, NEW o \in Operations
  PROVE  /\ NoBatch \in Batches
         /\ Without(b, o) \in Batches
         /\ Without(b, o).token \in {b.token, NoToken}
         /\ Without(b, o).stage[o] = "idle"
         /\ \A r \in Operations :
              Without(b, o).stage[r] \in {b.stage[r], "idle"}
BY DEF Batches, NoBatch, Without, Stages

LEMMA InitLease == Init => LeaseInv
<1> SUFFICES ASSUME Init PROVE LeaseInv OBVIOUS
<1> USE MailBoundsAssumption, MailNullsAssumption
<1>1. TypeOK
  BY BatchTypes DEF Init, TypeOK, Mails, NoMail, Leases, NoLease, Links, NoLink, Batches,
     NoBatch, Unsent, Stages, Purposes
<1>2. TokensDistinct BY DEF Init, TokensDistinct, NoBatch
<1>3. \A o \in Operations : RowInv(o)
  BY DEF Init, RowInv, NoMail, Unsent
<1>4. \A w \in Workers, o \in Operations : WorkInv(w, o)
  BY DEF Init, WorkInv, NoBatch
<1> QED BY <1>1, <1>2, <1>3, <1>4 DEF LeaseInv

LEMMA EnqueueLease ==
  ASSUME LeaseInv, NEW q \in Operations, NEW a \in Accounts, NEW p \in Requested,
         enqueue_in_transaction(q, a, p)
  PROVE  LeaseInv'
<1> USE MailBoundsAssumption, MailNullsAssumption
<1>0. mail \in [Operations -> Mails] /\ link \in [Operations -> Links]
  BY DEF LeaseInv, TypeOK
<1>1. p \in Purposes OBVIOUS
<1>2. UNCHANGED <<slot, account, worker, smtp, crashes>>
  BY DEF enqueue_in_transaction
<1>3. ASSUME NEW o \in Operations
      PROVE  /\ mail'[o] \in Mails
             /\ mail'[o].token = mail[o].token \/ mail'[o].token = NoToken
             /\ o # q => /\ mail'[o].token = mail[o].token
                         /\ mail'[o].attempts = mail[o].attempts
                         /\ mail'[o].account = mail[o].account
                         /\ \/ mail'[o].status = mail[o].status
                            \/ /\ mail'[o].status = "dead"
                               /\ mail[o].status = "pending"
                               /\ mail[o].token = NoToken
             /\ o = q => /\ mail'[o].token = NoToken /\ mail'[o].attempts = 0
                         /\ mail'[o].account = a /\ mail'[o].status = "pending"
  <2>1. mail[o] \in Mails BY <1>0
  <2>2. mail'[o] = IF o = q
                   THEN NewMail(a, p)
                   ELSE IF o \in Of(a, p) /\ ~ mail[o].superseded
                   THEN Superseded(mail[o]) ELSE mail[o]
    BY DEF enqueue_in_transaction
  <2>3. CASE o = q
    BY <2>2, <2>3, <1>1, NewRow
  <2>4. CASE o # q
    <3>1. CASE o \in Of(a, p) /\ ~ mail[o].superseded
      <4>1. mail'[o] = Superseded(mail[o]) BY <2>2, <2>4, <3>1
      <4> QED BY <4>1, <2>1, <2>4, SupersededRow
    <3>2. CASE ~ (o \in Of(a, p) /\ ~ mail[o].superseded)
      BY <2>1, <2>2, <2>4, <3>2
    <3> QED BY <3>1, <3>2
  <2> QED BY <2>3, <2>4
<1>4. link' \in [Operations -> Links]
  <2>1. CASE p \in LinkPurposes
    <3>1. PICK g \in 1..MaxGenerations : stage(q, a, p, g)
      BY <2>1 DEF enqueue_in_transaction
    <3>2. account[a].stamp \in 0..MaxStamps BY DEF LeaseInv, TypeOK
    <3>3. NewLink(a, g) \in Links BY <3>2 DEF NewLink, Links
    <3> QED BY <3>1, <3>3, <1>0 DEF stage
  <2> QED BY <2>1, <1>0 DEF enqueue_in_transaction
<1>5. mail' \in [Operations -> Mails]
  <2>1. mail' = [o \in Operations |-> mail'[o]] BY DEF enqueue_in_transaction
  <2> QED BY <2>1, <1>3
<1>6. TypeOK' BY <1>2, <1>4, <1>5 DEF LeaseInv, TypeOK
<1>7. TokensDistinct' BY <1>2 DEF LeaseInv, TokensDistinct
<1>8. mail[q].status = "absent" BY DEF enqueue_in_transaction
<1>9. ASSUME NEW o \in Operations PROVE RowInv(o)'
  <2>1. RowInv(o) /\ RowInv(q) BY DEF LeaseInv
  <2>2. smtp[o].tries \in Nat BY DEF LeaseInv, TypeOK
  <2> QED BY <2>1, <2>2, <1>2, <1>3, <1>8 DEF RowInv
<1>10. ASSUME NEW w \in Workers, NEW o \in Operations PROVE WorkInv(w, o)'
  <2>1. WorkInv(w, o) BY DEF LeaseInv
  <2> QED BY <2>1, <1>2, <1>3 DEF WorkInv, Held
<1> QED BY <1>6, <1>7, <1>9, <1>10 DEF LeaseInv

\* Steps after which the links mean what they meant before.
QuietRow(o) ==
  /\ mail'[o].account = mail[o].account /\ mail'[o].purpose = mail[o].purpose
  /\ mail'[o].status = "delivered" <=> mail[o].status = "delivered"
  /\ smtp[o].accepted => smtp'[o].accepted
Quiet == UNCHANGED <<link, account>> /\ \A o \in Operations : QuietRow(o)

LEMMA ClaimLease ==
  ASSUME LeaseInv, NEW v \in Workers, NEW t \in Tokens, NEW J \in SUBSET Operations,
         NEW place, claim_pending(v, t, J, place)
  PROVE  LeaseInv' /\ Quiet
<1> USE MailBoundsAssumption, MailNullsAssumption
<1>0. /\ mail \in [Operations -> Mails] /\ slot \in [Slots -> Leases]
      /\ worker \in [Workers -> Batches]
  BY DEF LeaseInv, TypeOK
<1>1. UNCHANGED <<link, account, smtp, crashes>> BY DEF claim_pending
<1>2. ASSUME NEW o \in Operations
      PROVE  /\ mail'[o] \in Mails
             /\ mail'[o].account = mail[o].account
             /\ mail'[o].purpose = mail[o].purpose
             /\ mail'[o].status = mail[o].status
             /\ o \notin J => mail'[o] = mail[o]
             /\ o \in J => /\ mail'[o].token = t
                           /\ mail[o].status = "pending"
                           /\ mail'[o].attempts = mail[o].attempts + 1
  <2>1. mail[o] \in Mails BY <1>0
  <2>2. CASE o \in J
    <3>1. mail'[o] = [mail[o] EXCEPT !.token = t, !.live = TRUE, !.slot = place[o],
                                     !.attempts = mail[o].attempts + 1]
      BY <2>2 DEF claim_pending
    <3>2. place[o] \in Slots BY <2>2 DEF claim_pending, FreeSlots
    <3>3. mail[o].status = "pending" /\ mail[o].attempts + 1 \in 0..MaxAttempts
      <4>1. Claimable(o) BY <2>2 DEF claim_pending
      <4>2. mail[o].attempts \in 0..MaxAttempts BY <2>1 DEF Mails
      <4> QED BY <4>1, <4>2 DEF Claimable
    <3> QED BY <2>1, <2>2, <3>1, <3>2, <3>3 DEF Mails
  <2>3. CASE o \notin J BY <2>1, <2>3 DEF claim_pending
  <2> QED BY <2>2, <2>3
<1>3. mail' \in [Operations -> Mails]
  <2>1. mail' = [o \in Operations |-> mail'[o]] BY DEF claim_pending
  <2> QED BY <2>1, <1>2
<1>4. slot' \in [Slots -> Leases] BY <1>0 DEF claim_pending, Leases
<1>5. /\ worker' \in [Workers -> Batches]
      /\ worker'[v].token = t
      /\ \A o \in Operations : worker'[v].stage[o] =
                                  IF o \in J THEN "leased" ELSE "idle"
      /\ \A w \in Workers \ {v} : worker'[w] = worker[w]
  BY <1>0 DEF claim_pending, Batches, Stages
<1>6. TypeOK' BY <1>1, <1>3, <1>4, <1>5 DEF LeaseInv, TypeOK
<1>7. TokensDistinct'
  BY <1>5, Zenon DEF LeaseInv, TokensDistinct, claim_pending, Fresh
<1>8. ASSUME NEW o \in Operations PROVE RowInv(o)'
  <2>1. RowInv(o) BY DEF LeaseInv
  <2>2. smtp[o].tries \in Nat /\ mail[o].attempts \in Nat
    BY DEF LeaseInv, TypeOK, Mails
  <2> QED BY <2>1, <2>2, <1>1, <1>2 DEF RowInv
<1>9. ASSUME NEW w \in Workers, NEW o \in Operations PROVE WorkInv(w, o)'
  <2>1. WorkInv(w, o) /\ RowInv(o) BY DEF LeaseInv
  <2>2. smtp[o].tries \in Nat /\ mail[o].attempts \in Nat
    BY DEF LeaseInv, TypeOK, Mails
  <2>3. CASE w = v
    <3>1. CASE o \in J BY <3>1, <2>1, <2>2, <2>3, <1>1, <1>2, <1>5 DEF WorkInv, RowInv
    <3>2. CASE o \notin J BY <3>2, <2>3, <1>5 DEF WorkInv
    <3> QED BY <3>1, <3>2
  <2>4. CASE w # v
    <3>1. worker[w].token # t BY DEF claim_pending, Fresh
    <3> QED BY <3>1, <2>1, <2>4, <1>1, <1>2, <1>5 DEF WorkInv, Held
  <2> QED BY <2>3, <2>4
<1>10. Quiet BY <1>1, <1>2 DEF Quiet, QuietRow
<1> QED BY <1>6, <1>7, <1>8, <1>9, <1>10 DEF LeaseInv

LEMMA DeliverLease ==
  ASSUME LeaseInv, NEW v \in Workers, NEW q \in Operations, deliver_one(v, q)
  PROVE  LeaseInv' /\ Quiet
<1> USE MailBoundsAssumption, MailNullsAssumption
<1>0. worker \in [Workers -> Batches] /\ RowInv(q) /\ WorkInv(v, q)
  BY DEF LeaseInv, TypeOK
<1>1. UNCHANGED <<mail, slot, link, account, crashes>> BY DEF deliver_one
<1>2. PICK to \in {"sending", "skipped"} :
        worker' = [worker EXCEPT ![v].stage[q] = to]
  BY DEF deliver_one, Moves
<1>3. /\ worker' \in [Workers -> Batches]
      /\ \A w \in Workers : worker'[w].token = worker[w].token
      /\ \A w \in Workers, o \in Operations :
           worker'[w].stage[o] \in {worker[w].stage[o], "sending", "skipped"}
      /\ worker'[v].stage[q] # "leased"
  BY <1>0, <1>2 DEF Batches, Stages
<1>4. \/ smtp' = smtp
      \/ /\ Held(v, q) /\ worker[v].stage[q] = "leased"
         /\ smtp' = [smtp EXCEPT ![q].tries = smtp[q].tries + 1]
  BY DEF deliver_one, Moves
<1>5. /\ \A o \in Operations : /\ smtp[o].tries \in Nat /\ mail[o].attempts \in Nat
                               /\ mail[o].attempts <= MaxAttempts
      /\ smtp \in [Operations -> [tries : 0..MaxAttempts, accepted : BOOLEAN]]
  BY DEF LeaseInv, TypeOK, Mails
<1>6. /\ smtp' \in [Operations -> [tries : 0..MaxAttempts, accepted : BOOLEAN]]
      /\ \A o \in Operations : smtp'[o].accepted = smtp[o].accepted
      /\ \A o \in Operations : o # q => smtp'[o].tries = smtp[o].tries
      /\ smtp'[q].tries <= mail[q].attempts
      /\ smtp'[q].tries = smtp[q].tries \/ Held(v, q)
  BY <1>0, <1>4, <1>5 DEF WorkInv, RowInv
<1>7. TypeOK' BY <1>1, <1>3, <1>6 DEF LeaseInv, TypeOK
<1>8. TokensDistinct' BY <1>3 DEF LeaseInv, TokensDistinct
<1>9. ASSUME NEW o \in Operations PROVE RowInv(o)'
  BY <1>1, <1>6 DEF LeaseInv, RowInv
<1>10. ASSUME NEW w \in Workers, NEW o \in Operations PROVE WorkInv(w, o)'
  <2>1. WorkInv(w, o) BY DEF LeaseInv
  <2>2. CASE o # q BY <2>1, <2>2, <1>1, <1>3, <1>6 DEF WorkInv, Held
  <2>3. CASE o = q /\ w = v BY <2>1, <2>3, <1>1, <1>3, <1>6 DEF WorkInv, Held
  <2>4. CASE o = q /\ w # v
    <3>1. Held(v, q) => ~ Held(w, q)
      BY <2>4 DEF LeaseInv, TokensDistinct, Held
    <3> QED BY <3>1, <2>1, <2>4, <1>1, <1>3, <1>6 DEF WorkInv, Held
  <2> QED BY <2>2, <2>3, <2>4
<1>11. Quiet BY <1>1, <1>6 DEF Quiet, QuietRow
<1> QED BY <1>7, <1>8, <1>9, <1>10, <1>11 DEF LeaseInv

LEMMA SendLease ==
  ASSUME LeaseInv, NEW v \in Workers, NEW q \in Operations, send_required(v, q)
  PROVE  LeaseInv' /\ Quiet
<1> USE MailBoundsAssumption, MailNullsAssumption
<1>0. worker \in [Workers -> Batches] BY DEF LeaseInv, TypeOK
<1>1. UNCHANGED <<mail, slot, link, account, crashes>> BY DEF send_required
<1>2. PICK to \in {"sent", "failed"} :
        /\ worker' = [worker EXCEPT ![v].stage[q] = to]
        /\ smtp' = smtp \/ smtp' = [smtp EXCEPT ![q].accepted = TRUE]
        /\ to = "sent" => smtp' = [smtp EXCEPT ![q].accepted = TRUE]
  BY DEF send_required, Moves
<1>3. /\ worker' \in [Workers -> Batches]
      /\ \A w \in Workers : worker'[w].token = worker[w].token
      /\ \A w \in Workers, o \in Operations :
           worker'[w].stage[o] = IF w = v /\ o = q THEN to ELSE worker[w].stage[o]
  BY <1>0, <1>2 DEF Batches, Stages
<1>4. smtp \in [Operations -> [tries : 0..MaxAttempts, accepted : BOOLEAN]]
  BY DEF LeaseInv, TypeOK
<1>5. /\ smtp' \in [Operations -> [tries : 0..MaxAttempts, accepted : BOOLEAN]]
      /\ \A o \in Operations : smtp'[o].tries = smtp[o].tries
      /\ \A o \in Operations : smtp[o].accepted => smtp'[o].accepted
      /\ to = "sent" => smtp'[q].accepted
  <2>1. CASE smtp' = [smtp EXCEPT ![q].accepted = TRUE] BY <2>1, <1>4
  <2>2. CASE smtp' = smtp /\ to # "sent" BY <2>2, <1>4
  <2> QED BY <2>1, <2>2, <1>2
<1>7. TypeOK' BY <1>1, <1>3, <1>5 DEF LeaseInv, TypeOK
<1>8. TokensDistinct' BY <1>3 DEF LeaseInv, TokensDistinct
<1>9. ASSUME NEW o \in Operations PROVE RowInv(o)'
  BY <1>1, <1>5 DEF LeaseInv, RowInv
<1>10. ASSUME NEW w \in Workers, NEW o \in Operations PROVE WorkInv(w, o)'
  <2>1. WorkInv(w, o) BY DEF LeaseInv
  <2> QED BY <2>1, <1>1, <1>3, <1>5 DEF WorkInv, Held
<1>11. Quiet BY <1>1, <1>5 DEF Quiet, QuietRow
<1> QED BY <1>7, <1>8, <1>9, <1>10, <1>11 DEF LeaseInv

\* finish_job changes one row; other workers do not hold it.
LEMMA FinishRow ==
  ASSUME LeaseInv, NEW v \in Workers, NEW q \in Operations, finish_job(v, q)
  PROVE  /\ UNCHANGED <<account, smtp, crashes>>
         /\ worker' = [worker EXCEPT ![v] = Without(worker[v], q)]
         /\ mail' \in [Operations -> Mails]
         /\ \A o \in Operations : o # q => mail'[o] = mail[o]
         /\ mail'[q].account = mail[q].account /\ mail'[q].purpose = mail[q].purpose
         /\ mail'[q].attempts = mail[q].attempts
         /\ mail'[q].token \in {mail[q].token, NoToken}
         /\ \/ mail'[q] = mail[q] /\ link' = link
            \/ /\ mail[q].status = "pending" /\ mail'[q].token = NoToken
               /\ mail'[q].status \in {"delivered", "pending", "dead"}
               /\ mail'[q].status = "delivered" <=> worker[v].stage[q] = "sent"
               /\ link' = IF Acknowledges(q, worker[v].stage[q])
                          THEN acknowledge_fenced_success(q) ELSE link
<1> DEFINE out == worker[v].stage[q]
<1>0. mail \in [Operations -> Mails] /\ mail[q] \in Mails /\ RowInv(q)
  BY DEF LeaseInv, TypeOK
<1>1. /\ UNCHANGED <<account, smtp, crashes>>
      /\ worker' = [worker EXCEPT ![v] = Without(worker[v], q)]
  BY DEF finish_job
<1>2. CASE Held(v, q)
  <2>1. /\ mail' = [mail EXCEPT ![q] = Finished(mail[q], out)]
        /\ link' = IF Acknowledges(q, out) THEN acknowledge_fenced_success(q) ELSE link
    BY <1>2 DEF finish_job
  <2>2. mail[q].status = "pending" BY <1>0, <1>2 DEF RowInv, Held
  <2>3. mail'[q] = Finished(mail[q], out) BY <2>1, <1>0
  <2>4. \A o \in Operations : o # q => mail'[o] = mail[o] BY <2>1, <1>0
  <2>5. /\ Finished(mail[q], out) \in Mails
        /\ mail'[q].token = NoToken /\ mail'[q].attempts = mail[q].attempts
        /\ mail'[q].account = mail[q].account /\ mail'[q].purpose = mail[q].purpose
        /\ mail'[q].status \in {"delivered", "pending", "dead"}
        /\ mail'[q].status = "delivered" <=> out = "sent"
    BY <2>3, <1>0, FinishedRow
  <2>6. mail' \in [Operations -> Mails] BY <2>1, <2>5, <1>0
  <2> QED BY <1>1, <2>1, <2>2, <2>4, <2>5, <2>6
<1>3. CASE ~ Held(v, q)
  <2>1. UNCHANGED <<mail, link>> BY <1>3 DEF finish_job
  <2> QED BY <2>1, <1>0, <1>1
<1> QED BY <1>2, <1>3

LEMMA FinishLease ==
  ASSUME LeaseInv, NEW v \in Workers, NEW q \in Operations, finish_job(v, q)
  PROVE  LeaseInv'
<1> USE MailBoundsAssumption, MailNullsAssumption
<1>0. /\ worker \in [Workers -> Batches] /\ slot \in [Slots -> Leases]
      /\ link \in [Operations -> Links] /\ worker[v] \in Batches
  BY DEF LeaseInv, TypeOK
<1>1. /\ UNCHANGED <<account, smtp, crashes>>
      /\ worker' = [worker EXCEPT ![v] = Without(worker[v], q)]
      /\ mail' \in [Operations -> Mails]
  BY FinishRow
<1>2. ASSUME NEW o \in Operations
      PROVE  /\ mail'[o].account = mail[o].account
             /\ mail'[o].attempts = mail[o].attempts
             /\ mail'[o].token \in {mail[o].token, NoToken}
             /\ \/ mail'[o].status = mail[o].status /\ mail'[o].token = mail[o].token
                \/ /\ mail[o].status = "pending" /\ mail'[o].status # "absent"
                   /\ mail'[o].token = NoToken
  <2>1. CASE o = q BY <2>1, FinishRow
  <2>2. CASE o # q BY <2>2, FinishRow
  <2> QED BY <2>1, <2>2
<1>3. /\ worker' \in [Workers -> Batches]
      /\ \A w \in Workers : worker'[w].token \in {worker[w].token, NoToken}
      /\ \A w \in Workers, o \in Operations :
           worker'[w].stage[o] \in {worker[w].stage[o], "idle"}
  BY <1>0, <1>1, BatchTypes
<1>4. slot' \in [Slots -> Leases]
  <2>1. NoLease \in Leases BY DEF NoLease, Leases
  <2>2. slot' = slot \/ slot' = [slot EXCEPT ![mail[q].slot] = NoLease]
    BY DEF finish_job
  <2> QED BY <2>1, <2>2, <1>0
<1>5. link' \in [Operations -> Links]
  <2>1. link' = link \/ link' = acknowledge_fenced_success(q) BY FinishRow
  <2>2. ASSUME NEW o \in Operations
        PROVE  /\ [link[o] EXCEPT !.current = TRUE, !.delivered = TRUE] \in Links
               /\ [link[o] EXCEPT !.current = FALSE] \in Links
    <3>1. link[o] \in Links BY <1>0
    <3> QED BY <3>1 DEF Links
  <2>3. acknowledge_fenced_success(q) \in [Operations -> Links]
    BY <2>2, <1>0 DEF acknowledge_fenced_success
  <2> QED BY <2>1, <2>3, <1>0
<1>6. TypeOK' BY <1>1, <1>3, <1>4, <1>5 DEF LeaseInv, TypeOK
<1>7. TokensDistinct' BY <1>3, Zenon DEF LeaseInv, TokensDistinct
<1>8. ASSUME NEW o \in Operations PROVE RowInv(o)'
  <2>1. RowInv(o) BY DEF LeaseInv
  <2> QED BY <2>1, <1>1, <1>2 DEF RowInv
<1>9. ASSUME NEW w \in Workers, NEW o \in Operations PROVE WorkInv(w, o)'
  <2>1. WorkInv(w, o) BY DEF LeaseInv
  <2> QED BY <2>1, <1>1, <1>2, <1>3 DEF WorkInv, Held
<1> QED BY <1>6, <1>7, <1>8, <1>9 DEF LeaseInv

\* RecordingFails and Crash only empty a batch.
LEMMA LoseLease ==
  ASSUME LeaseInv, NEW v \in Workers,
         Crash(v) \/ \E q \in Operations : RecordingFails(v, q)
  PROVE  LeaseInv' /\ Quiet
<1> USE MailBoundsAssumption, MailNullsAssumption
<1>0. /\ worker \in [Workers -> Batches] /\ worker[v] \in Batches
      /\ crashes \in 0..MaxCrashes
  BY DEF LeaseInv, TypeOK
<1>1. /\ UNCHANGED <<mail, slot, link, account, smtp>>
      /\ crashes < MaxCrashes /\ crashes' = crashes + 1
  BY DEF Crash, RecordingFails
<1>2. PICK b :
        /\ worker' = [worker EXCEPT ![v] = b]
        /\ b = NoBatch \/ \E q \in Operations : b = Without(worker[v], q)
  BY DEF Crash, RecordingFails
<1>3. /\ b \in Batches /\ b.token \in {worker[v].token, NoToken}
      /\ \A o \in Operations : b.stage[o] \in {worker[v].stage[o], "idle"}
  <2>1. CASE b = NoBatch BY <2>1 DEF NoBatch, Batches, Stages
  <2>2. CASE \E q \in Operations : b = Without(worker[v], q)
    BY <2>2, <1>0, BatchTypes
  <2> QED BY <2>1, <2>2, <1>2
<1>4. /\ worker' \in [Workers -> Batches]
      /\ \A w \in Workers : worker'[w].token \in {worker[w].token, NoToken}
      /\ \A w \in Workers, o \in Operations :
           worker'[w].stage[o] \in {worker[w].stage[o], "idle"}
  BY <1>0, <1>2, <1>3
<1>5. crashes' \in 0..MaxCrashes BY <1>0, <1>1
<1>6. TypeOK' BY <1>1, <1>4, <1>5 DEF LeaseInv, TypeOK
<1>7. TokensDistinct' BY <1>4, Zenon DEF LeaseInv, TokensDistinct
<1>8. ASSUME NEW o \in Operations PROVE RowInv(o)'
  BY <1>1 DEF LeaseInv, RowInv
<1>9. ASSUME NEW w \in Workers, NEW o \in Operations PROVE WorkInv(w, o)'
  <2>1. WorkInv(w, o) BY DEF LeaseInv
  <2> QED BY <2>1, <1>1, <1>4 DEF WorkInv, Held
<1>10. Quiet BY <1>1 DEF Quiet, QuietRow
<1> QED BY <1>6, <1>7, <1>8, <1>9, <1>10 DEF LeaseInv

LEMMA SlotLapsesLease ==
  ASSUME LeaseInv, NEW s \in Slots, SlotLapses(s)
  PROVE  LeaseInv' /\ Quiet
<1>1. UNCHANGED <<mail, link, account, worker, smtp, crashes>> BY DEF SlotLapses
<1>2. slot' \in [Slots -> Leases] BY DEF LeaseInv, TypeOK, SlotLapses, Leases
<1>3. TypeOK' BY <1>1, <1>2 DEF LeaseInv, TypeOK
<1>4. TokensDistinct' BY <1>1 DEF LeaseInv, TokensDistinct
<1>5. \A o \in Operations : RowInv(o)' BY <1>1 DEF LeaseInv, RowInv
<1>6. \A w \in Workers, o \in Operations : WorkInv(w, o)'
  BY <1>1 DEF LeaseInv, WorkInv, Held
<1>7. Quiet BY <1>1 DEF Quiet, QuietRow
<1> QED BY <1>3, <1>4, <1>5, <1>6, <1>7 DEF LeaseInv

\* Clocks and maintenance change the flags of a row, and give up a pending one.
LEMMA RowLease ==
  ASSUME LeaseInv, NEW q \in Operations,
         LeaseLapses(q) \/ BackoffEnds(q) \/ expire_stale(q)
  PROVE  LeaseInv' /\ Quiet
<1> USE MailBoundsAssumption, MailNullsAssumption
<1>0. mail \in [Operations -> Mails] /\ mail[q] \in Mails BY DEF LeaseInv, TypeOK
<1>1. UNCHANGED <<slot, link, account, worker, smtp, crashes>>
  BY DEF LeaseLapses, BackoffEnds, expire_stale
<1>2. PICK m :
        /\ mail' = [mail EXCEPT ![q] = m]
        /\ \/ m = [mail[q] EXCEPT !.live = FALSE]
           \/ m = [mail[q] EXCEPT !.due = TRUE]
           \/ /\ m = [mail[q] EXCEPT !.status = "dead", !.token = NoToken,
                                     !.slot = NoSlot]
              /\ mail[q].status = "pending"
  <2>1. CASE LeaseLapses(q)
    <3>1. mail' = [mail EXCEPT ![q] = [mail[q] EXCEPT !.live = FALSE]]
      BY <2>1, <1>0 DEF LeaseLapses
    <3> QED BY <3>1
  <2>2. CASE BackoffEnds(q)
    <3>1. mail' = [mail EXCEPT ![q] = [mail[q] EXCEPT !.due = TRUE]]
      BY <2>2, <1>0 DEF BackoffEnds
    <3> QED BY <3>1
  <2>3. CASE expire_stale(q)
    <3>1. mail' = [mail EXCEPT ![q] = [mail[q] EXCEPT !.status = "dead",
                                        !.token = NoToken, !.slot = NoSlot]]
      BY <2>3, <1>0 DEF expire_stale
    <3>2. mail[q].status = "pending" BY <2>3 DEF expire_stale
    <3> QED BY <3>1, <3>2
  <2> QED BY <2>1, <2>2, <2>3
<1>3. /\ m \in Mails
      /\ m.account = mail[q].account /\ m.purpose = mail[q].purpose
      /\ m.attempts = mail[q].attempts
      /\ \/ m.status = mail[q].status /\ m.token = mail[q].token
         \/ m.status = "dead" /\ mail[q].status = "pending" /\ m.token = NoToken
  <2>1. m \in Mails BY <1>0, <1>2, FlaggedRow
  <2>2. CASE m = [mail[q] EXCEPT !.live = FALSE] BY <2>1, <2>2, <1>0 DEF Mails
  <2>3. CASE m = [mail[q] EXCEPT !.due = TRUE] BY <2>1, <2>3, <1>0 DEF Mails
  <2>4. CASE /\ m = [mail[q] EXCEPT !.status = "dead", !.token = NoToken,
                                    !.slot = NoSlot]
             /\ mail[q].status = "pending"
    BY <2>1, <2>4, <1>0 DEF Mails
  <2> QED BY <2>2, <2>3, <2>4, <1>2
<1>4. /\ mail' \in [Operations -> Mails] /\ mail'[q] = m
      /\ \A o \in Operations : o # q => mail'[o] = mail[o]
  BY <1>0, <1>2, <1>3
<1>5. TypeOK' BY <1>1, <1>4 DEF LeaseInv, TypeOK
<1>6. TokensDistinct' BY <1>1 DEF LeaseInv, TokensDistinct
<1>7. ASSUME NEW o \in Operations PROVE RowInv(o)'
  <2>1. RowInv(o) BY DEF LeaseInv
  <2>2. CASE o = q BY <2>1, <2>2, <1>1, <1>3, <1>4 DEF RowInv
  <2>3. CASE o # q BY <2>1, <2>3, <1>1, <1>4 DEF RowInv
  <2> QED BY <2>2, <2>3
<1>8. ASSUME NEW w \in Workers, NEW o \in Operations PROVE WorkInv(w, o)'
  <2>1. WorkInv(w, o) BY DEF LeaseInv
  <2>2. CASE o = q BY <2>1, <2>2, <1>1, <1>3, <1>4 DEF WorkInv, Held
  <2>3. CASE o # q BY <2>1, <2>3, <1>1, <1>4 DEF WorkInv, Held
  <2> QED BY <2>2, <2>3
<1>9. Quiet
  <2>1. ASSUME NEW o \in Operations PROVE QuietRow(o)
    <3>1. CASE o = q BY <3>1, <1>1, <1>3, <1>4 DEF QuietRow
    <3>2. CASE o # q BY <3>2, <1>1, <1>4 DEF QuietRow
    <3> QED BY <3>1, <3>2
  <2> QED BY <2>1, <1>1 DEF Quiet
<1> QED BY <1>5, <1>6, <1>7, <1>8, <1>9 DEF LeaseInv

LEMMA PurgeLease ==
  ASSUME LeaseInv, NEW q \in Operations, purge_terminal(q)
  PROVE  LeaseInv'
<1> USE MailBoundsAssumption, MailNullsAssumption
<1>0. /\ mail \in [Operations -> Mails] /\ link \in [Operations -> Links]
      /\ smtp \in [Operations -> [tries : 0..MaxAttempts, accepted : BOOLEAN]]
  BY DEF LeaseInv, TypeOK
<1>1. UNCHANGED <<slot, account, worker, crashes>> BY DEF purge_terminal
<1>2. /\ NoMail \in Mails /\ NoLink \in Links
      /\ Unsent \in [tries : 0..MaxAttempts, accepted : BOOLEAN]
      /\ NoMail.token = NoToken /\ NoMail.status = "absent" /\ NoMail.attempts = 0
      /\ Unsent.tries = 0
  BY DEF NoMail, Mails, NoLink, Links, Unsent, Purposes
<1>3. /\ mail' \in [Operations -> Mails] /\ mail'[q] = NoMail
      /\ link' \in [Operations -> Links]
      /\ smtp' \in [Operations -> [tries : 0..MaxAttempts, accepted : BOOLEAN]]
      /\ smtp'[q] = Unsent
      /\ \A o \in Operations : o # q => mail'[o] = mail[o] /\ smtp'[o] = smtp[o]
      /\ \A w \in Workers : worker[w].stage[q] = "idle"
  BY <1>0, <1>2 DEF purge_terminal
<1>4. TypeOK' BY <1>1, <1>3 DEF LeaseInv, TypeOK
<1>5. TokensDistinct' BY <1>1 DEF LeaseInv, TokensDistinct
<1>6. ASSUME NEW o \in Operations PROVE RowInv(o)'
  <2>1. RowInv(o) BY DEF LeaseInv
  <2>2. CASE o = q BY <2>2, <1>2, <1>3 DEF RowInv
  <2>3. CASE o # q BY <2>1, <2>3, <1>3 DEF RowInv
  <2> QED BY <2>2, <2>3
<1>7. ASSUME NEW w \in Workers, NEW o \in Operations PROVE WorkInv(w, o)'
  <2>1. WorkInv(w, o) BY DEF LeaseInv
  <2>2. CASE o = q BY <2>2, <1>1, <1>3 DEF WorkInv
  <2>3. CASE o # q BY <2>1, <2>3, <1>1, <1>3 DEF WorkInv, Held
  <2> QED BY <2>2, <2>3
<1> QED BY <1>4, <1>5, <1>6, <1>7 DEF LeaseInv

\* Steps of readers, of the link's clock and of other handlers.
LEMMA ReaderLease ==
  ASSUME LeaseInv,
         \/ \E q \in Operations : LinkExpires(q) \/ FollowLink(q)
         \/ \E a \in Accounts : RotateStamp(a)
  PROVE  LeaseInv'
<1> USE MailBoundsAssumption, MailNullsAssumption
<1>0. /\ link \in [Operations -> Links]
      /\ account \in [Accounts -> [confirmed : BOOLEAN, stamp : 0..MaxStamps]]
  BY DEF LeaseInv, TypeOK
<1>1. UNCHANGED <<mail, slot, worker, smtp, crashes>>
  BY DEF LinkExpires, FollowLink, RotateStamp
<1> DEFINE Typed ==
      /\ link' \in [Operations -> Links]
      /\ account' \in [Accounts -> [confirmed : BOOLEAN, stamp : 0..MaxStamps]]
<1>2. Typed
  <2>1. ASSUME NEW q \in Operations, LinkExpires(q) PROVE Typed
    <3>1. link' = [link EXCEPT ![q] = [link[q] EXCEPT !.expired = TRUE]]
      BY <2>1, <1>0 DEF LinkExpires
    <3>2. [link[q] EXCEPT !.expired = TRUE] \in Links
      BY <1>0, ZenonT(40) DEF Links
    <3>3. account' = account
      BY <2>1 DEF LinkExpires
    <3> QED
      BY <3>1, <3>2, <3>3, <1>0
  <2>2. ASSUME NEW q \in Operations, FollowLink(q) PROVE Typed
    <3>0. link' = [link EXCEPT ![q] = [link[q] EXCEPT !.consumed = TRUE,
                                                      !.current = FALSE]]
      BY <2>2, <1>0 DEF FollowLink
    <3>5. [link[q] EXCEPT !.consumed = TRUE, !.current = FALSE] \in Links
      BY <1>0, ZenonT(40) DEF Links
    <3>1. link' \in [Operations -> Links]
      BY <3>0, <3>5, <1>0
    <3> DEFINE a == mail[q].account
    <3>2. /\ account[a].stamp < MaxStamps
          /\ account' = [account EXCEPT ![a] =
                           [confirmed |-> TRUE, stamp |-> account[a].stamp + 1]]
      BY <2>2 DEF FollowLink
    <3>3. CASE a \in Accounts BY <3>1, <3>2, <3>3, <1>0
    <3>4. CASE a \notin Accounts BY <3>1, <3>2, <3>4, <1>0
    <3> QED BY <3>3, <3>4
  <2>3. ASSUME NEW a \in Accounts, RotateStamp(a) PROVE Typed
    BY <2>3, <1>0 DEF RotateStamp
  <2> QED BY <2>1, <2>2, <2>3
<1>3. TypeOK' BY <1>1, <1>2 DEF LeaseInv, TypeOK
<1>4. TokensDistinct' BY <1>1 DEF LeaseInv, TokensDistinct
<1>5. \A o \in Operations : RowInv(o)' BY <1>1 DEF LeaseInv, RowInv
<1>6. \A w \in Workers, o \in Operations : WorkInv(w, o)'
  BY <1>1 DEF LeaseInv, WorkInv, Held
<1> QED BY <1>3, <1>4, <1>5, <1>6 DEF LeaseInv

LEMMA StutterLease ==
  ASSUME LeaseInv, UNCHANGED vars
  PROVE  LeaseInv' /\ Quiet
BY DEF LeaseInv, TypeOK, TokensDistinct, RowInv, WorkInv, Held, Quiet, QuietRow, vars

LEMMA NextLease == LeaseInv /\ [Next]_vars => LeaseInv'
<1> SUFFICES ASSUME LeaseInv, [Next]_vars PROVE LeaseInv' OBVIOUS
<1> QED
  BY EnqueueLease, ClaimLease, DeliverLease, SendLease, FinishLease, LoseLease,
     SlotLapsesLease, RowLease, PurgeLease, ReaderLease, StutterLease DEF Next

\* The tables, the workers and the SMTP history keep their types.
THEOREM TypeCorrect == Spec => []TypeOK
<1>1. LeaseInv => TypeOK BY DEF LeaseInv
<1> QED BY <1>1, InitLease, NextLease, PTL DEF Spec

\* No mail is transmitted more often than it was charged (claim_pending,
\* finish_job), for any number of workers, crashes and lapsed leases.
THEOREM TransmissionsAreCharged == Spec => []TransmissionsArePaid
<1>1. LeaseInv => TransmissionsArePaid
  BY DEF LeaseInv, RowInv, TransmissionsArePaid
<1> QED BY <1>1, InitLease, NextLease, PTL DEF Spec

(***************************************************************************)
(* The links.                                                              *)
(***************************************************************************)
LEMMA InitLinks == Init => LinksInv
BY DEF Init, LinksInv, LinkInv, DeliveryActivatesLink, OneCurrentLink,
   LinksActOncePerStamp, NoLink, NoMail

LEMMA QuietLinks ==
  ASSUME LinksInv, Quiet
  PROVE  LinksInv'
<1>1. UNCHANGED <<link, account>> BY DEF Quiet
<1>2. \A o \in Operations : QuietRow(o) BY DEF Quiet
<1>3. ASSUME NEW o \in Operations PROVE LinkInv(o)'
  <2>1. LinkInv(o) /\ QuietRow(o) BY <1>2 DEF LinksInv
  <2> QED BY <2>1, <1>1 DEF LinkInv, QuietRow
<1>4. DeliveryActivatesLink'
  BY <1>1, <1>2 DEF LinksInv, DeliveryActivatesLink, QuietRow
<1>5. OneCurrentLink'
  BY <1>1, <1>2 DEF LinksInv, OneCurrentLink, QuietRow
<1>6. LinksActOncePerStamp'
  BY <1>1, <1>2 DEF LinksInv, LinksActOncePerStamp, QuietRow
<1> QED BY <1>3, <1>4, <1>5, <1>6 DEF LinksInv

\* A new mail brings a link that nobody can use; the other links stay.
LEMMA EnqueueLinks ==
  ASSUME LeaseInv, LinksInv, NEW q \in Operations, NEW a \in Accounts,
         NEW p \in Requested, enqueue_in_transaction(q, a, p)
  PROVE  LinksInv'
<1> USE MailBoundsAssumption, MailNullsAssumption
<1>0. mail \in [Operations -> Mails] /\ link \in [Operations -> Links]
  BY DEF LeaseInv, TypeOK
<1>1. UNCHANGED <<account, smtp>> /\ mail[q].status = "absent"
  BY DEF enqueue_in_transaction
<1>2. /\ mail'[q].status = "pending"
      /\ ~ link'[q].current /\ ~ link'[q].consumed
  <2>1. mail'[q] = NewMail(a, p) BY DEF enqueue_in_transaction
  <2>2. ~ link[q].current /\ ~ link[q].consumed BY <1>1 DEF LinksInv, LinkInv
  <2>3. CASE p \in LinkPurposes
    <3>1. PICK g \in 1..MaxGenerations : stage(q, a, p, g)
      BY <2>3 DEF enqueue_in_transaction
    <3> QED BY <3>1, <2>1, <1>0 DEF stage, NewLink, NewMail
  <2>4. CASE p \notin LinkPurposes
    BY <2>1, <2>2, <2>4 DEF enqueue_in_transaction, NewMail
  <2> QED BY <2>3, <2>4
<1>3. ASSUME NEW o \in Operations, o # q
      PROVE  link'[o] = link[o] /\ QuietRow(o)
  <2>1. link'[o] = link[o]
    <3>1. CASE p \in LinkPurposes
      BY <3>1, <1>3, <1>0 DEF enqueue_in_transaction, stage
    <3> QED BY <3>1 DEF enqueue_in_transaction
  <2>2. mail'[o] = IF o \in Of(a, p) /\ ~ mail[o].superseded
                   THEN Superseded(mail[o]) ELSE mail[o]
    BY <1>3 DEF enqueue_in_transaction
  <2>3. mail'[o] = Superseded(mail[o]) \/ mail'[o] = mail[o] BY <2>2
  <2>4. mail[o] \in Mails BY <1>0
  <2>5. QuietRow(o) BY <2>3, <2>4, <1>1, SupersededRow DEF QuietRow
  <2> QED BY <2>1, <2>5
<1>4. ASSUME NEW o \in Operations PROVE LinkInv(o)'
  <2>1. CASE o = q BY <2>1, <1>2 DEF LinkInv
  <2>2. CASE o # q
    <3>1. LinkInv(o) /\ QuietRow(o) /\ link'[o] = link[o] BY <2>2, <1>3 DEF LinksInv
    <3> QED BY <3>1, <1>1 DEF LinkInv, QuietRow
  <2> QED BY <2>1, <2>2
<1>5. DeliveryActivatesLink'
  BY <1>2, <1>3 DEF LinksInv, DeliveryActivatesLink, QuietRow
<1>6. OneCurrentLink'
  BY <1>2, <1>3 DEF LinksInv, OneCurrentLink, QuietRow
<1>7. LinksActOncePerStamp'
  BY <1>2, <1>3 DEF LinksInv, LinksActOncePerStamp, QuietRow
<1> QED BY <1>4, <1>5, <1>6, <1>7 DEF LinksInv

\* A recorded delivery makes its link current and its siblings not current:
\* all of them, because a current link belongs to a stored mail.
LEMMA FinishLinks ==
  ASSUME LeaseInv, LinksInv, NEW v \in Workers, NEW q \in Operations,
         finish_job(v, q)
  PROVE  LinksInv'
<1> DEFINE out == worker[v].stage[q]
<1>0. /\ mail \in [Operations -> Mails] /\ link \in [Operations -> Links]
      /\ WorkInv(v, q)
  BY DEF LeaseInv, TypeOK
<1>1. UNCHANGED <<account, smtp>> BY FinishRow
<1>2. \A o \in Operations : o # q => mail'[o] = mail[o] BY FinishRow
<1>3. mail'[q].account = mail[q].account /\ mail'[q].purpose = mail[q].purpose
  BY FinishRow
<1>4. CASE /\ link' = link
           /\ mail'[q].status = "delivered" <=> mail[q].status = "delivered"
  <2>1. Quiet BY <1>1, <1>2, <1>3, <1>4 DEF Quiet, QuietRow
  <2> QED BY <2>1, QuietLinks
<1>5. CASE /\ mail[q].status = "pending" /\ mail'[q].status = "delivered"
           /\ out = "sent"
           /\ link' = IF Pending(q) THEN acknowledge_fenced_success(q) ELSE link
  <2>1. /\ smtp[q].accepted BY <1>0, <1>5 DEF WorkInv
  <2>2. ~ link[q].current /\ ~ link[q].consumed BY <1>5 DEF LinksInv, LinkInv
  <2>3. /\ ~ link'[q].consumed
        /\ link'[q].staged = link[q].staged
        /\ link[q].staged => link'[q].delivered \/ link'[q].expired
        /\ link'[q].current => link[q].staged
    <3>1. link[q] \in Links BY <1>0
    <3>2. CASE Pending(q)
      <4>1. link'[q] = [link[q] EXCEPT !.current = TRUE, !.delivered = TRUE]
        BY <3>2, <1>5 DEF acknowledge_fenced_success
      <4> QED BY <4>1, <3>1, <3>2, <2>2 DEF Links, Pending
    <3>3. CASE ~ Pending(q) BY <3>3, <1>5, <2>2 DEF Pending
    <3> QED BY <3>2, <3>3
  <2>4. ASSUME NEW o \in Operations, o # q
        PROVE  /\ link'[o].consumed = link[o].consumed
               /\ link'[o].staged = link[o].staged
               /\ link'[o].stamp = link[o].stamp
               /\ link'[o].delivered = link[o].delivered
               /\ link'[o].expired = link[o].expired
               /\ link'[o].current => link[o].current
               /\ link'[o].current /\ link'[q].current => o \notin Siblings(q)
    <3>1. link[o] \in Links BY <1>0
    <3>2. CASE Pending(q) /\ o \in Siblings(q)
      <4>1. link'[o] = [link[o] EXCEPT !.current = FALSE]
        BY <3>2, <2>4, <1>5 DEF acknowledge_fenced_success
      <4> QED BY <4>1, <3>1 DEF Links
    <3>3. CASE Pending(q) /\ o \notin Siblings(q)
      BY <3>3, <2>4, <1>5 DEF acknowledge_fenced_success
    <3>4. CASE ~ Pending(q) BY <3>4, <1>5, <2>2
    <3> QED BY <3>2, <3>3, <3>4
  <2>5. ASSUME NEW o \in Operations PROVE LinkInv(o)'
    <3>1. CASE o = q BY <3>1, <2>1, <2>3, <1>1, <1>5 DEF LinkInv
    <3>2. CASE o # q
      <4>1. LinkInv(o) BY DEF LinksInv
      <4> QED BY <4>1, <3>2, <2>4, <1>1, <1>2 DEF LinkInv
    <3> QED BY <3>1, <3>2
  <2>6. ASSUME NEW o \in Operations, mail'[o].status = "delivered", link'[o].staged
        PROVE  link'[o].delivered \/ link'[o].expired
    <3>1. CASE o = q BY <3>1, <2>3, <2>6
    <3>2. CASE o # q
      BY <3>2, <2>4, <2>6, <1>2 DEF LinksInv, DeliveryActivatesLink
    <3> QED BY <3>1, <3>2
  <2>7. ASSUME NEW o \in Operations, o # q, link'[o].current, link'[q].current,
               mail[o].account = mail[q].account
        PROVE  mail[o].purpose # mail[q].purpose
    <3>1. mail[o].status = "delivered" BY <2>4, <2>7 DEF LinksInv, LinkInv
    <3>2. o \notin Siblings(q) BY <2>4, <2>7
    <3> QED BY <3>1, <3>2, <2>7 DEF Siblings, Of, Stored
  <2>8. ASSUME NEW o \in Operations, NEW r \in Operations, o # r,
               link'[o].current, link'[r].current,
               mail'[o].account = mail'[r].account
        PROVE  mail'[o].purpose # mail'[r].purpose
    <3>1. CASE o = q BY <3>1, <2>7, <2>8, <1>2, <1>3
    <3>2. CASE r = q BY <3>2, <2>7, <2>8, <1>2, <1>3
    <3>3. CASE o # q /\ r # q
      BY <3>3, <2>4, <2>8, <1>2 DEF LinksInv, OneCurrentLink
    <3> QED BY <3>1, <3>2, <3>3
  <2>9. ASSUME NEW o \in Operations, NEW r \in Operations, o # r,
               link'[o].consumed, link'[r].consumed,
               mail'[o].account = mail'[r].account
        PROVE  link'[o].stamp # link'[r].stamp
    <3>1. o # q /\ r # q BY <2>3, <2>9
    <3> QED BY <3>1, <2>4, <2>9, <1>2 DEF LinksInv, LinksActOncePerStamp
  <2> QED BY <2>5, <2>6, <2>8, <2>9
          DEF LinksInv, DeliveryActivatesLink, OneCurrentLink, LinksActOncePerStamp
<1> QED BY <1>4, <1>5, FinishRow DEF Acknowledges

LEMMA PurgeLinks ==
  ASSUME LeaseInv, LinksInv, NEW q \in Operations, purge_terminal(q)
  PROVE  LinksInv'
<1>0. /\ mail \in [Operations -> Mails] /\ link \in [Operations -> Links]
      /\ smtp \in [Operations -> [tries : 0..MaxAttempts, accepted : BOOLEAN]]
  BY DEF LeaseInv, TypeOK
<1>1. /\ account' = account
      /\ mail'[q].status = "absent"
      /\ ~ link'[q].current /\ ~ link'[q].consumed
      /\ \A o \in Operations : o # q =>
           mail'[o] = mail[o] /\ link'[o] = link[o] /\ smtp'[o] = smtp[o]
  BY <1>0 DEF purge_terminal, NoMail, NoLink
<1>2. ASSUME NEW o \in Operations PROVE LinkInv(o)'
  <2>1. CASE o = q BY <2>1, <1>1 DEF LinkInv
  <2>2. CASE o # q
    <3>1. LinkInv(o) BY DEF LinksInv
    <3> QED BY <3>1, <2>2, <1>1 DEF LinkInv
  <2> QED BY <2>1, <2>2
<1>3. DeliveryActivatesLink' BY <1>1 DEF LinksInv, DeliveryActivatesLink
<1>4. OneCurrentLink' BY <1>1 DEF LinksInv, OneCurrentLink
<1>5. LinksActOncePerStamp' BY <1>1 DEF LinksInv, LinksActOncePerStamp
<1> QED BY <1>2, <1>3, <1>4, <1>5 DEF LinksInv

LEMMA ExpireLinks ==
  ASSUME LeaseInv, LinksInv, NEW q \in Operations, LinkExpires(q)
  PROVE  LinksInv'
<1>0. link \in [Operations -> Links] BY DEF LeaseInv, TypeOK
<1>1. UNCHANGED <<mail, account, smtp>> BY DEF LinkExpires
<1>2. ASSUME NEW o \in Operations
      PROVE  /\ link'[o].current = link[o].current
             /\ link'[o].consumed = link[o].consumed
             /\ link'[o].staged = link[o].staged
             /\ link'[o].stamp = link[o].stamp
             /\ link'[o].delivered = link[o].delivered
             /\ link[o].expired => link'[o].expired
  BY <1>0 DEF LinkExpires, Links
<1>3. ASSUME NEW o \in Operations PROVE LinkInv(o)'
  <2>1. LinkInv(o) BY DEF LinksInv
  <2> QED BY <2>1, <1>1, <1>2 DEF LinkInv
<1>4. DeliveryActivatesLink' BY <1>1, <1>2 DEF LinksInv, DeliveryActivatesLink
<1>5. OneCurrentLink' BY <1>1, <1>2 DEF LinksInv, OneCurrentLink
<1>6. LinksActOncePerStamp' BY <1>1, <1>2 DEF LinksInv, LinksActOncePerStamp
<1> QED BY <1>3, <1>4, <1>5, <1>6 DEF LinksInv

\* A use gives the account a new stamp: every link used before is older than
\* the stamp that the next one needs.
LEMMA FollowLinks ==
  ASSUME LeaseInv, LinksInv, NEW q \in Operations, FollowLink(q)
  PROVE  LinksInv'
<1> DEFINE a == mail[q].account
<1>0. /\ link \in [Operations -> Links] /\ RowInv(q) /\ LinkInv(q)
      /\ account \in [Accounts -> [confirmed : BOOLEAN, stamp : 0..MaxStamps]]
  BY DEF LeaseInv, LinksInv, TypeOK
<1>1. UNCHANGED <<mail, smtp>> BY DEF FollowLink
<1>2. link[q].current /\ link[q].stamp = account[a].stamp
  BY DEF FollowLink, Usable
<1>3. mail[q].status = "delivered" /\ a \in Accounts
  BY <1>0, <1>2 DEF LinkInv, RowInv
<1>4. /\ \A b \in Accounts : b # a => account'[b] = account[b]
      /\ account'[a].stamp = account[a].stamp + 1
      /\ \A b \in Accounts : account[b].stamp \in Nat
  BY <1>0, <1>3, MailBoundsAssumption DEF FollowLink
<1>5. /\ \A o \in Operations : o # q => link'[o] = link[o]
      /\ link'[q].stamp = link[q].stamp /\ link'[q].staged = link[q].staged
      /\ link'[q].delivered = link[q].delivered
      /\ link'[q].expired = link[q].expired
      /\ link'[q].consumed /\ ~ link'[q].current
  BY <1>0 DEF FollowLink, Links
<1>6. \A o \in Operations : link[o].stamp \in Nat
  BY <1>0, MailBoundsAssumption DEF Links
<1>7. ASSUME NEW o \in Operations PROVE LinkInv(o)'
  <2>1. LinkInv(o) /\ RowInv(o) BY DEF LinksInv, LeaseInv
  <2>2. CASE o = q BY <2>1, <2>2, <1>1, <1>2, <1>3, <1>4, <1>5 DEF LinkInv
  <2>3. CASE o # q
    <3>1. link'[o] = link[o] BY <2>3, <1>5
    <3>2. link[o].consumed => mail[o].account \in Accounts
      BY <2>1 DEF LinkInv, RowInv
    <3>3. CASE mail[o].account = a
      BY <2>1, <3>1, <3>2, <3>3, <1>1, <1>3, <1>4, <1>6 DEF LinkInv
    <3>4. CASE mail[o].account # a
      BY <2>1, <3>1, <3>2, <3>4, <1>1, <1>4 DEF LinkInv
    <3> QED BY <3>3, <3>4
  <2> QED BY <2>2, <2>3
<1>8. DeliveryActivatesLink' BY <1>1, <1>5 DEF LinksInv, DeliveryActivatesLink
<1>9. OneCurrentLink' BY <1>1, <1>5 DEF LinksInv, OneCurrentLink
<1>10. ASSUME NEW o \in Operations, o # q, link[o].consumed,
              mail[o].account = a
       PROVE  link[o].stamp # link[q].stamp
  BY <1>2, <1>3, <1>4, <1>6, <1>10 DEF LinksInv, LinkInv
<1>11. ASSUME NEW o \in Operations, NEW r \in Operations, o # r,
              link'[o].consumed, link'[r].consumed,
              mail'[o].account = mail'[r].account
       PROVE  link'[o].stamp # link'[r].stamp
  <2>1. CASE o = q BY <2>1, <1>1, <1>5, <1>10, <1>11
  <2>2. CASE r = q BY <2>2, <1>1, <1>5, <1>10, <1>11
  <2>3. CASE o # q /\ r # q
    BY <2>3, <1>1, <1>5, <1>11 DEF LinksInv, LinksActOncePerStamp
  <2> QED BY <2>1, <2>2, <2>3
<1> QED BY <1>7, <1>8, <1>9, <1>11 DEF LinksInv, LinksActOncePerStamp

LEMMA RotateLinks ==
  ASSUME LeaseInv, LinksInv, NEW a \in Accounts, RotateStamp(a)
  PROVE  LinksInv'
<1>0. /\ account \in [Accounts -> [confirmed : BOOLEAN, stamp : 0..MaxStamps]]
      /\ link \in [Operations -> Links]
  BY DEF LeaseInv, TypeOK
<1>1. UNCHANGED <<mail, smtp, link>> BY DEF RotateStamp
<1>2. \A b \in Accounts : /\ account[b].stamp \in Nat
                          /\ account'[b].stamp = account[b].stamp
                             \/ account'[b].stamp = account[b].stamp + 1
  BY <1>0, MailBoundsAssumption DEF RotateStamp
<1>3. ASSUME NEW o \in Operations PROVE LinkInv(o)'
  <2>1. LinkInv(o) /\ RowInv(o) BY DEF LinksInv, LeaseInv
  <2>2. link[o].stamp \in Nat BY <1>0, MailBoundsAssumption DEF Links
  <2> QED BY <2>1, <2>2, <1>1, <1>2 DEF LinkInv, RowInv
<1>4. DeliveryActivatesLink' /\ OneCurrentLink' /\ LinksActOncePerStamp'
  BY <1>1 DEF LinksInv, DeliveryActivatesLink, OneCurrentLink, LinksActOncePerStamp
<1> QED BY <1>3, <1>4 DEF LinksInv

LEMMA NextLinks == LeaseInv /\ LinksInv /\ [Next]_vars => LinksInv'
<1> SUFFICES ASSUME LeaseInv, LinksInv, [Next]_vars PROVE LinksInv' OBVIOUS
<1>1. \/ Quiet
      \/ \E o \in Operations, a \in Accounts, p \in Requested :
           enqueue_in_transaction(o, a, p)
      \/ \E w \in Workers, o \in Operations : finish_job(w, o)
      \/ \E o \in Operations : purge_terminal(o) \/ LinkExpires(o) \/ FollowLink(o)
      \/ \E a \in Accounts : RotateStamp(a)
  BY ClaimLease, DeliverLease, SendLease, LoseLease, SlotLapsesLease, RowLease,
     StutterLease DEF Next
<1> QED
  BY <1>1, QuietLinks, EnqueueLinks, FinishLinks, PurgeLinks, ExpireLinks,
     FollowLinks, RotateLinks

LEMMA LinksHold == Spec => [](LeaseInv /\ LinksInv)
BY InitLease, InitLinks, NextLease, NextLinks, PTL DEF Spec

\* The mark of a delivery and the switch of its link commit together
\* (finish_job).
THEOREM DeliveriesActivateLinks == Spec => []DeliveryActivatesLink
<1>1. LinksInv => DeliveryActivatesLink BY DEF LinksInv
<1> QED BY <1>1, LinksHold, PTL

\* At most one link of an account and purpose is current, in whatever order
\* the mails are acknowledged (acknowledge_fenced_success).
THEOREM CurrentLinkIsUnique == Spec => []OneCurrentLink
<1>1. LinksInv => OneCurrentLink BY DEF LinksInv
<1> QED BY <1>1, LinksHold, PTL

\* A current link was accepted by the SMTP server and recorded as delivered
\* (deliver_one, finish_job).
THEOREM CurrentLinksWereSent == Spec => []CurrentLinkWasSent
<1>1. LinksInv => CurrentLinkWasSent BY DEF LinksInv, LinkInv, CurrentLinkWasSent
<1> QED BY <1>1, LinksHold, PTL

\* Links of one security stamp change their account at most once
\* (confirm_token, confirm_digest_email_change).
THEOREM OneUsePerStamp == Spec => []LinksActOncePerStamp
<1>1. LinksInv => LinksActOncePerStamp BY DEF LinksInv
<1> QED BY <1>1, LinksHold, PTL

(***************************************************************************)
(* What a step may not do to a current link and to a leased slot.          *)
(***************************************************************************)
\* A current link ends by its use, its retention, or an accepted mail of the
\* same account and purpose (stage, acknowledge_fenced_success).
THEOREM CurrentLinkSurvives == Spec => LastLinkSurvives
<1> DEFINE Ends(o) == \/ link'[o].consumed \/ link[o].expired
                      \/ \E r \in Siblings(o) : smtp[r].accepted /\ link'[r].current
           Survives == \A o \in Operations :
                         link[o].current /\ ~ link'[o].current => Ends(o)
<1>1. ASSUME LeaseInv, LinksInv, [Next]_vars,
             NEW o \in Operations, link[o].current, ~ link'[o].current
      PROVE  Ends(o)
  <2>0. /\ link \in [Operations -> Links] /\ LinkInv(o)
    BY <1>1 DEF LeaseInv, LinksInv, TypeOK
  <2>1. mail[o].status = "delivered" /\ link[o].staged BY <2>0, <1>1 DEF LinkInv
  <2>2. ASSUME NEW q \in Operations, NEW a \in Accounts, NEW p \in Requested,
               enqueue_in_transaction(q, a, p)
        PROVE  FALSE
    <3>1. o # q BY <2>1, <2>2 DEF enqueue_in_transaction
    <3>2. link'[o] = link[o]
      <4>1. CASE p \in LinkPurposes
        BY <4>1, <3>1, <2>0, <2>2 DEF enqueue_in_transaction, stage
      <4>2. CASE p \notin LinkPurposes BY <4>2, <2>2 DEF enqueue_in_transaction
      <4> QED BY <4>1, <4>2
    <3> QED BY <3>2, <1>1
  <2>3. ASSUME NEW w \in Workers, NEW q \in Operations, finish_job(w, q)
        PROVE  Ends(o)
    <3> DEFINE out == worker[w].stage[q]
    <3>1. /\ link' = acknowledge_fenced_success(q) /\ Acknowledges(q, out)
          /\ mail[q].status = "pending"
      BY <2>3, <1>1, FinishRow
    <3>2. out = "sent" /\ WorkInv(w, q) BY <3>1, <1>1 DEF Acknowledges, LeaseInv
    <3>3. smtp[q].accepted BY <3>2 DEF WorkInv
    <3>4. o # q BY <2>1, <3>1
    <3>5. o \in Siblings(q)
      BY <3>1, <3>4, <1>1 DEF acknowledge_fenced_success
    <3>6. q \in Siblings(o)
      BY <3>1, <3>4, <3>5 DEF Siblings, Of, Stored
    <3>7. link'[q].current
      <4>1. link'[q] = [link[q] EXCEPT !.current = TRUE, !.delivered = TRUE]
        BY <3>1 DEF acknowledge_fenced_success
      <4>2. link[q] \in Links BY <2>0
      <4> QED BY <4>1, <4>2 DEF Links
    <3> QED BY <3>3, <3>6, <3>7
  <2>4. ASSUME NEW q \in Operations, purge_terminal(q) PROVE Ends(o)
    <3>1. CASE o = q BY <3>1, <2>1, <2>4 DEF purge_terminal
    <3>2. CASE o # q BY <3>2, <2>0, <2>4, <1>1 DEF purge_terminal
    <3> QED BY <3>1, <3>2
  <2>5. ASSUME NEW q \in Operations, LinkExpires(q) PROVE FALSE
    BY <2>0, <2>5, <1>1 DEF LinkExpires, Links
  <2>6. ASSUME NEW q \in Operations, FollowLink(q) PROVE Ends(o)
    <3>1. CASE o = q BY <3>1, <2>0, <2>6 DEF FollowLink, Links
    <3>2. CASE o # q BY <3>2, <2>0, <2>6, <1>1 DEF FollowLink
    <3> QED BY <3>1, <3>2
  <2>7. link' # link BY <1>1
  <2> QED
    BY <2>2, <2>3, <2>4, <2>5, <2>6, <2>7, <1>1
    DEF Next, vars, claim_pending, deliver_one, send_required, RecordingFails,
        Crash, SlotLapses, LeaseLapses, BackoffEnds, expire_stale, RotateStamp
<1>2. LeaseInv /\ LinksInv /\ [Next]_vars => [Survives]_vars BY <1>1
<1>3. Spec => [][Survives]_vars BY <1>2, LinksHold, PTL DEF Spec
<1> QED BY <1>3, SMTT(30) DEF LastLinkSurvives

LEMMA SlotsHold == Spec => [](LeaseInv /\ SlotInv)
<1>1. Init => SlotInv BY SMTT(30) DEF Init, SlotInv, NoLease
<1>2. LeaseInv /\ SlotInv /\ [Next]_vars => SlotInv'
  <2> SUFFICES ASSUME LeaseInv, SlotInv, [Next]_vars,
                      NEW s \in Slots, slot'[s].live
               PROVE  slot'[s].token # NoToken
    BY DEF SlotInv
  <2>0. slot \in [Slots -> Leases] /\ slot[s] \in Leases BY DEF LeaseInv, TypeOK
  <2>1. ASSUME NEW w \in Workers, NEW t \in Tokens, NEW J \in SUBSET Operations,
               NEW place, claim_pending(w, t, J, place)
        PROVE  slot'[s].token # NoToken
    <3>1. slot'[s] = [token |-> t, live |-> TRUE] \/ slot'[s] = slot[s]
      BY <2>1 DEF claim_pending
    <3> QED BY <3>1, MailNullsAssumption DEF SlotInv
  <2>2. ASSUME NEW w \in Workers, NEW o \in Operations, finish_job(w, o)
        PROVE  slot'[s].token # NoToken
    <3>1. slot' = slot \/ slot' = [slot EXCEPT ![mail[o].slot] = NoLease]
      BY <2>2 DEF finish_job
    <3>2. slot'[s] = slot[s] \/ slot'[s] = NoLease BY <3>1, <2>0
    <3> QED BY <3>2 DEF SlotInv, NoLease
  <2>3. ASSUME NEW r \in Slots, SlotLapses(r) PROVE slot'[s].token # NoToken
    <3>1. CASE s = r BY <3>1, <2>0, <2>3 DEF SlotLapses, Leases
    <3>2. CASE s # r BY <3>2, <2>0, <2>3 DEF SlotLapses, SlotInv
    <3> QED BY <3>1, <3>2
  <2>4. CASE slot' = slot BY <2>4 DEF SlotInv
  <2> QED
    BY <2>1, <2>2, <2>3, <2>4
    DEF Next, vars, enqueue_in_transaction, deliver_one, send_required,
        RecordingFails, Crash, LeaseLapses, BackoffEnds, LinkExpires,
        expire_stale, purge_terminal, FollowLink, RotateStamp
<1> QED BY <1>1, <1>2, InitLease, NextLease, PTL DEF Spec

\* A slot with a live lease is freed by its owner's finish_job alone, however
\* late other workers record their outcomes.
THEOREM SlotsFreedByOwner == Spec => SlotsAreFreedByTheirOwner
<1> DEFINE Freed(s) ==
             \E w \in Workers, o \in Operations :
               /\ worker[w].token = slot[s].token /\ mail[o].slot = s
               /\ worker[w].stage[o] # "idle" /\ worker'[w].stage[o] = "idle"
           ByOwner == \A s \in Slots :
                        slot[s].live /\ slot'[s].token = NoToken => Freed(s)
<1>1. ASSUME LeaseInv, SlotInv, [Next]_vars,
             NEW s \in Slots, slot[s].live, slot'[s].token = NoToken
      PROVE  Freed(s)
  <2>0. /\ slot \in [Slots -> Leases] /\ slot[s] \in Leases
        /\ worker \in [Workers -> Batches]
    BY <1>1 DEF LeaseInv, TypeOK
  <2>1. slot[s].token # NoToken BY <1>1 DEF SlotInv
  <2>2. ASSUME NEW w \in Workers, NEW t \in Tokens, NEW J \in SUBSET Operations,
               NEW place, claim_pending(w, t, J, place)
        PROVE  FALSE
    <3>1. slot'[s] = [token |-> t, live |-> TRUE] \/ slot'[s] = slot[s]
      BY <2>2 DEF claim_pending
    <3> QED BY <3>1, <2>1, <1>1, MailNullsAssumption
  <2>3. ASSUME NEW w \in Workers, NEW o \in Operations, finish_job(w, o)
        PROVE  Freed(s)
    <3>1. /\ slot' = [slot EXCEPT ![mail[o].slot] = NoLease]
          /\ slot[mail[o].slot].token = worker[w].token
      BY <2>1, <2>3, <1>1 DEF finish_job
    <3>2. mail[o].slot = s BY <3>1, <2>0, <2>1, <1>1
    <3>3. worker[w].stage[o] # "idle" BY <2>3 DEF finish_job
    <3>4. worker'[w].stage[o] = "idle"
      <4>1. worker'[w] = Without(worker[w], o) BY <2>0, <2>3 DEF finish_job
      <4> QED BY <4>1, <2>0, BatchTypes
    <3> QED BY <3>1, <3>2, <3>3, <3>4
  <2>4. ASSUME NEW r \in Slots, SlotLapses(r) PROVE FALSE
    <3>1. slot'[s].token = slot[s].token BY <2>0, <2>4 DEF SlotLapses, Leases
    <3> QED BY <3>1, <2>1, <1>1
  <2>5. slot' # slot BY <2>1, <1>1
  <2> QED
    BY <2>2, <2>3, <2>4, <2>5, <1>1
    DEF Next, vars, enqueue_in_transaction, deliver_one, send_required,
        RecordingFails, Crash, LeaseLapses, BackoffEnds, LinkExpires,
        expire_stale, purge_terminal, FollowLink, RotateStamp
<1>2. LeaseInv /\ SlotInv /\ [Next]_vars => [ByOwner]_vars BY <1>1
<1>3. Spec => [][ByOwner]_vars BY <1>2, SlotsHold, PTL DEF Spec
<1> QED BY <1>3, SMTT(30) DEF SlotsAreFreedByTheirOwner
=============================================================================
