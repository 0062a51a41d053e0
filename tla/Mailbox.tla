--------------------------------- MODULE Mailbox ---------------------------------
(***************************************************************************)
(* How one recruiter's mail to a candidate looks and where it comes from:  *)
(* MailAccountsService with its lazily created row, the Gmail connection,  *)
(* and the email composer, which mails first and writes its log after.     *)
(*                                                                         *)
(* TypeORM's save of a row that was read before is two steps: it reads the *)
(* row again, without the token column, which is not selected, and then    *)
(* writes the columns in which the copy in memory differs.                 *)
(***************************************************************************)
EXTENDS Naturals, FiniteSets

CONSTANTS
    Handlers,    \* requests in progress at once
    Accounts,    \* Gmail accounts the recruiter may connect
    Signatures,
    MaxMails,    \* bound: requests that mail
    None,        \* a column that is null
    Unset        \* a column that was not selected

ASSUME ValuesAssumption == None # Unset /\ {None, Unset} \cap (Accounts \cup Signatures) = {}
ASSUME MaxMailsAssumption == MaxMails \in Nat
ASSUME HandlersAssumption == IsFiniteSet(Handlers)

VARIABLES
    row,       \* the user_mail_settings rows of the recruiter: at most one
    listed,    \* whether the candidates row is there
    mails,     \* number of requests that were to mail
    sent,      \* number of the composer's mails that Gmail or the SMTP server has accepted
    logged,    \* number of candidate_emails rows
    lost,      \* composer requests that ended between the acceptance and the row
    call       \* where each handler stands, and what it has read

vars == <<row, listed, mails, sent, logged, lost, call>>
mailVars == <<listed, mails, sent, logged, lost>>

--------------------------------------------------------------------------------

encryptSecret(account) == [enc |-> account]
decryptSecret(token) == token.enc
Secrets == {encryptSecret(a) : a \in Accounts}

ASSUME SecretsAssumption == {None, Unset} \cap Secrets = {}

Row == [signature : Signatures \cup {None}, email : Accounts \cup {None},
        token : Secrets \cup {None}]
(* A row in memory: one that was found has no token. *)
Copy == [signature : Signatures \cup {None}, email : Accounts \cup {None},
         token : Secrets \cup {None, Unset}]
EmptyRow == [signature |-> None, email |-> None, token |-> None]

Pc == {"idle", "find", "create", "reload", "write", "select", "gmail", "smtp", "log"}
Call == [pc : Pc, set : [signature : Signatures \cup {None}, account : Accounts \cup {None}],
         read : Copy, copy : Copy, again : Copy, logs : BOOLEAN]
Nothing == [signature |-> None, account |-> None]
NoCall == [pc |-> "idle", set |-> Nothing, read |-> EmptyRow, copy |-> EmptyRow,
           again |-> EmptyRow, logs |-> FALSE]

TypeOK ==
    /\ row \in SUBSET Row /\ \A r, s \in row : r = s
    /\ listed \in BOOLEAN
    /\ mails \in 0..MaxMails
    /\ sent \in Nat /\ logged \in Nat /\ lost \in Nat
    /\ call \in [Handlers -> Call]

Init ==
    /\ row = {}
    /\ listed = TRUE
    /\ mails = 0 /\ sent = 0 /\ logged = 0 /\ lost = 0
    /\ call = [h \in Handlers |-> NoCall]

Selected(r) == [r EXCEPT !.token = Unset]

Go(h, next) == call' = [call EXCEPT ![h] = next]
(* The response or the exception, whatever was written before. *)
Return(h) == Go(h, NoCall)

Start(h, request) ==
    /\ call[h].pc = "idle"
    /\ Go(h, request)

Crash(h) ==
    /\ call[h].pc # "idle"
    /\ lost' = IF call[h].pc = "log" THEN lost + 1 ELSE lost
    /\ Return(h)
    /\ UNCHANGED <<row, listed, mails, sent, logged>>

--------------------------------------------------------------------------------
(* The settings row.                                                         *)

(* getStatus only creates the row, updateSignature then sets the signature. *)
getStatus(h) ==
    Start(h, [NoCall EXCEPT !.pc = "find"]) /\ UNCHANGED <<row, mailVars>>
updateSignature(h, s) ==
    Start(h, [NoCall EXCEPT !.pc = "find", !.set.signature = s]) /\ UNCHANGED <<row, mailVars>>

(* handleGmailCallback, once the state is verified and exchangeCode has        *)
(* returned; a link that has expired, or a refused code, has no effect.        *)
handleGmailCallback(h, a) ==
    Start(h, [NoCall EXCEPT !.pc = "find", !.set.account = a]) /\ UNCHANGED <<row, mailVars>>

(* What the request sets on its copy, before it saves it. *)
Assigned(set, r) ==
    [signature |-> IF set.signature = None THEN r.signature ELSE set.signature,
     email |-> IF set.account = None THEN r.email ELSE set.account,
     token |-> IF set.account = None THEN r.token ELSE encryptSecret(set.account)]

Save(h, r) ==
    IF call[h].set = Nothing THEN Return(h)
    ELSE Go(h, [call[h] EXCEPT !.pc = "reload", !.read = r, !.copy = Assigned(call[h].set, r)])

(* getOrCreate *)
FindRow(h) ==
    /\ call[h].pc = "find"
    /\ \/ row = {} /\ Go(h, [call[h] EXCEPT !.pc = "create"])
       \/ \E r \in row : Save(h, Selected(r))
    /\ UNCHANGED <<row, mailVars>>

(* A second row breaks the unique index.  Every column of the copy is null,    *)
(* the token's too.                                                            *)
CreateRow(h) ==
    /\ call[h].pc = "create"
    /\ IF row = {} THEN row' = {EmptyRow} /\ Save(h, EmptyRow)
       ELSE Return(h) /\ UNCHANGED row
    /\ UNCHANGED mailVars

Reload(h) ==
    /\ call[h].pc = "reload"
    /\ \E r \in row : Go(h, [call[h] EXCEPT !.pc = "write", !.again = Selected(r)])
    /\ UNCHANGED <<row, mailVars>>

(* A column that is unset in memory is not written. *)
Written(c, r) ==
    [signature |-> IF c.copy.signature # c.again.signature THEN c.copy.signature ELSE r.signature,
     email |-> IF c.copy.email # c.again.email THEN c.copy.email ELSE r.email,
     token |-> IF c.copy.token # Unset THEN c.copy.token ELSE r.token]

Write(h) ==
    /\ call[h].pc = "write"
    /\ row' = {Written(call[h], r) : r \in row}
    /\ Return(h)
    /\ UNCHANGED mailVars

disconnectGmail_KeepsToken ==
    /\ row' = {[r EXCEPT !.email = None] : r \in row}
    /\ UNCHANGED <<mailVars, call>>

(* One UPDATE of the three columns; without a row it has no effect. *)
disconnectGmail ==
    /\ row' = {[r EXCEPT !.email = None, !.token = None] : r \in row}
    /\ UNCHANGED <<mailVars, call>>

--------------------------------------------------------------------------------
(* Mail to the candidate.                                                    *)

(* CandidatesService.remove *)
RemoveCandidate == listed /\ listed' = FALSE /\ UNCHANGED <<row, mails, sent, logged, lost, call>>

(* EmailComposerService.send after loadCandidate, or an invitation, which has  *)
(* no row in candidate_emails.                                                 *)
BeginMail(h, logs) ==
    /\ mails < MaxMails
    /\ listed
    /\ mails' = mails + 1
    /\ Start(h, [NoCall EXCEPT !.pc = "select", !.logs = logs])
    /\ UNCHANGED <<row, listed, sent, logged, lost>>

(* sendCandidateEmail: the only query that selects the token *)
SelectAccount(h) ==
    /\ call[h].pc = "select"
    /\ \/ row = {} /\ Go(h, [call[h] EXCEPT !.pc = "smtp"])
       \/ \E r \in row : Go(h, [call[h] EXCEPT
                !.pc = IF r.email # None /\ r.token # None THEN "gmail" ELSE "smtp", !.read = r])
    /\ UNCHANGED <<row, mailVars>>

Mailed(h) ==
    /\ UNCHANGED lost
    /\ IF call[h].logs THEN sent' = sent + 1 /\ Go(h, [call[h] EXCEPT !.pc = "log"])
       ELSE UNCHANGED sent /\ Return(h)

(* Accepted, but the request learns of an error, or its process dies first. *)
MailedUnheard(h) ==
    /\ call[h].logs
    /\ sent' = sent + 1
    /\ lost' = lost + 1
    /\ Return(h)

SendMail_SwallowsErrors(h) ==
    /\ call[h].pc \in {"gmail", "smtp"}
    /\ \/ Mailed(h) \/ MailedUnheard(h)
       \/ /\ UNCHANGED <<sent, lost>>
          /\ Go(h, [call[h] EXCEPT !.pc = IF call[h].logs THEN "log" ELSE "idle"])
    /\ UNCHANGED <<row, listed, mails, logged>>

(* Gmail or the SMTP server takes the mail, or the send throws, before or after *)
(* the mail was accepted.                                                       *)
SendMail(h) ==
    /\ call[h].pc \in {"gmail", "smtp"}
    /\ \/ Mailed(h) \/ MailedUnheard(h)
       \/ Return(h) /\ UNCHANGED <<sent, lost>>
    /\ UNCHANGED <<row, listed, mails, logged>>

(* The composer's candidate_emails row; the mail is not taken back if it fails. *)
LogMail(h) ==
    /\ call[h].pc = "log"
    /\ \/ logged' = logged + 1 /\ UNCHANGED lost
       \/ lost' = lost + 1 /\ UNCHANGED logged
    /\ Return(h)
    /\ UNCHANGED <<row, listed, mails, sent>>

--------------------------------------------------------------------------------

MailAccountsRequest(h) ==
    \/ getStatus(h)
    \/ \E s \in Signatures : updateSignature(h, s)
    \/ \E a \in Accounts : handleGmailCallback(h, a)
    \/ FindRow(h) \/ CreateRow(h) \/ Reload(h) \/ Write(h)

MailRequest(h) ==
    \/ \E logs \in BOOLEAN : BeginMail(h, logs)
    \/ SelectAccount(h) \/ SendMail(h) \/ LogMail(h)

Next ==
    \/ \E h \in Handlers : MailAccountsRequest(h) \/ MailRequest(h) \/ Crash(h)
    \/ disconnectGmail
    \/ RemoveCandidate

Spec == Init /\ [][Next]_vars

--------------------------------------------------------------------------------

(* The address mail is sent from and the token it is sent with are of one      *)
(* account (mail-accounts.service.ts:61, 157): getStatus shows the address     *)
(* alone.  They come apart only by a save that was overtaken: the address has  *)
(* changed since the request read it, or since the save read it again.         *)
OneAccount(r) == IF r.email = None THEN r.token = None
                 ELSE r.token # None /\ decryptSecret(r.token) = r.email
AddressHasToken ==
    [][(\A r \in row : OneAccount(r)) =>
          \/ \A r \in row' : OneAccount(r)
          \/ \E h \in Handlers, r \in row :
                /\ call[h].pc = "write" /\ call'[h].pc = "idle"
                /\ r.email # call[h].read.email \/ r.email # call[h].again.email]_vars

(* "One row per email actually sent to a candidate through the composer"       *)
(* (candidate-email.entity.ts:14): an accepted mail is missing from the log     *)
(* only while its row is being saved, or when the request ended before that,   *)
(* and no row is for a mail that was not accepted.                             *)
LogIsOfSentMail == sent = logged + lost + Cardinality({h \in Handlers : call[h].pc = "log"})

================================================================================
