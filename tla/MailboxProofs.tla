------------------------------ MODULE MailboxProofs ------------------------------
(***************************************************************************)
(* What holds of Mailbox for any number of handlers, accounts, signatures  *)
(* and mails, with requests that die between any two awaits.               *)
(***************************************************************************)
EXTENDS Mailbox, FiniteSetTheorems, TLAPS

--------------------------------------------------------------------------------
(* The inductive invariant.                                                  *)

Logging == {h \in Handlers : call[h].pc = "log"}

(* Until it is written, a copy is what was read with the request's columns set, *)
(* and has no token but one the request set, or the null of a row it created.   *)
CopyOK(c) ==
    c.pc \in {"reload", "write"} =>
        /\ c.copy = Assigned(c.set, c.read)
        /\ c.read.token = Unset \/ c.read = EmptyRow
CopiesOK == \A h \in Handlers : CopyOK(call[h])

IInv == TypeOK /\ CopiesOK /\ LogIsOfSentMail

(* The mail counters are numbers of a row's fate. *)
RowTypeOK == row \in SUBSET Row /\ \A r, s \in row : r = s

--------------------------------------------------------------------------------

(* A set of handlers is counted. *)
LEMMA LoggingCounted == IsFiniteSet(Logging) /\ Cardinality(Logging) \in Nat
  <1>1. IsFiniteSet(Logging)
    BY HandlersAssumption, FS_Subset DEF Logging
  <1> QED BY <1>1, FS_CardinalityType

(* What a handler's step to another call does to the handlers. *)
LEMMA Moved ==
    ASSUME TypeOK, CopiesOK, NEW h \in Handlers, NEW c \in Call, CopyOK(c), Go(h, c)
    PROVE  /\ call' \in [Handlers -> Call]
           /\ CopiesOK'
           /\ Logging' = IF c.pc = "log" THEN Logging \cup {h} ELSE Logging \ {h}
  <1> USE DEF Go
  <1>1. call' \in [Handlers -> Call]
    BY DEF TypeOK
  <1>2. \A g \in Handlers : call'[g] = IF g = h THEN c ELSE call[g]
    BY DEF TypeOK
  <1>3. CopiesOK'
    <2> SUFFICES ASSUME NEW g \in Handlers PROVE CopyOK(call'[g])
      BY DEF CopiesOK, CopyOK
    <2> QED BY <1>2 DEF CopiesOK
  <1>4. Logging' = IF c.pc = "log" THEN Logging \cup {h} ELSE Logging \ {h}
    BY <1>2 DEF Logging
  <1> QED BY <1>1, <1>3, <1>4

(* A step that neither mails nor ends a mail. *)
LEMMA Quiet ==
    ASSUME IInv, NEW h \in Handlers, NEW c \in Call, CopyOK(c), Go(h, c),
           call[h].pc # "log", c.pc # "log", UNCHANGED <<sent, logged, lost>>,
           RowTypeOK', listed' \in BOOLEAN, mails' \in 0..MaxMails
    PROVE  IInv'
  <1>1. TypeOK /\ CopiesOK /\ LogIsOfSentMail
    BY DEF IInv
  <1>2. /\ call' \in [Handlers -> Call]
        /\ CopiesOK'
        /\ Logging' = Logging \ {h}
    BY <1>1, Moved
  <1>3. Logging' = Logging
    BY <1>2 DEF Logging
  <1>4. TypeOK'
    BY <1>1, <1>2 DEF TypeOK, RowTypeOK
  <1>5. LogIsOfSentMail'
    BY <1>1, <1>3 DEF LogIsOfSentMail, Logging
  <1> QED BY <1>2, <1>4, <1>5 DEF IInv

(* A mail is sent and its row not saved yet. *)
LEMMA Sent ==
    ASSUME IInv, NEW h \in Handlers, NEW c \in Call, Go(h, c),
           call[h].pc # "log", c.pc = "log", sent' = sent + 1,
           UNCHANGED <<row, listed, mails, logged, lost>>
    PROVE  IInv'
  <1>1. TypeOK /\ CopiesOK /\ LogIsOfSentMail
    BY DEF IInv
  <1>2. /\ call' \in [Handlers -> Call]
        /\ CopiesOK'
        /\ Logging' = Logging \cup {h}
    BY <1>1, Moved DEF CopyOK
  <1>3. Cardinality(Logging') = Cardinality(Logging) + 1
    <2>1. h \notin Logging
      BY DEF Logging
    <2> QED BY <1>2, <2>1, LoggingCounted, FS_AddElement
  <1>4. TypeOK'
    BY <1>1, <1>2 DEF TypeOK
  <1>5. LogIsOfSentMail'
    BY <1>1, <1>3, LoggingCounted DEF LogIsOfSentMail, Logging, TypeOK
  <1> QED BY <1>2, <1>4, <1>5 DEF IInv

(* A mail is accepted, and its request ends without hearing of it. *)
LEMMA Vanished ==
    ASSUME IInv, NEW h \in Handlers, Return(h), call[h].pc # "log", NoCall \in Call,
           sent' = sent + 1, lost' = lost + 1, UNCHANGED <<row, listed, mails, logged>>
    PROVE  IInv'
  <1>1. TypeOK /\ CopiesOK /\ LogIsOfSentMail
    BY DEF IInv
  <1>2. /\ call' \in [Handlers -> Call]
        /\ CopiesOK'
        /\ Logging' = Logging \ {h}
    BY <1>1, Moved DEF CopyOK, Return, NoCall
  <1>3. Cardinality(Logging') = Cardinality(Logging)
    <2>1. h \notin Logging
      BY DEF Logging
    <2>2. Logging' = Logging
      BY <1>2, <2>1
    <2> QED BY <2>2
  <1>4. TypeOK'
    BY <1>1, <1>2 DEF TypeOK
  <1>5. LogIsOfSentMail'
    BY <1>1, <1>3, LoggingCounted DEF LogIsOfSentMail, Logging, TypeOK
  <1> QED BY <1>2, <1>4, <1>5 DEF IInv

(* The row of a mail is saved, or the request ends without it. *)
LEMMA Settled ==
    ASSUME IInv, NEW h \in Handlers, Return(h), call[h].pc = "log",
           \/ logged' = logged + 1 /\ UNCHANGED lost
           \/ lost' = lost + 1 /\ UNCHANGED logged,
           UNCHANGED <<row, listed, mails, sent>>, NoCall \in Call
    PROVE  IInv'
  <1>1. TypeOK /\ CopiesOK /\ LogIsOfSentMail
    BY DEF IInv
  <1>2. /\ call' \in [Handlers -> Call]
        /\ CopiesOK'
        /\ Logging' = Logging \ {h}
    BY <1>1, Moved DEF CopyOK, Return, NoCall
  <1>3. Cardinality(Logging') = Cardinality(Logging) - 1
    <2>1. h \in Logging
      BY DEF Logging
    <2> QED BY <1>2, <2>1, LoggingCounted, FS_RemoveElement
  <1>4. TypeOK'
    BY <1>1, <1>2 DEF TypeOK
  <1>5. LogIsOfSentMail'
    BY <1>1, <1>3, LoggingCounted DEF LogIsOfSentMail, Logging, TypeOK
  <1> QED BY <1>2, <1>4, <1>5 DEF IInv

--------------------------------------------------------------------------------
(* The records stay within their types.                                      *)

LEMMA EmptyRowType == EmptyRow \in Row /\ EmptyRow \in Copy
  BY DEF EmptyRow, Row, Copy

LEMMA NoCallType == NoCall \in Call
  <1>1. Nothing \in [signature : Signatures \cup {None}, account : Accounts \cup {None}]
    BY DEF Nothing
  <1> QED BY <1>1, EmptyRowType DEF NoCall, Call, Pc

LEMMA SelectedType ==
    ASSUME NEW r \in Row
    PROVE  Selected(r) \in Copy /\ Selected(r).token = Unset
  BY DEF Selected, Row, Copy

LEMMA AssignedType ==
    ASSUME NEW set \in [signature : Signatures \cup {None}, account : Accounts \cup {None}],
           NEW r \in Copy
    PROVE  Assigned(set, r) \in Copy
  BY DEF Assigned, Copy, Secrets

LEMMA WrittenType ==
    ASSUME NEW c \in Call, NEW r \in Row
    PROVE  Written(c, r) \in Row
  BY SecretsAssumption DEF Written, Call, Copy, Row

LEMMA SaveType ==
    ASSUME NEW c \in Call, NEW r \in Copy, r.token = Unset \/ r = EmptyRow,
           NEW n, n = [c EXCEPT !.pc = "reload", !.read = r, !.copy = Assigned(c.set, r)]
    PROVE  n \in Call /\ CopyOK(n) /\ n.pc # "log"
  <1>1. Assigned(c.set, r) \in Copy
    BY AssignedType DEF Call
  <1>2. n \in Call
    BY <1>1 DEF Call, Pc
  <1>3. n.pc = "reload" /\ n.read = r /\ n.set = c.set /\ n.copy = Assigned(c.set, r)
    BY DEF Call
  <1> QED BY <1>2, <1>3 DEF CopyOK

(* The ways a call that is not mailing goes on. *)
LEMMA NextCall ==
    ASSUME NEW c \in Call, CopyOK(c), c.pc # "log"
    PROVE  /\ \A pc \in Pc \ {"log", "reload", "write"} :
                  LET n == [c EXCEPT !.pc = pc]
                  IN  n \in Call /\ CopyOK(n) /\ n.pc # "log"
           /\ \A r \in Copy : c.pc = "reload" =>
                  LET n == [c EXCEPT !.pc = "write", !.again = r]
                  IN  n \in Call /\ CopyOK(n) /\ n.pc # "log"
           /\ \A r \in Copy, pc \in {"gmail", "smtp"} :
                  LET n == [c EXCEPT !.pc = pc, !.read = r]
                  IN  n \in Call /\ CopyOK(n) /\ n.pc # "log"
  <1>1. \A pc \in Pc \ {"log", "reload", "write"} :
            LET n == [c EXCEPT !.pc = pc]
            IN  n \in Call /\ CopyOK(n) /\ n.pc # "log"
    BY DEF Call, CopyOK
  <1>2. ASSUME NEW r \in Copy, c.pc = "reload",
               NEW n, n = [c EXCEPT !.pc = "write", !.again = r]
        PROVE  n \in Call /\ CopyOK(n) /\ n.pc # "log"
    <2>1. n \in Call
      BY <1>2 DEF Call, Pc
    <2>2. n.pc = "write" /\ n.read = c.read /\ n.set = c.set /\ n.copy = c.copy
      BY <1>2 DEF Call
    <2> QED BY <2>1, <2>2, <1>2 DEF CopyOK
  <1>3. \A r \in Copy, pc \in {"gmail", "smtp"} :
            LET n == [c EXCEPT !.pc = pc, !.read = r]
            IN  n \in Call /\ CopyOK(n) /\ n.pc # "log"
    BY DEF Call, CopyOK, Pc
  <1> QED BY <1>1, <1>2, <1>3

LEMMA RowIsCopy == Row \subseteq Copy
  BY DEF Row, Copy

LEMMA IdleOK == CopyOK(NoCall) /\ NoCall.pc = "idle"
  BY DEF CopyOK, NoCall

--------------------------------------------------------------------------------
(* One lemma for each action.                                                *)

LEMMA Initial == Init => IInv
  <1> SUFFICES ASSUME Init PROVE IInv
    OBVIOUS
  <1>1. TypeOK
    BY NoCallType, MaxMailsAssumption DEF Init, TypeOK
  <1>2. CopiesOK
    BY IdleOK DEF Init, CopiesOK
  <1>3. Logging = {}
    BY IdleOK DEF Init, Logging
  <1>4. LogIsOfSentMail
    BY <1>3, FS_EmptySet DEF LogIsOfSentMail, Logging, Init
  <1> QED BY <1>1, <1>2, <1>4 DEF IInv

(* A request begins. *)
LEMMA Begins ==
    ASSUME IInv, NEW h \in Handlers, NEW c \in Call, Start(h, c), CopyOK(c), c.pc # "log",
           mails' \in 0..MaxMails, UNCHANGED <<row, listed, sent, logged, lost>>
    PROVE  IInv'
  BY Quiet DEF IInv, TypeOK, RowTypeOK, Start

(* A request ends without having sent a mail. *)
LEMMA Ends ==
    ASSUME IInv, NEW h \in Handlers, Return(h), call[h].pc # "log",
           RowTypeOK', UNCHANGED mailVars
    PROVE  IInv'
  <1>1. listed' \in BOOLEAN /\ mails' \in 0..MaxMails
    BY DEF IInv, TypeOK, mailVars
  <1> QED BY <1>1, Quiet, IdleOK, NoCallType DEF Return, mailVars

LEMMA Saving ==
    ASSUME IInv, NEW h \in Handlers, NEW r \in Copy, r.token = Unset \/ r = EmptyRow,
           Save(h, r), call[h].pc # "log", RowTypeOK', UNCHANGED mailVars
    PROVE  IInv'
  <1>1. CASE call[h].set = Nothing
    BY <1>1, Ends DEF Save
  <1>2. CASE call[h].set # Nothing
    <2> DEFINE n == [call[h] EXCEPT !.pc = "reload", !.read = r,
                                    !.copy = Assigned(call[h].set, r)]
    <2>1. call[h] \in Call
      BY DEF IInv, TypeOK
    <2>2. n \in Call /\ CopyOK(n) /\ n.pc # "log"
      BY <2>1, SaveType
    <2>3. Go(h, n)
      BY <1>2 DEF Save
    <2>4. listed' \in BOOLEAN /\ mails' \in 0..MaxMails
      BY DEF IInv, TypeOK, mailVars
    <2> HIDE DEF n
    <2> QED BY <2>2, <2>3, <2>4, Quiet DEF mailVars
  <1> QED BY <1>1, <1>2

(* A step to a next call that leaves the rows as they are. *)
LEMMA Reads ==
    ASSUME IInv, NEW h \in Handlers, NEW c \in Call, Go(h, c), CopyOK(c),
           call[h].pc # "log", c.pc # "log", UNCHANGED <<row, mailVars>>
    PROVE  IInv'
  <1>1. RowTypeOK' /\ listed' \in BOOLEAN /\ mails' \in 0..MaxMails
    BY DEF IInv, TypeOK, RowTypeOK, mailVars
  <1> QED BY <1>1, Quiet DEF mailVars

LEMMA StatusBegins ==
    ASSUME IInv, NEW h \in Handlers, getStatus(h)
    PROVE  IInv'
  <1> DEFINE n == [NoCall EXCEPT !.pc = "find"]
  <1>1. n \in Call /\ CopyOK(n) /\ n.pc # "log"
    BY NoCallType DEF Call, NoCall, CopyOK, Pc
  <1>2. Start(h, n) /\ UNCHANGED <<row, mailVars>>
    BY DEF getStatus
  <1>3. mails' \in 0..MaxMails
    BY <1>2 DEF IInv, TypeOK, mailVars
  <1> HIDE DEF n
  <1> QED BY <1>1, <1>2, <1>3, Begins DEF mailVars

LEMMA RequestBegins ==
    ASSUME IInv, NEW h \in Handlers,
           \/ \E s \in Signatures : updateSignature(h, s)
           \/ \E a \in Accounts : handleGmailCallback(h, a)
    PROVE  IInv'
  <1> DEFINE S == [signature : Signatures \cup {None}, account : Accounts \cup {None}]
             n(set) == [NoCall EXCEPT !.pc = "find", !.set = set]
  <1>1. PICK set \in S : Start(h, n(set)) /\ UNCHANGED <<row, mailVars>>
    <2>1. ASSUME NEW s \in Signatures, updateSignature(h, s)
          PROVE  \E set \in S : Start(h, n(set)) /\ UNCHANGED <<row, mailVars>>
      <3>1. [Nothing EXCEPT !.signature = s] \in S
        BY DEF Nothing
      <3>2. [NoCall EXCEPT !.pc = "find", !.set.signature = s]
              = n([Nothing EXCEPT !.signature = s])
        BY DEF NoCall, Nothing
      <3> QED BY <2>1, <3>1, <3>2 DEF updateSignature
    <2>2. ASSUME NEW a \in Accounts, handleGmailCallback(h, a)
          PROVE  \E set \in S : Start(h, n(set)) /\ UNCHANGED <<row, mailVars>>
      <3>1. [Nothing EXCEPT !.account = a] \in S
        BY DEF Nothing
      <3>2. [NoCall EXCEPT !.pc = "find", !.set.account = a]
              = n([Nothing EXCEPT !.account = a])
        BY DEF NoCall, Nothing
      <3> QED BY <2>2, <3>1, <3>2 DEF handleGmailCallback
    <2> QED BY <2>1, <2>2
  <1>2. n(set) \in Call /\ CopyOK(n(set)) /\ n(set).pc # "log"
    BY NoCallType DEF Call, NoCall, CopyOK, Pc
  <1> HIDE DEF n, S
  <1>3. mails' \in 0..MaxMails
    BY <1>1 DEF IInv, TypeOK, mailVars
  <1> QED BY <1>1, <1>2, <1>3, Begins DEF mailVars

LEMMA RowRead ==
    ASSUME IInv, NEW h \in Handlers, FindRow(h) \/ CreateRow(h) \/ Reload(h)
    PROVE  IInv'
  <1> DEFINE c == call[h]
  <1>1. c \in Call /\ CopyOK(c) /\ row \in SUBSET Row /\ RowTypeOK
    BY DEF IInv, TypeOK, CopiesOK, RowTypeOK
  <1>2. CASE FindRow(h)
    <2>1. CASE row = {} /\ Go(h, [c EXCEPT !.pc = "create"])
      <3> DEFINE n == [c EXCEPT !.pc = "create"]
      <3>1. n \in Call /\ CopyOK(n) /\ n.pc # "log" /\ c.pc # "log"
        BY <1>1, <1>2, NextCall DEF FindRow, Pc
      <3>2. Go(h, n)
        BY <2>1
      <3> HIDE DEF n
      <3> QED BY <1>2, <3>1, <3>2, Reads DEF FindRow
    <2>2. ASSUME NEW r \in row, Save(h, Selected(r))
          PROVE  IInv'
      <3>1. Selected(r) \in Copy /\ Selected(r).token = Unset
        BY <1>1, SelectedType
      <3>2. c.pc # "log" /\ UNCHANGED <<row, mailVars>>
        BY <1>2 DEF FindRow
      <3> QED BY <1>1, <2>2, <3>1, <3>2, Saving DEF RowTypeOK
    <2> QED BY <1>2, <2>1, <2>2 DEF FindRow
  <1>3. CASE CreateRow(h)
    <2>1. c.pc # "log" /\ UNCHANGED mailVars
      BY <1>3 DEF CreateRow
    <2>2. CASE row = {}
      <3>1. RowTypeOK'
        BY <1>3, <2>2, EmptyRowType DEF CreateRow, RowTypeOK
      <3> QED BY <1>3, <2>1, <2>2, <3>1, EmptyRowType, Saving DEF CreateRow
    <2>3. CASE row # {}
      BY <1>1, <1>3, <2>1, <2>3, Ends DEF CreateRow, RowTypeOK
    <2> QED BY <2>2, <2>3
  <1>4. CASE Reload(h)
    <2>1. PICK r \in row : Go(h, [c EXCEPT !.pc = "write", !.again = Selected(r)])
      BY <1>4 DEF Reload
    <2> DEFINE n == [c EXCEPT !.pc = "write", !.again = Selected(r)]
    <2>2. Selected(r) \in Copy
      BY <1>1, SelectedType
    <2>3. c.pc = "reload" /\ UNCHANGED <<row, mailVars>>
      BY <1>4 DEF Reload
    <2>4. n \in Call /\ CopyOK(n) /\ n.pc # "log"
      BY <1>1, <2>2, <2>3, NextCall
    <2>5. Go(h, n)
      BY <2>1
    <2> HIDE DEF n
    <2> QED BY <2>3, <2>4, <2>5, Reads
  <1> QED BY <1>2, <1>3, <1>4

LEMMA RowWritten ==
    ASSUME IInv, NEW h \in Handlers, Write(h)
    PROVE  IInv'
  <1>1. call[h] \in Call /\ row \in SUBSET Row /\ \A r, s \in row : r = s
    BY DEF IInv, TypeOK
  <1>2. row' = {Written(call[h], r) : r \in row}
    BY DEF Write
  <1>3. RowTypeOK'
    BY <1>1, <1>2, WrittenType DEF RowTypeOK
  <1> QED BY <1>3, Ends DEF Write

LEMMA Disconnected ==
    ASSUME IInv, disconnectGmail
    PROVE  IInv'
  <1>1. row \in SUBSET Row /\ \A r, s \in row : r = s
    BY DEF IInv, TypeOK
  <1>2. \A r \in Row : [r EXCEPT !.email = None, !.token = None] \in Row
    BY DEF Row
  <1>3. RowTypeOK'
    BY <1>1, <1>2 DEF RowTypeOK, disconnectGmail
  <1> QED BY <1>3 DEF IInv, TypeOK, RowTypeOK, CopiesOK, CopyOK, LogIsOfSentMail,
                     disconnectGmail, mailVars

LEMMA CandidateRemoved ==
    ASSUME IInv, RemoveCandidate
    PROVE  IInv'
  BY DEF IInv, TypeOK, CopiesOK, CopyOK, LogIsOfSentMail, RemoveCandidate

LEMMA Mailing ==
    ASSUME IInv, NEW h \in Handlers,
           \/ \E logs \in BOOLEAN : BeginMail(h, logs)
           \/ SelectAccount(h) \/ SendMail(h) \/ LogMail(h)
    PROVE  IInv'
  <1> DEFINE c == call[h]
  <1>1. c \in Call /\ CopyOK(c) /\ row \in SUBSET Row /\ RowTypeOK
    BY DEF IInv, TypeOK, CopiesOK, RowTypeOK
  <1>2. ASSUME NEW logs \in BOOLEAN, BeginMail(h, logs)
        PROVE  IInv'
    <2> DEFINE n == [NoCall EXCEPT !.pc = "select", !.logs = logs]
    <2>1. n \in Call /\ CopyOK(n) /\ n.pc # "log"
      BY NoCallType DEF Call, NoCall, CopyOK, Pc
    <2>2. Start(h, n) /\ UNCHANGED <<row, listed, sent, logged, lost>>
      BY <1>2 DEF BeginMail
    <2>3. mails' \in 0..MaxMails
      <3>1. mails \in 0..MaxMails /\ mails < MaxMails /\ mails' = mails + 1
        BY <1>2 DEF BeginMail, IInv, TypeOK
      <3> QED BY <3>1, MaxMailsAssumption
    <2> HIDE DEF n
    <2> QED BY <2>1, <2>2, <2>3, Begins
  <1>3. CASE SelectAccount(h)
    <2>1. c.pc # "log" /\ UNCHANGED <<row, mailVars>>
      BY <1>3 DEF SelectAccount
    <2>2. CASE Go(h, [c EXCEPT !.pc = "smtp"])
      <3> DEFINE n == [c EXCEPT !.pc = "smtp"]
      <3>1. n \in Call /\ CopyOK(n) /\ n.pc # "log"
        BY <1>1, <2>1 DEF Call, CopyOK, Pc
      <3>2. Go(h, n)
        BY <2>2
      <3> HIDE DEF n
      <3> QED BY <2>1, <3>1, <3>2, Reads
    <2>3. ASSUME NEW r \in row, NEW pc \in {"gmail", "smtp"},
                 Go(h, [c EXCEPT !.pc = pc, !.read = r])
          PROVE  IInv'
      <3> DEFINE n == [c EXCEPT !.pc = pc, !.read = r]
      <3>1. n \in Call /\ CopyOK(n) /\ n.pc # "log"
        BY <1>1, <2>1, RowIsCopy, NextCall
      <3>2. Go(h, n)
        BY <2>3
      <3> HIDE DEF n
      <3> QED BY <2>1, <3>1, <3>2, Reads
    <2> QED BY <1>3, <2>2, <2>3 DEF SelectAccount
  <1>4. CASE SendMail(h)
    <2>1. c.pc # "log" /\ UNCHANGED <<row, listed, mails, logged>>
      BY <1>4 DEF SendMail
    <2>2. CASE c.logs /\ Mailed(h)
      <3> DEFINE n == [c EXCEPT !.pc = "log"]
      <3>1. n \in Call /\ n.pc = "log"
        BY <1>1 DEF Call, Pc
      <3>2. Go(h, n) /\ sent' = sent + 1 /\ UNCHANGED lost
        BY <2>2 DEF Mailed
      <3> HIDE DEF n
      <3> QED BY <2>1, <3>1, <3>2, Sent
    <2>3. CASE Return(h) /\ UNCHANGED <<sent, lost>>
      BY <1>1, <2>1, <2>3, Ends DEF RowTypeOK, mailVars
    <2>4. CASE MailedUnheard(h)
      BY <2>1, <2>4, NoCallType, Vanished DEF MailedUnheard
    <2> QED BY <1>4, <2>2, <2>3, <2>4 DEF SendMail, Mailed
  <1>5. CASE LogMail(h)
    BY <1>5, NoCallType, Settled DEF LogMail
  <1> QED BY <1>2, <1>3, <1>4, <1>5

LEMMA Crashed ==
    ASSUME IInv, NEW h \in Handlers, Crash(h)
    PROVE  IInv'
  <1>1. CASE call[h].pc = "log"
    BY <1>1, NoCallType, Settled DEF Crash
  <1>2. CASE call[h].pc # "log"
    <2>1. RowTypeOK' /\ UNCHANGED mailVars
      BY <1>2 DEF Crash, mailVars, IInv, TypeOK, RowTypeOK
    <2> QED BY <1>2, <2>1, Ends DEF Crash
  <1> QED BY <1>1, <1>2

LEMMA Inductive == IInv /\ [Next]_vars => IInv'
  <1> SUFFICES ASSUME IInv, [Next]_vars PROVE IInv'
    OBVIOUS
  <1>1. ASSUME NEW h \in Handlers, MailAccountsRequest(h)
        PROVE  IInv'
    BY <1>1, StatusBegins, RequestBegins, RowRead, RowWritten DEF MailAccountsRequest
  <1>2. ASSUME NEW h \in Handlers, MailRequest(h)
        PROVE  IInv'
    BY <1>2, Mailing DEF MailRequest
  <1>3. CASE UNCHANGED vars
    BY <1>3 DEF IInv, TypeOK, CopiesOK, CopyOK, LogIsOfSentMail, vars
  <1> QED BY <1>1, <1>2, <1>3, Crashed, Disconnected, CandidateRemoved DEF Next

--------------------------------------------------------------------------------

(* IInv holds for any number of requests at once. *)
THEOREM Invariance == Spec => []IInv
  BY Initial, Inductive, PTL DEF Spec

(* The settings row, the counters and the requests keep their types; there is  *)
(* one settings row (mail-accounts.service.ts:46).                             *)
THEOREM TypeCorrect == Spec => []TypeOK
  <1>1. IInv => TypeOK
    BY DEF IInv
  <1> QED BY <1>1, Invariance, PTL

(* The log has a row for every accepted mail but those whose request has not   *)
(* saved it yet or ended before it did (email-composer.service.ts:98).         *)
THEOREM LogIsTrue == Spec => []LogIsOfSentMail
  <1>1. IInv => LogIsOfSentMail
    BY DEF IInv
  <1> QED BY <1>1, Invariance, PTL

--------------------------------------------------------------------------------
(* The address and the token.                                                *)

(* What a save that was not overtaken makes of a row with one account. *)
LEMMA EmptyColumns == EmptyRow.email = None /\ EmptyRow.token = None
  BY DEF EmptyRow

LEMMA AssignedColumns ==
    ASSUME NEW set, NEW r
    PROVE  /\ Assigned(set, r).email = IF set.account = None THEN r.email ELSE set.account
           /\ Assigned(set, r).token = IF set.account = None THEN r.token
                                       ELSE encryptSecret(set.account)
  BY DEF Assigned

LEMMA WrittenKeepsAccount ==
    ASSUME NEW c \in Call, c.pc = "write", CopyOK(c), NEW r \in Row, OneAccount(r),
           r.email = c.read.email, r.email = c.again.email
    PROVE  OneAccount(Written(c, r))
  <1>1. c.copy = Assigned(c.set, c.read) /\ (c.read.token = Unset \/ c.read = EmptyRow)
    BY DEF CopyOK
  <1>2. /\ Written(c, r).email = IF c.copy.email # c.again.email THEN c.copy.email ELSE r.email
        /\ Written(c, r).token = IF c.copy.token # Unset THEN c.copy.token ELSE r.token
    BY DEF Written
  <1>3. CASE c.set.account = None
    <2>1. c.copy.email = c.read.email /\ c.copy.token = c.read.token
      <3>1. c.copy = Assigned(c.set, c.read)
        BY <1>1
      <3> QED BY <1>3, <3>1, AssignedColumns
    <2>2. Written(c, r).email = r.email
      BY <1>2, <2>1
    <2>3. CASE c.read.token = Unset
      BY <1>2, <2>1, <2>2, <2>3 DEF OneAccount
    <2>4. CASE c.read = EmptyRow
      <3>0. c.read.email = None /\ c.read.token = None
        BY <2>4, EmptyColumns
      <3>1. r.email = None /\ c.copy.token = None
        BY <2>1, <3>0
      <3>2. Written(c, r).token = None
        BY <1>2, <3>1, ValuesAssumption
      <3> QED BY <2>2, <3>1, <3>2 DEF OneAccount
    <2> QED BY <1>1, <2>3, <2>4
  <1>4. CASE c.set.account # None
    <2> DEFINE a == c.set.account
    <2>1. a \in Accounts
      BY <1>4 DEF Call
    <2>2. c.copy.email = a /\ c.copy.token = encryptSecret(a)
      BY <1>1, <1>4 DEF Assigned
    <2>3. encryptSecret(a) # Unset /\ encryptSecret(a) # None /\ a # None
      BY <2>1, ValuesAssumption, SecretsAssumption DEF Secrets
    <2>4. Written(c, r).email = a /\ Written(c, r).token = encryptSecret(a)
      BY <1>2, <2>2, <2>3
    <2>5. decryptSecret(encryptSecret(a)) = a
      BY DEF decryptSecret, encryptSecret
    <2> QED BY <2>3, <2>4, <2>5 DEF OneAccount
  <1> QED BY <1>3, <1>4

AddressStep ==
    (\A r \in row : OneAccount(r)) =>
        \/ \A r \in row' : OneAccount(r)
        \/ \E h \in Handlers, r \in row :
              /\ call[h].pc = "write" /\ call'[h].pc = "idle"
              /\ r.email # call[h].read.email \/ r.email # call[h].again.email

(* Steps that leave the row, or create it. *)
LEMMA RowStays ==
    ASSUME IInv, Next,
           ~ \E h \in Handlers : Write(h), ~disconnectGmail
    PROVE  \A r \in row' : r \in row \/ r = EmptyRow
  <1>1. ASSUME NEW h \in Handlers, MailAccountsRequest(h)
        PROVE  \A r \in row' : r \in row \/ r = EmptyRow
    BY <1>1 DEF MailAccountsRequest, getStatus, updateSignature, handleGmailCallback,
                FindRow, CreateRow, Reload
  <1>2. ASSUME NEW h \in Handlers, MailRequest(h)
        PROVE  row' = row
    BY <1>2 DEF MailRequest, BeginMail, SelectAccount, SendMail, LogMail
  <1>3. ASSUME NEW h \in Handlers, Crash(h)
        PROVE  row' = row
    BY <1>3 DEF Crash
  <1>4. CASE RemoveCandidate
    BY <1>4 DEF RemoveCandidate
  <1> QED BY <1>1, <1>2, <1>3, <1>4 DEF Next

LEMMA AddressKept == IInv /\ [Next]_vars => AddressStep
  <1> SUFFICES ASSUME IInv, [Next]_vars, \A r \in row : OneAccount(r)
               PROVE  \/ \A r \in row' : OneAccount(r)
                      \/ \E h \in Handlers, r \in row :
                            /\ call[h].pc = "write" /\ call'[h].pc = "idle"
                            /\ r.email # call[h].read.email \/ r.email # call[h].again.email
    BY DEF AddressStep
  <1>1. CASE UNCHANGED vars
    BY <1>1 DEF vars
  <1>2. ASSUME NEW h \in Handlers, Write(h)
        PROVE  \/ \A r \in row' : OneAccount(r)
               \/ \E g \in Handlers, r \in row :
                     /\ call[g].pc = "write" /\ call'[g].pc = "idle"
                     /\ r.email # call[g].read.email \/ r.email # call[g].again.email
    <2>1. call[h] \in Call /\ CopyOK(call[h]) /\ call[h].pc = "write" /\ row \in SUBSET Row
      BY <1>2 DEF IInv, TypeOK, CopiesOK, Write
    <2>2. call'[h].pc = "idle"
      BY <1>2 DEF IInv, TypeOK, Write, Return, Go, NoCall
    <2>3. CASE \E r \in row : r.email # call[h].read.email \/ r.email # call[h].again.email
      BY <2>1, <2>2, <2>3
    <2>4. CASE \A r \in row : r.email = call[h].read.email /\ r.email = call[h].again.email
      <3>1. \A r \in row : OneAccount(Written(call[h], r))
        BY <2>1, <2>4, WrittenKeepsAccount
      <3> QED BY <1>2, <3>1 DEF Write
    <2> QED BY <2>3, <2>4
  <1>3. CASE disconnectGmail
    <2>1. row \in SUBSET Row
      BY DEF IInv, TypeOK
    <2>2. \A r \in Row : OneAccount([r EXCEPT !.email = None, !.token = None])
      BY DEF Row, OneAccount
    <2> QED BY <1>3, <2>1, <2>2 DEF disconnectGmail
  <1>4. CASE Next /\ ~disconnectGmail /\ ~ \E h \in Handlers : Write(h)
    <2>1. OneAccount(EmptyRow)
      BY DEF OneAccount, EmptyRow
    <2> QED BY <1>4, <2>1, RowStays
  <1> QED BY <1>1, <1>2, <1>3, <1>4

(* However requests on the settings interleave, the address and the token of   *)
(* the row come apart only by a save that was overtaken: another request has   *)
(* changed the address it had read (mail-accounts.service.ts:75, 110).         *)
THEOREM AddressAndTokenStayTogether == Spec => AddressHasToken
  <1>1. IInv /\ [Next]_vars => [AddressStep]_vars
    BY AddressKept
  <1>2. [][AddressStep]_vars => AddressHasToken
    BY PTL DEF AddressStep, AddressHasToken
  <1> QED BY <1>1, <1>2, Invariance, PTL DEF Spec

================================================================================
