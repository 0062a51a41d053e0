---------------------------- MODULE SessionRefinesRound ----------------------------
(***************************************************************************)
(* InterviewSession implements Round, if one request is served at a time.  *)
(***************************************************************************)
EXTENDS InterviewSession

Phase ==
    CASE status \in {"scheduled", "invitation_sent"} -> "open"
      [] status = "in_progress"                      -> "running"
      [] status = "pending_evaluation"               -> "submitted"
      [] status = "completed"                        -> "evaluated"
      [] status = "cancelled"                        -> "cancelled"

Handed ==
    CASE pipeline = "idle" -> "no" [] pipeline = "handedOver" -> "yes" [] OTHER -> "done"

AnswersThatAre(s) == {q \in Questions : answer[q].status = s}

AbstractRound == INSTANCE Round WITH
    phase   <- Phase,
    taking  <- AnswersThatAre("recording"),
    awaited <- AnswersThatAre("processing"),
    kept    <- AnswersThatAre("uploaded"),
    handed  <- Handed

(* Every step of the session, crashes between awaits, late and repeated      *)
(* webhooks and the deadline included, is a step of the round or none.       *)
ImplementsRound == AbstractRound!Spec

================================================================================
