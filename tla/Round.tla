----------------------------------- MODULE Round -----------------------------------
(***************************************************************************)
(* A round as the recruiter understands it: it is opened, the candidate    *)
(* records answers one at a time, submits, and what was recorded is handed *)
(* to the pipeline once, when every recording is known to be good or bad.  *)
(*                                                                         *)
(* Rooms, egresses, webhooks, links, the clock and the handlers do not     *)
(* appear: InterviewSession is to look like this when its requests are     *)
(* served one at a time.                                                   *)
(***************************************************************************)
CONSTANT Questions

VARIABLES
    phase,   \* how far the round is
    taking,  \* the question being recorded, if one is
    awaited, \* questions whose recording has ended and is not confirmed yet
    kept,    \* questions with a confirmed recording
    handed   \* whether the recordings were handed over, and evaluated

vars == <<phase, taking, awaited, kept, handed>>
answers == <<taking, awaited, kept>>

TypeOK ==
    /\ phase \in {"open", "running", "submitted", "evaluated", "cancelled"}
    /\ taking \subseteq Questions /\ awaited \subseteq Questions /\ kept \subseteq Questions
    /\ handed \in {"no", "yes", "done"}

Init ==
    /\ phase = "open"
    /\ taking = {} /\ awaited = {} /\ kept = {}
    /\ handed = "no"

--------------------------------------------------------------------------------

Start ==
    /\ phase = "open"
    /\ phase' = "running"
    /\ UNCHANGED <<answers, handed>>

(* A question is recorded, for the first time or again: what it had is gone. *)
Record(q) ==
    /\ phase = "running"
    /\ taking \subseteq {q}
    /\ taking' = {q}
    /\ awaited' = awaited \ {q}
    /\ kept' = kept \ {q}
    /\ UNCHANGED <<phase, handed>>

Stop(q) ==
    /\ q \in taking
    /\ taking' = taking \ {q}
    /\ awaited' = awaited \cup {q}
    /\ UNCHANGED <<phase, kept, handed>>

(* The recording turned out to be good, or is lost. *)
Settle(q) ==
    /\ q \in taking \cup awaited
    /\ taking' = taking \ {q}
    /\ awaited' = awaited \ {q}
    /\ kept' \in {kept, kept \cup {q}}
    /\ UNCHANGED <<phase, handed>>

Submit ==
    /\ phase = "running"
    /\ taking = {}
    /\ phase' = "submitted"
    /\ UNCHANGED <<answers, handed>>

HandOver ==
    /\ phase = "submitted"
    /\ handed = "no"
    /\ taking = {} /\ awaited = {} /\ kept # {}
    /\ handed' = "yes"
    /\ UNCHANGED <<phase, answers>>

(* The evaluation arrives even if the round has been cancelled meanwhile. *)
Evaluate ==
    /\ handed = "yes"
    /\ handed' = "done"
    /\ phase' = "evaluated"
    /\ UNCHANGED answers

(* A cancellation may cross the evaluation. *)
Cancel ==
    /\ phase' = "cancelled"
    /\ UNCHANGED <<answers, handed>>

Next ==
    \/ Start \/ Submit \/ HandOver \/ Evaluate \/ Cancel
    \/ \E q \in Questions : Record(q) \/ Stop(q) \/ Settle(q)

Spec == Init /\ [][Next]_vars

--------------------------------------------------------------------------------

(* At most one question is being recorded, and none once the round is over.  *)
OneAtATime ==
    /\ \A q, r \in taking : q = r
    /\ taking # {} => phase \in {"running", "cancelled"}

(* Nothing that was handed over is still open. *)
HandedIsSettled == handed # "no" => taking = {} /\ awaited = {} /\ kept # {}

(* What was handed over is final. *)
HandedIsFinal == [][handed # "no" => UNCHANGED answers]_vars

(* Recordings are only made while the round is running: nothing starts after *)
(* a submission or a cancellation.                                           *)
OverIsOver ==
    [][phase # "open" /\ phase # "running" => taking' \subseteq taking]_vars

================================================================================
