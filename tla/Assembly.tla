--------------------------------- MODULE Assembly ---------------------------------
(***************************************************************************)
(* What the evaluation takes the assembly of a transcript for: somebody    *)
(* concludes the transcription once, and if there is text, that one asks   *)
(* for the evaluation, once, unless he dies before.                        *)
(*                                                                         *)
(* Answers, jobs, events and the processes that race for the conclusion do *)
(* not appear: Transcription is to look like this however many of them     *)
(* there are, and these are the steps of the assembly in Evaluation.       *)
(***************************************************************************)
VARIABLES
    transcript, \* how the transcription was concluded
    assembling, \* somebody has written the text and is about to ask
    asked       \* whether the evaluation was asked for

vars == <<transcript, assembling, asked>>

TypeOK ==
    /\ transcript \in {"none", "failure", "text"}
    /\ assembling \in BOOLEAN
    /\ asked \in BOOLEAN

Init ==
    /\ transcript = "none"
    /\ assembling = FALSE
    /\ asked = FALSE

Conclude ==
    /\ transcript = "none"
    /\ transcript' \in {"failure", "text"}
    /\ assembling' = (transcript' = "text")
    /\ UNCHANGED asked

Ask ==
    /\ assembling
    /\ assembling' = FALSE
    /\ asked' = TRUE
    /\ UNCHANGED transcript

(* Nobody takes over: the recruiter has to retry. *)
Die ==
    /\ assembling
    /\ assembling' = FALSE
    /\ UNCHANGED <<transcript, asked>>

Next == Conclude \/ Ask \/ Die

Spec == Init /\ [][Next]_vars

--------------------------------------------------------------------------------

(* Nobody is about to ask what was asked for already. *)
AskedOnce == asked => transcript = "text" /\ ~assembling

================================================================================
