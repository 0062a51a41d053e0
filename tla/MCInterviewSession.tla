--------------------------- MODULE MCInterviewSession ---------------------------
(* Small instances of InterviewSession for TLC. *)
EXTENDS SessionRefinesRound, TLC

(* Questions and egress ids are interchangeable in every definition; handlers too. *)
Symmetry == Permutations(Questions) \cup Permutations(Egresses) \cup Permutations(Handlers)

AllOperations == CandidateOp \cup RecruiterOp \cup WebhookOp \cup {"listRecordings"}

(* What a candidate and LiveKit do once the link is out. *)
RecordingOperations ==
    {"getJoinLink", "joinRoom", "startRecording", "stopRecording", "egressEnded"}

================================================================================
