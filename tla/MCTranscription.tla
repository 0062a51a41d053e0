----------------------------- MODULE MCTranscription -----------------------------
(* Small instances of Transcription for TLC. *)
EXTENDS TranscriptionRefinesAssembly, TLC

(* Answers, enqueuers and workers are interchangeable in every definition. *)
Symmetry == Permutations(Answers) \cup Permutations(Enqueuers) \cup Permutations(Workers)

================================================================================
