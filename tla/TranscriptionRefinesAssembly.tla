----------------------- MODULE TranscriptionRefinesAssembly -----------------------
(***************************************************************************)
(* Transcription implements Assembly, with any number of hand-overs and    *)
(* workers at once.                                                        *)
(***************************************************************************)
EXTENDS Transcription

(* The processes that have written the text and not asked yet. *)
Assembling == {p \in Processes : At(p, "enqueueEvaluation")}

Abstract == INSTANCE Assembly WITH
    transcript <- transcript.row,
    assembling <- Assembling # {},
    asked      <- evaluation

(* However many processes find the last answer settled, one of them writes   *)
(* the transcript and that one, if it lives, asks for the evaluation: every  *)
(* step, crashes and redelivered events included, is one of the assembly or  *)
(* none (transcript-assembly.service.ts:33).                                 *)
ImplementsAssembly == Abstract!Spec

================================================================================
