---------------------------- MODULE MCRecording ----------------------------
(* Instances of RecordingPipeline: one worker, and the server's worker     *)
(* beside the one of cmd/recording-worker.                                 *)
EXTENDS RecordingPipeline

CONSTANTS rec1, rec2, server, extra, cleaner1, cleaner2
=============================================================================
