------------------------ MODULE MCCaptureExtension ------------------------
(* Instance of CaptureExtension for TLC. *)
EXTENDS CaptureExtension, TLC

\* Nothing is observed before the first session_start.  One session that fills its
\* buffer, or a session and its successor.
OneSession  == 0 :> 0 @@ 1 :> 4
TwoSessions == 0 :> 0 @@ 1 :> 2 @@ 2 :> 2
===========================================================================
