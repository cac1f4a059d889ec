--------------------------- MODULE MCViewerFrames ---------------------------
(***************************************************************************)
(* Constants for model-checking ViewerFrames.                              *)
(***************************************************************************)
EXTENDS ViewerFrames

\* Two sizes of a window that is not minimised.
MCSizes == {1, 2}

\* Every call that has a result may fail.
MCFailures == {"create", "acquire", "submit", "present"}

\* No call fails.
MCNoFailures == {}
=============================================================================
