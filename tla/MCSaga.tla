------------------------------- MODULE MCSaga -------------------------------
(* Instance of CreateProjectSaga, and of the engine in it, for TLC. *)
EXTENDS CreateProjectSaga
=============================================================================
