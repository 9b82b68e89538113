------------------------ MODULE MC_LogsCollectorSaga ------------------------
(* Model-checking instance of LogsCollectorSaga: the caller may invoke the  *)
(* teardown func twice (the spec's idempotent-teardown case).               *)
EXTENDS LogsCollectorSaga

MCMaxTeardowns == 2

(* Create calls fail cleanly: an error means the object was not stored.     *)
MCReliableCreate == FALSE

(* Create calls may fail after the API server stored the object.            *)
MCLossyCreate == TRUE
=============================================================================
