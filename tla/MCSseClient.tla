---------------------------- MODULE MCSseClient ----------------------------
(* A ring of two, three events, and one call of reconnect().                *)
EXTENDS SseClient
=============================================================================
