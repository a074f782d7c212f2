---------------------------- MODULE MCApiPolling ----------------------------
(* Two views: useScannedNetworks, which reads two endpoints, and            *)
(* useLiveAlerts, which reads one of the same two, so that each can store   *)
(* what the other falls back on.                                            *)
EXTENDS ApiPolling

MCHookOf == <<useScannedNetworks, useLiveAlerts>>
MCVersions == [networks |-> 1, alerts |-> 2]
(* There are no alerts at first. *)
MCEmpty == {<<"alerts", 1>>}
=============================================================================
