------------------------------- MODULE MCGate -------------------------------
(* Two tablets scan one ticket; two scans and two requests at a time. *)
EXTENDS Gate

CONSTANTS a, b, t1

MCDevices == {a, b}
MCTickets == {t1}
MCScans == {1, 2}
MCRequests == {1, 2}
=============================================================================
