---------------------------- MODULE MCServerConnect ----------------------------
(***************************************************************************)
(* ServerConnect for TLC: three addresses for sockets, so two attempts and *)
(* the socket that fails, or that stays though it is marked.               *)
(***************************************************************************)
EXTENDS ServerConnect

CONSTANTS s1, s2, s3

MCSocket == {s1, s2, s3}

Prefs(may, safe, prefer) ==
  {[may |-> may, safe |-> safe, reconnect |-> r, prefer |-> prefer,
    require |-> FALSE] : r \in BOOLEAN}

MCScenarios ==
  Prefs({"fatal", "filter", "static"}, FALSE, TRUE)
    \cup Prefs({"error", "packet", "batch"}, FALSE, FALSE)
    \cup Prefs({"packet", "fatal", "filter"}, TRUE, TRUE)
    \cup Prefs({"refuse", "static"}, TRUE, TRUE)
    \cup Prefs({"empty", "static", "filter"}, TRUE, TRUE)
    \cup Prefs({"tick", "fatal"}, FALSE, FALSE)
===============================================================================
