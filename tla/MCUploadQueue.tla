----------------------------- MODULE MCUploadQueue -----------------------------
(***************************************************************************)
(* UploadQueue for TLC: three clients, and one slot, besides those for low *)
(* ID clients that missed their turn and for collections.                  *)
(***************************************************************************)
EXTENDS UploadQueue

CONSTANTS c1, c2, c3

MCClient == {c1, c2, c3}

Two == {c1, c2}
MCScenarios == {
  [may |-> {"over"}, who |-> MCClient, low |-> {c1, c2}],
  [may |-> {"coll", "over"}, who |-> MCClient, low |-> {}],
  [may |-> {"same", "over"}, who |-> MCClient, low |-> {}],
  [may |-> {"refused", "nosocket", "kept", "ask", "over", "error", "purge"},
   who |-> Two, low |-> {}],
  [may |-> {"refused", "kept", "over"}, who |-> MCClient, low |-> {}],
  [may |-> {"refused", "ask", "swap"}, who |-> Two, low |-> {c1}],
  [may |-> {"chat", "refused", "nosocket", "again"}, who |-> Two, low |-> {c1}],
  [may |-> {"ban", "kept"}, who |-> Two, low |-> {}],
  [may |-> {"ban", "unban"}, who |-> {c1}, low |-> {}]}

\* one client, which connects again while it has a socket
MCSwap == {[may |-> {"swap"}, who |-> {c1}, low |-> {}]}
===============================================================================
