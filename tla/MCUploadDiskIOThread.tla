------------------------- MODULE MCUploadDiskIOThread -------------------------
(***************************************************************************)
(* Two clients, so that a slot can be given up while the other is served;  *)
(* two blocks of one file, so that one waits while the other is read, and  *)
(* one of another file, so that one file is closed while the other is read.*)
(***************************************************************************)
EXTENDS UploadDiskIOThread

CONSTANTS c1, c2, f1, f2

MCClient == {c1, c2}
MCFile == {f1, f2}
MCBlock == 1..3
MCFileOf == [b \in MCBlock |-> IF b = 3 THEN f2 ELSE f1]

Scenario(E, forC1, forC2, n) ==
  [may |-> E, wants |-> (c1 :> forC1 @@ c2 :> forC2), sessions |-> n]

\* two clients at once; clients that come and go; failing reads; the end of
\* the program; lost connections; a completed download; a file that is no
\* longer shared; a client that changes files; and an address that passes from a
\* client that leaves, while its read is pending, to the other one
MCScenarios ==
  {Scenario({}, {1}, {2}, 1),
   Scenario({"leave", "short"}, {1}, {}, 2),
   Scenario({"short", "sync", "open"}, {1, 2}, {}, 1),
   Scenario({"quota", "stop"}, {1}, {}, 1),
   Scenario({"socket", "delete"}, {1}, {}, 1),
   Scenario({"move"}, {1}, {}, 1),
   Scenario({"unshare"}, {1}, {}, 1),
   Scenario({"switch"}, {3}, {}, 1),
   Scenario({"reuse", "leave"}, {1}, {2}, 1)}
===============================================================================
