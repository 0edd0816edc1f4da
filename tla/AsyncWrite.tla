------------------------------ MODULE AsyncWrite ------------------------------
(***************************************************************************)
(* What the part-file writer promises to the main thread, with the thread, *)
(* its lists and its completion port left out.  A buffered item is handed  *)
(* over, its bytes reach the disk at some later time, and only then is it  *)
(* reported as written; a failed item is reported and may be sent again.   *)
(*                                                                         *)
(* The states of an item are those of PartFileBufferedData::flushed        *)
(* (src/srchybrid/PartFile.h); "NONE" is an item that is not in            *)
(* m_BufferedData_list.                                                    *)
(***************************************************************************)
CONSTANT Item

VARIABLES flushed,  \* [Item -> FlushState]
          onDisk    \* items whose current bytes are in the part file

vars == <<flushed, onDisk>>

FlushState == {"NONE", "READY", "PENDING", "ERROR", "WRITTEN"}

TypeOK ==
  /\ flushed \in [Item -> FlushState]
  /\ onDisk \subseteq Item

Init ==
  /\ flushed = [i \in Item |-> "NONE"]
  /\ onDisk = {}

Buffer(i) ==
  /\ flushed[i] = "NONE"
  /\ flushed' = [flushed EXCEPT ![i] = "READY"]
  /\ onDisk' = onDisk \ {i}

HandOver ==
  /\ \E i \in Item : flushed[i] = "READY"
  /\ flushed' = [i \in Item |->
                   IF flushed[i] = "READY" THEN "PENDING" ELSE flushed[i]]
  /\ UNCHANGED onDisk

Persist(i) ==
  /\ flushed[i] = "PENDING"
  /\ onDisk' = onDisk \cup {i}
  /\ UNCHANGED flushed

Report(i) ==
  /\ flushed[i] = "PENDING"
  /\ \/ i \in onDisk /\ flushed' = [flushed EXCEPT ![i] = "WRITTEN"]
     \/ flushed' = [flushed EXCEPT ![i] = "ERROR"]
  /\ UNCHANGED onDisk

Collect(S) ==
  /\ \A i \in S : flushed[i] = "WRITTEN"
  /\ flushed' = [i \in Item |-> IF i \in S THEN "NONE" ELSE flushed[i]]
  /\ UNCHANGED onDisk

Retry(i) ==
  /\ flushed[i] = "ERROR"
  /\ flushed' = [flushed EXCEPT ![i] = "READY"]
  /\ UNCHANGED onDisk

Next ==
  \/ HandOver
  \/ \E i \in Item : Buffer(i) \/ Persist(i) \/ Report(i) \/ Retry(i)
  \/ \E S \in SUBSET Item : Collect(S)

Spec == Init /\ [][Next]_vars
===============================================================================
