------------------------------- MODULE Daemon -------------------------------
(***************************************************************************)
(* What the launcher promises of each daemon it supervises, lokid, lokinet *)
(* or the storage server, with everything left out that is particular to   *)
(* one of them: there is one process at most, it is the handle's, and      *)
(* nothing starts it once the launcher shuts down.  Blockchain, Storage    *)
(* and Lokinet implement this; Suite is three of these and what they share.*)
(***************************************************************************)
VARIABLES
  handle,         \* "null", "open", or "killed" (the killed flag is set)
  up,             \* does the handle's process exist?
  closing,        \* it ended, and its 'close' event is still to come
  shuttingDown,
  allDown         \* the launcher has said "All daemons down."

vars == <<handle, up, closing, shuttingDown, allDown>>

TypeOK ==
  /\ handle \in {"null", "open", "killed"}
  /\ up \in BOOLEAN /\ closing \in BOOLEAN
  /\ shuttingDown \in BOOLEAN /\ allDown \in BOOLEAN

Init ==
  /\ handle = "null"
  /\ ~up /\ ~closing /\ ~shuttingDown /\ ~allDown
---------------------------------------------------------------------------
Marked == IF handle = "open" THEN "killed" ELSE handle

\* The spawn may fail, and a 'close' may tell of it; then the launcher may
\* give up at once.
Launch ==
  /\ ~shuttingDown /\ ~up /\ ~closing
  /\ \/ /\ handle' = "open" /\ shuttingDown' = FALSE
        /\ up' \in BOOLEAN /\ closing' \in BOOLEAN /\ ~(up' /\ closing')
     \/ /\ handle' = "killed" /\ shuttingDown' = TRUE
        /\ up' = FALSE /\ closing' = FALSE
  /\ UNCHANGED allDown

End ==
  /\ up /\ up' = FALSE
  /\ closing' = TRUE
  /\ UNCHANGED <<handle, shuttingDown, allDown>>

\* The process is gone for good before its 'close', never after.  The last
\* 'close' may be what makes the launcher shut down.
Close ==
  /\ closing /\ closing' = FALSE
  /\ handle' \in {"null", "killed"}
  /\ shuttingDown' \in BOOLEAN /\ (shuttingDown => shuttingDown')
  /\ UNCHANGED <<up, allDown>>

\* The daemon is told to end, to be launched again.
Ask ==
  /\ handle = "open" /\ handle' = "killed"
  /\ UNCHANGED <<up, closing, shuttingDown, allDown>>

Shutdown ==
  /\ shuttingDown' = TRUE
  /\ handle' = Marked
  /\ UNCHANGED <<up, closing, allDown>>

AllDown ==
  /\ shuttingDown /\ ~allDown /\ ~up
  /\ allDown' = TRUE
  /\ handle' \in {"null", Marked}
  /\ UNCHANGED <<up, closing, shuttingDown>>

Next == Launch \/ End \/ Close \/ Ask \/ Shutdown \/ AllDown

Spec == Init /\ [][Next]_vars
===========================================================================
