---------------------------- MODULE Backpressure ----------------------------
(***************************************************************************)
(* The three levels of backpressure and their hysteresis                   *)
(* (internal/sender/poller.go).                                            *)
(***************************************************************************)
Pressures == {"normal", "degraded", "paused"}

\* How full the disk of the log is: below 60 %, below 80 %, from 80 % on.
Usages == {"green", "yellow", "red"}

\* Variant for a mutation: nothing resumes what was paused.
BuggyNextPressure(pressure, usage) ==
    IF pressure = "paused" \/ usage = "red" THEN "paused"
    ELSE IF usage = "yellow" THEN "degraded" ELSE "normal"

\* What was paused goes on only when the disk is green again.
NextPressure(pressure, usage) ==
    IF usage = "red" \/ (usage = "yellow" /\ pressure = "paused") THEN "paused"
    ELSE IF usage = "yellow" THEN "degraded" ELSE "normal"
=============================================================================
