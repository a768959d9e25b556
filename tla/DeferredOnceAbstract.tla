------------------------ MODULE DeferredOnceAbstract ------------------------
(***************************************************************************)
(* What TimerActionOnce promises, without timers, wakers or the executor: *)
(* a scheduled action is Armed until it fires; once fired it runs and may *)
(* complete; a cancel request taken while it is Armed or Running ends it  *)
(* as Cancelled and it never fires or completes afterwards; join reports  *)
(* Some exactly when the action completed.  Armed and Running actions     *)
(* eventually end.                                                         *)
(***************************************************************************)

VARIABLES
  status,     (* "Idle", "Failed", "Armed", "Running", "Done", "Cancelled" *)
  cancelReq,  (* a cancel request reached the action while it was active *)
  handle,     (* "None", "Held", "Joining", "Joined", "Gone"             *)
  result      (* "Pending", "Some", "None"                               *)

avars == <<status, cancelReq, handle, result>>

Active == {"Armed", "Running"}
Ended == {"Done", "Cancelled"}

TypeOK ==
  /\ status \in {"Idle", "Failed"} \cup Active \cup Ended
  /\ cancelReq \in BOOLEAN
  /\ handle \in {"None", "Held", "Joining", "Joined", "Gone"}
  /\ result \in {"Pending", "Some", "None"}

Init ==
  /\ status = "Idle"
  /\ cancelReq = FALSE
  /\ handle = "None"
  /\ result = "Pending"

Schedule ==
  /\ status = "Idle"
  /\ \/ status' = "Armed" /\ handle' = "Held"
     \/ status' = "Failed" /\ UNCHANGED handle
  /\ UNCHANGED <<cancelReq, result>>

\* destroy() keeps the handle, cancel() goes on to join.
RequestCancel ==
  /\ handle = "Held"
  /\ cancelReq' = (cancelReq \/ status \in Active)
  /\ handle' \in {"Held", "Joining"}
  /\ UNCHANGED <<status, result>>

Join ==
  /\ handle = "Held"
  /\ handle' = "Joining"
  /\ UNCHANGED <<status, cancelReq, result>>

DropHandle ==
  /\ handle = "Held"
  /\ handle' = "Gone"
  /\ UNCHANGED <<status, cancelReq, result>>

JoinReady ==
  /\ handle = "Joining"
  /\ status \in Ended
  /\ handle' = "Joined"
  /\ result' = IF status = "Done" THEN "Some" ELSE "None"
  /\ UNCHANGED <<status, cancelReq>>

\* The action starts; it may complete at once.
Fire ==
  /\ status = "Armed" /\ ~cancelReq
  /\ status' \in {"Running", "Done"}
  /\ UNCHANGED <<cancelReq, handle, result>>

Finish ==
  /\ status = "Running" /\ ~cancelReq
  /\ status' = "Done"
  /\ UNCHANGED <<cancelReq, handle, result>>

Abort ==
  /\ status \in Active /\ cancelReq
  /\ status' = "Cancelled"
  /\ UNCHANGED <<cancelReq, handle, result>>

Progress == Fire \/ Finish \/ Abort

Next ==
  \/ Schedule \/ RequestCancel \/ Join \/ DropHandle \/ JoinReady
  \/ Progress

Spec == Init /\ [][Next]_avars /\ WF_avars(Progress) /\ WF_avars(JoinReady)
=============================================================================
