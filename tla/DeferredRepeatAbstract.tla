----------------------- MODULE DeferredRepeatAbstract -----------------------
(***************************************************************************)
(* What TimerActionRepeat promises, without timers, wakers or the          *)
(* executor: a spawned loop calls the generator one call at a time; a      *)
(* call that yields a period lets the loop go round, a call that yields    *)
(* None completes it.  A cancel request taken while the loop is live ends *)
(* it as Cancelled, possibly in the middle of a call, and no call starts  *)
(* after it.  join reports Some exactly when the generator stopped the    *)
(* loop.  A live loop eventually ends.                                     *)
(***************************************************************************)
EXTENDS Naturals

CONSTANTS
  MaxCalls   (* the generator returns None on this call at the latest    *)

VARIABLES
  status,     (* "Idle", "Failed", "Looping", "Completed", "Cancelled"   *)
  inGen,      (* a generator call is in progress                        *)
  calls,      (* generator calls started                                *)
  cancelReq,  (* a cancel request reached the loop while it was live    *)
  handle,     (* "None", "Held", "Joining", "Joined", "Gone"             *)
  result      (* "Pending", "Some", "None"                               *)

avars == <<status, inGen, calls, cancelReq, handle, result>>

Ended == {"Completed", "Cancelled"}

TypeOK ==
  /\ status \in {"Idle", "Failed", "Looping"} \cup Ended
  /\ inGen \in BOOLEAN
  /\ calls \in 0 .. MaxCalls
  /\ cancelReq \in BOOLEAN
  /\ handle \in {"None", "Held", "Joining", "Joined", "Gone"}
  /\ result \in {"Pending", "Some", "None"}

Init ==
  /\ status = "Idle"
  /\ inGen = FALSE
  /\ calls = 0
  /\ cancelReq = FALSE
  /\ handle = "None"
  /\ result = "Pending"

Spawn ==
  /\ status = "Idle"
  /\ \/ status' = "Looping" /\ handle' = "Held"
     \/ status' = "Failed" /\ UNCHANGED handle
  /\ UNCHANGED <<inGen, calls, cancelReq, result>>

\* destroy() keeps the handle, cancel() goes on to join.
RequestCancel ==
  /\ handle = "Held"
  /\ cancelReq' = (cancelReq \/ status = "Looping")
  /\ handle' \in {"Held", "Joining"}
  /\ UNCHANGED <<status, inGen, calls, result>>

Join ==
  /\ handle = "Held"
  /\ handle' = "Joining"
  /\ UNCHANGED <<status, inGen, calls, cancelReq, result>>

DropHandle ==
  /\ handle = "Held"
  /\ handle' = "Gone"
  /\ UNCHANGED <<status, inGen, calls, cancelReq, result>>

JoinReady ==
  /\ handle = "Joining"
  /\ status \in Ended
  /\ handle' = "Joined"
  /\ result' = IF status = "Completed" THEN "Some" ELSE "None"
  /\ UNCHANGED <<status, inGen, calls, cancelReq>>

\* A generator call starts; none starts once a cancel was requested.
Call ==
  /\ status = "Looping" /\ ~inGen /\ ~cancelReq
  /\ calls < MaxCalls
  /\ inGen' = TRUE
  /\ calls' = calls + 1
  /\ UNCHANGED <<status, cancelReq, handle, result>>

\* The call yields Some(period): the loop goes round.
Yield ==
  /\ status = "Looping" /\ inGen /\ ~cancelReq
  /\ calls < MaxCalls
  /\ inGen' = FALSE
  /\ UNCHANGED <<status, calls, cancelReq, handle, result>>

\* The call yields None: the loop completes.
Stop ==
  /\ status = "Looping" /\ inGen /\ ~cancelReq
  /\ status' = "Completed"
  /\ inGen' = FALSE
  /\ UNCHANGED <<calls, cancelReq, handle, result>>

Abort ==
  /\ status = "Looping" /\ cancelReq
  /\ status' = "Cancelled"
  /\ inGen' = FALSE
  /\ UNCHANGED <<calls, cancelReq, handle, result>>

Progress == Call \/ Yield \/ Stop \/ Abort

Next ==
  \/ Spawn \/ RequestCancel \/ Join \/ DropHandle \/ JoinReady
  \/ Progress

Spec == Init /\ [][Next]_avars /\ WF_avars(Progress) /\ WF_avars(JoinReady)
=============================================================================
