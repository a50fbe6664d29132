----------------------------- MODULE ScreenLock -----------------------------
(***************************************************************************)
(* What a screen locker promises, with no protocol in it: kirilock takes a *)
(* session, keeps it locked until it has a reason to let go, and does not  *)
(* leave it locked behind itself unless it was cut off from the            *)
(* compositor.  SessionLock implements this.                               *)
(***************************************************************************)
VARIABLES
  session,  \* "open", "locked", or "over" once it was unlocked again
  owner,    \* the process: "alive" or "gone"
  due,      \* there is a reason to unlock: the time is over, or a call failed
  cut       \* the connection is lost, for no fault of the process

vars == <<session, owner, due, cut>>

(* kirilock has started. *)
Init == session = "open" /\ owner = "alive" /\ ~due /\ ~cut

(* The compositor grants the lock that kl_context_lock_session asked for. *)
Lock ==
  /\ session = "open" /\ owner = "alive" /\ ~cut
  /\ session' = "locked"
  /\ UNCHANGED <<owner, due, cut>>

(* The reason to unlock comes up: main's deadline, or a failed call. *)
FallDue ==
  /\ owner = "alive"
  /\ due' = TRUE
  /\ UNCHANGED <<session, owner, cut>>

(* kl_context_unlock_session or kl_context_destroy takes effect. *)
Unlock ==
  /\ session = "locked" /\ owner = "alive" /\ due /\ ~cut
  /\ session' = "over"
  /\ UNCHANGED <<owner, due, cut>>

(* The compositor dies. *)
CutOff ==
  /\ cut' = TRUE
  /\ UNCHANGED <<session, owner, due>>

(* main returns: never with the session locked, unless it was cut off. *)
Exit ==
  /\ owner = "alive"
  /\ session # "locked" \/ cut
  /\ owner' = "gone"
  /\ UNCHANGED <<session, due, cut>>

Next == Lock \/ FallDue \/ Unlock \/ CutOff \/ Exit

Spec == Init /\ [][Next]_vars
=============================================================================
