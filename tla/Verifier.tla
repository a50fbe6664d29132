------------------------------- MODULE Verifier -------------------------------
(***************************************************************************)
(* What auth::Password and auth::Fingerprint promise their owner: the      *)
(* public interface of libs/auth/include/auth.  A verifier is one object   *)
(* with a running flag and at most one worker thread.  Its owner launches  *)
(* a verification and deletes the object; any thread stops it; the worker  *)
(* calls on_finish and ends.                                               *)
(*                                                                         *)
(* The two classes differ in the order of a launch.  Password::verify()    *)
(* raises the flag and then joins the previous worker, and its worker      *)
(* lowers the flag when it ends (OneShot).  Fingerprint::start() joins     *)
(* first, and its worker leaves the flag alone.                            *)
(***************************************************************************)
CONSTANT OneShot

VARIABLE v  \* the object: its flag, its thread and where its owner is

Verifiers ==
  [flag   : BOOLEAN,
   thread : {"none", "busy", "handler", "ending", "done"},
   owner  : {"idle", "join", "claim", "launch", "delete", "deleted"}]

Init == v = [flag |-> FALSE, thread |-> "none", owner |-> "idle"]

Joinable == v.thread \in {"none", "done"}

-----------------------------------------------------------------------------
(* The owner: verify() or start(), which does nothing while the flag is up. *)
Begin ==
  /\ v.owner = "idle" /\ ~v.flag
  /\ v' = [v EXCEPT !.owner = "join", !.flag = OneShot]

Join ==
  /\ v.owner = "join" /\ Joinable
  /\ v' = [v EXCEPT !.owner = IF OneShot THEN "launch" ELSE "claim",
                    !.thread = "none"]

Claim ==
  /\ v.owner = "claim"
  /\ v' = [v EXCEPT !.owner = "launch", !.flag = TRUE]

Launch ==
  /\ v.owner = "launch"
  /\ v' = [v EXCEPT !.owner = "idle", !.thread = "busy"]

Fail ==
  /\ v.owner = "launch"
  /\ v' = [v EXCEPT !.owner = "idle", !.flag = FALSE]

(* The owner: the destructor stops and joins. *)
Delete ==
  /\ v.owner = "idle"
  /\ v' = [v EXCEPT !.owner = "delete", !.flag = FALSE]

Deleted ==
  /\ v.owner = "delete" /\ Joinable
  /\ v' = [v EXCEPT !.owner = "deleted", !.thread = "none"]

(* Any thread: stop() lowers a raised flag and does nothing otherwise. *)
Stop ==
  /\ v.flag /\ v.owner # "deleted"
  /\ v' = [v EXCEPT !.flag = FALSE]

-----------------------------------------------------------------------------
(* The worker: on_finish is called, which may call stop(), and returns.  A  *)
(* password that was stopped before is not reported, and one that was       *)
(* reported is over, while the fingerprint is checked again.                *)
Finish ==
  /\ v.thread = "busy" /\ (OneShot => v.flag)
  /\ v' = [v EXCEPT !.thread = "handler"]

Return ==
  /\ v.thread = "handler"
  /\ \E flag \in {v.flag, FALSE} :
       v' = [v EXCEPT !.thread = IF OneShot THEN "ending" ELSE "busy", !.flag = flag]

Mut_Exit ==
  /\ v.thread \in {"busy", "ending"}
  /\ v' = [v EXCEPT !.thread = "done", !.flag = FALSE]

Exit ==
  /\ v.thread \in {"busy", "ending"}
  /\ v' = [v EXCEPT !.thread = "done", !.flag = @ /\ ~OneShot]

OwnerStep == Join \/ Claim \/ Launch \/ Fail \/ Deleted

Next == Begin \/ OwnerStep \/ Delete \/ Stop \/ Finish \/ Return \/ Exit

Spec == Init /\ [][Next]_v

(* What a verifier does by itself: a worker whose flag is down ends,        *)
(* however long the device or PAM take, and so the owner's calls return.    *)
(* That on_finish returns is up to the user's handler.  State predicates    *)
(* stand for ENABLED, which a refinement mapping would not preserve.        *)
Fairness ==
  /\ []<>(v.thread = "busy" /\ ~v.flag) => []<><<Exit>>_v
  /\ <>[](v.thread = "ending") => []<><<Exit>>_v
  /\ <>[](\/ v.owner \in {"claim", "launch"}
          \/ v.owner \in {"join", "delete"} /\ Joinable) => []<><<OwnerStep>>_v

FairSpec == Spec /\ Fairness
=============================================================================
