------------------------------- MODULE Password -------------------------------
(***************************************************************************)
(* auth::Password (libs/auth/src/password.cpp): one verification at a time *)
(* runs in a worker thread, which forks a child process for PAM, while any *)
(* thread may call stop().                                                 *)
(*                                                                         *)
(* The threads share two atomics, is_running_ and active_pam_pid_, and the *)
(* string candidate_, which no lock protects.  Every access to an atomic   *)
(* and every system call is an action of its own.  A round is one accepted *)
(* call of verify(); the process id of a round's child is the number of    *)
(* the round, and 0 is no process.  PAM itself is external: the child ends *)
(* by itself, or never, or is killed.                                      *)
(***************************************************************************)
EXTENDS Integers

CONSTANTS
  Main,       \* the thread that owns the object: it verifies and deletes
  Stoppers,   \* other threads that call stop()
  Right,      \* the user's password
  Wrong,      \* other passwords
  NoPass,     \* the empty candidate_
  MaxRounds,  \* bound on the number of accepted calls of verify()
  MayFail     \* whether fork, allocation and thread creation can fail

ASSUME ThreadsAssumption == Main \notin Stoppers
ASSUME PasswordsAssumption ==
  Right \notin Wrong /\ NoPass \notin Wrong \cup {Right}
ASSUME BoundAssumption == MaxRounds \in Nat \ {0}
ASSUME MayFailAssumption == MayFail \in BOOLEAN

VARIABLES
  isRunning,  \* is_running_
  pamPid,     \* active_pam_pid_
  candidate,  \* candidate_
  main,       \* where the main thread is in verify() or in the destructor, the
              \* number of accepted calls, and whether one of them came while
              \* the previous worker or a stop() had not returned (eager)
  worker,     \* where the worker is ("none": no thread to join), its round and
              \* its locals to_kill (got) and status
  stops,      \* where each thread is in stop(), and its local pam_pid (got)
  child,      \* external: the child process of each round, with the candidate_
              \* that it inherited (guess)
  past        \* of each round: the password it was asked with, the verdict it
              \* reported through its handlers, whether a stop() took its flag
              \* (cut) and whether it called on_stop (notified)

vars == <<isRunning, pamPid, candidate, main, worker, stops, child, past>>

Threads == Stoppers \cup {Main}
Rounds == 1 .. MaxRounds
Passwords == Wrong \cup {Right}

Init ==
  /\ isRunning = FALSE /\ pamPid = 0 /\ candidate = NoPass
  /\ main = [pc |-> "idle", round |-> 0, eager |-> FALSE]
  /\ worker = [pc |-> "none", round |-> 0, got |-> 0, status |-> "none"]
  /\ stops = [t \in Threads |-> [pc |-> "idle", got |-> 0]]
  /\ child = [r \in Rounds |-> [state |-> "none", guess |-> NoPass]]
  /\ past = [r \in Rounds |-> [asked |-> NoPass, report |-> "none",
                               cut |-> FALSE, notified |-> FALSE]]

WorkerActive == worker.pc \notin {"none", "done"}

MainGoes(from, to) == main.pc = from /\ main' = [main EXCEPT !.pc = to]
WorkerGoes(from, to) == worker.pc = from /\ worker' = [worker EXCEPT !.pc = to]

-----------------------------------------------------------------------------
(* How a child can end: with PAM's answer, or killed. *)
Ended == {"granted", "refused", "killed"}

(* internal_pam_conv answers each prompt with the password p.  A wrong one  *)
(* is always refused, the right one can be: the account may be locked, the  *)
(* conversation may run out of memory.                                      *)
PamVerdicts(p) == IF p = Right THEN {"granted", "refused"} ELSE {"refused"}

(* The child's part of run_worker(), which leaves with PAM's answer. *)
ChildAnswers(r) ==
  /\ child[r].state = "running"
  /\ \E verdict \in PamVerdicts(child[r].guess) :
       child' = [child EXCEPT ![r].state = verdict]
  /\ UNCHANGED <<isRunning, pamPid, candidate, main, worker, stops, past>>

(* kill(pid, SIGKILL): no effect on a process that has already ended. *)
Killed(pid) ==
  IF pid \in Rounds /\ child[pid].state = "running"
  THEN [child EXCEPT ![pid].state = "killed"] ELSE child

-----------------------------------------------------------------------------
(* stop(): the thread takes the flag, then the process id, then kills.  It  *)
(* returns at once if the flag is not set.                                  *)
Cut == past' = [past EXCEPT ![main.round].cut = TRUE]

StopTakes(t) ==
  /\ stops[t].pc = "idle" /\ isRunning
  /\ isRunning' = FALSE
  /\ Cut
  /\ stops' = [stops EXCEPT ![t].pc = "exchange"]

StopCalled(t) ==
  /\ t = Main => main.pc = "idle"
  /\ StopTakes(t)
  /\ UNCHANGED <<pamPid, candidate, main, worker, child>>

Mut_NoPid == -1
NoPid == 0

StopExchanges(t) ==
  /\ stops[t].pc = "exchange"
  /\ pamPid' = NoPid
  /\ stops' = [stops EXCEPT ![t] = IF pamPid > 0 THEN [pc |-> "kill", got |-> pamPid]
                                                 ELSE [pc |-> "idle", got |-> 0]]
  /\ UNCHANGED <<isRunning, candidate, main, worker, child, past>>

StopKills(t) ==
  /\ stops[t].pc = "kill"
  /\ child' = Killed(stops[t].got)
  /\ stops' = [stops EXCEPT ![t] = [pc |-> "idle", got |-> 0]]
  /\ UNCHANGED <<isRunning, pamPid, candidate, main, worker, past>>

-----------------------------------------------------------------------------
(* verify(), in the main thread, at any time.  While the flag is set it     *)
(* returns false and changes nothing.                                       *)
VerifyBegins ==
  /\ main.pc = "idle" /\ stops[Main].pc = "idle"
  /\ ~isRunning
  /\ main.round < MaxRounds
  /\ isRunning' = TRUE
  /\ main' = [pc |-> "join", round |-> main.round + 1,
              eager |-> \/ main.eager \/ WorkerActive
                        \/ \E t \in Threads : stops[t].pc # "idle"]
  /\ UNCHANGED <<pamPid, candidate, worker, stops, child, past>>

Mut_NoJoin ==
  /\ MainGoes("join", "assign")
  /\ UNCHANGED <<isRunning, pamPid, candidate, worker, stops, child, past>>

(* join() returns when the thread has ended, if there is one. *)
VerifyJoins ==
  /\ MainGoes("join", "assign") /\ ~WorkerActive
  /\ worker' = [worker EXCEPT !.pc = "none"]
  /\ UNCHANGED <<isRunning, pamPid, candidate, stops, child, past>>

VerifyAssigns(p) ==
  /\ \/ MainGoes("assign", "spawn") /\ candidate' = p
        /\ past' = [past EXCEPT ![main.round].asked = p]
     \/ MayFail /\ MainGoes("assign", "failed") /\ UNCHANGED <<candidate, past>>
  /\ UNCHANGED <<isRunning, pamPid, worker, stops, child>>

VerifySpawns ==
  /\ \/ MainGoes("spawn", "idle")
        /\ worker' = [worker EXCEPT !.pc = "fork", !.round = main.round]
     \/ MayFail /\ MainGoes("spawn", "failed") /\ UNCHANGED worker
  /\ UNCHANGED <<isRunning, pamPid, candidate, stops, child, past>>

(* The catch block of verify(). *)
VerifyFails ==
  /\ MainGoes("failed", "clear")
  /\ isRunning' = FALSE
  /\ UNCHANGED <<pamPid, candidate, worker, stops, child, past>>

Mut_Cleared == candidate
(* clear_candidate() *)
Cleared == NoPass

VerifyClears ==
  /\ MainGoes("clear", "idle")
  /\ candidate' = Cleared
  /\ UNCHANGED <<isRunning, pamPid, worker, stops, child, past>>

(* ~Password(): stop, join, clear.  It does not wait for a stop() that      *)
(* another thread is in, which then goes on in the destroyed object.        *)
DeleteBegins ==
  /\ MainGoes("idle", "djoin") /\ stops[Main].pc = "idle"
  /\ \/ StopTakes(Main)
     \/ ~isRunning /\ UNCHANGED <<isRunning, stops, past>>
  /\ UNCHANGED <<pamPid, candidate, worker, child>>

Mut_DeleteJoins ==
  /\ MainGoes("djoin", "deleted") /\ stops[Main].pc = "idle"
  /\ candidate' = Cleared
  /\ UNCHANGED <<isRunning, pamPid, worker, stops, child, past>>

DeleteJoins ==
  /\ MainGoes("djoin", "deleted") /\ stops[Main].pc = "idle" /\ ~WorkerActive
  /\ worker' = [worker EXCEPT !.pc = "none"]
  /\ candidate' = Cleared
  /\ UNCHANGED <<isRunning, pamPid, stops, child, past>>

-----------------------------------------------------------------------------
(* run_worker() *)

WorkerForks ==
  /\ \/ /\ WorkerGoes("fork", "publish")
        /\ child' = [child EXCEPT ![worker.round] = [state |-> "running",
                                                     guess |-> candidate]]
        /\ UNCHANGED past
     \/ /\ MayFail /\ WorkerGoes("fork", "end")
        /\ past' = [past EXCEPT ![worker.round].report = "system"]
        /\ UNCHANGED child
  /\ UNCHANGED <<isRunning, pamPid, candidate, main, stops>>

WorkerPublishes ==
  /\ WorkerGoes("publish", "recheck")
  /\ pamPid' = worker.round
  /\ UNCHANGED <<isRunning, candidate, main, stops, child, past>>

Mut_NoRecheck == "wait"
Mut_KillsAlways == "takeback"
AfterPublish == IF isRunning THEN "wait" ELSE "takeback"

WorkerRechecks ==
  /\ WorkerGoes("recheck", AfterPublish)
  /\ UNCHANGED <<isRunning, pamPid, candidate, main, stops, child, past>>

WorkerTakesBack ==
  /\ worker.pc = "takeback"
  /\ pamPid' = NoPid
  /\ worker' = [worker EXCEPT !.got = pamPid,
                              !.pc = IF pamPid > 0 THEN "slay" ELSE "wait"]
  /\ UNCHANGED <<isRunning, candidate, main, stops, child, past>>

WorkerSlays ==
  /\ WorkerGoes("slay", "wait")
  /\ child' = Killed(worker.got)
  /\ UNCHANGED <<isRunning, pamPid, candidate, main, stops, past>>

Mut_Waitable == {"granted", "refused"}
(* The ends of a child that waitpid() reports. *)
Waitable == Ended

WorkerReaps ==
  /\ worker.pc = "wait" /\ child[worker.round].state \in Waitable
  /\ worker' = [worker EXCEPT !.pc = "unpublish",
                              !.status = child[worker.round].state]
  /\ child' = [child EXCEPT ![worker.round].state = "reaped"]
  /\ UNCHANGED <<isRunning, pamPid, candidate, main, stops, past>>

Mut_KeepsPid ==
  /\ WorkerGoes("unpublish", "verdict")
  /\ UNCHANGED <<isRunning, pamPid, candidate, main, stops, child, past>>

WorkerUnpublishes ==
  /\ WorkerGoes("unpublish", "verdict")
  /\ pamPid' = NoPid
  /\ UNCHANGED <<isRunning, candidate, main, stops, child, past>>

(* The verdict is reported only if the flag is still set. *)
WorkerDecides ==
  /\ WorkerGoes("verdict", IF isRunning THEN "report" ELSE "end")
  /\ UNCHANGED <<isRunning, pamPid, candidate, main, stops, child, past>>

(* on_finish or on_error.  The on_finish of the coordinator calls stop(),   *)
(* which finds no process id to kill at this point.                         *)
WorkerReports ==
  LET granted == worker.status = "granted"
      Reported(cut) == [past EXCEPT ![worker.round].report =
                                      IF granted THEN "finish" ELSE "denied",
                                    ![main.round].cut = @ \/ cut]
  IN /\ WorkerGoes("report", "end")
     /\ \/ past' = Reported(FALSE) /\ UNCHANGED isRunning
        \/ granted /\ isRunning /\ isRunning' = FALSE /\ past' = Reported(TRUE)
     /\ UNCHANGED <<pamPid, candidate, main, stops, child>>

Mut_Stopped == FALSE
(* cleanup() tells a stopped round by the flag. *)
Stopped == ~isRunning

(* cleanup(): on_end, then on_stop if the flag was taken. *)
WorkerEnds ==
  /\ WorkerGoes("end", "wipe")
  /\ past' = [past EXCEPT ![worker.round].notified = Stopped]
  /\ UNCHANGED <<isRunning, pamPid, candidate, main, stops, child>>

WorkerWipes ==
  /\ WorkerGoes("wipe", "release")
  /\ candidate' = Cleared
  /\ UNCHANGED <<isRunning, pamPid, main, stops, child, past>>

WorkerReleases ==
  /\ WorkerGoes("release", "done")
  /\ isRunning' = FALSE
  /\ UNCHANGED <<pamPid, candidate, main, stops, child, past>>

-----------------------------------------------------------------------------
WorkerStep ==
  \/ WorkerForks \/ WorkerPublishes \/ WorkerRechecks \/ WorkerTakesBack
  \/ WorkerSlays \/ WorkerReaps \/ WorkerUnpublishes \/ WorkerDecides
  \/ WorkerReports \/ WorkerEnds \/ WorkerWipes \/ WorkerReleases

MainStep ==
  \/ VerifyJoins \/ VerifySpawns \/ VerifyFails \/ VerifyClears
  \/ \E p \in Passwords : VerifyAssigns(p)
  \/ DeleteJoins

StopStep(t) == StopExchanges(t) \/ StopKills(t)

Done == main.pc = "deleted" /\ UNCHANGED vars

Next ==
  \/ WorkerStep \/ VerifyBegins \/ DeleteBegins \/ MainStep
  \/ \E t \in Threads : StopCalled(t) \/ StopStep(t)
  \/ \E r \in Rounds : ChildAnswers(r)
  \/ Done

Spec == Init /\ [][Next]_vars

(* Threads run; nobody is obliged to call anything, and PAM may hang. *)
Fairness ==
  /\ WF_vars(WorkerStep)
  /\ WF_vars(MainStep)
  /\ \A t \in Threads : WF_vars(StopStep(t))

FairSpec == Spec /\ Fairness

-----------------------------------------------------------------------------
(***************************************************************************)
(* Properties.                                                             *)
(***************************************************************************)

(* The values of the state of the main thread, of the worker and of a stop(), *)
(* of a child process and of what is known of a round.                      *)
MainStates ==
  [pc : {"idle", "join", "assign", "spawn", "failed", "clear", "djoin", "deleted"},
   round : 0 .. MaxRounds, eager : BOOLEAN]
WorkerStates ==
  [pc : {"none", "fork", "publish", "recheck", "takeback", "slay", "wait",
         "unpublish", "verdict", "report", "end", "wipe", "release", "done"},
   round : 0 .. MaxRounds, got : 0 .. MaxRounds, status : Ended \cup {"none"}]
StopStates == [pc : {"idle", "exchange", "kill"}, got : 0 .. MaxRounds]
Children ==
  [state : Ended \cup {"none", "running", "reaped"}, guess : Passwords \cup {NoPass}]
Histories ==
  [asked : Passwords \cup {NoPass}, report : {"none", "finish", "denied", "system"},
   cut : BOOLEAN, notified : BOOLEAN]

(* Type invariant of the object, its threads and its child processes. *)
TypeOK ==
  /\ isRunning \in BOOLEAN
  /\ pamPid \in 0 .. MaxRounds
  /\ candidate \in Passwords \cup {NoPass}
  /\ main \in MainStates
  /\ worker \in WorkerStates
  /\ stops \in [Threads -> StopStates]
  /\ child \in [Rounds -> Children]
  /\ past \in [Rounds -> Histories]

(* on_finish is called only for a round that was asked with the right       *)
(* password, whatever stop() and verify() do meanwhile: the unprotected     *)
(* candidate_ never mixes two rounds.                                       *)
FinishMeansRight ==
  \A r \in Rounds : past[r].report = "finish" => past[r].asked = Right

(* The password does not outlive its round: whenever no worker is active    *)
(* and verify() is not under way, candidate_ is empty.                      *)
CandidateWiped ==
  ~WorkerActive /\ main.pc \in {"idle", "djoin", "deleted"} => candidate = NoPass

(* active_pam_pid_ never names the child of a round whose worker is past    *)
(* it, and that child has not been reaped but for the one step between      *)
(* waitpid() and the store of 0.  (A process id that a stop() has taken may *)
(* outlive its process: nothing makes the worker wait for the kill.)        *)
PublishedIsMine ==
  pamPid # 0 => /\ pamPid = worker.round
                /\ worker.pc \in {"recheck", "takeback", "wait", "unpublish"}
                /\ child[pamPid].state = "reaped" => worker.pc = "unpublish"

(* The destructor leaves nothing behind, although it does not wait for the  *)
(* stop() of another thread: no child runs or waits to be reaped, and what  *)
(* that stop() finds in the destroyed object is a flag that is down, so     *)
(* that it returns, or no process id, so that it kills nothing.  (One that  *)
(* has taken the id by then kills a process that has been reaped.)          *)
DestroyedInert ==
  main.pc = "deleted" =>
    /\ ~isRunning /\ pamPid = 0
    /\ \A r \in Rounds : child[r].state \in {"none", "reaped"}

(* No round is lost: when its worker has ended, a round has reported a      *)
(* verdict or was announced as stopped.  The owner must have waited for the *)
(* previous worker: a verify() that raises the flag again hides a stop()    *)
(* from the worker that it was meant for.                                   *)
AnsweredOrStopped ==
  worker.pc = "done" /\ ~main.eager =>
    past[worker.round].report # "none" \/ past[worker.round].notified

(* What on_error calls "Invalid password or access denied" is an answer of  *)
(* PAM and not the end of a child that a late kill of a stop() hit, if the  *)
(* owner waits for stop() to return before it verifies again.               *)
DeniedByPam ==
  worker.round # 0 /\ ~main.eager
    /\ past[worker.round].report = "denied" /\ ~past[worker.round].cut
      => worker.status = "refused"

(* Once a stop() has taken its flag, the worker of the round ends, even if  *)
(* PAM hangs: either the stop or the worker itself kills the child.         *)
StopEnds ==
  \A r \in Rounds : (WorkerActive /\ worker.round = r /\ past[r].cut)
                      ~> ~(WorkerActive /\ worker.round = r)

(* verify() returns, however late the previous worker and its stop() are:   *)
(* if PAM always answers, the join of the previous thread cannot last.      *)
VerifyReturns ==
  (\A r \in Rounds : WF_vars(ChildAnswers(r))) => (main.pc = "join" ~> main.pc = "idle")

(* The refinement mapping: what the owner of a verifier sees of the object. *)
Thread ==
  CASE worker.pc \in {"none", "done"} -> worker.pc
    [] worker.pc = "report" /\ worker.status = "granted" -> "handler"
    [] worker.pc \in {"end", "wipe", "release"}
         /\ past[worker.round].report = "finish" -> "ending"
    [] OTHER -> "busy"

Owner ==
  CASE main.pc \in {"idle", "clear"} -> "idle"
    [] main.pc \in {"assign", "spawn", "failed"} -> "launch"
    [] main.pc = "djoin" -> "delete"
    [] OTHER -> main.pc

View == [flag |-> isRunning, thread |-> Thread, owner |-> Owner]

V == INSTANCE Verifier WITH OneShot <- TRUE, v <- View

(* Password implements the verifier that the coordinator builds on: a       *)
(* stopped worker whose flag stays down ends even if PAM hangs, nothing is  *)
(* launched over a living worker, and on_finish is called only by a worker  *)
(* that has seen the flag up.  (The flag may be that of a verify() which    *)
(* waits to join this worker: a stop() before it is forgotten then.)        *)
IsVerifier == V!FairSpec
=============================================================================
