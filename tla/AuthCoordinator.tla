---------------------------- MODULE AuthCoordinator ----------------------------
(***************************************************************************)
(* The coordinator of libs/auth/example/main.cpp: the user is granted      *)
(* access by a fingerprint or by a password, whichever comes first.  The   *)
(* main thread owns both verifiers and reads the keyboard, their workers   *)
(* call the on_finish handlers, and a signal may interrupt it all.         *)
(*                                                                         *)
(* Both verifiers are instances of Verifier, which Password and            *)
(* Fingerprint implement.  Edition "c" is the earlier coordinator in       *)
(* auth.back/example/main.c, which differs in how it leaves.               *)
(***************************************************************************)
EXTENDS Naturals, Sequences

CONSTANTS
  Edition,  \* "cpp" or "c"
  Sensors,  \* the fingerprint sensors that may be found: "ok", "absent"
  MaxLen    \* MAX_PASS_LEN - 1

ASSUME EditionAssumption == Edition \in {"cpp", "c"}
ASSUME SensorsAssumption == Sensors \subseteq {"ok", "absent"}
ASSUME MaxLenAssumption == MaxLen \in Nat \ {0}

VARIABLES
  pw, fp,       \* the two verifiers
  auth,         \* coord.authenticated
  interrupted,  \* g_interrupted
  sensor,       \* external: the sensor, "off" if its thread could not start
  main,         \* where the main thread is and the length of pass_buf
  handler,      \* where each verifier's on_finish is
  result        \* what the program has told the user

Pw == INSTANCE Verifier WITH v <- pw, OneShot <- TRUE
Fp == INSTANCE Verifier WITH v <- fp, OneShot <- FALSE

vars == <<pw, fp, auth, interrupted, sensor, main, handler, result>>

Sides == {"pw", "fp"}
Other(x) == CHOOSE y \in Sides : y # x

(* A step of one verifier, which leaves the other alone. *)
Of(x, onPw, onFp) ==
  \/ x = "pw" /\ onPw /\ UNCHANGED fp
  \/ x = "fp" /\ onFp /\ UNCHANGED pw

State(x) == IF x = "pw" THEN pw ELSE fp

Init ==
  /\ Pw!Init /\ Fp!Init
  /\ auth = FALSE /\ interrupted = FALSE
  /\ sensor \in Sensors
  /\ main = [pc |-> "start", len |-> 0, step |-> 1]
  /\ handler = [x \in Sides |-> "none"]
  /\ result = "none"

MainGoes(from, to) == main.pc = from /\ main' = [main EXCEPT !.pc = to]

-----------------------------------------------------------------------------
(* stop() of a verifier first takes its flag, if that is up.  Then a thread *)
(* may be held up amid stop(): Password::stop() takes and kills the process *)
(* only if it has taken the flag, Fingerprint::stop() ends the check in any *)
(* case.  Neither is seen from outside.                                     *)
CallStop(x) ==
  IF State(x).flag THEN Of(x, Pw!Stop, Fp!Stop) ELSE UNCHANGED <<pw, fp>>

ReturnsAtOnce(x) == x = "pw" /\ ~pw.flag

(* The on_finish handlers, in a worker: the first to set authenticated      *)
(* stops the other verifier and then its own.                               *)
HandlerCalled(x) ==
  /\ x = "fp" => sensor = "ok"
  /\ Of(x, Pw!Finish, Fp!Finish)
  /\ handler' = [handler EXCEPT ![x] = "exchange"]
  /\ UNCHANGED <<auth, interrupted, sensor, main, result>>

HandlerExchanges(x) ==
  /\ handler[x] = "exchange"
  /\ auth' = TRUE
  /\ handler' = [handler EXCEPT ![x] = IF auth THEN "return" ELSE "other"]
  /\ UNCHANGED <<pw, fp, interrupted, sensor, main, result>>

HandlerStops(x, y, from, amid, to) ==
  /\ \/ /\ handler[x] = from
        /\ CallStop(y)
        /\ handler' = [handler EXCEPT ![x] = IF ReturnsAtOnce(y) THEN to ELSE amid]
     \/ /\ handler[x] = amid
        /\ handler' = [handler EXCEPT ![x] = to]
        /\ UNCHANGED <<pw, fp>>
  /\ UNCHANGED <<auth, interrupted, sensor, main, result>>

HandlerStopsOther(x) == HandlerStops(x, Other(x), "other", "amid other", "self")

Mut_SelfJoin(x) ==
  /\ handler[x] = "self" /\ State(x).thread \in {"none", "done"}
  /\ CallStop(x)
  /\ handler' = [handler EXCEPT ![x] = "return"]
  /\ UNCHANGED <<auth, interrupted, sensor, main, result>>

HandlerStopsSelf(x) == HandlerStops(x, x, "self", "amid self", "return")

HandlerReturns(x) ==
  /\ handler[x] = "return"
  /\ Of(x, Pw!Return, Fp!Return) /\ State(x)'.flag = State(x).flag
  /\ handler' = [handler EXCEPT ![x] = "none"]
  /\ UNCHANGED <<auth, interrupted, sensor, main, result>>

(* The fingerprint's on_error stops it if there is no sensor, in the worker *)
(* that ends after it.                                                      *)
SensorNotFound ==
  /\ sensor = "absent" /\ fp.thread = "busy"
  /\ Fp!Stop
  /\ UNCHANGED <<pw, auth, interrupted, sensor, main, handler, result>>

(* A worker ends: it was stopped, PAM has refused, or a sensor that was     *)
(* found fails, in which case the flag of the fingerprint stays up.         *)
WorkerEnds(x) ==
  /\ x = "fp" => ~fp.flag \/ sensor = "ok"
  /\ Of(x, Pw!Exit, Fp!Exit)
  /\ UNCHANGED <<auth, interrupted, sensor, main, handler, result>>

(* global_sig_handler *)
Interrupt ==
  /\ ~interrupted /\ main.pc # "exited"
  /\ interrupted' = TRUE
  /\ UNCHANGED <<pw, fp, auth, sensor, main, handler, result>>

-----------------------------------------------------------------------------
(* The main thread starts the fingerprint verifier. *)
MainStarts ==
  /\ MainGoes("start", "starting")
  /\ Fp!Begin
  /\ UNCHANGED <<pw, auth, interrupted, sensor, handler, result>>

(* start() and verify() take their steps in the main thread. *)
StartSteps ==
  /\ main.pc = "starting"
  /\ \/ (Fp!Join \/ Fp!Claim \/ Fp!Launch) /\ UNCHANGED sensor
     \/ Fp!Fail /\ sensor' = "off"
  /\ UNCHANGED <<pw, auth, interrupted, main, handler, result>>

VerifySteps ==
  /\ main.pc = "verify"
  /\ Pw!Join \/ Pw!Launch \/ Pw!Fail
  /\ UNCHANGED <<fp, auth, interrupted, sensor, main, handler, result>>

MainStarted ==
  /\ MainGoes("starting", "test") /\ fp.owner = "idle"
  /\ UNCHANGED <<pw, fp, auth, interrupted, sensor, handler, result>>

Mut_MustLeave == auth
(* The condition of the loop, and the test of the two flags, one by one. *)
MustLeave == auth \/ interrupted

MainTests ==
  /\ MainGoes("test", IF MustLeave THEN "leave" ELSE "fp?")
  /\ UNCHANGED <<pw, fp, auth, interrupted, sensor, handler, result>>

MainTestsFlags ==
  /\ \/ MainGoes("fp?", IF fp.flag THEN "input" ELSE "pw?")
     \/ MainGoes("pw?", IF pw.flag THEN "input" ELSE "leave")
  /\ UNCHANGED <<pw, fp, auth, interrupted, sensor, handler, result>>

Mut_Lengths == 0 .. MaxLen + 1
Lengths == 0 .. MaxLen

(* select() times out, or a character is added or taken back. *)
MainTypes ==
  /\ main.pc = "input"
  /\ \E len \in {main.len, main.len + 1, main.len - 1} :
       /\ len \in Lengths
       /\ main' = [main EXCEPT !.pc = "test", !.len = len]
  /\ UNCHANGED <<pw, fp, auth, interrupted, sensor, handler, result>>

(* Return calls verify(), whose answer is not looked at. *)
MainEnters ==
  /\ MainGoes("input", "verify") /\ main.len > 0
  /\ IF pw.flag THEN UNCHANGED pw ELSE Pw!Begin
  /\ UNCHANGED <<fp, auth, interrupted, sensor, handler, result>>

MainVerified ==
  /\ main.pc = "verify" /\ pw.owner = "idle"
  /\ main' = [main EXCEPT !.pc = "test", !.len = 0]
  /\ UNCHANGED <<pw, fp, auth, interrupted, sensor, handler, result>>

-----------------------------------------------------------------------------
(* Leaving: pass_buf is wiped, then the C++ program stops both, reports and  *)
(* destroys its objects in reverse order of declaration, while the C program *)
(* deletes them in that order and then reports.                              *)
LeavingC ==
  <<<<"wipe", "buf">>, <<"delete", "fp">>, <<"delete", "pw">>, <<"report", "user">>>>

Mut_LeavingCpp ==
  <<<<"wipe", "buf">>, <<"stop", "fp">>, <<"amid", "fp">>, <<"stop", "pw">>,
    <<"amid", "pw">>, <<"report", "user">>, <<"delete", "fp">>, <<"delete", "pw">>>>
LeavingCpp ==
  <<<<"wipe", "buf">>, <<"stop", "fp">>, <<"amid", "fp">>, <<"stop", "pw">>,
    <<"amid", "pw">>, <<"report", "user">>, <<"delete", "pw">>, <<"delete", "fp">>>>

Leaving == IF Edition = "cpp" THEN LeavingCpp ELSE LeavingC

LeaveDoes(step) == main.pc = "leave" /\ main.step <= Len(Leaving) /\ Leaving[main.step] = step
LeaveGoesOn == main' = [main EXCEPT !.step = @ + 1]

LeaveWipes ==
  /\ LeaveDoes(<<"wipe", "buf">>)
  /\ main' = [main EXCEPT !.step = @ + 1, !.len = 0]
  /\ UNCHANGED <<pw, fp, auth, interrupted, sensor, handler, result>>

LeaveStops(x) ==
  /\ \/ LeaveDoes(<<"stop", x>>) /\ CallStop(x)
     \/ LeaveDoes(<<"amid", x>>) /\ UNCHANGED <<pw, fp>>
  /\ LeaveGoesOn
  /\ UNCHANGED <<auth, interrupted, sensor, handler, result>>

LeaveReports ==
  /\ LeaveDoes(<<"report", "user">>)
  /\ result' = IF auth THEN "granted" ELSE "denied"
  /\ LeaveGoesOn
  /\ UNCHANGED <<pw, fp, auth, interrupted, sensor, handler>>

LeaveDeletes(x) ==
  /\ LeaveDoes(<<"delete", x>>)
  /\ \/ Of(x, Pw!Delete, Fp!Delete) /\ UNCHANGED main
     \/ Of(x, Pw!Deleted, Fp!Deleted) /\ LeaveGoesOn
  /\ UNCHANGED <<auth, interrupted, sensor, handler, result>>

Exits ==
  /\ main.pc = "leave" /\ main.step > Len(Leaving)
  /\ main' = [main EXCEPT !.pc = "exited"]
  /\ UNCHANGED <<pw, fp, auth, interrupted, sensor, handler, result>>

Exited == main.pc = "exited" /\ UNCHANGED vars

-----------------------------------------------------------------------------
HandlerStep(x) ==
  HandlerExchanges(x) \/ HandlerStopsOther(x) \/ HandlerStopsSelf(x) \/ HandlerReturns(x)

MainStep ==
  \/ MainStarts \/ StartSteps \/ MainStarted \/ MainTests \/ MainTestsFlags
  \/ MainTypes \/ MainEnters \/ VerifySteps \/ MainVerified
  \/ LeaveWipes \/ LeaveReports \/ Exits
  \/ \E x \in Sides : LeaveStops(x) \/ LeaveDeletes(x)

Next ==
  \/ MainStep
  \/ \E x \in Sides : HandlerCalled(x) \/ HandlerStep(x) \/ WorkerEnds(x)
  \/ SensorNotFound \/ Interrupt
  \/ Exited

Spec == Init /\ [][Next]_vars

(* Threads run, the verifiers keep their promises, and a worker that finds  *)
(* no sensor says so.  Neither a finger nor PAM need ever answer.           *)
Fairness ==
  /\ WF_vars(MainStep) /\ WF_vars(SensorNotFound)
  /\ \A x \in Sides : WF_vars(HandlerStep(x))
  /\ Pw!Fairness /\ Fp!Fairness

FairSpec == Spec /\ Fairness

-----------------------------------------------------------------------------
(***************************************************************************)
(* Properties.                                                             *)
(***************************************************************************)

(* Type invariant of the coordinator and its two verifiers. *)
TypeOK ==
  /\ pw \in Pw!Verifiers /\ fp \in Fp!Verifiers
  /\ auth \in BOOLEAN /\ interrupted \in BOOLEAN
  /\ sensor \in {"ok", "absent", "off"}
  /\ main \in [pc : {"start", "starting", "test", "fp?", "pw?", "input", "verify",
                     "leave", "exited"},
               len : 0 .. MaxLen, step : 1 .. Len(Leaving) + 1]
  /\ handler \in [Sides -> {"none", "exchange", "other", "amid other", "self",
                           "amid self", "return"}]
  /\ result \in {"none", "granted", "denied"}

(* The user is denied only for a reason: the program was interrupted, or it *)
(* has no fingerprint verifier.  The handlers set authenticated before they *)
(* lower the flags that make the loop give up, and a sensor that fails      *)
(* leaves the prompt alone because its worker leaves is_running_ set.       *)
DeniedForReason == result = "denied" => interrupted \/ sensor # "ok"

(* Only the destroyed Password can be met by a stop(), called too late or   *)
(* held up amid its work: then its flag is down and its worker is gone, so  *)
(* that (Password!DestroyedInert) there is no process to take.  The memory  *)
(* is still there, because main() does not return before the handler does.  *)
(* No handler is in Fingerprint::stop(), which would write to a closed      *)
(* pipe, when the fingerprint is gone.                                      *)
LateStopHarmless ==
  \A x \in Sides : handler[x] \in {"other", "amid other"} =>
    /\ main.pc # "exited"
    /\ State(Other(x)).owner = "deleted" => x = "fp" /\ ~pw.flag /\ pw.thread = "none"

(* No handler calls stop() of a verifier that was deleted. *)
NoCallAfterDelete ==
  \A x \in Sides : handler[x] = "other" => State(Other(x)).owner # "deleted"

(* Without a sensor the user is denied only after an interrupt: the handler *)
(* of that error says that it disables the scanner module, and the password *)
(* can still be entered.                                                    *)
PasswordOffered == result = "denied" /\ sensor = "absent" => interrupted

(* Once the loop is left the program exits, even if PAM hangs and no finger *)
(* ever comes: both workers were stopped for good and nobody waits for a    *)
(* thread that waits for it.                                                *)
LeavingEnds == main.pc = "leave" ~> main.pc = "exited"

(* If PAM always answers, a success or an interrupt ends the program        *)
(* whatever the main thread is doing, also if it has just begun to verify   *)
(* another password.                                                        *)
SuccessEnds ==
  (<>[](pw.thread = "busy") => []<><<Pw!Exit>>_pw)
    => ((auth \/ interrupted) ~> main.pc = "exited")
=============================================================================
