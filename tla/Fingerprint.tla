----------------------------- MODULE Fingerprint -----------------------------
(***************************************************************************)
(* auth::Fingerprint (libs/auth/src/fingerprint.cpp): a worker thread runs *)
(* one check after another on the fprintd service of the system bus, while *)
(* any thread, and the worker's own handlers, may call stop().             *)
(*                                                                         *)
(* The threads share the atomics is_running_ and check_in_progress_ and    *)
(* the cancel pipe; every access to an atomic, every bus call and every    *)
(* handler is an action of its own.  A session is one accepted start(), a  *)
(* check is one successful VerifyStart.  fprintd and the bus are external: *)
(* signals wait in the connection's queue until sd_bus_process dispatches  *)
(* them, however long ago they were sent.                                  *)
(***************************************************************************)
EXTENDS Integers, Sequences

CONSTANTS
  Main,         \* the thread that owns the object: it starts and deletes
  Worker,       \* the worker thread, whose handlers may call stop()
  Stoppers,     \* other threads that call stop()
  MaxSessions,  \* bound on the number of accepted calls of start()
  MaxQueue,     \* bound on the undispatched signals
  MayFail       \* whether pipe, thread creation and bus calls can fail

ASSUME ThreadsAssumption ==
  Main \notin Stoppers /\ Worker \notin Stoppers /\ Main # Worker
ASSUME BoundsAssumption ==
  MaxSessions \in Nat \ {0} /\ MaxQueue \in Nat \ {0}
ASSUME MayFailAssumption == MayFail \in BOOLEAN

VARIABLES
  isRunning,  \* is_running_
  checking,   \* check_in_progress_
  pipe,       \* cancel_pipe_: "none" without one, else "empty" or "full"
  main,       \* where the main thread is in start() or in the destructor, the
              \* number of accepted calls, and whether one of them came while
              \* a stop() had not returned (late)
  worker,     \* where the worker is ("none": no thread to join), its session
              \* and the signal it is dispatching
  spc,        \* where each thread is in stop()
  service,    \* external: the bus ("none" if it or the device are missing,
              \* "ok", "dead"), the device ("idle", "scanning", "finished") and
              \* the queue of signals received and not yet dispatched
  past        \* the number of checks begun for which on_end was not called
              \* (open), the sessions whose flag a stop() has taken (cut), and
              \* whether a bus call has failed (broken)

vars == <<isRunning, checking, pipe, main, worker, spc, service, past>>

Threads == Stoppers \cup {Main, Worker}

(* fresh: no VerifyStart has been made since the signal was sent. *)
Signals == [result : {"match", "other"}, done : BOOLEAN, fresh : BOOLEAN]
NoSignal == [result |-> "none", done |-> FALSE, fresh |-> FALSE]

(* The constructor: the bus, the device or the pipe may be missing. *)
Init ==
  /\ isRunning = FALSE /\ checking = FALSE
  /\ pipe \in IF MayFail THEN {"none", "empty"} ELSE {"empty"}
  /\ main = [pc |-> "idle", session |-> 0, late |-> FALSE]
  /\ worker = [pc |-> "none", session |-> 0, sig |-> NoSignal]
  /\ spc = [t \in Threads |-> "idle"]
  /\ service \in [bus : IF MayFail THEN {"none", "ok"} ELSE {"ok"},
                  device : {"idle"}, queue : {<<>>}]
  /\ past = [open |-> 0, cut |-> {}, broken |-> FALSE]

WorkerActive == worker.pc \notin {"none", "done"}

MainGoes(from, to) == main.pc = from /\ main' = [main EXCEPT !.pc = to]
WorkerGoes(from, to) == worker.pc = from /\ worker' = [worker EXCEPT !.pc = to]

-----------------------------------------------------------------------------
(* External: fprintd reports on the finger, and is done after a match, a    *)
(* mismatch or a fault; other results ask the user to try again.            *)
Emit(result, done) ==
  /\ service.bus = "ok" /\ service.device = "scanning"
  /\ Len(service.queue) < MaxQueue
  /\ result = "match" => done
  /\ service' = [service EXCEPT
       !.queue = Append(@, [result |-> result, done |-> done, fresh |-> TRUE]),
       !.device = IF done THEN "finished" ELSE "scanning"]
  /\ UNCHANGED <<isRunning, checking, pipe, main, worker, spc, past>>

(* External: the connection is lost, upon which fprintd frees the device. *)
BusDies ==
  /\ MayFail /\ service.bus = "ok"
  /\ service' = [bus |-> "dead", device |-> "idle", queue |-> <<>>]
  /\ past' = [past EXCEPT !.broken = TRUE]
  /\ UNCHANGED <<isRunning, checking, pipe, main, worker, spc>>

-----------------------------------------------------------------------------
(* stop(): take the flag and write to the pipe, or find it taken; then end  *)
(* the check in progress, if any.                                           *)
StopTakes(t) ==
  /\ spc[t] = "idle"
  /\ isRunning' = FALSE
  /\ past' = [past EXCEPT !.cut = @ \cup IF isRunning THEN {main.session} ELSE {}]
  /\ spc' = [spc EXCEPT ![t] = IF isRunning THEN "write" ELSE "check"]

StopCalled(t) ==
  /\ main.pc \in IF t = Main THEN {"idle"}
                 ELSE {"idle", "join", "drain", "claim", "clear", "spawn", "failed"}
  /\ StopTakes(t)
  /\ UNCHANGED <<checking, pipe, main, worker, service>>

StopWrites(t) ==
  /\ spc[t] = "write"
  /\ pipe' = IF pipe = "none" THEN "none" ELSE "full"
  /\ spc' = [spc EXCEPT ![t] = "check"]
  /\ UNCHANGED <<isRunning, checking, main, worker, service, past>>

Mut_Ended(asked) == past' = [past EXCEPT !.open = IF asked THEN @ - 1 ELSE @]
(* The exchange of check_in_progress_ that calls on_end if it was set.      *)
Ended(asked) ==
  past' = [past EXCEPT !.open = IF asked /\ checking THEN @ - 1 ELSE @]

(* on_end and on_stop are called by the thread that ends the check. *)
StopEndsCheck(t) ==
  /\ spc[t] = "check"
  /\ checking' = FALSE
  /\ Ended(TRUE)
  /\ spc' = [spc EXCEPT ![t] = "idle"]
  /\ UNCHANGED <<isRunning, pipe, main, worker, service>>

-----------------------------------------------------------------------------
(* start(), in the main thread.  It returns false while is_running_ is set  *)
(* and a thread exists, which changes nothing.                              *)
StartBegins ==
  /\ MainGoes("idle", "join") /\ spc[Main] = "idle"
  /\ main.session < MaxSessions
  /\ worker.pc = "none" \/ ~isRunning
  /\ UNCHANGED <<isRunning, checking, pipe, worker, spc, service, past>>

(* join() returns when the thread has ended, if there is one. *)
StartJoins ==
  /\ MainGoes("join", "drain") /\ ~WorkerActive
  /\ worker' = [worker EXCEPT !.pc = "none"]
  /\ UNCHANGED <<isRunning, checking, pipe, spc, service, past>>

(* History: a start() that does not wait for a stop() under way. *)
Overtaken == main.late \/ \E t \in Threads : spc[t] # "idle"

Drained == IF pipe = "none" THEN "none" ELSE "empty"

StartDrains ==
  /\ main.pc = "drain"
  /\ main' = [main EXCEPT !.pc = "claim", !.late = Overtaken]
  /\ pipe' = Drained
  /\ UNCHANGED <<isRunning, checking, worker, spc, service, past>>

StartClaims ==
  /\ main.pc = "claim"
  /\ main' = [pc |-> "clear", session |-> main.session + 1, late |-> Overtaken]
  /\ isRunning' = TRUE
  /\ UNCHANGED <<checking, pipe, worker, spc, service, past>>

StartClears ==
  /\ MainGoes("clear", "spawn")
  /\ checking' = FALSE
  /\ UNCHANGED <<isRunning, pipe, worker, spc, service, past>>

(* on_start and the creation of the thread, either of which may throw. *)
StartSpawns ==
  /\ \/ MainGoes("spawn", "idle")
        /\ worker' = [worker EXCEPT !.pc = "test", !.session = main.session]
     \/ MayFail /\ MainGoes("spawn", "failed") /\ UNCHANGED worker
  /\ UNCHANGED <<isRunning, checking, pipe, spc, service, past>>

(* The catch block of start(). *)
StartFails ==
  /\ MainGoes("failed", "idle")
  /\ isRunning' = FALSE
  /\ UNCHANGED <<checking, pipe, worker, spc, service, past>>

(* ~Fingerprint(): stop, join, release the device and close the connection, *)
(* upon which fprintd frees it in any case.  No other thread is in stop():  *)
(* AuthCoordinator!LateStopHarmless shows that the program waits for that.  *)
DeleteBegins ==
  /\ MainGoes("idle", "djoin") /\ \A t \in Threads \ {Worker} : spc[t] = "idle"
  /\ StopTakes(Main)
  /\ UNCHANGED <<checking, pipe, worker, service>>

DeleteJoins ==
  /\ MainGoes("djoin", "deleted") /\ spc[Main] = "idle" /\ ~WorkerActive
  /\ worker' = [worker EXCEPT !.pc = "none"]
  /\ service' = [bus |-> "none", device |-> "idle", queue |-> <<>>]
  /\ pipe' = "none"
  /\ UNCHANGED <<isRunning, checking, spc, past>>

-----------------------------------------------------------------------------
(* run_worker().  A handler that calls stop() has returned before the       *)
(* worker goes on.                                                          *)

(* The condition of the outer loop, and whether there is a device at all. *)
WorkerTests ==
  /\ WorkerGoes("test", IF ~isRunning THEN "done"
                        ELSE IF service.bus = "none" THEN "error" ELSE "vstart")
  /\ UNCHANGED <<isRunning, checking, pipe, main, spc, service, past>>

Mut_Kept(queue) == <<>>
(* What is received and not dispatched stays queued over a VerifyStart. *)
Kept(queue) == [k \in DOMAIN queue |-> [queue[k] EXCEPT !.fresh = FALSE]]

(* External: the sensor begins to scan. *)
Scanning == [service EXCEPT !.device = "scanning", !.queue = Kept(@)]

(* VerifyStart, which waits for the service's reply.  A call that fails     *)
(* because the reply is late may have started the sensor all the same.      *)
WorkerVerifyStart ==
  /\ \/ /\ WorkerGoes("vstart", "mark") /\ service.bus = "ok"
        /\ service' = Scanning
        /\ past' = [past EXCEPT !.open = @ + 1]
     \/ /\ WorkerGoes("vstart", "error")
        /\ \/ (service.bus = "dead" \/ MayFail) /\ UNCHANGED service
           \/ service.bus = "ok" /\ MayFail /\ service' = Scanning
        /\ past' = [past EXCEPT !.broken = TRUE]
  /\ UNCHANGED <<isRunning, checking, pipe, main, spc>>

(* check_in_progress_ is set only now; on_loop follows. *)
WorkerMarks ==
  /\ WorkerGoes("mark", "running")
  /\ checking' = TRUE
  /\ UNCHANGED <<isRunning, pipe, main, spc, service, past>>

Mut_IfRunning == "checking"
(* The condition of the inner loop loads one flag, then the other. *)
IfRunning == IF isRunning THEN "checking" ELSE "vstop"

WorkerLoadsRunning ==
  /\ WorkerGoes("running", IfRunning)
  /\ UNCHANGED <<isRunning, checking, pipe, main, spc, service, past>>

WorkerLoadsChecking ==
  /\ WorkerGoes("checking", IF checking THEN "process" ELSE "vstop")
  /\ UNCHANGED <<isRunning, checking, pipe, main, spc, service, past>>

(* sd_bus_process: dispatch the oldest signal, or find none and wait up to  *)
(* 50 ms for the pipe, or fail and leave the inner loop.                    *)
WorkerProcesses ==
  /\ \/ /\ worker.pc = "process" /\ service.bus = "ok" /\ service.queue # <<>>
        /\ worker' = [worker EXCEPT !.pc = "signal", !.sig = Head(service.queue)]
        /\ service' = [service EXCEPT !.queue = Tail(@)]
     \/ /\ WorkerGoes("process", "running")
        /\ service.bus = "ok" /\ service.queue = <<>>
        /\ UNCHANGED service
     \/ /\ WorkerGoes("process", "vstop") /\ service.bus = "dead"
        /\ UNCHANGED service
  /\ UNCHANGED <<isRunning, checking, pipe, main, spc, past>>

(* A handler of the worker returns without or after a call of stop(). *)
HandlerMayStop ==
  StopTakes(Worker) \/ UNCHANGED <<isRunning, spc, past>>

(* fprint_signal_cb: on_finish or on_error; both may call stop(). *)
WorkerReports ==
  /\ WorkerGoes("signal", "settle")
  /\ HandlerMayStop
  /\ UNCHANGED <<checking, pipe, main, service>>

Mut_IsLast(sig) == TRUE
(* The argument done of the signal. *)
IsLast(sig) == sig.done

(* fprint_signal_cb after the handler: the last signal ends the check, with *)
(* on_end unless a stop() was quicker.                                      *)
WorkerSettles ==
  /\ worker.pc = "settle" /\ spc[Worker] = "idle"
  /\ checking' = (checking /\ ~IsLast(worker.sig))
  /\ Ended(IsLast(worker.sig))
  /\ worker' = [worker EXCEPT !.pc = "running", !.sig = NoSignal]
  /\ UNCHANGED <<isRunning, pipe, main, spc, service>>

Mut_Idled == IF service.bus = "ok" /\ isRunning THEN "idle" ELSE service.device
Idled == IF service.bus = "ok" THEN "idle" ELSE service.device

(* VerifyStop and the pause of 100 ms.  What was received stays queued.     *)
(* Nobody looks at the result, so a call that fails leaves the sensor on.   *)
WorkerVerifyStop ==
  /\ WorkerGoes("vstop", "test")
  /\ \/ service' = [service EXCEPT !.device = Idled] /\ UNCHANGED past
     \/ /\ service.bus = "ok" /\ MayFail
        /\ past' = [past EXCEPT !.broken = TRUE]
        /\ UNCHANGED service
  /\ UNCHANGED <<isRunning, checking, pipe, main, spc>>

(* on_error for a missing device or a failed VerifyStart, then the break    *)
(* that leaves is_running_ as it is.                                        *)
WorkerReportsError ==
  /\ WorkerGoes("error", "break")
  /\ HandlerMayStop
  /\ UNCHANGED <<checking, pipe, main, service>>

WorkerBreaks ==
  /\ WorkerGoes("break", "done") /\ spc[Worker] = "idle"
  /\ UNCHANGED <<isRunning, checking, pipe, main, spc, service, past>>

-----------------------------------------------------------------------------
WorkerStep ==
  \/ WorkerTests \/ WorkerVerifyStart \/ WorkerMarks
  \/ WorkerLoadsRunning \/ WorkerLoadsChecking \/ WorkerProcesses
  \/ WorkerReports \/ WorkerSettles \/ WorkerVerifyStop
  \/ WorkerReportsError \/ WorkerBreaks

MainStep ==
  \/ StartJoins \/ StartDrains \/ StartClaims \/ StartClears
  \/ StartSpawns \/ StartFails \/ DeleteJoins

StopStep(t) == StopWrites(t) \/ StopEndsCheck(t)

Done == main.pc = "deleted" /\ UNCHANGED vars

Next ==
  \/ WorkerStep \/ StartBegins \/ DeleteBegins \/ MainStep
  \/ \E t \in Threads \ {Worker} : StopCalled(t)
  \/ \E t \in Threads : StopStep(t)
  \/ \E result \in {"match", "other"}, done \in BOOLEAN : Emit(result, done)
  \/ BusDies
  \/ Done

Spec == Init /\ [][Next]_vars

(* Threads run and bus calls return.  Nobody is obliged to call anything,   *)
(* and no finger need ever touch the sensor.                                *)
Fairness ==
  /\ WF_vars(WorkerStep)
  /\ WF_vars(MainStep)
  /\ \A t \in Threads : WF_vars(StopStep(t))

FairSpec == Spec /\ Fairness

-----------------------------------------------------------------------------
(***************************************************************************)
(* Properties.                                                             *)
(***************************************************************************)

(* The values of the state of the main thread and of the worker, of the     *)
(* service and of the history.                                              *)
MainStates ==
  [pc : {"idle", "join", "drain", "claim", "clear", "spawn", "failed", "djoin",
         "deleted"},
   session : 0 .. MaxSessions, late : BOOLEAN]
WorkerStates ==
  [pc : {"none", "test", "vstart", "mark", "running", "checking", "process",
         "signal", "settle", "vstop", "error", "break", "done"},
   session : 0 .. MaxSessions, sig : Signals \cup {NoSignal}]
Services ==
  [bus : {"none", "ok", "dead"}, device : {"idle", "scanning", "finished"},
   queue : Seq(Signals)]
Histories == [open : Nat, cut : SUBSET (1 .. MaxSessions), broken : BOOLEAN]

(* Type invariant of the object, its threads and the service. *)
TypeOK ==
  /\ isRunning \in BOOLEAN /\ checking \in BOOLEAN
  /\ pipe \in {"none", "empty", "full"}
  /\ main \in MainStates
  /\ worker \in WorkerStates
  /\ spc \in [Threads -> {"idle", "write", "check"}]
  /\ service \in Services
  /\ past \in Histories

(* on_end is called at most once for a check, although stop() in any number *)
(* of threads, the handlers' own stop() and the last signal race to end it. *)
EndOncePerCheck == past.open >= (IF checking THEN 1 ELSE 0)

(* fprintd is not left scanning: whenever no worker is active, the sensor   *)
(* is idle, wherever the worker was when it was stopped, unless a bus call  *)
(* has failed: run_worker() neither repeats a VerifyStop nor makes one      *)
(* after a VerifyStart whose reply did not come.                            *)
DeviceLeftIdle == ~WorkerActive /\ ~past.broken => service.device = "idle"

(* Unless a start() overtook a stop(), the select() of a running session    *)
(* sleeps: no byte of an earlier stop() is left in the pipe.                *)
SelectSleeps == ~main.late /\ isRunning => pipe # "full"

(* As long as no session has been stopped and no start() overtook a stop(), *)
(* a signal never counts for a later check than the one it was sent in,     *)
(* neither as a match nor as its end: a check is over only when its last    *)
(* signal was dispatched.  (What a stopped session leaves in the queue the  *)
(* next one does dispatch.)                                                 *)
SignalOfThisCheck ==
  [][worker.pc = "process" /\ worker'.pc = "signal" /\ past.cut = {} /\ ~main.late
       => worker'.sig.fresh]_vars

(* A match that fprintd reports during a check reaches on_finish, unless    *)
(* the session is stopped or a bus call fails: also if the check is cut     *)
(* short by a stop() that a start() overtook, since the queue outlives it.  *)
MatchReported ==
  (isRunning /\ \E k \in DOMAIN service.queue :
                  service.queue[k].result = "match" /\ service.queue[k].fresh)
    ~> \/ worker.pc = "settle" /\ worker.sig.result = "match"
       \/ ~isRunning \/ past.broken

(* The refinement mapping: what the owner of a verifier sees of the object. *)
Thread ==
  CASE worker.pc \in {"none", "done"} -> worker.pc
    [] worker.pc = "signal" /\ worker.sig.result = "match" -> "handler"
    [] OTHER -> "busy"

Owner ==
  CASE main.pc \in {"drain", "claim"} -> "claim"
    [] main.pc \in {"clear", "spawn", "failed"} -> "launch"
    [] main.pc = "djoin" -> "delete"
    [] OTHER -> main.pc

View == [flag |-> isRunning, thread |-> Thread, owner |-> Owner]

V == INSTANCE Verifier WITH OneShot <- FALSE, v <- View

(* Fingerprint implements the verifier that the coordinator builds on: a    *)
(* stopped worker ends even if no finger ever touches the sensor, nothing   *)
(* is launched over a living worker, and only start() raises the flag.      *)
IsVerifier == V!FairSpec
=============================================================================
