-------------------------- MODULE FingerprintProofs --------------------------
(***************************************************************************)
(* Proofs about module Fingerprint, for any number of threads that call    *)
(* stop(), any number of sessions and a queue of any length.               *)
(*                                                                         *)
(* The flag, check_in_progress_, the pipe and the queue of signals are     *)
(* shared without a lock.  What holds them together is that start() joins  *)
(* before it claims, that check_in_progress_ is set only by a VerifyStart  *)
(* that succeeded and cleared only by exchange, and that a check which     *)
(* nobody stops is left only when its last signal was dispatched.  The     *)
(* inductive invariant IInv states these, one conjunct each.               *)
(***************************************************************************)
EXTENDS Fingerprint, TLAPS

(* start() joins before it raises the flag: while it prepares a session     *)
(* there is no worker, and without a worker an idle object is not running.  *)
Sessions ==
  /\ main.pc \in {"join", "drain", "claim", "djoin", "deleted"} => ~isRunning
  /\ main.pc \in {"join", "drain", "claim"} => main.session < MaxSessions
  /\ isRunning => main.session >= 1
  /\ main.pc \in {"drain", "claim", "clear", "spawn", "failed", "deleted"}
       => worker.pc = "none"
  /\ main.pc = "idle" /\ worker.pc = "none" => ~isRunning

(* Every check that may still be ended by an exchange is an open one: the   *)
(* one in progress, and the one whose VerifyStart returned but which is not *)
(* marked yet.  Both exist when a stop() of the session before was late.    *)
Counted ==
  /\ checking \/ worker.pc = "mark" => past.open >= 1
  /\ checking /\ worker.pc = "mark" => past.open >= 2

(* Where the worker has no VerifyStart without its VerifyStop. *)
BetweenChecks == {"none", "test", "vstart", "error", "break", "done"}

(* Only a connected service scans or has signals for us and, as long as no  *)
(* bus call has failed, only during a check.                                *)
Scans ==
  /\ service.bus # "ok" => service.device = "idle" /\ service.queue = <<>>
  /\ worker.pc \in BetweenChecks /\ ~past.broken => service.device = "idle"

(* If no start() overtook a stop(), then once start() has drained the pipe  *)
(* nobody is about to write to it and nothing is in it, until a stop().     *)
Drains ==
  ~main.late /\ (isRunning \/ main.pc = "claim")
    => pipe # "full" /\ \A t \in Threads : spc[t] # "write"

(* The check is over: nothing waits for dispatch and nothing can follow. *)
Over == service.queue = <<>> /\ service.device # "scanning"

(* As long as no session was stopped and no start() overtook a stop(), a    *)
(* check is left only when it is over, so the queue holds signals of this   *)
(* check alone, and the one that is the last of the check ends the queue.   *)
(* A VerifyStart that fails may leave the sensor on, but then no check      *)
(* follows: the flag stays up and start() refuses.                          *)
Fresh ==
  past.cut = {} /\ ~main.late =>
    /\ worker.pc # "none" \/ main.pc \in {"clear", "spawn"} => isRunning
    /\ isRunning => \A t \in Threads : spc[t] = "idle"
    /\ main.pc = "join" => worker.pc = "none"
    /\ worker.pc \in {"none", "test", "vstart", "vstop"} => Over
    /\ worker.pc \in {"running", "checking"} /\ ~checking => Over
    /\ worker.pc \in {"process", "signal", "settle"} => checking
    /\ worker.pc \in {"signal", "settle"} /\ worker.sig.done => Over
    /\ \A k \in DOMAIN service.queue :
         /\ service.queue[k].fresh
         /\ service.queue[k].done => k = Len(service.queue) /\ service.device # "scanning"

(* The inductive invariant. *)
IInv == TypeOK /\ Sessions /\ Counted /\ Scans /\ Drains /\ Fresh

-----------------------------------------------------------------------------
(* Sending, dispatching and keeping signals over a VerifyStart leave a      *)
(* queue of signals.                                                        *)
LEMMA QueueTyped ==
  ASSUME NEW q \in Seq(Signals)
  PROVE  /\ Kept(q) \in Seq(Signals)
         /\ q # <<>> => Head(q) \in Signals /\ Tail(q) \in Seq(Signals)
         /\ \A s \in Signals : Append(q, s) \in Seq(Signals)
<1>1. \A s \in Signals : [s EXCEPT !.fresh = FALSE] \in Signals
  BY DEF Signals
<1>2. Kept(q) \in Seq(Signals)
  BY <1>1 DEF Kept
<1> QED BY <1>2

(* The updates of the service's state keep its type. *)
LEMMA ServiceTyped ==
  ASSUME NEW s \in Services, NEW q \in Seq(Signals),
         NEW d \in {"idle", "scanning", "finished"}, NEW b \in {"none", "ok", "dead"}
  PROVE  /\ [s EXCEPT !.queue = q, !.device = d] \in Services
         /\ [s EXCEPT !.device = d, !.queue = q] \in Services
         /\ [s EXCEPT !.bus = b, !.queue = q] \in Services
         /\ [s EXCEPT !.queue = q] \in Services
         /\ [s EXCEPT !.device = d] \in Services
BY DEF Services

(* Every step of Fingerprint preserves the types, the order of start()'s    *)
(* steps and the count of open checks.                                      *)
LEMMA TypedStep ==
  ASSUME TypeOK, Sessions, Counted, [Next]_vars
  PROVE  TypeOK' /\ Sessions' /\ Counted'
<1> USE BoundsAssumption, ThreadsAssumption
    DEF TypeOK, Sessions, WorkerGoes, MainGoes, WorkerActive
<1>1. \A t \in Threads : StopTakes(t) =>
        /\ isRunning' = FALSE /\ spc' \in [Threads -> {"idle", "write", "check"}]
        /\ past' \in Histories /\ past'.open = past.open
  <2> SUFFICES ASSUME NEW t \in Threads, StopTakes(t)
               PROVE  /\ isRunning' = FALSE
                      /\ spc' \in [Threads -> {"idle", "write", "check"}]
                      /\ past' \in Histories /\ past'.open = past.open
    OBVIOUS
  <2>1. isRunning' = FALSE /\ spc' \in [Threads -> {"idle", "write", "check"}]
    BY DEF StopTakes
  <2>2. past.cut \cup (IF isRunning THEN {main.session} ELSE {}) \in SUBSET (1 .. MaxSessions)
    BY DEF Histories, MainStates
  <2>3. past' \in Histories /\ past'.open = past.open
    BY <2>2 DEF StopTakes, Histories
  <2> QED BY <2>1, <2>3
<1>2. \A b \in BOOLEAN : Ended(b) =>
        /\ past' \in Histories
        /\ past'.open = IF b /\ checking THEN past.open - 1 ELSE past.open
  BY DEF Ended, Histories, Counted
<1>3. CASE WorkerTests
  BY <1>3 DEF WorkerTests, WorkerStates, Counted
<1>4. CASE WorkerVerifyStart
  <2>1. worker' \in WorkerStates /\ worker'.pc \in {"mark", "error"} /\ worker.pc = "vstart"
    BY <1>4 DEF WorkerVerifyStart, WorkerStates
  <2>2. service' \in Services
    <3>1. service.queue \in Seq(Signals)
      BY DEF Services
    <3>2. Scanning \in Services
      BY <3>1, QueueTyped, ServiceTyped DEF Scanning
    <3> QED BY <1>4, <3>2 DEF WorkerVerifyStart
  <2>3. \/ worker'.pc = "mark" /\ past' = [past EXCEPT !.open = @ + 1]
        \/ worker'.pc = "error" /\ past' = [past EXCEPT !.broken = TRUE]
    BY <1>4 DEF WorkerVerifyStart, WorkerStates
  <2>4. past' \in Histories /\ Counted'
    <3>1. past.open \in Nat /\ checking' = checking
      BY <1>4 DEF WorkerVerifyStart, Histories
    <3>2. past' \in Histories
      <4>1. [past EXCEPT !.open = @ + 1] \in Histories
        BY DEF Histories
      <4>2. [past EXCEPT !.broken = TRUE] \in Histories
        BY DEF Histories
      <4> QED BY <2>3, <4>1, <4>2
    <3>3. \/ worker'.pc = "mark" /\ past'.open = past.open + 1
          \/ worker'.pc = "error" /\ past'.open = past.open
      BY <2>3 DEF Histories
    <3>4. Counted'
      BY <2>1, <3>1, <3>3 DEF Counted
    <3> QED BY <3>2, <3>4
  <2> QED BY <1>4, <2>1, <2>2, <2>4 DEF WorkerVerifyStart
<1>5. CASE WorkerMarks
  BY <1>5 DEF WorkerMarks, WorkerStates, Counted, Histories
<1>6. CASE WorkerLoadsRunning \/ WorkerLoadsChecking
  BY <1>6
  DEF WorkerLoadsRunning, IfRunning, WorkerLoadsChecking, WorkerStates, Counted
<1>7. CASE WorkerProcesses
  <2>1. service.queue \in Seq(Signals)
    BY DEF Services
  <2>2. service' \in Services
    <3>1. service.queue # <<>> => [service EXCEPT !.queue = Tail(service.queue)] \in Services
      BY <2>1, QueueTyped, ServiceTyped
    <3> QED BY <1>7, <3>1 DEF WorkerProcesses
  <2>3. worker' \in WorkerStates /\ worker.pc = "process"
        /\ worker'.pc \in {"signal", "running", "vstop"}
    <3>1. CASE /\ service.queue # <<>>
               /\ worker' = [worker EXCEPT !.pc = "signal", !.sig = Head(service.queue)]
      BY <1>7, <2>1, <3>1, QueueTyped DEF WorkerProcesses, WorkerGoes, WorkerStates
    <3>2. CASE worker' \in {[worker EXCEPT !.pc = "running"], [worker EXCEPT !.pc = "vstop"]}
      BY <1>7, <3>2 DEF WorkerProcesses, WorkerGoes, WorkerStates
    <3> QED BY <1>7, <3>1, <3>2 DEF WorkerProcesses, WorkerGoes
  <2> QED BY <1>7, <2>2, <2>3 DEF WorkerProcesses, Counted
<1>8. CASE WorkerReports \/ WorkerReportsError
  <2>1. worker' \in WorkerStates /\ worker.pc \in {"signal", "error"}
        /\ worker'.pc \in {"settle", "break"}
    BY <1>8 DEF WorkerReports, WorkerReportsError, WorkerStates
  <2>2. UNCHANGED <<checking, pipe, main, service>>
    BY <1>8 DEF WorkerReports, WorkerReportsError
  <2>3. CASE StopTakes(Worker)
    BY <1>1, <2>1, <2>2, <2>3 DEF Threads, Counted
  <2>4. CASE UNCHANGED <<isRunning, spc, past>>
    BY <2>1, <2>2, <2>4 DEF Counted
  <2> QED BY <1>8, <2>3, <2>4 DEF WorkerReports, WorkerReportsError, HandlerMayStop
<1>9. CASE WorkerSettles
  <2>1. worker' \in WorkerStates /\ worker.pc = "settle" /\ worker'.pc = "running"
    BY <1>9 DEF WorkerSettles, WorkerStates
  <2>2. checking' \in BOOLEAN
    BY <1>9 DEF WorkerSettles
  <2>3. worker.sig.done \in BOOLEAN
    <3>1. worker.sig \in Signals \cup {NoSignal}
      BY DEF WorkerStates
    <3>2. CASE worker.sig \in Signals
      BY <3>2 DEF Signals
    <3>3. CASE worker.sig = NoSignal
      BY <3>3 DEF NoSignal
    <3> QED BY <3>1, <3>2, <3>3
  <2>4. past' \in Histories
        /\ past'.open = IF worker.sig.done /\ checking THEN past.open - 1 ELSE past.open
    BY <1>2, <1>9, <2>3 DEF WorkerSettles, IsLast
  <2>5. Counted'
    BY <1>9, <2>1, <2>3, <2>4 DEF WorkerSettles, Counted, Histories, IsLast
  <2> QED BY <1>9, <2>1, <2>2, <2>4, <2>5 DEF WorkerSettles
<1>10. CASE WorkerVerifyStop
  <2>1. worker' \in WorkerStates /\ worker.pc = "vstop" /\ worker'.pc = "test"
    BY <1>10 DEF WorkerVerifyStop, WorkerStates
  <2>2. service' \in Services
    BY <1>10 DEF WorkerVerifyStop, Services, Idled
  <2>3. past' \in Histories /\ past'.open = past.open
    BY <1>10 DEF WorkerVerifyStop, Histories
  <2> QED BY <1>10, <2>1, <2>2, <2>3 DEF WorkerVerifyStop, Counted
<1>11. CASE WorkerBreaks
  BY <1>11 DEF WorkerBreaks, WorkerStates, Counted
<1>12. CASE StartBegins
  BY <1>12 DEF StartBegins, MainStates, Counted
<1>13. CASE StartJoins
  BY <1>13 DEF StartJoins, MainStates, WorkerStates, Counted
<1>14. CASE StartDrains
  <2>1. Overtaken \in BOOLEAN
    BY DEF Overtaken, MainStates
  <2> QED BY <1>14, <2>1 DEF StartDrains, Drained, MainStates, Counted
<1>15. CASE StartClaims
  <2>1. Overtaken \in BOOLEAN
    BY DEF Overtaken, MainStates
  <2> QED BY <1>15, <2>1 DEF StartClaims, MainStates, Counted
<1>16. CASE StartClears
  BY <1>16 DEF StartClears, MainStates, Counted, Histories
<1>17. CASE StartSpawns
  <2>1. main' \in MainStates /\ worker' \in WorkerStates
    <3>1. main' \in MainStates /\ main.session \in 0 .. MaxSessions
      BY <1>17 DEF StartSpawns, MainStates
    <3>2. \/ worker' = worker
          \/ worker' = [worker EXCEPT !.pc = "test", !.session = main.session]
      BY <1>17 DEF StartSpawns
    <3>3. [worker EXCEPT !.pc = "test", !.session = main.session] \in WorkerStates
      BY <3>1 DEF WorkerStates
    <3> QED BY <3>1, <3>2, <3>3
  <2>2. /\ main.pc = "spawn" /\ main'.session = main.session
        /\ \/ main'.pc = "idle" /\ worker'.pc = "test"
           \/ main'.pc = "failed" /\ worker' = worker
    BY <1>17 DEF StartSpawns, MainStates, WorkerStates
  <2>3. UNCHANGED <<isRunning, checking, pipe, spc, service, past>>
    BY <1>17 DEF StartSpawns
  <2> QED BY <2>1, <2>2, <2>3 DEF Counted
<1>18. CASE StartFails
  BY <1>18 DEF StartFails, MainStates, Counted
<1>19. CASE DeleteBegins
  BY <1>1, <1>19 DEF DeleteBegins, Threads, MainStates, Counted
<1>20. CASE DeleteJoins
  <2>1. service' \in Services
    <3>1. <<>> \in Seq(Signals)
      OBVIOUS
    <3> QED BY <1>20, <3>1 DEF DeleteJoins, Services
  <2> QED BY <1>20, <2>1 DEF DeleteJoins, MainStates, WorkerStates, Counted
<1>21. ASSUME NEW t \in Threads, StopCalled(t)
       PROVE  TypeOK' /\ Sessions' /\ Counted'
  BY <1>1, <1>21 DEF StopCalled, Counted
<1>22. ASSUME NEW t \in Threads, StopWrites(t)
       PROVE  TypeOK' /\ Sessions' /\ Counted'
  BY <1>22 DEF StopWrites, Counted
<1>23. ASSUME NEW t \in Threads, StopEndsCheck(t)
       PROVE  TypeOK' /\ Sessions' /\ Counted'
  <2>1. past' \in Histories /\ past'.open = IF checking THEN past.open - 1 ELSE past.open
    BY <1>2, <1>23 DEF StopEndsCheck
  <2>2. checking' = FALSE /\ UNCHANGED <<isRunning, pipe, main, worker, service>>
        /\ spc' \in [Threads -> {"idle", "write", "check"}]
    BY <1>23 DEF StopEndsCheck
  <2>3. past.open \in Nat
    BY DEF Histories
  <2>4. Counted'
    BY <2>1, <2>2, <2>3 DEF Counted
  <2>5. TypeOK' /\ Sessions'
    BY <2>1, <2>2
  <2> QED BY <2>4, <2>5
<1>24. ASSUME NEW result \in {"match", "other"}, NEW done \in BOOLEAN, Emit(result, done)
       PROVE  TypeOK' /\ Sessions' /\ Counted'
  <2>1. [result |-> result, done |-> done, fresh |-> TRUE] \in Signals
    BY DEF Signals
  <2>2. service.queue \in Seq(Signals)
    BY DEF Services
  <2>3. service' \in Services
    BY <1>24, <2>1, <2>2, QueueTyped, ServiceTyped DEF Emit
  <2> QED BY <1>24, <2>3 DEF Emit, Counted
<1>25. CASE BusDies
  <2>1. service' \in Services
    BY <1>25 DEF BusDies, Services
  <2>2. past' \in Histories /\ past'.open = past.open
    BY <1>25 DEF BusDies, Histories
  <2> QED BY <1>25, <2>1, <2>2 DEF BusDies, Counted
<1>26. CASE UNCHANGED vars
  BY <1>26 DEF vars, Counted
<1> QED
  BY <1>3, <1>4, <1>5, <1>6, <1>7, <1>8, <1>9, <1>10, <1>11, <1>12, <1>13, <1>14,
     <1>15, <1>16, <1>17, <1>18, <1>19, <1>20, <1>21, <1>22, <1>23, <1>24, <1>25,
     <1>26
  DEF Next, WorkerStep, MainStep, StopStep, Done

(* VerifyStop follows every VerifyStart before the worker ends or begins    *)
(* another check, also when the inner loop is left by a stop().             *)
LEMMA ScansStep ==
  ASSUME TypeOK, Sessions, Scans, [Next]_vars
  PROVE  Scans'
<1> USE DEF TypeOK, Scans, BetweenChecks, WorkerGoes, MainGoes, WorkerActive,
            WorkerStates, Services
<1>1. CASE WorkerTests \/ WorkerMarks \/ WorkerLoadsRunning \/ WorkerLoadsChecking
             \/ WorkerReports \/ WorkerSettles \/ WorkerReportsError \/ WorkerBreaks
  <2>1. service' = service
    BY <1>1
    DEF WorkerTests, WorkerMarks, WorkerLoadsRunning, WorkerLoadsChecking,
        WorkerReports, WorkerSettles, WorkerReportsError, WorkerBreaks
  <2>2. worker'.pc \in BetweenChecks => worker.pc \in BetweenChecks
    <3>1. CASE WorkerTests \/ WorkerReportsError \/ WorkerBreaks
      BY <3>1 DEF WorkerTests, WorkerReportsError, WorkerBreaks
    <3>2. CASE WorkerMarks \/ WorkerLoadsRunning \/ WorkerLoadsChecking
                 \/ WorkerReports \/ WorkerSettles
      <4>1. worker'.pc \in {"running", "checking", "vstop", "process", "settle"}
        BY <3>2 DEF WorkerMarks, WorkerLoadsRunning, IfRunning, WorkerLoadsChecking,
          WorkerReports, WorkerSettles
      <4> QED BY <4>1
    <3> QED BY <1>1, <3>1, <3>2
  <2>3. past'.broken = past.broken
    BY <1>1
    DEF WorkerTests, WorkerMarks, WorkerLoadsRunning, WorkerLoadsChecking, WorkerReports,
        WorkerSettles, WorkerReportsError, WorkerBreaks, HandlerMayStop, StopTakes, Ended,
        Histories
  <2> QED BY <2>1, <2>2, <2>3
<1>2. CASE WorkerVerifyStart
  <2>1. CASE service' = Scanning /\ service.bus = "ok" /\ worker'.pc = "mark"
    BY <2>1 DEF Scanning
  <2>2. CASE service' \in {service, Scanning} /\ past'.broken
             /\ (service' = service \/ service.bus = "ok")
    BY <2>2 DEF Scanning
  <2> QED BY <1>2, <2>1, <2>2 DEF WorkerVerifyStart, Histories
<1>3. CASE WorkerProcesses
  <2>1. /\ worker'.pc \in {"signal", "running", "vstop"}
        /\ service'.bus = service.bus /\ service'.device = service.device
        /\ service' = service \/ service.bus = "ok"
    BY <1>3 DEF WorkerProcesses
  <2> QED BY <2>1
<1>4. CASE WorkerVerifyStop
  <2>1. \/ service'.device = Idled /\ past' = past
        \/ service' = service /\ past'.broken
    BY <1>4 DEF WorkerVerifyStop, Histories
  <2>2. service'.bus = service.bus /\ service'.queue = service.queue
    BY <1>4 DEF WorkerVerifyStop
  <2> QED BY <2>1, <2>2 DEF Idled
<1>5. CASE StartJoins \/ StartSpawns \/ DeleteJoins
  BY <1>5 DEF StartJoins, StartSpawns, DeleteJoins, Sessions
<1>6. CASE \/ StartBegins \/ StartDrains \/ StartClaims \/ StartClears \/ StartFails
           \/ DeleteBegins \/ \E t \in Threads : StopCalled(t) \/ StopStep(t)
  <2>1. UNCHANGED <<worker, service>> /\ past'.broken = past.broken
    BY <1>6
    DEF StartBegins, StartDrains, StartClaims, StartClears, StartFails, DeleteBegins,
        StopCalled, StopStep, StopWrites, StopEndsCheck, StopTakes, Ended, Histories
  <2> QED BY <2>1
<1>7. ASSUME NEW result \in {"match", "other"}, NEW done \in BOOLEAN, Emit(result, done)
      PROVE  Scans'
  BY <1>7 DEF Emit
<1>8. CASE BusDies \/ UNCHANGED vars
  BY <1>8 DEF BusDies, vars
<1> QED
  BY <1>1, <1>2, <1>3, <1>4, <1>5, <1>6, <1>7, <1>8
  DEF Next, WorkerStep, MainStep, Done

(* A stop() that writes to the pipe has lowered the flag before, and        *)
(* start() drains the pipe before it raises the flag again.                 *)
LEMMA DrainsStep ==
  ASSUME TypeOK, Sessions, Drains, [Next]_vars
  PROVE  Drains'
<1> USE DEF TypeOK, Drains
<1>1. ASSUME NEW t \in Threads, StopTakes(t), UNCHANGED <<pipe, main.late>>,
             main.pc' = "claim" => main.pc = "claim"
      PROVE  Drains'
  BY <1>1 DEF StopTakes, Sessions
<1>2. CASE WorkerTests \/ WorkerVerifyStart \/ WorkerMarks \/ WorkerLoadsRunning
             \/ WorkerLoadsChecking \/ WorkerProcesses \/ WorkerSettles
             \/ WorkerVerifyStop \/ WorkerBreaks
  BY <1>2
  DEF WorkerTests, WorkerVerifyStart, WorkerMarks, WorkerLoadsRunning,
      WorkerLoadsChecking, WorkerProcesses, WorkerSettles, WorkerVerifyStop,
      WorkerBreaks
<1>3. CASE WorkerReports \/ WorkerReportsError
  BY <1>1, <1>3 DEF WorkerReports, WorkerReportsError, HandlerMayStop, Threads
<1>4. CASE StartBegins \/ StartJoins \/ StartClears \/ StartSpawns \/ StartFails
             \/ DeleteJoins
  BY <1>4
  DEF StartBegins, StartJoins, StartClears, StartSpawns, StartFails, DeleteJoins,
      MainGoes, MainStates
<1>5. CASE StartDrains
  BY <1>5 DEF StartDrains, Drained, Overtaken, MainStates
<1>6. CASE StartClaims
  BY <1>6 DEF StartClaims, Overtaken, MainStates
<1>7. CASE DeleteBegins
  <2>1. main'.late = main.late /\ main'.pc = "djoin"
    BY <1>7 DEF DeleteBegins, MainGoes, MainStates
  <2> QED BY <1>1, <1>7, <2>1 DEF DeleteBegins, Threads
<1>8. ASSUME NEW t \in Threads, StopCalled(t)
      PROVE  Drains'
  BY <1>1, <1>8 DEF StopCalled
<1>9. ASSUME NEW t \in Threads, StopStep(t)
      PROVE  Drains'
  BY <1>9 DEF StopStep, StopWrites, StopEndsCheck
<1>10. CASE \/ \E result \in {"match", "other"}, done \in BOOLEAN : Emit(result, done)
            \/ BusDies \/ UNCHANGED vars
  BY <1>10 DEF Emit, BusDies, vars
<1> QED
  BY <1>2, <1>3, <1>4, <1>5, <1>6, <1>7, <1>8, <1>9, <1>10
  DEF Next, WorkerStep, MainStep, Done

(* What is left of a queue when its oldest signal was dispatched. *)
LEMMA TailFields ==
  ASSUME NEW q \in Seq(Signals), q # <<>>
  PROVE  /\ DOMAIN Tail(q) = 1 .. Len(q) - 1
         /\ Len(Tail(q)) = Len(q) - 1
         /\ \A k \in 1 .. Len(q) - 1 : Tail(q)[k] = q[k + 1] /\ k + 1 \in DOMAIN q
         /\ Len(q) = 1 => Tail(q) = <<>>
<1>1. Tail(q) \in Seq(Signals) /\ Len(Tail(q)) = Len(q) - 1
  OBVIOUS
<1>2. DOMAIN Tail(q) = 1 .. Len(q) - 1
  BY <1>1
<1>3. \A k \in 1 .. Len(q) - 1 : Tail(q)[k] = q[k + 1] /\ k + 1 \in DOMAIN q
  OBVIOUS
<1> QED BY <1>1, <1>2, <1>3

(* Every step keeps the signals of different checks apart. *)
LEMMA FreshStep ==
  ASSUME TypeOK, Sessions, Scans, Fresh, [Next]_vars
  PROVE  Fresh'
<1> DEFINE queue == service.queue
<1>1. /\ queue \in Seq(Signals) /\ DOMAIN queue = 1 .. Len(queue) /\ Len(queue) \in Nat
      /\ (queue = <<>>) = (Len(queue) = 0)
  BY DEF TypeOK, Services
<1>2. CASE WorkerTests
  <2>1. /\ worker.pc = "test" /\ worker'.pc \in {"done", "error", "vstart"}
        /\ UNCHANGED <<isRunning, checking, main, spc, service, past>>
    BY <1>2 DEF WorkerTests, WorkerGoes, TypeOK, WorkerStates
  <2> QED BY <2>1 DEF Fresh, BetweenChecks, Over
<1>3. CASE WorkerVerifyStart
  <2>1. /\ worker.pc = "vstart" /\ past'.cut = past.cut
        /\ UNCHANGED <<isRunning, checking, main, spc>>
        /\ \/ worker'.pc \in {"mark", "error"} /\ service'.queue = Kept(queue)
           \/ worker'.pc = "error" /\ service' = service
    BY <1>3
    DEF WorkerVerifyStart, Scanning, WorkerGoes, TypeOK, WorkerStates, Services, Histories
  <2>2. queue = <<>> => DOMAIN Kept(queue) = {}
    BY DEF Kept
  <2> QED BY <2>1, <2>2 DEF Fresh, BetweenChecks, Over
<1>4. CASE WorkerMarks
  <2>1. /\ worker.pc = "mark" /\ worker'.pc = "running" /\ checking' = TRUE
        /\ UNCHANGED <<isRunning, main, spc, service, past>>
    BY <1>4 DEF WorkerMarks, WorkerGoes, TypeOK, WorkerStates
  <2> QED BY <2>1 DEF Fresh, BetweenChecks, Over
<1>5. CASE WorkerLoadsRunning \/ WorkerLoadsChecking
  <2>1. /\ UNCHANGED <<isRunning, checking, main, spc, service, past>>
        /\ \/ worker.pc = "running" /\ worker'.pc = "checking"
           \/ worker.pc = "running" /\ worker'.pc = "vstop" /\ ~isRunning
           \/ worker.pc = "checking" /\ worker'.pc = "process" /\ checking
           \/ worker.pc = "checking" /\ worker'.pc = "vstop" /\ ~checking
    BY <1>5 DEF WorkerLoadsRunning, IfRunning, WorkerLoadsChecking, WorkerGoes,
                TypeOK, WorkerStates
  <2> QED BY <2>1 DEF Fresh, BetweenChecks, Over
<1>6. CASE WorkerProcesses
  <2>1. worker.pc = "process" /\ UNCHANGED <<isRunning, checking, main, spc, past>>
    BY <1>6 DEF WorkerProcesses, WorkerGoes
  <2>2. CASE worker'.pc = "signal"
    <3>1. /\ queue # <<>> /\ worker'.sig = queue[1]
          /\ service'.queue = Tail(queue) /\ service'.device = service.device
      <4>1. /\ queue # <<>> /\ worker' = [worker EXCEPT !.pc = "signal", !.sig = Head(queue)]
            /\ service' = [service EXCEPT !.queue = Tail(queue)]
        BY <1>6, <2>2 DEF WorkerProcesses, WorkerGoes, TypeOK, WorkerStates
      <4>2. Head(queue) = queue[1]
        BY <1>1, <4>1
      <4>3. worker'.sig = Head(queue)
        BY <4>1 DEF TypeOK, WorkerStates
      <4>4. service'.queue = Tail(queue) /\ service'.device = service.device
        BY <4>1 DEF TypeOK, Services
      <4> QED BY <4>1, <4>2, <4>3, <4>4
    <3>2. /\ DOMAIN Tail(queue) = 1 .. Len(queue) - 1
          /\ Len(Tail(queue)) = Len(queue) - 1
          /\ \A k \in 1 .. Len(queue) - 1 :
               Tail(queue)[k] = queue[k + 1] /\ k + 1 \in DOMAIN queue
          /\ Len(queue) = 1 => Tail(queue) = <<>>
      BY <1>1, <3>1, TailFields
    <3> HIDE DEF queue
    <3>3. ASSUME NEW k \in DOMAIN service'.queue, past.cut = {}, ~main.late
          PROVE  /\ service'.queue[k].fresh
                 /\ service'.queue[k].done =>
                      k = Len(service'.queue) /\ service'.device # "scanning"
      <4>1. /\ k \in 1 .. Len(queue) - 1 /\ service'.queue[k] = queue[k + 1]
            /\ k + 1 \in DOMAIN queue /\ Len(service'.queue) = Len(queue) - 1
        BY <3>1, <3>2, <3>3
      <4>2. /\ queue[k + 1].fresh
            /\ queue[k + 1].done => k + 1 = Len(queue) /\ service.device # "scanning"
        BY <3>3, <4>1 DEF Fresh, queue
      <4>3. Len(queue) \in Nat /\ k \in Int
        BY <1>1, <4>1 DEF queue
      <4> QED BY <3>1, <4>1, <4>2, <4>3
    <3>4. past.cut = {} /\ ~main.late /\ worker'.sig.done => Over'
      BY <1>1, <3>1, <3>2 DEF Fresh, Over, queue
    <3> QED BY <2>1, <2>2, <3>3, <3>4 DEF Fresh, BetweenChecks
  <2>3. CASE worker'.pc = "running"
    <3>1. service' = service
      BY <1>6, <2>3 DEF WorkerProcesses, WorkerGoes, TypeOK, WorkerStates
    <3> QED BY <2>1, <2>3, <3>1 DEF Fresh, BetweenChecks
  <2>4. CASE worker'.pc = "vstop"
    <3>1. service' = service /\ service.bus = "dead"
      BY <1>6, <2>4 DEF WorkerProcesses, WorkerGoes, TypeOK, WorkerStates
    <3> QED BY <2>1, <2>4, <3>1 DEF Fresh, BetweenChecks, Scans, Over
  <2> QED
    BY <1>6, <2>2, <2>3, <2>4 DEF WorkerProcesses, WorkerGoes, TypeOK, WorkerStates
<1>7. CASE WorkerReports \/ WorkerReportsError
  <2>1. /\ worker'.sig = worker.sig /\ UNCHANGED <<checking, main, service>>
        /\ \/ worker.pc = "signal" /\ worker'.pc = "settle"
           \/ worker.pc = "error" /\ worker'.pc = "break"
    BY <1>7 DEF WorkerReports, WorkerReportsError, WorkerGoes, TypeOK, WorkerStates
  <2>2. \/ UNCHANGED <<isRunning, spc, past>>
        \/ isRunning /\ past'.cut # {}
        \/ ~isRunning /\ past'.cut = past.cut
    BY <1>7
    DEF WorkerReports, WorkerReportsError, HandlerMayStop, StopTakes, TypeOK,
        Histories
  <2> QED BY <2>1, <2>2 DEF Fresh, BetweenChecks, Over
<1>8. CASE WorkerSettles
  <2>1. /\ worker.pc = "settle" /\ worker'.pc = "running" /\ past'.cut = past.cut
        /\ checking' = (checking /\ ~worker.sig.done)
        /\ UNCHANGED <<isRunning, main, spc, service>>
    BY <1>8 DEF WorkerSettles, IsLast, Ended, TypeOK, WorkerStates, Histories
  <2> QED BY <2>1 DEF Fresh, BetweenChecks, Over
<1>9. CASE WorkerVerifyStop
  <2>1. /\ worker.pc = "vstop" /\ worker'.pc = "test"
        /\ service'.device \in {Idled, service.device} /\ service'.queue = queue
        /\ past'.cut = past.cut /\ UNCHANGED <<isRunning, checking, main, spc>>
    BY <1>9 DEF WorkerVerifyStop, WorkerGoes, TypeOK, WorkerStates, Services, Histories
  <2> QED BY <2>1 DEF Fresh, BetweenChecks, Over, Idled
<1>10. CASE WorkerBreaks
  <2>1. /\ worker.pc = "break" /\ worker'.pc = "done"
        /\ UNCHANGED <<isRunning, checking, main, spc, service, past>>
    BY <1>10 DEF WorkerBreaks, WorkerGoes, TypeOK, WorkerStates
  <2> QED BY <2>1 DEF Fresh, BetweenChecks, Over
<1>11. CASE StartBegins \/ StartDrains \/ StartFails
  <2>1. /\ \/ /\ main.pc = "idle" /\ main'.pc = "join" /\ isRunning' = isRunning
              /\ worker.pc = "none" \/ ~isRunning
           \/ main.pc = "drain" /\ main'.pc = "claim" /\ isRunning' = isRunning
           \/ main.pc = "failed" /\ main'.pc = "idle" /\ isRunning' = FALSE
        /\ main.late => main'.late
        /\ UNCHANGED <<checking, worker, spc, service, past>>
    BY <1>11 DEF StartBegins, StartDrains, Overtaken, StartFails, MainGoes, TypeOK,
                 MainStates
  <2> QED BY <2>1 DEF Fresh, Over, Sessions
<1>12. CASE StartJoins
  <2>1. /\ main.pc = "join" /\ main'.pc = "drain" /\ main'.late = main.late
        /\ worker.pc \in {"none", "done"} /\ worker'.pc = "none"
        /\ UNCHANGED <<isRunning, checking, spc, service, past>>
    BY <1>12
    DEF StartJoins, MainGoes, WorkerActive, TypeOK, MainStates, WorkerStates
  <2> QED BY <2>1 DEF Fresh, BetweenChecks, Over
<1>13. CASE StartClaims
  <2>1. /\ main.pc = "claim" /\ main'.pc = "clear" /\ isRunning' = TRUE
        /\ ~main'.late => ~main.late /\ \A t \in Threads : spc[t] = "idle"
        /\ UNCHANGED <<checking, worker, spc, service, past>>
    BY <1>13 DEF StartClaims, Overtaken
  <2> QED BY <2>1 DEF Fresh, Over
<1>14. CASE StartClears
  <2>1. /\ main.pc = "clear" /\ main'.pc = "spawn" /\ main'.late = main.late
        /\ worker.pc = "none"
        /\ UNCHANGED <<isRunning, worker, spc, service, past>>
    BY <1>14 DEF StartClears, MainGoes, TypeOK, MainStates, Sessions
  <2> QED BY <2>1 DEF Fresh, BetweenChecks, Over
<1>15. CASE StartSpawns
  <2>1. /\ main.pc = "spawn" /\ main'.late = main.late /\ worker.pc = "none"
        /\ UNCHANGED <<isRunning, checking, spc, service, past>>
        /\ \/ main'.pc = "idle" /\ worker'.pc = "test"
           \/ main'.pc = "failed" /\ worker' = worker
    <3>1. /\ main.pc = "spawn" /\ worker.pc = "none" /\ main'.late = main.late
          /\ UNCHANGED <<isRunning, checking, spc, service, past>>
      BY <1>15 DEF StartSpawns, MainGoes, TypeOK, MainStates, Sessions
    <3>2. \/ main'.pc = "idle" /\ worker'.pc = "test"
          \/ main'.pc = "failed" /\ worker' = worker
      BY <1>15 DEF StartSpawns, MainGoes, TypeOK, MainStates, WorkerStates
    <3> QED BY <3>1, <3>2
  <2> QED BY <2>1 DEF Fresh, BetweenChecks, Over
<1>16. ASSUME NEW t \in Threads, StopTakes(t),
              UNCHANGED <<checking, worker, service, main.late>>,
              main' = main \/ main'.pc = "djoin"
       PROVE  Fresh'
  <2>1. \/ isRunning /\ past'.cut # {}
        \/ ~isRunning /\ past'.cut = past.cut /\ isRunning' = FALSE
    BY <1>16 DEF StopTakes, TypeOK, Histories
  <2> QED BY <1>16, <2>1 DEF Fresh, Over
<1>17. CASE DeleteBegins
  <2>1. main'.late = main.late /\ main'.pc = "djoin"
    BY <1>17 DEF DeleteBegins, MainGoes, TypeOK, MainStates
  <2> QED BY <1>16, <1>17, <2>1 DEF DeleteBegins, Threads
<1>18. ASSUME NEW t \in Threads, StopCalled(t)
       PROVE  Fresh'
  BY <1>16, <1>18 DEF StopCalled
<1>19. CASE DeleteJoins
  <2>1. /\ main'.pc = "deleted" /\ main'.late = main.late
        /\ worker.pc \in {"none", "done"} /\ worker'.pc = "none"
        /\ service'.queue = <<>> /\ service'.device = "idle"
        /\ UNCHANGED <<isRunning, checking, spc, past>>
    BY <1>19
    DEF DeleteJoins, MainGoes, WorkerActive, TypeOK, MainStates, WorkerStates,
        Services
  <2> QED BY <2>1 DEF Fresh, BetweenChecks, Over
<1>20. ASSUME NEW t \in Threads, StopStep(t)
       PROVE  Fresh'
  <2>1. /\ spc[t] # "idle" /\ past'.cut = past.cut
        /\ UNCHANGED <<isRunning, main, worker, service>>
    BY <1>20 DEF StopStep, StopWrites, StopEndsCheck, Ended, TypeOK, Histories
  <2>2. past.cut = {} /\ ~main.late => ~isRunning
    BY <2>1 DEF Fresh
  <2> QED BY <2>1, <2>2 DEF Fresh, Over
<1>21. ASSUME NEW result \in {"match", "other"}, NEW done \in BOOLEAN, Emit(result, done)
       PROVE  Fresh'
  <2> DEFINE s == [result |-> result, done |-> done, fresh |-> TRUE]
  <2>1. /\ service.device = "scanning" /\ service'.queue = Append(queue, s)
        /\ service'.device = IF done THEN "finished" ELSE "scanning"
        /\ UNCHANGED <<isRunning, checking, main, worker, spc, past>>
    BY <1>21 DEF Emit, TypeOK, Services
  <2>2. /\ DOMAIN Append(queue, s) = 1 .. Len(queue) + 1
        /\ Len(Append(queue, s)) = Len(queue) + 1
        /\ Append(queue, s)[Len(queue) + 1] = s
        /\ \A k \in 1 .. Len(queue) : Append(queue, s)[k] = queue[k]
    BY <1>1
  <2>3. s.fresh = TRUE /\ s.done = done
    OBVIOUS
  <2> HIDE DEF s, queue
  <2>4. ASSUME NEW k \in DOMAIN service'.queue, past.cut = {}, ~main.late
        PROVE  /\ service'.queue[k].fresh
               /\ service'.queue[k].done =>
                    k = Len(service'.queue) /\ service'.device # "scanning"
    BY <1>1, <2>1, <2>2, <2>3, <2>4 DEF Fresh, queue
  <2> QED BY <2>1, <2>4 DEF Fresh, Over
<1>22. CASE BusDies
  <2>1. /\ service'.queue = <<>> /\ service'.device = "idle" /\ past'.cut = past.cut
        /\ UNCHANGED <<isRunning, checking, main, worker, spc>>
    BY <1>22 DEF BusDies, TypeOK, Histories
  <2> QED BY <2>1 DEF Fresh, Over
<1>23. CASE UNCHANGED vars
  BY <1>23 DEF vars, Fresh, Over
<1> QED
  BY <1>2, <1>3, <1>4, <1>5, <1>6, <1>7, <1>8, <1>9, <1>10, <1>11, <1>12, <1>13,
     <1>14, <1>15, <1>17, <1>18, <1>19, <1>20, <1>21, <1>22, <1>23
  DEF Next, WorkerStep, MainStep, Done

-----------------------------------------------------------------------------
(* IInv holds in the initial states and is preserved by every step. *)
LEMMA Inductive ==
  /\ Init => IInv
  /\ IInv /\ [Next]_vars => IInv'
<1>1. ASSUME Init PROVE IInv
  <2>1. /\ isRunning = FALSE /\ checking = FALSE /\ pipe \in {"none", "empty"}
        /\ main.pc = "idle" /\ worker.pc = "none"
        /\ service.device = "idle" /\ service.queue = <<>> /\ past.open = 0
    BY <1>1 DEF Init
  <2>2. main \in MainStates
    BY <1>1, BoundsAssumption DEF Init, MainStates
  <2>3. worker \in WorkerStates
    BY <1>1, BoundsAssumption DEF Init, WorkerStates
  <2>4. spc \in [Threads -> {"idle", "write", "check"}] /\ \A t \in Threads : spc[t] = "idle"
    BY <1>1 DEF Init
  <2>5. service \in Services
    <3>1. <<>> \in Seq(Signals)
      OBVIOUS
    <3> QED BY <1>1, <3>1 DEF Init, Services
  <2>6. past \in Histories
    BY <1>1, BoundsAssumption DEF Init, Histories
  <2>7. TypeOK
    BY <2>1, <2>2, <2>3, <2>4, <2>5, <2>6, Zenon DEF TypeOK
  <2>8. Sessions /\ Counted /\ Scans
    BY <2>1 DEF Sessions, Counted, Scans, BetweenChecks
  <2>9. Drains /\ Fresh
    BY <2>1, <2>4 DEF Drains, Fresh, BetweenChecks, Over
  <2> QED BY <2>7, <2>8, <2>9 DEF IInv
<1>2. ASSUME IInv, [Next]_vars PROVE IInv'
  BY <1>2, TypedStep, ScansStep, DrainsStep, FreshStep DEF IInv
<1> QED BY <1>1, <1>2

(* The object, its threads and the service keep to their types. *)
THEOREM TypeCorrect ==
  Spec => []TypeOK
<1>1. IInv => TypeOK
  BY DEF IInv
<1> QED BY <1>1, Inductive, PTL DEF Spec

(* on_end is called at most once for each check, whatever number of stop()  *)
(* calls and the last signal race to end it.                                *)
THEOREM CheckEndsOnce ==
  Spec => []EndOncePerCheck
<1>1. IInv => EndOncePerCheck
  BY DEF IInv, TypeOK, Histories, Counted, EndOncePerCheck
<1> QED BY <1>1, Inductive, PTL DEF Spec

(* As long as no bus call has failed, whenever there is no active worker    *)
(* every VerifyStart was followed by a VerifyStop: the destructor releases  *)
(* no scanning device, wherever the worker was when it was stopped.         *)
THEOREM DeviceReleasedIdle ==
  Spec => []DeviceLeftIdle
<1>1. IInv => DeviceLeftIdle
  BY DEF IInv, Scans, BetweenChecks, WorkerActive, DeviceLeftIdle
<1> QED BY <1>1, Inductive, PTL DEF Spec

(* Unless a start() overtook a stop(), a running session finds no byte of   *)
(* an earlier stop() in its pipe, and its select() sleeps.                  *)
THEOREM NoStaleByte ==
  Spec => []SelectSleeps
<1>1. IInv => SelectSleeps
  BY DEF IInv, Drains, SelectSleeps
<1> QED BY <1>1, Inductive, PTL DEF Spec

(* As long as no session was stopped and no start() overtook a stop(), the  *)
(* signal that sd_bus_process dispatches was sent in the check that is in   *)
(* progress: no match counts for a later check.                             *)
THEOREM SignalsStayInTheirCheck ==
  Spec => SignalOfThisCheck
<1> DEFINE A == worker.pc = "process" /\ worker'.pc = "signal" /\ past.cut = {}
                  /\ ~main.late => worker'.sig.fresh
<1>1. ASSUME IInv, [Next]_vars PROVE [A]_vars
  <2> SUFFICES ASSUME Next, worker.pc = "process", worker'.pc = "signal",
                      past.cut = {}, ~main.late
               PROVE  worker'.sig.fresh
    BY <1>1
  <2>1. worker \in WorkerStates /\ service \in Services
    BY <1>1 DEF IInv, TypeOK
  <2>2. WorkerProcesses
    BY <2>1
    DEF Next, WorkerStep, WorkerTests, WorkerVerifyStart, WorkerMarks,
        WorkerLoadsRunning, WorkerLoadsChecking, WorkerReports, WorkerSettles,
        WorkerVerifyStop, WorkerReportsError, WorkerBreaks, WorkerGoes,
        WorkerActive, StartBegins, DeleteBegins, MainStep, StartJoins,
        StartDrains, StartClaims, StartClears, StartSpawns, StartFails,
        DeleteJoins, MainGoes, StopCalled, StopStep, StopWrites, StopEndsCheck,
        Emit, BusDies, Done, vars, WorkerStates
  <2>3. service.queue # <<>> /\ worker'.sig = Head(service.queue)
    BY <2>1, <2>2 DEF WorkerProcesses, WorkerGoes, WorkerStates
  <2>4. 1 \in DOMAIN service.queue /\ Head(service.queue) = service.queue[1]
    BY <2>1, <2>3 DEF Services
  <2> QED BY <1>1, <2>3, <2>4 DEF IInv, Fresh
<1> QED BY <1>1, Inductive, PTL DEF Spec, SignalOfThisCheck

-----------------------------------------------------------------------------
(* What the refinement mapping shows of a state of the right type. *)
LEMMA ViewFields ==
  ASSUME TypeOK
  PROVE  /\ View \in V!Verifiers
         /\ View.flag = isRunning /\ View.thread = Thread /\ View.owner = Owner
<1>1. /\ Thread \in {"none", "busy", "handler", "ending", "done"}
      /\ Owner \in {"idle", "join", "claim", "launch", "delete", "deleted"}
  BY DEF TypeOK, WorkerStates, MainStates, Thread, Owner
<1> QED BY <1>1 DEF TypeOK, View, V!Verifiers

(* Every step of Fingerprint is a step of the verifier or leaves it alone. *)
LEMMA VerifierStep ==
  ASSUME IInv, IInv', [Next]_vars
  PROVE  [V!Next]_View
<1> USE DEF IInv
<1>1. /\ View \in V!Verifiers /\ View' \in V!Verifiers
      /\ View.flag = isRunning /\ View.thread = Thread /\ View.owner = Owner
      /\ View'.flag = isRunning' /\ View'.thread = Thread' /\ View'.owner = Owner'
  <2>1. (View \in V!Verifiers
         /\ View.flag = isRunning /\ View.thread = Thread /\ View.owner = Owner)'
    BY ViewFields, PTL
  <2> QED BY <2>1, ViewFields
<1>2. /\ worker \in WorkerStates /\ worker' \in WorkerStates
      /\ main \in MainStates /\ main' \in MainStates
      /\ isRunning \in BOOLEAN /\ isRunning' \in BOOLEAN
  BY DEF TypeOK
<1>3. ASSUME isRunning' = isRunning \/ isRunning' = FALSE, Thread' = Thread,
             Owner' = Owner, Owner # "deleted"
      PROVE  [V!Next]_View
  <2>1. CASE isRunning' = isRunning
    BY <1>3, <2>1 DEF View
  <2>2. ASSUME isRunning' = FALSE, isRunning PROVE V!Stop
    BY <1>1, <1>3, <2>2 DEF V!Stop, V!Verifiers
  <2> QED BY <1>2, <1>3, <2>1, <2>2 DEF V!Next
<1>4. CASE WorkerVerifyStart \/ WorkerMarks \/ WorkerLoadsRunning
             \/ WorkerLoadsChecking \/ WorkerSettles \/ WorkerVerifyStop
  <2>1. isRunning' = isRunning /\ main' = main
    BY <1>4
    DEF WorkerVerifyStart, WorkerMarks, WorkerLoadsRunning, WorkerLoadsChecking,
        WorkerSettles, WorkerVerifyStop
  <2>2. worker.pc \notin {"none", "done", "signal"}
        /\ worker'.pc \notin {"none", "done", "signal"}
    BY <1>2, <1>4
    DEF WorkerVerifyStart, WorkerMarks, WorkerLoadsRunning, IfRunning,
        WorkerLoadsChecking, WorkerSettles, WorkerVerifyStop, WorkerGoes,
        WorkerStates
  <2> QED BY <2>1, <2>2 DEF View, Thread, Owner
<1>5. CASE WorkerTests \/ WorkerBreaks
  <2>1. Thread = "busy" /\ isRunning' = isRunning /\ Owner' = Owner
    BY <1>5 DEF WorkerTests, WorkerBreaks, WorkerGoes, Thread, Owner
  <2>2. Thread' \in {"busy", "done"}
    BY <1>2, <1>5 DEF WorkerTests, WorkerBreaks, WorkerGoes, WorkerStates, Thread
  <2>3. ASSUME Thread' = "done" PROVE V!Exit
    BY <1>1, <2>1, <2>3 DEF V!Exit, V!Verifiers
  <2> QED BY <2>1, <2>2, <2>3 DEF V!Next, View
<1>6. CASE WorkerProcesses
  <2>1. Thread = "busy" /\ isRunning' = isRunning /\ Owner' = Owner
    BY <1>6 DEF WorkerProcesses, WorkerGoes, Thread, Owner
  <2>2. Thread' \in {"busy", "handler"}
    BY <1>2, <1>6 DEF WorkerProcesses, WorkerGoes, WorkerStates, Thread
  <2>3. ASSUME Thread' = "handler" PROVE V!Finish
    BY <1>1, <2>1, <2>3 DEF V!Finish, V!Verifiers
  <2> QED BY <2>1, <2>2, <2>3 DEF V!Next, View
<1>7. CASE WorkerReports \/ WorkerReportsError
  <2>1. /\ worker.pc \in {"signal", "error"} /\ worker'.pc \in {"settle", "break"}
        /\ main' = main /\ worker.pc # "none"
    BY <1>2, <1>7 DEF WorkerReports, WorkerReportsError, WorkerGoes, WorkerStates
  <2>2. isRunning' = isRunning \/ isRunning' = FALSE
    BY <1>7 DEF WorkerReports, WorkerReportsError, HandlerMayStop, StopTakes
  <2>3. /\ Thread \in {"busy", "handler"} /\ Thread' = "busy"
        /\ Owner' = Owner /\ Owner # "deleted"
    BY <1>2, <2>1 DEF Thread, Owner, Sessions, MainStates
  <2>4. CASE Thread = "handler"
    <3>1. View' = [View EXCEPT !.thread = "busy", !.flag = isRunning']
      <4>1. View'.owner = View.owner
        BY <1>1, <2>3
      <4> QED BY <1>1, <1>2, <2>3, <4>1 DEF V!Verifiers
    <3>2. isRunning' \in {View.flag, FALSE}
      BY <1>1, <2>2
    <3>3. V!Return
      BY <1>1, <2>4, <3>1, <3>2 DEF V!Return
    <3> QED BY <3>3 DEF V!Next
  <2>5. CASE Thread = "busy"
    BY <1>3, <2>2, <2>3, <2>5
  <2> QED BY <2>3, <2>4, <2>5
<1>8. CASE StartBegins
  <2>1. /\ Owner = "idle" /\ Owner' = "join" /\ ~isRunning /\ isRunning' = FALSE
        /\ Thread' = Thread
    BY <1>2, <1>8 DEF StartBegins, MainGoes, MainStates, Sessions, Owner, Thread
  <2>2. V!Begin
    BY <1>1, <2>1 DEF V!Begin, V!Verifiers
  <2> QED BY <2>2 DEF V!Next
<1>9. CASE StartJoins
  <2>1. /\ Owner = "join" /\ Owner' = "claim" /\ isRunning' = isRunning
        /\ Thread \in {"none", "done"} /\ Thread' = "none"
    BY <1>2, <1>9
    DEF StartJoins, MainGoes, WorkerActive, MainStates, WorkerStates, Owner, Thread
  <2>2. V!Join
    BY <1>1, <2>1 DEF V!Join, V!Joinable, V!Verifiers
  <2> QED BY <2>2 DEF V!Next, V!OwnerStep
<1>10. CASE StartDrains \/ StartClears
  <2>1. UNCHANGED <<isRunning, worker>> /\ Owner' = Owner
    BY <1>2, <1>10 DEF StartDrains, StartClears, MainGoes, MainStates, Owner
  <2> QED BY <2>1 DEF Thread, View
<1>11. CASE StartClaims
  <2>1. /\ Owner = "claim" /\ Owner' = "launch" /\ isRunning' = TRUE
        /\ Thread' = Thread
    BY <1>2, <1>11 DEF StartClaims, MainStates, Owner, Thread
  <2>2. V!Claim
    BY <1>1, <2>1 DEF V!Claim, V!Verifiers
  <2> QED BY <2>2 DEF V!Next, V!OwnerStep
<1>12. CASE StartSpawns
  <2>1. Owner = "launch" /\ isRunning' = isRunning /\ Thread = "none"
    BY <1>2, <1>12 DEF StartSpawns, MainGoes, MainStates, Sessions, Owner, Thread
  <2>2. \/ Owner' = "idle" /\ Thread' = "busy"
        \/ Owner' = "launch" /\ Thread' = "none"
    <3>1. \/ main'.pc = "idle" /\ worker'.pc = "test"
          \/ main'.pc = "failed" /\ worker' = worker
      BY <1>2, <1>12 DEF StartSpawns, MainGoes, MainStates, WorkerStates
    <3> QED BY <2>1, <3>1 DEF Owner, Thread
  <2>3. ASSUME Owner' = "idle", Thread' = "busy" PROVE V!Launch
    BY <1>1, <2>1, <2>3 DEF V!Launch, V!Verifiers
  <2> QED BY <2>1, <2>2, <2>3 DEF V!Next, V!OwnerStep, View
<1>13. CASE StartFails
  <2>1. /\ Owner = "launch" /\ Owner' = "idle" /\ isRunning' = FALSE
        /\ Thread' = Thread
    BY <1>2, <1>13 DEF StartFails, MainGoes, MainStates, Owner, Thread
  <2>2. V!Fail
    BY <1>1, <2>1 DEF V!Fail, V!Verifiers
  <2> QED BY <2>2 DEF V!Next, V!OwnerStep
<1>14. CASE DeleteBegins
  <2>1. /\ Owner = "idle" /\ Owner' = "delete" /\ isRunning' = FALSE
        /\ Thread' = Thread
    BY <1>2, <1>14 DEF DeleteBegins, StopTakes, MainGoes, MainStates, Owner, Thread
  <2>2. V!Delete
    BY <1>1, <2>1 DEF V!Delete, V!Verifiers
  <2> QED BY <2>2 DEF V!Next
<1>15. CASE DeleteJoins
  <2>1. /\ Owner = "delete" /\ Owner' = "deleted" /\ isRunning' = isRunning
        /\ Thread \in {"none", "done"} /\ Thread' = "none"
    BY <1>2, <1>15
    DEF DeleteJoins, MainGoes, WorkerActive, MainStates, WorkerStates, Owner, Thread
  <2>2. V!Deleted
    BY <1>1, <2>1 DEF V!Deleted, V!Joinable, V!Verifiers
  <2> QED BY <2>2 DEF V!Next, V!OwnerStep
<1>16. ASSUME NEW t \in Threads, StopCalled(t)
       PROVE  [V!Next]_View
  <2>1. /\ isRunning' = FALSE /\ Thread' = Thread
        /\ Owner # "deleted" /\ Owner' = Owner
    BY <1>2, <1>16 DEF StopCalled, StopTakes, Owner, Thread
  <2> QED BY <1>3, <2>1
<1>17. CASE \/ \E t \in Threads : StopStep(t)
            \/ \E result \in {"match", "other"}, done \in BOOLEAN : Emit(result, done)
            \/ BusDies \/ UNCHANGED vars
  <2>1. UNCHANGED <<isRunning, main, worker>>
    BY <1>17 DEF StopStep, StopWrites, StopEndsCheck, Emit, BusDies, vars
  <2> QED BY <2>1 DEF Thread, Owner, View
<1> QED
  BY <1>4, <1>5, <1>6, <1>7, <1>8, <1>9, <1>10, <1>11, <1>12, <1>13, <1>14,
     <1>15, <1>16, <1>17
  DEF Next, WorkerStep, MainStep, Done

(* Fingerprint does only what the abstract verifier allows: nothing is      *)
(* launched over a living worker, only start() raises the flag, and only    *)
(* after the join.  (That a stopped worker ends is a matter of fairness and *)
(* left to the model checker.)                                              *)
THEOREM ImplementsVerifier ==
  Spec => V!Spec
<1>1. Init => V!Init
  <2> SUFFICES ASSUME Init PROVE V!Init
    OBVIOUS
  <2>1. isRunning = FALSE /\ Thread = "none" /\ Owner = "idle"
    BY DEF Init, Thread, Owner
  <2> QED BY <2>1 DEF V!Init, View
<1>2. IInv /\ IInv' /\ [Next]_vars => [V!Next]_View
  BY VerifierStep
<1> QED BY <1>1, <1>2, Inductive, PTL DEF Spec, V!Spec
=============================================================================
