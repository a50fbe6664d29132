---------------------------- MODULE PasswordProofs ----------------------------
(***************************************************************************)
(* Proofs about module Password, for any number of threads that call       *)
(* stop(), any passwords and any number of rounds.                         *)
(*                                                                         *)
(* None of the properties of Password is inductive.  What makes them true  *)
(* is that the steps of verify() and of run_worker() follow each other     *)
(* through the join, so that the pieces of state that no lock protects     *)
(* always belong to one round.  The inductive invariant IInv says to which *)
(* round, program counter by program counter.                              *)
(***************************************************************************)
EXTENDS Password, TLAPS

(* Where run_worker() has not reported yet, and where it has the status of  *)
(* the child and has not reported it.                                       *)
Unanswered == {"fork", "publish", "recheck", "takeback", "slay", "wait",
               "unpublish", "verdict", "report"}
Reaped == {"unpublish", "verdict", "report"}

(* The join separates the rounds: from the join to the creation of the      *)
(* thread there is no worker, and afterwards the worker's round is the last *)
(* accepted one, up to the moment when verify() is entered again.           *)
Linked ==
  /\ worker.round <= main.round
  /\ isRunning => main.round >= 1
  /\ main.pc \in {"join", "assign", "spawn", "failed", "clear"}
       => worker.round < main.round
  /\ main.pc \in {"assign", "spawn", "failed", "clear", "deleted"}
       => worker.pc = "none"
  /\ worker.pc # "none" =>
       worker.round >= 1 /\ (main.pc # "join" => worker.round = main.round)

(* active_pam_pid_ belongs to the round of the worker. *)
Published ==
  pamPid # 0 => /\ pamPid = worker.round
                /\ worker.pc \in {"recheck", "takeback", "wait", "unpublish"}

(* Where run_worker() has a child that it has not waited for. *)
Parent == {"publish", "recheck", "takeback", "slay", "wait"}

(* The only child that is not reaped is the one its worker will wait for.   *)
(* Once the destructor is under way nobody raises the flag.                 *)
Parenthood ==
  /\ \A r \in Rounds : child[r].state \notin {"none", "reaped"}
                         <=> r = worker.round /\ worker.pc \in Parent
  /\ main.pc \in {"djoin", "deleted"} => ~isRunning

(* run_worker()'s locals: it slays its own child, and the status it decides *)
(* on is one that waitpid() reported.                                       *)
Locals ==
  /\ worker.pc = "slay" => worker.got = worker.round
  /\ worker.pc \in Reaped => worker.status \in Ended

(* Rounds after the worker's have neither a child nor a verdict. *)
PastFollows ==
  /\ \A r \in Rounds : child[r].state # "none" \/ past[r].report # "none"
                         => r <= worker.round
  /\ worker.pc \in Unanswered => past[worker.round].report = "none"

(* candidate_ holds what the round under way was asked with. *)
CandidateFollows ==
  /\ main.pc = "spawn" => candidate = past[main.round].asked
  /\ worker.pc \in Unanswered \cup {"end", "wipe"}
       => candidate = past[worker.round].asked
  /\ worker.pc \in {"none", "release", "done"}
       /\ main.pc \notin {"spawn", "failed", "clear"} => candidate = NoPass

(* A child inherited the password of its own round, and PAM grants only the *)
(* right one.                                                               *)
GrantMeansRight ==
  /\ \A r \in Rounds :
       /\ child[r].state # "none" => child[r].guess = past[r].asked
       /\ child[r].state = "granted" => child[r].guess = Right
  /\ worker.pc \in Reaped /\ worker.status = "granted"
       => past[worker.round].asked = Right

(* A worker that skips its verdict does so because of a flag that is still  *)
(* down when cleanup() looks at it, unless a verify() was eager.            *)
StopIsTold ==
  ~main.eager =>
    /\ worker.pc = "end" => past[worker.round].report # "none" \/ ~isRunning
    /\ worker.pc \in {"wipe", "release", "done"}
         => past[worker.round].report # "none" \/ past[worker.round].notified

(* Without an eager verify() a stop() under way is about the last round, a  *)
(* lowered flag was lowered by a stop(), and whoever kills a child does it  *)
(* for a stop() of the child's round.                                       *)
KilledWasCut ==
  ~main.eager =>
    /\ WorkerActive => main.pc # "join"
    /\ (WorkerActive \/ main.pc \in {"join", "assign", "spawn"}) /\ ~isRunning
         => past[main.round].cut
    /\ \A t \in Threads :
         /\ stops[t].pc # "idle" => main.round >= 1 /\ past[main.round].cut
         /\ stops[t].pc = "kill" => stops[t].got \in Rounds /\ past[stops[t].got].cut
    /\ worker.pc \in {"takeback", "slay"} => past[worker.round].cut
    /\ \A r \in Rounds : child[r].state = "killed" => past[r].cut
    /\ worker.pc \in Reaped /\ worker.status = "killed" => past[worker.round].cut

(* What is known of the rounds, together. *)
RoundsInv ==
  /\ PastFollows /\ CandidateFollows /\ GrantMeansRight /\ FinishMeansRight
  /\ StopIsTold /\ KilledWasCut /\ DeniedByPam

(* The inductive invariant. *)
IInv == TypeOK /\ Linked /\ Published /\ Parenthood /\ Locals /\ RoundsInv

-----------------------------------------------------------------------------
(* Assigning one field keeps the record of a round a record of a round. *)
LEMMA HistoryTyped ==
  ASSUME NEW p \in [Rounds -> Histories], NEW r \in Rounds
  PROVE  /\ \A a \in Passwords :
              [p EXCEPT ![r].asked = a] \in [Rounds -> Histories]
         /\ \A a \in {"finish", "denied", "system"} :
              [p EXCEPT ![r].report = a] \in [Rounds -> Histories]
         /\ \A b \in BOOLEAN : [p EXCEPT ![r].cut = b] \in [Rounds -> Histories]
         /\ \A b \in BOOLEAN : [p EXCEPT ![r].cut = @ \/ b] \in [Rounds -> Histories]
         /\ \A b \in BOOLEAN : [p EXCEPT ![r].notified = b] \in [Rounds -> Histories]
<1> p[r] \in Histories
  OBVIOUS
<1>1. ASSUME NEW h \in Histories
      PROVE  [p EXCEPT ![r] = h] \in [Rounds -> Histories]
  OBVIOUS
<1>2. \A a \in Passwords : [p[r] EXCEPT !.asked = a] \in Histories
  BY DEF Histories
<1>3. \A a \in {"finish", "denied", "system"} : [p[r] EXCEPT !.report = a] \in Histories
  BY DEF Histories
<1>4. \A b \in BOOLEAN : [p[r] EXCEPT !.cut = b] \in Histories
  BY DEF Histories
<1>5. \A b \in BOOLEAN : [p[r] EXCEPT !.notified = b] \in Histories
  BY DEF Histories
<1>6. \A b \in BOOLEAN : [p EXCEPT ![r].cut = @ \/ b] \in [Rounds -> Histories]
  <2> TAKE b \in BOOLEAN
  <2>1. (p[r].cut \/ b) \in BOOLEAN
    OBVIOUS
  <2>2. [p[r] EXCEPT !.cut = @ \/ b] \in Histories
    BY <2>1 DEF Histories
  <2> QED BY <1>1, <2>2
<1> QED BY <1>1, <1>2, <1>3, <1>4, <1>5, <1>6

(* A child process that ends or is reaped stays a child process. *)
LEMMA ChildTyped ==
  ASSUME NEW c \in [Rounds -> Children], NEW r \in Rounds,
         NEW s \in Ended \cup {"reaped"}
  PROVE  [c EXCEPT ![r].state = s] \in [Rounds -> Children]
<1>1. c[r] \in Children
  OBVIOUS
<1>2. [c[r] EXCEPT !.state = s] \in Children
  BY <1>1 DEF Children
<1> QED BY <1>2

(* kill() leaves child processes behind, whatever the process id. *)
LEMMA KilledTyped ==
  ASSUME TypeOK, NEW pid
  PROVE  Killed(pid) \in [Rounds -> Children]
BY ChildTyped DEF TypeOK, Killed, Ended

(* Every step keeps the types and the order of the rounds that the join     *)
(* imposes.                                                                 *)
LEMMA TypedStep ==
  ASSUME TypeOK, Linked, [Next]_vars
  PROVE  TypeOK' /\ Linked'
<1> USE BoundAssumption, ThreadsAssumption
    DEF TypeOK, Linked, WorkerActive, WorkerGoes, MainGoes, NoPid, Cleared
<1>1. isRunning \/ main.pc = "join" \/ worker.pc # "none"
        \/ main.pc \in {"assign", "spawn", "failed", "clear"} => main.round \in Rounds
  BY DEF MainStates, WorkerStates, Rounds
<1>2. worker.pc # "none" => worker.round \in Rounds
  BY DEF WorkerStates, Rounds
<1>3. CASE WorkerForks
  <2>1. [state |-> "running", guess |-> candidate] \in Children
    BY DEF Children
  <2>2. worker.round \in Rounds
    BY <1>2, <1>3 DEF WorkerForks
  <2>3. child' \in [Rounds -> Children]
    BY <1>3, <2>1, <2>2 DEF WorkerForks
  <2>4. past' \in [Rounds -> Histories]
    <3>1. [past EXCEPT ![worker.round].report = "system"] \in [Rounds -> Histories]
      BY <2>2, HistoryTyped
    <3> QED BY <1>3, <3>1 DEF WorkerForks
  <2>5. worker' \in WorkerStates /\ Linked'
    BY <1>3 DEF WorkerForks, WorkerStates, MainStates
  <2> QED BY <1>3, <2>3, <2>4, <2>5 DEF WorkerForks
<1>4. CASE WorkerPublishes
  BY <1>4 DEF WorkerPublishes, WorkerStates, MainStates
<1>5. CASE WorkerRechecks
  BY <1>5 DEF WorkerRechecks, AfterPublish, WorkerStates, MainStates
<1>6. CASE WorkerTakesBack
  <2>1. worker' \in WorkerStates
    BY <1>6 DEF WorkerTakesBack, WorkerStates
  <2>2. Linked'
    BY <1>6 DEF WorkerTakesBack, WorkerStates, MainStates
  <2> QED BY <1>6, <2>1, <2>2 DEF WorkerTakesBack
<1>7. CASE WorkerSlays
  BY <1>7, KilledTyped DEF WorkerSlays, WorkerStates, MainStates
<1>8. CASE WorkerReaps
  <2>1. child' \in [Rounds -> Children]
    BY <1>2, <1>8, ChildTyped DEF WorkerReaps
  <2>2. worker' \in WorkerStates /\ Linked'
    BY <1>8 DEF WorkerReaps, Waitable, WorkerStates, MainStates
  <2> QED BY <1>8, <2>1, <2>2 DEF WorkerReaps
<1>9. CASE WorkerUnpublishes
  BY <1>9 DEF WorkerUnpublishes, WorkerStates, MainStates
<1>10. CASE WorkerDecides
  BY <1>10 DEF WorkerDecides, WorkerStates, MainStates
<1>11. CASE WorkerReports
  <2>1. PICK a \in {"finish", "denied"}, b \in BOOLEAN :
          past' = [past EXCEPT ![worker.round].report = a,
                               ![main.round].cut = @ \/ b]
    BY <1>11 DEF WorkerReports
  <2> DEFINE reported == [past EXCEPT ![worker.round].report = a]
  <2>2. reported \in [Rounds -> Histories]
    BY <1>2, <1>11, HistoryTyped DEF WorkerReports
  <2>3. past' = [reported EXCEPT ![main.round].cut = @ \/ b]
    BY <2>1
  <2> HIDE DEF reported
  <2>4. past' \in [Rounds -> Histories]
    BY <1>1, <1>11, <2>2, <2>3, HistoryTyped DEF WorkerReports
  <2>5. worker' \in WorkerStates /\ Linked'
    BY <1>11 DEF WorkerReports, WorkerStates, MainStates
  <2> QED BY <1>11, <2>4, <2>5 DEF WorkerReports
<1>12. CASE WorkerEnds
  <2>1. past' \in [Rounds -> Histories]
    BY <1>2, <1>12, HistoryTyped DEF WorkerEnds, Stopped
  <2>2. worker' \in WorkerStates /\ Linked'
    BY <1>12 DEF WorkerEnds, WorkerStates, MainStates
  <2> QED BY <1>12, <2>1, <2>2 DEF WorkerEnds
<1>13. CASE WorkerWipes
  BY <1>13 DEF WorkerWipes, WorkerStates, MainStates
<1>14. CASE WorkerReleases
  BY <1>14 DEF WorkerReleases, WorkerStates, MainStates
<1>15. CASE VerifyBegins
  <2>1. main'.eager \in BOOLEAN
    BY <1>15 DEF VerifyBegins
  <2> QED BY <1>15, <2>1 DEF VerifyBegins, WorkerStates, MainStates
<1>16. CASE VerifyJoins
  BY <1>16 DEF VerifyJoins, WorkerStates, MainStates
<1>17. ASSUME NEW p \in Passwords, VerifyAssigns(p)
       PROVE  TypeOK' /\ Linked'
  <2>1. main.round \in Rounds
    BY <1>1, <1>17 DEF VerifyAssigns
  <2>2. past' \in [Rounds -> Histories]
    <3>1. [past EXCEPT ![main.round].asked = p] \in [Rounds -> Histories]
      BY <2>1, HistoryTyped
    <3> QED BY <1>17, <3>1 DEF VerifyAssigns
  <2>3. main' \in MainStates /\ Linked'
    BY <1>17 DEF VerifyAssigns, WorkerStates, MainStates
  <2> QED BY <1>17, <2>2, <2>3 DEF VerifyAssigns
<1>18. CASE VerifySpawns
  <2>1. main' \in MainStates /\ worker' \in WorkerStates
    <3>1. main' \in MainStates
      BY <1>18 DEF VerifySpawns, MainStates
    <3>2. \/ worker' = worker
          \/ worker' = [worker EXCEPT !.pc = "fork", !.round = main.round]
      BY <1>18 DEF VerifySpawns
    <3>3. [worker EXCEPT !.pc = "fork", !.round = main.round] \in WorkerStates
      BY DEF WorkerStates, MainStates
    <3> QED BY <3>1, <3>2, <3>3
  <2>2. main.round >= 1
    BY <1>1, <1>18 DEF VerifySpawns, Rounds
  <2>3. ASSUME main'.pc = "idle" PROVE Linked'
    <3>1. /\ worker'.round = main.round /\ worker'.pc = "fork"
          /\ main'.round = main.round /\ isRunning' = isRunning
      BY <1>18, <2>3 DEF VerifySpawns, WorkerStates, MainStates
    <3>2. main.round \in Nat
      BY DEF MainStates
    <3> QED BY <2>2, <2>3, <3>1, <3>2
  <2>4. ASSUME main'.pc = "failed" PROVE Linked'
    BY <1>18, <2>4 DEF VerifySpawns, WorkerStates, MainStates
  <2>5. main'.pc \in {"idle", "failed"}
    BY <1>18 DEF VerifySpawns, MainStates
  <2> QED BY <1>18, <2>1, <2>3, <2>4, <2>5 DEF VerifySpawns
<1>19. CASE VerifyFails
  BY <1>19 DEF VerifyFails, WorkerStates, MainStates
<1>20. CASE VerifyClears
  BY <1>20 DEF VerifyClears, WorkerStates, MainStates
<1>21. ASSUME NEW t \in Threads, StopTakes(t)
       PROVE  /\ isRunning' = FALSE
              /\ stops' \in [Threads -> StopStates]
              /\ past' \in [Rounds -> Histories]
  <2>1. stops' \in [Threads -> StopStates]
    BY <1>21 DEF StopTakes, StopStates
  <2>2. past' \in [Rounds -> Histories]
    BY <1>1, <1>21, HistoryTyped DEF StopTakes, Cut
  <2> QED BY <1>21, <2>1, <2>2 DEF StopTakes
<1>22. CASE DeleteBegins
  <2>1. main' \in MainStates /\ Linked'
    BY <1>22 DEF DeleteBegins, StopTakes, WorkerStates, MainStates
  <2>2. stops' \in [Threads -> StopStates] /\ past' \in [Rounds -> Histories]
    BY <1>21, <1>22 DEF DeleteBegins, Threads
  <2> QED BY <1>22, <2>1, <2>2 DEF DeleteBegins, StopTakes
<1>23. CASE DeleteJoins
  BY <1>23 DEF DeleteJoins, WorkerStates, MainStates
<1>24. ASSUME NEW t \in Threads, StopCalled(t)
       PROVE  TypeOK' /\ Linked'
  BY <1>21, <1>24 DEF StopCalled
<1>25. ASSUME NEW t \in Threads, StopExchanges(t)
       PROVE  TypeOK' /\ Linked'
  <2>1. stops' \in [Threads -> StopStates]
    BY <1>25 DEF StopExchanges, StopStates
  <2> QED BY <1>25, <2>1 DEF StopExchanges
<1>26. ASSUME NEW t \in Threads, StopKills(t)
       PROVE  TypeOK' /\ Linked'
  <2>1. stops' \in [Threads -> StopStates]
    BY <1>26 DEF StopKills, StopStates
  <2> QED BY <1>26, <2>1, KilledTyped DEF StopKills
<1>27. ASSUME NEW r \in Rounds, ChildAnswers(r)
       PROVE  TypeOK' /\ Linked'
  <2>1. child' \in [Rounds -> Children]
    <3>1. PICK verdict \in Ended : child' = [child EXCEPT ![r].state = verdict]
      BY <1>27 DEF ChildAnswers, PamVerdicts, Ended
    <3> QED BY <3>1, ChildTyped
  <2> QED BY <1>27, <2>1 DEF ChildAnswers
<1>28. CASE UNCHANGED vars
  BY <1>28 DEF vars
<1> QED
  BY <1>3, <1>4, <1>5, <1>6, <1>7, <1>8, <1>9, <1>10, <1>11, <1>12, <1>13,
     <1>14, <1>15, <1>16, <1>17, <1>18, <1>19, <1>20, <1>22, <1>23, <1>24,
     <1>25, <1>26, <1>27, <1>28
  DEF Next, WorkerStep, MainStep, StopStep, Done

(* No step leaves a process id in active_pam_pid_ that is not the one the   *)
(* worker is about to wait for or waiting for.                              *)
LEMMA PublishedStep ==
  ASSUME TypeOK, Linked, Published, Locals, [Next]_vars
  PROVE  Published' /\ Locals'
<1> USE BoundAssumption
    DEF TypeOK, Linked, Published, Locals, Reaped, WorkerActive, WorkerGoes,
        MainGoes, WorkerStates
<1>1. CASE WorkerForks \/ WorkerPublishes \/ WorkerRechecks \/ WorkerSlays
  BY <1>1
  DEF WorkerForks, WorkerPublishes, WorkerRechecks, AfterPublish, WorkerSlays
<1>2. CASE WorkerTakesBack
  BY <1>2 DEF WorkerTakesBack, NoPid
<1>3. CASE WorkerReaps
  BY <1>3 DEF WorkerReaps, Waitable
<1>4. CASE WorkerUnpublishes \/ WorkerDecides
  BY <1>4 DEF WorkerUnpublishes, NoPid, WorkerDecides
<1>5. CASE WorkerReports \/ WorkerEnds \/ WorkerWipes \/ WorkerReleases
  BY <1>5 DEF WorkerReports, WorkerEnds, WorkerWipes, WorkerReleases
<1>6. CASE VerifyBegins \/ VerifyFails \/ VerifyClears \/ DeleteBegins
             \/ \E p \in Passwords : VerifyAssigns(p)
  BY <1>6 DEF VerifyBegins, VerifyFails, VerifyClears, DeleteBegins, VerifyAssigns
<1>7. CASE VerifyJoins \/ DeleteJoins
  BY <1>7 DEF VerifyJoins, DeleteJoins
<1>8. CASE VerifySpawns
  BY <1>8 DEF VerifySpawns
<1>9. CASE \E t \in Threads : StopCalled(t) \/ StopStep(t)
  BY <1>9 DEF StopCalled, StopStep, StopExchanges, NoPid, StopKills
<1>10. CASE (\E r \in Rounds : ChildAnswers(r)) \/ UNCHANGED vars
  BY <1>10 DEF ChildAnswers, vars
<1> QED
  BY <1>1, <1>2, <1>3, <1>4, <1>5, <1>6, <1>7, <1>8, <1>9, <1>10
  DEF Next, WorkerStep, MainStep, Done


(* A child is forked, ends or is killed, and reaped in its worker's time.   *)
LEMMA ParenthoodStep ==
  ASSUME TypeOK, Linked, Parenthood, [Next]_vars
  PROVE  Parenthood'
<1> USE DEF Parenthood, Parent
<1>1. /\ child \in [Rounds -> Children]
      /\ worker \in WorkerStates /\ main \in MainStates
      /\ worker.pc # "none" => worker.round \in Rounds
  BY BoundAssumption DEF TypeOK, Linked, Rounds, WorkerStates, MainStates
<1>2. ASSUME NEW c \in Rounds, child[c].state \notin {"none", "reaped"},
             NEW e \in Ended, child' = [child EXCEPT ![c].state = e]
      PROVE  \A r \in Rounds : child'[r].state \notin {"none", "reaped"}
                                <=> child[r].state \notin {"none", "reaped"}
  BY <1>1, <1>2 DEF Children, Ended
<1>3. ASSUME NEW pid, child' = Killed(pid)
      PROVE  \A r \in Rounds : child'[r].state \notin {"none", "reaped"}
                                <=> child[r].state \notin {"none", "reaped"}
  BY <1>2, <1>3 DEF Killed, Ended
<1>4. CASE WorkerForks
  BY <1>1, <1>4 DEF WorkerForks, WorkerGoes, WorkerStates, Children
<1>5. CASE WorkerSlays
  BY <1>1, <1>3, <1>5 DEF WorkerSlays, WorkerGoes, WorkerStates
<1>6. CASE WorkerReaps
  BY <1>1, <1>6 DEF WorkerReaps, WorkerStates, Children
<1>7. CASE WorkerPublishes \/ WorkerRechecks \/ WorkerTakesBack \/ WorkerUnpublishes
             \/ WorkerDecides \/ WorkerReports \/ WorkerEnds \/ WorkerWipes
             \/ WorkerReleases
  <2>1. UNCHANGED <<child, main>> /\ (isRunning' => isRunning)
    BY <1>7
    DEF WorkerPublishes, WorkerRechecks, WorkerTakesBack, WorkerUnpublishes,
        WorkerDecides, WorkerReports, WorkerEnds, WorkerWipes, WorkerReleases
  <2>2. worker'.round = worker.round /\ (worker'.pc \in Parent <=> worker.pc \in Parent)
    <3>1. CASE WorkerPublishes \/ WorkerRechecks \/ WorkerTakesBack
      BY <1>1, <3>1
      DEF WorkerPublishes, WorkerRechecks, AfterPublish, WorkerTakesBack, WorkerGoes,
          WorkerStates
    <3>2. CASE WorkerUnpublishes \/ WorkerDecides \/ WorkerReports
      BY <1>1, <3>2
      DEF WorkerUnpublishes, WorkerDecides, WorkerReports, WorkerGoes, WorkerStates
    <3>3. CASE WorkerEnds \/ WorkerWipes \/ WorkerReleases
      BY <1>1, <3>3 DEF WorkerEnds, WorkerWipes, WorkerReleases, WorkerGoes, WorkerStates
    <3> QED BY <1>7, <3>1, <3>2, <3>3
  <2> QED BY <2>1, <2>2
<1>8. CASE VerifyBegins \/ VerifyFails \/ VerifyClears \/ DeleteBegins
             \/ \E p \in Passwords : VerifyAssigns(p)
  <2>1. /\ UNCHANGED <<child, worker>>
        /\ main'.pc \in {"djoin", "deleted"} => ~isRunning'
    BY <1>1, <1>8
    DEF VerifyBegins, VerifyFails, VerifyClears, DeleteBegins, StopTakes, VerifyAssigns,
        MainGoes, MainStates
  <2> QED BY <2>1
<1>9. CASE VerifyJoins \/ DeleteJoins \/ VerifySpawns
  <2>1. /\ UNCHANGED <<child, isRunning>>
        /\ worker.pc \notin Parent /\ worker'.pc \notin Parent
        /\ main'.pc \in {"djoin", "deleted"} => main.pc = "djoin"
    BY <1>1, <1>9
    DEF VerifyJoins, DeleteJoins, VerifySpawns, Linked, MainGoes, WorkerActive, MainStates,
        WorkerStates
  <2> QED BY <2>1
<1>10. CASE \E t \in Threads : StopCalled(t) \/ StopExchanges(t)
  BY <1>10 DEF StopCalled, StopTakes, StopExchanges
<1>11. CASE \E t \in Threads : StopKills(t)
  BY <1>3, <1>11 DEF StopKills
<1>12. ASSUME NEW c \in Rounds, ChildAnswers(c)
       PROVE  Parenthood'
  <2>1. PICK e \in Ended : child' = [child EXCEPT ![c].state = e]
    BY <1>12 DEF ChildAnswers, PamVerdicts, Ended
  <2> QED BY <1>2, <1>12, <2>1 DEF ChildAnswers
<1>13. CASE UNCHANGED vars
  BY <1>13 DEF vars
<1> QED
  BY <1>4, <1>5, <1>6, <1>7, <1>8, <1>9, <1>10, <1>11, <1>12, <1>13
  DEF Next, WorkerStep, MainStep, StopStep, Done

-----------------------------------------------------------------------------
(* What a step leaves alone of the records of the rounds in S. *)
KeptAsked(S) == \A r \in S : past'[r].asked = past[r].asked
KeptReport(S) == \A r \in S : past'[r].report = past[r].report
KeptCut(S) == \A r \in S : past'[r].cut = past[r].cut
KeptNotified(S) == \A r \in S : past'[r].notified = past[r].notified
KeptChild(S) == \A r \in S : child'[r] = child[r]

(* Assigning one field of the record of a round leaves the others alone. *)
LEMMA PastFields ==
  ASSUME past \in [Rounds -> Histories], NEW r \in Rounds, NEW a
  PROVE  /\ past' = [past EXCEPT ![r].asked = a]
              => /\ past'[r].asked = a /\ KeptAsked(Rounds \ {r})
                 /\ KeptReport(Rounds) /\ KeptCut(Rounds) /\ KeptNotified(Rounds)
         /\ past' = [past EXCEPT ![r].report = a]
              => /\ past'[r].report = a /\ KeptReport(Rounds \ {r})
                 /\ KeptAsked(Rounds) /\ KeptCut(Rounds) /\ KeptNotified(Rounds)
         /\ past' = [past EXCEPT ![r].cut = a]
              => /\ past'[r].cut = a /\ KeptCut(Rounds \ {r})
                 /\ KeptAsked(Rounds) /\ KeptReport(Rounds) /\ KeptNotified(Rounds)
         /\ past' = [past EXCEPT ![r].notified = a]
              => /\ past'[r].notified = a /\ KeptNotified(Rounds \ {r})
                 /\ KeptAsked(Rounds) /\ KeptReport(Rounds) /\ KeptCut(Rounds)
<1> USE DEF KeptAsked, KeptReport, KeptCut, KeptNotified, Histories
<1>1. ASSUME past' = [past EXCEPT ![r].asked = a]
      PROVE  /\ past'[r].asked = a /\ KeptAsked(Rounds \ {r})
             /\ KeptReport(Rounds) /\ KeptCut(Rounds) /\ KeptNotified(Rounds)
  BY <1>1
<1>2. ASSUME past' = [past EXCEPT ![r].report = a]
      PROVE  /\ past'[r].report = a /\ KeptReport(Rounds \ {r})
             /\ KeptAsked(Rounds) /\ KeptCut(Rounds) /\ KeptNotified(Rounds)
  BY <1>2
<1>3. ASSUME past' = [past EXCEPT ![r].cut = a]
      PROVE  /\ past'[r].cut = a /\ KeptCut(Rounds \ {r})
             /\ KeptAsked(Rounds) /\ KeptReport(Rounds) /\ KeptNotified(Rounds)
  BY <1>3
<1>4. ASSUME past' = [past EXCEPT ![r].notified = a]
      PROVE  /\ past'[r].notified = a /\ KeptNotified(Rounds \ {r})
             /\ KeptAsked(Rounds) /\ KeptReport(Rounds) /\ KeptCut(Rounds)
  BY <1>4
<1> HIDE DEF KeptAsked, KeptReport, KeptCut, KeptNotified, Histories
<1> QED BY <1>1, <1>2, <1>3, <1>4

(* A child process that changes its state keeps the password it inherited. *)
LEMMA ChildFields ==
  ASSUME child \in [Rounds -> Children], NEW r \in Rounds, NEW s,
         child' = [child EXCEPT ![r].state = s]
  PROVE  /\ child'[r].state = s /\ child'[r].guess = child[r].guess
         /\ KeptChild(Rounds \ {r})
BY DEF KeptChild, Children

(* Every step keeps what is known of the rounds.  Each case first lists what *)
(* the action does to the fields the invariant looks at.                    *)
LEMMA RoundsStep ==
  ASSUME TypeOK, Linked, Published, Locals, RoundsInv, [Next]_vars
  PROVE  RoundsInv'
<1> USE DEF RoundsInv
<1>1. /\ worker.round \in Nat /\ main.round \in Nat
      /\ isRunning \/ worker.pc # "none" => main.round \in Rounds
      /\ main.pc = "spawn" => main.round \in Rounds
      /\ worker.round # 0 => worker.round \in Rounds
      /\ worker.pc # "none" => worker.round \in Rounds
      /\ Rounds \subseteq Nat
  BY BoundAssumption DEF TypeOK, Linked, WorkerStates, MainStates, Rounds
<1> USE <1>1
<1>2. CASE WorkerForks
  <2>1. worker.pc = "fork" /\ worker.round \in Rounds
        /\ UNCHANGED <<isRunning, candidate, main, stops, worker.round, worker.status>>
    BY <1>2 DEF WorkerForks, WorkerGoes, TypeOK, WorkerStates
  <2>2. ASSUME worker'.pc = "publish", UNCHANGED past,
               child' = [child EXCEPT ![worker.round] = [state |-> "running",
                                                         guess |-> candidate]]
        PROVE  RoundsInv'
    <3>1. /\ child'[worker.round].state = "running"
          /\ child'[worker.round].guess = candidate
          /\ KeptChild(Rounds \ {worker.round})
      BY <2>1, <2>2 DEF KeptChild, TypeOK
    <3> QED
      BY <2>1, <2>2, <3>1
      DEF KeptChild, PastFollows, CandidateFollows, GrantMeansRight,
          FinishMeansRight, StopIsTold, KilledWasCut, DeniedByPam, Linked,
          Unanswered, Reaped, WorkerActive
  <2>3. ASSUME worker'.pc = "end", UNCHANGED child,
               past' = [past EXCEPT ![worker.round].report = "system"]
        PROVE  RoundsInv'
    <3>1. /\ past'[worker.round].report = "system"
          /\ KeptReport(Rounds \ {worker.round})
          /\ KeptAsked(Rounds) /\ KeptCut(Rounds) /\ KeptNotified(Rounds)
      BY <2>1, <2>3, PastFields DEF TypeOK
    <3> QED
      BY <2>1, <2>3, <3>1
      DEF KeptReport, KeptAsked, KeptCut, KeptNotified, PastFollows,
          CandidateFollows, GrantMeansRight, FinishMeansRight, StopIsTold,
          KilledWasCut, DeniedByPam, Linked, Unanswered, Reaped, WorkerActive
  <2> QED BY <1>2, <2>2, <2>3 DEF WorkerForks, WorkerGoes, TypeOK, WorkerStates
<1>3. CASE WorkerPublishes \/ WorkerRechecks \/ WorkerTakesBack
             \/ WorkerUnpublishes \/ WorkerDecides
  <2>1. /\ worker.pc \in Unanswered
        /\ UNCHANGED <<isRunning, candidate, main, stops, child, past,
                       worker.round, worker.status>>
    BY <1>3 DEF WorkerPublishes, WorkerRechecks, WorkerTakesBack, WorkerUnpublishes,
                WorkerDecides, WorkerGoes, TypeOK, WorkerStates, Unanswered
  <2>2. \/ worker'.pc \in {"recheck", "wait"}
        \/ worker'.pc = "takeback" /\ ~isRunning
        \/ worker'.pc = "slay" /\ worker.pc = "takeback"
        \/ worker'.pc \in {"verdict", "report"} /\ worker.pc \in Reaped
        \/ worker'.pc = "end" /\ ~isRunning
    BY <1>3
    DEF WorkerPublishes, WorkerRechecks, AfterPublish, WorkerTakesBack,
        WorkerUnpublishes, WorkerDecides, WorkerGoes, TypeOK, WorkerStates, Reaped
  <2> QED
    BY <2>1, <2>2
    DEF PastFollows, CandidateFollows, GrantMeansRight, FinishMeansRight,
        StopIsTold, KilledWasCut, DeniedByPam, Linked, Unanswered, Reaped,
        WorkerActive
<1>4. CASE WorkerSlays
  <2>1. /\ worker.pc = "slay" /\ worker'.pc = "wait" /\ worker.got = worker.round
        /\ UNCHANGED <<isRunning, candidate, main, stops, past,
                       worker.round, worker.status>>
    BY <1>4 DEF WorkerSlays, WorkerGoes, Locals, TypeOK, WorkerStates
  <2>2. /\ child'[worker.round].state \in {child[worker.round].state, "killed"}
        /\ child'[worker.round].state = "killed" \/ child' = child
        /\ child'[worker.round].guess = child[worker.round].guess
        /\ child[worker.round].state = "none" => child' = child
        /\ KeptChild(Rounds \ {worker.round})
    BY <1>4, <2>1, ChildFields DEF WorkerSlays, Killed, KeptChild, TypeOK
  <2> QED
    BY <2>1, <2>2
    DEF KeptChild, PastFollows, CandidateFollows, GrantMeansRight,
        FinishMeansRight, StopIsTold, KilledWasCut, DeniedByPam, Linked,
        Unanswered, Reaped, WorkerActive
<1>5. CASE WorkerReaps
  <2>1. /\ worker.pc = "wait" /\ worker'.pc = "unpublish"
        /\ worker'.status = child[worker.round].state
        /\ UNCHANGED <<isRunning, candidate, main, stops, past, worker.round>>
    BY <1>5 DEF WorkerReaps, TypeOK, WorkerStates
  <2>2. /\ child[worker.round].state \in Ended
        /\ child'[worker.round].state = "reaped"
        /\ child'[worker.round].guess = child[worker.round].guess
        /\ KeptChild(Rounds \ {worker.round})
    BY <1>5, <2>1, ChildFields DEF WorkerReaps, Waitable, TypeOK
  <2> QED
    BY <2>1, <2>2
    DEF KeptChild, Ended, PastFollows, CandidateFollows, GrantMeansRight,
        FinishMeansRight, StopIsTold, KilledWasCut, DeniedByPam, Linked,
        Unanswered, Reaped, WorkerActive
<1>6. CASE WorkerReports
  <2>1. /\ worker.pc = "report" /\ worker'.pc = "end" /\ worker.status \in Ended
        /\ UNCHANGED <<candidate, main, stops, child, worker.round, worker.status>>
    BY <1>6 DEF WorkerReports, WorkerGoes, Locals, Reaped, TypeOK, WorkerStates
  <2>2. PICK b \in BOOLEAN :
          /\ past' = [past EXCEPT ![worker.round].report =
                                     IF worker.status = "granted" THEN "finish"
                                                                  ELSE "denied",
                                  ![main.round].cut = @ \/ b]
          /\ isRunning' = isRunning \/ (b /\ isRunning' = FALSE)
    BY <1>6 DEF WorkerReports
  <2>3. /\ past'[worker.round].report = IF worker.status = "granted" THEN "finish"
                                                                     ELSE "denied"
        /\ KeptReport(Rounds \ {worker.round})
        /\ KeptAsked(Rounds) /\ KeptCut(Rounds \ {main.round}) /\ KeptNotified(Rounds)
        /\ past[main.round].cut \/ b => past'[main.round].cut
        /\ isRunning' = isRunning \/ b
    <3> worker.round \in Rounds /\ main.round \in Rounds
      BY <2>1
    <3> DEFINE a == IF worker.status = "granted" THEN "finish" ELSE "denied"
               reported == [past EXCEPT ![worker.round].report = a]
    <3>1. /\ reported \in [Rounds -> Histories] /\ reported[worker.round].report = a
          /\ \A r \in Rounds :
               /\ reported[r].asked = past[r].asked /\ reported[r].cut = past[r].cut
               /\ reported[r].notified = past[r].notified
               /\ r # worker.round => reported[r].report = past[r].report
      BY DEF TypeOK, Histories
    <3>2. past' = [reported EXCEPT ![main.round].cut = @ \/ b]
      BY <2>2
    <3> HIDE DEF a, reported
    <3>3. \A r \in Rounds :
               /\ past'[r].asked = reported[r].asked
               /\ past'[r].notified = reported[r].notified
               /\ past'[r].report = reported[r].report
               /\ r # main.round => past'[r].cut = reported[r].cut
      BY <3>1, <3>2 DEF Histories
    <3>4. past'[main.round].cut = (reported[main.round].cut \/ b)
      BY <3>1, <3>2 DEF Histories
    <3>5. past[main.round].cut \/ b => past'[main.round].cut
      BY <3>1, <3>4
    <3>6. /\ past'[worker.round].report = a
          /\ KeptReport(Rounds \ {worker.round})
          /\ KeptAsked(Rounds) /\ KeptCut(Rounds \ {main.round}) /\ KeptNotified(Rounds)
      BY <3>1, <3>3 DEF KeptReport, KeptAsked, KeptCut, KeptNotified
    <3> QED BY <2>2, <3>5, <3>6 DEF a
  <2> USE DEF KeptReport, KeptAsked, KeptCut, KeptNotified, Linked, Ended,
              Unanswered, Reaped, WorkerActive
  <2>4. PastFollows'
    BY <2>1, <2>3 DEF PastFollows
  <2>5. CandidateFollows'
    BY <2>1, <2>3 DEF CandidateFollows
  <2>6. GrantMeansRight' /\ FinishMeansRight'
    BY <2>1, <2>3 DEF GrantMeansRight, FinishMeansRight
  <2>7. StopIsTold'
    BY <2>1, <2>3 DEF StopIsTold
  <2>8. KilledWasCut'
    <3>1. \A r \in Rounds : past[r].cut => past'[r].cut
      BY <2>3
    <3>2. ~isRunning' => ~isRunning \/ past'[main.round].cut
      BY <2>3
    <3> QED BY <2>1, <3>1, <3>2 DEF KilledWasCut
  <2>9. DeniedByPam'
    BY <2>1, <2>3 DEF DeniedByPam, KilledWasCut
  <2> QED BY <2>4, <2>5, <2>6, <2>7, <2>8, <2>9

<1>7. CASE WorkerEnds
  <2>1. /\ worker.pc = "end" /\ worker'.pc = "wipe"
        /\ UNCHANGED <<isRunning, candidate, main, stops, child,
                       worker.round, worker.status>>
    BY <1>7 DEF WorkerEnds, WorkerGoes, TypeOK, WorkerStates
  <2>2. /\ past'[worker.round].notified = ~isRunning
        /\ KeptAsked(Rounds) /\ KeptReport(Rounds) /\ KeptCut(Rounds)
    BY <1>7, <2>1, PastFields DEF WorkerEnds, Stopped, TypeOK
  <2> USE DEF KeptReport, KeptAsked, KeptCut, Linked, Unanswered, Reaped,
              WorkerActive
  <2>3. PastFollows' /\ CandidateFollows' /\ GrantMeansRight' /\ FinishMeansRight'
    BY <2>1, <2>2
    DEF PastFollows, CandidateFollows, GrantMeansRight, FinishMeansRight
  <2>4. StopIsTold'
    BY <2>1, <2>2 DEF StopIsTold
  <2>5. KilledWasCut' /\ DeniedByPam'
    BY <2>1, <2>2 DEF KilledWasCut, DeniedByPam
  <2> QED BY <2>3, <2>4, <2>5
<1>8. CASE WorkerWipes \/ WorkerReleases
  <2>1. /\ UNCHANGED <<main, stops, child, past, worker.round, worker.status>>
        /\ \/ worker.pc = "wipe" /\ worker'.pc = "release"
              /\ candidate' = NoPass /\ isRunning' = isRunning
           \/ worker.pc = "release" /\ worker'.pc = "done"
              /\ candidate' = candidate
    BY <1>8
    DEF WorkerWipes, WorkerReleases, Cleared, WorkerGoes, TypeOK, WorkerStates
  <2> QED
    BY <2>1 DEF PastFollows, CandidateFollows, GrantMeansRight, FinishMeansRight,
          StopIsTold, KilledWasCut, DeniedByPam, Linked, Unanswered, Reaped,
          WorkerActive
<1>9. CASE VerifyBegins
  <2>1. /\ main.pc = "idle" /\ main'.pc = "join" /\ main'.round = main.round + 1
        /\ ~main'.eager => /\ ~main.eager /\ ~WorkerActive
                           /\ \A t \in Threads : stops[t].pc = "idle"
        /\ isRunning' = TRUE
        /\ UNCHANGED <<candidate, worker, stops, child, past>>
    BY <1>9 DEF VerifyBegins
  <2> QED
    BY <2>1 DEF PastFollows, CandidateFollows, GrantMeansRight, FinishMeansRight,
          StopIsTold, KilledWasCut, DeniedByPam, Linked, Unanswered, Reaped,
          WorkerActive
<1>10. CASE VerifyJoins \/ VerifySpawns
  <2>1. /\ UNCHANGED <<isRunning, candidate, stops, child, past,
                       main.round, main.eager, worker.status>>
        /\ \/ main.pc = "join" /\ main'.pc = "assign" /\ worker.pc \in {"none", "done"}
              /\ worker'.pc = "none" /\ worker'.round = worker.round
           \/ main.pc = "spawn" /\ main'.pc = "idle"
              /\ worker'.pc = "fork" /\ worker'.round = main.round
           \/ main.pc = "spawn" /\ main'.pc = "failed" /\ worker' = worker
    <3>1. CASE VerifyJoins
      BY <3>1 DEF VerifyJoins, MainGoes, WorkerActive, TypeOK, WorkerStates, MainStates
    <3>2. CASE VerifySpawns
      <4>1. /\ main.pc = "spawn" /\ main'.round = main.round /\ main'.eager = main.eager
            /\ UNCHANGED <<isRunning, candidate, stops, child, past>>
        BY <3>2 DEF VerifySpawns, MainGoes, TypeOK, MainStates
      <4>2. \/ /\ main'.pc = "idle" /\ worker'.pc = "fork" /\ worker'.round = main.round
               /\ worker'.status = worker.status
            \/ main'.pc = "failed" /\ worker' = worker
        BY <3>2 DEF VerifySpawns, MainGoes, TypeOK, WorkerStates, MainStates
      <4> QED BY <4>1, <4>2
    <3> QED BY <1>10, <3>1, <3>2
  <2> USE DEF Linked, Unanswered, Reaped, WorkerActive
  <2>4. PastFollows'
    BY <2>1 DEF PastFollows
  <2>5. CandidateFollows'
    BY <2>1 DEF CandidateFollows
  <2>6. GrantMeansRight' /\ FinishMeansRight'
    BY <2>1 DEF GrantMeansRight, FinishMeansRight
  <2>7. StopIsTold'
    BY <2>1 DEF StopIsTold
  <2>8. KilledWasCut'
    BY <2>1 DEF KilledWasCut
  <2>9. DeniedByPam'
    BY <2>1 DEF DeniedByPam, PastFollows
  <2> QED BY <2>4, <2>5, <2>6, <2>7, <2>8, <2>9
<1>11. ASSUME NEW p \in Passwords, VerifyAssigns(p)
       PROVE  RoundsInv'
  <2>1. /\ main.pc = "assign" /\ main'.pc \in {"spawn", "failed"}
        /\ main.round \in Rounds
        /\ UNCHANGED <<isRunning, worker, stops, child, main.round, main.eager>>
    BY <1>11, BoundAssumption
    DEF VerifyAssigns, MainGoes, TypeOK, Linked, MainStates, Rounds
  <2>2. ASSUME UNCHANGED <<candidate, past>>, main'.pc = "failed"
        PROVE  RoundsInv'
    BY <2>1, <2>2
    DEF PastFollows, CandidateFollows, GrantMeansRight, FinishMeansRight,
        StopIsTold, KilledWasCut, DeniedByPam, Linked, Unanswered, Reaped,
        WorkerActive
  <2>3. ASSUME main'.pc = "spawn", candidate' = p,
               past' = [past EXCEPT ![main.round].asked = p]
        PROVE  RoundsInv'
    <3>1. /\ past'[main.round].asked = p /\ KeptAsked(Rounds \ {main.round})
          /\ KeptReport(Rounds) /\ KeptCut(Rounds) /\ KeptNotified(Rounds)
      BY <2>1, <2>3, PastFields DEF TypeOK
    <3> USE DEF KeptReport, KeptAsked, KeptCut, KeptNotified, Linked, Unanswered,
                Reaped, WorkerActive
  <3>4. PastFollows'
    BY <2>1, <2>3, <3>1 DEF PastFollows
  <3>5. CandidateFollows'
    BY <2>1, <2>3, <3>1 DEF CandidateFollows
  <3>6. GrantMeansRight' /\ FinishMeansRight'
    BY <2>1, <2>3, <3>1 DEF GrantMeansRight, FinishMeansRight, PastFollows
  <3>7. StopIsTold'
    BY <2>1, <2>3, <3>1 DEF StopIsTold
  <3>8. KilledWasCut'
    BY <2>1, <2>3, <3>1 DEF KilledWasCut
  <3>9. DeniedByPam'
    BY <2>1, <2>3, <3>1 DEF DeniedByPam, PastFollows
  <3> QED BY <3>4, <3>5, <3>6, <3>7, <3>8, <3>9
  <2> QED BY <1>11, <2>2, <2>3 DEF VerifyAssigns, MainGoes, TypeOK, MainStates
<1>12. CASE VerifyFails \/ VerifyClears \/ DeleteJoins
  <2>1. /\ UNCHANGED <<stops, child, past, main.round, main.eager,
                       worker.round, worker.status>>
        /\ worker.pc \in {"none", "done"} /\ worker'.pc \in {worker.pc, "none"}
        /\ \/ main.pc = "failed" /\ main'.pc = "clear"
           \/ main.pc \in {"clear", "djoin"} /\ main'.pc \in {"idle", "deleted"}
                /\ candidate' = NoPass
    BY <1>12
    DEF VerifyFails, VerifyClears, DeleteJoins, Cleared, MainGoes, WorkerActive,
        TypeOK, Linked, WorkerStates, MainStates
  <2> QED
    BY <2>1 DEF PastFollows, CandidateFollows, GrantMeansRight, FinishMeansRight,
          StopIsTold, KilledWasCut, DeniedByPam, Linked, Unanswered, Reaped,
          WorkerActive
<1>13. ASSUME NEW t \in Threads, StopTakes(t),
              UNCHANGED <<candidate, worker, child, main.round, main.eager>>,
              \/ main' = main
              \/ main.pc = "idle" /\ main'.pc = "djoin"
       PROVE  RoundsInv'
  <2>1. /\ isRunning' = FALSE /\ main.round \in Rounds
        /\ stops'[t].pc = "exchange" /\ \A u \in Threads \ {t} : stops'[u] = stops[u]
    BY <1>13 DEF StopTakes, TypeOK, StopStates
  <2>2. /\ past'[main.round].cut = TRUE /\ KeptCut(Rounds \ {main.round})
        /\ KeptAsked(Rounds) /\ KeptReport(Rounds) /\ KeptNotified(Rounds)
    BY <1>13, <2>1, PastFields DEF StopTakes, Cut, TypeOK
  <2> USE DEF KeptReport, KeptAsked, KeptCut, KeptNotified, Linked, Unanswered,
              Reaped, WorkerActive
  <2>4. PastFollows'
    BY <1>13, <2>1, <2>2 DEF PastFollows
  <2>5. CandidateFollows'
    BY <1>13, <2>1, <2>2 DEF CandidateFollows
  <2>6. GrantMeansRight' /\ FinishMeansRight'
    BY <1>13, <2>1, <2>2 DEF GrantMeansRight, FinishMeansRight, PastFollows
  <2>7. StopIsTold'
    BY <1>13, <2>1, <2>2 DEF StopIsTold
  <2>8. KilledWasCut'
    BY <1>13, <2>1, <2>2 DEF KilledWasCut, Rounds
  <2>9. DeniedByPam'
    BY <1>13, <2>1, <2>2 DEF DeniedByPam, Rounds
  <2> QED BY <2>4, <2>5, <2>6, <2>7, <2>8, <2>9
<1>14. ASSUME NEW t \in Threads, StopCalled(t)
       PROVE  RoundsInv'
  BY <1>13, <1>14 DEF StopCalled
<1>15. CASE DeleteBegins
  <2>1. /\ main.pc = "idle" /\ main'.pc = "djoin"
        /\ UNCHANGED <<main.round, main.eager, candidate, worker, child>>
    BY <1>15 DEF DeleteBegins, MainGoes, TypeOK, MainStates
  <2>2. CASE StopTakes(Main)
    BY <1>13, <2>1, <2>2 DEF Threads
  <2>3. CASE UNCHANGED <<isRunning, stops, past>>
    BY <2>1, <2>3
    DEF PastFollows, CandidateFollows, GrantMeansRight, FinishMeansRight,
        StopIsTold, KilledWasCut, DeniedByPam, Linked, Unanswered, Reaped,
        WorkerActive
  <2> QED BY <1>15, <2>2, <2>3 DEF DeleteBegins
<1>16. ASSUME NEW t \in Threads, StopExchanges(t)
       PROVE  RoundsInv'
  <2>1. /\ stops[t].pc = "exchange" /\ \A u \in Threads \ {t} : stops'[u] = stops[u]
        /\ UNCHANGED <<isRunning, candidate, main, worker, child, past>>
        /\ \/ stops'[t].pc = "idle"
           \/ stops'[t].pc = "kill" /\ stops'[t].got = pamPid /\ pamPid # 0
    BY <1>16 DEF StopExchanges, TypeOK
  <2>2. pamPid # 0 => pamPid = worker.round /\ WorkerActive
    BY DEF Published, WorkerActive
  <2> QED
    BY <2>1, <2>2
    DEF PastFollows, CandidateFollows, GrantMeansRight, FinishMeansRight,
        StopIsTold, KilledWasCut, DeniedByPam, Linked, Unanswered, Reaped,
        WorkerActive
<1>17. ASSUME NEW t \in Threads, StopKills(t)
       PROVE  RoundsInv'
  <2> DEFINE pid == stops[t].got
  <2>1. /\ stops[t].pc = "kill" /\ stops'[t].pc = "idle"
        /\ \A u \in Threads \ {t} : stops'[u] = stops[u]
        /\ UNCHANGED <<isRunning, candidate, main, worker, past>>
    BY <1>17 DEF StopKills, TypeOK
  <2>2. \/ child' = child
        \/ /\ pid \in Rounds /\ child[pid].state = "running"
           /\ child'[pid].state = "killed" /\ child'[pid].guess = child[pid].guess
           /\ KeptChild(Rounds \ {pid})
    BY <1>17, ChildFields DEF StopKills, Killed, TypeOK
  <2> QED
    BY <2>1, <2>2
    DEF KeptChild, PastFollows, CandidateFollows, GrantMeansRight,
        FinishMeansRight, StopIsTold, KilledWasCut, DeniedByPam, Linked,
        Unanswered, Reaped, WorkerActive
<1>18. ASSUME NEW r \in Rounds, ChildAnswers(r)
       PROVE  RoundsInv'
  <2>1. PICK verdict \in PamVerdicts(child[r].guess) :
          child' = [child EXCEPT ![r].state = verdict]
    BY <1>18 DEF ChildAnswers
  <2>2. /\ child[r].state = "running" /\ child'[r].state = verdict
        /\ child'[r].guess = child[r].guess /\ KeptChild(Rounds \ {r})
        /\ UNCHANGED <<isRunning, candidate, main, worker, stops, past>>
    BY <1>18, <2>1, ChildFields DEF ChildAnswers, TypeOK
  <2> QED
    BY <2>1, <2>2
    DEF PamVerdicts, KeptChild, PastFollows, CandidateFollows, GrantMeansRight,
        FinishMeansRight, StopIsTold, KilledWasCut, DeniedByPam, Linked,
        Unanswered, Reaped, WorkerActive
<1>19. CASE UNCHANGED vars
  BY <1>19
  DEF vars, PastFollows, CandidateFollows, GrantMeansRight, FinishMeansRight,
      StopIsTold, KilledWasCut, DeniedByPam, Linked, Unanswered, Reaped,
      WorkerActive
<1> QED
  BY <1>2, <1>3, <1>4, <1>5, <1>6, <1>7, <1>8, <1>9, <1>10, <1>11, <1>12, <1>14,
     <1>15, <1>16, <1>17, <1>18, <1>19
  DEF Next, WorkerStep, MainStep, StopStep, Done

(* IInv holds initially and every step keeps it. *)
LEMMA Inductive ==
  Spec => []IInv
<1>1. Init => IInv
  <2> SUFFICES ASSUME Init PROVE IInv
    OBVIOUS
  <2> USE BoundAssumption DEF Init
  <2>1. TypeOK
    <3>1. main \in MainStates /\ worker \in WorkerStates
      BY DEF MainStates, WorkerStates
    <3>2. stops \in [Threads -> StopStates]
      BY DEF StopStates
    <3>3. child \in [Rounds -> Children] /\ past \in [Rounds -> Histories]
      BY DEF Children, Histories
    <3>4. isRunning \in BOOLEAN /\ candidate \in Passwords \cup {NoPass}
      BY Zenon
    <3>5. pamPid \in 0 .. MaxRounds
      OBVIOUS
    <3> HIDE DEF Init
    <3> QED BY <3>1, <3>2, <3>3, <3>4, <3>5 DEF TypeOK
  <2>2. Linked /\ Published /\ Parenthood /\ Locals
    BY DEF Linked, Published, Parenthood, Parent, Locals, Reaped
  <2>3. RoundsInv
    BY DEF RoundsInv, PastFollows, CandidateFollows, GrantMeansRight,
           FinishMeansRight, StopIsTold, KilledWasCut, DeniedByPam, Unanswered,
           Reaped, WorkerActive
  <2> QED BY <2>1, <2>2, <2>3 DEF IInv
<1>2. IInv /\ [Next]_vars => IInv'
  BY TypedStep, PublishedStep, ParenthoodStep, RoundsStep DEF IInv
<1> QED BY <1>1, <1>2, PTL DEF Spec

(* Type correctness of the object, its threads and its child processes. *)
THEOREM TypeCorrect ==
  Spec => []TypeOK
<1>1. IInv => TypeOK
  BY DEF IInv
<1> QED BY <1>1, Inductive, PTL

(* active_pam_pid_ is set only around the waitpid() for the child of the    *)
(* round under way, and that child has not been reaped but for the one step *)
(* between waitpid() and the store of 0.                                    *)
THEOREM PidIsOfThisRound ==
  Spec => []PublishedIsMine
<1>1. IInv => PublishedIsMine
  <2> SUFFICES ASSUME IInv, pamPid # 0,
                      worker.pc \in {"recheck", "takeback", "wait"}
               PROVE  child[worker.round].state # "reaped"
    BY DEF IInv, Published, PublishedIsMine
  <2>1. worker.round \in Rounds
    BY BoundAssumption DEF IInv, TypeOK, Linked, Rounds, WorkerStates, MainStates
  <2> QED BY <2>1 DEF IInv, Parenthood, Parent
<1> QED BY <1>1, Inductive, PTL

(* ~Password() leaves neither a flag nor a process id nor a child to a      *)
(* stop() that it did not wait for.                                         *)
THEOREM NothingOutlivesTheObject ==
  Spec => []DestroyedInert
<1>1. IInv => DestroyedInert
  BY DEF IInv, Linked, Published, Parenthood, Parent, DestroyedInert
<1> QED BY <1>1, Inductive, PTL

(* on_finish is called only for a round that was asked with the right       *)
(* password, although nothing protects candidate_ from the other threads.   *)
THEOREM FinishIsEarned ==
  Spec => []FinishMeansRight
<1>1. IInv => FinishMeansRight
  BY DEF IInv, RoundsInv
<1> QED BY <1>1, Inductive, PTL

(* clear_candidate() is reached on every path: no password survives the     *)
(* round it was entered for.                                                *)
THEOREM PasswordForgotten ==
  Spec => []CandidateWiped
<1>1. IInv => CandidateWiped
  BY DEF IInv, RoundsInv, CandidateFollows, CandidateWiped, WorkerActive
<1> QED BY <1>1, Inductive, PTL

(* run_worker() loses no round: it has reported or has called on_stop when  *)
(* it ends, if the owner did not verify over a living worker.               *)
THEOREM NoRoundLost ==
  Spec => []AnsweredOrStopped
<1>1. IInv => AnsweredOrStopped
  BY DEF IInv, RoundsInv, StopIsTold, AnsweredOrStopped
<1> QED BY <1>1, Inductive, PTL

(* A denial that on_error reports for a round nobody stopped is PAM's: no   *)
(* late kill() of an earlier stop() reaches the child of a later round.     *)
THEOREM DenialIsFromPam ==
  Spec => []DeniedByPam
<1>1. IInv => DeniedByPam
  BY DEF IInv, RoundsInv
<1> QED BY <1>1, Inductive, PTL

-----------------------------------------------------------------------------
(* The state of Password under the refinement mapping is one of Verifier. *)
LEMMA ViewFields ==
  ASSUME TypeOK
  PROVE  /\ View \in V!Verifiers
         /\ View.flag = isRunning /\ View.thread = Thread /\ View.owner = Owner
<1>1. /\ Thread \in {"none", "busy", "handler", "ending", "done"}
      /\ Owner \in {"idle", "join", "claim", "launch", "delete", "deleted"}
  BY DEF TypeOK, WorkerStates, MainStates, Thread, Owner
<1> QED BY <1>1 DEF TypeOK, View, V!Verifiers

(* Every step of Password is a step of the verifier or leaves it alone. *)
LEMMA VerifierStep ==
  ASSUME IInv, IInv', [Next]_vars
  PROVE  [V!Next]_View
<1> USE DEF IInv, RoundsInv
<1>1. /\ View \in V!Verifiers /\ View' \in V!Verifiers
      /\ View.flag = isRunning /\ View.thread = Thread /\ View.owner = Owner
      /\ View'.flag = isRunning' /\ View'.thread = Thread' /\ View'.owner = Owner'
  <2>1. (View \in V!Verifiers
         /\ View.flag = isRunning /\ View.thread = Thread /\ View.owner = Owner)'
    BY ViewFields, PTL
  <2> QED BY <2>1, ViewFields
<1>2. /\ worker \in WorkerStates /\ worker' \in WorkerStates
      /\ main \in MainStates /\ main' \in MainStates
      /\ past \in [Rounds -> Histories]
      /\ worker.pc # "none" => worker.round \in Rounds /\ main.round \in Rounds
  BY BoundAssumption DEF TypeOK, Linked, Rounds, WorkerStates, MainStates
<1>3. CASE WorkerForks \/ WorkerPublishes \/ WorkerRechecks \/ WorkerTakesBack
             \/ WorkerSlays \/ WorkerReaps \/ WorkerUnpublishes
  <2>1. Thread = "busy" /\ Thread' = "busy"
    <3>1. CASE WorkerForks
      BY <1>2, <3>1
      DEF WorkerForks, WorkerGoes, WorkerStates, Histories, PastFollows, Unanswered,
          Thread
    <3>2. CASE WorkerPublishes \/ WorkerRechecks \/ WorkerTakesBack
      BY <1>2, <3>2
      DEF WorkerPublishes, WorkerRechecks, AfterPublish, WorkerTakesBack, WorkerGoes,
          WorkerStates, Thread
    <3>3. CASE WorkerSlays \/ WorkerReaps \/ WorkerUnpublishes
      BY <1>2, <3>3
      DEF WorkerSlays, WorkerReaps, WorkerUnpublishes, WorkerGoes, WorkerStates, Thread
    <3> QED BY <1>3, <3>1, <3>2, <3>3
  <2>2. isRunning' = isRunning /\ Owner' = Owner
    BY <1>3
    DEF WorkerForks, WorkerPublishes, WorkerRechecks, WorkerTakesBack, WorkerSlays,
        WorkerReaps, WorkerUnpublishes, Owner
  <2> QED BY <2>1, <2>2 DEF View
<1>4. CASE WorkerDecides
  <2>1. Thread = "busy" /\ Owner' = Owner /\ isRunning' = isRunning
    BY <1>4 DEF WorkerDecides, WorkerGoes, Thread, Owner
  <2>2. Thread' = "busy" \/ (Thread' = "handler" /\ isRunning)
    BY <1>2, <1>4
    DEF WorkerDecides, WorkerGoes, WorkerStates, PastFollows, Unanswered, Thread
  <2>3. ASSUME Thread' = "handler", isRunning PROVE V!Finish
    BY <1>1, <2>1, <2>3 DEF V!Finish, V!Verifiers
  <2> QED BY <2>1, <2>2, <2>3 DEF V!Next, View
<1>5. CASE WorkerReports
  <2>1. /\ worker.pc = "report" /\ worker'.pc = "end" /\ Owner' = Owner
        /\ worker'.round = worker.round
        /\ isRunning' = isRunning \/ (isRunning' = FALSE /\ worker.status = "granted")
        /\ past'[worker.round].report = IF worker.status = "granted" THEN "finish"
                                                                     ELSE "denied"
    BY <1>2, <1>5 DEF WorkerReports, WorkerGoes, WorkerStates, Histories, Owner
  <2>2. CASE worker.status = "granted"
    <3>1. Thread = "handler" /\ Thread' = "ending"
      BY <2>1, <2>2 DEF Thread
    <3>2. View' = [View EXCEPT !.thread = "ending", !.flag = isRunning']
      <4>1. View'.owner = View.owner /\ isRunning' \in BOOLEAN
        BY <1>1, <2>1 DEF TypeOK
      <4> QED BY <1>1, <3>1, <4>1 DEF V!Verifiers
    <3>3. isRunning' \in {View.flag, FALSE}
      BY <1>1, <2>1
    <3>4. V!Return
      BY <1>1, <3>1, <3>2, <3>3 DEF V!Return
    <3> QED BY <3>4 DEF V!Next
  <2>3. CASE worker.status # "granted"
    <3>1. Thread = "busy" /\ Thread' = "busy"
      BY <2>1, <2>3 DEF Thread
    <3> QED BY <2>1, <2>3, <3>1 DEF View
  <2> QED BY <2>2, <2>3
<1>6. CASE WorkerEnds \/ WorkerWipes
  <2>1. /\ worker.pc \in {"end", "wipe"} /\ worker'.pc \in {"wipe", "release"}
        /\ worker'.round = worker.round
        /\ past'[worker.round].report = past[worker.round].report
        /\ isRunning' = isRunning /\ Owner' = Owner
    BY <1>2, <1>6
    DEF WorkerEnds, WorkerWipes, WorkerGoes, WorkerStates, Histories, Owner
  <2>2. Thread' = Thread
    BY <2>1 DEF Thread
  <2> QED BY <2>1, <2>2 DEF View
<1>7. CASE WorkerReleases
  <2>1. /\ Thread \in {"busy", "ending"} /\ Thread' = "done"
        /\ isRunning' = FALSE /\ Owner' = Owner
    BY <1>2, <1>7 DEF WorkerReleases, WorkerGoes, WorkerStates, Thread, Owner
  <2>2. V!Exit
    BY <1>1, <2>1 DEF V!Exit, V!Verifiers
  <2> QED BY <2>2 DEF V!Next
<1>8. CASE VerifyBegins
  <2>1. /\ Owner = "idle" /\ Owner' = "join" /\ ~isRunning /\ isRunning' = TRUE
        /\ Thread' = Thread
    BY <1>8 DEF VerifyBegins, Owner, Thread
  <2>2. V!Begin
    BY <1>1, <2>1 DEF V!Begin, V!Verifiers
  <2> QED BY <2>2 DEF V!Next
<1>9. CASE VerifyJoins
  <2>1. /\ Owner = "join" /\ Owner' = "launch" /\ isRunning' = isRunning
        /\ Thread \in {"none", "done"} /\ Thread' = "none"
    BY <1>2, <1>9
    DEF VerifyJoins, MainGoes, WorkerActive, MainStates, WorkerStates, Owner, Thread
  <2>2. V!Join
    BY <1>1, <2>1 DEF V!Join, V!Joinable, V!Verifiers
  <2> QED BY <2>2 DEF V!Next, V!OwnerStep
<1>10. ASSUME NEW p \in Passwords, VerifyAssigns(p)
      PROVE  [V!Next]_View
  <2>1. /\ Owner = "launch" /\ Owner' = "launch" /\ isRunning' = isRunning
        /\ worker.pc = "none" /\ worker' = worker
    BY <1>2, <1>10 DEF VerifyAssigns, MainGoes, MainStates, Linked, Owner
  <2>2. Thread' = Thread
    BY <2>1 DEF Thread
  <2> QED BY <2>1, <2>2 DEF View
<1>11. CASE VerifySpawns
  <2>1. Owner = "launch" /\ isRunning' = isRunning /\ Thread = "none"
    BY <1>2, <1>11 DEF VerifySpawns, MainGoes, MainStates, Linked, Owner, Thread
  <2>2. \/ Owner' = "idle" /\ Thread' = "busy"
        \/ Owner' = "launch" /\ Thread' = "none"
    <3>1. \/ main'.pc = "idle" /\ worker'.pc = "fork"
          \/ main'.pc = "failed" /\ worker' = worker
      BY <1>2, <1>11 DEF VerifySpawns, MainGoes, MainStates, WorkerStates
    <3> QED BY <2>1, <3>1 DEF Owner, Thread
  <2>3. ASSUME Owner' = "idle", Thread' = "busy" PROVE V!Launch
    BY <1>1, <2>1, <2>3 DEF V!Launch, V!Verifiers
  <2> QED BY <2>1, <2>2, <2>3 DEF V!Next, V!OwnerStep, View
<1>12. CASE VerifyFails
  <2>1. /\ Owner = "launch" /\ Owner' = "idle" /\ isRunning' = FALSE
        /\ Thread = "none" /\ Thread' = "none"
    BY <1>2, <1>12 DEF VerifyFails, MainGoes, MainStates, Linked, Owner, Thread
  <2>2. V!Fail
    BY <1>1, <2>1 DEF V!Fail, V!Verifiers
  <2> QED BY <2>2 DEF V!Next, V!OwnerStep
<1>13. CASE VerifyClears
  BY <1>2, <1>13 DEF VerifyClears, MainGoes, MainStates, Owner, Thread, View
<1>14. CASE DeleteBegins
  <2>1. /\ Owner = "idle" /\ Owner' = "delete" /\ isRunning' = FALSE
        /\ worker' = worker
    BY <1>2, <1>14 DEF DeleteBegins, StopTakes, MainGoes, MainStates, TypeOK, Owner
  <2>2. worker.pc # "none" => past'[worker.round].report = past[worker.round].report
    BY <1>2, <1>14 DEF DeleteBegins, StopTakes, Cut, Histories
  <2>3. Thread' = Thread
    BY <2>1, <2>2 DEF Thread
  <2>4. V!Delete
    BY <1>1, <2>1, <2>3 DEF V!Delete, V!Verifiers
  <2> QED BY <2>4 DEF V!Next
<1>15. CASE DeleteJoins
  <2>1. /\ Owner = "delete" /\ Owner' = "deleted" /\ isRunning' = isRunning
        /\ Thread \in {"none", "done"} /\ Thread' = "none"
    BY <1>2, <1>15
    DEF DeleteJoins, MainGoes, WorkerActive, MainStates, WorkerStates, Owner, Thread
  <2>2. V!Deleted
    BY <1>1, <2>1 DEF V!Deleted, V!Joinable, V!Verifiers
  <2> QED BY <2>2 DEF V!Next, V!OwnerStep
<1>16. ASSUME NEW t \in Threads, StopCalled(t)
       PROVE  [V!Next]_View
  <2>1. /\ isRunning /\ isRunning' = FALSE /\ worker' = worker
        /\ Owner # "deleted" /\ Owner' = Owner
    BY <1>2, <1>16 DEF StopCalled, StopTakes, Parenthood, MainStates, Owner
  <2>2. worker.pc # "none" => past'[worker.round].report = past[worker.round].report
    BY <1>2, <1>16 DEF StopCalled, StopTakes, Cut, Histories
  <2>3. Thread' = Thread
    BY <2>1, <2>2 DEF Thread
  <2>4. V!Stop
    BY <1>1, <2>1, <2>3 DEF V!Stop, V!Verifiers
  <2> QED BY <2>4 DEF V!Next
<1>17. CASE (\E t \in Threads : StopStep(t)) \/ (\E r \in Rounds : ChildAnswers(r))
              \/ UNCHANGED vars
  <2>1. UNCHANGED <<isRunning, main, worker, past>>
    BY <1>17 DEF StopStep, StopExchanges, StopKills, ChildAnswers, vars
  <2> QED BY <2>1 DEF Thread, Owner, View
<1> QED
  BY <1>3, <1>4, <1>5, <1>6, <1>7, <1>8, <1>9, <1>10, <1>11, <1>12, <1>13, <1>14,
     <1>15, <1>16, <1>17
  DEF Next, WorkerStep, MainStep, Done

(* Password does only what the abstract verifier allows: nothing is         *)
(* launched over a living worker, on_finish is called only by a worker that *)
(* has seen the flag up, and the flag is raised by verify() alone.  (What   *)
(* it must do in the end is a matter of fairness and left to the model      *)
(* checker.)                                                                *)
THEOREM ImplementsVerifier ==
  Spec => V!Spec
<1>1. Init => V!Init
  <2> SUFFICES ASSUME Init PROVE V!Init
    OBVIOUS
  <2>1. isRunning = FALSE /\ Thread = "none" /\ Owner = "idle"
    BY DEF Init, Thread, Owner
  <2> QED BY <2>1 DEF V!Init, View
<1>2. IInv /\ IInv' /\ [Next]_vars => [V!Next]_View
  BY VerifierStep
<1> QED BY <1>1, <1>2, Inductive, PTL DEF Spec, V!Spec
=============================================================================
