------------------------- MODULE AuthCoordinatorProofs -------------------------
(***************************************************************************)
(* Theorems about AuthCoordinator: for every length of the password buffer *)
(* and whatever sensors there may be, the coordinator keeps its types and  *)
(* denies the user only for a reason; in the C++ edition a late stop() is  *)
(* harmless.                                                               *)
(*                                                                         *)
(* Neither of the last two is inductive.  A handler that calls stop() must *)
(* be tied to the worker it runs in (Threads) and to the exchange it has   *)
(* won (Reasons), the loop to the fact that only an excused stop() lowers  *)
(* the flag of the fingerprint (Reasons), and the destructors to their     *)
(* order (Order).                                                          *)
(***************************************************************************)
EXTENDS AuthCoordinator, TLAPS

(* A handler runs in the worker of its verifier, and a verifier whose       *)
(* worker was joined has none until the next launch.                        *)
Threads ==
  \A x \in Sides :
    /\ handler[x] # "none" => State(x).thread = "handler"
    /\ State(x).owner \in {"claim", "launch", "deleted"} => State(x).thread = "none"

(* Why the program may give up. *)
Excused == auth \/ interrupted \/ sensor # "ok"

(* A handler stops nobody before it has set authenticated.  From the start  *)
(* of the fingerprint until the test of its flag, the flag is up or there   *)
(* is an excuse, and past that test there is one.                           *)
Reasons ==
  /\ \A x \in Sides : handler[x] \notin {"none", "exchange"} => auth
  /\ main.pc = "starting" /\ fp.owner \notin {"join", "claim"} => fp.flag \/ Excused
  /\ main.pc \in {"test", "fp?", "input", "verify"} => fp.flag \/ Excused
  /\ main.pc \in {"pw?", "leave", "exited"} => Excused
  /\ DeniedForReason

(* The password verifier is stopped for good and goes first, and main()     *)
(* does not return before both are gone.                                    *)
Order ==
  /\ pw.owner \in {"delete", "deleted"} => ~pw.flag
  /\ main.step > 7 => pw.owner = "deleted"
  /\ main.step > 8 => fp.owner = "deleted"
  /\ fp.owner = "deleted" => pw.owner = "deleted"
  /\ main.pc = "exited" => main.step > 8

-----------------------------------------------------------------------------
LEMMA OtherSide == Other("pw") = "fp" /\ Other("fp") = "pw"
BY DEF Other, Sides

LEMMA LeavingLen == Len(Leaving) \in Nat
BY EditionAssumption DEF Leaving, LeavingCpp, LeavingC

(* The coordinator uses its verifiers only as they allow. *)
LEMMA VerifierSteps ==
  ASSUME TypeOK, Next
  PROVE  [Pw!Next]_pw /\ [Fp!Next]_fp
<1>1. ASSUME NEW x \in Sides, CallStop(x) PROVE [Pw!Next]_pw /\ [Fp!Next]_fp
  BY <1>1 DEF CallStop, Of, Pw!Next, Fp!Next
<1>2. CASE MainStep
  <2>1. CASE MainStarts \/ StartSteps
    BY <2>1 DEF MainStarts, StartSteps, Fp!Next, Fp!OwnerStep
  <2>2. CASE MainEnters \/ VerifySteps
    BY <2>2 DEF MainEnters, VerifySteps, Pw!Next, Pw!OwnerStep
  <2>3. CASE \E x \in Sides : LeaveStops(x)
    BY <2>3, <1>1 DEF LeaveStops, Sides
  <2>4. CASE \E x \in Sides : LeaveDeletes(x)
    BY <2>4 DEF LeaveDeletes, Of, Pw!Next, Pw!OwnerStep, Fp!Next, Fp!OwnerStep
  <2>5. CASE \/ MainStarted \/ MainTests \/ MainTestsFlags \/ MainTypes \/ MainVerified
             \/ LeaveWipes \/ LeaveReports \/ Exits
    BY <2>5 DEF MainStarted, MainTests, MainTestsFlags, MainTypes, MainVerified,
      LeaveWipes, LeaveReports, Exits
  <2> QED BY <1>2, <2>1, <2>2, <2>3, <2>4, <2>5 DEF MainStep
<1>3. ASSUME NEW x \in Sides, HandlerCalled(x) \/ HandlerStep(x) \/ WorkerEnds(x)
      PROVE  [Pw!Next]_pw /\ [Fp!Next]_fp
  <2>1. CASE HandlerCalled(x) \/ HandlerReturns(x) \/ WorkerEnds(x)
    BY <2>1 DEF HandlerCalled, HandlerReturns, WorkerEnds, Of, Pw!Next, Fp!Next
  <2>2. CASE HandlerExchanges(x)
    BY <2>2 DEF HandlerExchanges
  <2>3. CASE HandlerStopsOther(x)
    BY <2>3, <1>1, OtherSide DEF HandlerStopsOther, HandlerStops, Sides
  <2>4. CASE HandlerStopsSelf(x)
    BY <2>4, <1>1 DEF HandlerStopsSelf, HandlerStops
  <2> QED BY <1>3, <2>1, <2>2, <2>3, <2>4 DEF HandlerStep
<1>4. CASE SensorNotFound \/ Interrupt \/ Exited
  BY <1>4 DEF SensorNotFound, Interrupt, Exited, vars, Fp!Next
<1> QED BY <1>2, <1>3, <1>4 DEF Next

(* Every step of a verifier keeps its type. *)
LEMMA PasswordTyped ==
  ASSUME pw \in Pw!Verifiers, [Pw!Next]_pw
  PROVE  pw' \in Pw!Verifiers
BY DEF Pw!Verifiers, Pw!Next, Pw!OwnerStep, Pw!Begin, Pw!Join, Pw!Claim, Pw!Launch,
  Pw!Fail, Pw!Delete, Pw!Deleted, Pw!Stop, Pw!Finish, Pw!Return, Pw!Exit

LEMMA FingerprintTyped ==
  ASSUME fp \in Fp!Verifiers, [Fp!Next]_fp
  PROVE  fp' \in Fp!Verifiers
BY DEF Fp!Verifiers, Fp!Next, Fp!OwnerStep, Fp!Begin, Fp!Join, Fp!Claim, Fp!Launch,
  Fp!Fail, Fp!Delete, Fp!Deleted, Fp!Stop, Fp!Finish, Fp!Return, Fp!Exit

(* The part of the type invariant that is about the main thread. *)
Mains == [pc : {"start", "starting", "test", "fp?", "pw?", "input", "verify", "leave",
                "exited"},
          len : 0 .. MaxLen, step : 1 .. Len(Leaving) + 1]

LEMMA MainsStep ==
  ASSUME main \in Mains, MainStep
  PROVE  main' \in Mains
<1>1. CASE MainTypes
  <2>1. PICK len \in Lengths : main' = [main EXCEPT !.pc = "test", !.len = len]
    BY <1>1 DEF MainTypes
  <2> QED BY <2>1 DEF Lengths, Mains
<1>2. CASE \/ MainStarts \/ StartSteps \/ MainStarted \/ MainTests \/ MainTestsFlags
           \/ MainEnters \/ VerifySteps \/ Exits
  <2>1. \E p \in {"starting", "test", "fp?", "pw?", "input", "verify", "leave", "exited"} :
           main' \in {main, [main EXCEPT !.pc = p]}
    BY <1>2 DEF MainStarts, StartSteps, MainStarted, MainTests, MainTestsFlags,
      MainEnters, VerifySteps, Exits, MainGoes
  <2> QED BY <2>1 DEF Mains
<1>3. CASE MainVerified
  <2>1. main' = [main EXCEPT !.pc = "test", !.len = 0] /\ 0 \in 0 .. MaxLen
    BY <1>3, MaxLenAssumption DEF MainVerified
  <2> QED BY <2>1 DEF Mains
<1>4. CASE LeaveWipes \/ LeaveReports \/ \E x \in Sides : LeaveStops(x) \/ LeaveDeletes(x)
  <2>1. \/ main' = main
        \/ /\ main.step <= Len(Leaving)
           /\ main' \in {[main EXCEPT !.step = @ + 1],
                         [main EXCEPT !.step = @ + 1, !.len = 0]}
    BY <1>4 DEF LeaveWipes, LeaveReports, LeaveStops, LeaveDeletes, LeaveDoes, LeaveGoesOn
  <2>2. main.step \in 1 .. Len(Leaving) + 1 /\ 0 \in 0 .. MaxLen
    BY MaxLenAssumption DEF Mains
  <2>3. main.step <= Len(Leaving) => main.step + 1 \in 1 .. Len(Leaving) + 1
    BY <2>2, LeavingLen
  <2> QED BY <2>1, <2>2, <2>3 DEF Mains
<1> QED BY <1>1, <1>2, <1>3, <1>4 DEF MainStep

LEMMA TypeStep ==
  ASSUME TypeOK, [Next]_vars
  PROVE  TypeOK'
<1> USE DEF TypeOK
<1>1. CASE UNCHANGED vars
  BY <1>1 DEF vars
<1>2. CASE Next
  <2>1. pw' \in Pw!Verifiers /\ fp' \in Fp!Verifiers
    BY <1>2, VerifierSteps, PasswordTyped, FingerprintTyped
  <2>2. CASE \E x \in Sides : HandlerCalled(x) \/ HandlerStep(x) \/ WorkerEnds(x)
    BY <2>1, <2>2 DEF HandlerCalled, HandlerStep, HandlerExchanges, HandlerStopsOther,
      HandlerStopsSelf, HandlerStops, HandlerReturns, WorkerEnds
  <2>3. CASE SensorNotFound \/ Interrupt \/ Exited
    BY <2>1, <2>3 DEF SensorNotFound, Interrupt, Exited, vars
  <2>4. CASE MainStep
    <3>1. /\ auth' \in BOOLEAN /\ interrupted' \in BOOLEAN
          /\ sensor' \in {"ok", "absent", "off"}
          /\ handler' \in [Sides -> {"none", "exchange", "other", "amid other", "self",
                                   "amid self", "return"}]
          /\ result' \in {"none", "granted", "denied"}
      BY <2>4 DEF MainStep, MainStarts, StartSteps, MainStarted, MainTests, MainTestsFlags,
        MainTypes, MainEnters, VerifySteps, MainVerified, LeaveWipes, LeaveReports, Exits,
        LeaveStops, LeaveDeletes
    <3>2. main' \in Mains
      BY <2>4, MainsStep DEF Mains
    <3> QED BY <2>1, <3>1, <3>2 DEF Mains
  <2> QED BY <1>2, <2>2, <2>3, <2>4 DEF Next
<1> QED BY <1>1, <1>2

-----------------------------------------------------------------------------
(* The invariants, one by one.  A step that calls stop() lowers a flag and  *)
(* does no more.                                                            *)
LEMMA StopLowers ==
  ASSUME TypeOK, NEW x \in Sides, CallStop(x)
  PROVE  /\ pw' \in {pw, [pw EXCEPT !.flag = FALSE]}
         /\ fp' \in {fp, [fp EXCEPT !.flag = FALSE]}
BY DEF CallStop, Of, Pw!Stop, Fp!Stop

LEMMA ThreadsStep ==
  ASSUME TypeOK, TypeOK', Threads, [Next]_vars
  PROVE  Threads'
<1> USE DEF Threads, Sides, State
<1>1. pw \in Pw!Verifiers /\ fp \in Fp!Verifiers /\ DOMAIN handler = Sides
  BY DEF TypeOK
<1>2. ASSUME UNCHANGED handler,
             pw' \in {pw, [pw EXCEPT !.flag = FALSE]},
             fp' \in {fp, [fp EXCEPT !.flag = FALSE]}
      PROVE  Threads'
  BY <1>1, <1>2 DEF Pw!Verifiers, Fp!Verifiers
<1>3. CASE MainStep
  <2>1. CASE MainStarts \/ StartSteps
    <3>1. UNCHANGED <<pw, handler>>
      BY <2>1 DEF MainStarts, StartSteps
    <3>2. /\ fp.thread = "handler" => fp'.thread = "handler" \/ fp.owner = "launch"
          /\ fp'.owner \in {"claim", "launch", "deleted"} => fp'.thread = "none"
      BY <1>1, <2>1 DEF MainStarts, StartSteps, Fp!Verifiers, Fp!Begin, Fp!Join, Fp!Joinable,
        Fp!Claim, Fp!Launch, Fp!Fail
    <3> QED BY <3>1, <3>2
  <2>2. CASE MainEnters \/ VerifySteps
    <3>1. UNCHANGED <<fp, handler>>
      BY <2>2 DEF MainEnters, VerifySteps
    <3>2. /\ pw.thread = "handler" => pw'.thread = "handler" \/ pw.owner = "launch"
          /\ pw'.owner \in {"claim", "launch", "deleted"} => pw'.thread = "none"
      BY <1>1, <2>2 DEF MainEnters, VerifySteps, Pw!Verifiers, Pw!Begin, Pw!Join, Pw!Joinable,
        Pw!Launch, Pw!Fail
    <3> QED BY <3>1, <3>2
  <2>3. CASE \E x \in Sides : LeaveStops(x)
    BY <1>2, <2>3, StopLowers DEF LeaveStops
  <2>4. CASE \E x \in Sides : LeaveDeletes(x)
    <3>1. handler' = handler
      BY <2>4 DEF LeaveDeletes
    <3>2. CASE LeaveDeletes("pw")
      BY <1>1, <3>1, <3>2 DEF LeaveDeletes, Of, Pw!Verifiers, Pw!Delete, Pw!Deleted, Pw!Joinable
    <3>3. CASE LeaveDeletes("fp")
      BY <1>1, <3>1, <3>3 DEF LeaveDeletes, Of, Fp!Verifiers, Fp!Delete, Fp!Deleted, Fp!Joinable
    <3> QED BY <2>4, <3>2, <3>3
  <2>5. CASE \/ MainStarted \/ MainTests \/ MainTestsFlags \/ MainTypes \/ MainVerified
             \/ LeaveWipes \/ LeaveReports \/ Exits
    BY <1>2, <2>5 DEF MainStarted, MainTests, MainTestsFlags, MainTypes, MainVerified,
      LeaveWipes, LeaveReports, Exits
  <2> QED BY <1>3, <2>1, <2>2, <2>3, <2>4, <2>5 DEF MainStep
<1>4. ASSUME NEW x \in Sides, HandlerCalled(x) \/ HandlerStep(x) \/ WorkerEnds(x)
      PROVE  Threads'
  <2>1. CASE HandlerCalled(x)
    BY <1>1, <2>1 DEF HandlerCalled, Of, Pw!Verifiers, Pw!Finish, Fp!Verifiers, Fp!Finish
  <2>2. CASE HandlerExchanges(x)
    BY <1>1, <2>2 DEF HandlerExchanges
  <2>3. CASE HandlerStopsOther(x) \/ HandlerStopsSelf(x)
    <3>1. /\ pw' \in {pw, [pw EXCEPT !.flag = FALSE]}
          /\ fp' \in {fp, [fp EXCEPT !.flag = FALSE]}
      BY <2>3, StopLowers, OtherSide DEF HandlerStopsOther, HandlerStopsSelf, HandlerStops
    <3>2. /\ handler[x] # "none"
          /\ \A y \in Sides : y # x => handler'[y] = handler[y]
      BY <1>1, <2>3 DEF HandlerStopsOther, HandlerStopsSelf, HandlerStops
    <3> QED BY <1>1, <3>1, <3>2 DEF Pw!Verifiers, Fp!Verifiers
  <2>4. CASE HandlerReturns(x)
    BY <1>1, <2>4 DEF HandlerReturns, Of, Pw!Verifiers, Pw!Return, Fp!Verifiers, Fp!Return
  <2>5. CASE WorkerEnds(x)
    BY <1>1, <2>5 DEF WorkerEnds, Of, Pw!Verifiers, Pw!Exit, Fp!Verifiers, Fp!Exit
  <2> QED BY <1>4, <2>1, <2>2, <2>3, <2>4, <2>5 DEF HandlerStep
<1>5. CASE SensorNotFound \/ Interrupt \/ Exited \/ UNCHANGED vars
  BY <1>2, <1>5 DEF SensorNotFound, Interrupt, Exited, vars, Fp!Stop
<1> QED BY <1>3, <1>4, <1>5 DEF Next

LEMMA ReasonsStep ==
  ASSUME TypeOK, TypeOK', Reasons, [Next]_vars
  PROVE  Reasons'
<1> USE DEF Reasons, Excused, DeniedForReason, Sides
<1>1. /\ fp \in Fp!Verifiers /\ DOMAIN handler = Sides /\ main = [main EXCEPT !.pc = main.pc]
      /\ auth \in BOOLEAN /\ interrupted \in BOOLEAN
  BY DEF TypeOK
<1>2. fp' \in Fp!Verifiers /\ auth' \in BOOLEAN /\ interrupted' \in BOOLEAN
  BY DEF TypeOK
<1>3. ASSUME UNCHANGED <<auth, interrupted, sensor, main, handler, result>>,
             fp'.flag = fp.flag, fp'.owner = fp.owner
      PROVE  Reasons'
  BY <1>3
<1>4. CASE MainStep
  <2>1. CASE MainStarts
    BY <1>1, <2>1 DEF MainStarts, MainGoes, TypeOK, Fp!Verifiers, Fp!Begin
  <2>2. CASE StartSteps
    BY <1>1, <2>2 DEF StartSteps, Fp!Verifiers, Fp!Join, Fp!Claim, Fp!Launch, Fp!Fail
  <2>3. CASE MainStarted \/ MainTests \/ MainTestsFlags \/ MainTypes \/ MainVerified \/ Exits
    <3>1. UNCHANGED <<fp, auth, interrupted, sensor, handler, result>>
      BY <2>3 DEF MainStarted, MainTests, MainTestsFlags, MainTypes, MainVerified, Exits
    <3>2. \/ main.pc = "starting" /\ fp.owner = "idle" /\ main'.pc = "test"
          \/ main.pc = "test" /\ main'.pc = IF auth \/ interrupted THEN "leave" ELSE "fp?"
          \/ main.pc = "fp?" /\ main'.pc = IF fp.flag THEN "input" ELSE "pw?"
          \/ main.pc = "pw?" /\ main'.pc \in {"input", "leave"}
          \/ main.pc \in {"input", "verify"} /\ main'.pc = "test"
          \/ main.pc = "leave" /\ main'.pc = "exited"
      BY <2>3 DEF MainStarted, MainTests, MainTestsFlags, MainTypes, MainVerified, Exits,
        MainGoes, MustLeave, TypeOK
    <3> QED BY <1>1, <3>1, <3>2
  <2>4. CASE MainEnters \/ VerifySteps
    BY <1>1, <2>4 DEF MainEnters, VerifySteps, MainGoes, TypeOK
  <2>5. CASE LeaveWipes \/ LeaveReports \/ \E x \in Sides : LeaveStops(x) \/ LeaveDeletes(x)
    <3>1. /\ main.pc = "leave" /\ main'.pc = "leave"
          /\ UNCHANGED <<auth, interrupted, sensor, handler>>
      BY <1>1, <2>5 DEF LeaveWipes, LeaveReports, LeaveStops, LeaveDeletes, LeaveDoes,
        LeaveGoesOn, TypeOK
    <3>2. result' = result \/ (result' = IF auth THEN "granted" ELSE "denied")
      BY <2>5 DEF LeaveWipes, LeaveReports, LeaveStops, LeaveDeletes
    <3> QED BY <1>1, <3>1, <3>2
  <2> QED BY <1>4, <2>1, <2>2, <2>3, <2>4, <2>5 DEF MainStep
<1>5. ASSUME NEW x \in Sides, HandlerCalled(x) \/ HandlerStep(x) \/ WorkerEnds(x)
      PROVE  Reasons'
  <2>1. CASE HandlerCalled(x)
    BY <1>1, <2>1 DEF HandlerCalled, Of, Fp!Verifiers, Fp!Finish
  <2>2. CASE HandlerExchanges(x)
    BY <1>1, <2>2 DEF HandlerExchanges
  <2>3. CASE HandlerStopsOther(x) \/ HandlerStopsSelf(x)
    <3>1. auth /\ auth'
      BY <1>1, <2>3 DEF HandlerStopsOther, HandlerStopsSelf, HandlerStops
    <3>2. UNCHANGED <<interrupted, sensor, main, result>>
      BY <2>3 DEF HandlerStopsOther, HandlerStopsSelf, HandlerStops
    <3> QED BY <3>1, <3>2
  <2>4. CASE HandlerReturns(x)
    BY <1>1, <2>4 DEF HandlerReturns, Of, State, Fp!Verifiers, Fp!Return
  <2>5. CASE WorkerEnds(x)
    BY <1>1, <1>3, <2>5 DEF WorkerEnds, Of, Fp!Verifiers, Fp!Exit
  <2> QED BY <1>5, <2>1, <2>2, <2>3, <2>4, <2>5 DEF HandlerStep
<1>6. CASE SensorNotFound
  BY <1>1, <1>6 DEF SensorNotFound, Fp!Verifiers, Fp!Stop
<1>7. CASE Interrupt \/ Exited \/ UNCHANGED vars
  BY <1>7 DEF Interrupt, Exited, vars
<1> QED BY <1>4, <1>5, <1>6, <1>7 DEF Next

LEMMA OrderStep ==
  ASSUME Edition = "cpp", TypeOK, Order, [Next]_vars
  PROVE  Order'
<1> USE DEF Order
<1>1. pw \in Pw!Verifiers /\ fp \in Fp!Verifiers
  BY DEF TypeOK
<1>2. ASSUME pw' \in {pw, [pw EXCEPT !.flag = FALSE]},
             fp'.owner = fp.owner \/ (fp'.owner # "deleted" /\ fp.owner # "deleted"),
             main'.step = main.step, main'.pc = "exited" => main.pc = "exited"
      PROVE  Order'
  BY <1>1, <1>2 DEF Pw!Verifiers
<1>3. CASE MainStep
  <2>1. CASE MainStarts \/ StartSteps
    BY <1>1, <1>2, <2>1 DEF MainStarts, StartSteps, MainGoes, TypeOK, Fp!Verifiers, Fp!Begin,
      Fp!Join, Fp!Claim, Fp!Launch, Fp!Fail
  <2>2. CASE MainEnters \/ VerifySteps
    <3>1. fp' = fp /\ main'.step = main.step /\ (main'.pc = "exited" => main.pc = "exited")
      BY <2>2 DEF MainEnters, VerifySteps, MainGoes, TypeOK
    <3>2. \/ pw' = pw
          \/ pw.owner # "deleted" /\ pw'.owner \notin {"delete", "deleted"}
      BY <1>1, <2>2 DEF MainEnters, VerifySteps, Pw!Verifiers, Pw!Begin, Pw!Join, Pw!Launch,
        Pw!Fail
    <3> QED BY <3>1, <3>2
  <2>3. CASE MainStarted \/ MainTests \/ MainTestsFlags \/ MainTypes \/ MainVerified
    BY <1>2, <2>3 DEF MainStarted, MainTests, MainTestsFlags, MainTypes, MainVerified,
      MainGoes, TypeOK
  <2>4. CASE Exits
    <3>1. Len(Leaving) = 8
      BY DEF Leaving, LeavingCpp
    <3> QED BY <2>4, <3>1 DEF Exits, TypeOK
  <2>5. ASSUME LeaveWipes \/ LeaveReports \/ \E x \in Sides : LeaveStops(x) \/ LeaveDeletes(x)
        PROVE  Order'
    <3>1. Len(Leaving) = 8 /\ main.step \in {1, 2, 3, 4, 5, 6, 7, 8}
      <4>1. Len(Leaving) = 8
        BY DEF Leaving, LeavingCpp
      <4>2. main.step \in 1 .. 9 /\ main.step <= 8
        <5>1. main.step \in 1 .. Len(Leaving) + 1
          BY DEF TypeOK
        <5>2. main.step <= Len(Leaving)
          BY <2>5 DEF LeaveWipes, LeaveReports, LeaveStops, LeaveDeletes, LeaveDoes
        <5> QED BY <4>1, <5>1, <5>2
      <4> QED BY <4>1, <4>2
    <3>2. /\ Leaving[1][1] = "wipe" /\ Leaving[2][1] = "stop" /\ Leaving[3][1] = "amid"
          /\ Leaving[4][1] = "stop" /\ Leaving[5][1] = "amid" /\ Leaving[6][1] = "report"
          /\ Leaving[7][1] = "delete" /\ Leaving[7][2] = "pw"
          /\ Leaving[8][1] = "delete" /\ Leaving[8][2] = "fp"
      BY DEF Leaving, LeavingCpp
    <3>3. main'.step \in {main.step, main.step + 1} /\ main'.pc # "exited"
      BY <2>5 DEF LeaveWipes, LeaveReports, LeaveStops, LeaveDeletes, LeaveGoesOn,
        LeaveDoes, TypeOK
    <3>4. CASE LeaveWipes \/ LeaveReports
      <4>1. CASE LeaveWipes
        <5>1. Leaving[main.step][1] = "wipe"
          BY <4>1 DEF LeaveWipes, LeaveDoes
        <5>2. main.step < 7
          BY <3>1, <3>2, <5>1
        <5> QED BY <3>1, <3>3, <4>1, <5>2 DEF LeaveWipes
      <4>2. CASE LeaveReports
        <5>1. Leaving[main.step][1] = "report"
          BY <4>2 DEF LeaveReports, LeaveDoes
        <5>2. main.step < 7
          BY <3>1, <3>2, <5>1
        <5> QED BY <3>1, <3>3, <4>2, <5>2 DEF LeaveReports
      <4> QED BY <3>4, <4>1, <4>2
    <3>5. ASSUME NEW x \in Sides, LeaveStops(x) PROVE Order'
      <4>1. main.step < 7
        <5>1. Leaving[main.step][1] \in {"stop", "amid"}
          BY <3>5 DEF LeaveStops, LeaveDoes
        <5> QED BY <3>1, <3>2, <5>1
      <4>2. /\ pw' \in {pw, [pw EXCEPT !.flag = FALSE]}
            /\ fp' \in {fp, [fp EXCEPT !.flag = FALSE]}
        BY <3>5, StopLowers DEF LeaveStops
      <4> QED BY <1>1, <3>1, <3>3, <4>1, <4>2 DEF Pw!Verifiers, Fp!Verifiers
    <3>6. CASE LeaveDeletes("pw")
      <4>1. main.step = 7
        <5>1. Leaving[main.step][1] = "delete" /\ Leaving[main.step][2] = "pw"
          BY <3>6 DEF LeaveDeletes, LeaveDoes
        <5> QED BY <3>1, <3>2, <5>1
      <4>2. CASE Pw!Delete /\ UNCHANGED <<fp, main>>
        BY <1>1, <3>3, <4>1, <4>2 DEF Pw!Verifiers, Pw!Delete
      <4>3. CASE Pw!Deleted /\ UNCHANGED fp
        BY <1>1, <3>3, <4>1, <4>3 DEF Pw!Verifiers, Pw!Deleted
      <4> QED BY <3>6, <4>2, <4>3 DEF LeaveDeletes, Of
    <3>7. CASE LeaveDeletes("fp")
      <4>1. main.step = 8
        <5>1. Leaving[main.step][1] = "delete" /\ Leaving[main.step][2] = "fp"
          BY <3>7 DEF LeaveDeletes, LeaveDoes
        <5> QED BY <3>1, <3>2, <5>1
      <4>2. /\ pw' = pw
            /\ \/ main' = main /\ fp.owner # "deleted"
               \/ fp'.owner = "deleted"
        BY <1>1, <3>7 DEF LeaveDeletes, Of, Fp!Verifiers, Fp!Delete, Fp!Deleted
      <4> QED BY <3>3, <4>1, <4>2
    <3> QED BY <2>5, <3>4, <3>5, <3>6, <3>7 DEF Sides
  <2> QED BY <1>3, <2>1, <2>2, <2>3, <2>4, <2>5 DEF MainStep
<1>4. ASSUME NEW x \in Sides, HandlerCalled(x) \/ HandlerStep(x) \/ WorkerEnds(x)
      PROVE  Order'
  <2>1. CASE HandlerCalled(x)
    BY <1>1, <2>1 DEF HandlerCalled, Of, Pw!Verifiers, Pw!Finish, Fp!Verifiers, Fp!Finish
  <2>2. CASE HandlerExchanges(x)
    BY <2>2 DEF HandlerExchanges
  <2>3. CASE HandlerStopsOther(x) \/ HandlerStopsSelf(x)
    <3>1. /\ pw' \in {pw, [pw EXCEPT !.flag = FALSE]}
          /\ fp' \in {fp, [fp EXCEPT !.flag = FALSE]}
      BY <2>3, StopLowers, OtherSide DEF HandlerStopsOther, HandlerStopsSelf, HandlerStops,
        Sides
    <3>2. main' = main
      BY <2>3 DEF HandlerStopsOther, HandlerStopsSelf, HandlerStops
    <3> QED BY <1>1, <1>2, <3>1, <3>2 DEF Fp!Verifiers
  <2>4. CASE HandlerReturns(x)
    BY <1>1, <2>4 DEF HandlerReturns, Of, State, Pw!Verifiers, Pw!Return, Fp!Verifiers, Fp!Return
  <2>5. CASE WorkerEnds(x)
    BY <1>1, <2>5 DEF WorkerEnds, Of, Pw!Verifiers, Pw!Exit, Fp!Verifiers, Fp!Exit
  <2> QED BY <1>4, <2>1, <2>2, <2>3, <2>4, <2>5 DEF HandlerStep
<1>5. CASE SensorNotFound \/ Interrupt \/ Exited \/ UNCHANGED vars
  BY <1>1, <1>2, <1>5 DEF SensorNotFound, Interrupt, Exited, vars, Fp!Verifiers, Fp!Stop
<1> QED BY <1>3, <1>4, <1>5 DEF Next

-----------------------------------------------------------------------------
(* The type invariant: also after any number of characters and of removals  *)
(* the length stays within pass_buf, and the way out has an end.            *)
THEOREM TypeCorrect == Spec => []TypeOK
<1>1. Init => TypeOK
  <2>1. 0 \in 0 .. MaxLen /\ 1 \in 1 .. Len(Leaving) + 1
    BY MaxLenAssumption, LeavingLen
  <2> SUFFICES ASSUME Init PROVE TypeOK
    OBVIOUS
  <2>2. pw \in Pw!Verifiers /\ fp \in Fp!Verifiers
    BY DEF Init, Pw!Init, Pw!Verifiers, Fp!Init, Fp!Verifiers
  <2>3. main = [pc |-> "start", len |-> 0, step |-> 1]
    BY DEF Init
  <2>4. sensor \in {"ok", "absent", "off"}
    BY SensorsAssumption DEF Init
  <2>5. handler \in [Sides -> {"none", "exchange", "other", "amid other", "self",
                           "amid self", "return"}]
    BY DEF Init
  <2>6. auth \in BOOLEAN /\ interrupted \in BOOLEAN /\ result \in {"none", "granted", "denied"}
    BY DEF Init
  <2> QED BY <2>1, <2>2, <2>3, <2>4, <2>5, <2>6 DEF TypeOK
<1>2. TypeOK /\ [Next]_vars => TypeOK'
  BY TypeStep
<1> QED BY <1>1, <1>2, PTL DEF Spec

(* The user of either edition is denied only after an interrupt or without  *)
(* a sensor, in whatever order the two handlers, the signal and the main    *)
(* thread run.                                                              *)
THEOREM DenialHasReason == Spec => []DeniedForReason
<1>1. Init => Reasons
  BY DEF Init, Reasons, DeniedForReason, Sides
<1>2. TypeOK /\ TypeOK' /\ Reasons /\ [Next]_vars => Reasons'
  BY ReasonsStep
<1>3. Reasons => DeniedForReason
  BY DEF Reasons
<1> QED BY <1>1, <1>2, <1>3, TypeCorrect, PTL DEF Spec

(* In the C++ program no handler is in stop() of a fingerprint verifier     *)
(* that is gone; the password verifier that one may still be in, called too *)
(* late or held up amid stop(), has its flag down and no worker, and main() *)
(* has not returned.  (The run coordinator_back shows that the C program    *)
(* lacks this.)                                                             *)
THEOREM LateStopIsHarmless == Edition = "cpp" => (Spec => []LateStopHarmless)
<1> SUFFICES ASSUME Edition = "cpp" PROVE Spec => []LateStopHarmless
  OBVIOUS
<1>1. Init => Threads /\ Order
  BY DEF Init, Threads, Order, State, Sides, Pw!Init, Fp!Init
<1>2. TypeOK /\ TypeOK' /\ Threads /\ [Next]_vars => Threads'
  BY ThreadsStep
<1>3. TypeOK /\ Order /\ [Next]_vars => Order'
  BY OrderStep
<1>4. Threads /\ Order => LateStopHarmless
  BY OtherSide DEF Threads, Order, LateStopHarmless, State, Sides
<1> QED BY <1>1, <1>2, <1>3, <1>4, TypeCorrect, PTL DEF Spec
=============================================================================
