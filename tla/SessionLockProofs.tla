-------------------------- MODULE SessionLockProofs --------------------------
(***************************************************************************)
(* Proofs about module SessionLock, for any set of outputs.                *)
(*                                                                         *)
(* What the client may rely on is spread over its own state, the requests  *)
(* on their way to the compositor and the events on their way back.  The   *)
(* inductive invariants therefore speak of the two queues: which names     *)
(* they hold (Has), for which outputs (Names), each at most once (Once) or *)
(* for different outputs (Apart).  IInv holds of every client and every    *)
(* compositor, Orderly of a client whose kl_context_lock_session does not  *)
(* fail half-way and a compositor that keeps the lock it has granted.      *)
(***************************************************************************)
EXTENDS SessionLock, TLAPS

(* Whether a message of that name is in the queue, and for which outputs. *)
Has(s, n) == \E k \in 1 .. Len(s) : s[k].name = n
Names(s, n, o) == \E k \in 1 .. Len(s) : s[k].name = n /\ o \in s[k].outs

(* The queue holds at most one message of that name; its messages of that   *)
(* name have no output in common.                                           *)
Once(s, n) == \A k, l \in 1 .. Len(s) : s[k].name = n /\ s[l].name = n => k = l
Apart(s, n) ==
  \A k, l \in 1 .. Len(s) :
    s[k].name = n /\ s[l].name = n /\ k # l => s[k].outs \cap s[l].outs = {}

-----------------------------------------------------------------------------
(* Where the client computes; everywhere else it is in a blocking call. *)
Running == {"lock", "top", "leave", "destroy", "exited"}

(* A blocking call dispatches only what it has read. *)
Control ==
  /\ turn = "run" <=> pc \in Running
  /\ turn = "dispatch" => batch >= 1

(* What each call of main has behind it: the lock object exists from        *)
(* kl_context_lock_session to unlock_session or destroy, and main's loop is *)
(* entered only when the lock was granted.                                  *)
Stages ==
  /\ pc \in {"init", "lock"} => ~ctx.lock /\ ~ctx.isLocked /\ ~ctx.isFinished
  /\ pc \in {"locking", "top", "wait", "leave"} => ctx.lock
  /\ pc \in {"top", "wait", "leave"} => ctx.isLocked
  /\ pc \in {"unlocking", "destroying", "exited"} => ~ctx.lock
  /\ pc \in {"destroying", "exited"} => ~ctx.registry

(* Whoever is about to unlock, or has asked for it, has a reason. *)
Reasons ==
  up =>
    /\ pc \in {"leave", "destroy"} /\ ActivelyLocked => Due
    /\ Has(wire, "unlock") => Due

(* The compositor need not announce output o any more. *)
Announced(o) == o \notin comp.unused /\ (comp.watched \/ o \notin comp.present)

(* An output is announced once, and attached at most once: either by the    *)
(* handler of its announcement or by kl_context_lock_session.               *)
Attaching ==
  /\ comp.unused \cap comp.present = {}
  /\ Once(wire, "registry") /\ (Has(wire, "registry") => ~comp.watched)
  /\ Apart(events, "global") /\ Apart(wire, "attach")
  /\ pc \in {"init", "lock"} =>
       comp.covered = {} /\ \A o \in Outputs : ~Names(wire, "attach", o)
  /\ \A o \in Outputs :
       /\ ~Announced(o) => ~Names(events, "global", o)
       /\ ~Announced(o) \/ Names(events, "global", o) =>
            /\ o \notin ctx.surfaces /\ o \notin comp.covered
            /\ ~Names(wire, "attach", o)
       /\ Names(wire, "attach", o) => o \notin comp.covered

(* What the client believes was sent by the compositor, which answers the   *)
(* one lock request with locked or with finished.                           *)
Told ==
  /\ Has(events, "locked") \/ ctx.isLocked => comp.sentLocked
  /\ Has(events, "finished") \/ ctx.isFinished => comp.sentFinished
  /\ comp.sentLocked => ~comp.sentFinished
  /\ comp.lock = "none" => ~comp.sentLocked /\ ~comp.sentFinished
  /\ comp.holds => comp.sentLocked /\ comp.lock = "held"
  /\ Has(wire, "lock") => comp.lock = "none"
  /\ Once(wire, "lock")
  /\ pc \in {"init", "lock"} => comp.lock = "none" /\ ~Has(wire, "lock")

(* The client gives the lock up in the way its compositor expects. *)
Requested ==
  up =>
    /\ Has(wire, "destroy") => comp.sentFinished
    /\ Has(wire, "unlock") => comp.sentLocked
    /\ pc = "destroy" /\ ctx.lock => ctx.isLocked \/ ctx.isFinished

(* One roundtrip is under way at a time: its request or its answer is in a  *)
(* queue exactly as long as the client waits for it.                        *)
Answered ==
  up =>
    /\ pc \notin {"init", "unlocking", "destroying"} => ~awaited
    /\ Has(wire, "sync") => awaited /\ ~Has(events, "done")
    /\ Has(events, "done") => awaited
    /\ Once(wire, "sync") /\ Once(events, "done")

(* Once the client has let go of the lock object, the compositor has too,   *)
(* or the request that makes it do so comes before the last roundtrip's.    *)
GivenUp ==
  up =>
    /\ pc \in {"unlocking", "destroy", "destroying", "exited"} /\ ~ctx.lock =>
         /\ ~Has(wire, "lock")
         /\ comp.lock = "held" => Has(wire, "destroy") \/ Has(wire, "unlock")
    /\ pc \in {"destroying", "exited"} => wire = <<>> \/ wire[Len(wire)].name = "sync"

(* The inductive invariants. *)
IInv == TypeOK /\ Control /\ Stages /\ EverySurfaceAttached /\ Reasons /\ Attaching

Orderly == IInv /\ Told /\ Requested /\ Answered /\ GivenUp /\ NoProtocolError

(* The steps of the client that change nothing but where it is and why. *)
Moves ==
  \/ InitDone \/ LoopTop \/ Interrupted \/ WaitFails \/ LoopEnd \/ UnlockDone
  \/ ConnectionLost \/ LockingDone \/ ReadEvents \/ KeepWaiting \/ Expire

-----------------------------------------------------------------------------
(* The elements of a queue to which a message was appended. *)
LEMMA AppendFields ==
  ASSUME NEW S, NEW s \in Seq(S), NEW m \in S
  PROVE  /\ Append(s, m) \in Seq(S)
         /\ Len(Append(s, m)) = Len(s) + 1
         /\ Append(s, m)[Len(s) + 1] = m
         /\ \A k \in 1 .. Len(s) : Append(s, m)[k] = s[k]
         /\ Append(s, m) # <<>>
OBVIOUS

(* What is in a queue to which a message was appended. *)
LEMMA AppendKnows ==
  ASSUME NEW S, NEW s \in Seq(S), NEW m \in S
  PROVE  /\ \A n : Has(Append(s, m), n) <=> Has(s, n) \/ m.name = n
         /\ \A n, o : Names(Append(s, m), n, o) <=>
                        Names(s, n, o) \/ (m.name = n /\ o \in m.outs)
         /\ \A n : Once(s, n) /\ (m.name = n => ~Has(s, n)) => Once(Append(s, m), n)
         /\ \A n : Apart(s, n) /\ (m.name = n => \A o \in m.outs : ~Names(s, n, o))
                     => Apart(Append(s, m), n)
<1> DEFINE t == Append(s, m)
<1>1. /\ Len(s) \in Nat /\ Len(t) = Len(s) + 1 /\ t[Len(s) + 1] = m
      /\ \A k \in 1 .. Len(s) : t[k] = s[k]
  BY AppendFields
<1> HIDE DEF t
<1>2. \A k \in 1 .. Len(t) : k \in 1 .. Len(s) \/ k = Len(s) + 1
  BY <1>1
<1>3. Len(s) + 1 \in 1 .. Len(t) /\ \A k \in 1 .. Len(s) : k \in 1 .. Len(t)
  BY <1>1
<1>4. \A n : Has(t, n) <=> Has(s, n) \/ m.name = n
  BY <1>1, <1>2, <1>3 DEF Has
<1>5. \A n, o : Names(t, n, o) <=> Names(s, n, o) \/ (m.name = n /\ o \in m.outs)
  BY <1>1, <1>2, <1>3 DEF Names
<1>6. ASSUME NEW n, Once(s, n), m.name = n => ~Has(s, n)
      PROVE  Once(t, n)
  BY <1>1, <1>2, <1>6 DEF Once, Has
<1>7. ASSUME NEW n, Apart(s, n), m.name = n => \A o \in m.outs : ~Names(s, n, o)
      PROVE  Apart(t, n)
  BY <1>1, <1>2, <1>7 DEF Apart, Names
<1> QED BY <1>4, <1>5, <1>6, <1>7 DEF t

(* What is in a queue from which the oldest message was taken. *)
LEMMA TailKnows ==
  ASSUME NEW S, NEW s \in Seq(S), s # <<>>
  PROVE  /\ Tail(s) \in Seq(S) /\ Head(s) \in S /\ Len(Tail(s)) = Len(s) - 1
         /\ Len(s) > 0
         /\ \A n : Has(s, n) <=> Head(s).name = n \/ Has(Tail(s), n)
         /\ \A n, o : Names(s, n, o) <=>
                        (Head(s).name = n /\ o \in Head(s).outs) \/ Names(Tail(s), n, o)
         /\ \A n : Once(s, n) => Once(Tail(s), n) /\ (Head(s).name = n => ~Has(Tail(s), n))
         /\ \A n : Apart(s, n) =>
              /\ Apart(Tail(s), n)
              /\ Head(s).name = n => \A o \in Head(s).outs : ~Names(Tail(s), n, o)
         /\ \A n : s[Len(s)].name = n =>
              Tail(s) = <<>> \/ Tail(s)[Len(Tail(s))].name = n
<1> DEFINE t == Tail(s)
           h == Head(s)
<1>1. t \in Seq(S) /\ h \in S /\ Len(t) = Len(s) - 1 /\ Len(s) \in Nat /\ Len(s) > 0
      /\ s[1] = h
  OBVIOUS
<1>2. \A k \in 1 .. Len(t) : t[k] = s[k + 1]
  OBVIOUS
<1>3. t # <<>> => Len(t) > 0
  BY <1>1
<1> HIDE DEF t, h
<1>4. /\ 1 \in 1 .. Len(s)
      /\ \A k \in 1 .. Len(t) : k + 1 \in 1 .. Len(s)
      /\ \A k \in 1 .. Len(s) : k = 1 \/ (k - 1 \in 1 .. Len(t) /\ t[k - 1] = s[k])
  BY <1>1, <1>2
<1>5. \A n : Has(s, n) <=> h.name = n \/ Has(t, n)
  <2>1. ASSUME NEW n, Has(s, n) PROVE h.name = n \/ Has(t, n)
    <3>1. PICK k \in 1 .. Len(s) : s[k].name = n
      BY <2>1 DEF Has
    <3> QED BY <1>1, <1>4, <3>1 DEF Has
  <2>2. ASSUME NEW n, h.name = n \/ Has(t, n) PROVE Has(s, n)
    BY <1>1, <1>2, <1>4, <2>2 DEF Has
  <2> QED BY <2>1, <2>2
<1>6. \A n, o : Names(s, n, o) <=> (h.name = n /\ o \in h.outs) \/ Names(t, n, o)
  BY <1>1, <1>2, <1>4 DEF Names
<1>7. ASSUME NEW n, Once(s, n) PROVE Once(t, n) /\ (h.name = n => ~Has(t, n))
  <2>1. ASSUME NEW k \in 1 .. Len(t), NEW l \in 1 .. Len(t), t[k].name = n, t[l].name = n
        PROVE  k = l
    <3>1. s[k + 1].name = n /\ s[l + 1].name = n
      BY <1>2, <2>1
    <3>2. k + 1 = l + 1
      BY <1>4, <1>7, <3>1 DEF Once
    <3> QED BY <3>2
  <2>2. ASSUME h.name = n, NEW k \in 1 .. Len(t), t[k].name = n PROVE FALSE
    <3>1. 1 = k + 1
      BY <1>1, <1>2, <1>4, <1>7, <2>2 DEF Once
    <3> QED BY <3>1
  <2> QED BY <2>1, <2>2 DEF Once, Has
<1>8. ASSUME NEW n, Apart(s, n)
      PROVE  Apart(t, n) /\ (h.name = n => \A o \in h.outs : ~Names(t, n, o))
  BY <1>1, <1>2, <1>4, <1>8 DEF Apart, Names
<1>9. ASSUME NEW n, s[Len(s)].name = n PROVE t = <<>> \/ t[Len(t)].name = n
  BY <1>1, <1>2, <1>3, <1>9
<1> QED BY <1>1, <1>5, <1>6, <1>7, <1>8, <1>9 DEF t, h

(* Concatenating a short tuple is appending its elements. *)
LEMMA ConcatAppends ==
  ASSUME NEW S, NEW s \in Seq(S), NEW a \in S, NEW b \in S, NEW c \in S
  PROVE  /\ s \o <<>> = s
         /\ s \o <<a>> = Append(s, a)
         /\ s \o <<a, b>> = Append(Append(s, a), b)
         /\ s \o <<a, b, c>> = Append(Append(Append(s, a), b), c)
         /\ s \o (<<>> \o <<a>>) = Append(s, a)
         /\ s \o (<<a>> \o <<b>>) = Append(Append(s, a), b)
OBVIOUS

(* A message has the name and the outputs it is made from. *)
LEMMA MessageTyped ==
  ASSUME NEW n, NEW outs \in SUBSET Outputs
  PROVE  /\ Message(n, outs).name = n /\ Message(n, outs).outs = outs
         /\ n \in RequestNames => Message(n, outs) \in Requests
         /\ n \in EventNames => Message(n, outs) \in Events
BY DEF Message, Requests, Events

(* The outcomes of kl_context_lock_session: nothing was asked for, or the   *)
(* lock and the surfaces were.                                              *)
LEMMA LockWrites ==
  ASSUME TypeOK, LockSession
  PROVE  \/ wire' = wire /\ ctx' = ctx /\ pc' = "destroy" /\ turn' = "run" /\ mishap'
         \/ \E bound \in SUBSET Outputs :
              /\ wire' = Append(Append(wire, Message("lock", {})), Message("attach", bound))
              /\ ctx' = [ctx EXCEPT !.lock = TRUE, !.attached = bound]
              /\ bound \subseteq ctx.surfaces
              /\ \/ /\ pc' = "locking" /\ turn' = "block" /\ mishap' = mishap
                    /\ bound = ctx.surfaces
                 \/ pc' = "destroy" /\ turn' = "run" /\ mishap' /\ LockMayFail
<1>1. ctx.surfaces \in SUBSET Outputs /\ wire \in Seq(Requests)
  BY DEF TypeOK, Contexts
<1>2. \A bound \in SUBSET Outputs :
        wire \o <<Message("lock", {}), Message("attach", bound)>>
          = Append(Append(wire, Message("lock", {})), Message("attach", bound))
  BY <1>1, MessageTyped, ConcatAppends DEF RequestNames
<1> QED BY <1>1, <1>2 DEF LockSession, Goto

(* What kl_context_unlock_session writes. *)
LEMMA UnlockWrites ==
  ASSUME TypeOK, UnlockSession, ActivelyLocked
  PROVE  wire' = Append(Append(Append(wire, Message("detach", ctx.attached)),
                               Message("unlock", {})),
                        Message("sync", {}))
<1>1. ctx.attached \in SUBSET Outputs /\ wire \in Seq(Requests)
  BY DEF TypeOK, Contexts
<1>2. /\ Message("detach", ctx.attached) \in Requests
      /\ Message("unlock", {}) \in Requests /\ Message("sync", {}) \in Requests
  BY <1>1, MessageTyped DEF RequestNames
<1>3. wire' = wire \o UnlockRequests
  BY DEF UnlockSession
<1> QED BY <1>1, <1>2, <1>3, ConcatAppends DEF UnlockRequests

(* What kl_context_destroy writes, with or without a lock object. *)
LEMMA DestroyWrites ==
  ASSUME TypeOK, ContextDestroy
  PROVE  LET told == Append(wire, Message("detach", ctx.attached))
         IN  /\ ~ctx.lock => wire' = Append(told, Message("sync", {}))
             /\ ctx.lock /\ ctx.isLocked /\ ~ctx.isFinished =>
                  wire' = Append(Append(told, Message("unlock", {})), Message("sync", {}))
             /\ ctx.lock /\ (~ctx.isLocked \/ ctx.isFinished) =>
                  wire' = Append(Append(told, Message("destroy", {})), Message("sync", {}))
<1> DEFINE d == Message("detach", ctx.attached)
           y == Message("sync", {})
<1>1. ctx.attached \in SUBSET Outputs /\ wire \in Seq(Requests)
  BY DEF TypeOK, Contexts
<1>2. /\ d \in Requests /\ y \in Requests
      /\ Message("unlock", {}) \in Requests /\ Message("destroy", {}) \in Requests
  BY <1>1, MessageTyped DEF RequestNames
<1>3. wire' = wire \o <<d>> \o LastRequest \o <<y>>
  BY DEF ContextDestroy
<1>4. Append(wire, d) \in Seq(Requests) /\ wire \o <<d>> = Append(wire, d)
  BY <1>1, <1>2, ConcatAppends
<1>5. /\ Append(wire, d) \o <<>> = Append(wire, d)
      /\ \A m \in Requests : /\ Append(wire, d) \o <<m>> = Append(Append(wire, d), m)
                             /\ Append(Append(wire, d), m) \in Seq(Requests)
  BY <1>1, <1>2, <1>4, ConcatAppends
<1>6. ~ctx.lock => wire' = Append(Append(wire, d), y)
  BY <1>2, <1>3, <1>4, <1>5 DEF LastRequest
<1>7. ASSUME ctx.lock, ctx.isLocked /\ ~ctx.isFinished
      PROVE  wire' = Append(Append(Append(wire, d), Message("unlock", {})), y)
  <2>1. LastRequest = <<Message("unlock", {})>>
    BY <1>7 DEF LastRequest
  <2> QED BY <1>2, <1>3, <1>4, <1>5, <2>1, ConcatAppends
<1>8. ASSUME ctx.lock, ~ctx.isLocked \/ ctx.isFinished
      PROVE  wire' = Append(Append(Append(wire, d), Message("destroy", {})), y)
  <2>1. LastRequest = <<Message("destroy", {})>>
    BY <1>8 DEF LastRequest
  <2> QED BY <1>2, <1>3, <1>4, <1>5, <2>1, ConcatAppends
<1> QED BY <1>6, <1>7, <1>8

(* The globals the compositor announces when the registry is created. *)
LEMMA RegistryAnswers ==
  ASSUME TypeOK
  PROVE  LET msgs == (IF comp.complete THEN <<Message("core", {})>> ELSE <<>>)
                       \o <<Message("global", comp.present)>>
         IN  events \o msgs =
               IF comp.complete
                 THEN Append(Append(events, Message("core", {})),
                             Message("global", comp.present))
                 ELSE Append(events, Message("global", comp.present))
<1>1. /\ events \in Seq(Events) /\ Message("core", {}) \in Events
      /\ Message("global", comp.present) \in Events
  BY MessageTyped DEF TypeOK, Compositors, EventNames
<1> QED BY <1>1, ConcatAppends

(* What serving one request does, request by request. *)
LEMMA Served ==
  ASSUME TypeOK, ServeRequest
  PROVE  /\ up /\ wire # <<>> /\ wire' = Tail(wire) /\ UNCHANGED client
         /\ Head(wire).name \in RequestNames /\ Head(wire).outs \in SUBSET Outputs
         /\ LET r == Head(wire)
            IN  /\ r.name = "registry" =>
                     /\ comp' = [comp EXCEPT !.watched = TRUE] /\ up' = up
                     /\ events' = IF comp.complete
                                    THEN Append(Append(events, Message("core", {})),
                                                Message("global", comp.present))
                                    ELSE Append(events, Message("global", comp.present))
                /\ r.name = "sync" =>
                     comp' = comp /\ up' = up /\ events' = Append(events, Message("done", {}))
                /\ r.name \notin {"registry", "sync"} => events' = events
                /\ r.name = "lock" => comp' = [comp EXCEPT !.lock = "held"] /\ up' = up
                /\ r.name = "attach" =>
                     \/ /\ r.outs \cap comp.covered = {} /\ up' = up
                        /\ comp' = [comp EXCEPT !.covered = @ \cup (r.outs \cap comp.present)]
                     \/ /\ r.outs \cap comp.covered # {} /\ up' = FALSE
                        /\ comp' = [comp EXCEPT !.errors = @ \cup {"duplicate_output"}]
                /\ r.name = "detach" =>
                     comp' = [comp EXCEPT !.covered = @ \ r.outs] /\ up' = up
                /\ r.name = "destroy" =>
                     \/ /\ ~comp.sentLocked /\ up' = up
                        /\ comp' = [comp EXCEPT !.lock = "gone"]
                     \/ /\ comp.sentLocked /\ up' = FALSE
                        /\ comp' = [comp EXCEPT !.errors = @ \cup {"invalid_destroy"}]
                /\ r.name = "unlock" =>
                     \/ /\ comp.sentLocked /\ up' = up
                        /\ comp' = [comp EXCEPT !.lock = "gone", !.holds = FALSE]
                     \/ /\ ~comp.sentLocked /\ up' = FALSE
                        /\ comp' = [comp EXCEPT !.errors = @ \cup {"invalid_unlock"}]
<1>1. up /\ wire # <<>> /\ wire' = Tail(wire) /\ UNCHANGED client
  BY DEF ServeRequest
<1>2. Head(wire) \in Requests
  BY <1>1, TailKnows DEF TypeOK
<1>3. Head(wire).name \in RequestNames /\ Head(wire).outs \in SUBSET Outputs
  BY <1>2 DEF Requests
<1>4. events \in Seq(Events) /\ Message("done", {}) \in Events
  BY MessageTyped DEF TypeOK, EventNames
<1>5. events \o <<>> = events
      /\ events \o <<Message("done", {})>> = Append(events, Message("done", {}))
  BY <1>4, ConcatAppends
<1>6. CASE Head(wire).name = "registry"
  BY <1>1, <1>3, <1>6, RegistryAnswers DEF ServeRequest, Send
<1>7. CASE Head(wire).name = "sync"
  BY <1>1, <1>3, <1>5, <1>7 DEF ServeRequest, Send
<1>8. CASE Head(wire).name \notin {"registry", "sync"}
  BY <1>1, <1>3, <1>5, <1>8 DEF ServeRequest, Send, Refuse
<1> QED BY <1>6, <1>7, <1>8

(* The updates of the compositor's state keep its type. *)
LEMMA CompTyped ==
  ASSUME NEW c \in Compositors, NEW outs \in SUBSET Outputs, NEW p \in SUBSET Outputs,
         NEW e \in {"duplicate_output", "invalid_destroy", "invalid_unlock"}
  PROVE  /\ [c EXCEPT !.watched = TRUE] \in Compositors
         /\ [c EXCEPT !.lock = "held"] \in Compositors
         /\ [c EXCEPT !.lock = "gone"] \in Compositors
         /\ [c EXCEPT !.lock = "gone", !.holds = FALSE] \in Compositors
         /\ [c EXCEPT !.covered = @ \cup (outs \cap c.present)] \in Compositors
         /\ [c EXCEPT !.covered = @ \ outs] \in Compositors
         /\ [c EXCEPT !.errors = @ \cup {e}] \in Compositors
         /\ [c EXCEPT !.sentLocked = TRUE, !.holds = TRUE] \in Compositors
         /\ [c EXCEPT !.sentFinished = TRUE, !.holds = FALSE] \in Compositors
         /\ [c EXCEPT !.unused = @ \ outs, !.present = @ \cup outs] \in Compositors
         /\ [c EXCEPT !.present = @ \ outs, !.covered = @ \ outs] \in Compositors
BY DEF Compositors

(* Every step of SessionLock preserves the types and the control flow. *)
LEMMA TypedStep ==
  ASSUME TypeOK, Control, [Next]_vars
  PROVE  TypeOK' /\ Control'
<1>1. /\ wire \in Seq(Requests) /\ events \in Seq(Events) /\ comp \in Compositors
      /\ ctx \in Contexts /\ Len(events) \in Nat /\ batch \in 0 .. Len(events)
      /\ ctx.surfaces \in SUBSET Outputs /\ ctx.attached \in SUBSET Outputs
      /\ ctx.attached \subseteq ctx.surfaces
  BY DEF TypeOK, Contexts
<1>2. \A n \in RequestNames, outs \in SUBSET Outputs : Message(n, outs) \in Requests
  BY MessageTyped
<1>3. \A n \in EventNames, outs \in SUBSET Outputs : Message(n, outs) \in Events
  BY MessageTyped
<1>4. \A s \in Seq(Requests), m \in Requests : Append(s, m) \in Seq(Requests)
  OBVIOUS
<1>5. \A s \in Seq(Events), m \in Events :
        Append(s, m) \in Seq(Events) /\ Len(Append(s, m)) = Len(s) + 1
  OBVIOUS
<1>6. ASSUME NEW s, s = events \/ (s \in Seq(Events) /\ Len(s) >= Len(events)),
             events' = s, batch' = batch
      PROVE  events' \in Seq(Events) /\ batch' \in 0 .. Len(events')
  <2>1. s \in Seq(Events) /\ Len(s) \in Nat /\ Len(s) >= Len(events)
    BY <1>1, <1>6
  <2> QED BY <1>1, <1>6, <2>1
<1>7. CASE Dispatch
  <2> DEFINE e == Head(events)
  <2>1. batch >= 1 /\ events # <<>>
    BY <1>1, <1>7 DEF Dispatch, Control
  <2>2. e \in Events /\ Tail(events) \in Seq(Events) /\ Len(Tail(events)) = Len(events) - 1
    BY <1>1, <2>1, TailKnows
  <2>3. e.outs \in SUBSET Outputs
    BY <2>2 DEF Events
  <2>4. /\ events' = Tail(events) /\ batch' = batch - 1
        /\ turn' = (IF batch = 1 THEN "test" ELSE "dispatch")
        /\ turn = "dispatch" /\ UNCHANGED <<pc, expired, comp, up>>
    BY <1>7 DEF Dispatch
  <2>5. events' \in Seq(Events) /\ batch' \in 0 .. Len(events')
    BY <1>1, <2>1, <2>2, <2>4
  <2>6. Control'
    BY <1>1, <2>1, <2>4 DEF Control, Running
  <2>7. /\ ctx' \in Contexts /\ ctx'.attached \subseteq ctx'.surfaces
        /\ wire' \in Seq(Requests) /\ mishap' \in BOOLEAN
    <3>1. CASE HandleOutputs(e.outs)
      <4>1. PICK made \in SUBSET e.outs :
              \E bound \in IF ctx.lock /\ ~ctx.isFinished THEN SUBSET made ELSE {{}} :
                /\ ctx' = [ctx EXCEPT !.surfaces = @ \cup made,
                            !.attached = @ \cup bound,
                            !.failed = @ \/ made # e.outs]
                /\ wire' = IF bound = {} THEN wire ELSE Append(wire, Message("attach", bound))
                /\ mishap' = (mishap \/ made # e.outs
                      \/ (ctx.lock /\ ~ctx.isFinished /\ bound # made))
        BY <3>1 DEF HandleOutputs
      <4>2. PICK bound \in IF ctx.lock /\ ~ctx.isFinished THEN SUBSET made ELSE {{}} :
                /\ ctx' = [ctx EXCEPT !.surfaces = @ \cup made,
                            !.attached = @ \cup bound,
                            !.failed = @ \/ made # e.outs]
                /\ wire' = IF bound = {} THEN wire ELSE Append(wire, Message("attach", bound))
                /\ mishap' = (mishap \/ made # e.outs
                      \/ (ctx.lock /\ ~ctx.isFinished /\ bound # made))
        BY <4>1
      <4>3. made \in SUBSET Outputs /\ bound \in SUBSET Outputs
        BY <2>3, <4>2
      <4>4. (ctx.failed \/ made # e.outs) \in BOOLEAN
        BY <1>1 DEF Contexts
      <4>5. ctx' \in Contexts /\ ctx'.attached \subseteq ctx'.surfaces
        <5>1. bound \subseteq made
          BY <4>2
        <5> QED BY <1>1, <4>2, <4>3, <4>4, <5>1 DEF Contexts
      <4>6. wire' \in Seq(Requests)
        BY <1>1, <1>2, <1>4, <4>2, <4>3 DEF RequestNames
      <4>7. mishap' \in BOOLEAN
        BY <4>2 DEF TypeOK
      <4> QED BY <4>5, <4>6, <4>7
    <3>2. CASE HandleGlobalRemove(e.outs)
      <4>1. ctx' \in Contexts /\ ctx'.attached \subseteq ctx'.surfaces
        BY <1>1, <3>2 DEF HandleGlobalRemove, Contexts
      <4>2. wire' \in Seq(Requests)
        BY <1>1, <1>2, <1>4, <2>3, <3>2 DEF HandleGlobalRemove, RequestNames
      <4> QED BY <3>2, <4>1, <4>2 DEF HandleGlobalRemove, TypeOK
    <3>3. CASE HandleCore
      <4>1. ctx' \in Contexts /\ ctx'.attached \subseteq ctx'.surfaces
        BY <1>1, <3>3 DEF HandleCore, Contexts
      <4> QED BY <1>1, <3>3, <4>1 DEF HandleCore, TypeOK
    <3>4. CASE /\ ctx' \in {HandleLocked, HandleFinished, ctx}
               /\ UNCHANGED <<wire, mishap>>
      <4>1. ctx' \in Contexts /\ ctx'.attached \subseteq ctx'.surfaces
        BY <1>1, <3>4 DEF HandleLocked, HandleFinished, Contexts
      <4> QED BY <1>1, <3>4, <4>1 DEF TypeOK
    <3> QED BY <1>7, <3>1, <3>2, <3>3, <3>4 DEF Dispatch
  <2>8. awaited' \in BOOLEAN
    BY <1>7 DEF Dispatch, TypeOK
  <2> QED BY <1>1, <2>4, <2>5, <2>6, <2>7, <2>8 DEF TypeOK
<1>8. CASE ReadEvents
  BY <1>1, <1>8 DEF ReadEvents, Readable, TypeOK, Control, Running
<1>9. CASE KeepWaiting
  BY <1>9 DEF KeepWaiting, TypeOK, Control, Running
<1>10. CASE InitDone \/ LoopTop \/ Interrupted \/ WaitFails \/ LoopEnd \/ UnlockDone
             \/ ConnectionLost \/ LockingDone
  BY <1>10
  DEF InitDone, LoopTop, Interrupted, WaitFails, AfterSignal, LoopEnd, AfterBatch, UnlockDone,
      ConnectionLost, LockingDone, Goto, TypeOK, Control, Running
<1>11. CASE LockSession
  <2>1. /\ (pc' = "destroy" /\ turn' = "run") \/ (pc' = "locking" /\ turn' = "block")
        /\ mishap' = mishap \/ mishap' = TRUE
    BY <1>11 DEF LockSession, Goto
  <2>3. \A bound \in SUBSET Outputs :
          /\ [ctx EXCEPT !.lock = TRUE, !.attached = bound] \in Contexts
          /\ [ctx EXCEPT !.lock = TRUE, !.attached = bound].attached = bound
          /\ [ctx EXCEPT !.lock = TRUE, !.attached = bound].surfaces = ctx.surfaces
          /\ Append(Append(wire, Message("lock", {})), Message("attach", bound))
               \in Seq(Requests)
    BY <1>1, <1>2, <1>4 DEF Contexts, RequestNames
  <2>4. /\ ctx' \in Contexts /\ ctx'.attached \subseteq ctx'.surfaces
        /\ wire' \in Seq(Requests)
    <3>1. CASE wire' = wire /\ ctx' = ctx
      BY <1>1, <3>1
    <3>2. ASSUME NEW bound \in SUBSET Outputs, bound \subseteq ctx.surfaces,
                 wire' = Append(Append(wire, Message("lock", {})), Message("attach", bound)),
                 ctx' = [ctx EXCEPT !.lock = TRUE, !.attached = bound]
          PROVE  /\ ctx' \in Contexts /\ ctx'.attached \subseteq ctx'.surfaces
                 /\ wire' \in Seq(Requests)
      BY <2>3, <3>2
    <3> QED BY <1>11, <3>1, <3>2, LockWrites
  <2>2. UNCHANGED <<batch, awaited, expired, events, comp, up>>
    BY <1>11 DEF LockSession
  <2> QED BY <2>1, <2>2, <2>4 DEF TypeOK, Control, Running
<1>12. CASE UnlockSession
  <2>1. wire' \in Seq(Requests)
    <3>1. CASE ActivelyLocked
      <4>1. /\ Message("detach", ctx.attached) \in Requests
            /\ Message("unlock", {}) \in Requests /\ Message("sync", {}) \in Requests
        BY <1>1, <1>2 DEF RequestNames
      <4> QED BY <1>1, <1>4, <1>12, <3>1, <4>1, UnlockWrites
    <3>2. CASE ~ActivelyLocked
      BY <1>1, <1>12, <3>2 DEF UnlockSession
    <3> QED BY <3>1, <3>2
  <2>2. ctx' \in Contexts /\ ctx'.attached \subseteq ctx'.surfaces
    BY <1>1, <1>12 DEF UnlockSession, Contexts
  <2>3. /\ <<pc', turn'>> \in {<<"destroy", "run">>, <<"unlocking", "block">>}
        /\ awaited' \in {awaited, TRUE}
        /\ UNCHANGED <<batch, expired, mishap, events, comp, up>>
    BY <1>12 DEF UnlockSession, Goto
  <2> QED BY <2>1, <2>2, <2>3 DEF TypeOK, Control, Running
<1>13. CASE ContextDestroy
  <2>1. wire' \in Seq(Requests)
    BY <1>1, <1>2, <1>4, <1>13, DestroyWrites DEF RequestNames
  <2>2. ctx' \in Contexts /\ ctx'.attached \subseteq ctx'.surfaces
    BY <1>1, <1>13 DEF ContextDestroy, Contexts
  <2> QED BY <1>13, <2>1, <2>2 DEF ContextDestroy, Goto, TypeOK, Control, Running
<1>14. CASE DestroyDone
  <2>1. ctx' \in Contexts /\ ctx'.attached \subseteq ctx'.surfaces
    BY <1>1, <1>14 DEF DestroyDone, Contexts
  <2> QED BY <1>14, <2>1 DEF DestroyDone, Goto, TypeOK, Control, Running
<1>15. CASE Expire
  BY <1>15 DEF Expire, TypeOK, Control
<1>16. ASSUME UNCHANGED client, comp' \in Compositors, up' \in BOOLEAN,
              wire' \in Seq(Requests),
              events' = events
                \/ (events' \in Seq(Events) /\ Len(events') >= Len(events))
       PROVE  TypeOK' /\ Control'
  <2>1. events' \in Seq(Events) /\ batch' \in 0 .. Len(events')
    BY <1>6, <1>16 DEF client
  <2> QED BY <1>16, <2>1 DEF client, TypeOK, Control
<1>17. CASE ServeRequest
  <2>1. wire' \in Seq(Requests)
    <3>1. wire \in Seq(Requests) /\ wire # <<>> /\ wire' = Tail(wire)
      BY <1>1, <1>17, Served
    <3> QED BY <3>1, TailKnows
  <2>2. comp' \in Compositors
    <3>1. Head(wire).name \in RequestNames /\ Head(wire).outs \in SUBSET Outputs
      BY <1>17, Served
    <3>2. CASE Head(wire).name \in {"registry", "sync", "lock"}
      BY <1>1, <1>17, <3>1, <3>2, Served, CompTyped
    <3>3. CASE Head(wire).name \in {"attach", "detach"}
      <4>1. \/ comp' = [comp EXCEPT !.covered = @ \cup (Head(wire).outs \cap comp.present)]
            \/ comp' = [comp EXCEPT !.covered = @ \ Head(wire).outs]
            \/ comp' = [comp EXCEPT !.errors = @ \cup {"duplicate_output"}]
        BY <1>17, <3>3, Served
      <4>2. /\ [comp EXCEPT !.covered = @ \cup (Head(wire).outs \cap comp.present)]
                 \in Compositors
            /\ [comp EXCEPT !.covered = @ \ Head(wire).outs] \in Compositors
        BY <1>1, <3>1, CompTyped
      <4>3. [comp EXCEPT !.errors = @ \cup {"duplicate_output"}] \in Compositors
        BY <1>1, <3>1, CompTyped
      <4> QED BY <4>1, <4>2, <4>3
    <3>4. CASE Head(wire).name \in {"destroy", "unlock"}
      BY <1>1, <1>17, <3>1, <3>4, Served, CompTyped
    <3> QED BY <3>1, <3>2, <3>3, <3>4 DEF RequestNames
  <2>3. events' = events \/ (events' \in Seq(Events) /\ Len(events') >= Len(events))
    <3>1. /\ Append(events, Message("done", {})) \in Seq(Events)
          /\ Append(events, Message("core", {})) \in Seq(Events)
          /\ Append(events, Message("global", comp.present)) \in Seq(Events)
          /\ Append(Append(events, Message("core", {})), Message("global", comp.present))
               \in Seq(Events)
      BY <1>1, <1>3, <1>5 DEF EventNames, Compositors
    <3>2. /\ Len(Append(events, Message("done", {}))) = Len(events) + 1
          /\ Len(Append(events, Message("core", {}))) = Len(events) + 1
          /\ Len(Append(events, Message("global", comp.present))) = Len(events) + 1
          /\ Len(Append(Append(events, Message("core", {})), Message("global", comp.present)))
               = Len(events) + 2
      BY <1>1, <1>3, <1>5, <3>1 DEF EventNames, Compositors
    <3>3. \/ events' = events
          \/ events' = Append(events, Message("done", {}))
          \/ events' = Append(events, Message("global", comp.present))
          \/ events' = Append(Append(events, Message("core", {})),
                              Message("global", comp.present))
      BY <1>17, Served
    <3>4. \A s : s \in Seq(Events) /\ Len(s) \in {Len(events) + 1, Len(events) + 2}
                  => s \in Seq(Events) /\ Len(s) >= Len(events)
      BY <1>1
    <3> QED BY <3>1, <3>2, <3>3, <3>4
  <2>4. up' \in BOOLEAN
    BY <1>17, Served DEF RequestNames, TypeOK
  <2> QED BY <1>16, <1>17, <2>1, <2>2, <2>3, <2>4, Served
<1>18. ASSUME NEW c \in Compositors, NEW n \in EventNames, NEW outs \in SUBSET Outputs,
              NEW b \in BOOLEAN,
              Send(c, IF b THEN <<Message(n, outs)>> ELSE <<>>),
              UNCHANGED <<client, wire>>
       PROVE  TypeOK' /\ Control'
  <2>1. Message(n, outs) \in Events
    BY <1>3
  <2>2. events \o <<Message(n, outs)>> = Append(events, Message(n, outs))
        /\ events \o <<>> = events
    BY <1>1, <2>1, ConcatAppends
  <2>3. events' = events \/ (events' \in Seq(Events) /\ Len(events') >= Len(events))
    BY <1>1, <1>5, <1>18, <2>1, <2>2 DEF Send
  <2>4. comp' \in Compositors /\ up' \in BOOLEAN /\ wire' \in Seq(Requests)
    BY <1>1, <1>18 DEF Send, TypeOK
  <2> QED BY <1>16, <1>18, <2>3, <2>4
<1>19. CASE SendLocked
  BY <1>1, <1>18, <1>19, CompTyped DEF SendLocked, EventNames
<1>20. CASE SendFinished
  BY <1>1, <1>18, <1>20, CompTyped DEF SendFinished, EventNames
<1>21. CASE Tick
  BY <1>1, <1>18, <1>21 DEF Tick, EventNames
<1>22. ASSUME NEW o \in Outputs, Plug(o)
       PROVE  TypeOK' /\ Control'
  <2>1. [comp EXCEPT !.unused = @ \ {o}, !.present = @ \cup {o}] \in Compositors
    BY <1>1, CompTyped
  <2>2. comp.watched \in BOOLEAN
    BY <1>1 DEF Compositors
  <2> QED BY <1>18, <1>22, <2>1, <2>2 DEF Plug, EventNames
<1>23. ASSUME NEW o \in Outputs, Unplug(o)
       PROVE  TypeOK' /\ Control'
  <2>1. [comp EXCEPT !.present = @ \ {o}, !.covered = @ \ {o}] \in Compositors
    BY <1>1, CompTyped
  <2>2. comp.watched \in BOOLEAN
    BY <1>1 DEF Compositors
  <2> QED BY <1>18, <1>23, <2>1, <2>2 DEF Unplug, EventNames
<1>24. CASE Disconnect
  BY <1>1, <1>16, <1>24 DEF Disconnect
<1>25. CASE UNCHANGED vars
  BY <1>25 DEF vars, TypeOK, Control
<1> QED
  BY <1>7, <1>8, <1>9, <1>10, <1>11, <1>12, <1>13, <1>14, <1>15, <1>17, <1>19,
     <1>20, <1>21, <1>22, <1>23, <1>24, <1>25
  DEF Next, ClientStep, CompositorStep, Exited

(* What dispatching one event does to the context and to the wire. *)
LEMMA Dispatched ==
  ASSUME TypeOK, Control, Dispatch
  PROVE  LET e == Head(events)
         IN  /\ events # <<>> /\ events' = Tail(events) /\ e.outs \in SUBSET Outputs
             /\ pc \notin Running /\ UNCHANGED <<pc, expired, comp, up>>
             /\ awaited' = (awaited /\ e.name # "done")
             /\ mishap => mishap'
             /\ ctx'.lock = ctx.lock /\ ctx'.registry = ctx.registry
             /\ ctx.isLocked => ctx'.isLocked
             /\ ctx'.isLocked => ctx.isLocked \/ (e.name = "locked" /\ ctx.lock)
             /\ ctx.isFinished => ctx'.isFinished
             /\ ctx'.isFinished => ctx.isFinished \/ (e.name = "finished" /\ ctx.lock)
             /\ ctx'.surfaces \subseteq ctx.surfaces \cup
                  (IF e.name = "global" THEN e.outs ELSE {})
             /\ ctx.lock /\ ~ctx.isFinished /\ ~mishap' /\ ctx.attached = ctx.surfaces
                  => ctx'.attached = ctx'.surfaces
             /\ \/ wire' = wire
                \/ /\ ctx.registry
                   /\ \E outs \in SUBSET Outputs :
                        \/ wire' = Append(wire, Message("detach", outs))
                        \/ /\ wire' = Append(wire, Message("attach", outs))
                           /\ e.name = "global" /\ outs \subseteq e.outs /\ ctx.lock
<1> DEFINE e == Head(events)
<1>1. events # <<>> /\ e \in Events
  <2>1. events # <<>>
    BY DEF Dispatch, TypeOK, Control
  <2> QED BY <2>1, TailKnows DEF TypeOK
<1>2. e.outs \in SUBSET Outputs
  BY <1>1 DEF Events
<1>3. /\ events' = Tail(events) /\ pc \notin Running /\ UNCHANGED <<pc, expired, comp, up>>
      /\ awaited' = (awaited /\ e.name # "done")
  BY DEF Dispatch, Control
<1>4. ctx \in Contexts
  BY DEF TypeOK
<1> HIDE DEF e
<1>5. ASSUME Heard(e), e.name = "global", HandleOutputs(e.outs)
      PROVE  /\ mishap => mishap'
             /\ UNCHANGED <<ctx.lock, ctx.registry, ctx.isLocked, ctx.isFinished>>
             /\ ctx'.surfaces \subseteq ctx.surfaces \cup e.outs
             /\ ctx.lock /\ ~ctx.isFinished /\ ~mishap' /\ ctx.attached = ctx.surfaces
                  => ctx'.attached = ctx'.surfaces
             /\ \/ wire' = wire
                \/ /\ ctx.registry
                   /\ \E outs \in SUBSET Outputs :
                        /\ wire' = Append(wire, Message("attach", outs))
                        /\ outs \subseteq e.outs /\ ctx.lock
  <2>1. PICK made \in SUBSET e.outs :
          \E bound \in IF ctx.lock /\ ~ctx.isFinished THEN SUBSET made ELSE {{}} :
            /\ ctx' = [ctx EXCEPT !.surfaces = @ \cup made, !.attached = @ \cup bound,
                                  !.failed = @ \/ made # e.outs]
            /\ wire' = IF bound = {} THEN wire ELSE Append(wire, Message("attach", bound))
            /\ mishap' = (mishap \/ made # e.outs
                            \/ (ctx.lock /\ ~ctx.isFinished /\ bound # made))
    BY <1>5 DEF HandleOutputs
  <2>2. PICK bound \in IF ctx.lock /\ ~ctx.isFinished THEN SUBSET made ELSE {{}} :
            /\ ctx' = [ctx EXCEPT !.surfaces = @ \cup made, !.attached = @ \cup bound,
                                  !.failed = @ \/ made # e.outs]
            /\ wire' = IF bound = {} THEN wire ELSE Append(wire, Message("attach", bound))
            /\ mishap' = (mishap \/ made # e.outs
                            \/ (ctx.lock /\ ~ctx.isFinished /\ bound # made))
    BY <2>1
  <2>3. /\ UNCHANGED <<ctx.lock, ctx.registry, ctx.isLocked, ctx.isFinished>>
        /\ ctx'.surfaces = ctx.surfaces \cup made
        /\ ctx'.attached = ctx.attached \cup bound
    BY <1>4, <2>2 DEF Contexts
  <2>4. bound # {} => ctx.lock /\ bound \subseteq e.outs /\ bound \in SUBSET Outputs
    BY <1>2, <2>2
  <2>5. ctx.registry
    BY <1>5 DEF Heard
  <2>6. /\ mishap => mishap'
        /\ ctx.lock /\ ~ctx.isFinished /\ ~mishap' => bound = made
    BY <2>2
  <2>7. \/ wire' = wire
        \/ \E outs \in SUBSET Outputs :
             /\ wire' = Append(wire, Message("attach", outs))
             /\ outs \subseteq e.outs /\ ctx.lock
    BY <2>2, <2>4
  <2> QED BY <2>3, <2>5, <2>6, <2>7
<1>6. ASSUME Heard(e), e.name = "remove", HandleGlobalRemove(e.outs)
      PROVE  /\ mishap' = mishap
             /\ UNCHANGED <<ctx.lock, ctx.registry, ctx.isLocked, ctx.isFinished>>
             /\ ctx'.surfaces \subseteq ctx.surfaces
             /\ ctx.attached = ctx.surfaces => ctx'.attached = ctx'.surfaces
             /\ \/ wire' = wire
                \/ ctx.registry /\ wire' = Append(wire, Message("detach", e.outs))
  <2>1. /\ UNCHANGED <<ctx.lock, ctx.registry, ctx.isLocked, ctx.isFinished>>
        /\ ctx'.surfaces = ctx.surfaces \ e.outs
        /\ ctx'.attached = ctx.attached \ e.outs
    BY <1>4, <1>6 DEF HandleGlobalRemove, Contexts
  <2>2. ctx.registry
    BY <1>6 DEF Heard
  <2> QED BY <1>6, <2>1, <2>2 DEF HandleGlobalRemove
<1>7. ASSUME UNCHANGED <<wire, mishap>>,
             \/ ctx' = ctx
             \/ ctx' = HandleLocked /\ Heard(e) /\ e.name = "locked"
             \/ ctx' = HandleFinished /\ Heard(e) /\ e.name = "finished"
      PROVE  /\ UNCHANGED <<ctx.lock, ctx.registry, ctx.surfaces, ctx.attached>>
             /\ ctx.isLocked => ctx'.isLocked
             /\ ctx'.isLocked => ctx.isLocked \/ (e.name = "locked" /\ ctx.lock)
             /\ ctx.isFinished => ctx'.isFinished
             /\ ctx'.isFinished => ctx.isFinished \/ (e.name = "finished" /\ ctx.lock)
  BY <1>4, <1>7 DEF HandleLocked, HandleFinished, Heard, Contexts
<1>8. CASE Heard(e) /\ e.name = "global" /\ HandleOutputs(e.outs)
  BY <1>1, <1>2, <1>3, <1>5, <1>8 DEF e
<1>9. CASE Heard(e) /\ e.name = "remove" /\ HandleGlobalRemove(e.outs)
  BY <1>1, <1>2, <1>3, <1>6, <1>9 DEF e
<1>10. CASE /\ UNCHANGED <<wire, mishap>>
            /\ \/ ctx' = ctx
               \/ ctx' = HandleLocked /\ Heard(e) /\ e.name = "locked"
               \/ ctx' = HandleFinished /\ Heard(e) /\ e.name = "finished"
  BY <1>1, <1>2, <1>3, <1>7, <1>10 DEF e
<1>11. CASE HandleCore
  <2>1. /\ UNCHANGED <<wire, ctx.lock, ctx.registry, ctx.surfaces, ctx.attached,
                       ctx.isLocked, ctx.isFinished>>
        /\ mishap => mishap'
    BY <1>4, <1>11 DEF HandleCore, Contexts
  <2> QED BY <1>1, <1>2, <1>3, <2>1 DEF e
<1> QED BY <1>8, <1>9, <1>10, <1>11 DEF Dispatch, e

(* Every step preserves the stages of main, and attaches a surface as soon  *)
(* as there is a lock to attach it to.                                      *)
LEMMA StagesStep ==
  ASSUME TypeOK, Control, Stages, EverySurfaceAttached, [Next]_vars
  PROVE  Stages' /\ EverySurfaceAttached'
<1>1. ctx \in Contexts
  BY DEF TypeOK
<1>2. CASE Dispatch
  BY <1>2, Dispatched DEF Stages, EverySurfaceAttached
<1>3. CASE ReadEvents \/ KeepWaiting \/ Expire
  BY <1>3 DEF ReadEvents, KeepWaiting, Expire, Stages, EverySurfaceAttached
<1>4. CASE InitDone \/ LoopTop \/ Interrupted \/ WaitFails \/ LoopEnd \/ UnlockDone
             \/ ConnectionLost \/ LockingDone
  BY <1>4
  DEF InitDone, LoopTop, Interrupted, WaitFails, AfterSignal, LoopEnd, AfterBatch, UnlockDone,
      ConnectionLost, LockingDone, Goto, Stages, EverySurfaceAttached
<1>5. CASE LockSession
  <2>1. \/ ctx' = ctx /\ pc' = "destroy" /\ mishap'
        \/ /\ UNCHANGED <<ctx.surfaces, ctx.isLocked, ctx.isFinished>>
           /\ ctx'.lock /\ (ctx'.attached = ctx.surfaces \/ mishap')
           /\ pc' \in {"locking", "destroy"}
    BY <1>1, <1>5, LockWrites DEF Contexts
  <2> QED BY <1>5, <2>1 DEF Stages, EverySurfaceAttached, LockSession
<1>6. CASE UnlockSession
  <2>1. \/ ctx' = ctx /\ pc' = "destroy" /\ mishap' = mishap
        \/ ~ctx'.lock /\ pc' = "unlocking"
    BY <1>1, <1>6 DEF UnlockSession, Goto, Contexts
  <2> QED BY <2>1 DEF Stages, EverySurfaceAttached
<1>7. CASE ContextDestroy \/ DestroyDone
  <2>1. ~ctx'.lock /\ ~ctx'.registry /\ pc' \in {"destroying", "exited"}
    BY <1>1, <1>7 DEF ContextDestroy, DestroyDone, Goto, Stages, Contexts
  <2> QED BY <2>1 DEF Stages, EverySurfaceAttached
<1>8. CASE CompositorStep \/ UNCHANGED vars
  <2>1. UNCHANGED client
    BY <1>8
    DEF CompositorStep, ServeRequest, SendLocked, SendFinished, Tick, Disconnect,
        Plug, Unplug, client, vars
  <2> QED BY <2>1 DEF client, Stages, EverySurfaceAttached
<1> QED
  BY <1>2, <1>3, <1>4, <1>5, <1>6, <1>7, <1>8 DEF Next, ClientStep, Exited

(* An event the compositor sends comes last. *)
LEMMA SendAppends ==
  ASSUME TypeOK
  PROVE  /\ events \o <<>> = events
         /\ \A n \in EventNames, outs \in SUBSET Outputs :
              events \o <<Message(n, outs)>> = Append(events, Message(n, outs))
<1>1. events \in Seq(Events)
  BY DEF TypeOK
<1>2. \A n \in EventNames, outs \in SUBSET Outputs : Message(n, outs) \in Events
  BY MessageTyped
<1> QED BY <1>1, <1>2, ConcatAppends

(* What is on the wire when a request was written. *)
LEMMA WireKnows ==
  ASSUME NEW s \in Seq(Requests), NEW n \in RequestNames, NEW outs \in SUBSET Outputs
  PROVE  LET t == Append(s, Message(n, outs))
         IN  /\ t \in Seq(Requests) /\ t # <<>> /\ t[Len(t)].name = n
             /\ \A x : Has(t, x) <=> Has(s, x) \/ x = n
             /\ \A x, o : Names(t, x, o) <=> Names(s, x, o) \/ (x = n /\ o \in outs)
             /\ \A x : Once(s, x) /\ (x = n => ~Has(s, x)) => Once(t, x)
             /\ \A x : Apart(s, x) /\ (x = n => \A o \in outs : ~Names(s, x, o))
                         => Apart(t, x)
<1> DEFINE m == Message(n, outs)
<1>1. m \in Requests /\ m.name = n /\ m.outs = outs
  BY MessageTyped
<1> HIDE DEF m
<1>2. Append(s, m) # <<>> /\ Append(s, m)[Len(Append(s, m))] = m
  BY <1>1, AppendFields
<1>3. Append(s, m) \in Seq(Requests)
  BY <1>1, AppendFields
<1> QED BY <1>1, <1>2, <1>3, AppendKnows DEF m

(* What is in the event queue when an event was sent. *)
LEMMA EventsKnow ==
  ASSUME NEW s \in Seq(Events), NEW n \in EventNames, NEW outs \in SUBSET Outputs
  PROVE  LET t == Append(s, Message(n, outs))
         IN  /\ t \in Seq(Events)
             /\ \A x : Has(t, x) <=> Has(s, x) \/ x = n
             /\ \A x, o : Names(t, x, o) <=> Names(s, x, o) \/ (x = n /\ o \in outs)
             /\ \A x : Once(s, x) /\ (x = n => ~Has(s, x)) => Once(t, x)
             /\ \A x : Apart(s, x) /\ (x = n => \A o \in outs : ~Names(s, x, o))
                         => Apart(t, x)
<1> DEFINE m == Message(n, outs)
<1>1. m \in Events /\ m.name = n /\ m.outs = outs
  BY MessageTyped
<1> HIDE DEF m
<1>3. Append(s, m) \in Seq(Events)
  BY <1>1, AppendFields
<1> QED BY <1>1, <1>3, AppendKnows DEF m

(* What is on the wire after kl_context_unlock_session. *)
LEMMA UnlockHas ==
  ASSUME TypeOK, UnlockSession, ActivelyLocked
  PROVE  /\ wire'[Len(wire')].name = "sync"
         /\ \A x : Has(wire', x) <=> Has(wire, x) \/ x \in {"detach", "unlock", "sync"}
         /\ \A o : Names(wire', "attach", o) <=> Names(wire, "attach", o)
         /\ \A x \in {"lock", "registry"} : Once(wire, x) => Once(wire', x)
         /\ Once(wire, "sync") /\ ~Has(wire, "sync") => Once(wire', "sync")
         /\ Apart(wire, "attach") => Apart(wire', "attach")
<1> DEFINE w1 == Append(wire, Message("detach", ctx.attached))
           w2 == Append(w1, Message("unlock", {}))
           w3 == Append(w2, Message("sync", {}))
<1>1. /\ wire \in Seq(Requests) /\ ctx.attached \in SUBSET Outputs /\ {} \in SUBSET Outputs
      /\ "detach" \in RequestNames /\ "unlock" \in RequestNames /\ "sync" \in RequestNames
  BY DEF TypeOK, Contexts, RequestNames
<1>2. wire' = w3
  BY UnlockWrites
<1>3. /\ w1 \in Seq(Requests)
      /\ \A x : Has(w1, x) <=> Has(wire, x) \/ x = "detach"
      /\ \A o : Names(w1, "attach", o) <=> Names(wire, "attach", o)
      /\ \A x \in {"lock", "registry", "sync"} : Once(wire, x) => Once(w1, x)
      /\ Apart(wire, "attach") => Apart(w1, "attach")
  BY <1>1, WireKnows
<1> HIDE DEF w1
<1>4. /\ w2 \in Seq(Requests)
      /\ \A x : Has(w2, x) <=> Has(w1, x) \/ x = "unlock"
      /\ \A o : Names(w2, "attach", o) <=> Names(w1, "attach", o)
      /\ \A x \in {"lock", "registry", "sync"} : Once(w1, x) => Once(w2, x)
      /\ Apart(w1, "attach") => Apart(w2, "attach")
  BY <1>1, <1>3, WireKnows
<1> HIDE DEF w2
<1>5. /\ w3[Len(w3)].name = "sync"
      /\ \A x : Has(w3, x) <=> Has(w2, x) \/ x = "sync"
      /\ \A o : Names(w3, "attach", o) <=> Names(w2, "attach", o)
      /\ \A x \in {"lock", "registry"} : Once(w2, x) => Once(w3, x)
      /\ Once(w2, "sync") /\ ~Has(w2, "sync") => Once(w3, "sync")
      /\ Apart(w2, "attach") => Apart(w3, "attach")
  BY <1>1, <1>4, WireKnows
<1> HIDE DEF w3
<1> QED BY <1>2, <1>3, <1>4, <1>5

(* What is on the wire after kl_context_destroy. *)
LEMMA DestroyHas ==
  ASSUME TypeOK, ContextDestroy
  PROVE  /\ wire'[Len(wire')].name = "sync"
         /\ \A x : Has(wire, x) \/ x = "sync" => Has(wire', x)
         /\ ctx.lock => Has(wire', IF ActivelyLocked THEN "unlock" ELSE "destroy")
         /\ \A x : Has(wire', x) =>
              \/ Has(wire, x) \/ x \in {"detach", "sync"}
              \/ ctx.lock /\ x = IF ActivelyLocked THEN "unlock" ELSE "destroy"
         /\ \A o : Names(wire', "attach", o) <=> Names(wire, "attach", o)
         /\ \A x \in {"lock", "registry"} : Once(wire, x) => Once(wire', x)
         /\ Once(wire, "sync") /\ ~Has(wire, "sync") => Once(wire', "sync")
         /\ Apart(wire, "attach") => Apart(wire', "attach")
<1> DEFINE last == IF ActivelyLocked THEN "unlock" ELSE "destroy"
           w1 == Append(wire, Message("detach", ctx.attached))
           w2 == IF ctx.lock THEN Append(w1, Message(last, {})) ELSE w1
           w3 == Append(w2, Message("sync", {}))
<1>1. /\ wire \in Seq(Requests) /\ ctx.attached \in SUBSET Outputs /\ {} \in SUBSET Outputs
      /\ "detach" \in RequestNames /\ last \in RequestNames /\ "sync" \in RequestNames
      /\ last \notin {"attach", "lock", "registry", "sync"}
  BY DEF TypeOK, Contexts, RequestNames
<1>2. wire' = w3
  BY DestroyWrites DEF ActivelyLocked
<1>3. /\ w1 \in Seq(Requests)
      /\ \A x : Has(w1, x) <=> Has(wire, x) \/ x = "detach"
      /\ \A o : Names(w1, "attach", o) <=> Names(wire, "attach", o)
      /\ \A x \in {"lock", "registry", "sync"} : Once(wire, x) => Once(w1, x)
      /\ Apart(wire, "attach") => Apart(w1, "attach")
  BY <1>1, WireKnows
<1> HIDE DEF w1, last
<1>4. /\ w2 \in Seq(Requests)
      /\ \A x : Has(w2, x) <=> Has(w1, x) \/ (ctx.lock /\ x = last)
      /\ \A o : Names(w2, "attach", o) <=> Names(w1, "attach", o)
      /\ \A x \in {"lock", "registry", "sync"} : Once(w1, x) => Once(w2, x)
      /\ Apart(w1, "attach") => Apart(w2, "attach")
  <2>1. CASE ctx.lock
    BY <1>1, <1>3, <2>1, WireKnows
  <2>2. CASE ~ctx.lock
    BY <1>3, <2>2
  <2> QED BY <2>1, <2>2
<1> HIDE DEF w2
<1>5. /\ w3[Len(w3)].name = "sync"
      /\ \A x : Has(w3, x) <=> Has(w2, x) \/ x = "sync"
      /\ \A o : Names(w3, "attach", o) <=> Names(w2, "attach", o)
      /\ \A x \in {"lock", "registry"} : Once(w2, x) => Once(w3, x)
      /\ Once(w2, "sync") /\ ~Has(w2, "sync") => Once(w3, "sync")
      /\ Apart(w2, "attach") => Apart(w3, "attach")
  BY <1>1, <1>4, WireKnows
<1> HIDE DEF w3
<1> QED BY <1>1, <1>2, <1>3, <1>4, <1>5 DEF last

(* What is on the wire after kl_context_lock_session. *)
LEMMA LockHas ==
  ASSUME TypeOK, LockSession, wire' # wire
  PROVE  /\ \A x : Has(wire', x) <=> Has(wire, x) \/ x \in {"lock", "attach"}
         /\ \A o : Names(wire', "attach", o) => Names(wire, "attach", o) \/ o \in ctx.surfaces
         /\ Once(wire, "lock") /\ ~Has(wire, "lock") => Once(wire', "lock")
         /\ \A x \in {"registry", "sync"} : Once(wire, x) => Once(wire', x)
         /\ Apart(wire, "attach") /\ (\A o \in Outputs : ~Names(wire, "attach", o))
              => Apart(wire', "attach")
<1>1. PICK bound \in SUBSET Outputs :
        /\ wire' = Append(Append(wire, Message("lock", {})), Message("attach", bound))
        /\ bound \subseteq ctx.surfaces
  BY LockWrites
<1> DEFINE w1 == Append(wire, Message("lock", {}))
           w2 == Append(w1, Message("attach", bound))
<1>2. /\ wire \in Seq(Requests) /\ {} \in SUBSET Outputs
      /\ "lock" \in RequestNames /\ "attach" \in RequestNames
  BY DEF TypeOK, RequestNames
<1>3. /\ w1 \in Seq(Requests)
      /\ \A x : Has(w1, x) <=> Has(wire, x) \/ x = "lock"
      /\ \A o : Names(w1, "attach", o) <=> Names(wire, "attach", o)
      /\ Once(wire, "lock") /\ ~Has(wire, "lock") => Once(w1, "lock")
      /\ \A x \in {"registry", "sync"} : Once(wire, x) => Once(w1, x)
      /\ Apart(wire, "attach") => Apart(w1, "attach")
  BY <1>2, WireKnows
<1> HIDE DEF w1
<1>4. /\ \A x : Has(w2, x) <=> Has(w1, x) \/ x = "attach"
      /\ \A o : Names(w2, "attach", o) <=> Names(w1, "attach", o) \/ o \in bound
      /\ \A x \in {"lock", "registry", "sync"} : Once(w1, x) => Once(w2, x)
      /\ Apart(w1, "attach") /\ (\A o \in bound : ~Names(w1, "attach", o))
           => Apart(w2, "attach")
  BY <1>2, <1>3, WireKnows
<1>5. wire' = w2
  BY <1>1 DEF w1
<1> HIDE DEF w2
<1> QED BY <1>1, <1>3, <1>4, <1>5

(* What is on the wire after an event was dispatched. *)
LEMMA DispatchHas ==
  ASSUME TypeOK, Control, Dispatch
  PROVE  LET e == Head(events)
         IN  /\ \A x : x \notin {"attach", "detach"} => (Has(wire', x) <=> Has(wire, x))
             /\ \A x \in {"lock", "registry", "sync"} : Once(wire, x) => Once(wire', x)
             /\ \A o : Names(wire', "attach", o) =>
                  \/ Names(wire, "attach", o)
                  \/ e.name = "global" /\ o \in e.outs /\ ctx.lock
             /\ /\ Apart(wire, "attach")
                /\ e.name = "global" => \A o \in e.outs : ~Names(wire, "attach", o)
                => Apart(wire', "attach")
             /\ ~ctx.registry => wire' = wire
<1>1. wire \in Seq(Requests) /\ "attach" \in RequestNames /\ "detach" \in RequestNames
  BY DEF TypeOK, RequestNames
<1>2. CASE wire' = wire
  BY <1>2
<1>3. CASE /\ ctx.registry
           /\ \E outs \in SUBSET Outputs : wire' = Append(wire, Message("detach", outs))
  BY <1>1, <1>3, WireKnows
<1>4. CASE /\ ctx.registry
           /\ \E outs \in SUBSET Outputs :
                /\ wire' = Append(wire, Message("attach", outs))
                /\ Head(events).name = "global" /\ outs \subseteq Head(events).outs
                /\ ctx.lock
  BY <1>1, <1>4, WireKnows
<1> QED BY <1>2, <1>3, <1>4, Dispatched

(* A lost connection stays lost, and a reason to unlock stays one. *)
LEMMA UpStays ==
  ASSUME TypeOK, [Next]_vars
  PROVE  /\ up' => up
         /\ Due => Due'
<1>1. CASE ClientStep \/ Interrupted \/ WaitFails \/ Expire \/ UNCHANGED vars
  <2>1. up' = up
    BY <1>1
    DEF ClientStep, Dispatch, ReadEvents, KeepWaiting, InitDone, LockSession,
        LockingDone, LoopTop, LoopEnd, UnlockSession, UnlockDone, ContextDestroy,
        DestroyDone, ConnectionLost, Interrupted, WaitFails, Expire, vars
  <2>2. Due => Due'
    BY <1>1
    DEF ClientStep, Dispatch, HandleOutputs, HandleGlobalRemove, HandleCore, ReadEvents,
        KeepWaiting, InitDone, LockSession, LockingDone, LoopTop, LoopEnd,
        UnlockSession, UnlockDone, ContextDestroy, DestroyDone, ConnectionLost,
        Interrupted, WaitFails, Expire, vars, Due
  <2> QED BY <2>1, <2>2
<1>2. CASE CompositorStep
  <2>1. up
    BY <1>2
    DEF CompositorStep, ServeRequest, SendLocked, SendFinished, Tick, Disconnect,
        Plug, Unplug
  <2>2. UNCHANGED client
    BY <1>2
    DEF CompositorStep, ServeRequest, SendLocked, SendFinished, Tick, Disconnect,
        Plug, Unplug
  <2> QED BY <2>1, <2>2 DEF client, Due
<1> QED BY <1>1, <1>2 DEF Next, Exited

(* Every step preserves that unlocking has a reason. *)
LEMMA ReasonsStep ==
  ASSUME TypeOK, Control, Stages, Reasons, [Next]_vars
  PROVE  Reasons'
<1> SUFFICES ASSUME up' PROVE Reasons'
  BY DEF Reasons
<1>1. up /\ (Due => Due')
  BY UpStays
<1>2. ctx \in Contexts /\ wire \in Seq(Requests)
  BY DEF TypeOK
<1>3. CASE Dispatch
  BY <1>1, <1>3, Dispatched, DispatchHas DEF Reasons, Running
<1>4. CASE Moves
  BY <1>1, <1>4
  DEF Moves, InitDone, LoopTop, Interrupted, WaitFails, AfterSignal, LoopEnd, AfterBatch,
      UnlockDone, ConnectionLost, LockingDone, ReadEvents, KeepWaiting, Expire,
      Goto, Stages, Reasons, ActivelyLocked, Due
<1>5. CASE LockSession
  <2>1. \/ pc' = "destroy" /\ mishap'
        \/ pc' = "locking"
    BY <1>5 DEF LockSession, Goto
  <2>2. Has(wire', "unlock") => Has(wire, "unlock")
    BY <1>5, LockHas
  <2> QED BY <1>1, <2>1, <2>2 DEF Reasons, Due
<1>6. CASE UnlockSession
  <2>1. CASE ActivelyLocked
    BY <1>1, <1>6, <2>1 DEF UnlockSession, Goto, Reasons
  <2>2. CASE ~ActivelyLocked
    BY <1>1, <1>6, <2>2 DEF UnlockSession, Reasons, ActivelyLocked
  <2> QED BY <2>1, <2>2
<1>7. CASE ContextDestroy
  <2>1. Has(wire', "unlock") => Has(wire, "unlock") \/ ActivelyLocked
    BY <1>7, DestroyHas
  <2> QED BY <1>1, <1>7, <2>1 DEF ContextDestroy, Goto, Reasons
<1>8. CASE DestroyDone
  BY <1>1, <1>8 DEF DestroyDone, Goto, Reasons
<1>9. CASE ServeRequest
  <2>1. wire # <<>> /\ wire' = Tail(wire) /\ UNCHANGED client
    BY <1>9, Served
  <2>2. Has(wire', "unlock") => Has(wire, "unlock")
    BY <1>2, <2>1, TailKnows
  <2> QED BY <1>1, <2>1, <2>2 DEF client, Reasons, ActivelyLocked
<1>10. CASE UNCHANGED <<client, wire>>
  BY <1>1, <1>10 DEF client, Reasons, ActivelyLocked
<1> QED
  BY <1>3, <1>4, <1>5, <1>6, <1>7, <1>8, <1>9, <1>10
  DEF Next, ClientStep, CompositorStep, Moves, SendLocked, SendFinished, Tick,
      Disconnect, Plug, Unplug, Exited, vars, client

(* The events that answer a request. *)
LEMMA ServeTells ==
  ASSUME TypeOK, ServeRequest
  PROVE  LET r == Head(wire)
         IN  /\ \A x : Has(events', x) <=>
                  \/ Has(events, x)
                  \/ r.name = "sync" /\ x = "done"
                  \/ r.name = "registry" /\ (x = "global" \/ (x = "core" /\ comp.complete))
             /\ \A o : Names(events', "global", o) <=>
                  \/ Names(events, "global", o)
                  \/ r.name = "registry" /\ o \in comp.present
             /\ /\ Apart(events, "global")
                /\ r.name = "registry" => \A o \in comp.present : ~Names(events, "global", o)
                => Apart(events', "global")
             /\ Once(events, "done") /\ (r.name = "sync" => ~Has(events, "done"))
                  => Once(events', "done")
<1> DEFINE r == Head(wire)
           e1 == IF comp.complete THEN Append(events, Message("core", {})) ELSE events
           e2 == Append(e1, Message("global", comp.present))
           e3 == Append(events, Message("done", {}))
<1>1. /\ events \in Seq(Events)
      /\ comp.present \in SUBSET Outputs /\ {} \in SUBSET Outputs
      /\ "done" \in EventNames /\ "core" \in EventNames /\ "global" \in EventNames
  BY DEF TypeOK, Compositors, EventNames
<1>2. /\ r.name = "registry" => events' = e2
      /\ r.name = "sync" => events' = e3
      /\ r.name \notin {"registry", "sync"} => events' = events
  BY Served
<1>3. /\ e1 \in Seq(Events)
      /\ \A x : Has(e1, x) <=> Has(events, x) \/ (x = "core" /\ comp.complete)
      /\ \A o : Names(e1, "global", o) <=> Names(events, "global", o)
      /\ Apart(events, "global") => Apart(e1, "global")
      /\ Once(events, "done") => Once(e1, "done")
  <2>1. CASE comp.complete
    BY <1>1, <2>1, EventsKnow
  <2>2. CASE ~comp.complete
    BY <1>1, <2>2
  <2> QED BY <2>1, <2>2
<1> HIDE DEF e1
<1>4. /\ \A x : Has(e2, x) <=> Has(e1, x) \/ x = "global"
      /\ \A o : Names(e2, "global", o) <=> Names(e1, "global", o) \/ o \in comp.present
      /\ Apart(e1, "global") /\ (\A o \in comp.present : ~Names(e1, "global", o))
           => Apart(e2, "global")
      /\ Once(e1, "done") => Once(e2, "done")
  BY <1>1, <1>3, EventsKnow
<1>5. /\ \A x : Has(e3, x) <=> Has(events, x) \/ x = "done"
      /\ \A o : Names(e3, "global", o) <=> Names(events, "global", o)
      /\ Apart(events, "global") => Apart(e3, "global")
      /\ Once(events, "done") /\ ~Has(events, "done") => Once(e3, "done")
  BY <1>1, EventsKnow
<1> HIDE DEF e2, e3
<1>6. CASE r.name = "registry"
  BY <1>2, <1>3, <1>4, <1>6
<1>7. CASE r.name = "sync"
  BY <1>2, <1>5, <1>7
<1>8. CASE r.name \notin {"registry", "sync"}
  BY <1>2, <1>8
<1> QED BY <1>6, <1>7, <1>8

(* Every step preserves that the client knows how its lock stands, and      *)
(* gives it up accordingly.                                                 *)
LEMMA ToldStep ==
  ASSUME ~LockMayFail, ~FinishAfterLocked,
         TypeOK, Control, Stages, Told, Requested, [Next]_vars
  PROVE  Told' /\ Requested'
<1>1. ctx \in Contexts /\ comp \in Compositors /\ wire \in Seq(Requests)
      /\ events \in Seq(Events)
  BY DEF TypeOK
<1>2. up' => up
  BY UpStays
<1>3. CASE Dispatch
  <2>1. /\ events # <<>> /\ events' = Tail(events)
    BY <1>3, Dispatched
  <2>2. \A x : Has(events, x) <=> Head(events).name = x \/ Has(events', x)
    BY <1>1, <2>1, TailKnows
  <2>3. /\ UNCHANGED <<pc, comp, up>> /\ pc # "destroy"
        /\ ctx'.isLocked => ctx.isLocked \/ Head(events).name = "locked"
        /\ ctx'.isFinished => ctx.isFinished \/ Head(events).name = "finished"
        /\ Has(wire', "lock") <=> Has(wire, "lock")
        /\ Has(wire', "unlock") <=> Has(wire, "unlock")
        /\ Has(wire', "destroy") <=> Has(wire, "destroy")
        /\ Once(wire, "lock") => Once(wire', "lock")
    BY <1>3, Dispatched, DispatchHas DEF Running
  <2>4. Told'
    BY <2>2, <2>3 DEF Told
  <2>5. Requested'
    BY <2>3 DEF Requested
  <2> QED BY <2>4, <2>5
<1>4. CASE Moves
  <2>1. UNCHANGED <<ctx, wire, events, comp, up>>
    BY <1>4
    DEF Moves, InitDone, LoopTop, Interrupted, WaitFails, LoopEnd, UnlockDone, ConnectionLost,
        LockingDone, ReadEvents, KeepWaiting, Expire
  <2>2. pc' \in {"init", "lock"} => pc \in {"init", "lock"}
    BY <1>4
    DEF Moves, InitDone, LoopTop, Interrupted, WaitFails, AfterSignal, LoopEnd, AfterBatch,
        UnlockDone, ConnectionLost, LockingDone, ReadEvents, KeepWaiting, Expire,
        Goto
  <2>3. Told'
    BY <2>1, <2>2 DEF Told
  <2>4. pc' = "destroy" /\ up =>
          \/ pc = "destroy" \/ ~ctx.lock \/ ctx.isLocked \/ ctx.isFinished
    BY <1>4
    DEF Moves, InitDone, LoopTop, Interrupted, WaitFails, AfterSignal, LoopEnd, AfterBatch,
        UnlockDone, ConnectionLost, LockingDone, ReadEvents, KeepWaiting, Expire,
        Goto, Stages
  <2>5. Requested'
    BY <2>1, <2>4 DEF Requested
  <2> QED BY <2>3, <2>5
<1>5. CASE LockSession
  <2>1. /\ ctx'.isLocked = ctx.isLocked /\ ctx'.isFinished = ctx.isFinished
        /\ pc' \in {"locking", "destroy"} /\ (pc' = "destroy" => ctx' = ctx)
    BY <1>1, <1>5, LockWrites DEF Contexts
  <2>2. /\ UNCHANGED <<events, comp, up>> /\ pc = "lock"
    BY <1>5 DEF LockSession
  <2>3. /\ Once(wire, "lock") /\ ~Has(wire, "lock") => Once(wire', "lock")
        /\ Has(wire', "unlock") <=> Has(wire, "unlock")
        /\ Has(wire', "destroy") <=> Has(wire, "destroy")
    BY <1>5, LockHas
  <2>4. Told'
    BY <2>1, <2>2, <2>3 DEF Told
  <2>5. Requested'
    BY <2>1, <2>2, <2>3 DEF Requested, Stages
  <2> QED BY <2>4, <2>5
<1>6. CASE UnlockSession
  <2>1. CASE ActivelyLocked
    <3>1. ~ctx'.isLocked /\ ~ctx'.isFinished /\ pc' = "unlocking"
          /\ UNCHANGED <<events, comp, up>>
      BY <1>1, <1>6, <2>1 DEF UnlockSession, Goto, Contexts
    <3>2. /\ Once(wire, "lock") => Once(wire', "lock")
          /\ Has(wire', "lock") <=> Has(wire, "lock")
          /\ Has(wire', "destroy") <=> Has(wire, "destroy")
      BY <1>6, <2>1, UnlockHas
    <3>3. Told'
      BY <3>1, <3>2 DEF Told
    <3>4. comp.sentLocked
      BY <2>1 DEF Told, ActivelyLocked
    <3>5. Requested'
      BY <3>1, <3>2, <3>4 DEF Requested
    <3> QED BY <3>3, <3>5
  <2>2. CASE ~ActivelyLocked
    <3>1. UNCHANGED <<ctx, wire, events, comp, up>> /\ pc' = "destroy" /\ ctx.isLocked
      BY <1>6, <2>2 DEF UnlockSession, Goto, Stages
    <3> QED BY <3>1 DEF Told, Requested
  <2> QED BY <2>1, <2>2
<1>7. CASE ContextDestroy
  <2>1. /\ UNCHANGED <<ctx.isLocked, ctx.isFinished>> /\ pc = "destroy"
        /\ pc' = "destroying" /\ UNCHANGED <<events, comp, up>>
    BY <1>1, <1>7 DEF ContextDestroy, Goto, Contexts
  <2>2. /\ Once(wire, "lock") => Once(wire', "lock")
        /\ Has(wire', "lock") => Has(wire, "lock")
        /\ Has(wire', "unlock") => Has(wire, "unlock") \/ ActivelyLocked
        /\ Has(wire', "destroy") =>
             Has(wire, "destroy") \/ (ctx.lock /\ ~ActivelyLocked)
    BY <1>7, DestroyHas
  <2>3. Told'
    BY <2>1, <2>2 DEF Told
  <2>4. Requested'
    BY <2>1, <2>2 DEF Told, Requested, ActivelyLocked
  <2> QED BY <2>3, <2>4
<1>8. CASE DestroyDone
  <2>1. /\ ~ctx'.isLocked /\ ~ctx'.isFinished /\ pc' = "exited"
        /\ UNCHANGED <<wire, events, comp, up>>
    BY <1>1, <1>8 DEF DestroyDone, Goto, Contexts
  <2> QED BY <2>1 DEF Told, Requested
<1>9. CASE ServeRequest
  <2> DEFINE r == Head(wire)
  <2>1. /\ up /\ wire # <<>> /\ wire' = Tail(wire) /\ UNCHANGED client
        /\ r.name \in RequestNames
    BY <1>9, Served
  <2>2. /\ \A x : Has(wire, x) <=> r.name = x \/ Has(wire', x)
        /\ Once(wire, "lock") => Once(wire', "lock") /\ (r.name = "lock" => ~Has(wire', "lock"))
    BY <1>1, <2>1, TailKnows
  <2>3. \A x \in {"locked", "finished"} : Has(events', x) <=> Has(events, x)
    BY <1>9, ServeTells
  <2>4. /\ comp'.sentLocked = comp.sentLocked /\ comp'.sentFinished = comp.sentFinished
        /\ \/ comp'.lock = comp.lock /\ comp'.holds = comp.holds /\ r.name # "lock"
           \/ comp'.lock = "held" /\ comp'.holds = comp.holds /\ r.name = "lock"
           \/ comp'.lock = "gone" /\ ~comp.sentLocked /\ comp'.holds = comp.holds
                /\ r.name = "destroy"
           \/ comp'.lock = "gone" /\ ~comp'.holds /\ r.name = "unlock"
    BY <1>1, <1>9, <2>1, Served DEF Compositors, RequestNames
  <2>5. Told'
    <3>1. Has(wire', "lock") => comp'.lock = "none"
      BY <2>1, <2>2, <2>4 DEF Told, Requested
    <3>2. comp'.lock = "none" => comp.lock = "none"
      BY <2>4
    <3>3. comp'.holds => comp'.sentLocked /\ comp'.lock = "held"
      BY <2>2, <2>4 DEF Told
    <3>4. pc' \in {"init", "lock"} => comp'.lock = "none" /\ ~Has(wire', "lock")
      BY <2>1, <2>2, <2>4 DEF Told, Requested, client
    <3> QED BY <2>1, <2>2, <2>3, <2>4, <3>1, <3>2, <3>3, <3>4 DEF Told, client
  <2>6. Requested'
    BY <2>1, <2>2, <2>4 DEF Requested, client
  <2> QED BY <2>5, <2>6
<1>10. ASSUME NEW n \in EventNames, NEW outs \in SUBSET Outputs,
              events' = events \/ events' = Append(events, Message(n, outs)),
              n \notin {"locked", "finished"},
              UNCHANGED <<client, wire, up>>,
              UNCHANGED <<comp.lock, comp.sentLocked, comp.sentFinished, comp.holds>>
       PROVE  Told' /\ Requested'
  <2>1. \A x \in {"locked", "finished"} : Has(events', x) <=> Has(events, x)
    <3>1. CASE events' = events
      BY <3>1
    <3>2. CASE events' = Append(events, Message(n, outs))
      <4>1. \A x : Has(events', x) <=> Has(events, x) \/ x = n
        BY <1>1, <3>2, EventsKnow
      <4> QED BY <1>10, <4>1
    <3> QED BY <1>10, <3>1, <3>2
  <2> QED BY <1>10, <2>1 DEF Told, Requested, client
<1>11. CASE SendLocked
  <2>1. /\ comp'.sentLocked /\ comp'.holds /\ comp'.lock = comp.lock
        /\ comp.lock = "held"
        /\ comp'.sentFinished = comp.sentFinished /\ ~comp.sentFinished
        /\ UNCHANGED <<client, wire, up>>
    BY <1>1, <1>11 DEF SendLocked, Send, Compositors
  <2>2. Has(events', "finished") <=> Has(events, "finished")
    <3>1. events' = Append(events, Message("locked", {})) /\ "locked" \in EventNames
      BY <1>11, SendAppends DEF SendLocked, Send, EventNames
    <3>2. \A x : Has(events', x) <=> Has(events, x) \/ x = "locked"
      BY <1>1, <3>1, EventsKnow
    <3> QED BY <3>2
  <2> QED BY <2>1, <2>2 DEF Told, Requested, client
<1>12. CASE SendFinished
  <2>1. /\ comp'.sentFinished /\ ~comp'.holds /\ comp'.lock = comp.lock
        /\ comp.lock = "held"
        /\ comp'.sentLocked = comp.sentLocked /\ ~comp.sentLocked
        /\ UNCHANGED <<client, wire, up>>
    BY <1>1, <1>12 DEF SendFinished, Send, Compositors
  <2>2. Has(events', "locked") <=> Has(events, "locked")
    <3>1. events' = Append(events, Message("finished", {})) /\ "finished" \in EventNames
      BY <1>12, SendAppends DEF SendFinished, Send, EventNames
    <3>2. \A x : Has(events', x) <=> Has(events, x) \/ x = "finished"
      BY <1>1, <3>1, EventsKnow
    <3> QED BY <3>2
  <2> QED BY <2>1, <2>2 DEF Told, Requested, client
<1>13. CASE Tick
  BY <1>10, <1>13, SendAppends DEF Tick, Send, EventNames
<1>14. ASSUME NEW o \in Outputs, Plug(o) \/ Unplug(o)
       PROVE  Told' /\ Requested'
  <2>1. /\ UNCHANGED <<client, wire, up>>
        /\ UNCHANGED <<comp.lock, comp.sentLocked, comp.sentFinished, comp.holds>>
    BY <1>1, <1>14 DEF Plug, Unplug, Send, Compositors
  <2>2. \/ events' = events
        \/ events' = Append(events, Message("global", {o}))
        \/ events' = Append(events, Message("remove", {o}))
    BY <1>14, SendAppends DEF Plug, Unplug, Send, EventNames
  <2> QED BY <1>10, <2>1, <2>2 DEF EventNames
<1>15. CASE Disconnect
  BY <1>15 DEF Disconnect, Told, Requested, client
<1>16. CASE UNCHANGED vars
  BY <1>16 DEF vars, Told, Requested
<1> QED
  BY <1>3, <1>4, <1>5, <1>6, <1>7, <1>8, <1>9, <1>11, <1>12, <1>13, <1>14, <1>15,
     <1>16
  DEF Next, ClientStep, CompositorStep, Moves, Exited

(* What is in the event queue when the compositor has sent something. *)
LEMMA SendTells ==
  ASSUME TypeOK, NEW n \in EventNames, NEW outs \in SUBSET Outputs,
         events' = Append(events, Message(n, outs))
  PROVE  /\ \A x : Has(events', x) <=> Has(events, x) \/ x = n
         /\ \A x, o : Names(events', x, o) <=> Names(events, x, o) \/ (x = n /\ o \in outs)
         /\ \A x : Once(events, x) /\ (x = n => ~Has(events, x)) => Once(events', x)
         /\ \A x : Apart(events, x) /\ (x = n => \A o \in outs : ~Names(events, x, o))
                     => Apart(events', x)
BY EventsKnow DEF TypeOK

(* What the compositor does by itself changes no request and sends no done. *)
LEMMA Sent ==
  ASSUME TypeOK, CompositorStep, ~ServeRequest
  PROVE  /\ UNCHANGED <<client, wire>>
         /\ \/ events' = events
            \/ \E n \in EventNames, outs \in SUBSET Outputs :
                 events' = Append(events, Message(n, outs)) /\ n # "done"
         /\ comp'.lock = comp.lock /\ comp'.watched = comp.watched
         /\ comp'.errors = comp.errors
         /\ comp'.covered \subseteq comp.covered
<1>1. comp \in Compositors
  BY DEF TypeOK
<1>2. UNCHANGED <<client, wire>>
  BY DEF CompositorStep, SendLocked, SendFinished, Tick, Disconnect, Plug, Unplug
<1>3. /\ comp'.lock = comp.lock /\ comp'.watched = comp.watched
      /\ comp'.errors = comp.errors
      /\ comp'.covered \subseteq comp.covered
  <2>1. CASE SendLocked \/ SendFinished \/ Tick \/ Disconnect
    BY <1>1, <2>1 DEF SendLocked, SendFinished, Tick, Disconnect, Send, Compositors
  <2>2. ASSUME NEW o \in Outputs, Plug(o) \/ Unplug(o)
        PROVE  /\ comp'.lock = comp.lock /\ comp'.watched = comp.watched
               /\ comp'.errors = comp.errors /\ comp'.covered \subseteq comp.covered
    <3>1. \/ comp' = [comp EXCEPT !.unused = @ \ {o}, !.present = @ \cup {o}]
          \/ comp' = [comp EXCEPT !.present = @ \ {o}, !.covered = @ \ {o}]
      BY <2>2 DEF Plug, Unplug, Send
    <3>2. CASE comp' = [comp EXCEPT !.unused = @ \ {o}, !.present = @ \cup {o}]
      BY <1>1, <3>2 DEF Compositors
    <3>3. CASE comp' = [comp EXCEPT !.present = @ \ {o}, !.covered = @ \ {o}]
      BY <1>1, <3>3 DEF Compositors
    <3> QED BY <3>1, <3>2, <3>3
  <2> QED BY <2>1, <2>2 DEF CompositorStep
<1>4. \/ events' = events
      \/ \E n \in EventNames, outs \in SUBSET Outputs :
           events' = Append(events, Message(n, outs)) /\ n # "done"
  <2>1. CASE SendLocked \/ SendFinished \/ Tick
    BY <2>1, SendAppends DEF SendLocked, SendFinished, Tick, Send, EventNames
  <2>2. CASE Disconnect
    BY <2>2 DEF Disconnect
  <2>3. ASSUME NEW o \in Outputs, Plug(o) \/ Unplug(o)
        PROVE  \/ events' = events
               \/ \E n \in EventNames, outs \in SUBSET Outputs :
                    events' = Append(events, Message(n, outs)) /\ n # "done"
    <3>1. \/ events' = events
          \/ events' = Append(events, Message("global", {o}))
          \/ events' = Append(events, Message("remove", {o}))
      BY <2>3, SendAppends DEF Plug, Unplug, Send, EventNames
    <3> QED BY <3>1 DEF EventNames
  <2> QED BY <2>1, <2>2, <2>3 DEF CompositorStep
<1> QED BY <1>2, <1>3, <1>4

(* Every step preserves the pairing of roundtrips with their answers, and   *)
(* that the lock is given up before the last one.                           *)
LEMMA AnsweredStep ==
  ASSUME ~LockMayFail, ~FinishAfterLocked,
         TypeOK, Control, Stages, Told, Requested, Answered, GivenUp, [Next]_vars
  PROVE  Answered' /\ GivenUp'
<1> SUFFICES ASSUME up' PROVE Answered' /\ GivenUp'
  BY DEF Answered, GivenUp
<1>1. ctx \in Contexts /\ comp \in Compositors /\ wire \in Seq(Requests)
      /\ events \in Seq(Events) /\ awaited \in BOOLEAN
  BY DEF TypeOK
<1>2. up
  BY UpStays
<1>3. CASE Dispatch
  <2>1. /\ events # <<>> /\ events' = Tail(events) /\ UNCHANGED <<pc, comp>>
        /\ awaited' = (awaited /\ Head(events).name # "done")
        /\ ctx'.lock = ctx.lock
    BY <1>3, Dispatched
  <2>2. /\ \A x : Has(events, x) <=> Head(events).name = x \/ Has(events', x)
        /\ Once(events, "done") =>
             Once(events', "done") /\ (Head(events).name = "done" => ~Has(events', "done"))
    BY <1>1, <2>1, TailKnows
  <2>3. /\ \A x : x \notin {"attach", "detach"} => (Has(wire', x) <=> Has(wire, x))
        /\ Once(wire, "sync") => Once(wire', "sync")
        /\ pc \in {"destroying", "exited"} => wire' = wire
    BY <1>3, DispatchHas DEF Stages
  <2>4. Answered'
    BY <1>2, <2>1, <2>2, <2>3 DEF Answered
  <2>5. GivenUp'
    BY <1>2, <2>1, <2>3 DEF GivenUp
  <2> QED BY <2>4, <2>5
<1>4. CASE Moves
  <2>1. UNCHANGED <<ctx, wire, events, comp, up, awaited>>
    BY <1>4
    DEF Moves, InitDone, LoopTop, Interrupted, WaitFails, LoopEnd, UnlockDone, ConnectionLost,
        LockingDone, ReadEvents, KeepWaiting, Expire
  <2>2. /\ pc' = pc \/ pc' \notin {"init", "unlocking", "destroying", "exited"}
        /\ pc' # pc => ~awaited \/ pc \notin {"init", "unlocking", "destroying"}
        /\ pc' \in {"init", "lock"} => pc \in {"init", "lock"}
        /\ pc' = "destroy" => \/ pc \in {"destroy", "init", "unlocking"}
                              \/ ctx.lock
    BY <1>2, <1>4
    DEF Moves, InitDone, LoopTop, Interrupted, WaitFails, AfterSignal, LoopEnd, AfterBatch,
        UnlockDone, ConnectionLost, LockingDone, ReadEvents, KeepWaiting, Expire,
        Goto, Stages
  <2>3. Answered'
    BY <1>2, <2>1, <2>2 DEF Answered
  <2>4. GivenUp'
    BY <1>2, <2>1, <2>2 DEF GivenUp, Told
  <2> QED BY <2>3, <2>4
<1>5. CASE LockSession
  <2>1. /\ pc' \in {"locking", "destroy"} /\ pc = "lock"
        /\ pc' = "destroy" => ctx' = ctx /\ wire' = wire
        /\ pc' = "locking" => ctx'.lock
        /\ UNCHANGED <<awaited, events, comp, up>>
    BY <1>1, <1>5, LockWrites DEF LockSession, Contexts
  <2>2. /\ Has(wire', "sync") <=> Has(wire, "sync")
        /\ Once(wire, "sync") => Once(wire', "sync")
    BY <1>5, LockHas
  <2>3. Answered'
    BY <1>2, <2>1, <2>2 DEF Answered
  <2>4. GivenUp'
    BY <1>2, <2>1 DEF GivenUp, Told, Stages
  <2> QED BY <2>3, <2>4
<1>6. CASE UnlockSession
  <2>1. pc = "leave" /\ UNCHANGED <<events, comp, up>>
    BY <1>6 DEF UnlockSession
  <2>2. CASE ActivelyLocked
    <3>1. pc' = "unlocking" /\ awaited'
      BY <1>6, <2>2 DEF UnlockSession, Goto
    <3>2. /\ \A x : Has(wire', x) <=> Has(wire, x) \/ x \in {"detach", "unlock", "sync"}
          /\ Once(wire, "sync") /\ ~Has(wire, "sync") => Once(wire', "sync")
      BY <1>6, <2>2, UnlockHas
    <3>3. Answered'
      BY <1>2, <2>1, <3>1, <3>2 DEF Answered
    <3>4. ~Has(wire, "lock")
      BY <2>2 DEF Told, ActivelyLocked
    <3>5. GivenUp'
      BY <3>1, <3>2, <3>4 DEF GivenUp
    <3> QED BY <3>3, <3>5
  <2>3. CASE ~ActivelyLocked
    <3>1. pc' = "destroy" /\ UNCHANGED <<ctx, wire, awaited>>
      BY <1>6, <2>3 DEF UnlockSession, Goto
    <3> QED BY <1>2, <2>1, <3>1 DEF Answered, GivenUp, Stages
  <2> QED BY <2>2, <2>3
<1>7. CASE ContextDestroy
  <2>1. /\ pc = "destroy" /\ pc' = "destroying" /\ awaited' /\ ~ctx'.lock
        /\ UNCHANGED <<events, comp, up>>
    BY <1>1, <1>7 DEF ContextDestroy, Goto, Contexts
  <2>2. /\ wire'[Len(wire')].name = "sync"
        /\ \A x : Has(wire, x) \/ x = "sync" => Has(wire', x)
        /\ ctx.lock => Has(wire', IF ActivelyLocked THEN "unlock" ELSE "destroy")
        /\ Has(wire', "lock") => Has(wire, "lock")
        /\ Once(wire, "sync") /\ ~Has(wire, "sync") => Once(wire', "sync")
    BY <1>7, DestroyHas
  <2>3. Answered'
    BY <1>2, <2>1, <2>2 DEF Answered
  <2>4. ~Has(wire, "lock")
    BY <1>2, <2>1 DEF GivenUp, Told, Requested
  <2>5. GivenUp'
    BY <1>2, <2>1, <2>2, <2>4 DEF GivenUp
  <2> QED BY <2>3, <2>5
<1>8. CASE DestroyDone
  <2>1. /\ pc = "destroying" /\ pc' = "exited" /\ ~awaited /\ ctx'.lock = ctx.lock
        /\ UNCHANGED <<wire, events, comp, up, awaited>>
    BY <1>1, <1>8 DEF DestroyDone, Goto, Contexts
  <2> QED BY <1>2, <2>1 DEF Answered, GivenUp
<1>9. CASE ServeRequest
  <2> DEFINE r == Head(wire)
  <2>1. /\ wire # <<>> /\ wire' = Tail(wire) /\ UNCHANGED client
        /\ r.name \in RequestNames
    BY <1>9, Served
  <2>2. /\ \A x : Has(wire, x) <=> r.name = x \/ Has(wire', x)
        /\ \A x : Once(wire, x) => Once(wire', x) /\ (r.name = x => ~Has(wire', x))
        /\ wire[Len(wire)].name = "sync" =>
             wire' = <<>> \/ wire'[Len(wire')].name = "sync"
    BY <1>1, <2>1, TailKnows
  <2>3. /\ Has(events', "done") <=> Has(events, "done") \/ r.name = "sync"
        /\ Once(events, "done") /\ (r.name = "sync" => ~Has(events, "done"))
             => Once(events', "done")
    BY <1>9, ServeTells
  <2>4. /\ comp'.lock = "held" => comp.lock = "held" \/ r.name = "lock"
        /\ r.name \in {"destroy", "unlock"} => comp'.lock = "gone"
    BY <1>1, <1>9, <2>1, Served DEF Compositors, RequestNames
  <2>5. Answered'
    BY <1>2, <2>1, <2>2, <2>3 DEF Answered, client
  <2>6. GivenUp'
    BY <1>2, <2>1, <2>2, <2>4 DEF GivenUp, client
  <2> QED BY <2>5, <2>6
<1>10. CASE CompositorStep /\ ~ServeRequest
  <2>1. UNCHANGED <<client, wire>> /\ comp'.lock = comp.lock
    BY <1>10, Sent
  <2>2. /\ Has(events', "done") <=> Has(events, "done")
        /\ Once(events, "done") => Once(events', "done")
    <3>1. CASE events' = events
      BY <3>1
    <3>2. CASE events' # events
      <4>1. PICK n \in EventNames, outs \in SUBSET Outputs :
              events' = Append(events, Message(n, outs)) /\ n # "done"
        BY <1>10, <3>2, Sent
      <4> QED BY <4>1, SendTells
    <3> QED BY <3>1, <3>2
  <2> QED BY <1>2, <2>1, <2>2 DEF Answered, GivenUp, client
<1>11. CASE UNCHANGED vars
  BY <1>11 DEF vars, Answered, GivenUp
<1> QED
  BY <1>3, <1>4, <1>5, <1>6, <1>7, <1>8, <1>9, <1>10, <1>11
  DEF Next, ClientStep, CompositorStep, Moves, Exited

(* Every step preserves that no output is attached twice. *)
LEMMA AttachingStep ==
  ASSUME TypeOK, Control, Stages, Attaching, [Next]_vars
  PROVE  Attaching'
<1>1. ctx \in Contexts /\ comp \in Compositors /\ wire \in Seq(Requests)
      /\ events \in Seq(Events) /\ ctx.surfaces \in SUBSET Outputs
      /\ comp.present \in SUBSET Outputs
  BY DEF TypeOK, Contexts, Compositors
<1>2. CASE Dispatch
  <2> DEFINE e == Head(events)
  <2>1. /\ events # <<>> /\ events' = Tail(events) /\ UNCHANGED <<pc, comp>>
        /\ e.outs \in SUBSET Outputs
        /\ ctx'.surfaces \subseteq ctx.surfaces \cup (IF e.name = "global" THEN e.outs ELSE {})
    BY <1>2, Dispatched
  <2>2. /\ \A o : Names(events, "global", o) <=>
             (e.name = "global" /\ o \in e.outs) \/ Names(events', "global", o)
        /\ Apart(events, "global") => Apart(events', "global")
        /\ Apart(events, "global") /\ e.name = "global" =>
             \A o \in e.outs : ~Names(events', "global", o)
    BY <1>1, <2>1, TailKnows
  <2>3. /\ Has(wire', "registry") <=> Has(wire, "registry")
        /\ Once(wire, "registry") => Once(wire', "registry")
        /\ \A o : Names(wire', "attach", o) =>
             \/ Names(wire, "attach", o)
             \/ e.name = "global" /\ o \in e.outs /\ ctx.lock
        /\ /\ Apart(wire, "attach")
           /\ e.name = "global" => \A o \in e.outs : ~Names(wire, "attach", o)
           => Apart(wire', "attach")
    BY <1>2, DispatchHas
  <2>4. \A o \in Outputs : Announced(o)' <=> Announced(o)
    BY <2>1 DEF Announced
  <2> HIDE DEF e
  <2>5. Apart(wire', "attach")
    BY <2>1, <2>2, <2>3 DEF Attaching
  <2>6. ASSUME NEW o \in Outputs
        PROVE  /\ ~Announced(o) => ~Names(events', "global", o)
               /\ ~Announced(o) \/ Names(events', "global", o) =>
                    /\ o \notin ctx'.surfaces /\ o \notin comp.covered
                    /\ ~Names(wire', "attach", o)
               /\ Names(wire', "attach", o) => o \notin comp.covered
    BY <2>1, <2>2, <2>3 DEF Attaching
  <2>7. pc \in {"init", "lock"} => \A o \in Outputs : ~Names(wire', "attach", o)
    BY <2>3 DEF Attaching, Stages
  <2> QED BY <2>1, <2>2, <2>3, <2>4, <2>5, <2>6, <2>7 DEF Attaching
<1>3. CASE Moves
  <2>1. UNCHANGED <<ctx, wire, events, comp>>
    BY <1>3
    DEF Moves, InitDone, LoopTop, Interrupted, WaitFails, LoopEnd, UnlockDone, ConnectionLost,
        LockingDone, ReadEvents, KeepWaiting, Expire
  <2>2. pc' \in {"init", "lock"} => pc \in {"init", "lock"}
    BY <1>3
    DEF Moves, InitDone, LoopTop, Interrupted, WaitFails, AfterSignal, LoopEnd, AfterBatch,
        UnlockDone, ConnectionLost, LockingDone, ReadEvents, KeepWaiting, Expire,
        Goto
  <2> QED BY <2>1, <2>2 DEF Attaching, Announced
<1>4. ASSUME UNCHANGED <<events, comp>>, pc' \notin {"init", "lock"},
             ctx'.surfaces \subseteq ctx.surfaces,
             \A o : Names(wire', "attach", o) => Names(wire, "attach", o),
             Has(wire', "registry") => Has(wire, "registry"),
             Once(wire, "registry") => Once(wire', "registry"),
             Apart(wire, "attach") => Apart(wire', "attach")
      PROVE  Attaching'
  BY <1>4 DEF Attaching, Announced
<1>5. CASE LockSession
  <2>1. /\ UNCHANGED <<events, comp, ctx.surfaces>>
        /\ pc = "lock" /\ pc' \in {"locking", "destroy"}
    BY <1>1, <1>5, LockWrites DEF LockSession, Contexts
  <2>2. CASE wire' = wire
    BY <1>4, <2>1, <2>2
  <2>3. CASE wire' # wire
    <3>1. /\ Has(wire', "registry") <=> Has(wire, "registry")
          /\ \A o : Names(wire', "attach", o) => Names(wire, "attach", o) \/ o \in ctx.surfaces
          /\ Once(wire, "registry") => Once(wire', "registry")
          /\ Apart(wire, "attach") /\ (\A o \in Outputs : ~Names(wire, "attach", o))
               => Apart(wire', "attach")
      BY <1>5, <2>3, LockHas
    <3>2. comp.covered = {} /\ \A o \in Outputs : ~Names(wire, "attach", o)
      BY <2>1 DEF Attaching
    <3> QED BY <2>1, <3>1, <3>2 DEF Attaching, Announced
  <2> QED BY <2>2, <2>3
<1>6. CASE UnlockSession
  <2>1. CASE ActivelyLocked
    <3>1. /\ UNCHANGED <<events, comp, ctx.surfaces>> /\ pc' = "unlocking"
      BY <1>1, <1>6, <2>1 DEF UnlockSession, Goto, Contexts
    <3> QED BY <1>4, <1>6, <2>1, <3>1, UnlockHas
  <2>2. CASE ~ActivelyLocked
    <3>1. UNCHANGED <<events, comp, ctx, wire>> /\ pc' = "destroy"
      BY <1>6, <2>2 DEF UnlockSession, Goto
    <3> QED BY <1>4, <3>1
  <2> QED BY <2>1, <2>2
<1>7. CASE ContextDestroy
  <2>1. UNCHANGED <<events, comp>> /\ ctx'.surfaces = {} /\ pc' = "destroying"
    BY <1>1, <1>7 DEF ContextDestroy, Goto, Contexts
  <2>2. Has(wire', "registry") => Has(wire, "registry")
    BY <1>7, DestroyHas
  <2> QED BY <1>4, <1>7, <2>1, <2>2, DestroyHas
<1>8. CASE DestroyDone
  <2>1. UNCHANGED <<events, comp, wire, ctx.surfaces>> /\ pc' = "exited"
    BY <1>1, <1>8 DEF DestroyDone, Goto, Contexts
  <2> QED BY <1>4, <2>1
<1>9. CASE ServeRequest
  <2> DEFINE r == Head(wire)
  <2>1. /\ wire # <<>> /\ wire' = Tail(wire) /\ UNCHANGED <<ctx, pc>>
        /\ r.name \in RequestNames /\ r.outs \in SUBSET Outputs
    BY <1>9, Served DEF client
  <2>2. /\ \A x : Has(wire, x) <=> r.name = x \/ Has(wire', x)
        /\ Once(wire, "registry") =>
             Once(wire', "registry") /\ (r.name = "registry" => ~Has(wire', "registry"))
        /\ \A o : Names(wire, "attach", o) <=>
             (r.name = "attach" /\ o \in r.outs) \/ Names(wire', "attach", o)
        /\ Apart(wire, "attach") => Apart(wire', "attach")
        /\ Apart(wire, "attach") /\ r.name = "attach" =>
             \A o \in r.outs : ~Names(wire', "attach", o)
    BY <1>1, <2>1, TailKnows
  <2>3. /\ \A o : Names(events', "global", o) <=>
             \/ Names(events, "global", o)
             \/ r.name = "registry" /\ o \in comp.present
        /\ /\ Apart(events, "global")
           /\ r.name = "registry" => \A o \in comp.present : ~Names(events, "global", o)
           => Apart(events', "global")
    BY <1>9, ServeTells
  <2>4. /\ UNCHANGED <<comp.present, comp.unused>>
        /\ comp'.watched = (comp.watched \/ r.name = "registry")
        /\ comp'.covered \subseteq comp.covered \cup (IF r.name = "attach" THEN r.outs ELSE {})
    <3>1. comp.watched \in BOOLEAN
      BY <1>1 DEF Compositors
    <3>2. CASE r.name = "registry"
      BY <1>1, <1>9, <3>2, Served DEF Compositors
    <3>3. CASE r.name = "attach"
      <4>1. \/ comp' = [comp EXCEPT !.covered = @ \cup (r.outs \cap comp.present)]
            \/ comp' = [comp EXCEPT !.errors = @ \cup {"duplicate_output"}]
        BY <1>9, <3>3, Served
      <4> HIDE DEF r
      <4> QED BY <1>1, <3>1, <3>3, <4>1 DEF Compositors
    <3>4. CASE r.name \notin {"registry", "attach"}
      <4>1. r.name \in {"sync", "lock", "detach", "destroy", "unlock"}
        BY <1>9, <3>4, Served DEF RequestNames
      <4>2. \/ comp' = comp
            \/ comp' = [comp EXCEPT !.lock = "held"]
            \/ comp' = [comp EXCEPT !.lock = "gone"]
            \/ comp' = [comp EXCEPT !.lock = "gone", !.holds = FALSE]
            \/ comp' = [comp EXCEPT !.covered = @ \ r.outs]
            \/ \E e \in {"invalid_destroy", "invalid_unlock"} :
                 comp' = [comp EXCEPT !.errors = @ \cup {e}]
        BY <1>9, <4>1, Served
      <4> HIDE DEF r
      <4>3. CASE \/ comp' = comp
                 \/ comp' = [comp EXCEPT !.lock = "held"]
                 \/ comp' = [comp EXCEPT !.lock = "gone"]
        BY <1>1, <3>1, <3>4, <4>3 DEF Compositors
      <4>5. CASE comp' = [comp EXCEPT !.lock = "gone", !.holds = FALSE]
        BY <1>1, <3>1, <3>4, <4>5 DEF Compositors
      <4>6. CASE comp' = [comp EXCEPT !.covered = @ \ r.outs]
        BY <1>1, <3>1, <3>4, <4>6 DEF Compositors
      <4>4. CASE \E e \in {"invalid_destroy", "invalid_unlock"} :
                   comp' = [comp EXCEPT !.errors = @ \cup {e}]
        BY <1>1, <3>1, <3>4, <4>4 DEF Compositors
      <4> QED BY <4>2, <4>3, <4>4, <4>5, <4>6
    <3> QED BY <3>2, <3>3, <3>4
  <2> HIDE DEF r
  <2>5. Once(wire', "registry") /\ (Has(wire', "registry") => ~comp'.watched)
    BY <2>2, <2>4 DEF Attaching
  <2>6. Apart(events', "global")
    <3>1. ASSUME r.name = "registry", NEW o \in comp.present
          PROVE  ~Names(events, "global", o)
      BY <1>1, <2>2, <3>1 DEF Attaching, Announced
    <3> QED BY <2>3, <3>1 DEF Attaching
  <2>7. ASSUME NEW o \in Outputs
        PROVE  /\ ~Announced(o)' => ~Names(events', "global", o)
               /\ ~Announced(o)' \/ Names(events', "global", o) =>
                    /\ o \notin ctx'.surfaces /\ o \notin comp'.covered
                    /\ ~Names(wire', "attach", o)
               /\ Names(wire', "attach", o) => o \notin comp'.covered
    <3>1. ~Announced(o)' => ~Announced(o) /\ (r.name = "registry" => o \notin comp.present)
      BY <2>4 DEF Attaching, Announced
    <3>2. Names(events', "global", o) => Names(events, "global", o) \/ ~Announced(o)
      BY <2>2, <2>3 DEF Attaching, Announced
    <3>3. Names(wire', "attach", o) =>
            Names(wire, "attach", o) /\ (r.name = "attach" => o \notin r.outs)
      BY <2>2 DEF Attaching
    <3>4. o \in comp'.covered => o \in comp.covered \/ Names(wire, "attach", o)
      BY <2>2, <2>4
    <3>5. o \in comp'.covered => o \in comp.covered \/ (r.name = "attach" /\ o \in r.outs)
      BY <2>4
    <3> QED BY <2>1, <2>3, <3>1, <3>2, <3>3, <3>4, <3>5 DEF Attaching
  <2>8. pc' \in {"init", "lock"} =>
          comp'.covered = {} /\ \A o \in Outputs : ~Names(wire', "attach", o)
    <3>1. pc' \in {"init", "lock"} /\ r.name = "attach" => r.outs = {}
      BY <2>1, <2>2 DEF Attaching
    <3> QED BY <2>1, <2>2, <2>4, <3>1 DEF Attaching
  <2> QED BY <2>2, <2>4, <2>5, <2>6, <2>7, <2>8 DEF Attaching
<1>10. ASSUME UNCHANGED <<ctx, pc, wire>>, UNCHANGED <<comp.watched, comp.present, comp.unused>>,
              comp'.covered \subseteq comp.covered,
              Apart(events, "global") => Apart(events', "global"),
              \A o : Names(events', "global", o) => Names(events, "global", o)
       PROVE  Attaching'
  BY <1>10 DEF Attaching, Announced
<1>11. CASE SendLocked \/ SendFinished \/ Tick \/ Disconnect
  <2>1. /\ UNCHANGED <<ctx, pc, wire>> /\ UNCHANGED <<comp.watched, comp.present, comp.unused>>
        /\ comp'.covered \subseteq comp.covered
    BY <1>1, <1>11
    DEF SendLocked, SendFinished, Tick, Disconnect, Send, Compositors, client
  <2>2. \/ events' = events
        \/ \E n \in {"locked", "finished", "tick"} : events' = Append(events, Message(n, {}))
    BY <1>11, SendAppends
    DEF SendLocked, SendFinished, Tick, Disconnect, Send, EventNames
  <2>3. /\ Apart(events, "global") => Apart(events', "global")
        /\ \A o : Names(events', "global", o) => Names(events, "global", o)
    BY <2>2, SendTells DEF EventNames
  <2> QED BY <1>10, <2>1, <2>3
<1>12. ASSUME NEW p \in Outputs, Plug(p)
       PROVE  Attaching'
  <2>1. /\ UNCHANGED <<ctx, pc, wire, comp.watched, comp.covered>> /\ p \in comp.unused
        /\ comp'.unused = comp.unused \ {p} /\ comp'.present = comp.present \cup {p}
    BY <1>1, <1>12 DEF Plug, Send, Compositors, client
  <2>2. \/ comp.watched /\ events' = Append(events, Message("global", {p}))
        \/ ~comp.watched /\ events' = events
    BY <1>12, SendAppends DEF Plug, Send, EventNames
  <2>3. ~Names(events, "global", p)
    BY <2>1 DEF Attaching, Announced
  <2>4. /\ Apart(events', "global")
        /\ \A o : Names(events', "global", o) =>
             Names(events, "global", o) \/ (o = p /\ comp.watched)
    <3>1. CASE events' = events
      BY <3>1 DEF Attaching
    <3>2. CASE comp.watched /\ events' = Append(events, Message("global", {p}))
      <4> DEFINE outs == {p}
      <4>1. /\ "global" \in EventNames /\ outs \in SUBSET Outputs
            /\ events' = Append(events, Message("global", outs))
            /\ \A o : o \in outs <=> o = p
        BY <3>2 DEF EventNames
      <4> HIDE DEF outs
      <4>2. \A o : Names(events', "global", o) <=> Names(events, "global", o) \/ o \in outs
        BY <4>1, SendTells
      <4>3. Apart(events, "global") /\ (\A o \in outs : ~Names(events, "global", o))
              => Apart(events', "global")
        BY <4>1, SendTells
      <4> QED BY <2>3, <3>2, <4>1, <4>2, <4>3 DEF Attaching
    <3> QED BY <2>2, <3>1, <3>2
  <2>5. ASSUME NEW o \in Outputs
        PROVE  /\ ~Announced(o)' => ~Names(events', "global", o)
               /\ ~Announced(o)' \/ Names(events', "global", o) =>
                    /\ o \notin ctx'.surfaces /\ o \notin comp'.covered
                    /\ ~Names(wire', "attach", o)
               /\ Names(wire', "attach", o) => o \notin comp'.covered
    <3>1. ~Announced(p)
      BY <2>1 DEF Announced
    <3>2. ~Announced(o)' => ~Announced(o) /\ (o = p => ~comp.watched)
      BY <2>1 DEF Announced
    <3> QED BY <2>1, <2>4, <3>1, <3>2 DEF Attaching
  <2>6. comp'.unused \cap comp'.present = {}
    BY <2>1 DEF Attaching
  <2> QED BY <2>1, <2>4, <2>5, <2>6 DEF Attaching
<1>13. ASSUME NEW p \in Outputs, Unplug(p)
       PROVE  Attaching'
  <2>1. /\ UNCHANGED <<ctx, pc, wire, comp.watched, comp.unused>>
        /\ comp'.covered \subseteq comp.covered /\ comp'.present = comp.present \ {p}
    BY <1>1, <1>13 DEF Unplug, Send, Compositors, client
  <2>2. \/ events' = Append(events, Message("remove", {p}))
        \/ events' = events
    BY <1>13, SendAppends DEF Unplug, Send, EventNames
  <2>3. /\ Apart(events, "global") => Apart(events', "global")
        /\ \A o : Names(events', "global", o) => Names(events, "global", o)
    BY <2>2, SendTells DEF EventNames
  <2> QED BY <2>1, <2>3 DEF Attaching, Announced
<1>14. CASE UNCHANGED vars
  BY <1>14 DEF vars, Attaching, Announced
<1> QED
  BY <1>2, <1>3, <1>5, <1>6, <1>7, <1>8, <1>9, <1>11, <1>12, <1>13, <1>14
  DEF Next, ClientStep, CompositorStep, Moves, Exited

(* The wire in the initial state. *)
LEMMA FirstRequests ==
  ASSUME wire = <<Message("registry", {}), Message("sync", {})>>
  PROVE  /\ wire \in Seq(Requests)
         /\ \A x : Has(wire, x) <=> x \in {"registry", "sync"}
         /\ \A o : ~Names(wire, "attach", o)
         /\ \A x : Once(wire, x)
         /\ Apart(wire, "attach")
<1> DEFINE a == Message("registry", {})
           b == Message("sync", {})
<1>1. /\ a \in Requests /\ b \in Requests
      /\ a.name = "registry" /\ b.name = "sync" /\ a.outs = {} /\ b.outs = {}
  BY MessageTyped DEF RequestNames
<1> HIDE DEF a, b
<1>2. wire = <<a, b>>
  BY DEF a, b
<1>3. wire \in Seq(Requests) /\ Len(wire) = 2 /\ wire[1] = a /\ wire[2] = b
  BY <1>1, <1>2
<1>4. \A k \in 1 .. Len(wire) : k = 1 \/ k = 2
  BY <1>3
<1>5. \A x : Has(wire, x) <=> x \in {"registry", "sync"}
  BY <1>1, <1>3, <1>4 DEF Has
<1>6. \A o : ~Names(wire, "attach", o)
  BY <1>1, <1>3, <1>4 DEF Names
<1>7. \A x : Once(wire, x)
  BY <1>1, <1>3, <1>4 DEF Once
<1>8. Apart(wire, "attach")
  BY <1>1, <1>3, <1>4 DEF Apart
<1> QED BY <1>3, <1>5, <1>6, <1>7, <1>8

(* The event queue in the initial state. *)
LEMMA NoEvents ==
  ASSUME events = <<>>
  PROVE  /\ events \in Seq(Events) /\ Len(events) = 0
         /\ \A x : ~Has(events, x) /\ Once(events, x) /\ Apart(events, x)
         /\ \A x, o : ~Names(events, x, o)
BY DEF Has, Once, Apart, Names

(* The invariants hold initially. *)
LEMMA InitInv ==
  ASSUME Init
  PROVE  IInv /\ Told /\ Requested /\ Answered /\ GivenUp /\ NoProtocolError
<1>1. PICK present \in SUBSET Outputs, complete \in BOOLEAN :
        comp = [present |-> present, unused |-> Outputs \ present,
                complete |-> complete, watched |-> FALSE, lock |-> "none",
                sentLocked |-> FALSE, sentFinished |-> FALSE, holds |-> FALSE,
                covered |-> {}, errors |-> {}]
  BY DEF Init
<1>2. comp \in Compositors
  BY <1>1 DEF Compositors
<1>3. /\ comp.unused \cap comp.present = {} /\ ~comp.watched /\ comp.lock = "none"
      /\ ~comp.sentLocked /\ ~comp.sentFinished /\ ~comp.holds /\ comp.covered = {}
      /\ comp.errors = {}
  BY <1>1
<1>4. /\ ctx \in Contexts /\ ~ctx.lock /\ ~ctx.isLocked /\ ~ctx.isFinished
      /\ ctx.surfaces = {} /\ ctx.attached = {} /\ ctx.registry
  BY DEF Init, Contexts
<1>5. /\ pc = "init" /\ turn = "block" /\ batch = 0 /\ awaited = TRUE
      /\ expired = FALSE /\ mishap = FALSE /\ up = TRUE /\ events = <<>>
      /\ wire = <<Message("registry", {}), Message("sync", {})>>
  BY DEF Init
<1> HIDE DEF Init
<1>6. TypeOK
  <2>1. wire \in Seq(Requests) /\ events \in Seq(Events) /\ batch \in 0 .. Len(events)
    BY <1>5, FirstRequests, NoEvents
  <2> QED BY <1>2, <1>4, <1>5, <2>1 DEF TypeOK
<1>7. Control /\ Stages /\ EverySurfaceAttached
  BY <1>4, <1>5 DEF Control, Running, Stages, EverySurfaceAttached
<1>8. Reasons
  BY <1>5, FirstRequests DEF Reasons
<1>9. Attaching
  BY <1>3, <1>4, <1>5, FirstRequests, NoEvents DEF Attaching
<1>10. Told /\ Requested
  BY <1>3, <1>4, <1>5, FirstRequests, NoEvents DEF Told, Requested
<1>11. Answered /\ GivenUp
  BY <1>3, <1>4, <1>5, FirstRequests, NoEvents DEF Answered, GivenUp
<1> QED BY <1>3, <1>6, <1>7, <1>8, <1>9, <1>10, <1>11 DEF IInv, NoProtocolError

(* IInv holds initially and is preserved by every step. *)
LEMMA Inductive ==
  /\ Init => IInv
  /\ IInv /\ [Next]_vars => IInv'
BY InitInv, TypedStep, StagesStep, ReasonsStep, AttachingStep DEF IInv

(* No request that is served is a protocol error. *)
LEMMA ErrorStep ==
  ASSUME IInv, Told, Requested, NoProtocolError, [Next]_vars
  PROVE  NoProtocolError'
<1> USE DEF IInv
<1>1. comp \in Compositors /\ wire \in Seq(Requests)
  BY DEF TypeOK
<1>2. CASE ServeRequest
  <2> DEFINE r == Head(wire)
  <2>1. up /\ wire # <<>> /\ r.name \in RequestNames /\ r.outs \in SUBSET Outputs
    BY <1>2, Served
  <2>2. /\ \A x : r.name = x => Has(wire, x)
        /\ \A o : r.name = "attach" /\ o \in r.outs => Names(wire, "attach", o)
    BY <1>1, <2>1, TailKnows
  <2>3. r.name = "attach" => r.outs \cap comp.covered = {}
    BY <2>1, <2>2 DEF Attaching
  <2>4. r.name = "destroy" => ~comp.sentLocked
    BY <2>1, <2>2 DEF Told, Requested
  <2>5. r.name = "unlock" => comp.sentLocked
    BY <2>1, <2>2 DEF Requested
  <2>6. comp'.errors = comp.errors
    BY <1>1, <1>2, <2>1, <2>3, <2>4, <2>5, Served DEF RequestNames, Compositors
  <2> QED BY <2>6 DEF NoProtocolError
<1>3. CASE CompositorStep /\ ~ServeRequest
  BY <1>3, Sent DEF NoProtocolError
<1>4. CASE UNCHANGED comp
  BY <1>4 DEF NoProtocolError
<1> QED
  BY <1>2, <1>3, <1>4
  DEF Next, ClientStep, Dispatch, ReadEvents, KeepWaiting, InitDone, LockSession,
      LockingDone, LoopTop, LoopEnd, UnlockSession, UnlockDone, ContextDestroy,
      DestroyDone, ConnectionLost, Interrupted, WaitFails, Expire, Exited, vars

(* Orderly holds initially and is preserved by every step. *)
LEMMA OrderlyInductive ==
  ASSUME ~LockMayFail, ~FinishAfterLocked
  PROVE  /\ Init => Orderly
         /\ Orderly /\ [Next]_vars => Orderly'
<1>1. Init => Orderly
  BY InitInv DEF Orderly
<1>2. ASSUME Orderly, [Next]_vars PROVE Orderly'
  <2>1. IInv'
    BY <1>2, Inductive DEF Orderly
  <2>2. Told' /\ Requested'
    BY <1>2, ToldStep DEF Orderly, IInv
  <2>3. Answered' /\ GivenUp'
    BY <1>2, AnsweredStep DEF Orderly, IInv
  <2>4. NoProtocolError'
    BY <1>2, ErrorStep DEF Orderly
  <2> QED BY <2>1, <2>2, <2>3, <2>4 DEF Orderly
<1> QED BY <1>1, <1>2

(* The client, the connection and the compositor keep to their types: the   *)
(* client dispatches no event that it has not read.                         *)
THEOREM TypeCorrect ==
  Spec => []TypeOK
<1>1. IInv => TypeOK
  BY DEF IInv
<1> QED BY <1>1, Inductive, PTL DEF Spec

(* At every moment between lock_session and the end of the lock each output *)
(* the client knows of has its lock surface, unless a call has failed.      *)
THEOREM NoSurfaceMissed ==
  Spec => []EverySurfaceAttached
<1>1. IInv => EverySurfaceAttached
  BY DEF IInv
<1> QED BY <1>1, Inductive, PTL DEF Spec

(* A granted lock ends only when main's time is over, when a call has       *)
(* failed or when the compositor takes it back.                             *)
THEOREM NeverUnlockedEarly ==
  Spec => UnlockedWhenDue
<1> DEFINE A == comp.holds /\ ~comp.holds' => expired \/ mishap \/ comp'.sentFinished
<1>1. ASSUME IInv, [Next]_vars PROVE [A]_vars
  <2> SUFFICES ASSUME Next, comp.holds, ~comp.holds'
               PROVE  expired \/ mishap \/ comp'.sentFinished
    BY <1>1
  <2>1. comp \in Compositors /\ wire \in Seq(Requests)
    BY <1>1 DEF IInv, TypeOK
  <2>2. CASE ServeRequest
    <3>1. Head(wire).name = "unlock"
      BY <1>1, <2>1, <2>2, Served DEF IInv, RequestNames, Compositors
    <3>2. up /\ wire # <<>>
      BY <2>2 DEF ServeRequest
    <3>3. Has(wire, "unlock")
      BY <2>1, <3>1, <3>2, TailKnows
    <3> QED BY <1>1, <3>2, <3>3 DEF IInv, Reasons, Due
  <2>3. CASE SendFinished
    BY <2>1, <2>3 DEF SendFinished, Send, Compositors
  <2>4. CASE CompositorStep /\ ~ServeRequest /\ ~SendFinished
    <3>1. ASSUME NEW o \in Outputs, Plug(o) \/ Unplug(o) PROVE comp'.holds = comp.holds
      BY <2>1, <3>1 DEF Plug, Unplug, Send, Compositors
    <3>2. CASE SendLocked \/ Tick \/ Disconnect
      BY <2>1, <3>2 DEF SendLocked, Tick, Disconnect, Send, Compositors
    <3> QED BY <2>4, <3>1, <3>2 DEF CompositorStep
  <2>5. CASE ~CompositorStep
    <3>1. comp' = comp
      BY <2>5
      DEF Next, ClientStep, Dispatch, ReadEvents, KeepWaiting, InitDone,
          LockSession, LockingDone, LoopTop, LoopEnd, UnlockSession, UnlockDone,
          ContextDestroy, DestroyDone, ConnectionLost, Interrupted, WaitFails, Expire,
          Exited, vars
    <3> QED BY <3>1
  <2> QED BY <2>2, <2>3, <2>4, <2>5 DEF CompositorStep
<1> QED BY <1>1, Inductive, PTL DEF Spec, UnlockedWhenDue

(* No interleaving of hot-plugging, denial, failures and the loss of the    *)
(* connection makes the client destroy a lock that was granted, unlock one  *)
(* that was not, or attach two surfaces to an output.                       *)
THEOREM NeverAProtocolError ==
  ~LockMayFail /\ ~FinishAfterLocked => (Spec => []NoProtocolError)
<1> SUFFICES ASSUME ~LockMayFail, ~FinishAfterLocked
             PROVE  Spec => []NoProtocolError
  OBVIOUS
<1>1. (Init => Orderly) /\ (Orderly /\ [Next]_vars => Orderly')
  BY OrderlyInductive
<1>2. Orderly => NoProtocolError
  BY DEF Orderly
<1> QED BY <1>1, <1>2, PTL DEF Spec

(* Every step of SessionLock is a step of ScreenLock or leaves it alone. *)
LEMMA ScreenLockStep ==
  ASSUME ~LockMayFail, ~FinishAfterLocked, Orderly, Orderly', [Next]_vars
  PROVE  [SL!Next]_(SL!vars)
<1> USE DEF Orderly, IInv
<1>1. /\ comp \in Compositors /\ wire \in Seq(Requests) /\ ctx \in Contexts
      /\ Cut = ~up /\ Cut' = ~up' /\ up \in BOOLEAN /\ up' \in BOOLEAN
      /\ expired \in BOOLEAN /\ mishap \in BOOLEAN
      /\ expired' \in BOOLEAN /\ mishap' \in BOOLEAN
  BY DEF TypeOK, Cut, NoProtocolError
<1>2. ASSUME comp' = comp, up' = up, Due => Due', pc' = pc \/ pc' # "exited",
             pc # "exited" \/ UNCHANGED <<expired, mishap, pc>>
      PROVE  [SL!Next]_(SL!vars)
  <2>1. Session' = Session /\ Owner' = Owner /\ Cut' = Cut
    BY <1>1, <1>2 DEF Session, Owner
  <2>2. CASE Due' = Due
    BY <2>1, <2>2 DEF SL!vars
  <2>3. CASE Due' # Due
    <3>1. Due' = TRUE /\ Owner = "alive"
      BY <1>1, <1>2, <2>3 DEF Due, Owner
    <3> QED BY <2>1, <3>1 DEF SL!Next, SL!FallDue
  <2> QED BY <2>2, <2>3
<1>3. Due => Due'
  BY UpStays
<1>4. CASE Dispatch
  <2>1. UNCHANGED <<pc, comp, up>> /\ pc # "exited"
    BY <1>4, Dispatched DEF Running
  <2> QED BY <1>2, <1>3, <2>1
<1>5. CASE Moves /\ ~ConnectionLost
  <2>1. /\ UNCHANGED <<comp, up>> /\ pc' # "exited" /\ pc # "exited"
    BY <1>5
    DEF Moves, InitDone, LoopTop, Interrupted, WaitFails, AfterSignal, LoopEnd, AfterBatch,
        UnlockDone, LockingDone, ReadEvents, KeepWaiting, Expire, Goto, Control,
        Running
  <2> QED BY <1>2, <1>3, <2>1
<1>6. CASE LockSession \/ UnlockSession \/ ContextDestroy
  <2>1. /\ UNCHANGED <<comp, up>> /\ pc' # "exited" /\ pc # "exited"
    BY <1>6 DEF LockSession, UnlockSession, ContextDestroy, Goto
  <2> QED BY <1>2, <1>3, <2>1
<1>7. CASE DestroyDone \/ ConnectionLost
  <2>1. UNCHANGED <<comp, up, expired, mishap>> /\ pc # "exited"
    BY <1>7 DEF DestroyDone, ConnectionLost
  <2>2. CASE pc' # "exited"
    BY <1>2, <1>3, <2>1, <2>2
  <2>3. CASE pc' = "exited"
    <3>1. Owner = "alive" /\ Owner' = "gone" /\ UNCHANGED <<Session, Due, Cut>>
      BY <1>1, <2>1, <2>3 DEF Owner, Session, Due
    <3>2. Session # "locked" \/ Cut
      <4>1. CASE up
        <5>1. pc = "destroying" /\ ~awaited
          BY <1>7, <2>3, <4>1 DEF DestroyDone, ConnectionLost, Goto
        <5>2. wire = <<>>
          <6>1. ~Has(wire, "sync")
            BY <4>1, <5>1 DEF Answered
          <6>2. wire # <<>> => Len(wire) \in 1 .. Len(wire)
            BY <1>1
          <6> QED BY <4>1, <5>1, <6>1, <6>2 DEF GivenUp, Has
        <5>3. \A x : ~Has(wire, x)
          BY <5>2 DEF Has
        <5>4. ~comp.holds
          BY <4>1, <5>1, <5>3 DEF GivenUp, Stages, Told
        <5> QED BY <5>4 DEF Session
      <4>2. CASE ~up
        BY <1>1, <4>2
      <4> QED BY <4>1, <4>2
    <3> QED BY <3>1, <3>2 DEF SL!Next, SL!Exit
  <2> QED BY <2>2, <2>3
<1>8. CASE ServeRequest
  <2>1. /\ up /\ wire # <<>> /\ UNCHANGED client /\ Head(wire).name \in RequestNames
    BY <1>8, Served
  <2>2. UNCHANGED <<Owner, Due>>
    BY <2>1 DEF client, Owner, Due
  <2>3. comp.errors = {} /\ comp'.errors = {}
        /\ \A e : comp' # [comp EXCEPT !.errors = @ \cup {e}]
    <3>1. comp.errors = {} /\ comp'.errors = {}
      BY DEF NoProtocolError
    <3>2. \A e : [comp EXCEPT !.errors = @ \cup {e}].errors = {e}
      BY <1>1, <3>1 DEF Compositors
    <3> QED BY <3>1, <3>2
  <2>4. up' = up /\ comp'.sentLocked = comp.sentLocked
        /\ (comp'.holds = comp.holds \/ (~comp'.holds /\ Head(wire).name = "unlock"))
    <3>1. CASE Head(wire).name \in {"registry", "sync", "lock", "detach"}
      BY <1>1, <1>8, <3>1, Served DEF Compositors
    <3>2. CASE Head(wire).name \in {"attach", "destroy", "unlock"}
      <4>1. up' = up
        BY <1>8, <2>3, <3>2, Served
      <4> QED BY <1>1, <1>8, <2>1, <3>2, <4>1, Served DEF Compositors
    <3> QED BY <2>1, <3>1, <3>2 DEF RequestNames
  <2>5. CASE comp'.holds = comp.holds
    BY <1>1, <2>2, <2>4, <2>5 DEF SL!vars, Session
  <2>6. CASE comp'.holds # comp.holds
    <3>1. comp.holds /\ ~comp'.holds /\ comp.sentLocked /\ Head(wire).name = "unlock"
      <4>1. comp.holds \in BOOLEAN /\ comp'.holds \in BOOLEAN
        BY DEF TypeOK, Compositors
      <4> QED BY <2>4, <2>6, <4>1 DEF Told
    <3>2. Session = "locked" /\ Session' = "over"
      BY <2>4, <3>1 DEF Session
    <3>3. Has(wire, "unlock")
      BY <1>1, <2>1, <3>1, TailKnows
    <3>4. Due
      BY <2>1, <3>3 DEF Reasons
    <3>5. pc # "exited"
      <4>1. ASSUME pc = "exited" PROVE FALSE
        <5>1. ~Has(wire, "sync")
          BY <2>1, <4>1 DEF Answered
        <5>2. wire[Len(wire)].name = "sync" /\ Len(wire) \in 1 .. Len(wire)
          BY <1>1, <2>1, <4>1 DEF GivenUp
        <5> QED BY <5>1, <5>2 DEF Has
      <4> QED BY <4>1
    <3>6. Owner = "alive" /\ ~Cut /\ Cut' = Cut
      BY <1>1, <2>1, <2>4, <3>5 DEF Owner
    <3> QED BY <2>2, <3>2, <3>4, <3>6 DEF SL!Next, SL!Unlock
  <2> QED BY <2>5, <2>6
<1>9. CASE SendLocked
  <2>1. /\ comp'.holds /\ up /\ up' = up /\ comp.lock = "held" /\ ~comp.sentLocked
        /\ UNCHANGED client
    BY <1>1, <1>9 DEF SendLocked, Send, Compositors
  <2>2. Session = "open" /\ Session' = "locked"
    BY <2>1 DEF Session, Told
  <2>3. pc # "exited"
    <3>1. ASSUME pc = "exited" PROVE FALSE
      <4>1. Has(wire, "destroy") \/ Has(wire, "unlock")
        BY <2>1, <3>1 DEF GivenUp, Stages
      <4>2. wire # <<>>
        BY <4>1 DEF Has
      <4>3. wire[Len(wire)].name = "sync" /\ Len(wire) \in 1 .. Len(wire)
        BY <1>1, <2>1, <3>1, <4>2 DEF GivenUp
      <4> QED BY <2>1, <3>1, <4>3 DEF Answered, Has
    <3> QED BY <3>1
  <2>4. Owner = "alive" /\ ~Cut /\ UNCHANGED <<Owner, Due, Cut>>
    BY <1>1, <2>1, <2>3 DEF client, Owner, Due
  <2> QED BY <2>2, <2>4 DEF SL!Next, SL!Lock
<1>10. CASE Disconnect
  <2>1. /\ Cut' = TRUE /\ UNCHANGED <<Session, Owner, Due>>
    BY <1>1, <1>10 DEF Disconnect, client, Session, Owner, Due
  <2> QED BY <2>1 DEF SL!Next, SL!CutOff
<1>11. CASE SendFinished
  <2>1. /\ ~comp'.holds /\ ~comp.holds /\ comp'.sentLocked = comp.sentLocked /\ up' = up
        /\ UNCHANGED client
    BY <1>1, <1>11 DEF SendFinished, Send, Compositors, Told
  <2> QED BY <1>1, <2>1 DEF SL!vars, Session, Owner, Due, client
<1>12. ASSUME Tick \/ \E o \in Outputs : Plug(o) \/ Unplug(o)
       PROVE  [SL!Next]_(SL!vars)
  <2>1. UNCHANGED <<client, up>>
    BY <1>12 DEF Tick, Plug, Unplug, Send
  <2>2. comp'.holds = comp.holds /\ comp'.sentLocked = comp.sentLocked
    <3>1. ASSUME NEW o \in Outputs, Plug(o) \/ Unplug(o)
          PROVE  comp'.holds = comp.holds /\ comp'.sentLocked = comp.sentLocked
      BY <1>1, <3>1 DEF Plug, Unplug, Send, Compositors
    <3>2. CASE Tick
      BY <3>2 DEF Tick, Send
    <3> QED BY <1>12, <3>1, <3>2
  <2> QED BY <1>1, <2>1, <2>2 DEF SL!vars, Session, Owner, Due, client
<1>13. CASE UNCHANGED vars
  BY <1>13 DEF vars, SL!vars, Session, Owner, Due, Cut
<1> QED
  BY <1>4, <1>5, <1>6, <1>7, <1>8, <1>9, <1>10, <1>11, <1>12, <1>13
  DEF Next, ClientStep, CompositorStep, Moves, Exited

(* main and lock.c implement a screen lock: the session is locked at most   *)
(* once, unlocked for a reason, and not left locked by a process that has   *)
(* exited, unless the connection broke.                                     *)
THEOREM ImplementsScreenLock ==
  ~LockMayFail /\ ~FinishAfterLocked => (Spec => IsScreenLock)
<1> SUFFICES ASSUME ~LockMayFail, ~FinishAfterLocked
             PROVE  Spec => IsScreenLock
  OBVIOUS
<1>1. (Init => Orderly) /\ (Orderly /\ [Next]_vars => Orderly')
  BY OrderlyInductive
<1>2. Init => SL!Init
  BY DEF Init, SL!Init, Session, Owner, Due, Cut
<1>3. Orderly /\ Orderly' /\ [Next]_vars => [SL!Next]_(SL!vars)
  BY ScreenLockStep
<1> QED BY <1>1, <1>2, <1>3, PTL DEF Spec, IsScreenLock, SL!Spec
=============================================================================
