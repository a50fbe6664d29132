----------------------------- MODULE SessionLock -----------------------------
(***************************************************************************)
(* The life of a kirilock process: struct kl_context (lock.c) and the main *)
(* loop that drives it (main.c), talking to a Wayland compositor.          *)
(*                                                                         *)
(* The client is one thread.  It writes requests, blocks until the socket  *)
(* has events, reads some of them as a batch, dispatches the batch one     *)
(* event at a time, and then tests the condition of the loop it is in.     *)
(* Requests and events travel in order, each way on its own.  The          *)
(* compositor is external: it does what the comments of the vendored       *)
(* include/protocols/session-lock.h allow it to do.  Requests are flushed  *)
(* at every point where the client blocks, so that the client's output     *)
(* buffer and the socket are one queue here.                               *)
(*                                                                         *)
(* What an event does to the buffers of a surface is module LockSurface;   *)
(* here those events are ticks, which matter because they wake the loop.   *)
(***************************************************************************)
EXTENDS Integers, Sequences

CONSTANTS
  Outputs,            \* the names of wl_output globals, each used once
  MayFail,            \* whether allocations, binds and epoll calls can fail
  LockMayFail,        \* whether lock_session can fail after it asked for the lock
  MayDisconnect,      \* whether the compositor can die or drop the client
  FinishAfterLocked   \* whether the compositor takes back a lock it granted

ASSUME FlagsAssumption ==
  /\ MayFail \in BOOLEAN /\ LockMayFail \in BOOLEAN
  /\ MayDisconnect \in BOOLEAN /\ FinishAfterLocked \in BOOLEAN

VARIABLES
  ctx,      \* the fields of struct kl_context
  pc,       \* the call the client is in
  turn,     \* inside a blocking call: "block", "dispatch" or "test"
  batch,    \* events read from the socket and not yet dispatched
  awaited,  \* a wl_display_roundtrip still waits for its callback
  expired,  \* five seconds have passed since main took its start time
  mishap,   \* some call of the client has failed
  wire,     \* requests on their way to the compositor
  events,   \* events on their way to the client, batch included
  comp,     \* external: the compositor
  up        \* external: the connection is alive

client == <<ctx, pc, turn, batch, awaited, expired, mishap>>
vars == <<ctx, pc, turn, batch, awaited, expired, mishap, wire, events, comp, up>>

Message(name, outs) == [name |-> name, outs |-> outs]

RequestNames == {"registry", "sync", "lock", "attach", "detach", "destroy", "unlock"}
EventNames == {"core", "global", "remove", "locked", "finished", "done", "tick"}

Requests == [name : RequestNames, outs : SUBSET Outputs]
Events == [name : EventNames, outs : SUBSET Outputs]

(* kl_context_init up to its roundtrip, on a display that connected. *)
Init ==
  /\ ctx = [registry |-> TRUE, core |-> FALSE, failed |-> FALSE, lock |-> FALSE,
            isLocked |-> FALSE, isFinished |-> FALSE,
            surfaces |-> {}, attached |-> {}]
  /\ pc = "init" /\ turn = "block" /\ batch = 0 /\ awaited = TRUE
  /\ expired = FALSE /\ mishap = FALSE
  /\ wire = <<Message("registry", {}), Message("sync", {})>>
  /\ events = <<>>
  /\ \E present \in SUBSET Outputs, complete \in BOOLEAN :
       comp = [present |-> present, unused |-> Outputs \ present,
               complete |-> complete, watched |-> FALSE, lock |-> "none",
               sentLocked |-> FALSE, sentFinished |-> FALSE, holds |-> FALSE,
               covered |-> {}, errors |-> {}]
  /\ up = TRUE

-----------------------------------------------------------------------------
(***************************************************************************)
(* Event handlers.  Each says what dispatching event e does to the context *)
(* and which requests it writes.                                           *)
(***************************************************************************)

Mut_HandleOutputs(outs) ==
  LET bound == IF ctx.isLocked /\ ~ctx.isFinished THEN outs ELSE {}
  IN /\ ctx' = [ctx EXCEPT !.surfaces = @ \cup outs, !.attached = @ \cup bound]
     /\ wire' = IF bound = {} THEN wire ELSE Append(wire, Message("attach", bound))
     /\ UNCHANGED mishap

(* kl_registry_handle_global for outputs: bind each, create its surface and *)
(* attach it at once if a lock is active.  A failed bind or creation sets   *)
(* failed; a failed attachment of a hot-plugged output is only logged.      *)
HandleOutputs(outs) ==
  \E made \in SUBSET outs :
    \E bound \in IF ctx.lock /\ ~ctx.isFinished THEN SUBSET made ELSE {{}} :
      /\ (made # outs \/ (ctx.lock /\ ~ctx.isFinished /\ bound # made)) => MayFail
      /\ ctx' = [ctx EXCEPT !.surfaces = @ \cup made,
                            !.attached = @ \cup bound,
                            !.failed = @ \/ made # outs]
      /\ wire' = IF bound = {} THEN wire ELSE Append(wire, Message("attach", bound))
      /\ mishap' = (mishap \/ made # outs
                      \/ (ctx.lock /\ ~ctx.isFinished /\ bound # made))

Mut_HandleGlobalRemove(outs) ==
  /\ ctx' = [ctx EXCEPT !.surfaces = @ \ outs]
  /\ UNCHANGED <<wire, mishap>>

(* kl_registry_handle_global_remove with kl_surface_destroy *)
HandleGlobalRemove(outs) ==
  /\ ctx' = [ctx EXCEPT !.surfaces = @ \ outs, !.attached = @ \ outs]
  /\ wire' = IF outs \cap ctx.attached = {} THEN wire
             ELSE Append(wire, Message("detach", outs))
  /\ UNCHANGED mishap

(* kl_registry_handle_global for the compositor, the shared memory and the  *)
(* lock manager, whose proxies are all or none of core here.  A failed bind *)
(* sets failed.                                                             *)
HandleCore ==
  /\ \/ ctx' = [ctx EXCEPT !.core = TRUE] /\ UNCHANGED mishap
     \/ MayFail /\ ctx' = [ctx EXCEPT !.failed = TRUE] /\ mishap' = TRUE
  /\ UNCHANGED wire

(* kl_lock_handle_locked and kl_lock_handle_finished *)
HandleLocked == [ctx EXCEPT !.isLocked = TRUE]
HandleFinished == [ctx EXCEPT !.isFinished = TRUE]

(* Whether the proxy that e is for still exists: libwayland drops the       *)
(* events of destroyed proxies.                                             *)
Heard(e) ==
  CASE e.name \in {"core", "global", "remove"} -> ctx.registry
    [] e.name \in {"locked", "finished"}       -> ctx.lock
    [] OTHER                                   -> TRUE

(* wl_display_dispatch_pending dispatches one event of the batch. *)
Dispatch ==
  /\ turn = "dispatch"
  /\ LET e == Head(events)
     IN /\ \/ Heard(e) /\ e.name = "global" /\ HandleOutputs(e.outs)
           \/ Heard(e) /\ e.name = "remove" /\ HandleGlobalRemove(e.outs)
           \/ Heard(e) /\ e.name = "core" /\ HandleCore
           \/ /\ ~(Heard(e) /\ e.name \in {"core", "global", "remove"})
              /\ ctx' = CASE Heard(e) /\ e.name = "locked"   -> HandleLocked
                          [] Heard(e) /\ e.name = "finished" -> HandleFinished
                          [] OTHER                           -> ctx
              /\ UNCHANGED <<wire, mishap>>
        /\ awaited' = (awaited /\ e.name # "done")
  /\ events' = Tail(events)
  /\ batch' = batch - 1
  /\ turn' = IF batch = 1 THEN "test" ELSE "dispatch"
  /\ UNCHANGED <<pc, expired, comp, up>>

(* How many events one read may find: some of those that have arrived. *)
Readable == 1 .. Len(events)

(* A blocking call (wl_display_dispatch, wl_display_roundtrip, or epoll_wait *)
(* with wl_display_read_events) reads what has arrived, or part of it.  Only *)
(* epoll_wait looks for a hang-up before it reads.                           *)
ReadEvents ==
  /\ turn = "block" /\ events # <<>>
  /\ pc = "wait" => up
  /\ batch' \in Readable
  /\ turn' = "dispatch"
  /\ UNCHANGED <<ctx, pc, awaited, expired, mishap, wire, events, comp, up>>

(* The blocking call goes on because what it waits for has not come. *)
KeepWaiting ==
  /\ turn = "test"
  /\ \/ pc \in {"init", "unlocking", "destroying"} /\ awaited
     \/ pc = "locking" /\ ~ctx.isLocked /\ ~ctx.isFinished
  /\ turn' = "block"
  /\ UNCHANGED <<ctx, pc, batch, awaited, expired, mishap, wire, events, comp, up>>

-----------------------------------------------------------------------------
(***************************************************************************)
(* The control flow of main and of the functions of lock.c.                *)
(***************************************************************************)

Goto(target, t) == pc' = target /\ turn' = t

(* The end of kl_context_init, and main's reaction to its result. *)
InitDone ==
  /\ pc = "init" /\ turn = "test" /\ ~awaited
  /\ IF ~ctx.failed /\ ctx.core /\ ctx.surfaces # {}
     THEN Goto("lock", "run") ELSE Goto("destroy", "run")
  /\ UNCHANGED <<ctx, batch, awaited, expired, mishap, wire, events, comp, up>>

(* kl_context_lock_session up to its dispatch loop: ask for the lock, listen *)
(* to it, attach every surface.  Each failure returns -1, on which main      *)
(* destroys the context.                                                     *)
LockSession ==
  /\ pc = "lock"
  /\ \/ /\ ctx' = [ctx EXCEPT !.lock = TRUE, !.attached = ctx.surfaces]
        /\ wire' = wire \o <<Message("lock", {}), Message("attach", ctx.surfaces)>>
        /\ Goto("locking", "block")
        /\ UNCHANGED mishap
     \/ /\ LockMayFail
        /\ \E bound \in SUBSET ctx.surfaces :
             /\ ctx' = [ctx EXCEPT !.lock = TRUE, !.attached = bound]
             /\ wire' = wire \o <<Message("lock", {}), Message("attach", bound)>>
        /\ Goto("destroy", "run")
        /\ mishap' = TRUE
     \/ /\ MayFail
        /\ Goto("destroy", "run")
        /\ mishap' = TRUE
        /\ UNCHANGED <<ctx, wire>>
  /\ UNCHANGED <<batch, awaited, expired, events, comp, up>>

(* The end of kl_context_lock_session, whose flush can fail on a lost        *)
(* connection, then main up to its loop.  Without a display descriptor or an *)
(* epoll instance main unlocks and destroys, as the loop does when it is     *)
(* left.                                                                     *)
LockingDone ==
  /\ pc = "locking" /\ turn = "test" /\ (ctx.isLocked \/ ctx.isFinished)
  /\ \/ (~ctx.isLocked \/ ~up) /\ Goto("destroy", "run") /\ UNCHANGED mishap
     \/ ctx.isLocked /\ Goto("top", "run") /\ UNCHANGED mishap
     \/ ctx.isLocked /\ MayFail /\ Goto("leave", "run") /\ mishap' = TRUE
  /\ UNCHANGED <<ctx, batch, awaited, expired, wire, events, comp, up>>

(* The top of the main loop, down to the call of epoll_wait.  Everything     *)
(* read was dispatched by then, so that prepare_read succeeds at once; the   *)
(* flush can fail, but need not, when the connection is lost.                *)
LoopTop ==
  /\ pc = "top"
  /\ \/ (expired \/ ~up) /\ Goto("leave", "run")
     \/ ~expired /\ Goto("wait", "block")
  /\ UNCHANGED <<ctx, batch, awaited, expired, mishap, wire, events, comp, up>>

Mut_AfterSignal == "leave"

(* The loop goes on after EINTR. *)
AfterSignal == "top"

(* epoll_wait returns because of a signal; events and a hang-up come first. *)
Interrupted ==
  /\ pc = "wait" /\ turn = "block" /\ events = <<>> /\ up
  /\ Goto(AfterSignal, "run")
  /\ UNCHANGED <<ctx, batch, awaited, expired, mishap, wire, events, comp, up>>

(* epoll_wait fails for another reason, and the loop is left. *)
WaitFails ==
  /\ MayFail /\ pc = "wait" /\ turn = "block"
  /\ Goto("leave", "run")
  /\ mishap' = TRUE
  /\ UNCHANGED <<ctx, batch, awaited, expired, wire, events, comp, up>>

Mut_AfterBatch == IF ctx.isFinished THEN <<"leave", "run">> ELSE <<"wait", "block">>

(* A finished lock ends the loop; otherwise its top looks at the clock. *)
AfterBatch == IF ctx.isFinished THEN <<"leave", "run">> ELSE <<"top", "run">>

(* The rest of the loop's body, once the batch is dispatched. *)
LoopEnd ==
  /\ pc = "wait" /\ turn = "test"
  /\ Goto(AfterBatch[1], AfterBatch[2])
  /\ UNCHANGED <<ctx, batch, awaited, expired, mishap, wire, events, comp, up>>

(* The condition under which kl_context_unlock_session does its work. *)
ActivelyLocked == ctx.lock /\ ctx.isLocked /\ ~ctx.isFinished

Mut_UnlockRequests == <<Message("detach", ctx.attached), Message("sync", {})>>

(* What kl_context_unlock_session writes: the surfaces go before the lock. *)
UnlockRequests ==
  <<Message("detach", ctx.attached), Message("unlock", {}), Message("sync", {})>>

(* kl_context_unlock_session, called by main when the loop is left. *)
UnlockSession ==
  /\ pc = "leave"
  /\ \/ /\ ActivelyLocked
        /\ ctx' = [ctx EXCEPT !.lock = FALSE, !.isLocked = FALSE,
                              !.isFinished = FALSE, !.attached = {}]
        /\ wire' = wire \o UnlockRequests
        /\ awaited' = TRUE
        /\ Goto("unlocking", "block")
     \/ /\ ~ActivelyLocked
        /\ Goto("destroy", "run")
        /\ UNCHANGED <<ctx, wire, awaited>>
  /\ UNCHANGED <<batch, expired, mishap, events, comp, up>>

UnlockDone ==
  /\ pc = "unlocking" /\ turn = "test" /\ ~awaited
  /\ Goto("destroy", "run")
  /\ UNCHANGED <<ctx, batch, awaited, expired, mishap, wire, events, comp, up>>

Mut_LastRequest == IF ~ctx.lock THEN <<>> ELSE <<Message("unlock", {})>>

(* How kl_context_destroy gives up the lock object, if there is one. *)
LastRequest ==
  IF ~ctx.lock THEN <<>>
  ELSE IF ctx.isLocked /\ ~ctx.isFinished THEN <<Message("unlock", {})>>
  ELSE <<Message("destroy", {})>>

(* kl_context_destroy up to its roundtrip. *)
ContextDestroy ==
  /\ pc = "destroy"
  /\ ctx' = [ctx EXCEPT !.surfaces = {}, !.attached = {}, !.lock = FALSE,
                        !.core = FALSE, !.registry = FALSE]
  /\ wire' = wire \o <<Message("detach", ctx.attached)>> \o LastRequest
                  \o <<Message("sync", {})>>
  /\ awaited' = TRUE
  /\ Goto("destroying", "block")
  /\ UNCHANGED <<batch, expired, mishap, events, comp, up>>

(* The end of kl_context_destroy and of main. *)
DestroyDone ==
  /\ pc = "destroying" /\ turn = "test" /\ ~awaited
  /\ ctx' = [ctx EXCEPT !.isLocked = FALSE, !.isFinished = FALSE, !.failed = FALSE]
  /\ Goto("exited", "run")
  /\ UNCHANGED <<batch, awaited, expired, mishap, wire, events, comp, up>>

Mut_ConnectionLost ==
  /\ turn = "block" /\ ~up
  /\ \/ pc = "wait" /\ Goto("leave", "run")
     \/ pc \in {"init", "locking"} /\ Goto("destroy", "run")
     \/ pc \in {"unlocking", "destroying"} /\ Goto(pc, "test")
  /\ UNCHANGED <<ctx, batch, awaited, expired, mishap, wire, events, comp, up>>

(* A blocking call fails because the connection is lost: dispatch and        *)
(* roundtrip return -1, epoll_wait reports a hang-up.                        *)
ConnectionLost ==
  /\ turn = "block" /\ ~up
  /\ \/ pc = "wait" /\ Goto("leave", "run")
     \/ pc \in {"init", "locking", "unlocking"} /\ Goto("destroy", "run")
     \/ pc = "destroying" /\ Goto("exited", "run")
  /\ UNCHANGED <<ctx, batch, awaited, expired, mishap, wire, events, comp, up>>

(* The five seconds that main counts from the moment it enters the loop. *)
Expire ==
  /\ pc \in {"top", "wait"} /\ ~expired
  /\ expired' = TRUE
  /\ UNCHANGED <<ctx, pc, turn, batch, awaited, mishap, wire, events, comp, up>>

ClientStep ==
  \/ Dispatch \/ ReadEvents \/ KeepWaiting
  \/ InitDone \/ LockSession \/ LockingDone \/ LoopTop \/ LoopEnd
  \/ UnlockSession \/ UnlockDone \/ ContextDestroy \/ DestroyDone
  \/ ConnectionLost

-----------------------------------------------------------------------------
(***************************************************************************)
(* The compositor, external.                                               *)
(***************************************************************************)

Send(c, msgs) == comp' = c /\ events' = events \o msgs /\ UNCHANGED up

Refuse(error) ==
  /\ comp' = [comp EXCEPT !.errors = @ \cup {error}]
  /\ up' = FALSE
  /\ UNCHANGED events

(* One request is read and obeyed, or it is a protocol error and the client *)
(* is disconnected.                                                         *)
ServeRequest ==
  /\ up /\ wire # <<>>
  /\ wire' = Tail(wire)
  /\ UNCHANGED client
  /\ LET r == Head(wire)
     IN \/ /\ r.name = "registry"
           /\ Send([comp EXCEPT !.watched = TRUE],
                   (IF comp.complete THEN <<Message("core", {})>> ELSE <<>>)
                     \o <<Message("global", comp.present)>>)
        \/ /\ r.name = "sync"
           /\ Send(comp, <<Message("done", {})>>)
        \/ /\ r.name = "lock"
           /\ Send([comp EXCEPT !.lock = "held"], <<>>)
        \/ /\ r.name = "attach"
           /\ IF r.outs \cap comp.covered # {} THEN Refuse("duplicate_output")
              ELSE Send([comp EXCEPT !.covered = @ \cup (r.outs \cap comp.present)],
                        <<>>)
        \/ /\ r.name = "detach"
           /\ Send([comp EXCEPT !.covered = @ \ r.outs], <<>>)
        \/ /\ r.name = "destroy"
           /\ IF comp.sentLocked THEN Refuse("invalid_destroy")
              ELSE Send([comp EXCEPT !.lock = "gone"], <<>>)
        \/ /\ r.name = "unlock"
           /\ IF ~comp.sentLocked THEN Refuse("invalid_unlock")
              ELSE Send([comp EXCEPT !.lock = "gone", !.holds = FALSE], <<>>)

(* The answer to the lock request. *)
SendLocked ==
  /\ up /\ comp.lock = "held" /\ ~comp.sentLocked /\ ~comp.sentFinished
  /\ Send([comp EXCEPT !.sentLocked = TRUE, !.holds = TRUE],
          <<Message("locked", {})>>)
  /\ UNCHANGED <<client, wire>>

(* The lock is denied, or later taken back. *)
SendFinished ==
  /\ up /\ comp.lock = "held" /\ ~comp.sentFinished
  /\ comp.sentLocked => FinishAfterLocked
  /\ Send([comp EXCEPT !.sentFinished = TRUE, !.holds = FALSE],
          <<Message("finished", {})>>)
  /\ UNCHANGED <<client, wire>>

(* An output is plugged in or out. *)
Plug(o) ==
  /\ up /\ o \in comp.unused
  /\ Send([comp EXCEPT !.unused = @ \ {o}, !.present = @ \cup {o}],
          IF comp.watched THEN <<Message("global", {o})>> ELSE <<>>)
  /\ UNCHANGED <<client, wire>>

Unplug(o) ==
  /\ up /\ o \in comp.present
  /\ Send([comp EXCEPT !.present = @ \ {o}, !.covered = @ \ {o}],
          IF comp.watched THEN <<Message("remove", {o})>> ELSE <<>>)
  /\ UNCHANGED <<client, wire>>

(* An event of a surface: configure, frame done, buffer release. *)
Tick ==
  /\ up /\ comp.covered # {}
  /\ \A k \in 1 .. Len(events) : events[k].name # "tick"
  /\ Send(comp, <<Message("tick", {})>>)
  /\ UNCHANGED <<client, wire>>

Disconnect ==
  /\ MayDisconnect /\ up
  /\ up' = FALSE
  /\ UNCHANGED <<client, wire, events, comp>>

CompositorStep ==
  \/ ServeRequest \/ SendLocked \/ SendFinished \/ Tick \/ Disconnect
  \/ \E o \in Outputs : Plug(o) \/ Unplug(o)

(* The process has exited; there is nothing left to happen. *)
Exited == pc = "exited" /\ UNCHANGED vars

Next == ClientStep \/ Interrupted \/ WaitFails \/ Expire \/ CompositorStep \/ Exited

Spec == Init /\ [][Next]_vars

(* The client runs whenever it can, and so does the compositor: it reads     *)
(* every request, answers the lock request, and keeps sending frame events   *)
(* to the surfaces of a lock it honours.  Nothing makes it finish a lock,    *)
(* plug outputs, or wake the client for any other reason.                    *)
Fairness ==
  /\ WF_vars(ClientStep)
  /\ WF_vars(ServeRequest)
  /\ WF_vars(~comp.sentLocked /\ (SendLocked \/ SendFinished))
  /\ WF_vars(comp.holds /\ Tick)

FairSpec == Spec /\ Fairness

-----------------------------------------------------------------------------
(***************************************************************************)
(* Properties.                                                             *)
(***************************************************************************)

(* The values of struct kl_context and of the compositor's state. *)
Contexts ==
  [registry : BOOLEAN, core : BOOLEAN, failed : BOOLEAN, lock : BOOLEAN,
   isLocked : BOOLEAN, isFinished : BOOLEAN,
   surfaces : SUBSET Outputs, attached : SUBSET Outputs]
Compositors ==
  [present : SUBSET Outputs, unused : SUBSET Outputs, complete : BOOLEAN,
   watched : BOOLEAN, lock : {"none", "held", "gone"}, sentLocked : BOOLEAN,
   sentFinished : BOOLEAN, holds : BOOLEAN, covered : SUBSET Outputs,
   errors : SUBSET {"duplicate_output", "invalid_destroy", "invalid_unlock"}]

(* Type invariant of the client, the connection and the compositor; only    *)
(* surfaces in the list have a lock surface.                                *)
TypeOK ==
  /\ ctx \in Contexts /\ ctx.attached \subseteq ctx.surfaces
  /\ pc \in {"init", "lock", "locking", "top", "wait", "leave", "unlocking",
             "destroy", "destroying", "exited"}
  /\ turn \in {"run", "block", "dispatch", "test"}
  /\ batch \in 0 .. Len(events)
  /\ awaited \in BOOLEAN /\ expired \in BOOLEAN /\ mishap \in BOOLEAN
  /\ wire \in Seq(Requests)
  /\ events \in Seq(Events)
  /\ comp \in Compositors
  /\ up \in BOOLEAN

(* Whatever the order of events, no request the client makes on its lock is *)
(* a protocol error: session-lock.h allows destroy only if locked was never *)
(* sent, unlock_and_destroy only if it was, and one surface per output.     *)
NoProtocolError == comp.errors = {}

(* The session as module ScreenLock sees it. *)
Session ==
  IF comp.holds THEN "locked" ELSE IF comp.sentLocked THEN "over" ELSE "open"
Owner == IF pc = "exited" THEN "gone" ELSE "alive"
Due == expired \/ mishap
Cut == ~up /\ comp.errors = {}

SL == INSTANCE ScreenLock WITH
  session <- Session, owner <- Owner, due <- Due, cut <- Cut

(* With a compositor that keeps the lock it has granted, the process and    *)
(* its queues implement a screen lock: the session is locked once, unlocked *)
(* only for a reason, and never left locked by a process that has exited,   *)
(* on every path through main and lock.c, unless the connection broke first *)
(* and not for an error of the client.  The roundtrips of unlock_session    *)
(* and destroy are what makes the exit wait for the unlock.                 *)
IsScreenLock == SL!Spec

(* The lock is not given up early: a session that was locked is unlocked by *)
(* this client only once its time is over or a call it made has failed.     *)
UnlockedWhenDue ==
  [][comp.holds /\ ~comp.holds' => expired \/ mishap \/ comp'.sentFinished]_vars

(* The outputs in the list are those with a lock surface, as long as there  *)
(* is a lock to attach to: an output that is plugged in at any moment of    *)
(* the locking is not missed.                                               *)
EverySurfaceAttached ==
  ctx.lock /\ ~ctx.isFinished /\ ~mishap => ctx.attached = ctx.surfaces

(* The clean-up calls of main return: once the client has decided to leave  *)
(* it exits, since each roundtrip is answered or fails.                     *)
LeavingEnds == pc \in {"leave", "unlocking", "destroy", "destroying"} ~> pc = "exited"

(* The deadline is noticed although epoll_wait has no timeout: as long as   *)
(* some surface receives frame events, an expired loop ends.                *)
DeadlineNoticed == (pc \in {"top", "wait"} /\ expired)
                     ~> (pc = "exited" \/ comp.covered = {})

(* Every output gets its lock surface: while the lock is held, an output    *)
(* that is present is covered, unless it goes away again, the lock ends or  *)
(* a call of the client has failed.                                         *)
OutputsCovered ==
  \A o \in Outputs :
    (o \in comp.present /\ comp.holds)
      ~> (o \in comp.covered \/ o \notin comp.present \/ pc = "exited"
            \/ ~comp.holds \/ mishap)

(* A finished lock is given up: session-lock.h:386 asks the client for a    *)
(* destroy or unlock_and_destroy request when it receives finished.         *)
FinishedGivenUp == ctx.isFinished ~> ~ctx.lock
=============================================================================
