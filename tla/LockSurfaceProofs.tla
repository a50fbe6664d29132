-------------------------- MODULE LockSurfaceProofs --------------------------
(***************************************************************************)
(* Proofs about module LockSurface, for every number of buffers and every  *)
(* set of sizes and scales.                                                *)
(*                                                                         *)
(* Every handler ends in kl_surface_render_frame, applied to a surface     *)
(* that the handler has already changed in part.  The invariant is         *)
(* therefore stated of an arbitrary surface s, held slots h and number of  *)
(* callbacks c (Coherent, Awake), and one lemma shows what rendering makes *)
(* of it; each handler then only has to establish that lemma's hypotheses. *)
(***************************************************************************)
EXTENDS LockSurface, TLAPS

(* The surface agrees with the compositor: the frame callback it remembers  *)
(* is the one that exists, held slots are busy, and a configured surface    *)
(* has a live lock surface whose last ack was for the size it draws.        *)
Coherent(s, h, c, a) ==
  /\ s \in Surfaces
  /\ h \subseteq Slots
  /\ s.framePending = s.frameCallback
  /\ c = (IF s.framePending THEN 1 ELSE 0)
  /\ \A i \in h : s.buffers[i].wl /\ s.buffers[i].busy
  /\ s.configured => s.lock = "bound" /\ a = {s.size}

Awake(s, f) ==
  s.configured /\ s.size # NoSize /\ ~f
    => s.framePending \/ (s.dirty /\ \A i \in Slots : s.buffers[i].busy)

Typed(f, a, e, m) ==
  /\ f \in BOOLEAN
  /\ a \subseteq AnySize
  /\ e = {}
  /\ m \in [slot : Slots, size : AnySize, scale : Scales]

(* The inductive invariant. *)
IInv ==
  /\ phase \in {"open", "over", "freed"}
  /\ Coherent(surf, held, callbacks, acked)
  /\ Awake(surf, failed)
  /\ Typed(failed, acked, errors, committed)

(* What a handler must leave behind, phase aside. *)
IInvNext ==
  /\ Coherent(surf', held', callbacks', acked')
  /\ Awake(surf', failed')
  /\ Typed(failed', acked', errors', committed')

(* The buffer that is committed was made for the surface's size and scale,  *)
(* so that the compositor accepts it.                                       *)
LEMMA CommitAccepted ==
  ASSUME NEW s, NEW b,
         acked' = {s.size}, b.wl, b.size = s.size, b.scale = s.scale
  PROVE  CommitErrors(s, b) = {}
BY DEF CommitErrors

(* kl_surface_render_frame from busy = 1 on keeps a coherent surface        *)
(* coherent and leaves it awake.                                            *)
LEMMA SubmitCoherent ==
  ASSUME NEW s, NEW h, NEW c, NEW i \in Slots,
         Coherent(s, h, c, acked'), Renderable(s), Fits(s, i),
         Typed(failed, acked', errors, committed),
         Submit(s, h, c, i)
  PROVE  IInvNext
<1> DEFINE b == s.buffers[i]
<1> s \in Surfaces /\ b \in Buffers
  BY DEF Coherent, Surfaces
<1>1. b.wl /\ b.size = s.size /\ b.scale = s.scale
  BY DEF Fits
<1>2. b.size \in AnySize /\ b.scale \in Scales
  BY <1>1 DEF Surfaces
<1>3. acked' = {s.size}
  BY DEF Coherent, Renderable
<1>4. errors' = {}
  BY <1>1, <1>3, CommitAccepted DEF Submit, Typed
<1>5. committed' \in [slot : Slots, size : AnySize, scale : Scales]
  BY <1>2 DEF Submit
<1>6. failed' \in BOOLEAN
  BY DEF Submit, Typed
<1>7. Typed(failed', acked', errors', committed')
  BY <1>4, <1>5, <1>6 DEF Typed
<1> DEFINE sent == [s EXCEPT !.buffers[i].busy = TRUE]
<1>8. /\ sent \in Surfaces
      /\ sent.buffers[i].wl /\ sent.buffers[i].busy
      /\ \A j \in h : sent.buffers[j].wl /\ sent.buffers[j].busy
      /\ sent.configured = s.configured /\ sent.size = s.size
      /\ sent.lock = s.lock
  BY <1>1 DEF Coherent, Surfaces, Buffers
<1>9. held' = h \cup {i}
  BY DEF Submit
<1>10. CASE /\ surf' = [sent EXCEPT !.framePending = TRUE,
                                    !.frameCallback = TRUE, !.dirty = FALSE]
            /\ callbacks' = c + 1
  <2>1. c = 0
    BY DEF Coherent, Renderable
  <2>2. surf' \in Surfaces /\ surf'.buffers = sent.buffers
        /\ surf'.framePending = TRUE /\ surf'.frameCallback = TRUE
        /\ surf'.configured = s.configured /\ surf'.size = s.size
        /\ surf'.lock = s.lock
    BY <1>8, <1>10 DEF Surfaces
  <2>3. Coherent(surf', held', callbacks', acked')
    BY <1>3, <1>8, <1>9, <1>10, <2>1, <2>2 DEF Coherent
  <2>4. Awake(surf', failed')
    BY <2>2 DEF Awake
  <2> QED BY <1>7, <2>3, <2>4 DEF IInvNext
<1>11. CASE /\ surf' = [sent EXCEPT !.framePending = FALSE,
                                    !.frameCallback = FALSE]
            /\ callbacks' = c
            /\ failed' = TRUE
  <2>1. c = 0
    BY DEF Coherent, Renderable
  <2>2. surf' \in Surfaces /\ surf'.buffers = sent.buffers
        /\ surf'.framePending = FALSE /\ surf'.frameCallback = FALSE
        /\ surf'.configured = s.configured /\ surf'.size = s.size
        /\ surf'.lock = s.lock
    BY <1>8, <1>11 DEF Surfaces
  <2>3. Coherent(surf', held', callbacks', acked')
    BY <1>3, <1>8, <1>9, <1>11, <2>1, <2>2 DEF Coherent
  <2>4. Awake(surf', failed')
    BY <1>11 DEF Awake
  <2> QED BY <1>7, <2>3, <2>4 DEF IInvNext
<1> QED BY <1>10, <1>11 DEF Submit

(* The same for the choice between reusing, recreating and failing to       *)
(* create the buffer of a slot that is free.                                *)
LEMMA DrawCoherent ==
  ASSUME NEW s, NEW h, NEW c, NEW i \in Slots,
         Coherent(s, h, c, acked'), Renderable(s), ~s.buffers[i].busy,
         Typed(failed, acked', errors, committed),
         DrawInto(s, h, c, i)
  PROVE  IInvNext
<1> s \in Surfaces /\ h \subseteq Slots /\ i \notin h /\ h \ {i} = h
  BY DEF Coherent
<1>1. CASE Fits(s, i) /\ Submit(s, h, c, i)
  BY <1>1, SubmitCoherent
<1>2. CASE Submit([s EXCEPT !.buffers[i] = CreatedBuffer(s)], h \ {i}, c, i)
  <2> DEFINE t == [s EXCEPT !.buffers[i] = CreatedBuffer(s)]
  <2>1. CreatedBuffer(s) \in Buffers
    BY DEF CreatedBuffer, Surfaces, Buffers
  <2>2. /\ t \in Surfaces
        /\ t.framePending = s.framePending /\ t.frameCallback = s.frameCallback
        /\ t.configured = s.configured /\ t.lock = s.lock /\ t.size = s.size
        /\ t.scale = s.scale
        /\ t.buffers[i] = CreatedBuffer(s)
        /\ \A j \in h : t.buffers[j] = s.buffers[j]
    BY <2>1 DEF Surfaces
  <2>3. Coherent(t, h, c, acked')
    BY <2>2 DEF Coherent
  <2>4. Renderable(t) /\ Fits(t, i)
    BY <2>2 DEF Renderable, Fits, CreatedBuffer
  <2> QED BY <1>2, <2>3, <2>4, SubmitCoherent
<1>3. CASE /\ surf' = [s EXCEPT !.buffers[i] = NoBuffer]
           /\ held' = h \ {i}
           /\ callbacks' = c
           /\ failed' = TRUE
           /\ UNCHANGED <<committed, errors>>
  <2>1. NoBuffer \in Buffers
    BY ScalesAssumption DEF NoBuffer, Buffers, AnySize
  <2>2. /\ surf' \in Surfaces
        /\ surf'.framePending = s.framePending
        /\ surf'.frameCallback = s.frameCallback
        /\ surf'.configured = s.configured /\ surf'.lock = s.lock
        /\ surf'.size = s.size
        /\ \A j \in h : surf'.buffers[j] = s.buffers[j]
    BY <1>3, <2>1 DEF Surfaces
  <2>3. Coherent(surf', held', callbacks', acked')
    BY <1>3, <2>2 DEF Coherent
  <2> QED BY <1>3, <2>3 DEF IInvNext, Awake, Typed
<1> QED BY <1>1, <1>2, <1>3 DEF DrawInto

(* Rendering, including its early returns: what returns early must have     *)
(* been awake before.                                                       *)
LEMMA RenderCoherent ==
  ASSUME NEW s, NEW h, NEW c,
         Coherent(s, h, c, acked'), ~Renderable(s) => Awake(s, failed),
         Typed(failed, acked', errors, committed),
         RenderFrame(s, h, c)
  PROVE  IInvNext
<1>1. CASE ~Renderable(s)
  BY <1>1 DEF RenderFrame, IInvNext, Typed
<1>2. CASE /\ Renderable(s)
           /\ \A i \in Slots : s.buffers[i].busy
           /\ surf' = OutOfBuffers(s) /\ held' = h /\ callbacks' = c
           /\ UNCHANGED <<failed, committed, errors>>
  <2>1. /\ surf' \in Surfaces
        /\ surf'.framePending = s.framePending
        /\ surf'.frameCallback = s.frameCallback
        /\ surf'.configured = s.configured /\ surf'.lock = s.lock
        /\ surf'.size = s.size /\ surf'.buffers = s.buffers /\ surf'.dirty = TRUE
    BY <1>2 DEF Coherent, Surfaces, OutOfBuffers
  <2>2. Coherent(surf', held', callbacks', acked')
    BY <1>2, <2>1 DEF Coherent
  <2>3. Awake(surf', failed')
    BY <1>2, <2>1 DEF Awake
  <2> QED BY <1>2, <2>2, <2>3 DEF IInvNext, Typed
<1>3. CASE /\ Renderable(s)
           /\ \E i \in Slots :
                FirstFree(s, i) /\ DrawInto([s EXCEPT !.current = i], h, c, i)
  <2>1. PICK i \in Slots :
          FirstFree(s, i) /\ DrawInto([s EXCEPT !.current = i], h, c, i)
    BY <1>3
  <2> DEFINE t == [s EXCEPT !.current = i]
  <2>2. /\ t \in Surfaces
        /\ t.framePending = s.framePending /\ t.frameCallback = s.frameCallback
        /\ t.configured = s.configured /\ t.lock = s.lock /\ t.size = s.size
        /\ t.buffers = s.buffers
    BY DEF Coherent, Surfaces
  <2>3. Coherent(t, h, c, acked')
    BY <2>2 DEF Coherent
  <2>4. Renderable(t) /\ ~t.buffers[i].busy
    BY <1>3, <2>1, <2>2 DEF Renderable, FirstFree
  <2> QED BY <2>1, <2>3, <2>4, DrawCoherent
<1> QED BY <1>1, <1>2, <1>3 DEF RenderFrame

(* kl_surface_request_render has no early return to worry about: marking    *)
(* the surface dirty and not being able to draw means that a frame is       *)
(* pending or that there is nothing to draw.                                *)
LEMMA RequestCoherent ==
  ASSUME NEW s, NEW h, NEW c,
         Coherent(s, h, c, acked'),
         Typed(failed, acked', errors, committed),
         RequestRender(s, h, c)
  PROVE  IInvNext
<1> DEFINE t == [s EXCEPT !.dirty = TRUE]
<1>1. /\ t \in Surfaces
      /\ t.framePending = s.framePending /\ t.frameCallback = s.frameCallback
      /\ t.configured = s.configured /\ t.lock = s.lock /\ t.size = s.size
      /\ t.buffers = s.buffers
  BY DEF Coherent, Surfaces
<1>2. Coherent(t, h, c, acked')
  BY <1>1 DEF Coherent
<1>3. ~Renderable(t) => Awake(t, failed)
  BY <1>2 DEF Renderable, Awake, Coherent
<1> QED BY <1>2, <1>3, RenderCoherent DEF RequestRender

(* kl_surface_detach_lock leaves a surface that nothing is pending for. *)
LEMMA DetachCoherent ==
  ASSUME IInv, Detach
  PROVE  IInvNext
<1>1. NoBuffer \in Buffers /\ 0 \in Slots
  BY ScalesAssumption, BufferCountAssumption DEF NoBuffer, Buffers, AnySize, Slots
<1>2. [i \in Slots |-> NoBuffer] \in [Slots -> Buffers] /\ NoSize \in AnySize
  BY <1>1 DEF AnySize
<1>3. surf \in Surfaces
  BY DEF IInv, Coherent
<1>4. /\ surf' \in Surfaces
      /\ surf'.framePending = FALSE /\ surf'.frameCallback = FALSE
      /\ surf'.configured = FALSE
  BY <1>1, <1>2, <1>3 DEF Detach, Surfaces
<1>5. callbacks' = 0
  BY DEF IInv, Coherent, Detach
<1>6. held' = {} /\ acked' = {}
  BY DEF Detach
<1>7. Coherent(surf', held', callbacks', acked') /\ Awake(surf', failed')
  BY <1>4, <1>5, <1>6 DEF Coherent, Awake
<1>8. NothingCommitted \in [slot : Slots, size : AnySize, scale : Scales]
  BY <1>1, <1>2, ScalesAssumption DEF NothingCommitted
<1>9. Typed(failed', acked', errors', committed')
  BY <1>6, <1>8 DEF Detach, IInv, Typed
<1> QED BY <1>7, <1>9 DEF IInvNext

-----------------------------------------------------------------------------
(* The invariant holds initially. *)
LEMMA InitIInv == Init => IInv
<1> SUFFICES ASSUME Init PROVE IInv
  OBVIOUS
<1>1. 0 \in Slots /\ NoSize \in AnySize /\ 1 \in Scales
  BY BufferCountAssumption, ScalesAssumption DEF Slots, AnySize
<1>2. [NoBuffer EXCEPT !.scale = 0] \in Buffers
  BY <1>1 DEF NoBuffer, Buffers
<1>3. surf \in Surfaces
  BY <1>1, <1>2 DEF Init, NewSurface, Surfaces
<1>4. Coherent(surf, held, callbacks, acked) /\ Awake(surf, failed)
  BY <1>3 DEF Init, NewSurface, Coherent, Awake
<1>5. Typed(failed, acked, errors, committed)
  BY <1>1 DEF Init, Typed, NothingCommitted
<1> QED BY <1>4, <1>5 DEF Init, IInv

(* Every handler preserves it. *)
LEMMA NextIInv == IInv /\ [Next]_vars => IInv'
<1> SUFFICES ASSUME IInv, [Next]_vars PROVE IInv'
  OBVIOUS
<1> USE DEF IInv
<1>a. IInvNext /\ phase' \in {"open", "over", "freed"} => IInv'
  BY DEF IInvNext, Coherent, Awake, Typed
<1>b. surf \in Surfaces
  BY DEF Coherent
<1>1. CASE AttachLock
  <2>1. phase' = phase /\ UNCHANGED <<callbacks, held, acked, committed, errors>>
    BY <1>1 DEF AttachLock
  <2>2. /\ surf' \in Surfaces /\ failed' \in BOOLEAN
        /\ surf'.framePending = surf.framePending
        /\ surf'.frameCallback = surf.frameCallback
        /\ surf'.configured = FALSE /\ surf'.buffers = surf.buffers
    <3>1. /\ surf.lock = "none" /\ surf.configured = FALSE
          /\ failed' \in BOOLEAN
      BY <1>1, <1>b DEF AttachLock, Coherent, Surfaces, Typed
    <3>2. \/ surf' = surf
          \/ surf' = [surf EXCEPT !.lock = "bound"]
          \/ surf' = [surf EXCEPT !.lock = "deaf"]
      BY <1>1 DEF AttachLock
    <3> QED BY <1>b, <3>1, <3>2 DEF Surfaces
  <2>3. Coherent(surf', held', callbacks', acked') /\ Awake(surf', failed')
    BY <2>1, <2>2 DEF Coherent, Awake
  <2> QED BY <1>a, <2>1, <2>2, <2>3 DEF IInvNext, Typed
<1>2. ASSUME NEW size \in AnySize, HandleConfigure(size) PROVE IInv'
  <2> DEFINE s == [surf EXCEPT !.size = size, !.configured = TRUE]
  <2>1. /\ s \in Surfaces /\ s.configured = TRUE /\ s.size = size
        /\ s.lock = surf.lock /\ s.buffers = surf.buffers
        /\ s.framePending = surf.framePending
        /\ s.frameCallback = surf.frameCallback
    BY <1>b DEF Surfaces
  <2>2. acked' = {size} /\ surf.lock = "bound" /\ phase' = phase
        /\ RequestRender(s, held, callbacks)
    BY <1>2 DEF HandleConfigure
  <2>3. Coherent(s, held, callbacks, acked')
    BY <2>1, <2>2 DEF Coherent
  <2>4. Typed(failed, acked', errors, committed)
    BY <2>2 DEF Typed
  <2> QED BY <1>a, <2>2, <2>3, <2>4, RequestCoherent
<1>3. ASSUME NEW factor \in Scales \cup {0}, HandleScale(factor) PROVE IInv'
  <2> DEFINE s == [surf EXCEPT !.scale = factor]
  <2>1. acked' = acked /\ phase' = phase /\ factor \in Scales
        /\ RequestRender(s, held, callbacks)
    BY <1>3 DEF HandleScale
  <2>2. /\ s \in Surfaces /\ s.configured = surf.configured
        /\ s.size = surf.size /\ s.lock = surf.lock /\ s.buffers = surf.buffers
        /\ s.framePending = surf.framePending
        /\ s.frameCallback = surf.frameCallback
    BY <1>b, <2>1 DEF Surfaces
  <2>3. Coherent(s, held, callbacks, acked')
    BY <2>1, <2>2 DEF Coherent
  <2> QED BY <1>a, <2>1, <2>3, RequestCoherent
<1>4. CASE HandleFrameDone
  <2> DEFINE s == [surf EXCEPT !.frameCallback = FALSE, !.framePending = FALSE]
  <2>1. acked' = acked /\ phase' = phase /\ callbacks > 0
        /\ RenderFrame(s, held, callbacks - 1)
    BY <1>4 DEF HandleFrameDone
  <2>2. /\ s \in Surfaces /\ s.configured = surf.configured
        /\ s.size = surf.size /\ s.lock = surf.lock /\ s.buffers = surf.buffers
        /\ s.framePending = FALSE /\ s.frameCallback = FALSE
    BY <1>b DEF Surfaces
  <2>3. callbacks - 1 = 0
    BY <2>1 DEF Coherent
  <2>4. Coherent(s, held, callbacks - 1, acked')
    BY <2>1, <2>2, <2>3 DEF Coherent
  <2>5. ~Renderable(s) => Awake(s, failed)
    BY <2>2, <2>4 DEF Renderable, Awake, Coherent
  <2> QED BY <1>a, <2>1, <2>4, <2>5, RenderCoherent
<1>5. ASSUME NEW i \in Slots, HandleRelease(i) PROVE IInv'
  <2> DEFINE s == [surf EXCEPT !.buffers[i].busy = FALSE]
             woken == s.dirty /\ ~s.framePending /\ s.configured
  <2>1. acked' = acked /\ phase' = phase
    BY <1>5 DEF HandleRelease
  <2>a. surf.buffers \in [Slots -> Buffers]
    BY <1>b DEF Surfaces
  <2>b. /\ s.buffers \in [Slots -> Buffers]
        /\ \A j \in Slots \ {i} : s.buffers[j] = surf.buffers[j]
    <3>1. s.buffers = [surf.buffers EXCEPT ![i].busy = FALSE]
      BY <1>b DEF Surfaces
    <3> HIDE DEF s
    <3>2. [surf.buffers[i] EXCEPT !.busy = FALSE] \in Buffers
      BY <2>a DEF Buffers
    <3>3. s.buffers = [surf.buffers EXCEPT ![i] = [surf.buffers[i] EXCEPT !.busy = FALSE]]
      BY <2>a, <3>1
    <3> QED BY <2>a, <3>2, <3>3
  <2>c. /\ s \in Surfaces /\ s.configured = surf.configured
        /\ s.size = surf.size /\ s.lock = surf.lock
        /\ s.framePending = surf.framePending /\ s.dirty = surf.dirty
        /\ s.frameCallback = surf.frameCallback
    BY <1>b, <2>b DEF Surfaces
  <2>2. /\ s \in Surfaces /\ s.configured = surf.configured
        /\ s.size = surf.size /\ s.lock = surf.lock
        /\ s.framePending = surf.framePending /\ s.dirty = surf.dirty
        /\ s.frameCallback = surf.frameCallback
        /\ \A j \in held \ {i} : s.buffers[j] = surf.buffers[j]
    BY <2>b, <2>c DEF Coherent
  <2>3. Coherent(s, held \ {i}, callbacks, acked')
    BY <2>1, <2>2 DEF Coherent
  <2>4. CASE woken /\ RenderFrame(s, held \ {i}, callbacks)
    <3>1. ~Renderable(s) => Awake(s, failed)
      BY <2>3, <2>4 DEF Renderable, Awake, Coherent
    <3> QED BY <1>a, <2>1, <2>3, <2>4, <3>1, RenderCoherent
  <2>5. CASE /\ ~woken
             /\ surf' = s /\ held' = held \ {i}
             /\ UNCHANGED <<callbacks, failed, committed, errors>>
    <3>1. Awake(s, failed)
      BY <2>2, <2>5 DEF Awake
    <3> QED BY <1>a, <2>1, <2>3, <2>5, <3>1 DEF IInvNext, Typed
  <2> QED BY <1>5, <2>4, <2>5 DEF HandleRelease, OnBufferRelease
<1>6. CASE UnlockDetach
  BY <1>6, <1>a, DetachCoherent DEF UnlockDetach
<1>7. CASE Destroy
  BY <1>7, <1>a, DetachCoherent DEF Destroy
<1>8. CASE UNCHANGED vars
  BY <1>8 DEF vars, Coherent, Awake, Typed
<1> QED BY <1>1, <1>2, <1>3, <1>4, <1>5, <1>6, <1>7, <1>8 DEF Next

(* The inductive invariant holds throughout. *)
LEMMA AlwaysIInv == Spec => []IInv
BY InitIInv, NextIInv, PTL DEF Spec

(* Type correctness of the surface and of the compositor's view of it. *)
THEOREM TypeCorrect == Spec => []TypeOK
<1>1. IInv => TypeOK
  BY DEF IInv, Coherent, Typed, TypeOK
<1> QED BY <1>1, AlwaysIInv, PTL

(* No order of configure, scale, frame and release events, no failure and   *)
(* no detach makes kirilock commit what the compositor must refuse.         *)
THEOREM CommitsAccepted == Spec => []NoProtocolError
<1>1. IInv => NoProtocolError
  BY DEF IInv, Typed, NoProtocolError
<1> QED BY <1>1, AlwaysIInv, PTL

(* The busy flags never lag behind the compositor. *)
THEOREM BusyWhileHeld == Spec => []HeldIsBusy
<1>1. IInv => HeldIsBusy
  BY DEF IInv, Coherent, HeldIsBusy
<1> QED BY <1>1, AlwaysIInv, PTL

(* There is one frame callback exactly while a frame is pending. *)
THEOREM SingleFrame == Spec => []OneFrameInFlight
<1>1. IInv => OneFrameInFlight
  BY DEF IInv, Coherent, OneFrameInFlight
<1> QED BY <1>1, AlwaysIInv, PTL

(* The animation loses no wakeup, whatever the number of buffers. *)
THEOREM NoLostWakeup == Spec => []NeverStalled
<1>1. IInv => NeverStalled
  BY DEF IInv, Awake, NeverStalled
<1> QED BY <1>1, AlwaysIInv, PTL

-----------------------------------------------------------------------------
(* kl_surface_render_frame writes to no buffer but the one it picked, which *)
(* is not busy.                                                             *)
LEMMA RenderKeepsBusy ==
  ASSUME NEW s, NEW h, NEW c, s \in Surfaces,
         NEW j \in Slots, s.buffers[j].busy,
         RenderFrame(s, h, c)
  PROVE  surf'.buffers[j] = s.buffers[j]
<1> s.buffers \in [Slots -> Buffers]
  BY DEF Surfaces
<1>1. CASE surf' = s \/ surf' = OutOfBuffers(s)
  BY <1>1 DEF OutOfBuffers, Surfaces
<1>2. ASSUME NEW i \in Slots, FirstFree(s, i),
             DrawInto([s EXCEPT !.current = i], h, c, i)
      PROVE  surf'.buffers[j] = s.buffers[j]
  <2> DEFINE t == [s EXCEPT !.current = i]
  <2>1. i # j
    BY <1>2 DEF FirstFree
  <2>2. t \in Surfaces /\ t.buffers = s.buffers
    BY DEF Surfaces
  <2>3. ASSUME NEW u, u \in Surfaces, u.buffers[j] = s.buffers[j],
               NEW g, Submit(u, g, c, i)
        PROVE  surf'.buffers[j] = s.buffers[j]
    <3> DEFINE sent == [u EXCEPT !.buffers[i].busy = TRUE]
    <3>1. u.buffers \in [Slots -> Buffers]
      BY <2>3 DEF Surfaces
    <3>2. sent.buffers[j] = s.buffers[j]
      BY <2>1, <2>3, <3>1 DEF Surfaces
    <3>3. surf'.buffers = sent.buffers
      BY <2>3 DEF Submit, Surfaces
    <3> QED BY <3>2, <3>3
  <2>4. CASE Submit(t, h, c, i)
    BY <2>2, <2>3, <2>4
  <2>5. CASE Submit([t EXCEPT !.buffers[i] = CreatedBuffer(t)], h \ {i}, c, i)
    <3> DEFINE u == [t EXCEPT !.buffers[i] = CreatedBuffer(t)]
    <3>1. CreatedBuffer(t) \in Buffers
      BY <2>2 DEF CreatedBuffer, Surfaces, Buffers
    <3>2. u \in Surfaces /\ u.buffers[j] = s.buffers[j]
      BY <2>1, <2>2, <3>1 DEF Surfaces
    <3> QED BY <2>3, <2>5, <3>2
  <2>6. CASE surf' = [t EXCEPT !.buffers[i] = NoBuffer]
    BY <2>1, <2>2, <2>6 DEF Surfaces
  <2> QED BY <1>2, <2>4, <2>5, <2>6 DEF DrawInto
<1> QED BY <1>1, <1>2 DEF RenderFrame

(* No handler touches a buffer while the compositor holds it. *)
THEOREM BuffersUntouched == Spec => HeldUntouched
<1> DEFINE Untouched == \A i \in held \cap held' :
                          surf'.buffers[i] = surf.buffers[i] \/ HandleRelease(i)
<1>1. ASSUME IInv, Next PROVE Untouched
  <2> SUFFICES ASSUME NEW j \in held \cap held', ~HandleRelease(j)
               PROVE  surf'.buffers[j] = surf.buffers[j]
    OBVIOUS
  <2>a. surf \in Surfaces /\ j \in Slots /\ surf.buffers[j].busy
        /\ surf.buffers \in [Slots -> Buffers]
    BY <1>1 DEF IInv, Coherent, Surfaces
  <2>b. ASSUME NEW s, s \in Surfaces, s.buffers = surf.buffers,
               NEW c, NEW h, RequestRender(s, h, c)
        PROVE  surf'.buffers[j] = surf.buffers[j]
    <3> DEFINE t == [s EXCEPT !.dirty = TRUE]
    <3>1. t \in Surfaces /\ t.buffers = s.buffers
      BY <2>b DEF Surfaces
    <3>2. RenderFrame(t, h, c)
      BY <2>b DEF RequestRender
    <3>3. t.buffers[j].busy
      BY <2>a, <2>b, <3>1
    <3> HIDE DEF t
    <3>4. surf'.buffers[j] = t.buffers[j]
      BY <2>a, <3>1, <3>2, <3>3, RenderKeepsBusy
    <3> QED BY <2>b, <3>1, <3>4
  <2>1. CASE AttachLock
    BY <2>1, <2>a DEF AttachLock, Surfaces
  <2>2. ASSUME NEW size \in AnySize, HandleConfigure(size)
        PROVE  surf'.buffers[j] = surf.buffers[j]
    <3> DEFINE s == [surf EXCEPT !.size = size, !.configured = TRUE]
    <3>1. s \in Surfaces /\ s.buffers = surf.buffers
      BY <2>a DEF Surfaces
    <3> QED BY <2>2, <2>b, <3>1 DEF HandleConfigure
  <2>3. ASSUME NEW factor \in Scales \cup {0}, HandleScale(factor)
        PROVE  surf'.buffers[j] = surf.buffers[j]
    <3> DEFINE s == [surf EXCEPT !.scale = factor]
    <3>1. s \in Surfaces /\ s.buffers = surf.buffers
      BY <2>a, <2>3 DEF Surfaces, HandleScale
    <3> QED BY <2>3, <2>b, <3>1 DEF HandleScale
  <2>4. CASE HandleFrameDone
    <3> DEFINE s == [surf EXCEPT !.frameCallback = FALSE, !.framePending = FALSE]
    <3>1. s \in Surfaces /\ s.buffers = surf.buffers
      BY <2>a DEF Surfaces
    <3>2. RenderFrame(s, held, callbacks - 1)
      BY <2>4 DEF HandleFrameDone
    <3>3. s.buffers[j].busy
      BY <2>a, <3>1
    <3> HIDE DEF s
    <3>4. surf'.buffers[j] = s.buffers[j]
      BY <2>a, <3>1, <3>2, <3>3, RenderKeepsBusy
    <3> QED BY <3>1, <3>4
  <2>5. ASSUME NEW i \in Slots, HandleRelease(i)
        PROVE  surf'.buffers[j] = surf.buffers[j]
    <3> DEFINE s == [surf EXCEPT !.buffers[i].busy = FALSE]
    <3>1. i # j
      BY <2>5
    <3>a. surf \in Surfaces /\ surf.buffers \in [Slots -> Buffers]
      BY <2>a
    <3>b. /\ s.buffers \in [Slots -> Buffers]
          /\ \A k \in Slots \ {i} : s.buffers[k] = surf.buffers[k]
      <4>1. s.buffers = [surf.buffers EXCEPT ![i].busy = FALSE]
        BY <3>a DEF Surfaces
      <4> HIDE DEF s
      <4> QED BY <3>a, <4>1 DEF Buffers
    <3>2. s.buffers \in [Slots -> Buffers] /\ s.buffers[j] = surf.buffers[j]
      BY <2>a, <3>1, <3>b
    <3>3. s \in Surfaces
      BY <2>a, <3>2 DEF Surfaces
    <3>4. surf' = s \/ RenderFrame(s, held \ {i}, callbacks)
      BY <2>5 DEF HandleRelease, OnBufferRelease
    <3> QED BY <2>a, <3>2, <3>3, <3>4, RenderKeepsBusy
  <2>6. CASE UnlockDetach \/ Destroy
    BY <2>6 DEF UnlockDetach, Destroy, Detach
  <2> QED BY <1>1, <2>1, <2>2, <2>3, <2>4, <2>5, <2>6 DEF Next
<1>2. IInv /\ [Next]_vars => [Untouched]_vars
  BY <1>1
<1> QED BY <1>2, AlwaysIInv, PTL DEF Spec, HeldUntouched
=============================================================================
