----------------------------- MODULE LockSurface -----------------------------
(***************************************************************************)
(* One lock surface of kirilock: struct kl_surface (surface.c) with its    *)
(* pool of shared-memory buffers (buffer.c), driven by the events that the *)
(* compositor delivers to it.                                              *)
(*                                                                         *)
(* Every handler of surface.c runs to completion inside one dispatch of    *)
(* the Wayland queue, so each handler is one action and the interleaving   *)
(* is the order in which events arrive.  The compositor is external: it    *)
(* holds each committed buffer until it releases it, answers each frame    *)
(* request once, and configures and rescales the surface whenever it likes.*)
(* Events for destroyed proxies are dropped by libwayland, hence a handler *)
(* is enabled only while the object it listens on exists.                  *)
(***************************************************************************)
EXTENDS Integers

CONSTANTS
  BufferCount,  \* KL_SURFACE_BUFFER_COUNT (surface.h)
  Sizes,        \* the width x height pairs a configure event can carry
  NoSize,       \* a pair with a zero in it, for which nothing is drawn
  Scales,       \* the scale factors of the output
  MayFail       \* whether allocations and proxy creations can fail

ASSUME BufferCountAssumption == BufferCount \in Nat \ {0}
ASSUME SizesAssumption == NoSize \notin Sizes
ASSUME ScalesAssumption == Scales \subseteq Nat \ {0} /\ 1 \in Scales
ASSUME MayFailAssumption == MayFail \in BOOLEAN

VARIABLES
  surf,       \* the fields of struct kl_surface
  phase,      \* "open", "over" once the session was unlocked, "freed"
  callbacks,  \* live wl_callback proxies that listen for a frame
  failed,     \* some allocation or proxy creation has failed
  held,       \* external: the slots whose wl_buffer the compositor holds
  acked,      \* external: {} or {the size of the last acked configure}
  committed,  \* external: the content of the last commit
  errors      \* external: the protocol errors the commits have raised

vars == <<surf, phase, callbacks, failed, held, acked, committed, errors>>

Slots == 0 .. BufferCount - 1

AnySize == Sizes \cup {NoSize}

Buffers == [wl : BOOLEAN, size : AnySize, scale : Scales \cup {0}, busy : BOOLEAN]

Surfaces == [lock : {"none", "deaf", "bound"}, configured : BOOLEAN,
             framePending : BOOLEAN, frameCallback : BOOLEAN, dirty : BOOLEAN,
             size : AnySize, scale : Scales, current : Slots,
             buffers : [Slots -> Buffers]]

NothingCommitted == [slot |-> 0, size |-> NoSize, scale |-> 1]

(* kl_buffer_destroy: the slot after its wl_buffer is gone. *)
NoBuffer == [wl |-> FALSE, size |-> NoSize, scale |-> 1, busy |-> FALSE]

(* kl_surface_create: calloc leaves every buffer zeroed, its scale too. *)
NewSurface ==
  [lock |-> "none", configured |-> FALSE, framePending |-> FALSE,
   frameCallback |-> FALSE, dirty |-> TRUE, size |-> NoSize, scale |-> 1,
   current |-> 0, buffers |-> [i \in Slots |-> [NoBuffer EXCEPT !.scale = 0]]]

Init ==
  /\ surf = NewSurface
  /\ phase = "open"
  /\ callbacks = 0
  /\ failed = FALSE
  /\ held = {}
  /\ acked = {}
  /\ committed = NothingCommitted
  /\ errors = {}

-----------------------------------------------------------------------------
(***************************************************************************)
(* Rendering.  The operators take the surface s, the held slots h and the  *)
(* number of callbacks c as they are when the handler calls                *)
(* kl_surface_render_frame.                                                *)
(***************************************************************************)

Mut_Renderable(s) == s.configured /\ s.lock # "none" /\ s.size # NoSize

(* The two early returns of kl_surface_render_frame. *)
Renderable(s) ==
  s.configured /\ ~s.framePending /\ s.lock # "none" /\ s.size # NoSize

Mut_FirstFree(s, i) == i = (s.current + 1) % BufferCount

(* kl_surface_get_free_buffer returns slot i: it is the first free one in   *)
(* the round-robin order that starts after the current buffer.              *)
FirstFree(s, i) ==
  \E n \in Slots :
    /\ i = (s.current + 1 + n) % BufferCount
    /\ ~s.buffers[i].busy
    /\ \A m \in 0 .. n - 1 : s.buffers[(s.current + 1 + m) % BufferCount].busy

Mut_Fits(s, i) == LET b == s.buffers[i] IN b.wl /\ b.size = s.size

(* Whether the wl_buffer of slot i can be reused as it is. *)
Fits(s, i) ==
  LET b == s.buffers[i] IN b.wl /\ b.size = s.size /\ b.scale = s.scale

(* A successful kl_buffer_create for the surface's size and scale. *)
CreatedBuffer(s) ==
  [wl |-> TRUE, size |-> s.size, scale |-> s.scale, busy |-> FALSE]

(* External: what the compositor checks when buffer b is committed with the *)
(* surface's scale (enum ext_session_lock_surface_v1_error).  A configure   *)
(* handler acks before it commits, hence acked'.                            *)
CommitErrors(s, b) ==
  {e \in {"commit_before_first_ack", "null_buffer", "dimensions_mismatch"} :
     \/ e = "commit_before_first_ack" /\ acked' = {}
     \/ e = "null_buffer" /\ ~b.wl
     \/ e = "dimensions_mismatch" /\ ~(b.scale = s.scale /\ acked' = {b.size})}

Mut_Submit(s, h, c, i) ==
  LET b == s.buffers[i]
  IN /\ held' = h \cup {i}
     /\ committed' = [slot |-> i, size |-> b.size, scale |-> b.scale]
     /\ errors' = errors \cup CommitErrors(s, b)
     /\ surf' = [s EXCEPT !.framePending = TRUE, !.frameCallback = TRUE,
                          !.dirty = FALSE]
     /\ callbacks' = c + 1
     /\ UNCHANGED failed

(* The end of kl_surface_render_frame, from buf->busy = 1 on: attach, ask   *)
(* for a frame callback, commit.  Without the callback the commit is still  *)
(* made but dirty keeps its value.                                          *)
Submit(s, h, c, i) ==
  LET b    == s.buffers[i]
      sent == [s EXCEPT !.buffers[i].busy = TRUE]
  IN /\ held' = h \cup {i}
     /\ committed' = [slot |-> i, size |-> b.size, scale |-> b.scale]
     /\ errors' = errors \cup CommitErrors(s, b)
     /\ \/ /\ surf' = [sent EXCEPT !.framePending = TRUE,
                                   !.frameCallback = TRUE,
                                   !.dirty = FALSE]
           /\ callbacks' = c + 1
           /\ UNCHANGED failed
        \/ /\ MayFail
           /\ surf' = [sent EXCEPT !.framePending = FALSE,
                                   !.frameCallback = FALSE]
           /\ callbacks' = c
           /\ failed' = TRUE

(* kl_surface_render_frame once slot i was chosen: a buffer that does not   *)
(* fit is destroyed and created anew, and a failed creation gives up with   *)
(* the slot empty.                                                          *)
DrawInto(s, h, c, i) ==
  \/ /\ Fits(s, i)
     /\ Submit(s, h, c, i)
  \/ /\ ~Fits(s, i)
     /\ Submit([s EXCEPT !.buffers[i] = CreatedBuffer(s)], h \ {i}, c, i)
  \/ /\ ~Fits(s, i)
     /\ MayFail
     /\ surf' = [s EXCEPT !.buffers[i] = NoBuffer]
     /\ held' = h \ {i}
     /\ callbacks' = c
     /\ failed' = TRUE
     /\ UNCHANGED <<committed, errors>>

Mut_OutOfBuffers(s) == [s EXCEPT !.dirty = FALSE]

(* kl_surface_render_frame with no free buffer: remember to try again. *)
OutOfBuffers(s) == [s EXCEPT !.dirty = TRUE]

RenderFrame(s, h, c) ==
  \/ /\ ~Renderable(s)
     /\ surf' = s /\ held' = h /\ callbacks' = c
     /\ UNCHANGED <<failed, committed, errors>>
  \/ /\ Renderable(s)
     /\ \A i \in Slots : s.buffers[i].busy
     /\ surf' = OutOfBuffers(s) /\ held' = h /\ callbacks' = c
     /\ UNCHANGED <<failed, committed, errors>>
  \/ /\ Renderable(s)
     /\ \E i \in Slots :
          FirstFree(s, i) /\ DrawInto([s EXCEPT !.current = i], h, c, i)

(* kl_surface_request_render: its guard repeats what render_frame returns   *)
(* on, so it is the marking as dirty followed by the rendering.             *)
RequestRender(s, h, c) == RenderFrame([s EXCEPT !.dirty = TRUE], h, c)

-----------------------------------------------------------------------------
(***************************************************************************)
(* The handlers.                                                           *)
(***************************************************************************)

(* kl_surface_attach_lock.  Creating either object can fail and leaves the  *)
(* surface as it was; failing to listen leaves a lock surface that never    *)
(* hears a configure event.                                                 *)
AttachLock ==
  /\ phase = "open"
  /\ surf.lock = "none"
  /\ \/ surf' = [surf EXCEPT !.lock = "bound"] /\ UNCHANGED failed
     \/ MayFail /\ surf' = [surf EXCEPT !.lock = "deaf"] /\ failed' = TRUE
     \/ MayFail /\ surf' = surf /\ failed' = TRUE
  /\ UNCHANGED <<phase, callbacks, held, acked, committed, errors>>

(* kl_lock_surface_handle_configure *)
HandleConfigure(size) ==
  /\ surf.lock = "bound"
  /\ acked' = {size}
  /\ RequestRender([surf EXCEPT !.size = size, !.configured = TRUE],
                   held, callbacks)
  /\ UNCHANGED phase

Mut_HandleScale(factor) ==
  /\ UNCHANGED <<phase, acked>>
  /\ phase # "freed"
  /\ factor # surf.scale
  /\ RequestRender([surf EXCEPT !.scale = factor], held, callbacks)

(* kl_output_handle_scale *)
HandleScale(factor) ==
  /\ UNCHANGED <<phase, acked>>
  /\ phase # "freed"
  /\ factor > 0 /\ factor # surf.scale
  /\ RequestRender([surf EXCEPT !.scale = factor], held, callbacks)

(* kl_surface_frame_handle_done *)
HandleFrameDone ==
  /\ UNCHANGED <<phase, acked>>
  /\ callbacks > 0
  /\ RenderFrame([surf EXCEPT !.frameCallback = FALSE, !.framePending = FALSE],
                 held, callbacks - 1)

(* kl_surface_on_buffer_release, the on_release callback of every buffer *)
OnBufferRelease(s, h) ==
  \/ /\ s.dirty /\ ~s.framePending /\ s.configured
     /\ RenderFrame(s, h, callbacks)
  \/ /\ ~(s.dirty /\ ~s.framePending /\ s.configured)
     /\ surf' = s /\ held' = h
     /\ UNCHANGED <<callbacks, failed, committed, errors>>

Mut_HandleRelease(i) ==
  /\ i \in held
  /\ surf' = [surf EXCEPT !.buffers[i].busy = FALSE]
  /\ held' = held \ {i}
  /\ UNCHANGED <<phase, callbacks, failed, acked, committed, errors>>

(* kl_buffer_handle_release, which calls on_release *)
HandleRelease(i) ==
  /\ UNCHANGED <<phase, acked>>
  /\ i \in held
  /\ OnBufferRelease([surf EXCEPT !.buffers[i].busy = FALSE], held \ {i})

Mut_Detach ==
  /\ surf' = [surf EXCEPT !.lock = "none", !.configured = FALSE,
                          !.framePending = FALSE, !.frameCallback = FALSE,
                          !.dirty = TRUE, !.size = NoSize, !.current = 0,
                          !.buffers = [i \in Slots |-> NoBuffer]]
  /\ held' = {} /\ acked' = {} /\ committed' = NothingCommitted
  /\ UNCHANGED <<callbacks, failed, errors>>

(* kl_surface_detach_lock: the callback, the buffers and both surface       *)
(* objects are destroyed and every field but the scale is reset.            *)
Detach ==
  /\ surf' = [surf EXCEPT !.lock = "none", !.configured = FALSE,
                          !.framePending = FALSE, !.frameCallback = FALSE,
                          !.dirty = TRUE, !.size = NoSize, !.current = 0,
                          !.buffers = [i \in Slots |-> NoBuffer]]
  /\ callbacks' = IF surf.frameCallback THEN callbacks - 1 ELSE callbacks
  /\ held' = {} /\ acked' = {} /\ committed' = NothingCommitted
  /\ UNCHANGED <<failed, errors>>

(* kl_context_unlock_session detaches every surface; it never locks again. *)
UnlockDetach == phase = "open" /\ Detach /\ phase' = "over"

(* kl_surface_destroy: on output removal and when the context is destroyed. *)
Destroy == phase # "freed" /\ Detach /\ phase' = "freed"

Next ==
  \/ AttachLock
  \/ \E size \in AnySize : HandleConfigure(size)
  \/ \E factor \in Scales \cup {0} : HandleScale(factor)
  \/ HandleFrameDone
  \/ \E i \in Slots : HandleRelease(i)
  \/ UnlockDetach
  \/ Destroy

Spec == Init /\ [][Next]_vars

(* The compositor presents every frame and returns every buffer it no       *)
(* longer shows; nothing forces it to return the one on screen, to          *)
(* configure or to rescale.                                                 *)
ReleaseOffScreen(i) == i # committed.slot /\ HandleRelease(i)

Fairness ==
  /\ WF_vars(HandleFrameDone)
  /\ \A i \in Slots : WF_vars(ReleaseOffScreen(i))

FairSpec == Spec /\ Fairness

-----------------------------------------------------------------------------
(***************************************************************************)
(* Properties.                                                             *)
(***************************************************************************)

(* Type invariant of the surface and of the compositor's view of it. *)
TypeOK ==
  /\ surf \in Surfaces
  /\ phase \in {"open", "over", "freed"}
  /\ callbacks \in Nat
  /\ failed \in BOOLEAN
  /\ held \subseteq Slots
  /\ acked \subseteq AnySize
  /\ committed \in [slot : Slots, size : AnySize, scale : Scales]
  /\ errors \subseteq {"commit_before_first_ack", "null_buffer",
                       "dimensions_mismatch"}

(* No sequence of configure, scale, frame and release events makes          *)
(* kl_surface_render_frame commit before the first ack, without a buffer or *)
(* with a buffer whose logical size differs from the acked one.             *)
NoProtocolError == errors = {}

(* The busy flags never lag behind the compositor: a slot whose wl_buffer   *)
(* the compositor holds has a buffer and is marked busy, so that            *)
(* kl_surface_get_free_buffer cannot hand it out.                           *)
HeldIsBusy == \A i \in held : surf.buffers[i].wl /\ surf.buffers[i].busy

(* While the compositor holds a buffer, no handler touches it: it is        *)
(* neither destroyed, nor replaced, nor resized, until it is released (the  *)
(* release handler may commit the same slot again at once) or the whole     *)
(* surface is detached.                                                     *)
HeldUntouched ==
  [][\A i \in held \cap held' :
       surf'.buffers[i] = surf.buffers[i] \/ HandleRelease(i)]_vars

(* The vsync loop has one outstanding frame callback exactly while          *)
(* frame_pending is set, whatever the order of the events: no frame is      *)
(* requested twice and no callback outlives the surface it points to.       *)
OneFrameInFlight == callbacks = (IF surf.framePending THEN 1 ELSE 0)

(* No lost wakeup: unless an allocation has failed, a surface that could be *)
(* drawn is waiting for a frame callback, or has run out of buffers and     *)
(* remembers (dirty) to draw when the next one is released.  Nothing else   *)
(* would ever wake the surface or the main loop, whose timeout is -1.       *)
NeverStalled ==
  surf.lock = "bound" /\ surf.configured /\ surf.size # NoSize /\ ~failed
    => surf.framePending \/ (surf.dirty /\ \A i \in Slots : surf.buffers[i].busy)

(* The latest configuration reaches the screen: a surface configured with a *)
(* drawable size ends up showing a buffer of that size and of the output's  *)
(* scale, unless another event changes either, the surface is detached or   *)
(* an allocation fails.                                                     *)
ConfigurationShown ==
  \A size \in Sizes, scale \in Scales :
    (surf.configured /\ surf.size = size /\ surf.scale = scale)
      ~> \/ committed.size = size /\ committed.scale = scale
         \/ ~(surf.configured /\ surf.size = size /\ surf.scale = scale)
         \/ failed
=============================================================================
