# kirilock: a TLA+ verification project

kirilock is a screen locker for Wayland compositors that speak
`ext-session-lock-v1`. The repository holds the locker itself (`src/`, one
thread of C), an authentication library (`libs/auth/`, C++ with threads and
child processes), and an earlier C version of that library (`auth.back/`). The
locker does not call the library yet: it locks the session, draws an animation
on every output, and unlocks after five seconds. What uses the library is its
example program, a coordinator of a password and a fingerprint.

This directory holds TLA+ models of those parts, TLC configurations that check
them on small instances, and TLAPS proofs that every safety property those runs
find to hold is true for all values of the constants. Paths below are relative to the repository's root.
`PROJECT.json` lists components, runs, source lines of every definition,
hazards, findings and theorems in machine-readable form.

## 1. Inventory

| Component | Source | State | Operations | Module |
|---|---|---|---|---|
| Lock surface and buffer pool | `src/surface.c`, `src/buffer.c` | `struct kl_surface` (lock surface, size, scale, `is_configured`, `frame_pending`, `frame_callback`, `dirty`, current buffer) and three `struct kl_buffer` (`busy`, size, scale) | create, attach, configure, scale, frame done, buffer release, render, detach, destroy | `LockSurface`; one slot in detail: `FrameMemory` |
| Session lock context | `src/lock.c` | `struct kl_context`: globals, list of surfaces, lock object, `is_locked`, `is_finished`, `failed` | registry and lock handlers, init, lock, unlock, destroy | `SessionLock` |
| Main loop | `src/main.c` | start time, epoll instance | deadline, prepare/flush/wait/read/dispatch, exit path | `SessionLock` |
| Compositor (external) | `include/protocols/session-lock.h` | lock object, events sent, outputs covered | serves requests, answers or finishes the lock, plugs outputs, sends surface events, disconnects | `SessionLock`, `LockSurface` |
| Password verifier | `libs/auth/src/password.cpp` | `is_running_`, `active_pam_pid_` (atomics), `candidate_` (unprotected), a worker thread, a PAM child | `verify`, `stop`, destructor, `run_worker`, `cleanup` | `Password` |
| Fingerprint verifier | `libs/auth/src/fingerprint.cpp` | `is_running_`, `check_in_progress_`, a cancel pipe, a worker thread on sd-bus | `start`, `stop`, `signal_cb`, `run_worker`, destructor | `Fingerprint` |
| Coordinator | `libs/auth/example/main.cpp` | both verifiers, `authenticated`, `g_interrupted`, `pass_buf` | handlers that stop the other verifier, input loop, leaving | `AuthCoordinator`, on `Verifier` |
| Earlier C library | `auth.back/` | as above | as above | its coordinator is an edition of `AuthCoordinator`; its verifiers are not modelled again |
| Render engine | `src/render.c` | the cached texture and its scale | ensure, draw, destroy | `FrameMemory` |

How the parts interact. `main` drives `kl_context`; `kl_context` owns one
`kl_surface` per output and calls attach, detach and destroy on it; libwayland
calls the handlers of both, always from the one thread, one event at a time. The
only concurrency of the locker is therefore between that thread and the
compositor: requests and events are queued both ways, and decisions on either
side are taken on what has arrived so far. In the library concurrency is real:
the owner's thread, the worker of each verifier and any thread that calls
`stop()` share atomics, and `candidate_` is shared without them.

What is hard, and what makes each part correct:

* **Surface.** Four kinds of events may each render, in any order, with three
  buffers the compositor returns when it likes. Correct means: each commit is
  one the protocol accepts, a buffer the compositor reads is never written,
  there is exactly one animation loop, and it never stops by itself.
* **Context and main loop.** `locked` and `finished` race with the client's own
  decisions, outputs come and go at any moment, the compositor may die, and
  `epoll_wait` has no timeout. Correct means: the lock is ended with the request
  that fits what was sent, not early, not left behind at exit, and every output
  is covered.
* **Password.** `stop()` can fall between any two steps of the worker and of
  `verify()`. Correct means: a verdict belongs to its round, a stopped worker
  ends, and the password does not outlive its round.
* **Fingerprint.** Signals outlive the check they were sent in, and three parties
  end the same check. Correct means: a check ends once, the sensor is not left
  scanning, a match is not lost.
* **Coordinator.** Handlers of two workers, the main thread and a signal decide
  together when the program ends. Correct means: it ends, it denies access only
  for a reason, and no handler uses what was destroyed.
* **Frame memory.** Six acquisitions in a row, each of which may fail, and sizes
  that wrap around. Correct means: nothing leaks, nothing is freed twice, nothing
  is drawn outside the mapping.

How the modules fit together. `ScreenLock` and `Verifier` are abstract:
`SessionLock` implements the first, `Password` and `Fingerprint` the second, and
`AuthCoordinator` is built on two instances of `Verifier` instead of the classes,
which keeps its state space small. `FrameMemory` opens up the step that
`LockSurface` takes as one (the creation of a buffer), as `LockSurface` opens up
the ticks of `SessionLock`. The theorems about module `M` and their proofs are in
`MProofs`, for each of the six concrete modules.

## 2. Modules

### LockSurface

`surf` is `struct kl_surface` with its buffers; `callbacks` counts live frame
callback proxies, `failed` records that an allocation failed; `held`, `acked`,
`committed` and `errors` are the compositor's view. Each handler of `surface.c`
runs to completion inside one dispatch, so it is one action and includes the
rendering it ends with:

| Action | Code |
|---|---|
| `AttachLock` | `kl_surface_attach_lock` |
| `HandleConfigure` | `kl_lock_surface_handle_configure` |
| `HandleScale` | `kl_output_handle_scale` |
| `HandleFrameDone` | `kl_surface_frame_handle_done` |
| `HandleRelease`, `OnBufferRelease` | `kl_buffer_handle_release`, `kl_surface_on_buffer_release` |
| `UnlockDetach`, `Destroy` | `kl_surface_detach_lock`, `kl_surface_destroy` |

`RenderFrame`, `DrawInto`, `Submit`, `FirstFree` and `Fits` are
`kl_surface_render_frame` and `kl_surface_get_free_buffer` cut at their branches.
They take the surface as the calling handler has left it. Abstracted: pixels and
clocks; a size is an opaque width and height pair, `NoSize` stands for pairs
with a zero; `kl_buffer_create` succeeds or fails as a whole.

### SessionLock

`ctx` is `struct kl_context`; `pc` is the function of `main.c` or `lock.c` the
client is in and `turn` the stage of a blocking call; `wire` and `events` are the
two directions of the connection. `ReadEvents`, `Dispatch` and `KeepWaiting` are
what libwayland does inside `wl_display_dispatch`, `wl_display_roundtrip` and the
epoll loop: read a prefix of what has arrived, dispatch it event by event, test
the loop's condition. The other client actions are the stretches of code between
two blocking calls. The compositor's actions are external: they do what the
comments of `include/protocols/session-lock.h` allow, and `Refuse` is a protocol
error, after which the client is disconnected. `Interrupted` and `WaitFails` are
the two ways `epoll_wait` returns without events; a bind that fails sets `failed`
(`HandleCore`, `HandleOutputs`).

A surface's own events (configure, frame, release) appear here as `Tick`, since
only that they wake the loop matters; what they do is `LockSurface`. Outputs
announced together travel in one message. The wire has no capacity: a partial
flush (`EAGAIN`) is not modelled.

### ScreenLock

What kirilock promises of a session, without a protocol: it is locked at most
once, unlocked only when a reason has come up, and not left locked by a process
that has exited, unless the connection was lost through no error of the process.
The mapping in `SessionLock` reads the session off the compositor (`comp.holds`,
`comp.sentLocked`), the reason off `expired` and `mishap`, and the owner off `pc`.
So the refinement says that what the compositor has done, not what the client
believes, is right.

### FrameMemory

One slot of a surface's pool and the render engine, over any number of frames.
`RenderFrame` decides whether the slot fits and otherwise empties it; the
`Create...` actions are the calls of `kl_buffer_create`, each with its success and
its error path; `DrawCached` and the `Bake...` actions are
`kl_render_ensure_baked_surface`. `ledger` counts what is held of each kind, so
that a leak is a count that is too high and a double release one below zero.
Arithmetic has the widths of the build: products of `uint32_t` are taken modulo
`Word`, the number of their values, conversions to `int32_t` wrap, and `size_t`
has as many values or more (`SizeWords`, one of which is chosen in `Init`). The
constants are the moduli and not the widths in bits because nothing in the
argument needs a power of two.

### Verifier

The public face of both classes: a running flag, a worker thread, and an owner
who launches and deletes. `OneShot` tells them apart: `Password::verify()` raises
the flag before it joins the previous worker and its worker lowers it,
`Fingerprint::start()` joins first and its worker leaves the flag alone.
`Fairness` is the part of the promise that the coordinator needs to terminate: a
worker whose flag is down ends whatever PAM or the sensor do. Its conditions are
state predicates where one would usually write WF, because ENABLED does not
commute with the substitution of a refinement mapping.

### Password

One action per access to an atomic and per system call. `main`, `worker` and
`stops` say where the owner is in `verify()` or the destructor, the worker in
`run_worker()`, and each thread in `stop()`. A round is one accepted `verify()`;
the process id of its child is its number. `child` holds the external child
processes, `ChildAnswers` is PAM; `past` and `main.eager` are history. `eager`
says that some `verify()` began while a worker or a `stop()` was under way: what
holds only without that names it. The on_finish handler may call `stop()` from
the worker, as the coordinator does (`WorkerReports`). The destructor waits for the
worker and not for a `stop()` in another thread, so a `stop()` may begin or go on
after it: `DestroyedInert` says what such a call finds.

### Fingerprint

One action per access to an atomic, per bus call and per handler. `main`, `worker`
and `spc` say where the owner is in `start()` or the destructor, the worker in
`run_worker()` and its signal callback, and each thread in `stop()`; the worker is
one of those threads, because a handler may call `stop()` (`HandlerMayStop`). A
session is one accepted `start()`, a check one successful `VerifyStart`. `service`
is fprintd and the bus, external: `Emit` sends a `VerifyStatus` signal while the
sensor scans, and the signal stays in the connection's queue until
`sd_bus_process` dispatches it, whatever the client has started or stopped since.
A signal is a match or some other result, and `done` is its second argument.
`VerifyStart` may fail with or without having started the sensor (a reply that
comes too late), and a `VerifyStop` that fails leaves it on, since nobody looks at
the result; `past.broken` records both. `past` and `main.late` are history. The
destructor runs when no other thread is in `stop()`, which
`AuthCoordinator!LateStopHarmless` shows of the program.

### AuthCoordinator

`pw` and `fp` are two `Verifier`s; every step of theirs is taken by the thread that
takes it in the program: `start()` and `verify()` step in the main thread
(`StartSteps`, `VerifySteps`), `Finish`, `Return` and `Exit` in the workers, `Stop`
in whoever calls it. The handlers are cut at the exchange of `authenticated` and
at each `stop()`, which is itself two steps: it takes the flag, and the thread may
be held up before the rest ("amid"), for as long as it takes the main thread to
destroy the object. `Leaving` lists what is done after the loop, in order: the C++
program stops both, reports and destroys `pw` and then `fp` (reverse order of
declaration, lines 85 and 86), the C program (`Edition = "c"`) deletes `fp`, then
`pw`, then reports. `pass_buf` is its length.

## 3. Runs

| Run | Bounds | Checks |
|---|---|---|
| `surface` | 3 buffers, 2 sizes and `NoSize`, scales 1 and 2, failures | `TypeOK`, `NoProtocolError`, `HeldIsBusy`, `OneFrameInFlight`, `NeverStalled`, `HeldUntouched`, `ConfigurationShown` |
| `frame_memory` | 10-bit words, `size_t` of 10 or 20 bits, 5 widths, 3 heights, 3 scales, every call may fail | `TypeOK`, `AllOrNothing`, `DrawsInside`, `SentExact`, `MadeForThisFrame` |
| `session` | 2 outputs, failures everywhere, disconnection, lock taken back | `TypeOK`, `EverySurfaceAttached`, `UnlockedWhenDue` |
| `session_orderly` | 2 outputs, failures but in `lock_session`, disconnection, a granted lock is kept | `NoProtocolError`, `IsScreenLock`, `LeavingEnds`, `DeadlineNoticed`, `OutputsCovered` |
| `session_taken_back` | 1 output, lock taken back | `NoProtocolError`: violated |
| `session_deaf` | 1 output, lock taken back | `FinishedGivenUp`: violated |
| `password` | 2 rounds, 2 stopping threads, failures, PAM may hang | `TypeOK`, `FinishMeansRight`, `CandidateWiped`, `PublishedIsMine`, `DestroyedInert`, `AnsweredOrStopped`, `DeniedByPam`, `VerifyReturns`, `IsVerifier` |
| `password_eager` | 2 rounds, 1 stopping thread, PAM may hang | `StopEnds`: violated |
| `fingerprint` | 2 sessions, 1 stopping thread beside owner and worker, 2 queued signals, failures | `TypeOK`, `EndOncePerCheck`, `DeviceLeftIdle`, `SignalOfThisCheck`, `MatchReported`, `IsVerifier` |
| `coordinator` | with and without a sensor, inputs of up to 2 characters, any number of passwords | `TypeOK`, `DeniedForReason`, `LateStopHarmless`, `LeavingEnds`, `SuccessEnds` |
| `coordinator_no_sensor` | no sensor | `PasswordOffered`: violated |
| `coordinator_back` | the C edition, with a sensor | `NoCallAfterDelete`: violated |

Why the bounds are enough. Three buffers is `KL_SURFACE_BUFFER_COUNT`, not a
bound. Two sizes and two scales make every "the buffer is stale in size, in
scale, in both" case; the proofs remove the bound anyway. Two outputs allow one
to be attached while another is plugged in or out; each name is used once, as
in Wayland, so two names also bound the number of hot-plug events. At most one
surface event is queued at a time, since a second would only wake a loop that is
awake. Two rounds are needed for a late step of one round to meet the next; two
stopping threads allow two calls to race, plus the owner's own. A third round
would repeat the second, because everything a round leaves behind is either the
two atomics and `candidate_` or a delayed `stop()`, and those meet round two
already. For the same reason two sessions suffice in `Fingerprint`; the number of
checks in a session is not bounded, and two queued signals are one that is about
to be dispatched and one that may outlive its check.

In `FrameMemory` the words are small so that the edges are reached: among the
widths are one whose product with a scale wraps to a small number, one that wraps
to zero, one that becomes negative as an `int`, and the heights reach past
`SIZE_MAX / stride` on the narrow build. Any two geometries may follow each other.
In `AuthCoordinator` nothing but the input length is bounded: two characters give
an empty, a partial and a full buffer.

`Fingerprint` and `Password` differ where they are alike in the code: `start()`
joins the stopped worker before it sets `is_running_` again, `verify()` sets it
first. That a stopped worker ends therefore holds of `Fingerprint` without any
condition on the caller, and of `Password` only while the flag stays down, which
is the condition in `Verifier`'s fairness; `StopEnds` without it is finding 3. What
a `start()` that overtakes a `stop()` does meet, in `Fingerprint`, is the late
second half of that `stop()`: it leaves a byte in the pipe and ends the new
session's check. `SelectSleeps` and `SignalOfThisCheck` name that condition
(`late`), and `SignalOfThisCheck` a second one, since a stopped session leaves its
undispatched signals to the next. `AnsweredOrStopped` and `DeniedByPam` name the
corresponding condition of `Password` (`eager`).

Fairness, where liveness is checked:

* `LockSurface`: the compositor presents every frame and returns each buffer
  that is no longer on screen. It need not return the buffer on screen, nor
  configure or rescale.
* `SessionLock`: the client runs when it can; the compositor reads requests,
  answers the lock request one way or the other, and sends frame events to the
  surfaces of a lock it honours. That last clause is what `DeadlineNoticed` rests
  on, since nothing else wakes the loop; for the same reason the property gives
  up when no output is covered.
* `Password`: threads run. Nobody is obliged to call anything, and PAM may hang for
  ever; `VerifyReturns`, which cannot hold then, states its assumption on PAM in
  the property.
* `Fingerprint`: threads run, bus calls return (sd-bus gives each a timeout) and so
  do handlers. No finger need ever touch the sensor.
* `AuthCoordinator`: threads run, handlers proceed, a worker without a sensor
  reports that, and the verifiers keep the promise they were shown to keep.
  `SuccessEnds` states the assumption that PAM answers; `LeavingEnds` does
  without it, since the stops before the destructors leave nothing to wait for.

All runs but `surface` also check deadlock, with the exited process, the deleted
object and the destroyed frame memory as the only states that stutter. A
destroyed surface has no next step, so `surface` does not check deadlock.

Two constants exclude behaviours the code does not handle. `FinishAfterLocked`
is what `session_taken_back` and `session_deaf` are about. `LockMayFail` lets
`kl_context_lock_session` fail for one output after it wrote the lock request:
the client then sends `destroy` although `locked` may be on its way, the same
protocol error by another path, after which the session stays locked. The run
`session` includes this failure, the run `session_orderly` excludes it: with
`LockMayFail = TRUE` in its configuration TLC finds `NoProtocolError` and
`IsScreenLock` violated. No run of its own is kept for it.

Two properties are about what a failed call leaves behind only up to that call.
`NeverStalled` excludes runs in which an allocation failed, `DeviceLeftIdle` runs in
which a bus call failed: after those the surface does stop until the next event,
and the sensor does stay on until the destructor closes the connection.

## 4. Findings

1. **`src/lock.c:255`, run `session_taken_back`.** After `locked` and then
   `finished`, the client ends the lock with `destroy`.
   `include/protocols/session-lock.h:356` makes that a protocol error once
   `locked` was sent.
2. **`src/main.c:160`, run `session_deaf`.** `is_finished` is tested only after
   `epoll_wait` returns. If `locked` and `finished` are dispatched together while
   `kl_context_lock_session` waits, the loop sleeps without looking, and a
   compositor that has finished the lock owes it no event.
3. **`libs/auth/src/password.cpp:90`, run `password_eager`.** `verify()` sets
   `is_running_` before it joins a stopped worker. A worker that has not tested
   the flag yet then does not notice the stop, and `verify()` waits for PAM.
4. **`libs/auth/example/main.cpp:176`, run `coordinator_no_sensor`.** Without a
   sensor the on_error handler stops the fingerprint verifier; neither verifier
   runs then, and the loop ends in a denial although line 113 announces only that
   the scanner module is disabled and line 168 offers the password.
5. **`auth.back/example/main.c:232`, run `coordinator_back`.** The "Safe thread join
   sequence" (line 231) frees the fingerprint context before it joins the password
   thread, whose handler calls `kl_fingerprint_stop` on it (line 103). The C++
   program destroys in the other order, where only `Password::stop()` can come too
   late or be held up over the destructor; the flag is down and the worker gone
   (`LateStopHarmless`), and there is no process id to take (`DestroyedInert`).

Not findings, because the repository makes no promise about them. `stop()` takes
the flag and the process id in two steps (`password.cpp:110` and `113`). Delayed in
between, it kills the child of the next round, whose worker reports an invalid
password. `DeniedByPam` holds for owners that wait for `stop()` to return. A `stop()`
that has taken the process id may be delayed before the `kill`, until the worker
has reaped the child, and then signals a number that is no longer the child's;
`PublishedIsMine` speaks of the atomic and not of that local copy.

## 5. Proofs

Every invariant and every safety action property of a passing run is a theorem,
and so are the three refinements. One theorem, `NoStaleByte`, states a property that
no run checks (`SelectSleeps`; its part of the inductive invariant, `Drains`, was
model-checked with the rest). The proofs assume nothing but the `ASSUME`s of
the module in question, which TLC evaluates in its runs. Each inductive invariant
was model-checked on the bounds of section 3 before it was proved.

| Module | Theorem | Statement |
|---|---|---|
| `LockSurfaceProofs` | `TypeCorrect` | `Spec => []TypeOK` |
| | `CommitsAccepted` | `Spec => []NoProtocolError` |
| | `BusyWhileHeld` | `Spec => []HeldIsBusy` |
| | `SingleFrame` | `Spec => []OneFrameInFlight` |
| | `NoLostWakeup` | `Spec => []NeverStalled` |
| | `BuffersUntouched` | `Spec => HeldUntouched` |
| `FrameMemoryProofs` | `TypeCorrect` | `Spec => []TypeOK` |
| | `NothingLeaks` | `Spec => []AllOrNothing` |
| | `NeverDrawsOutside` | `Spec => []DrawsInside` |
| | `SizesAreSentExactly` | `Spec => []SentExact` |
| | `AlwaysMadeForTheFrame` | `Spec => []MadeForThisFrame` |
| `SessionLockProofs` | `TypeCorrect` | `Spec => []TypeOK` |
| | `NoSurfaceMissed` | `Spec => []EverySurfaceAttached` |
| | `NeverUnlockedEarly` | `Spec => UnlockedWhenDue` |
| | `NeverAProtocolError` | `~LockMayFail /\ ~FinishAfterLocked => (Spec => []NoProtocolError)` |
| | `ImplementsScreenLock` | `~LockMayFail /\ ~FinishAfterLocked => (Spec => IsScreenLock)` |
| `PasswordProofs` | `TypeCorrect` | `Spec => []TypeOK` |
| | `PidIsOfThisRound` | `Spec => []PublishedIsMine` |
| | `NothingOutlivesTheObject` | `Spec => []DestroyedInert` |
| | `FinishIsEarned` | `Spec => []FinishMeansRight` |
| | `PasswordForgotten` | `Spec => []CandidateWiped` |
| | `NoRoundLost` | `Spec => []AnsweredOrStopped` |
| | `DenialIsFromPam` | `Spec => []DeniedByPam` |
| | `ImplementsVerifier` | `Spec => V!Spec` |
| `FingerprintProofs` | `TypeCorrect` | `Spec => []TypeOK` |
| | `CheckEndsOnce` | `Spec => []EndOncePerCheck` |
| | `DeviceReleasedIdle` | `Spec => []DeviceLeftIdle` |
| | `NoStaleByte` | `Spec => []SelectSleeps` |
| | `SignalsStayInTheirCheck` | `Spec => SignalOfThisCheck` |
| | `ImplementsVerifier` | `Spec => V!Spec` |
| `AuthCoordinatorProofs` | `TypeCorrect` | `Spec => []TypeOK` |
| | `DenialHasReason` | `Spec => []DeniedForReason` |
| | `LateStopIsHarmless` | `Edition = "cpp" => (Spec => []LateStopHarmless)` |

Three theorems have a hypothesis about a constant. It is the value that constant
has in the run of the same property. Two of the hypotheses have a run that shows
what happens without them: `~FinishAfterLocked` (`session_taken_back`, finding 1) and
the C++ edition (`coordinator_back`, finding 5, a call on a deleted fingerprint
context). `~LockMayFail` has none; section 3 says what TLC finds without it.

**LockSurface**, for every number of buffers, set of sizes and set of scales. The
inductive invariant adds the facts that link the properties: `frame_pending`
agrees with `frame_callback` (so that detaching destroys the callback that
exists), and a configured surface is bound and was last acked with the size it
draws (so that a buffer made for that size is accepted). Handlers change some
fields and then render, so the surface that is rendered is neither the old nor
the new one; `Coherent` and `Awake` are therefore stated of an arbitrary surface,
and `RenderCoherent` shows that rendering turns a coherent surface into one that
is coherent and awake. A frame-done or a release handler is the case where the
surface is *not* awake before it renders, which is why `Awake` is a conclusion of
that lemma and not a hypothesis.

**FrameMemory**, for every even modulus `Word` above 64, every larger or equal
`SizeWords`, and all sizes, scales and failures. `AllOrNothing` speaks of the time
between frames; `Booked` extends it to every step by saying, kind by kind, which
of the program's variables stand for what the ledger counts, and `Slot` in which
order `kl_buffer_create` sets them. `Sized` carries the arithmetic from the frame in
which a slot was made to the later frames that use it again: what is mapped and
what was announced are functions of the slot's geometry, which had passed the
tests; with the test for reuse (`Fits`) that gives `MadeForThisFrame`. The rest are
lemmas without a state: `SizeExact` (the test against
`SIZE_MAX` does what it is for: the product is not reduced), `ImageInside` and
`AnnouncedExact`. That a height which wraps to a negative `int` does no harm is the
observation, in `SignedRange`, that the conversion never makes it larger.

**SessionLock**, for any set of outputs. What the client may rely on is spread over
its own state, the requests on their way and the events on their way back, so the
invariants speak of the two queues (`Has`, `Names`, `Once`, `Apart`). `IInv` holds of
every client and compositor: where each call of `main` can be (`Control`, `Stages`),
that whoever unlocks has a reason (`Reasons`), and that an output is attached
either by its announcement or by `kl_context_lock_session` and not by both
(`Attaching`). `Orderly` adds, under the two hypotheses, that the client's belief
was sent by the compositor (`Told`), that one roundtrip is under way at a time
(`Answered`), and that the request that ends the lock is ahead of the last
roundtrip's (`GivenUp`). That ordering is why the process does not exit and leave
a locked session behind, the hardest part of `ImplementsScreenLock`.

**Password**, for any number of stopping threads, passwords and rounds. Nothing
locks `candidate_` and `active_pam_pid_`; the join in `verify()` is what separates
rounds. `Linked` says for each place of the owner whether there is a worker and
of which round, `Parenthood` that the only child that was not reaped is the one its
worker is going to wait for, and that nobody raises the flag once the destructor
has begun, `Locals` what the worker's copies are, and `RoundsInv` what is
known of the rounds that are over. The conditions on the owner (`eager`) are in
the properties themselves.

**Fingerprint**, for any number of stopping threads and sessions and a queue of any
length. `Counted` balances the checks that were opened against those that an
exchange can still end; at most two are open, the second when a `stop()` of the
session before is late, and each is ended once. `Scans`, `Drains` and `Fresh` tie
the sensor, the pipe and the queue to the check in progress, the first as long as no
bus call has failed. `Fresh` survives such a failure: the flag stays up after it, so
no further check follows without a `stop()`.

**Refinement of Verifier.** Both `ImplementsVerifier` theorems follow the actions: each
maps to one step of `Verifier` or to a stutter, with the inductive invariant to
exclude the states in which it would not. They justify building `AuthCoordinator` on
`Verifier`: whatever a class does is a behaviour that the coordinator's theorems
allow for. That the composition of the coordinator with the two classes themselves
implements `AuthCoordinator` is not proved; it rests on the handlers and the main
thread of that module calling the classes as their models assume they are called
(`Main` alone verifies and deletes, handlers run in the workers).

**AuthCoordinator**, for every length of the buffer and both editions. `Threads` ties
a handler to the worker it runs in, so that a joined verifier has none; `Reasons`
says that a handler stops nobody before it has set `authenticated`, hence that the
flag of the fingerprint is up until there is an excuse; `Order` is the order of the
destructors: the flag of the password is down for good before its own begins, and
`main()` returns only after both. With `Threads` this bounds how long a handler can be
held up in a `stop()`: the destructor of its own verifier joins it.

Only model-checked:

* liveness (`ConfigurationShown`, `LeavingEnds`, `DeadlineNoticed`, `OutputsCovered`,
  `VerifyReturns`, `MatchReported`, `SuccessEnds`) and the fairness in `IsVerifier`,
  of which `ImplementsVerifier` is the safety part: fairness is out of the
  prover's reach;
* that the runs with an expected violation do violate their property.

## 6. What is not modelled

* Drawing in `src/render.c` beyond its cache: floating-point colours, paths and the
  pulse. The product `KL_BASE_TEXTURE_DIM * scale` (line 49) is computed in `int`; that
  it overflows for scales beyond 2^23 is not modelled, and no property depends on
  the texture's dimensions.
* A partial flush of the socket (`src/main.c:102`): the repository does not say
  what should happen.
* The failure of `wl_display_connect` or of the registry proxy: the process
  exits before anything happened.
* `auth.back/src/password.c`: access by access the same as `password.cpp`.
  `auth.back/src/fingerprint.c`: differs in `kl_fingerprint_start`, which refuses for
  ever once a thread was made, although the comment at line 231 says that it
  reaps the thread; that is visible without a model.
* Terminal modes and user lookup of the coordinators; the getters and setters of
  the verifiers.
* The marshalling code of the generated bindings, the build files, valgrind's
  suppressions.

## 7. Plan

The models are complete and every safety property that TLC finds to hold is
proved. What could be added:

1. the C edition of the coordinator: what does hold of a late `stop()` there, as a
   counterpart of `LateStopIsHarmless`;
2. the environment conditions of the `Fingerprint` and `Password` theorems (`late`,
   `eager`) as guarantees of `AuthCoordinator`: its main thread starts the
   fingerprint once, so no `start()` can overtake a `stop()`, while it may verify
   over a pending `stop()`.
