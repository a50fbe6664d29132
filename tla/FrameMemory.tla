------------------------------ MODULE FrameMemory ------------------------------
(***************************************************************************)
(* The memory behind one frame: kl_surface_render_frame (surface.c) makes  *)
(* its buffer slot fit (kl_buffer_create, kl_buffer_destroy in buffer.c)   *)
(* and draws into it with the texture that the render engine caches        *)
(* (render.c).  LockSurface takes each of these as one step that succeeds  *)
(* or fails; here every call that acquires something is a step of its own, *)
(* and integers have their width.                                          *)
(*                                                                         *)
(* The kernel, libwayland and cairo are external: each of their calls may  *)
(* fail.  The ledger counts what the program has acquired from them and    *)
(* not given back.                                                         *)
(***************************************************************************)
EXTENDS Integers

CONSTANTS
  Word,               \* how many values int and uint32_t have: 2^32
  SizeWords,          \* how many values size_t may have: 2^32 or 2^64
  Widths, Heights,    \* the sizes that configure events carry
  Scales,             \* the scale factors of the output
  MaxImage            \* external: the largest side of a cairo image

(* Arithmetic of the build. *)
IntMax == Word \div 2 - 1

ASSUME WordAssumption == Word \in Nat /\ Word > 64 /\ Word % 2 = 0
ASSUME SizeWordsAssumption == \A n \in SizeWords : n \in Nat /\ n >= Word
ASSUME SizesAssumption ==
  Widths \cup Heights \subseteq 1 .. Word - 1 /\ Scales \subseteq 1 .. IntMax
ASSUME MaxImageAssumption == MaxImage \in 1 .. IntMax

VARIABLES
  sizeWord,  \* how many values size_t has in this build
  pc,        \* where render_frame is, "idle" between calls
  call,      \* width, height and scale of the call under way
  buf,       \* struct kl_buffer
  engine,    \* struct kl_render_engine: whether it has its two objects and
             \* the scale they were made for
  ledger,    \* what is held of each kind
  mapped,    \* external: the size of the mapping that is held, in bytes
  sent       \* external: size of the pool, width, height and stride sent

vars == <<sizeWord, pc, call, buf, engine, ledger, mapped, sent>>

Kinds == {"fd", "mapping", "pool", "wl_buffer", "surface", "context", "texture",
          "pattern"}

-----------------------------------------------------------------------------
Unsigned(n) == n % Word
Signed(n) == IF n % Word > IntMax THEN (n % Word) - Word ELSE n % Word

(* The physical size of a geometry: a width, a height and a scale. *)
PhysWidth(g) == Unsigned(g.width * g.scale)
PhysHeight(g) == Unsigned(g.height * g.scale)

(* External: cairo_format_stride_for_width of a 32-bit format, -1 if the    *)
(* width is out of its range.                                               *)
StrideFor(width) ==
  IF width < 0 \/ width >= (IntMax - 7) \div 32 THEN -1 ELSE 4 * width

Stride(g) == StrideFor(Signed(PhysWidth(g)))

Mut_LogicalSize(g) == (Stride(g) * g.height) % sizeWord
(* size_t size *)
Size(g) == (Stride(g) * PhysHeight(g)) % sizeWord

Mut_Overflows(g) == FALSE
Overflows(g) == PhysHeight(g) > (sizeWord - 1) \div Stride(g)

-----------------------------------------------------------------------------
NoCall == [width |-> 0, height |-> 0, scale |-> 0]

(* calloc leaves the slot zeroed; kl_buffer_destroy sets its scale to 1. *)
EmptyBuf(scale) ==
  [wl |-> FALSE, data |-> FALSE, surface |-> "null", cr |-> FALSE, size |-> 0,
   width |-> 0, height |-> 0, scale |-> scale]

NoEngine == [ready |-> FALSE, scale |-> 0]

Init ==
  /\ sizeWord \in SizeWords
  /\ pc = "idle" /\ call = NoCall /\ buf = EmptyBuf(0) /\ engine = NoEngine
  /\ ledger = [k \in Kinds |-> 0] /\ mapped = 0
  /\ sent = [pool |-> 0, width |-> 0, height |-> 0, stride |-> 0]

Gains(ks) == [k \in Kinds |-> ledger[k] + IF k \in ks THEN 1 ELSE 0]
Gives(ks) == [k \in Kinds |-> ledger[k] - IF k \in ks THEN 1 ELSE 0]

(* A step that succeeds gains something; one that fails gives back what its *)
(* error path releases and ends the call.  (A frame for which no texture    *)
(* can be made is committed without it, which touches nothing in here.)     *)
Succeeds(from, to, ks) == pc = from /\ pc' = to /\ ledger' = Gains(ks)
Fails(from, ks) == pc = from /\ pc' = "idle" /\ ledger' = Gives(ks)

(* What kl_buffer_destroy releases: cairo_surface_destroy ignores the       *)
(* surface that stands for an error.                                        *)
Owned ==
  (IF buf.cr THEN {"context"} ELSE {}) \cup
  (IF buf.surface = "real" THEN {"surface"} ELSE {}) \cup
  (IF buf.wl THEN {"wl_buffer"} ELSE {}) \cup
  (IF buf.data /\ buf.size = mapped THEN {"mapping"} ELSE {})

Mut_Baked == {}
(* What kl_render_cleanup_baked releases. *)
Baked == IF engine.ready THEN {"texture", "pattern"} ELSE {}

Mut_Fits == buf.wl /\ buf.height = call'.height /\ buf.scale = call'.scale
(* render_frame: the slot can be drawn as it is. *)
Fits == buf.wl /\ buf.width = call'.width /\ buf.height = call'.height
        /\ buf.scale = call'.scale

(* The geometry is fixed by events that arrived before the frame. *)
RenderFrame(w, h, s) ==
  /\ pc = "idle"
  /\ call' = [width |-> w, height |-> h, scale |-> s]
  /\ IF Fits THEN pc' = "draw" /\ UNCHANGED <<buf, ledger, mapped>>
     ELSE /\ pc' = "create"
          /\ buf' = EmptyBuf(1)
          /\ ledger' = Gives(Owned)
          /\ mapped' = 0
  /\ UNCHANGED <<sizeWord, engine, sent>>

-----------------------------------------------------------------------------
(* kl_buffer_create: the tests of its arguments, then memfd_create. *)
CreateChecks ==
  /\ \/ /\ Stride(call) > 0 /\ ~Overflows(call) /\ Size(call) # 0
        /\ Succeeds("create", "seal", {"fd"})
     \/ Fails("create", {})
  /\ UNCHANGED <<sizeWord, call, buf, engine, mapped, sent>>

(* ftruncate and the seals. *)
CreateSeals ==
  /\ Succeeds("seal", "map", {}) \/ Fails("seal", {"fd"})
  /\ UNCHANGED <<sizeWord, call, buf, engine, mapped, sent>>

CreateMaps ==
  /\ \/ Succeeds("map", "pool", {"mapping"}) /\ mapped' = Size(call)
     \/ Fails("map", {"fd"}) /\ UNCHANGED mapped
  /\ UNCHANGED <<sizeWord, call, buf, engine, sent>>

(* wl_shm_create_pool, then the file is closed in any case. *)
CreatePool ==
  /\ \/ /\ pc = "pool" /\ pc' = "buffer"
        /\ ledger' = [Gives({"fd"}) EXCEPT !["pool"] = @ + 1]
        /\ sent' = [sent EXCEPT !.pool = Signed(Size(call))]
        /\ UNCHANGED mapped
     \/ Fails("pool", {"fd", "mapping"}) /\ mapped' = 0 /\ UNCHANGED sent
  /\ UNCHANGED <<sizeWord, call, buf, engine>>

(* wl_shm_pool_create_buffer, then the pool is destroyed in any case. *)
CreateBuffer ==
  /\ \/ /\ pc = "buffer" /\ pc' = "surface"
        /\ ledger' = [Gives({"pool"}) EXCEPT !["wl_buffer"] = @ + 1]
        /\ sent' = [sent EXCEPT !.width = Signed(PhysWidth(call)),
                                !.height = Signed(PhysHeight(call)),
                                !.stride = Signed(Stride(call))]
        /\ buf' = [buf EXCEPT !.wl = TRUE]
        /\ UNCHANGED mapped
     \/ Fails("buffer", {"pool", "mapping"}) /\ mapped' = 0 /\ UNCHANGED <<buf, sent>>
  /\ UNCHANGED <<sizeWord, call, engine>>

(* cairo_image_surface_create_for_data, which refuses what is not an image. *)
IsImage ==
  Signed(PhysWidth(call)) \in 0 .. MaxImage /\ Signed(PhysHeight(call)) \in 0 .. MaxImage

Mut_SurfaceErrorPath == {"wl_buffer"}
(* What is given back if cairo refuses; the surface that stands for the     *)
(* error stays in the slot.                                                 *)
SurfaceErrorPath == {"wl_buffer", "mapping"}

CreateSurface ==
  /\ \/ /\ IsImage /\ Succeeds("surface", "context", {"surface"})
        /\ buf' = [buf EXCEPT !.surface = "real"]
        /\ UNCHANGED mapped
     \/ /\ Fails("surface", SurfaceErrorPath)
        /\ buf' = [buf EXCEPT !.surface = "error", !.wl = FALSE]
        /\ mapped' = 0
  /\ UNCHANGED <<sizeWord, call, engine, sent>>

CreateContext ==
  /\ \/ /\ Succeeds("context", "listen", {"context"})
        /\ buf' = [wl |-> TRUE, data |-> TRUE, surface |-> "real", cr |-> TRUE,
                   size |-> Size(call), width |-> call.width, height |-> call.height,
                   scale |-> call.scale]
        /\ UNCHANGED mapped
     \/ /\ Fails("context", {"surface", "wl_buffer", "mapping"})
        /\ buf' = [buf EXCEPT !.surface = "null", !.wl = FALSE]
        /\ mapped' = 0
  /\ UNCHANGED <<sizeWord, call, engine, sent>>

(* wl_buffer_add_listener; if it fails the buffer is destroyed. *)
CreateListens ==
  /\ \/ Succeeds("listen", "draw", {}) /\ UNCHANGED <<buf, mapped>>
     \/ Fails("listen", Owned) /\ buf' = EmptyBuf(1) /\ mapped' = 0
  /\ UNCHANGED <<sizeWord, call, engine, sent>>

-----------------------------------------------------------------------------
(* kl_render_ensure_baked_surface: the cached texture has the right scale. *)
IsBaked == engine.ready /\ engine.scale = call.scale

DrawCached ==
  /\ IsBaked /\ Succeeds("draw", "paint", {})
  /\ UNCHANGED <<sizeWord, call, buf, engine, mapped, sent>>

(* Otherwise the old texture goes before a new one is made. *)
BakeCleansUp ==
  /\ ~IsBaked /\ pc = "draw" /\ pc' = "bake"
  /\ ledger' = Gives(Baked)
  /\ engine' = NoEngine
  /\ UNCHANGED <<sizeWord, call, buf, mapped, sent>>

(* A new surface; the context that inks it is given back in any case. *)
BakeTexture ==
  /\ Succeeds("bake", "pattern", {"texture"}) \/ Fails("bake", {})
  /\ UNCHANGED <<sizeWord, call, buf, engine, mapped, sent>>

BakePattern ==
  /\ \/ /\ Succeeds("pattern", "paint", {"pattern"})
        /\ engine' = [ready |-> TRUE, scale |-> call.scale]
     \/ Fails("pattern", {"texture"}) /\ UNCHANGED engine
  /\ UNCHANGED <<sizeWord, call, buf, mapped, sent>>

(* The rest of kl_render_engine_draw; the frame is committed after it. *)
Paint ==
  /\ Succeeds("paint", "idle", {})
  /\ UNCHANGED <<sizeWord, call, buf, engine, mapped, sent>>

(* kl_surface_destroy: the buffer, then the engine. *)
Destroy ==
  /\ pc = "idle" /\ pc' = "gone"
  /\ ledger' = Gives(Owned \cup Baked)
  /\ buf' = EmptyBuf(1) /\ engine' = NoEngine /\ mapped' = 0
  /\ UNCHANGED <<sizeWord, call, sent>>

Gone == pc = "gone" /\ UNCHANGED vars

Next ==
  \/ \E w \in Widths, h \in Heights, s \in Scales : RenderFrame(w, h, s)
  \/ CreateChecks \/ CreateSeals \/ CreateMaps \/ CreatePool \/ CreateBuffer
  \/ CreateSurface \/ CreateContext \/ CreateListens
  \/ DrawCached \/ BakeCleansUp \/ BakeTexture \/ BakePattern \/ Paint
  \/ Destroy \/ Gone

Spec == Init /\ [][Next]_vars

-----------------------------------------------------------------------------
(***************************************************************************)
(* Properties.                                                             *)
(***************************************************************************)

Calls == [width : Widths, height : Heights, scale : Scales] \cup {NoCall}
Buffers ==
  [wl : BOOLEAN, data : BOOLEAN, surface : {"null", "error", "real"}, cr : BOOLEAN,
   size : Nat, width : Widths \cup {0}, height : Heights \cup {0},
   scale : Scales \cup {0, 1}]

(* Type invariant of the slot, the engine and the ledger. *)
TypeOK ==
  /\ sizeWord \in SizeWords
  /\ pc \in {"idle", "create", "seal", "map", "pool", "buffer", "surface", "context",
             "listen", "draw", "bake", "pattern", "paint", "gone"}
  /\ call \in Calls
  /\ buf \in Buffers
  /\ engine \in [ready : BOOLEAN, scale : Scales \cup {0}]
  /\ ledger \in [Kinds -> {0, 1}]
  /\ mapped \in Nat
  /\ sent \in [pool : Int, width : Int, height : Int, stride : Int]

(* Whichever call fails, nothing is leaked and nothing is given back twice: *)
(* between two frames the program holds a complete buffer or none of it,    *)
(* and a complete texture or none of it, and in the end it holds nothing.   *)
AllOrNothing ==
  /\ pc \in {"idle", "gone"} =>
       \A k \in Kinds :
         ledger[k] = IF \/ buf.wl /\ k \in {"mapping", "wl_buffer", "surface", "context"}
                        \/ engine.ready /\ k \in {"texture", "pattern"}
                     THEN 1 ELSE 0
  /\ pc = "gone" => \A k \in Kinds : ledger[k] = 0

(* Whatever the geometry, also if it wraps around, and on builds of either  *)
(* width of size_t: the image that cairo draws into lies in the mapping.    *)
DrawsInside ==
  pc \in {"draw", "bake", "pattern", "paint"} => sent.stride * sent.height <= mapped

(* A frame whose size in bytes fits an int is announced as it is: the pool  *)
(* and the buffer that the compositor is told of have the dimensions of the *)
(* surface times its scale.  (What does not fit wraps around.)              *)
SentExact ==
  LET width == call.width * call.scale
      height == call.height * call.scale
  IN pc = "paint" /\ width <= IntMax /\ height <= IntMax
       /\ 4 * width * height <= IntMax
     => sent = [pool |-> 4 * width * height, width |-> width, height |-> height,
                stride |-> 4 * width]

(* What is painted, and what it is painted on, was made for this frame: the *)
(* texture for its scale, and the slot, the mapping and the buffer that the *)
(* compositor knows for its width, height and scale, however many frames of *)
(* other sizes and scales the slot and the texture have outlived.           *)
MadeForThisFrame ==
  pc = "paint" =>
    /\ engine.ready /\ engine.scale = call.scale
    /\ buf.cr /\ buf.width = call.width /\ buf.height = call.height
    /\ buf.scale = call.scale
    /\ mapped = Size(call)
    /\ sent.width = Signed(PhysWidth(call)) /\ sent.height = Signed(PhysHeight(call))
=============================================================================
