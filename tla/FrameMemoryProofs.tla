--------------------------- MODULE FrameMemoryProofs ---------------------------
(***************************************************************************)
(* Theorems about FrameMemory: for every width of int and of size_t, every *)
(* set of sizes and scales and any failure, nothing leaks or is freed      *)
(* twice, cairo draws inside the mapping and the compositor is told the    *)
(* true sizes.                                                             *)
(*                                                                         *)
(* The ledger is not the program's: that it is right between frames takes  *)
(* an invariant of every step in between.  Booked says that the ledger is  *)
(* what the program's variables say it holds, Slot in which order these    *)
(* are set, Fitting that slot and texture were made for the frame, and     *)
(* Sized that the bytes that are mapped and announced are those of the     *)
(* geometry that kl_buffer_create has accepted, also when a later frame    *)
(* uses the slot again.                                                    *)
(***************************************************************************)
EXTENDS FrameMemory, TLAPS

Count(held) == IF held THEN 1 ELSE 0

(* What the program's own variables say it holds is what it holds. *)
Booked ==
  /\ ledger["fd"] = Count(pc \in {"seal", "map", "pool"})
  /\ ledger["mapping"] = Count(pc \in {"pool", "buffer"} \/ buf.wl)
  /\ ledger["pool"] = Count(pc = "buffer")
  /\ ledger["wl_buffer"] = Count(buf.wl)
  /\ ledger["surface"] = Count(buf.surface = "real")
  /\ ledger["context"] = Count(buf.cr)
  /\ ledger["texture"] = Count(engine.ready \/ pc = "pattern")
  /\ ledger["pattern"] = Count(engine.ready)

(* The slot is filled and emptied in the order of kl_buffer_create. *)
Slot ==
  /\ pc \in {"create", "seal", "map", "pool", "buffer", "gone"} => ~buf.wl
  /\ pc \in {"surface", "context", "listen", "draw", "bake", "pattern", "paint"} => buf.wl
  /\ buf.surface = "real" <=> buf.wl /\ pc # "surface"
  /\ buf.cr <=> buf.wl /\ pc \notin {"surface", "context"}
  /\ buf.data = buf.cr

(* The frame is drawn on a slot and with a texture that were made for it. *)
Fitting ==
  /\ pc \in {"listen", "draw", "bake", "pattern", "paint"}
       => buf.width = call.width /\ buf.height = call.height /\ buf.scale = call.scale
  /\ pc \in {"bake", "pattern", "gone"} => ~engine.ready
  /\ pc = "paint" => engine.ready /\ engine.scale = call.scale

(* What the tests of kl_buffer_create let through, and what the compositor *)
(* is told of a geometry.                                                   *)
Accepted(g) == Stride(g) > 0 /\ ~Overflows(g)

Announced(g) ==
  sent = [pool |-> Signed(Size(g)), width |-> Signed(PhysWidth(g)),
          height |-> Signed(PhysHeight(g)), stride |-> Signed(Stride(g))]

(* What is mapped and what was announced belong to the geometry. *)
Sized ==
  /\ pc \in {"seal", "map", "pool", "buffer", "surface", "context"} => Accepted(call)
  /\ pc \in {"pool", "buffer", "surface", "context"} => mapped = Size(call)
  /\ pc = "buffer" => sent.pool = Signed(Size(call))
  /\ pc \in {"surface", "context"} => Announced(call)
  /\ buf.cr => Accepted(buf) /\ mapped = Size(buf) /\ buf.size = mapped /\ Announced(buf)

IInv == TypeOK /\ Booked /\ Slot /\ Fitting /\ Sized

-----------------------------------------------------------------------------
(* Arithmetic.  The provers multiply and divide, but a step should do one   *)
(* of these at a time.                                                      *)
LEMMA IntRange == IntMax \in Nat /\ IntMax > 30 /\ Word = 2 * IntMax + 2
BY WordAssumption DEF IntMax

LEMMA UnsignedRange ==
  ASSUME NEW n \in Int
  PROVE  Unsigned(n) \in Nat /\ Unsigned(n) < Word
BY WordAssumption DEF Unsigned

LEMMA UnsignedExact ==
  ASSUME NEW n \in Nat, n < Word
  PROVE  Unsigned(n) = n
BY WordAssumption DEF Unsigned

(* A conversion to int keeps what fits and never makes it larger. *)
LEMMA SignedRange ==
  ASSUME NEW n \in Int
  PROVE  Signed(n) \in Int /\ (n \in Nat /\ n < Word => Signed(n) <= n)
BY WordAssumption, IntRange DEF Signed

LEMMA SignedExact ==
  ASSUME NEW n \in Nat, n <= IntMax
  PROVE  Signed(n) = n
BY WordAssumption, IntRange DEF Signed

LEMMA SizeModulus == sizeWord \in SizeWords => sizeWord \in Nat /\ sizeWord >= Word
BY SizeWordsAssumption

LEMMA ProductOrder ==
  ASSUME NEW a \in Nat, NEW b \in Int, NEW c \in Int, b <= c
  PROVE  a * b <= a * c
OBVIOUS

LEMMA QuotientBounds ==
  ASSUME NEW a \in Nat, a > 0, NEW b \in Nat, NEW m \in Nat, b <= m \div a
  PROVE  a * b <= m
OBVIOUS

(* The lengths of a geometry. *)
Lengths(g) == g.width \in Nat /\ g.height \in Nat /\ g.scale \in Nat

LEMMA PhysRange ==
  ASSUME NEW g, Lengths(g)
  PROVE  /\ PhysWidth(g) \in Nat /\ PhysWidth(g) < Word
         /\ PhysHeight(g) \in Nat /\ PhysHeight(g) < Word
BY UnsignedRange DEF PhysWidth, PhysHeight, Lengths

LEMMA StrideRange ==
  ASSUME NEW g, Lengths(g)
  PROVE  /\ Stride(g) \in Int
         /\ Stride(g) > 0 => Stride(g) = 4 * Signed(PhysWidth(g)) /\ Stride(g) <= IntMax
<1>1. Signed(PhysWidth(g)) \in Int
  BY PhysRange, SignedRange
<1>2. ASSUME NEW w \in Int
      PROVE  /\ StrideFor(w) \in Int
             /\ StrideFor(w) > 0 => StrideFor(w) = 4 * w /\ StrideFor(w) <= IntMax
  BY IntRange DEF StrideFor
<1> QED BY <1>1, <1>2 DEF Stride

LEMMA SizeRange ==
  ASSUME NEW g, Lengths(g), sizeWord \in SizeWords
  PROVE  Size(g) \in Nat /\ Size(g) < sizeWord
<1>1. Stride(g) * PhysHeight(g) \in Int
  BY StrideRange, PhysRange
<1>2. sizeWord \in Nat /\ sizeWord > 0
  BY SizeModulus, WordAssumption
<1> QED BY <1>1, <1>2 DEF Size

(* The test against SIZE_MAX does what it is for: the product of stride and *)
(* height is not reduced.                                                   *)
LEMMA SizeExact ==
  ASSUME NEW g, Lengths(g), sizeWord \in SizeWords, Accepted(g)
  PROVE  Size(g) = Stride(g) * PhysHeight(g)
<1>1. sizeWord \in Nat /\ sizeWord > 0
  BY SizeModulus, WordAssumption
<1>2. Stride(g) \in Nat /\ Stride(g) > 0 /\ PhysHeight(g) \in Nat
  BY StrideRange, PhysRange DEF Accepted
<1>3. PhysHeight(g) <= (sizeWord - 1) \div Stride(g)
  BY <1>1, <1>2 DEF Accepted, Overflows
<1>4. Stride(g) * PhysHeight(g) <= sizeWord - 1
  BY <1>1, <1>2, <1>3, QuotientBounds
<1>5. Stride(g) * PhysHeight(g) \in Nat
  BY <1>2
<1> QED BY <1>1, <1>4, <1>5 DEF Size

(* The image lies in the mapping. *)
LEMMA ImageInside ==
  ASSUME NEW g, Lengths(g), sizeWord \in SizeWords, Accepted(g)
  PROVE  Signed(Stride(g)) * Signed(PhysHeight(g)) <= Size(g)
<1>1. Stride(g) \in Nat /\ Signed(Stride(g)) = Stride(g)
  BY StrideRange, SignedExact DEF Accepted
<1>2. /\ PhysHeight(g) \in Int /\ Signed(PhysHeight(g)) \in Int
      /\ Signed(PhysHeight(g)) <= PhysHeight(g)
  BY PhysRange, SignedRange
<1> QED BY <1>1, <1>2, ProductOrder, SizeExact

(* Sizes that fit an int are announced as they are. *)
LEMMA AnnouncedExact ==
  ASSUME NEW g, Lengths(g), sizeWord \in SizeWords, Accepted(g), Announced(g),
         NEW width, width = g.width * g.scale, width <= IntMax,
         NEW height, height = g.height * g.scale, height <= IntMax,
         4 * width * height <= IntMax
  PROVE  sent = [pool |-> 4 * width * height, width |-> width, height |-> height,
                 stride |-> 4 * width]
<1>1. width \in Nat /\ height \in Nat
  BY DEF Lengths
<1>2. PhysWidth(g) = width /\ PhysHeight(g) = height
  BY <1>1, UnsignedExact, IntRange DEF PhysWidth, PhysHeight
<1>3. Signed(PhysWidth(g)) = width /\ Signed(PhysHeight(g)) = height
  BY <1>1, <1>2, SignedExact
<1>4. Stride(g) = 4 * width /\ Signed(Stride(g)) = 4 * width
  BY <1>1, <1>3, StrideRange, SignedExact DEF Accepted
<1>5. Size(g) = 4 * width * height /\ 4 * width * height \in Nat
  BY <1>1, <1>2, <1>4, SizeExact
<1>6. Signed(Size(g)) = 4 * width * height
  BY <1>5, SignedExact
<1> QED BY <1>3, <1>4, <1>6 DEF Announced

-----------------------------------------------------------------------------
(* What every step needs: the lengths are numbers, what comes out of the    *)
(* arithmetic has its type, and the ledger is a function.                   *)
LEMMA LengthsOK == TypeOK => Lengths(call) /\ Lengths(buf)
<1> SUFFICES ASSUME TypeOK PROVE Lengths(call) /\ Lengths(buf)
  OBVIOUS
<1>1. /\ \A n \in Widths : n \in Nat
      /\ \A n \in Heights : n \in Nat
      /\ \A n \in Scales : n \in Nat
  BY SizesAssumption
<1>2. Lengths(call)
  <2>1. CASE call = NoCall
    BY <2>1 DEF NoCall, Lengths
  <2>2. CASE call \in [width : Widths, height : Heights, scale : Scales]
    BY <1>1, <2>2 DEF Lengths
  <2> QED BY <2>1, <2>2 DEF TypeOK, Calls
<1>3. Lengths(buf)
  <2>1. buf.width \in Widths \cup {0} /\ buf.height \in Heights \cup {0}
    BY DEF TypeOK, Buffers
  <2>2. buf.scale \in Scales \cup {0, 1}
    BY DEF TypeOK, Buffers
  <2> QED BY <1>1, <2>1, <2>2 DEF Lengths
<1> QED BY <1>2, <1>3

LEMMA NumbersTyped ==
  ASSUME TypeOK
  PROVE  /\ Size(call) \in Nat /\ Signed(Size(call)) \in Int /\ Signed(Stride(call)) \in Int
         /\ Signed(PhysWidth(call)) \in Int /\ Signed(PhysHeight(call)) \in Int
<1>1. Lengths(call) /\ sizeWord \in SizeWords
  BY LengthsOK DEF TypeOK
<1>2. /\ Size(call) \in Int /\ Stride(call) \in Int
      /\ PhysWidth(call) \in Int /\ PhysHeight(call) \in Int
  BY <1>1, SizeRange, StrideRange, PhysRange
<1> QED BY <1>1, <1>2, SizeRange, SignedRange

LEMMA LedgerTyped ==
  ASSUME Booked', ledger' = [k \in Kinds |-> ledger'[k]]
  PROVE  ledger' \in [Kinds -> {0, 1}]
BY DEF Booked, Count, Kinds

LEMMA GainsAt ==
  ASSUME NEW ks
  PROVE  /\ Gains(ks) = [k \in Kinds |-> Gains(ks)[k]]
         /\ \A k \in Kinds : Gains(ks)[k] = IF k \in ks THEN ledger[k] + 1 ELSE ledger[k] + 0
BY DEF Gains

LEMMA GivesAt ==
  ASSUME NEW ks
  PROVE  /\ Gives(ks) = [k \in Kinds |-> Gives(ks)[k]]
         /\ \A k \in Kinds : Gives(ks)[k] = IF k \in ks THEN ledger[k] - 1 ELSE ledger[k] - 0
BY DEF Gives

(* The destructor of a slot gives back what the slot holds. *)
LEMMA OwnedIs ==
  ASSUME IInv, pc \in {"idle", "listen"}
  PROVE  /\ "context" \in Owned <=> buf.cr
         /\ "surface" \in Owned <=> buf.surface = "real"
         /\ "wl_buffer" \in Owned <=> buf.wl
         /\ "mapping" \in Owned <=> buf.wl
         /\ Owned \cap {"fd", "pool", "texture", "pattern"} = {}
BY DEF IInv, TypeOK, Buffers, Slot, Sized, Owned

-----------------------------------------------------------------------------
(* The steps that fill the slot. *)
LEMMA RenderFrameKeeps ==
  ASSUME IInv, NEW w \in Widths, NEW h \in Heights, NEW s \in Scales, RenderFrame(w, h, s)
  PROVE  IInv'
<1>1. /\ pc = "idle" /\ call' = [width |-> w, height |-> h, scale |-> s]
      /\ UNCHANGED <<sizeWord, engine, sent>>
  BY DEF RenderFrame
<1>2. CASE Fits
  <2>1. /\ pc' = "draw" /\ UNCHANGED <<buf, ledger, mapped>>
        /\ buf.wl /\ buf.width = call'.width /\ buf.height = call'.height
        /\ buf.scale = call'.scale
    BY <1>2 DEF RenderFrame, Fits
  <2>2. TypeOK'
    BY <1>1, <2>1 DEF IInv, TypeOK, Calls
  <2>3. Booked'
    BY <1>1, <2>1 DEF IInv, Booked, Count
  <2>4. Slot' /\ Fitting'
    BY <1>1, <2>1 DEF IInv, Slot, Fitting
  <2>5. Sized'
    BY <1>1, <2>1 DEF IInv, Slot, Sized, Accepted, Announced, Size, Stride, PhysWidth,
      PhysHeight, Overflows
  <2> QED BY <2>2, <2>3, <2>4, <2>5 DEF IInv
<1>3. CASE ~Fits
  <2>1. pc' = "create" /\ buf' = EmptyBuf(1) /\ ledger' = Gives(Owned) /\ mapped' = 0
    BY <1>3 DEF RenderFrame
  <2>2. Booked' /\ ledger' = [k \in Kinds |-> ledger'[k]]
    BY <1>1, <2>1, OwnedIs, GivesAt DEF IInv, TypeOK, Buffers, Booked, Count, EmptyBuf, Kinds
  <2>3. TypeOK'
    BY <1>1, <2>1, <2>2, LedgerTyped DEF IInv, TypeOK, Calls, Buffers, EmptyBuf
  <2>4. Slot' /\ Fitting' /\ Sized'
    BY <1>1, <2>1 DEF IInv, Slot, Fitting, Sized, EmptyBuf
  <2> QED BY <2>2, <2>3, <2>4 DEF IInv
<1> QED BY <1>2, <1>3

LEMMA CreateChecksKeeps == ASSUME IInv, CreateChecks PROVE IInv'
<1>1. /\ pc = "create" /\ pc' \in {"seal", "idle"}
      /\ UNCHANGED <<sizeWord, call, buf, engine, mapped, sent>>
  BY DEF CreateChecks, Succeeds, Fails
<1>2. pc' = "seal" => Accepted(call)
  BY <1>1 DEF CreateChecks, Succeeds, Fails, Accepted
<1>3. Booked' /\ ledger' = [k \in Kinds |-> ledger'[k]]
  BY <1>1, GainsAt, GivesAt
    DEF CreateChecks, Succeeds, Fails, IInv, TypeOK, Booked, Count, Slot, Kinds
<1>4. TypeOK'
  BY <1>1, <1>3, LedgerTyped DEF IInv, TypeOK
<1>5. Slot' /\ Fitting' /\ Sized'
  BY <1>1, <1>2 DEF IInv, Slot, Fitting, Sized, Accepted, Announced, Size, Stride,
    PhysWidth, PhysHeight, Overflows
<1> QED BY <1>3, <1>4, <1>5 DEF IInv

LEMMA CreateSealsKeeps == ASSUME IInv, CreateSeals PROVE IInv'
<1>1. /\ pc = "seal" /\ pc' \in {"map", "idle"}
      /\ UNCHANGED <<sizeWord, call, buf, engine, mapped, sent>>
  BY DEF CreateSeals, Succeeds, Fails
<1>2. Booked' /\ ledger' = [k \in Kinds |-> ledger'[k]]
  BY <1>1, GainsAt, GivesAt
    DEF CreateSeals, Succeeds, Fails, IInv, TypeOK, Booked, Count, Slot, Kinds
<1>3. TypeOK'
  BY <1>1, <1>2, LedgerTyped DEF IInv, TypeOK
<1>4. Slot' /\ Fitting' /\ Sized'
  BY <1>1 DEF IInv, Slot, Fitting, Sized, Accepted, Announced, Size, Stride,
    PhysWidth, PhysHeight, Overflows
<1> QED BY <1>2, <1>3, <1>4 DEF IInv

LEMMA CreateMapsKeeps == ASSUME IInv, CreateMaps PROVE IInv'
<1>1. /\ pc = "map" /\ pc' \in {"pool", "idle"}
      /\ mapped' \in {Size(call), mapped} /\ (pc' = "pool" => mapped' = Size(call))
      /\ UNCHANGED <<sizeWord, call, buf, engine, sent>>
  BY DEF CreateMaps, Succeeds, Fails
<1>2. Booked' /\ ledger' = [k \in Kinds |-> ledger'[k]]
  BY <1>1, GainsAt, GivesAt
    DEF CreateMaps, Succeeds, Fails, IInv, TypeOK, Booked, Count, Slot, Kinds
<1>3. TypeOK'
  BY <1>1, <1>2, LedgerTyped, NumbersTyped DEF IInv, TypeOK
<1>4. Slot' /\ Fitting' /\ Sized'
  BY <1>1 DEF IInv, TypeOK, Buffers, Slot, Fitting, Sized, Accepted, Size, Stride,
    PhysWidth, PhysHeight, Overflows
<1> QED BY <1>2, <1>3, <1>4 DEF IInv

LEMMA CreatePoolKeeps == ASSUME IInv, CreatePool PROVE IInv'
<1>1. pc = "pool" /\ UNCHANGED <<sizeWord, call, buf, engine>>
  BY DEF CreatePool, Fails
<1>2. CASE pc' = "buffer"
  <2>1. /\ ledger' = [Gives({"fd"}) EXCEPT !["pool"] = @ + 1]
        /\ sent' = [sent EXCEPT !.pool = Signed(Size(call))] /\ mapped' = mapped
    BY <1>2 DEF CreatePool, Fails
  <2>2. /\ ledger' = [k \in Kinds |-> ledger'[k]]
        /\ ledger'["fd"] = ledger["fd"] - 1 /\ ledger'["pool"] = ledger["pool"] - 0 + 1
        /\ \A k \in Kinds \ {"fd", "pool"} : ledger'[k] = ledger[k] - 0
    BY <2>1 DEF Gives, Kinds
  <2>3. Booked'
    BY <1>1, <1>2, <2>2 DEF IInv, TypeOK, Booked, Count, Slot, Kinds
  <2>4. TypeOK'
    BY <1>1, <1>2, <2>1, <2>2, <2>3, LedgerTyped, NumbersTyped DEF IInv, TypeOK
  <2>5. Slot' /\ Fitting' /\ Sized'
    BY <1>1, <1>2, <2>1 DEF IInv, TypeOK, Slot, Fitting, Sized, Accepted, Size, Stride,
      PhysWidth, PhysHeight, Overflows
  <2> QED BY <2>3, <2>4, <2>5 DEF IInv
<1>3. CASE pc' = "idle"
  <2>1. ledger' = Gives({"fd", "mapping"}) /\ mapped' = 0 /\ sent' = sent
    BY <1>3 DEF CreatePool, Fails
  <2>2. Booked' /\ ledger' = [k \in Kinds |-> ledger'[k]]
    BY <1>1, <1>3, <2>1, GivesAt DEF IInv, TypeOK, Booked, Count, Slot, Kinds
  <2>3. TypeOK'
    BY <1>1, <1>3, <2>1, <2>2, LedgerTyped DEF IInv, TypeOK
  <2>4. Slot' /\ Fitting' /\ Sized'
    BY <1>1, <1>3 DEF IInv, Slot, Fitting, Sized
  <2> QED BY <2>2, <2>3, <2>4 DEF IInv
<1> QED BY <1>2, <1>3 DEF CreatePool, Fails

LEMMA CreateBufferKeeps == ASSUME IInv, CreateBuffer PROVE IInv'
<1>1. pc = "buffer" /\ UNCHANGED <<sizeWord, call, engine>>
  BY DEF CreateBuffer, Fails
<1>2. CASE pc' = "surface"
  <2>1. /\ ledger' = [Gives({"pool"}) EXCEPT !["wl_buffer"] = @ + 1]
        /\ sent' = [sent EXCEPT !.width = Signed(PhysWidth(call)),
                                !.height = Signed(PhysHeight(call)),
                                !.stride = Signed(Stride(call))]
        /\ buf' = [buf EXCEPT !.wl = TRUE] /\ mapped' = mapped
    BY <1>2 DEF CreateBuffer, Fails
  <2>2. /\ buf' \in Buffers /\ buf'.wl = TRUE /\ buf'.surface = buf.surface
        /\ buf'.cr = buf.cr /\ buf'.data = buf.data
    BY <2>1 DEF IInv, TypeOK, Buffers
  <2>3. /\ sent' = [pool |-> sent.pool, width |-> Signed(PhysWidth(call)),
                    height |-> Signed(PhysHeight(call)), stride |-> Signed(Stride(call))]
        /\ sent.pool \in Int
    BY <2>1 DEF IInv, TypeOK
  <2>4. /\ ledger' = [k \in Kinds |-> ledger'[k]]
        /\ ledger'["pool"] = ledger["pool"] - 1
        /\ ledger'["wl_buffer"] = ledger["wl_buffer"] - 0 + 1
        /\ \A k \in Kinds \ {"pool", "wl_buffer"} : ledger'[k] = ledger[k] - 0
    BY <2>1 DEF Gives, Kinds
  <2>5. Booked'
    BY <1>1, <1>2, <2>2, <2>4 DEF IInv, TypeOK, Buffers, Booked, Count, Slot, Kinds
  <2>6. TypeOK'
    <3>1. sent' \in [pool : Int, width : Int, height : Int, stride : Int]
      BY <2>3, NumbersTyped DEF IInv
    <3> QED BY <1>1, <1>2, <2>1, <2>2, <2>4, <2>5, <3>1, LedgerTyped DEF IInv, TypeOK
  <2>7. Slot' /\ Fitting'
    BY <1>1, <1>2, <2>2 DEF IInv, TypeOK, Buffers, Slot, Fitting
  <2>8. Sized'
    BY <1>1, <1>2, <2>1, <2>2, <2>3 DEF IInv, Slot, Sized, Accepted, Announced, Size, Stride,
      PhysWidth, PhysHeight, Overflows
  <2> QED BY <2>5, <2>6, <2>7, <2>8 DEF IInv
<1>3. CASE pc' = "idle"
  <2>1. ledger' = Gives({"pool", "mapping"}) /\ mapped' = 0 /\ UNCHANGED <<buf, sent>>
    BY <1>3 DEF CreateBuffer, Fails
  <2>2. Booked' /\ ledger' = [k \in Kinds |-> ledger'[k]]
    BY <1>1, <1>3, <2>1, GivesAt DEF IInv, TypeOK, Booked, Count, Slot, Kinds
  <2>3. TypeOK'
    BY <1>1, <1>3, <2>1, <2>2, LedgerTyped DEF IInv, TypeOK
  <2>4. Slot' /\ Fitting' /\ Sized'
    BY <1>1, <1>3, <2>1 DEF IInv, Slot, Fitting, Sized
  <2> QED BY <2>2, <2>3, <2>4 DEF IInv
<1> QED BY <1>2, <1>3 DEF CreateBuffer, Fails

LEMMA CreateSurfaceKeeps == ASSUME IInv, CreateSurface PROVE IInv'
<1>1. /\ pc = "surface" /\ pc' \in {"context", "idle"}
      /\ UNCHANGED <<sizeWord, call, engine, sent>>
  BY DEF CreateSurface, Succeeds, Fails
<1>2. CASE pc' = "context"
  <2>1. /\ ledger' = Gains({"surface"}) /\ mapped' = mapped
        /\ buf' = [buf EXCEPT !.surface = "real"]
    BY <1>2 DEF CreateSurface, Succeeds, Fails
  <2>2. /\ buf' \in Buffers /\ buf'.wl = buf.wl /\ buf'.surface = "real"
        /\ buf'.cr = buf.cr /\ buf'.data = buf.data
    BY <2>1 DEF IInv, TypeOK, Buffers
  <2>3. Booked' /\ ledger' = [k \in Kinds |-> ledger'[k]]
    BY <1>1, <1>2, <2>1, <2>2, GainsAt DEF IInv, TypeOK, Buffers, Booked, Count, Slot, Kinds
  <2>4. TypeOK'
    BY <1>1, <1>2, <2>1, <2>2, <2>3, LedgerTyped DEF IInv, TypeOK
  <2>5. Slot' /\ Fitting'
    BY <1>1, <1>2, <2>2 DEF IInv, TypeOK, Buffers, Slot, Fitting
  <2>6. Sized'
    BY <1>1, <1>2, <2>1, <2>2 DEF IInv, Slot, Sized, Accepted, Announced, Size, Stride,
      PhysWidth, PhysHeight, Overflows
  <2> QED BY <2>3, <2>4, <2>5, <2>6 DEF IInv
<1>3. CASE pc' = "idle"
  <2>1. /\ ledger' = Gives({"wl_buffer", "mapping"}) /\ mapped' = 0
        /\ buf' = [buf EXCEPT !.surface = "error", !.wl = FALSE]
    BY <1>3 DEF CreateSurface, Succeeds, Fails, SurfaceErrorPath
  <2>2. /\ buf' \in Buffers /\ buf'.wl = FALSE /\ buf'.surface = "error"
        /\ buf'.cr = buf.cr /\ buf'.data = buf.data
    BY <2>1 DEF IInv, TypeOK, Buffers
  <2>3. Booked' /\ ledger' = [k \in Kinds |-> ledger'[k]]
    BY <1>1, <1>3, <2>1, <2>2, GivesAt DEF IInv, TypeOK, Buffers, Booked, Count, Slot, Kinds
  <2>4. TypeOK'
    BY <1>1, <1>3, <2>1, <2>2, <2>3, LedgerTyped DEF IInv, TypeOK
  <2>5. Slot' /\ Fitting' /\ Sized'
    BY <1>1, <1>3, <2>2 DEF IInv, TypeOK, Buffers, Slot, Fitting, Sized
  <2> QED BY <2>3, <2>4, <2>5 DEF IInv
<1> QED BY <1>1, <1>2, <1>3

LEMMA CreateContextKeeps == ASSUME IInv, CreateContext PROVE IInv'
<1>1. /\ pc = "context" /\ pc' \in {"listen", "idle"}
      /\ UNCHANGED <<sizeWord, call, engine, sent>>
  BY DEF CreateContext, Succeeds, Fails
<1>2. CASE pc' = "listen"
  <2>1. /\ ledger' = Gains({"context"}) /\ mapped' = mapped
        /\ buf' = [wl |-> TRUE, data |-> TRUE, surface |-> "real", cr |-> TRUE,
                   size |-> Size(call), width |-> call.width, height |-> call.height,
                   scale |-> call.scale]
    BY <1>2 DEF CreateContext, Succeeds, Fails
  <2>2. Booked' /\ ledger' = [k \in Kinds |-> ledger'[k]]
    BY <1>1, <1>2, <2>1, GainsAt DEF IInv, TypeOK, Buffers, Booked, Count, Slot, Kinds
  <2>3. TypeOK'
    <3>1. /\ call.width \in Widths \cup {0} /\ call.height \in Heights \cup {0}
          /\ call.scale \in Scales \cup {0, 1}
      BY DEF IInv, TypeOK, Calls, NoCall
    <3>2. buf' \in Buffers
      BY <2>1, <3>1, NumbersTyped DEF IInv, Buffers
    <3> QED BY <1>1, <1>2, <2>1, <2>2, <3>2, LedgerTyped DEF IInv, TypeOK
  <2>4. Slot' /\ Fitting'
    BY <1>1, <1>2, <2>1 DEF IInv, Slot, Fitting
  <2>5. Sized'
    <3>1. /\ buf'.width = call.width /\ buf'.height = call.height /\ buf'.scale = call.scale
          /\ buf'.size = Size(call)
      BY <2>1
    <3>2. Accepted(call) /\ mapped = Size(call) /\ Announced(call)
      BY <1>1 DEF IInv, Sized
    <3>3. (Accepted(buf) /\ mapped = Size(buf) /\ buf.size = mapped /\ Announced(buf))'
      BY <1>1, <2>1, <3>1, <3>2 DEF Accepted, Announced, Size, Stride, PhysWidth, PhysHeight,
        Overflows
    <3> QED BY <1>2, <3>3 DEF Sized
  <2> QED BY <2>2, <2>3, <2>4, <2>5 DEF IInv
<1>3. CASE pc' = "idle"
  <2>1. /\ ledger' = Gives({"surface", "wl_buffer", "mapping"}) /\ mapped' = 0
        /\ buf' = [buf EXCEPT !.surface = "null", !.wl = FALSE]
    BY <1>3 DEF CreateContext, Succeeds, Fails
  <2>2. /\ buf' \in Buffers /\ buf'.wl = FALSE /\ buf'.surface = "null"
        /\ buf'.cr = buf.cr /\ buf'.data = buf.data
    BY <2>1 DEF IInv, TypeOK, Buffers
  <2>3. Booked' /\ ledger' = [k \in Kinds |-> ledger'[k]]
    BY <1>1, <1>3, <2>1, <2>2, GivesAt DEF IInv, TypeOK, Buffers, Booked, Count, Slot, Kinds
  <2>4. TypeOK'
    BY <1>1, <1>3, <2>1, <2>2, <2>3, LedgerTyped DEF IInv, TypeOK
  <2>5. Slot' /\ Fitting' /\ Sized'
    BY <1>1, <1>3, <2>2 DEF IInv, TypeOK, Buffers, Slot, Fitting, Sized
  <2> QED BY <2>3, <2>4, <2>5 DEF IInv
<1> QED BY <1>1, <1>2, <1>3

LEMMA CreateListensKeeps == ASSUME IInv, CreateListens PROVE IInv'
<1>1. /\ pc = "listen" /\ pc' \in {"draw", "idle"}
      /\ UNCHANGED <<sizeWord, call, engine, sent>>
  BY DEF CreateListens, Succeeds, Fails
<1>2. CASE pc' = "draw"
  <2>1. ledger' = Gains({}) /\ UNCHANGED <<buf, mapped>>
    BY <1>2 DEF CreateListens, Succeeds, Fails
  <2>2. Booked' /\ ledger' = [k \in Kinds |-> ledger'[k]]
    BY <1>1, <1>2, <2>1, GainsAt DEF IInv, TypeOK, Booked, Count, Kinds
  <2>3. TypeOK'
    BY <1>1, <1>2, <2>1, <2>2, LedgerTyped DEF IInv, TypeOK
  <2>4. Slot' /\ Fitting' /\ Sized'
    BY <1>1, <1>2, <2>1 DEF IInv, Slot, Fitting, Sized, Accepted, Announced, Size, Stride,
      PhysWidth, PhysHeight, Overflows
  <2> QED BY <2>2, <2>3, <2>4 DEF IInv
<1>3. CASE pc' = "idle"
  <2>1. ledger' = Gives(Owned) /\ buf' = EmptyBuf(1) /\ mapped' = 0
    BY <1>3 DEF CreateListens, Succeeds, Fails
  <2>2. Booked' /\ ledger' = [k \in Kinds |-> ledger'[k]]
    BY <1>1, <1>3, <2>1, OwnedIs, GivesAt DEF IInv, TypeOK, Buffers, Booked, Count, EmptyBuf,
      Kinds
  <2>3. TypeOK'
    BY <1>1, <1>3, <2>1, <2>2, LedgerTyped DEF IInv, TypeOK, Buffers, EmptyBuf
  <2>4. Slot' /\ Fitting' /\ Sized'
    BY <1>1, <1>3, <2>1 DEF IInv, Slot, Fitting, Sized, EmptyBuf
  <2> QED BY <2>2, <2>3, <2>4 DEF IInv
<1> QED BY <1>1, <1>2, <1>3

-----------------------------------------------------------------------------
(* The steps that draw: they leave the slot alone. *)
LEMMA DrawingKeeps ==
  ASSUME IInv, Booked', Fitting', ledger' = [k \in Kinds |-> ledger'[k]],
         UNCHANGED <<sizeWord, call, buf, mapped, sent>>,
         pc \in {"draw", "bake", "pattern", "paint"},
         pc' \in {"bake", "pattern", "paint", "idle"},
         engine' \in [ready : BOOLEAN, scale : Scales \cup {0}]
  PROVE  IInv'
<1>1. TypeOK'
  BY LedgerTyped DEF IInv, TypeOK
<1>2. Slot'
  BY DEF IInv, Slot
<1>3. Sized'
  BY DEF IInv, Sized, Accepted, Announced, Size, Stride, PhysWidth, PhysHeight, Overflows
<1> QED BY <1>1, <1>2, <1>3 DEF IInv

LEMMA DrawCachedKeeps == ASSUME IInv, DrawCached PROVE IInv'
<1>1. /\ pc = "draw" /\ pc' = "paint" /\ ledger' = Gains({})
      /\ engine.ready /\ engine.scale = call.scale
      /\ UNCHANGED <<sizeWord, call, buf, engine, mapped, sent>>
  BY DEF DrawCached, IsBaked, Succeeds
<1>2. Booked' /\ ledger' = [k \in Kinds |-> ledger'[k]]
  BY <1>1, GainsAt DEF IInv, TypeOK, Booked, Count, Kinds
<1>3. Fitting' /\ engine' \in [ready : BOOLEAN, scale : Scales \cup {0}]
  BY <1>1 DEF IInv, TypeOK, Fitting
<1> QED BY <1>1, <1>2, <1>3, DrawingKeeps

LEMMA BakeCleansUpKeeps == ASSUME IInv, BakeCleansUp PROVE IInv'
<1>1. /\ pc = "draw" /\ pc' = "bake" /\ ledger' = Gives(Baked)
      /\ engine' = [ready |-> FALSE, scale |-> 0]
      /\ UNCHANGED <<sizeWord, call, buf, mapped, sent>>
  BY DEF BakeCleansUp, NoEngine
<1>2. Booked' /\ ledger' = [k \in Kinds |-> ledger'[k]]
  BY <1>1, GivesAt DEF IInv, TypeOK, Booked, Count, Kinds, Baked
<1>3. Fitting' /\ engine' \in [ready : BOOLEAN, scale : Scales \cup {0}]
  BY <1>1 DEF IInv, Fitting
<1> QED BY <1>1, <1>2, <1>3, DrawingKeeps

LEMMA BakeTextureKeeps == ASSUME IInv, BakeTexture PROVE IInv'
<1>1. /\ pc = "bake"
      /\ \/ pc' = "pattern" /\ ledger' = Gains({"texture"})
         \/ pc' = "idle" /\ ledger' = Gives({})
      /\ UNCHANGED <<sizeWord, call, buf, engine, mapped, sent>>
  BY DEF BakeTexture, Succeeds, Fails
<1>2. Booked' /\ ledger' = [k \in Kinds |-> ledger'[k]]
  BY <1>1, GainsAt, GivesAt DEF IInv, TypeOK, Booked, Count, Fitting, Kinds
<1>3. Fitting' /\ engine' \in [ready : BOOLEAN, scale : Scales \cup {0}]
  BY <1>1 DEF IInv, TypeOK, Fitting
<1> QED BY <1>1, <1>2, <1>3, DrawingKeeps

LEMMA BakePatternKeeps == ASSUME IInv, BakePattern PROVE IInv'
<1>1. /\ pc = "pattern"
      /\ \/ /\ pc' = "paint" /\ ledger' = Gains({"pattern"})
            /\ engine' = [ready |-> TRUE, scale |-> call.scale]
         \/ pc' = "idle" /\ ledger' = Gives({"texture"}) /\ engine' = engine
      /\ UNCHANGED <<sizeWord, call, buf, mapped, sent>>
  BY DEF BakePattern, Succeeds, Fails
<1>2. Booked' /\ ledger' = [k \in Kinds |-> ledger'[k]]
  BY <1>1, GainsAt, GivesAt DEF IInv, TypeOK, Booked, Count, Fitting, Kinds
<1>3. Fitting'
  BY <1>1 DEF IInv, Fitting
<1>4. engine' \in [ready : BOOLEAN, scale : Scales \cup {0}]
  <2>1. call.scale \in Scales \cup {0}
    BY DEF IInv, TypeOK, Calls, NoCall
  <2>2. engine \in [ready : BOOLEAN, scale : Scales \cup {0}]
    BY DEF IInv, TypeOK
  <2>3. \/ engine' = engine
        \/ engine' = [ready |-> TRUE, scale |-> call.scale]
    BY <1>1
  <2>4. [ready |-> TRUE, scale |-> call.scale] \in [ready : BOOLEAN, scale : Scales \cup {0}]
    BY <2>1
  <2> QED BY <2>2, <2>3, <2>4
<1> QED BY <1>1, <1>2, <1>3, <1>4, DrawingKeeps

LEMMA PaintKeeps == ASSUME IInv, Paint PROVE IInv'
<1>1. /\ pc = "paint" /\ pc' = "idle" /\ ledger' = Gains({})
      /\ UNCHANGED <<sizeWord, call, buf, engine, mapped, sent>>
  BY DEF Paint, Succeeds
<1>2. Booked' /\ ledger' = [k \in Kinds |-> ledger'[k]]
  BY <1>1, GainsAt DEF IInv, TypeOK, Booked, Count, Kinds
<1>3. Fitting' /\ engine' \in [ready : BOOLEAN, scale : Scales \cup {0}]
  BY <1>1 DEF IInv, TypeOK, Fitting
<1> QED BY <1>1, <1>2, <1>3, DrawingKeeps

LEMMA DestroyKeeps == ASSUME IInv, Destroy PROVE IInv'
<1>1. /\ pc = "idle" /\ pc' = "gone" /\ ledger' = Gives(Owned \cup Baked)
      /\ buf' = EmptyBuf(1) /\ engine' = [ready |-> FALSE, scale |-> 0] /\ mapped' = 0
      /\ UNCHANGED <<sizeWord, call, sent>>
  BY DEF Destroy, NoEngine
<1>2. Booked' /\ ledger' = [k \in Kinds |-> ledger'[k]]
  BY <1>1, OwnedIs, GivesAt DEF IInv, TypeOK, Buffers, Booked, Count, EmptyBuf, Baked, Kinds
<1>3. TypeOK'
  BY <1>1, <1>2, LedgerTyped DEF IInv, TypeOK, Buffers, EmptyBuf
<1>4. Slot' /\ Fitting' /\ Sized'
  BY <1>1 DEF IInv, Slot, Fitting, Sized, EmptyBuf
<1> QED BY <1>2, <1>3, <1>4 DEF IInv

-----------------------------------------------------------------------------
LEMMA Inductive == Spec => []IInv
<1>1. Init => IInv
  <2> SUFFICES ASSUME Init PROVE IInv
    OBVIOUS
  <2>1. TypeOK
    BY DEF Init, TypeOK, Calls, Buffers, EmptyBuf, NoEngine
  <2>2. Booked /\ Slot /\ Fitting /\ Sized
    BY DEF Init, Booked, Count, Kinds, Slot, Fitting, Sized, EmptyBuf, NoEngine
  <2> QED BY <2>1, <2>2 DEF IInv
<1>2. IInv /\ [Next]_vars => IInv'
  <2> SUFFICES ASSUME IInv, [Next]_vars PROVE IInv'
    OBVIOUS
  <2>1. CASE UNCHANGED vars
    BY <2>1 DEF vars, IInv, TypeOK, Booked, Slot, Fitting, Sized, Accepted, Announced, Size,
      Stride, PhysWidth, PhysHeight, Overflows
  <2> QED BY <2>1, RenderFrameKeeps, CreateChecksKeeps, CreateSealsKeeps, CreateMapsKeeps,
        CreatePoolKeeps, CreateBufferKeeps, CreateSurfaceKeeps, CreateContextKeeps,
        CreateListensKeeps, DrawCachedKeeps, BakeCleansUpKeeps, BakeTextureKeeps,
        BakePatternKeeps, PaintKeeps, DestroyKeeps DEF Next, Gone
<1> QED BY <1>1, <1>2, PTL DEF Spec

(* The type invariant: nothing of a kind is ever held twice, or given back  *)
(* when it is not held.                                                     *)
THEOREM TypeCorrect == Spec => []TypeOK
<1>1. IInv => TypeOK
  BY DEF IInv
<1> QED BY <1>1, Inductive, PTL

(* Whichever of the calls fails, between two frames kl_buffer_create and    *)
(* the render engine hold all or nothing of what they make.                 *)
THEOREM NothingLeaks == Spec => []AllOrNothing
<1>1. IInv => AllOrNothing
  BY DEF IInv, TypeOK, Buffers, Booked, Count, Slot, Fitting, AllOrNothing, Kinds
<1> QED BY <1>1, Inductive, PTL

(* Cairo draws inside the mapping, whatever the width of int and of size_t, *)
(* the geometry and the scale.                                              *)
THEOREM NeverDrawsOutside == Spec => []DrawsInside
<1>1. ASSUME IInv, pc \in {"draw", "bake", "pattern", "paint"}
      PROVE  sent.stride * sent.height <= mapped
  <2>1. buf.cr
    BY <1>1 DEF IInv, Slot
  <2>2. Accepted(buf) /\ mapped = Size(buf) /\ Announced(buf)
    BY <1>1, <2>1 DEF IInv, Sized
  <2>3. sent.stride = Signed(Stride(buf)) /\ sent.height = Signed(PhysHeight(buf))
    BY <2>2 DEF Announced
  <2>4. Lengths(buf) /\ sizeWord \in SizeWords
    BY <1>1, LengthsOK DEF IInv, TypeOK
  <2> QED BY <2>2, <2>3, <2>4, ImageInside
<1>2. IInv => DrawsInside
  BY <1>1 DEF DrawsInside
<1> QED BY <1>2, Inductive, PTL

(* Of a frame whose size in bytes fits an int, the compositor is told the   *)
(* true dimensions.                                                         *)
THEOREM SizesAreSentExactly == Spec => []SentExact
<1>1. IInv => SentExact
  <2> SUFFICES ASSUME IInv, NEW width, width = call.width * call.scale, width <= IntMax,
                      NEW height, height = call.height * call.scale, height <= IntMax,
                      pc = "paint", 4 * width * height <= IntMax
               PROVE  sent = [pool |-> 4 * width * height, width |-> width,
                              height |-> height, stride |-> 4 * width]
    BY DEF SentExact
  <2>1. buf.width = call.width /\ buf.height = call.height /\ buf.scale = call.scale
    BY DEF IInv, Fitting
  <2>2. Accepted(buf) /\ Announced(buf)
    BY DEF IInv, Slot, Sized
  <2>3. Lengths(buf) /\ sizeWord \in SizeWords
    BY LengthsOK DEF IInv, TypeOK
  <2> QED BY <2>1, <2>2, <2>3, AnnouncedExact
<1> QED BY <1>1, Inductive, PTL

(* However the sizes and the scale change between frames, the texture that  *)
(* is painted and the slot, the mapping and the buffer it is painted on     *)
(* were made for this frame.                                                *)
THEOREM AlwaysMadeForTheFrame == Spec => []MadeForThisFrame
<1>1. ASSUME IInv, pc = "paint"
      PROVE  /\ mapped = Size(call)
             /\ sent.width = Signed(PhysWidth(call)) /\ sent.height = Signed(PhysHeight(call))
  <2>1. buf.width = call.width /\ buf.height = call.height /\ buf.scale = call.scale
    BY <1>1 DEF IInv, Fitting
  <2>2. mapped = Size(buf) /\ Announced(buf)
    BY <1>1 DEF IInv, Slot, Sized
  <2> QED BY <2>1, <2>2 DEF Announced, Size, Stride, PhysWidth, PhysHeight
<1>2. IInv => MadeForThisFrame
  BY <1>1 DEF IInv, Slot, Fitting, MadeForThisFrame
<1> QED BY <1>2, Inductive, PTL
=============================================================================
