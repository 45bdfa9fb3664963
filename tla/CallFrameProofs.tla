---------------------------- MODULE CallFrameProofs ----------------------------
(***************************************************************************)
(* Proofs that chains of calls keep every suspended frame, pass every       *)
(* argument and restore registers, stack pointer and return address, for    *)
(* any functions, any number of registers and any depth of calls.           *)
(***************************************************************************)
EXTENDS CallFrame, FiniteSetTheorems, TLAPS

(* The frames lie one under the other, the running function's at sp.        *)
Layout ==
  /\ sp = IF frames = <<>> THEN StackTop ELSE Base(Depth)
  /\ \A d \in DOMAIN frames :
       /\ frames[d].entry.sp = IF d = 1 THEN StackTop ELSE Base(d - 1)
       /\ 0 <= Base(d) /\ Base(d) <= frames[d].entry.sp /\ frames[d].entry.sp <= StackTop
  /\ \A d, e \in DOMAIN frames : d < e => frames[e].entry.sp <= Base(d)

(* Who has called is at work and has saved its return address.              *)
Suspended ==
  \A d \in DOMAIN frames :
    d < Depth \/ pending # NoCall => frames[d].busy /\ ~frames[d].shape.leaf

(* What frame f of depth d, in memory m, keeps until it returns: its        *)
(* locals, the registers and the return address of its entry, and the       *)
(* arguments va_arg will ask for.  A leaf's return address is in a register.*)
Keeps(f, d, m, link) ==
  LET s == f.shape
      b == f.entry.sp - Total(s)
  IN  /\ f.busy => \A k \in s.outgoing .. Slots(s) - 1 : m[b + k] = <<"own", d, k>>
      /\ \A r \in s.saves : m[b + SaveSlot(s, r)] = f.entry.saved[r]
      /\ IF s.leaf THEN link = f.entry.lr ELSE m[b + LrSlot(s)] = f.entry.lr
      /\ s.variadic => \A i \in ArgRegs :
           i <= f.args => m[b + Slots(s) + i - 1] = <<"arg", d, i>>
FramesKept == \A d \in DOMAIN frames : Keeps(frames[d], d, mem, lr)

(* What register r held when frame d last ran.                              *)
Held(d, r) == IF d = Depth THEN reg[r] ELSE frames[d + 1].entry.saved[r]

(* A function that saves a register may use it; another leaves it as it was.*)
Preserved ==
  \A d \in DOMAIN frames, r \in CalleeSaved :
    IF r \in frames[d].shape.saves
      THEN frames[d].busy => Held(d, r) = <<"own", d, r>>
      ELSE Held(d, r) = frames[d].entry.saved[r]

(* The arguments of the call just made are where the callee looks for them. *)
Passed ==
  pending # NoCall =>
    /\ fetched = Nothing /\ Depth < MaxDepth
    /\ pending.shape.params <= pending.args
    /\ Total(pending.shape) <= sp
    /\ \A i \in 1 .. pending.args :
         IF i <= NumArgRegs THEN reg[i] = <<"arg", Depth + 1, i>>
         ELSE mem[sp + i - NumArgRegs - 1] = <<"arg", Depth + 1, i>>

(* Where va_arg will read.                                                  *)
Cursor(f) ==
  IF f.busy
    THEN f.shape.variadic =>
           f.ap = f.entry.sp - Total(f.shape) + Slots(f.shape) + f.shape.named + f.taken
    ELSE f.taken = 0
Cursors == \A d \in DOMAIN frames : Cursor(frames[d])

IInv ==
  /\ TypeOK /\ Layout /\ Suspended /\ FramesKept /\ Preserved
  /\ Passed /\ Cursors /\ ArgumentsReceived

-----------------------------------------------------------------------------
(* What codegen knows of a function, field by field.                        *)
LEMMA ShapeFields ==
  ASSUME NEW s \in Shapes
  PROVE  /\ s.outgoing \in Nat /\ s.named \in Nat /\ s.params \in Nat /\ s.locals \in Nat
         /\ s.variadic \in BOOLEAN /\ s.leaf \in BOOLEAN
         /\ s.saves \in SUBSET CalleeSaved
<1>1. s \in Shape
  BY CallAssumption
<1> QED
  BY <1>1, CallAssumption DEF Shape

(* The parts of a frame have lengths.                                       *)
LEMMA ShapeSizes ==
  ASSUME NEW s \in Shapes
  PROVE  /\ IsFiniteSet(s.saves)
         /\ Cardinality(s.saves) \in Nat /\ Slots(s) \in Nat /\ SpillWords(s) \in Nat
         /\ LrWords(s) \in Nat /\ LrSlot(s) \in Nat /\ Total(s) \in Nat
<1>1. s.outgoing \in Nat /\ s.params \in Nat /\ s.locals \in Nat
  BY ShapeFields
<1>2. IsFiniteSet(s.saves) /\ Cardinality(s.saves) \in Nat
  BY ShapeFields, CallAssumption, FS_Subset, FS_CardinalityType
<1>3. Slots(s) \in Nat /\ SpillWords(s) \in Nat /\ LrWords(s) \in Nat
  BY <1>1, CallAssumption DEF Slots, SpillWords, LrWords
<1> QED
  BY <1>2, <1>3 DEF LrSlot, Total

(* The parts lie in this order.                                             *)
LEMMA ShapeOrder ==
  ASSUME NEW s \in Shapes
  PROVE  /\ s.outgoing + s.params <= Slots(s)
         /\ Slots(s) + SpillWords(s) <= LrSlot(s)
         /\ LrSlot(s) <= Total(s)
         /\ ~s.leaf => LrSlot(s) + 1 = Total(s)
<1>1. s.outgoing \in Nat /\ s.params \in Nat /\ s.locals \in Nat
  BY ShapeFields
<1>2. /\ Cardinality(s.saves) \in Nat /\ Slots(s) \in Nat /\ SpillWords(s) \in Nat
      /\ LrWords(s) \in Nat
  BY ShapeSizes
<1>3. s.outgoing + s.params <= Slots(s)
  BY <1>1 DEF Slots
<1>4. Slots(s) + SpillWords(s) <= LrSlot(s) /\ LrSlot(s) <= Total(s)
  BY <1>2 DEF LrSlot, Total
<1>5. ~s.leaf => LrSlot(s) + 1 = Total(s)
  BY <1>2 DEF LrSlot, Total, LrWords
<1> QED
  BY <1>3, <1>4, <1>5

(* Each saved register has a word of its own between the slots and the      *)
(* link register.                                                           *)
LEMMA SaveSlotFacts ==
  ASSUME NEW s \in Shapes, NEW r \in s.saves
  PROVE  /\ SaveSlot(s, r) \in Slots(s) + SpillWords(s) .. LrSlot(s) - 1
         /\ \A q \in s.saves : SaveSlot(s, q) = SaveSlot(s, r) => q = r
<1> DEFINE Below(q) == {x \in s.saves : x < q}
<1>1. IsFiniteSet(s.saves) /\ s.saves \subseteq Nat /\ Cardinality(s.saves) \in Nat
  BY ShapeFields, ShapeSizes, CallAssumption
<1>2. ASSUME NEW q \in s.saves
      PROVE  /\ IsFiniteSet(Below(q)) /\ Cardinality(Below(q)) \in Nat
             /\ Cardinality(Below(q)) < Cardinality(s.saves)
  <2>1. Below(q) \in SUBSET s.saves /\ q \notin Below(q)
    BY <1>1
  <2> HIDE DEF Below
  <2>2. IsFiniteSet(Below(q)) /\ Cardinality(Below(q)) \in Nat
    BY <1>1, <2>1, FS_Subset, FS_CardinalityType
  <2>3. Cardinality(Below(q)) <= Cardinality(s.saves)
    BY <1>1, <2>1, FS_Subset
  <2>4. Cardinality(Below(q)) # Cardinality(s.saves)
    BY <1>1, <2>1, FS_Subset
  <2> QED
    BY <1>1, <2>2, <2>3, <2>4
<1>3. ASSUME NEW p \in s.saves, NEW q \in s.saves, p < q
      PROVE  Cardinality(Below(p)) # Cardinality(Below(q))
  <2>1. Below(p) \in SUBSET Below(q) /\ p \in Below(q) /\ p \notin Below(p)
    BY <1>1, <1>3
  <2>2. IsFiniteSet(Below(q))
    BY <1>2
  <2> HIDE DEF Below
  <2> QED
    BY <2>1, <2>2, FS_Subset
<1>4. \A q \in s.saves : SaveSlot(s, q) = Slots(s) + SpillWords(s) + Cardinality(Below(q))
  BY DEF SaveSlot
<1> HIDE DEF Below
<1>5. /\ Slots(s) \in Nat /\ SpillWords(s) \in Nat
      /\ LrSlot(s) = Slots(s) + SpillWords(s) + Cardinality(s.saves)
  <2>1. Slots(s) \in Nat /\ SpillWords(s) \in Nat
    BY ShapeSizes
  <2> QED
    BY <2>1 DEF LrSlot
<1>6. SaveSlot(s, r) \in Slots(s) + SpillWords(s) .. LrSlot(s) - 1
  <2>1. SaveSlot(s, r) = Slots(s) + SpillWords(s) + Cardinality(Below(r))
    BY <1>4
  <2> QED
    BY <1>1, <1>2, <1>5, <2>1
<1>7. ASSUME NEW q \in s.saves, SaveSlot(s, q) = SaveSlot(s, r)
      PROVE  q = r
  <2>1. Cardinality(Below(q)) = Cardinality(Below(r))
    <3>1. Slots(s) + SpillWords(s) + Cardinality(Below(q)) =
            Slots(s) + SpillWords(s) + Cardinality(Below(r))
      BY <1>4, <1>7
    <3> QED
      BY <1>2, <1>5, <3>1
  <2>2. ~(q < r) /\ ~(r < q) /\ q \in Nat /\ r \in Nat
    BY <1>1, <1>3, <2>1
  <2> QED
    BY <2>2
<1> QED
  BY <1>6, <1>7

(* An active function is one of the program, with its frame on the stack.   *)
LEMMA FrameFacts ==
  ASSUME TypeOK, NEW d \in DOMAIN frames
  PROVE  /\ frames[d] \in Frame /\ frames[d].shape \in Shapes
         /\ frames[d].args \in Nat /\ frames[d].entry.sp \in Nat
         /\ Base(d) = frames[d].entry.sp - Total(frames[d].shape) /\ Base(d) \in Int
         /\ Depth \in Nat /\ DOMAIN frames = 1 .. Depth /\ d \in 1 .. Depth
<1>1. frames[d] \in Frame /\ Depth \in Nat /\ DOMAIN frames = 1 .. Depth
  BY DEF TypeOK, Depth
<1>2. /\ frames[d].shape \in Shapes /\ frames[d].args \in Nat
      /\ frames[d].entry.sp \in Nat
  BY <1>1, CallAssumption DEF Frame
<1>3. Total(frames[d].shape) \in Nat
  BY <1>2, ShapeSizes
<1> QED
  BY <1>1, <1>2, <1>3 DEF Base

(* A frame keeps what it keeps while nobody writes above its outgoing area. *)
LEMMA KeepsOn ==
  ASSUME NEW f \in Frame, NEW d, NEW m, NEW m2, NEW l, NEW l2,
         Keeps(f, d, m, l),
         \A w \in f.entry.sp - Total(f.shape) + f.shape.outgoing .. f.entry.sp - 1 :
           m2[w] = m[w],
         f.shape.leaf => l2 = l
  PROVE  Keeps(f, d, m2, l2)
<1> DEFINE s == f.shape
           b == f.entry.sp - Total(s)
<1>1. s \in Shapes /\ f.entry.sp \in Nat /\ NumArgRegs \in Nat
  BY CallAssumption DEF Frame
<1>2. b \in Int /\ f.entry.sp = b + Total(s)
  <2>1. Total(s) \in Nat
    BY <1>1, ShapeSizes
  <2> QED
    BY <1>1, <2>1
<1>3. \A w \in b + s.outgoing .. f.entry.sp - 1 : m2[w] = m[w]
  OBVIOUS
<1> HIDE DEF b, s
<1>4. /\ s.outgoing \in Nat /\ s.params \in Nat /\ s.variadic \in BOOLEAN
      /\ Slots(s) \in Nat /\ SpillWords(s) \in Nat
      /\ LrSlot(s) \in Nat /\ Total(s) \in Nat
  BY <1>1, ShapeFields, ShapeSizes
<1>5. /\ s.outgoing + s.params <= Slots(s)
      /\ Slots(s) + SpillWords(s) <= LrSlot(s) /\ LrSlot(s) <= Total(s)
      /\ ~s.leaf => LrSlot(s) + 1 = Total(s)
  BY <1>1, ShapeOrder
<1>6. \A k \in s.outgoing .. Total(s) - 1 : m2[b + k] = m[b + k]
  <2> TAKE k \in s.outgoing .. Total(s) - 1
  <2>1. b + k \in b + s.outgoing .. f.entry.sp - 1
    BY <1>2, <1>4
  <2> QED
    BY <1>3, <2>1
<1>7. \A k \in s.outgoing .. Slots(s) - 1 : m2[b + k] = m[b + k]
  BY <1>6, <1>5, <1>4
<1>8. \A r \in s.saves : m2[b + SaveSlot(s, r)] = m[b + SaveSlot(s, r)]
  <2> TAKE r \in s.saves
  <2>1. SaveSlot(s, r) \in Slots(s) + SpillWords(s) .. LrSlot(s) - 1
    BY <1>1, SaveSlotFacts
  <2> QED
    BY <1>6, <1>5, <1>4, <2>1
<1>9. ~s.leaf => m2[b + LrSlot(s)] = m[b + LrSlot(s)]
  BY <1>6, <1>5, <1>4
<1>10. s.variadic => \A i \in ArgRegs : m2[b + Slots(s) + i - 1] = m[b + Slots(s) + i - 1]
  <2> SUFFICES ASSUME s.variadic, NEW i \in ArgRegs
               PROVE  m2[b + Slots(s) + i - 1] = m[b + Slots(s) + i - 1]
    OBVIOUS
  <2>1. /\ Slots(s) + i - 1 \in s.outgoing .. Total(s) - 1
        /\ b + (Slots(s) + i - 1) = b + Slots(s) + i - 1
    <3>1. SpillWords(s) = NumArgRegs
      BY DEF SpillWords
    <3> QED
      BY <1>1, <1>2, <1>5, <1>4, <3>1 DEF ArgRegs
  <2> QED
    BY <1>6, <2>1
<1> QED
  BY <1>7, <1>8, <1>9, <1>10 DEF Keeps, b, s

-----------------------------------------------------------------------------
(* Before the call of main nothing is active.                               *)
LEMMA InitInv == Init => IInv
<1> SUFFICES ASSUME Init PROVE IInv
  OBVIOUS
<1>1. Junk \in Value /\ \A r \in ArgRegs \cup CalleeSaved : <<"own", 0, r>> \in Value
  BY CallAssumption DEF Junk, Value, ArgRegs
<1>2. frames = <<>> /\ DOMAIN frames = {} /\ Len(frames) = 0
  BY DEF Init
<1>3. TypeOK
  BY <1>1, <1>2, CallAssumption DEF Init, TypeOK
<1>4. Layout /\ Suspended /\ FramesKept /\ Preserved /\ Cursors
  BY <1>2 DEF Init, Layout, Suspended, FramesKept, Preserved, Cursors
<1>5. Passed /\ ArgumentsReceived
  BY <1>2 DEF Init, Passed, ArgumentsReceived
<1> QED
  BY <1>3, <1>4, <1>5 DEF IInv

-----------------------------------------------------------------------------
(* The frames of suspended functions lie above the running function's.      *)
LEMMA Above ==
  ASSUME TypeOK, Layout, NEW d \in DOMAIN frames
  PROVE  /\ sp <= Base(d)
         /\ d # Depth => sp + Total(Top.shape) <= Base(d)
         /\ d = Depth => sp = Base(d)
         /\ Base(d) + Total(frames[d].shape) = frames[d].entry.sp
         /\ 0 <= Base(d) /\ frames[d].entry.sp <= StackTop
<1>1. d \in 1 .. Depth /\ Depth \in Nat /\ DOMAIN frames = 1 .. Depth /\ Base(d) \in Int
  BY FrameFacts
<1>2. Depth \in DOMAIN frames /\ frames # <<>>
  BY <1>1
<1>3. sp = Base(Depth) /\ sp \in Int
  BY <1>2, FrameFacts DEF Layout
<1>4. /\ Total(Top.shape) \in Nat /\ Total(frames[d].shape) \in Nat
      /\ frames[d].entry.sp \in Nat
      /\ frames[Depth].entry.sp \in Nat /\ Base(Depth) = frames[Depth].entry.sp - Total(Top.shape)
      /\ Base(d) = frames[d].entry.sp - Total(frames[d].shape)
  BY <1>2, FrameFacts, ShapeSizes DEF Top
<1>5. 0 <= Base(d) /\ frames[d].entry.sp <= StackTop
  BY DEF Layout
<1>6. CASE d = Depth
  BY <1>3, <1>4, <1>5, <1>6
<1>7. CASE d # Depth
  <2>1. frames[Depth].entry.sp <= Base(d)
    BY <1>1, <1>2, <1>7 DEF Layout
  <2> QED
    BY <1>1, <1>3, <1>4, <1>5, <1>7, <2>1
<1> QED
  BY <1>6, <1>7

(* A call writes argument registers and the caller's outgoing words only.   *)
LEMMA CallInv == IInv /\ Call => IInv'
<1> SUFFICES ASSUME IInv, Call PROVE IInv'
  OBVIOUS
<1>1. /\ TypeOK /\ Layout /\ Suspended /\ FramesKept /\ Preserved
      /\ Passed /\ Cursors /\ ArgumentsReceived
  BY DEF IInv
<1>2. PICK s \in Shapes, n \in 0 .. MaxArgs :
        /\ pending = NoCall
        /\ Depth < MaxDepth
        /\ IF s.variadic THEN n >= s.params ELSE n = s.params
        /\ IF frames = <<>> THEN n <= NumArgRegs
           ELSE Running /\ ~Top.shape.leaf /\ Overflow(n) <= Top.shape.outgoing
        /\ sp >= Total(s)
        /\ reg' = [r \in DOMAIN reg |->
                     IF r \in CalleeSaved THEN reg[r]
                     ELSE IF r <= n THEN <<"arg", Depth + 1, r>> ELSE Junk]
        /\ mem' = [w \in DOMAIN mem |->
                     IF w - sp \in 0 .. n - NumArgRegs - 1
                       THEN <<"arg", Depth + 1, w - sp + NumArgRegs + 1>> ELSE mem[w]]
        /\ lr' = <<"return", Depth + 1, 0>>
        /\ pending' = [shape |-> s, args |-> n]
        /\ fetched' = Nothing
        /\ frames' = frames /\ sp' = sp
  BY DEF Call
<1>3. /\ Depth \in Nat /\ Depth' = Depth /\ DOMAIN frames = 1 .. Depth
      /\ n \in Nat /\ NumArgRegs \in Nat /\ sp \in Nat /\ StackTop \in Nat
      /\ DOMAIN mem = 0 .. StackTop - 1
      /\ DOMAIN reg = ArgRegs \cup CalleeSaved
      /\ DOMAIN frames' = DOMAIN frames
  BY <1>1, <1>2, CallAssumption DEF TypeOK, Depth
<1>4. ArgRegs \cap CalleeSaved = {}
  BY CallAssumption DEF ArgRegs
<1>5. TypeOK'
  <2>1. Junk \in Value /\ lr' \in Value
    BY <1>2, <1>3 DEF Junk, Value
  <2>2. \A r \in ArgRegs : <<"arg", Depth + 1, r>> \in Value
    BY <1>3 DEF Value, ArgRegs
  <2>3. reg' \in [ArgRegs \cup CalleeSaved -> Value]
    BY <1>1, <1>2, <1>3, <2>1, <2>2 DEF TypeOK
  <2>4. \A w \in 0 .. StackTop - 1 : w - sp \in 0 .. n - NumArgRegs - 1 =>
          <<"arg", Depth + 1, w - sp + NumArgRegs + 1>> \in Value
    BY <1>3 DEF Value
  <2>5. mem' \in [0 .. StackTop - 1 -> Value]
    BY <1>1, <1>2, <1>3, <2>4 DEF TypeOK
  <2>6. pending' \in [shape : Shapes, args : 0 .. MaxArgs]
    BY <1>2
  <2> QED
    BY <1>1, <1>2, <2>1, <2>3, <2>5, <2>6 DEF TypeOK
<1>6. Layout'
  BY <1>1, <1>2, <1>3 DEF Layout, Base, Depth
<1>7. frames # <<>> => /\ Depth \in DOMAIN frames /\ Running /\ Top.busy /\ ~Top.shape.leaf
                       /\ n - NumArgRegs <= Top.shape.outgoing
  BY <1>2, <1>3 DEF Running, Overflow
<1>8. Suspended'
  BY <1>1, <1>2, <1>3, <1>7 DEF Suspended, Top
<1>9. FramesKept'
  <2> SUFFICES ASSUME NEW d \in DOMAIN frames PROVE Keeps(frames[d], d, mem', lr')
    BY <1>2, <1>3 DEF FramesKept
  <2> DEFINE s2 == frames[d].shape
  <2>1. /\ frames[d] \in Frame /\ s2 \in Shapes /\ Base(d) \in Int
        /\ Base(d) = frames[d].entry.sp - Total(s2)
        /\ frames[d].entry.sp \in Nat
    BY <1>1, FrameFacts
  <2>2. Top.shape \in Shapes /\ d \in 1 .. Depth
    BY <1>1, <1>3, FrameFacts DEF Top
  <2>3. /\ s2.outgoing \in Nat /\ Top.shape.outgoing \in Nat /\ Top.shape.params \in Nat
        /\ Total(Top.shape) \in Nat /\ Slots(Top.shape) \in Nat
        /\ SpillWords(Top.shape) \in Nat /\ LrSlot(Top.shape) \in Nat
    BY <2>1, <2>2, ShapeFields, ShapeSizes
  <2>4. Top.shape.outgoing <= Total(Top.shape)
    <3>1. /\ Top.shape.outgoing + Top.shape.params <= Slots(Top.shape)
          /\ Slots(Top.shape) + SpillWords(Top.shape) <= LrSlot(Top.shape)
          /\ LrSlot(Top.shape) <= Total(Top.shape)
      BY <2>2, ShapeOrder
    <3> QED
      BY <2>3, <3>1
  <2>5. /\ d # Depth => sp + Total(Top.shape) <= Base(d)
        /\ d = Depth => sp = Base(d)
        /\ 0 <= Base(d) /\ frames[d].entry.sp <= StackTop
    BY <1>1, Above
  <2>6. n - NumArgRegs <= Top.shape.outgoing
    BY <1>3, <1>7, <2>2
  <2>7. /\ sp \in Int /\ n \in Int /\ NumArgRegs \in Int /\ Base(d) \in Int
        /\ s2.outgoing \in Nat /\ Top.shape.outgoing \in Nat /\ Total(Top.shape) \in Nat
    BY <1>3, <2>1, <2>3
  <2>8. sp + n - NumArgRegs <= Base(d) + s2.outgoing
    <3>1. CASE d = Depth
      <4>1. s2.outgoing = Top.shape.outgoing /\ sp = Base(d)
        BY <2>5, <3>1 DEF Top
      <4> HIDE DEF s2
      <4> QED
        BY <2>6, <2>7, <4>1
    <3>2. CASE d # Depth
      <4>1. sp + Total(Top.shape) <= Base(d)
        BY <2>5, <3>2
      <4> HIDE DEF s2
      <4> QED
        BY <2>4, <2>6, <2>7, <4>1
    <3> QED
      BY <3>1, <3>2
  <2>9. ASSUME NEW w \in Base(d) + s2.outgoing .. frames[d].entry.sp - 1
        PROVE  mem'[w] = mem[w]
    <3>1. w \in 0 .. StackTop - 1 /\ w - sp \notin 0 .. n - NumArgRegs - 1
      <4>1. w \in Int /\ Base(d) + s2.outgoing <= w /\ w <= frames[d].entry.sp - 1
        BY <2>1, <2>7
      <4>2. 0 <= Base(d) /\ frames[d].entry.sp <= StackTop /\ frames[d].entry.sp \in Int
        BY <2>1, <2>5
      <4> HIDE DEF s2
      <4>3. Base(d) <= w
        BY <2>7, <4>1
      <4>4. Base(d) \in Int /\ StackTop \in Nat
        BY <1>3, <2>7
      <4>5. 0 <= w /\ w <= StackTop - 1
        BY <4>1, <4>2, <4>3, <4>4
      <4>6. w - sp >= n - NumArgRegs
        BY <2>8, <2>7, <4>1
      <4>7. w - sp \notin 0 .. n - NumArgRegs - 1
        BY <2>7, <4>1, <4>6
      <4> QED
        BY <4>1, <4>4, <4>5, <4>7
    <3> QED
      BY <1>2, <1>3, <3>1
  <2>10. ~s2.leaf
    BY <1>1, <1>2, <1>3, <1>7, <2>2 DEF Suspended, Top
  <2>11. Keeps(frames[d], d, mem, lr)
    BY <1>1 DEF FramesKept
  <2>12. \A w \in frames[d].entry.sp - Total(s2) + s2.outgoing .. frames[d].entry.sp - 1 :
           mem'[w] = mem[w]
    BY <2>1, <2>9
  <2> QED
    BY <2>1, <2>10, <2>11, <2>12, KeepsOn
<1>10. Preserved'
  <2>1. \A r \in CalleeSaved : reg'[r] = reg[r]
    BY <1>2, <1>3
  <2> QED
    BY <1>1, <1>2, <1>3, <2>1 DEF Preserved, Held
<1>11. Passed'
  <2>1. pending'.shape = s /\ pending'.args = n
    BY <1>2
  <2>2. s.params \in Nat /\ s.params <= n
    BY <1>2, <1>3, ShapeFields
  <2>3. ASSUME NEW i \in 1 .. n, i <= NumArgRegs PROVE reg'[i] = <<"arg", Depth + 1, i>>
    <3>1. i \in ArgRegs /\ i \notin CalleeSaved /\ i <= n
      BY <1>3, <1>4, <2>3 DEF ArgRegs
    <3> QED
      BY <1>2, <1>3, <3>1
  <2>4. ASSUME NEW i \in 1 .. n, ~(i <= NumArgRegs)
        PROVE  mem'[sp + i - NumArgRegs - 1] = <<"arg", Depth + 1, i>>
    <3> DEFINE w == sp + i - NumArgRegs - 1
    <3>1. /\ w \in Nat /\ w - sp \in 0 .. n - NumArgRegs - 1
          /\ w - sp + NumArgRegs + 1 = i
      BY <1>3, <2>4
    <3>2. frames # <<>>
      BY <1>2, <1>3, <2>4
    <3>3. Depth \in DOMAIN frames /\ n - NumArgRegs <= Top.shape.outgoing
      BY <1>7, <3>2
    <3>4. /\ sp + Total(Top.shape) <= StackTop
      <4>1. /\ sp = Base(Depth) /\ frames[Depth].entry.sp <= StackTop
            /\ Base(Depth) + Total(frames[Depth].shape) = frames[Depth].entry.sp
        BY <1>1, <3>3, Above
      <4> QED
        BY <4>1 DEF Top
    <3>5. /\ Top.shape.outgoing \in Nat /\ Top.shape.params \in Nat
          /\ Total(Top.shape) \in Nat /\ Slots(Top.shape) \in Nat
          /\ SpillWords(Top.shape) \in Nat /\ LrSlot(Top.shape) \in Nat
          /\ Top.shape.outgoing + Top.shape.params <= Slots(Top.shape)
          /\ Slots(Top.shape) + SpillWords(Top.shape) <= LrSlot(Top.shape)
          /\ LrSlot(Top.shape) <= Total(Top.shape)
      <4>1. Top.shape \in Shapes
        BY <1>1, <3>3, FrameFacts DEF Top
      <4> QED
        BY <4>1, ShapeFields, ShapeSizes, ShapeOrder
    <3>6. w \in 0 .. StackTop - 1
      <4>1. Top.shape.outgoing <= Total(Top.shape)
        BY <3>5
      <4>2. /\ Top.shape.outgoing \in Nat /\ Total(Top.shape) \in Nat
            /\ n \in Int /\ i \in Int /\ i <= n /\ NumArgRegs \in Int /\ sp \in Int
        BY <1>3, <2>4, <3>5
      <4>3. i - NumArgRegs - 1 <= Top.shape.outgoing - 1
        BY <3>3, <4>2
      <4>4. w <= sp + Total(Top.shape) - 1
        BY <4>1, <4>2, <4>3
      <4>5. w \in Nat /\ StackTop \in Nat
        BY <1>3, <3>1
      <4>6. sp + Total(Top.shape) <= StackTop
        BY <3>4
      <4> HIDE DEF w
      <4> QED
        BY <4>2, <4>4, <4>5, <4>6
    <3> HIDE DEF w
    <3>7. mem'[w] = <<"arg", Depth + 1, w - sp + NumArgRegs + 1>>
      BY <1>2, <1>3, <3>1, <3>6
    <3> QED
      BY <3>1, <3>7 DEF w
  <2> QED
    BY <1>2, <1>3, <2>1, <2>2, <2>3, <2>4 DEF Passed
<1>12. Cursors'
  BY <1>1, <1>2, <1>3 DEF Cursors
<1>13. ArgumentsReceived'
  <2>1. frames' # <<>> => Top'.busy
    BY <1>2, <1>3, <1>7 DEF Top
  <2>2. fetched'.index \notin ArgRegs
    BY <1>2 DEF Nothing, ArgRegs
  <2> QED
    BY <2>1, <2>2 DEF ArgumentsReceived
<1> QED
  BY <1>5, <1>6, <1>8, <1>9, <1>10, <1>11, <1>12, <1>13 DEF IInv

(* What the prologue of s writes at word k of its frame.                    *)
PrologueWord(s, base, k) ==
  IF k \in s.outgoing .. s.outgoing + s.params - 1
    THEN Param(s, base, k - s.outgoing + 1)
  ELSE IF s.variadic /\ k - Slots(s) + 1 \in ArgRegs
    THEN reg[k - Slots(s) + 1]
  ELSE IF \E r \in s.saves : SaveSlot(s, r) = k
    THEN reg[CHOOSE r \in s.saves : SaveSlot(s, r) = k]
  ELSE IF ~s.leaf /\ k = LrSlot(s) THEN lr
  ELSE mem[base + k]

(* The prologue's stores do not overwrite each other, nor the caller's      *)
(* frame.                                                                   *)
LEMMA PrologueWords ==
  ASSUME NEW s \in Shapes, NEW base
  PROVE  /\ \A i \in 1 .. s.params :
              PrologueWord(s, base, s.outgoing + i - 1) = Param(s, base, i)
         /\ s.variadic => \A i \in ArgRegs : PrologueWord(s, base, Slots(s) + i - 1) = reg[i]
         /\ \A r \in s.saves : PrologueWord(s, base, SaveSlot(s, r)) = reg[r]
         /\ ~s.leaf => PrologueWord(s, base, LrSlot(s)) = lr
         /\ \A k \in Nat : k >= Total(s) => PrologueWord(s, base, k) = mem[base + k]
<1>1. /\ s.outgoing \in Nat /\ s.params \in Nat /\ s.variadic \in BOOLEAN /\ s.leaf \in BOOLEAN
      /\ Slots(s) \in Nat /\ SpillWords(s) \in Nat
      /\ LrSlot(s) \in Nat /\ Total(s) \in Nat /\ NumArgRegs \in Nat
  BY ShapeFields, ShapeSizes, CallAssumption
<1>2. /\ s.outgoing + s.params <= Slots(s)
      /\ Slots(s) + SpillWords(s) <= LrSlot(s) /\ LrSlot(s) <= Total(s)
      /\ ~s.leaf => LrSlot(s) + 1 = Total(s)
  BY ShapeOrder
<1>3. s.variadic => SpillWords(s) = NumArgRegs
  BY DEF SpillWords
<1>4. \A r \in s.saves :
        /\ SaveSlot(s, r) \in Nat
        /\ Slots(s) + SpillWords(s) <= SaveSlot(s, r) /\ SaveSlot(s, r) < LrSlot(s)
  <2> TAKE r \in s.saves
  <2>1. SaveSlot(s, r) \in Slots(s) + SpillWords(s) .. LrSlot(s) - 1
    BY SaveSlotFacts
  <2> QED
    BY <1>1, <2>1
<1>5. ASSUME NEW k \in Nat, Slots(s) <= k
      PROVE  k \notin s.outgoing .. s.outgoing + s.params - 1
  BY <1>1, <1>2, <1>5
<1>6. ASSUME NEW k \in Nat, Slots(s) + SpillWords(s) <= k, s.variadic
      PROVE  k - Slots(s) + 1 \notin ArgRegs
  BY <1>1, <1>3, <1>6 DEF ArgRegs
<1>7. ASSUME NEW i \in 1 .. s.params
      PROVE  PrologueWord(s, base, s.outgoing + i - 1) = Param(s, base, i)
  <2> DEFINE k == s.outgoing + i - 1
  <2>1. k \in s.outgoing .. s.outgoing + s.params - 1 /\ k - s.outgoing + 1 = i
    BY <1>1
  <2> HIDE DEF k
  <2>2. PrologueWord(s, base, k) = Param(s, base, i)
    BY <2>1 DEF PrologueWord
  <2> QED
    BY <2>2 DEF k
<1>8. ASSUME s.variadic, NEW i \in ArgRegs
      PROVE  PrologueWord(s, base, Slots(s) + i - 1) = reg[i]
  <2> DEFINE k == Slots(s) + i - 1
  <2>1. k \in Nat /\ Slots(s) <= k /\ k - Slots(s) + 1 = i
    BY <1>1 DEF ArgRegs
  <2> HIDE DEF k
  <2>2. k \notin s.outgoing .. s.outgoing + s.params - 1
    BY <1>5, <2>1
  <2>3. PrologueWord(s, base, k) = reg[i]
    BY <1>8, <2>1, <2>2 DEF PrologueWord
  <2> QED
    BY <2>3 DEF k
<1>9. ASSUME NEW r \in s.saves
      PROVE  PrologueWord(s, base, SaveSlot(s, r)) = reg[r]
  <2>1. /\ SaveSlot(s, r) \in Nat /\ Slots(s) + SpillWords(s) <= SaveSlot(s, r)
        /\ Slots(s) <= SaveSlot(s, r)
    BY <1>1, <1>4
  <2>2. (CHOOSE q \in s.saves : SaveSlot(s, q) = SaveSlot(s, r)) = r
    BY SaveSlotFacts
  <2> QED
    BY <1>5, <1>6, <2>1, <2>2 DEF PrologueWord
<1>10. ASSUME NEW k \in Nat, LrSlot(s) <= k
       PROVE  PrologueWord(s, base, k) = IF ~s.leaf /\ k = LrSlot(s) THEN lr ELSE mem[base + k]
  <2>1. Slots(s) + SpillWords(s) <= k /\ Slots(s) <= k
    BY <1>1, <1>2, <1>10
  <2>2. \A r \in s.saves : SaveSlot(s, r) # k
    BY <1>1, <1>4, <1>10
  <2> QED
    BY <1>5, <1>6, <2>1, <2>2 DEF PrologueWord
<1>11. ~s.leaf => PrologueWord(s, base, LrSlot(s)) = lr
  BY <1>1, <1>10
<1>12. ASSUME NEW k \in Nat, k >= Total(s)
       PROVE  PrologueWord(s, base, k) = mem[base + k]
  <2>1. LrSlot(s) <= k /\ ~(~s.leaf /\ k = LrSlot(s))
    BY <1>1, <1>2, <1>12
  <2> QED
    BY <1>10, <2>1
<1> QED
  BY <1>7, <1>8, <1>9, <1>11, <1>12

(* The prologue builds its frame below the caller's and touches no other.   *)
LEMMA PrologueInv == IInv /\ Prologue => IInv'
<1> SUFFICES ASSUME IInv, Prologue PROVE IInv'
  OBVIOUS
<1>1. /\ TypeOK /\ Layout /\ Suspended /\ FramesKept /\ Preserved
      /\ Passed /\ Cursors /\ ArgumentsReceived
  BY DEF IInv
<1> DEFINE s == pending.shape
           base == sp - Total(s)
           nf == [shape |-> s, args |-> pending.args, busy |-> FALSE, ap |-> -1, taken |-> 0,
                  entry |-> [sp |-> sp, lr |-> lr, saved |-> [r \in CalleeSaved |-> reg[r]]]]
<1>2. /\ pending # NoCall /\ pending' = NoCall
      /\ sp' = base /\ reg' = reg /\ lr' = lr /\ fetched' = fetched
      /\ frames' = Append(frames, nf)
      /\ \A w \in DOMAIN mem : mem'[w] =
           LET k == w - base IN
           IF k \in s.outgoing .. s.outgoing + s.params - 1
             THEN Param(s, base, k - s.outgoing + 1)
           ELSE IF s.variadic /\ k - Slots(s) + 1 \in ArgRegs
             THEN reg[k - Slots(s) + 1]
           ELSE IF \E r \in s.saves : SaveSlot(s, r) = k
             THEN reg[CHOOSE r \in s.saves : SaveSlot(s, r) = k]
           ELSE IF ~s.leaf /\ k = LrSlot(s) THEN lr
           ELSE mem[w]
      /\ mem' = [w \in DOMAIN mem |-> mem'[w]]
  BY DEF Prologue
<1>3. /\ s \in Shapes /\ pending.args \in 0 .. MaxArgs /\ pending.args \in Nat
      /\ sp \in 0 .. StackTop /\ sp \in Nat /\ StackTop \in Nat /\ NumArgRegs \in Nat
      /\ DOMAIN mem = 0 .. StackTop - 1
  BY <1>1, <1>2, CallAssumption DEF TypeOK
<1>4. /\ s.params <= pending.args /\ Total(s) <= sp /\ fetched = Nothing /\ Depth < MaxDepth
      /\ \A i \in 1 .. pending.args :
           IF i <= NumArgRegs THEN reg[i] = <<"arg", Depth + 1, i>>
           ELSE mem[sp + i - NumArgRegs - 1] = <<"arg", Depth + 1, i>>
  BY <1>1, <1>2 DEF Passed
<1>5. /\ s.outgoing \in Nat /\ s.params \in Nat /\ Slots(s) \in Nat
      /\ LrSlot(s) \in Nat /\ Total(s) \in Nat /\ s.variadic \in BOOLEAN
      /\ s.saves \subseteq CalleeSaved
  BY <1>3, ShapeFields, ShapeSizes
<1>6. base \in Nat /\ base + Total(s) = sp /\ base <= StackTop
  BY <1>3, <1>4, <1>5
<1> HIDE DEF base
<1>7. nf \in Frame
  <2>1. [r \in CalleeSaved |-> reg[r]] \in [CalleeSaved -> Value] /\ lr \in Value
    BY <1>1 DEF TypeOK
  <2>2. [sp |-> sp, lr |-> lr, saved |-> [r \in CalleeSaved |-> reg[r]]] \in
          [sp : 0 .. StackTop, lr : Value, saved : [CalleeSaved -> Value]]
    BY <1>3, <2>1
  <2> HIDE DEF s
  <2> QED
    BY <1>3, <2>2 DEF Frame
<1>8. /\ nf.shape = s /\ nf.args = pending.args /\ nf.busy = FALSE /\ nf.taken = 0
      /\ nf.entry.sp = sp /\ nf.entry.lr = lr
      /\ \A r \in CalleeSaved : nf.entry.saved[r] = reg[r]
  OBVIOUS
<1> HIDE DEF nf
<1>9. /\ Depth \in Nat /\ Depth' = Depth + 1 /\ DOMAIN frames = 1 .. Depth
      /\ DOMAIN frames' = 1 .. Depth + 1
      /\ \A d \in 1 .. Depth : frames'[d] = frames[d]
      /\ frames'[Depth + 1] = nf /\ frames' \in Seq(Frame) /\ frames' # <<>>
      /\ Top' = nf
  BY <1>1, <1>2, <1>7 DEF TypeOK, Depth, Top
<1>10. ASSUME NEW w \in 0 .. StackTop - 1
       PROVE  mem'[w] = PrologueWord(s, base, w - base)
  <2>1. base + (w - base) = w
    BY <1>6
  <2> QED
    BY <1>2, <1>3, <2>1 DEF PrologueWord
<1>11. ASSUME NEW k \in 0 .. Total(s) - 1
       PROVE  mem'[base + k] = PrologueWord(s, base, k)
  <2> DEFINE w == base + k
  <2>1. w \in 0 .. StackTop - 1 /\ w - base = k
    BY <1>3, <1>5, <1>6
  <2> HIDE DEF w
  <2>2. mem'[w] = PrologueWord(s, base, k)
    BY <1>10, <2>1
  <2> QED
    BY <2>2 DEF w
<1>12. ASSUME NEW w \in 0 .. StackTop - 1, sp <= w
       PROVE  mem'[w] = mem[w]
  <2>1. w - base \in Nat /\ w - base >= Total(s) /\ base + (w - base) = w
    BY <1>3, <1>5, <1>6, <1>12
  <2>2. PrologueWord(s, base, w - base) = mem[base + (w - base)]
    BY <1>3, <2>1, PrologueWords
  <2> QED
    BY <1>10, <2>1, <2>2
<1>13. ASSUME NEW i \in 1 .. s.params
       PROVE  Param(s, base, i) = <<"arg", Depth + 1, i>>
  <2>1. i \in 1 .. pending.args
    BY <1>3, <1>4, <1>5
  <2>2. base + Total(s) + i - NumArgRegs - 1 = sp + i - NumArgRegs - 1
    BY <1>6
  <2> QED
    BY <1>4, <2>1, <2>2 DEF Param
<1>14. mem' \in [0 .. StackTop - 1 -> Value]
  <2> SUFFICES ASSUME NEW k, NEW w \in 0 .. StackTop - 1, k = w - base
               PROVE  PrologueWord(s, base, k) \in Value
    BY <1>2, <1>3, <1>10
  <2>1. CASE k \in s.outgoing .. s.outgoing + s.params - 1
    <3>1. k - s.outgoing + 1 \in 1 .. s.params
      BY <1>5, <2>1
    <3>2. Param(s, base, k - s.outgoing + 1) = <<"arg", Depth + 1, k - s.outgoing + 1>>
      BY <1>13, <3>1
    <3>3. k - s.outgoing + 1 \in Nat /\ Depth + 1 \in Nat
      BY <1>5, <1>9, <3>1
    <3>4. <<"arg", Depth + 1, k - s.outgoing + 1>> \in Value
      BY <3>3 DEF Value
    <3> QED
      BY <2>1, <3>2, <3>4 DEF PrologueWord
  <2>2. \A r \in ArgRegs \cup CalleeSaved : reg[r] \in Value
    BY <1>1 DEF TypeOK
  <2>3. \A r \in s.saves : reg[r] \in Value
    BY <1>5, <2>2
  <2>4. (\E r \in s.saves : SaveSlot(s, r) = k)
          => reg[CHOOSE r \in s.saves : SaveSlot(s, r) = k] \in Value
    BY <2>3
  <2>5. lr \in Value /\ mem[base + k] \in Value
    <3>1. base + k = w
      BY <1>6
    <3> QED
      BY <1>1, <3>1 DEF TypeOK
  <2> QED
    BY <2>1, <2>2, <2>4, <2>5 DEF PrologueWord
<1>15. TypeOK'
  <2>1. sp' \in 0 .. StackTop
    BY <1>2, <1>3, <1>6
  <2>2. Len(frames') <= MaxDepth
    BY <1>4, <1>9, CallAssumption DEF Depth
  <2> QED
    BY <1>1, <1>2, <1>9, <1>14, <2>1, <2>2 DEF TypeOK
<1>16. \A d \in 1 .. Depth + 1 : Base(d)' = IF d = Depth + 1 THEN base ELSE Base(d)
  BY <1>8, <1>9 DEF Base, base
<1>17. \A d \in 1 .. Depth :
         /\ sp <= Base(d) /\ 0 <= Base(d) /\ Base(d) \in Int
         /\ frames[d].entry.sp <= StackTop /\ frames[d].entry.sp \in Nat
         /\ frames[d] \in Frame /\ frames[d].shape \in Shapes
         /\ Base(d) = frames[d].entry.sp - Total(frames[d].shape)
         /\ frames[d].busy /\ ~frames[d].shape.leaf
  BY <1>1, <1>2, <1>9, Above, FrameFacts DEF Suspended
<1>18. Layout'
  <2>1. sp' = IF frames' = <<>> THEN StackTop ELSE Base(Depth)'
    BY <1>2, <1>9, <1>16 DEF Base, base
  <2>2. ASSUME NEW d \in 1 .. Depth + 1
        PROVE  /\ frames'[d].entry.sp = IF d = 1 THEN StackTop ELSE Base(d - 1)'
               /\ 0 <= Base(d)' /\ Base(d)' <= frames'[d].entry.sp
               /\ frames'[d].entry.sp <= StackTop
    <3>1. CASE d = Depth + 1
      <4>1. sp = IF Depth = 0 THEN StackTop ELSE Base(Depth)
        BY <1>1, <1>9 DEF Layout, Depth, TypeOK
      <4>2. d = 1 <=> Depth = 0
        BY <1>9, <3>1
      <4>3. d # 1 => d - 1 \in 1 .. Depth /\ d - 1 = Depth /\ d - 1 # Depth + 1
        BY <1>9, <3>1
      <4>4. d # 1 => Base(d - 1)' = Base(Depth)
        BY <1>9, <1>16, <4>3 DEF Base
      <4> QED
        BY <1>3, <1>5, <1>6, <1>8, <1>9, <1>16, <3>1, <4>1, <4>2, <4>4
    <3>2. CASE d # Depth + 1
      <4>1. d \in 1 .. Depth /\ (d # 1 => d - 1 \in 1 .. Depth)
        BY <1>9, <3>2
      <4>2. d # 1 => Base(d - 1)' = Base(d - 1)
        BY <1>9, <4>1 DEF Base
      <4>3. /\ frames[d].entry.sp = IF d = 1 THEN StackTop ELSE Base(d - 1)
            /\ 0 <= Base(d) /\ Base(d) <= frames[d].entry.sp
            /\ frames[d].entry.sp <= StackTop
        BY <1>1, <1>9, <4>1 DEF Layout
      <4>4. Base(d)' = Base(d) /\ frames'[d] = frames[d]
        BY <1>9, <1>16, <3>2, <4>1
      <4> QED
        BY <4>2, <4>3, <4>4
    <3> QED
      BY <3>1, <3>2
  <2>3. ASSUME NEW d \in 1 .. Depth + 1, NEW e \in 1 .. Depth + 1, d < e
        PROVE  frames'[e].entry.sp <= Base(d)'
    <3>1. d \in 1 .. Depth /\ d # Depth + 1
      BY <1>9, <2>3
    <3>2. CASE e = Depth + 1
      BY <1>8, <1>9, <1>16, <1>17, <3>1, <3>2
    <3>3. CASE e # Depth + 1
      <4>1. e \in 1 .. Depth
        BY <1>9, <3>3
      <4> QED
        BY <1>1, <1>9, <1>16, <2>3, <3>1, <4>1 DEF Layout
    <3> QED
      BY <3>2, <3>3
  <2> QED
    BY <1>9, <2>1, <2>2, <2>3 DEF Layout
<1>19. Suspended'
  <2> SUFFICES ASSUME NEW d \in 1 .. Depth + 1, d < Depth + 1
               PROVE  frames'[d].busy /\ ~frames'[d].shape.leaf
    BY <1>2, <1>9 DEF Suspended
  <2>1. d \in 1 .. Depth
    BY <1>9
  <2> QED
    BY <1>9, <1>17, <2>1
<1>20. FramesKept'
  <2> SUFFICES ASSUME NEW d \in 1 .. Depth + 1 PROVE Keeps(frames'[d], d, mem', lr)
    BY <1>2, <1>9 DEF FramesKept
  <2>1. CASE d \in 1 .. Depth
    <3>1. frames[d].shape.outgoing \in Nat
      BY <1>17, <2>1, ShapeFields
    <3>2. ASSUME NEW w \in Base(d) + frames[d].shape.outgoing .. frames[d].entry.sp - 1
          PROVE  mem'[w] = mem[w]
      <4>1. w \in Int /\ Base(d) + frames[d].shape.outgoing <= w /\ w <= frames[d].entry.sp - 1
        BY <1>17, <2>1, <3>1
      <4>2. /\ sp <= Base(d) /\ 0 <= Base(d) /\ Base(d) \in Int
            /\ frames[d].entry.sp <= StackTop /\ frames[d].entry.sp \in Nat
        BY <1>17, <2>1
      <4>3. sp <= w /\ 0 <= w /\ w <= StackTop - 1
        <5>1. Base(d) <= w
          BY <3>1, <4>1, <4>2
        <5>2. sp \in Nat /\ StackTop \in Nat
          BY <1>3
        <5> QED
          BY <4>1, <4>2, <5>1, <5>2
      <4> QED
        BY <1>3, <1>12, <4>1, <4>3
    <3>3. Keeps(frames[d], d, mem, lr)
      BY <1>1, <1>9, <2>1 DEF FramesKept
    <3> QED
      BY <1>9, <1>17, <2>1, <3>2, <3>3, KeepsOn
  <2>2. CASE d = Depth + 1
    <3>1. \A r \in s.saves : mem'[base + SaveSlot(s, r)] = reg[r]
      <4> TAKE r \in s.saves
      <4>1. SaveSlot(s, r) \in Slots(s) + SpillWords(s) .. LrSlot(s) - 1
        BY <1>3, SaveSlotFacts
      <4>2. SpillWords(s) \in Nat /\ LrSlot(s) <= Total(s)
        BY <1>3, ShapeSizes, ShapeOrder
      <4>3. SaveSlot(s, r) \in 0 .. Total(s) - 1
        BY <1>5, <4>1, <4>2
      <4> QED
        BY <1>3, <1>11, <4>3, PrologueWords
    <3>2. ~s.leaf => mem'[base + LrSlot(s)] = lr
      <4> HAVE ~s.leaf
      <4>1. LrSlot(s) + 1 = Total(s)
        BY <1>3, ShapeOrder
      <4>2. LrSlot(s) \in 0 .. Total(s) - 1
        BY <1>5, <4>1
      <4> QED
        BY <1>3, <1>11, <4>2, PrologueWords
    <3>3. ASSUME s.variadic, NEW i \in ArgRegs, i <= pending.args
          PROVE  mem'[base + Slots(s) + i - 1] = <<"arg", Depth + 1, i>>
      <4> DEFINE k == Slots(s) + i - 1
      <4>1. SpillWords(s) = NumArgRegs
        BY <1>5, <3>3 DEF SpillWords
      <4>2. Slots(s) + SpillWords(s) <= LrSlot(s) /\ LrSlot(s) <= Total(s)
        BY <1>3, ShapeOrder
      <4>3. i \in Nat /\ 1 <= i /\ i <= NumArgRegs
        BY <1>3 DEF ArgRegs
      <4>4. Slots(s) + NumArgRegs <= Total(s)
        BY <1>3, <1>5, <4>1, <4>2
      <4>5. Slots(s) \in Nat /\ Total(s) \in Nat /\ base \in Nat /\ NumArgRegs \in Nat
        BY <1>3, <1>5, <1>6
      <4>6. k \in 0 .. Total(s) - 1 /\ base + k = base + Slots(s) + i - 1
        <5> HIDE DEF s
        <5> QED
          BY <4>3, <4>4, <4>5
      <4>7. PrologueWord(s, base, k) = reg[i]
        BY <1>3, <3>3, PrologueWords
      <4> HIDE DEF k
      <4>8. mem'[base + k] = reg[i]
        BY <1>11, <4>6, <4>7
      <4>9. i \in 1 .. pending.args /\ i <= NumArgRegs
        BY <1>3, <3>3 DEF ArgRegs
      <4>10. reg[i] = <<"arg", Depth + 1, i>>
        BY <1>4, <4>9
      <4> QED
        BY <4>6, <4>8, <4>10
    <3>4. nf.entry.sp - Total(nf.shape) = base
      BY <1>8 DEF base
    <3>5. Keeps(nf, Depth + 1, mem', lr)
      BY <1>5, <1>8, <3>1, <3>2, <3>3, <3>4 DEF Keeps
    <3> QED
      BY <1>9, <2>2, <3>5
  <2> QED
    BY <1>9, <2>1, <2>2
<1>21. Preserved'
  <2> SUFFICES ASSUME NEW d \in 1 .. Depth + 1, NEW r \in CalleeSaved
               PROVE  IF r \in frames'[d].shape.saves
                        THEN frames'[d].busy => Held(d, r)' = <<"own", d, r>>
                        ELSE Held(d, r)' = frames'[d].entry.saved[r]
    BY <1>9 DEF Preserved
  <2>1. CASE d = Depth + 1
    <3>1. Held(d, r)' = reg[r]
      BY <1>2, <1>9, <2>1 DEF Held
    <3> QED
      BY <1>8, <1>9, <2>1, <3>1
  <2>2. CASE d # Depth + 1
    <3>1. d \in 1 .. Depth /\ d + 1 \in 1 .. Depth + 1 /\ d # Depth'
      BY <1>9, <2>2
    <3>2. Held(d, r)' = frames'[d + 1].entry.saved[r]
      BY <3>1 DEF Held
    <3>3. Held(d, r)' = Held(d, r)
      <4>1. CASE d = Depth
        BY <1>8, <1>9, <3>2, <4>1 DEF Held
      <4>2. CASE d # Depth
        <5>1. d + 1 \in 1 .. Depth
          BY <1>9, <3>1, <4>2
        <5> QED
          BY <1>9, <3>2, <4>2, <5>1 DEF Held
      <4> QED
        BY <4>1, <4>2
    <3> QED
      BY <1>1, <1>9, <3>1, <3>3 DEF Preserved
  <2> QED
    BY <2>1, <2>2
<1>22. Passed'
  BY <1>2 DEF Passed
<1>23. Cursors'
  BY <1>1, <1>8, <1>9 DEF Cursors, Cursor
<1>24. ArgumentsReceived'
  <2>1. ASSUME NEW i \in 1 .. s.params
        PROVE  mem'[base + s.outgoing + i - 1] = <<"arg", Depth + 1, i>>
    <3> DEFINE k == s.outgoing + i - 1
    <3>1. s.outgoing + s.params <= Slots(s) /\ Slots(s) + SpillWords(s) <= LrSlot(s)
          /\ LrSlot(s) <= Total(s) /\ SpillWords(s) \in Nat
      BY <1>3, ShapeOrder, ShapeSizes
    <3>2. k \in 0 .. Total(s) - 1 /\ base + k = base + s.outgoing + i - 1
      BY <1>5, <1>6, <3>1
    <3>3. PrologueWord(s, base, k) = Param(s, base, i)
      BY <1>3, PrologueWords
    <3> HIDE DEF k
    <3> QED
      BY <1>11, <1>13, <3>2, <3>3
  <2>2. fetched'.index \notin ArgRegs
    BY <1>2, <1>4 DEF Nothing, ArgRegs
  <2> QED
    BY <1>2, <1>8, <1>9, <2>1, <2>2 DEF ArgumentsReceived
<1> QED
  BY <1>15, <1>18, <1>19, <1>20, <1>21, <1>22, <1>23, <1>24 DEF IInv

-----------------------------------------------------------------------------
(* A function writes its own locals and the registers it has saved.         *)
LEMMA WorkInv == IInv /\ Work => IInv'
<1> SUFFICES ASSUME IInv, Work PROVE IInv'
  OBVIOUS
<1>1. /\ TypeOK /\ Layout /\ Suspended /\ FramesKept /\ Preserved
      /\ Passed /\ Cursors /\ ArgumentsReceived
  BY DEF IInv
<1> DEFINE s == Top.shape
           nf == [Top EXCEPT !.busy = TRUE, !.ap = IF s.variadic THEN VaStart(s) ELSE -1]
<1>2. /\ pending = NoCall /\ frames # <<>> /\ ~Top.busy
      /\ mem' = [w \in DOMAIN mem |->
           IF w - sp \in s.outgoing .. Slots(s) - 1
             THEN <<"own", Depth, w - sp>> ELSE mem[w]]
      /\ reg' = [r \in DOMAIN reg |->
           IF r \in s.saves THEN <<"own", Depth, r>>
           ELSE IF r \in ArgRegs THEN Junk ELSE reg[r]]
      /\ frames' = [frames EXCEPT ![Depth] = nf]
      /\ sp' = sp /\ lr' = lr /\ pending' = pending /\ fetched' = fetched
  BY DEF Work, Top
<1>3. /\ Depth \in Nat /\ DOMAIN frames = 1 .. Depth /\ Depth \in DOMAIN frames
      /\ sp \in Nat /\ StackTop \in Nat /\ NumArgRegs \in Nat
      /\ DOMAIN mem = 0 .. StackTop - 1 /\ DOMAIN reg = ArgRegs \cup CalleeSaved
  BY <1>1, <1>2, CallAssumption DEF TypeOK, Depth
<1>4. /\ Top \in Frame /\ s \in Shapes /\ Top.taken = 0 /\ Top.entry.sp \in Nat
      /\ sp = Top.entry.sp - Total(s) /\ sp + Total(s) = Top.entry.sp
      /\ Top.entry.sp <= StackTop
  <2>1. Top.taken = 0
    BY <1>1, <1>2, <1>3 DEF Cursors, Cursor, Top
  <2> QED
    BY <1>1, <1>3, <2>1, FrameFacts, Above DEF Top
<1>5. /\ s.outgoing \in Nat /\ s.named \in Nat /\ Slots(s) \in Nat
      /\ SpillWords(s) \in Nat /\ LrSlot(s) \in Nat /\ Total(s) \in Nat
      /\ s.saves \subseteq CalleeSaved /\ s.variadic \in BOOLEAN
      /\ Slots(s) + SpillWords(s) <= LrSlot(s) /\ LrSlot(s) <= Total(s)
      /\ ~s.leaf => LrSlot(s) + 1 = Total(s)
  BY <1>4, ShapeFields, ShapeSizes, ShapeOrder
<1>6. ArgRegs \cap CalleeSaved = {}
  BY CallAssumption DEF ArgRegs
<1> HIDE DEF s
<1>7. /\ sp \in Nat /\ StackTop \in Nat /\ s.outgoing \in Nat
      /\ Slots(s) \in Nat /\ Total(s) \in Nat
      /\ Slots(s) <= Total(s) /\ sp + Total(s) <= StackTop
  <2>1. Slots(s) <= Total(s)
    BY <1>5
  <2> QED
    BY <1>3, <1>4, <1>5, <2>1
<1>8. nf \in Frame
  <2>1. VaStart(s) \in Int
    BY <1>3, <1>5 DEF VaStart
  <2>2. (IF s.variadic THEN VaStart(s) ELSE -1) \in Int
    BY <2>1
  <2> QED
    BY <1>4, <2>2 DEF Frame
<1>9. /\ nf.shape = s /\ nf.args = Top.args /\ nf.busy /\ nf.entry = Top.entry
      /\ nf.taken = Top.taken
      /\ s.variadic => nf.ap = VaStart(s)
  BY <1>4 DEF Frame, s
<1> HIDE DEF nf
<1>10. /\ Depth' = Depth /\ DOMAIN frames' = 1 .. Depth /\ frames' \in Seq(Frame)
       /\ frames'[Depth] = nf /\ Top' = nf /\ Len(frames') = Len(frames)
       /\ \A d \in 1 .. Depth : d # Depth => frames'[d] = frames[d]
       /\ \A d \in 1 .. Depth : frames'[d].shape = frames[d].shape
                             /\ frames'[d].entry = frames[d].entry
                             /\ frames'[d].args = frames[d].args
  <2>1. /\ Len(frames') = Len(frames) /\ DOMAIN frames' = DOMAIN frames
        /\ \A d \in 1 .. Depth : d # Depth => frames'[d] = frames[d]
        /\ frames'[Depth] = nf /\ frames' \in Seq(Frame)
    BY <1>1, <1>2, <1>3, <1>8 DEF TypeOK
  <2> QED
    BY <1>3, <1>9, <2>1 DEF Depth, Top, s
<1>11. \A w \in 0 .. StackTop - 1 :
         w < sp + s.outgoing \/ w >= sp + Slots(s) => mem'[w] = mem[w]
  <2> SUFFICES ASSUME NEW w \in 0 .. StackTop - 1,
                      w < sp + s.outgoing \/ w >= sp + Slots(s)
               PROVE  mem'[w] = mem[w]
    OBVIOUS
  <2>1. w - sp \notin s.outgoing .. Slots(s) - 1
    BY <1>3, <1>5
  <2> QED
    BY <1>2, <1>3, <2>1
<1>12. \A k \in s.outgoing .. Slots(s) - 1 : mem'[sp + k] = <<"own", Depth, k>>
  <2> TAKE k \in s.outgoing .. Slots(s) - 1
  <2> DEFINE w == sp + k
  <2>1. w - sp = k /\ w \in 0 .. StackTop - 1
    BY <1>7
  <2> HIDE DEF w
  <2>2. mem'[w] = <<"own", Depth, k>>
    BY <1>2, <1>3, <2>1
  <2> QED
    BY <2>2 DEF w
<1>13. \A k \in Slots(s) .. Total(s) - 1 : mem'[sp + k] = mem[sp + k]
  <2> TAKE k \in Slots(s) .. Total(s) - 1
  <2>1. sp + k \in 0 .. StackTop - 1 /\ sp + k >= sp + Slots(s)
    BY <1>7
  <2> QED
    BY <1>11, <2>1
<1>14. \A r \in CalleeSaved :
         reg'[r] = IF r \in s.saves THEN <<"own", Depth, r>> ELSE reg[r]
  BY <1>2, <1>3, <1>6
<1>15. TypeOK'
  <2>1. Junk \in Value
    BY DEF Junk, Value
  <2>2. \A r \in s.saves : <<"own", Depth, r>> \in Value
    BY <1>3, <1>5, CallAssumption DEF Value
  <2>3. reg' \in [ArgRegs \cup CalleeSaved -> Value]
    BY <1>1, <1>2, <1>3, <2>1, <2>2 DEF TypeOK
  <2>4. \A w \in 0 .. StackTop - 1 : w - sp \in s.outgoing .. Slots(s) - 1
          => <<"own", Depth, w - sp>> \in Value
    <3> SUFFICES ASSUME NEW w \in 0 .. StackTop - 1, w - sp \in s.outgoing .. Slots(s) - 1
                 PROVE  <<"own", Depth, w - sp>> \in Value
      OBVIOUS
    <3>1. w - sp \in Nat
      BY <1>3, <1>5
    <3> QED
      BY <1>3, <3>1 DEF Value
  <2>5. mem' \in [0 .. StackTop - 1 -> Value]
    BY <1>1, <1>2, <1>3, <2>4 DEF TypeOK
  <2> QED
    BY <1>1, <1>2, <1>10, <2>3, <2>5 DEF TypeOK
<1>16. \A d \in 1 .. Depth : Base(d)' = Base(d)
  BY <1>10 DEF Base
<1>17. Layout'
  <2>1. sp' = Base(Depth)' /\ frames' # <<>>
    <3>1. Base(Depth)' = nf.entry.sp - Total(nf.shape)
      BY <1>10 DEF Base
    <3> QED
      BY <1>2, <1>3, <1>4, <1>9, <1>10, <3>1
  <2>2. ASSUME NEW d \in 1 .. Depth
        PROVE  /\ frames'[d].entry.sp = IF d = 1 THEN StackTop ELSE Base(d - 1)'
               /\ 0 <= Base(d)' /\ Base(d)' <= frames'[d].entry.sp
               /\ frames'[d].entry.sp <= StackTop
    <3>1. d # 1 => d - 1 \in 1 .. Depth
      BY <1>3
    <3>2. d # 1 => Base(d - 1)' = Base(d - 1)
      BY <1>10, <3>1 DEF Base
    <3> QED
      BY <1>1, <1>3, <1>10, <1>16, <3>2 DEF Layout
  <2>3. \A d, e \in 1 .. Depth : d < e => frames'[e].entry.sp <= Base(d)'
    BY <1>1, <1>3, <1>10, <1>16 DEF Layout
  <2> QED
    BY <1>10, <2>1, <2>2, <2>3 DEF Layout
<1>18. Suspended'
  BY <1>1, <1>2, <1>3, <1>10 DEF Suspended
<1>19. FramesKept'
  <2> SUFFICES ASSUME NEW d \in 1 .. Depth PROVE Keeps(frames'[d], d, mem', lr)
    BY <1>2, <1>10 DEF FramesKept
  <2>1. Keeps(frames[d], d, mem, lr)
    BY <1>1, <1>3 DEF FramesKept
  <2>2. CASE d # Depth
    <3>1. /\ frames[d] \in Frame /\ frames[d].shape \in Shapes /\ frames[d].entry.sp \in Nat
          /\ Base(d) = frames[d].entry.sp - Total(frames[d].shape) /\ Base(d) \in Int
      BY <1>1, <1>3, FrameFacts
    <3>2. /\ sp + Total(s) <= Base(d) /\ frames[d].entry.sp <= StackTop
          /\ frames[d].shape.outgoing \in Nat
      BY <1>1, <1>3, <2>2, <3>1, Above, ShapeFields DEF s
    <3>3. ASSUME NEW w \in Base(d) + frames[d].shape.outgoing .. frames[d].entry.sp - 1
          PROVE  mem'[w] = mem[w]
      <4>1. Base(d) + frames[d].shape.outgoing <= w /\ w <= frames[d].entry.sp - 1 /\ w \in Int
        BY <3>1, <3>2
      <4>2. Base(d) <= w
        BY <3>1, <3>2, <4>1
      <4>3. /\ Base(d) \in Int /\ frames[d].entry.sp \in Nat
            /\ sp + Total(s) <= Base(d) /\ frames[d].entry.sp <= StackTop
        BY <3>1, <3>2
      <4>4. w \in 0 .. StackTop - 1 /\ w >= sp + Slots(s)
        BY <1>7, <4>1, <4>2, <4>3
      <4> QED
        BY <1>11, <4>4
    <3>4. frames'[d] = frames[d]
      BY <1>10, <2>2
    <3> QED
      BY <2>1, <3>1, <3>3, <3>4, KeepsOn
  <2>3. CASE d = Depth
    <3>1. /\ \A r \in s.saves : mem[sp + SaveSlot(s, r)] = Top.entry.saved[r]
          /\ IF s.leaf THEN lr = Top.entry.lr ELSE mem[sp + LrSlot(s)] = Top.entry.lr
          /\ s.variadic => \A i \in ArgRegs :
               i <= Top.args => mem[sp + Slots(s) + i - 1] = <<"arg", d, i>>
      BY <1>4, <2>1, <2>3 DEF Keeps, Top, s
    <3>2. \A r \in s.saves : mem'[sp + SaveSlot(s, r)] = Top.entry.saved[r]
      <4> TAKE r \in s.saves
      <4>1. SaveSlot(s, r) \in Slots(s) + SpillWords(s) .. LrSlot(s) - 1
        BY <1>4, SaveSlotFacts
      <4>2. SaveSlot(s, r) \in Slots(s) .. Total(s) - 1
        BY <1>5, <4>1
      <4> QED
        BY <1>13, <3>1, <4>2
    <3>3. ~s.leaf => mem'[sp + LrSlot(s)] = mem[sp + LrSlot(s)]
      <4> HAVE ~s.leaf
      <4>1. LrSlot(s) \in Slots(s) .. Total(s) - 1
        BY <1>5
      <4> QED
        BY <1>13, <4>1
    <3>4. ASSUME s.variadic, NEW i \in ArgRegs
          PROVE  mem'[sp + Slots(s) + i - 1] = mem[sp + Slots(s) + i - 1]
      <4>1. SpillWords(s) = NumArgRegs
        BY <3>4 DEF SpillWords
      <4>2. i \in Nat /\ 1 <= i /\ i <= NumArgRegs /\ Slots(s) + NumArgRegs <= Total(s)
        BY <1>3, <1>5, <4>1 DEF ArgRegs
      <4>3. sp \in Nat /\ NumArgRegs \in Nat /\ Slots(s) \in Nat /\ Total(s) \in Nat
        BY <1>3, <1>5
      <4>4. /\ Slots(s) + i - 1 \in Slots(s) .. Total(s) - 1
            /\ sp + (Slots(s) + i - 1) = sp + Slots(s) + i - 1
        BY <4>2, <4>3
      <4> QED
        BY <1>13, <4>4
    <3>5. nf.entry.sp - Total(nf.shape) = sp
      BY <1>4, <1>9
    <3>6. Keeps(nf, d, mem', lr)
      BY <1>9, <1>12, <2>3, <3>1, <3>2, <3>3, <3>4, <3>5 DEF Keeps
    <3> QED
      BY <1>10, <2>3, <3>6
  <2> QED
    BY <2>2, <2>3
<1>20. Preserved'
  <2> SUFFICES ASSUME NEW d \in 1 .. Depth, NEW r \in CalleeSaved
               PROVE  IF r \in frames'[d].shape.saves
                        THEN frames'[d].busy => Held(d, r)' = <<"own", d, r>>
                        ELSE Held(d, r)' = frames'[d].entry.saved[r]
    BY <1>10 DEF Preserved
  <2>1. IF r \in frames[d].shape.saves
          THEN frames[d].busy => Held(d, r) = <<"own", d, r>>
          ELSE Held(d, r) = frames[d].entry.saved[r]
    BY <1>1, <1>3 DEF Preserved
  <2>2. CASE d = Depth
    <3>1. Held(d, r)' = reg'[r] /\ Held(d, r) = reg[r]
      BY <1>10, <2>2 DEF Held
    <3>2. frames[d].shape = s /\ frames'[d].shape = s /\ frames'[d].entry = frames[d].entry
      BY <1>10, <2>2 DEF Top, s
    <3>3. reg'[r] = IF r \in s.saves THEN <<"own", d, r>> ELSE reg[r]
      BY <1>14, <2>2
    <3> QED
      BY <2>1, <3>1, <3>2, <3>3
  <2>3. CASE d # Depth
    <3>1. d + 1 \in 1 .. Depth
      BY <1>3, <2>3
    <3>2. Held(d, r)' = Held(d, r)
      BY <1>10, <2>3, <3>1 DEF Held
    <3> QED
      BY <1>10, <2>1, <2>3, <3>2
  <2> QED
    BY <2>2, <2>3
<1>21. Passed'
  BY <1>2 DEF Passed
<1>22. Cursors'
  <2>1. Cursor(nf)
    <3>1. nf.entry.sp - Total(nf.shape) = sp /\ nf.taken = 0
      BY <1>4, <1>9
    <3>2. sp + Slots(s) + s.named + 0 = VaStart(s)
      BY <1>5, <1>7 DEF VaStart
    <3>3. s.variadic => nf.ap = nf.entry.sp - Total(nf.shape) + Slots(nf.shape)
                                  + nf.shape.named + nf.taken
      BY <1>9, <3>1, <3>2
    <3> QED
      BY <1>9, <3>3 DEF Cursor
  <2> QED
    BY <1>1, <1>3, <1>10, <2>1 DEF Cursors
<1>23. ArgumentsReceived'
  <2>1. /\ Top.shape.named = Top.shape.params /\ fetched.index \in ArgRegs
             => fetched.value = <<"arg", Depth, fetched.index>>
    BY <1>1, <1>2 DEF ArgumentsReceived
  <2> QED
    BY <1>2, <1>9, <1>10, <2>1 DEF ArgumentsReceived, s
<1> QED
  BY <1>15, <1>17, <1>18, <1>19, <1>20, <1>21, <1>22, <1>23 DEF IInv

-----------------------------------------------------------------------------
(* va_arg moves the cursor from one argument register's word to the next.   *)
LEMMA VaArgInv == IInv /\ VaArg => IInv'
<1> SUFFICES ASSUME IInv, VaArg PROVE IInv'
  OBVIOUS
<1>1. /\ TypeOK /\ Layout /\ Suspended /\ FramesKept /\ Preserved
      /\ Passed /\ Cursors /\ ArgumentsReceived
  BY DEF IInv
<1> DEFINE s == Top.shape
           index == s.params + Top.taken + 1
           nf == [Top EXCEPT !.ap = Top.ap + 1, !.taken = Top.taken + 1]
<1>2. /\ pending = NoCall /\ frames # <<>> /\ Top.busy /\ s.variadic
      /\ index <= Top.args
      /\ fetched' = [index |-> index, value |-> mem[Top.ap]]
      /\ frames' = [frames EXCEPT ![Depth] = nf]
      /\ mem' = mem /\ sp' = sp /\ reg' = reg /\ lr' = lr /\ pending' = pending
  <2>1. frames' = [frames EXCEPT ![Depth] = nf]
    BY DEF VaArg, Top
  <2>2. /\ index <= Top.args
        /\ fetched' = [index |-> index, value |-> mem[Top.ap]]
    BY DEF VaArg
  <2> QED
    BY <2>1, <2>2 DEF VaArg, Running
<1>3. /\ Depth \in Nat /\ DOMAIN frames = 1 .. Depth /\ Depth \in DOMAIN frames
      /\ sp \in Nat /\ NumArgRegs \in Nat
  BY <1>1, <1>2, CallAssumption DEF TypeOK, Depth
<1>4. /\ Top \in Frame /\ s \in Shapes /\ Top.entry.sp \in Nat
      /\ sp = Top.entry.sp - Total(s)
  BY <1>1, <1>3, FrameFacts, Above DEF Top
<1>5. /\ s.named \in Nat /\ s.params \in Nat /\ Slots(s) \in Nat
      /\ Top.taken \in Nat /\ Top.ap \in Int
  BY <1>4, ShapeFields, ShapeSizes DEF Frame
<1>6. Top.ap = sp + Slots(s) + s.named + Top.taken
  <2>1. Cursor(Top)
    BY <1>1, <1>3 DEF Cursors, Top
  <2> QED
    BY <1>2, <1>4, <2>1 DEF Cursor
<1> HIDE DEF s, index
<1>7. nf \in Frame
  <2>1. Top.ap + 1 \in Int /\ Top.taken + 1 \in Nat
    BY <1>5
  <2> QED
    BY <1>4, <2>1 DEF Frame
<1>8. /\ nf.shape = s /\ nf.args = Top.args /\ nf.busy /\ nf.entry = Top.entry
      /\ nf.taken = Top.taken + 1
      /\ nf.ap = Top.ap + 1
  BY <1>2, <1>4 DEF Frame, s
<1> HIDE DEF nf
<1>9. /\ Depth' = Depth /\ DOMAIN frames' = 1 .. Depth /\ frames' \in Seq(Frame)
      /\ frames'[Depth] = nf /\ Top' = nf /\ Len(frames') = Len(frames) /\ frames' # <<>>
      /\ \A d \in 1 .. Depth : d # Depth => frames'[d] = frames[d]
      /\ \A d \in 1 .. Depth : frames'[d].shape = frames[d].shape
                            /\ frames'[d].entry = frames[d].entry
                            /\ frames'[d].args = frames[d].args
                            /\ frames'[d].busy = frames[d].busy
  <2>1. /\ Len(frames') = Len(frames) /\ DOMAIN frames' = DOMAIN frames
        /\ \A d \in 1 .. Depth : d # Depth => frames'[d] = frames[d]
        /\ frames'[Depth] = nf /\ frames' \in Seq(Frame)
    BY <1>1, <1>2, <1>3, <1>7 DEF TypeOK
  <2>2. frames[Depth].busy = nf.busy
    BY <1>2, <1>4, <1>7, <1>8 DEF Frame, Top
  <2>3. \A d \in 1 .. Depth : frames'[d].busy = frames[d].busy
    BY <2>1, <2>2
  <2>4. \A d \in 1 .. Depth : frames'[d].shape = frames[d].shape
                            /\ frames'[d].entry = frames[d].entry
                            /\ frames'[d].args = frames[d].args
    BY <1>8, <2>1 DEF Top, s
  <2>5. Depth' = Depth /\ DOMAIN frames' = 1 .. Depth
    BY <1>3, <2>1 DEF Depth
  <2>6. Depth # 0
    BY <1>3
  <2>7. Len(frames') # 0
    BY <2>5, <2>6 DEF Depth
  <2>8. Depth' = Depth /\ DOMAIN frames' = 1 .. Depth /\ frames' # <<>>
    BY <2>5, <2>7
  <2>9. Top' = nf
    BY <2>1, <2>8 DEF Top
  <2> QED
    BY <2>1, <2>3, <2>4, <2>8, <2>9
<1>10. TypeOK'
  BY <1>1, <1>2, <1>9 DEF TypeOK
<1>11. \A d \in 1 .. Depth : Base(d)' = Base(d)
  BY <1>9 DEF Base
<1>12. Layout'
  <2>1. sp' = Base(Depth)'
    <3>1. Base(Depth)' = nf.entry.sp - Total(nf.shape)
      BY <1>9 DEF Base
    <3> QED
      BY <1>2, <1>4, <1>8, <3>1
  <2>2. ASSUME NEW d \in 1 .. Depth
        PROVE  /\ frames'[d].entry.sp = IF d = 1 THEN StackTop ELSE Base(d - 1)'
               /\ 0 <= Base(d)' /\ Base(d)' <= frames'[d].entry.sp
               /\ frames'[d].entry.sp <= StackTop
    <3>1. d # 1 => d - 1 \in 1 .. Depth
      BY <1>3
    <3>2. d # 1 => Base(d - 1)' = Base(d - 1)
      BY <1>9, <3>1 DEF Base
    <3> QED
      BY <1>1, <1>3, <1>9, <1>11, <3>2 DEF Layout
  <2>3. \A d, e \in 1 .. Depth : d < e => frames'[e].entry.sp <= Base(d)'
    BY <1>1, <1>3, <1>9, <1>11 DEF Layout
  <2> QED
    BY <1>9, <2>1, <2>2, <2>3 DEF Layout
<1>13. Suspended'
  BY <1>1, <1>2, <1>3, <1>9 DEF Suspended
<1>14. FramesKept'
  <2> SUFFICES ASSUME NEW d \in 1 .. Depth PROVE Keeps(frames'[d], d, mem, lr)
    BY <1>2, <1>9 DEF FramesKept
  <2>1. Keeps(frames[d], d, mem, lr)
    BY <1>1, <1>3 DEF FramesKept
  <2> QED
    BY <1>9, <2>1 DEF Keeps
<1>15. Preserved'
  <2> SUFFICES ASSUME NEW d \in 1 .. Depth, NEW r \in CalleeSaved
               PROVE  IF r \in frames'[d].shape.saves
                        THEN frames'[d].busy => Held(d, r)' = <<"own", d, r>>
                        ELSE Held(d, r)' = frames'[d].entry.saved[r]
    BY <1>9 DEF Preserved
  <2>1. Held(d, r)' = Held(d, r)
    <3>1. CASE d = Depth
      BY <1>2, <1>9, <3>1 DEF Held
    <3>2. CASE d # Depth
      <4>1. d + 1 \in 1 .. Depth
        BY <1>3, <3>2
      <4> QED
        BY <1>9, <3>2, <4>1 DEF Held
    <3> QED
      BY <3>1, <3>2
  <2> QED
    BY <1>1, <1>3, <1>9, <2>1 DEF Preserved
<1>16. Passed'
  BY <1>2 DEF Passed
<1>17. Cursors'
  <2>1. Cursor(nf)
    <3>1. nf.entry.sp - Total(nf.shape) = sp
      BY <1>4, <1>8
    <3>2. nf.ap = sp + Slots(s) + s.named + (Top.taken + 1)
      BY <1>3, <1>5, <1>6, <1>8
    <3> QED
      BY <1>8, <3>1, <3>2 DEF Cursor
  <2> QED
    BY <1>1, <1>3, <1>9, <2>1 DEF Cursors
<1>18. ArgumentsReceived'
  <2>1. ASSUME s.named = s.params, index \in ArgRegs
        PROVE  mem[Top.ap] = <<"arg", Depth, index>>
    <3>1. Keeps(Top, Depth, mem, lr)
      BY <1>1, <1>3 DEF FramesKept, Top
    <3>2. mem[Top.entry.sp - Total(s) + Slots(s) + index - 1] = <<"arg", Depth, index>>
      BY <1>2, <2>1, <3>1 DEF Keeps, s
    <3>3. Top.ap = sp + Slots(s) + index - 1
      BY <1>3, <1>5, <1>6, <2>1 DEF index
    <3> QED
      BY <1>4, <3>2, <3>3
  <2>2. fetched'.index = index /\ fetched'.value = mem[Top.ap]
    BY <1>2
  <2> QED
    BY <1>8, <1>9, <2>1, <2>2 DEF ArgumentsReceived
<1> QED
  BY <1>10, <1>12, <1>13, <1>14, <1>15, <1>16, <1>17, <1>18 DEF IInv

-----------------------------------------------------------------------------
(* The epilogue finds in its frame what the prologue put there.             *)
LEMMA Returned ==
  ASSUME IInv, Return
  PROVE  /\ sp' = Top.entry.sp /\ lr' = Top.entry.lr
         /\ \A r \in CalleeSaved : reg'[r] = Top.entry.saved[r]
<1>1. /\ TypeOK /\ Layout /\ FramesKept /\ Preserved
  BY DEF IInv
<1> DEFINE s == Top.shape
<1>2. /\ pending = NoCall /\ frames # <<>> /\ Top.busy
      /\ reg' = [r \in DOMAIN reg |->
           IF r \in s.saves THEN mem[sp + SaveSlot(s, r)]
           ELSE IF r \in ArgRegs THEN Junk ELSE reg[r]]
      /\ lr' = IF s.leaf THEN lr ELSE mem[sp + LrSlot(s)]
      /\ sp' = sp + Total(s)
  BY DEF Return, Running, Released
<1>3. /\ Depth \in DOMAIN frames /\ DOMAIN reg = ArgRegs \cup CalleeSaved
  BY <1>1, <1>2 DEF TypeOK, Depth
<1>4. sp = Top.entry.sp - Total(s) /\ sp + Total(s) = Top.entry.sp
  BY <1>1, <1>3, FrameFacts, Above DEF Top
<1>5. Keeps(Top, Depth, mem, lr)
  BY <1>1, <1>3 DEF FramesKept, Top
<1>6. lr' = Top.entry.lr
  BY <1>2, <1>4, <1>5 DEF Keeps
<1>7. ASSUME NEW r \in CalleeSaved
      PROVE  reg'[r] = Top.entry.saved[r]
  <2>1. CASE r \in s.saves
    BY <1>2, <1>3, <1>4, <1>5, <2>1 DEF Keeps
  <2>2. CASE r \notin s.saves
    <3>1. r \notin ArgRegs
      BY CallAssumption DEF ArgRegs
    <3>2. reg[r] = Top.entry.saved[r]
      BY <1>1, <1>3, <2>2 DEF Preserved, Held, Top
    <3> QED
      BY <1>2, <1>3, <2>2, <3>1, <3>2
  <2> QED
    BY <2>1, <2>2
<1> QED
  BY <1>2, <1>4, <1>6, <1>7

(* The epilogue leaves every other frame, and the caller as it had called.  *)
LEMMA ReturnInv == IInv /\ Return => IInv'
<1> SUFFICES ASSUME IInv, Return PROVE IInv'
  OBVIOUS
<1>1. /\ TypeOK /\ Layout /\ Suspended /\ FramesKept /\ Preserved
      /\ Passed /\ Cursors /\ ArgumentsReceived
  BY DEF IInv
<1>2. /\ pending = NoCall /\ frames # <<>> /\ Top.busy
      /\ DOMAIN reg' = DOMAIN reg
      /\ \A r \in ArgRegs : r \notin Top.shape.saves => reg'[r] = Junk
      /\ mem' = [w \in DOMAIN mem |-> IF w < sp' THEN Junk ELSE mem[w]]
      /\ reg' = [r \in DOMAIN reg |-> reg'[r]]
      /\ frames' = SubSeq(frames, 1, Depth - 1)
      /\ fetched' = Nothing /\ pending' = pending
  <2>1. \A r \in ArgRegs : r \in DOMAIN reg
    BY <1>1 DEF TypeOK
  <2> QED
    BY <2>1 DEF Return, Running
<1>3. /\ sp' = Top.entry.sp /\ lr' = Top.entry.lr
      /\ \A r \in CalleeSaved : reg'[r] = Top.entry.saved[r]
  BY Returned
<1>4. /\ Depth \in Nat \ {0} /\ DOMAIN frames = 1 .. Depth /\ Depth \in DOMAIN frames
      /\ StackTop \in Nat /\ NumArgRegs \in Nat
      /\ DOMAIN mem = 0 .. StackTop - 1
  BY <1>1, <1>2, CallAssumption DEF TypeOK, Depth
<1>5. /\ Depth' = Depth - 1 /\ DOMAIN frames' = 1 .. Depth - 1 /\ frames' \in Seq(Frame)
      /\ \A d \in 1 .. Depth - 1 : frames'[d] = frames[d] /\ d \in DOMAIN frames /\ d < Depth
      /\ Len(frames') <= MaxDepth
  BY <1>1, <1>2, <1>4, CallAssumption DEF TypeOK, Depth
<1>6. Top \in Frame
  BY <1>1, <1>4, FrameFacts DEF Top
<1>7. /\ Top.entry.sp \in 0 .. StackTop /\ Top.entry.lr \in Value
      /\ \A r \in CalleeSaved : Top.entry.saved[r] \in Value
      /\ Top.shape \in Shapes
  BY <1>6 DEF Frame
<1>8. TypeOK'
  <2>1. Junk \in Value
    BY DEF Junk, Value
  <2>2. \A r \in ArgRegs : r \notin CalleeSaved /\ r \notin Top.shape.saves
    BY <1>7, ShapeFields, CallAssumption DEF ArgRegs
  <2>3. \A r \in ArgRegs \cup CalleeSaved : reg'[r] \in Value
    BY <1>2, <1>3, <1>7, <2>1, <2>2
  <2>4. reg' \in [ArgRegs \cup CalleeSaved -> Value]
    BY <1>1, <1>2, <2>3 DEF TypeOK
  <2>5. mem' \in [0 .. StackTop - 1 -> Value]
    BY <1>1, <1>2, <2>1 DEF TypeOK
  <2> QED
    BY <1>1, <1>2, <1>3, <1>5, <1>7, <2>4, <2>5 DEF TypeOK
<1>9. \A d \in 1 .. Depth - 1 : Base(d)' = Base(d)
  BY <1>5 DEF Base
<1>10. Layout'
  <2>1. sp' = IF frames' = <<>> THEN StackTop ELSE Base(Depth - 1)
    <3>1. Top.entry.sp = IF Depth = 1 THEN StackTop ELSE Base(Depth - 1)
      BY <1>1, <1>4 DEF Layout, Top
    <3>2. frames' = <<>> <=> Depth = 1
      BY <1>4, <1>5
    <3> QED
      BY <1>3, <3>1, <3>2
  <2>2. frames' # <<>> => Depth - 1 \in 1 .. Depth - 1
    BY <1>4, <1>5
  <2>3. sp' = IF frames' = <<>> THEN StackTop ELSE Base(Depth)'
    <3>1. frames' # <<>> => Base(Depth)' = frames'[Depth - 1].entry.sp
                                            - Total(frames'[Depth - 1].shape)
      BY <1>5 DEF Base
    <3>2. frames' # <<>> => Base(Depth - 1) = frames[Depth - 1].entry.sp
                                                - Total(frames[Depth - 1].shape)
      BY DEF Base
    <3> QED
      BY <1>5, <2>1, <2>2, <3>1, <3>2
  <2>4. ASSUME NEW d \in 1 .. Depth - 1
        PROVE  /\ frames'[d].entry.sp = IF d = 1 THEN StackTop ELSE Base(d - 1)'
               /\ 0 <= Base(d)' /\ Base(d)' <= frames'[d].entry.sp
               /\ frames'[d].entry.sp <= StackTop
    <3>1. d # 1 => d - 1 \in 1 .. Depth - 1
      BY <1>4
    <3>2. d # 1 => Base(d - 1)' = Base(d - 1)
      BY <1>5, <3>1 DEF Base
    <3> QED
      BY <1>1, <1>5, <1>9, <3>2 DEF Layout
  <2>5. \A d, e \in 1 .. Depth - 1 : d < e => frames'[e].entry.sp <= Base(d)'
    BY <1>1, <1>5, <1>9 DEF Layout
  <2> QED
    BY <1>5, <2>3, <2>4, <2>5 DEF Layout
<1>11. \A d \in 1 .. Depth - 1 :
         /\ Top.entry.sp <= Base(d) /\ Base(d) \in Int
         /\ Base(d) = frames[d].entry.sp - Total(frames[d].shape)
         /\ frames[d].entry.sp \in Nat /\ frames[d].entry.sp <= StackTop
         /\ frames[d] \in Frame /\ frames[d].shape \in Shapes
         /\ frames[d].busy /\ ~frames[d].shape.leaf
  <2> SUFFICES ASSUME NEW d \in 1 .. Depth - 1
               PROVE  /\ Top.entry.sp <= Base(d) /\ Base(d) \in Int
                      /\ Base(d) = frames[d].entry.sp - Total(frames[d].shape)
                      /\ frames[d].entry.sp \in Nat /\ frames[d].entry.sp <= StackTop
                      /\ frames[d] \in Frame /\ frames[d].shape \in Shapes
                      /\ frames[d].busy /\ ~frames[d].shape.leaf
    OBVIOUS
  <2>1. d \in DOMAIN frames /\ d < Depth
    BY <1>5
  <2>2. Top.entry.sp <= Base(d) /\ frames[d].entry.sp <= StackTop
    BY <1>1, <1>4, <2>1 DEF Layout, Top
  <2> QED
    BY <1>1, <2>1, <2>2, FrameFacts DEF Suspended
<1>12. Suspended'
  BY <1>2, <1>5, <1>11 DEF Suspended
<1>13. FramesKept'
  <2> SUFFICES ASSUME NEW d \in 1 .. Depth - 1 PROVE Keeps(frames[d], d, mem', lr')
    BY <1>5 DEF FramesKept
  <2>1. Keeps(frames[d], d, mem, lr)
    BY <1>1, <1>5 DEF FramesKept
  <2>2. frames[d].shape.outgoing \in Nat
    BY <1>11, ShapeFields
  <2>3. ASSUME NEW w \in Base(d) + frames[d].shape.outgoing .. frames[d].entry.sp - 1
        PROVE  mem'[w] = mem[w]
    <3>1. /\ Top.entry.sp \in 0 .. StackTop /\ Top.entry.sp <= Base(d) /\ Base(d) \in Int
          /\ frames[d].entry.sp \in Nat /\ frames[d].entry.sp <= StackTop
      BY <1>7, <1>11
    <3>2. w \in Int /\ Base(d) + frames[d].shape.outgoing <= w /\ w <= frames[d].entry.sp - 1
      BY <2>2, <3>1
    <3>3. Base(d) <= w
      BY <2>2, <3>1, <3>2
    <3>4. w \in 0 .. StackTop - 1 /\ ~(w < Top.entry.sp)
      BY <1>4, <3>1, <3>2, <3>3
    <3> QED
      BY <1>2, <1>3, <1>4, <3>4
  <2> QED
    BY <1>11, <2>1, <2>3, KeepsOn
<1>14. Preserved'
  <2> SUFFICES ASSUME NEW d \in 1 .. Depth - 1, NEW r \in CalleeSaved
               PROVE  IF r \in frames'[d].shape.saves
                        THEN frames'[d].busy => Held(d, r)' = <<"own", d, r>>
                        ELSE Held(d, r)' = frames'[d].entry.saved[r]
    BY <1>5 DEF Preserved
  <2>1. Held(d, r)' = Held(d, r)
    <3>1. CASE d = Depth - 1
      <4>1. Held(d, r)' = reg'[r]
        BY <1>5, <3>1 DEF Held
      <4>2. Held(d, r) = Top.entry.saved[r]
        <5>1. d # Depth /\ d + 1 = Depth
          BY <1>4, <3>1
        <5> QED
          BY <5>1 DEF Held, Top
      <4> QED
        BY <1>3, <4>1, <4>2
    <3>2. CASE d # Depth - 1
      <4>1. d + 1 \in 1 .. Depth - 1 /\ d # Depth /\ d # Depth'
        BY <1>4, <1>5, <3>2
      <4> QED
        BY <1>5, <4>1 DEF Held
    <3> QED
      BY <3>1, <3>2
  <2> QED
    BY <1>1, <1>5, <2>1 DEF Preserved
<1>15. Passed'
  BY <1>2 DEF Passed
<1>16. Cursors'
  BY <1>1, <1>5 DEF Cursors
<1>17. ArgumentsReceived'
  <2>1. frames' # <<>> => Depth' \in 1 .. Depth - 1 /\ Top' = frames[Depth - 1] /\ Top'.busy
    BY <1>4, <1>5, <1>11 DEF Top
  <2>2. fetched'.index \notin ArgRegs
    BY <1>2 DEF Nothing, ArgRegs
  <2> QED
    BY <2>1, <2>2 DEF ArgumentsReceived
<1> QED
  BY <1>8, <1>10, <1>12, <1>13, <1>14, <1>15, <1>16, <1>17 DEF IInv

-----------------------------------------------------------------------------
(* The invariant is inductive: every step of a chain of calls keeps it.     *)
LEMMA StepInv == IInv /\ [Next]_vars => IInv'
<1> SUFFICES ASSUME IInv, [Next]_vars PROVE IInv'
  OBVIOUS
<1>1. CASE Call
  BY <1>1, CallInv
<1>2. CASE Prologue
  BY <1>2, PrologueInv
<1>3. CASE Work
  BY <1>3, WorkInv
<1>4. CASE VaArg
  BY <1>4, VaArgInv
<1>5. CASE Return
  BY <1>5, ReturnInv
<1>6. CASE UNCHANGED vars
  <2>1. TypeOK' /\ Layout' /\ Suspended'
    BY <1>6 DEF vars, IInv, TypeOK, Layout, Suspended, Base, Depth
  <2>2. FramesKept' /\ Preserved' /\ Passed'
    BY <1>6 DEF vars, IInv, FramesKept, Preserved, Held, Passed, Depth
  <2>3. Cursors' /\ ArgumentsReceived'
    BY <1>6 DEF vars, IInv, Cursors, ArgumentsReceived, Depth, Top
  <2> QED
    BY <2>1, <2>2, <2>3 DEF IInv
<1> QED
  BY <1>1, <1>2, <1>3, <1>4, <1>5, <1>6 DEF Next

(* Every reachable state of a chain of calls is as the invariant says.      *)
THEOREM Inductive == Spec => []IInv
<1>1. Init => IInv
  BY InitInv
<1>2. IInv /\ [Next]_vars => IInv'
  BY StepInv
<1> QED
  BY <1>1, <1>2, PTL DEF Spec

(* The stack pointer never leaves the stack, and every word holds a value.  *)
THEOREM TypeCorrect == Spec => []TypeOK
<1>1. IInv => TypeOK
  BY DEF IInv
<1> QED
  BY <1>1, Inductive, PTL

(* Whatever is called, a suspended function keeps its locals and finds its  *)
(* callee-saved registers as it left them.                                  *)
THEOREM SuspendedFramesStay == Spec => []FramesIntact
<1>1. IInv => FramesIntact
  <2> SUFFICES ASSUME IInv PROVE FramesIntact
    OBVIOUS
  <2>1. TypeOK /\ Layout /\ FramesKept /\ Preserved
    BY DEF IInv
  <2>2. ASSUME Running, NEW r \in Top.shape.saves
        PROVE  reg[r] = <<"own", Depth, r>>
    <3>1. Depth \in DOMAIN frames /\ Top.busy
      BY <2>1, <2>2 DEF Running, TypeOK, Depth
    <3>2. r \in CalleeSaved
      BY <2>1, <3>1, FrameFacts, ShapeFields DEF Top
    <3> QED
      BY <2>1, <2>2, <3>1, <3>2 DEF Preserved, Held, Top
  <2>3. ASSUME NEW d \in DOMAIN frames
        PROVE  LET s == frames[d].shape IN
               /\ frames[d].entry.sp = IF d = 1 THEN StackTop ELSE Base(d - 1)
               /\ frames[d].busy =>
                    \A k \in s.outgoing .. Slots(s) - 1 : mem[Base(d) + k] = <<"own", d, k>>
    BY <2>1 DEF Layout, FramesKept, Keeps, Base
  <2> QED
    BY <2>2, <2>3 DEF FramesIntact
<1> QED
  BY <1>1, Inductive, PTL

(* A parameter's slot holds its argument, and va_arg reads the ones passed  *)
(* in registers, however many arguments and registers there are.            *)
THEOREM ArgumentsArrive == Spec => []ArgumentsReceived
<1>1. IInv => ArgumentsReceived
  BY DEF IInv
<1> QED
  BY <1>1, Inductive, PTL

(* Every return gives its caller the stack pointer, the return address and  *)
(* the callee-saved registers of the call.                                  *)
THEOREM CallersFindTheirState == Spec => ReturnRestores
<1>1. IInv /\ [Next]_vars => Restored
  <2> SUFFICES ASSUME IInv, [Next]_vars, Len(frames') < Len(frames)
               PROVE  /\ sp' = Top.entry.sp /\ lr' = Top.entry.lr
                      /\ \A r \in CalleeSaved : reg'[r] = Top.entry.saved[r]
    BY DEF Restored
  <2>1. CASE Return
    BY <2>1, Returned
  <2>2. CASE Call \/ UNCHANGED vars
    <3>1. frames' = frames
      BY <2>2 DEF Call, vars
    <3>2. Len(frames) \in Nat
      BY DEF IInv, TypeOK
    <3> QED
      BY <3>1, <3>2
  <2>3. CASE Prologue
    <3>1. Len(frames') = Len(frames) + 1 /\ Len(frames) \in Nat
      BY <2>3 DEF Prologue, IInv, TypeOK
    <3> QED
      BY <3>1
  <2>4. CASE Work \/ VaArg
    <3>1. Len(frames') = Len(frames) /\ Len(frames) \in Nat
      BY <2>4 DEF Work, VaArg, IInv, TypeOK
    <3> QED
      BY <3>1
  <2> QED
    BY <2>1, <2>2, <2>3, <2>4 DEF Next
<1>2. IInv /\ [Next]_vars => [Restored]_vars
  BY <1>1
<1> QED
  BY <1>2, Inductive, PTL DEF Spec, ReturnRestores
=============================================================================
