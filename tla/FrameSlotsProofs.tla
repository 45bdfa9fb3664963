--------------------------- MODULE FrameSlotsProofs ---------------------------
(***************************************************************************)
(* Proofs that the frame the dry run computes holds every slot the code     *)
(* generator gives out, for any Temps and Vars and any instructions.        *)
(***************************************************************************)
EXTENDS FrameSlots, FiniteSetTheorems, TLAPS

(* The free list holds slots of the recycled part only.                     *)
Bounded(ctx) == ctx.free \subseteq Fixed .. ctx.next - 1 /\ Fixed <= ctx.next

(* What owns a slot in the generated code owns one in the dry run, but for  *)
(* Vars the dry run has not met.                                            *)
Covers(d, r, u) ==
  /\ \A v \in Var : v \in Owned(d) <=> v \notin u
  /\ Owned(r) \cap Temp \subseteq Owned(d)
Suffices(d, r, u) == r.next <= d.next + Cardinality(u)

(* No slot is recycled before every Var has its own.                        *)
Scanned ==
  /\ \A v \in Var : v \in Owned(real) <=> v \notin unscanned
  /\ unscanned # {} => real.free = {}

IInv ==
  /\ TypeOK /\ FrameSuffices
  /\ Partitioned(real) /\ Bounded(real)
  /\ Partitioned(dry) /\ Bounded(dry)
  /\ Covers(dry, real, unseen) /\ Scanned

-----------------------------------------------------------------------------
(* Every slot beyond the fixed part is owned or free, so a context without  *)
(* free slots owns as many operands as it has slots.                        *)
LEMMA OwnedCount ==
  ASSUME NEW ctx \in Context, Partitioned(ctx), Bounded(ctx)
  PROVE  /\ IsFiniteSet(Owned(ctx))
         /\ Cardinality(Owned(ctx)) \in Nat
         /\ Cardinality(Owned(ctx)) <= ctx.next - Fixed
         /\ ctx.free = {} => Cardinality(Owned(ctx)) = ctx.next - Fixed
<1> DEFINE S == Owned(ctx)
           T == (Fixed .. ctx.next - 1) \ ctx.free
           A == Fixed .. ctx.next - 1
           f == [x \in S |-> ctx.slot[x]]
<1>1. ctx.next \in Nat /\ Fixed \in Nat /\ Fixed <= ctx.next
  BY FrameAssumption DEF Context, Bounded
<1>2. IsFiniteSet(S)
  <2>1. IsFiniteSet(Operand)
    BY FrameAssumption, FS_Union DEF Operand
  <2>2. S \in SUBSET Operand
    BY DEF Owned
  <2> QED
    BY <2>1, <2>2, FS_Subset
<1>3. f \in Bijection(S, T)
  <2>1. \A x \in S : f[x] \in T
    BY DEF Partitioned
  <2>2. \A x, y \in S : f[x] = f[y] => x = y
    BY DEF Partitioned
  <2>3. \A t \in T : \E x \in S : f[x] = t
    BY DEF Partitioned
  <2> QED
    BY <2>1, <2>2, <2>3 DEF Bijection, Injection, Surjection, IsInjective
<1>4. Cardinality(T) = Cardinality(S) /\ Cardinality(S) \in Nat
  <2>1. ExistsBijection(S, T)
    BY <1>3 DEF ExistsBijection
  <2> HIDE DEF S, T, f
  <2> QED
    BY <1>2, <2>1, FS_Bijection, FS_CardinalityType
<1>5. IsFiniteSet(A) /\ Cardinality(A) = ctx.next - Fixed
  <2> DEFINE top == ctx.next - 1
  <2>1. top \in Int /\ Fixed \in Int /\ top >= Fixed - 1
    BY <1>1
  <2>2. IsFiniteSet(Fixed .. top) /\ Cardinality(Fixed .. top) = top - Fixed + 1
    <3> HIDE DEF top
    <3>1. /\ IsFiniteSet(Fixed .. top)
          /\ Cardinality(Fixed .. top) = IF Fixed > top THEN 0 ELSE top - Fixed + 1
      BY <2>1, FS_Interval
    <3> QED
      BY <2>1, <3>1
  <2> QED
    BY <1>1, <2>2
<1>6. Cardinality(T) <= Cardinality(A)
  <2>1. T \in SUBSET A
    OBVIOUS
  <2> HIDE DEF T, A
  <2> QED
    BY <1>5, <2>1, FS_Subset
<1>7. ctx.free = {} => T = A
  OBVIOUS
<1> HIDE DEF S, T, A
<1>8. /\ IsFiniteSet(S) /\ Cardinality(S) \in Nat
      /\ Cardinality(S) <= ctx.next - Fixed
      /\ ctx.free = {} => Cardinality(S) = ctx.next - Fixed
  BY <1>2, <1>4, <1>5, <1>6, <1>7
<1> QED
  BY <1>8 DEF S

-----------------------------------------------------------------------------
(* FuncContext.slot of an operand that has none: a slot not in use.         *)
LEMMA TakeSlot ==
  ASSUME NEW ctx \in Context, Partitioned(ctx), Bounded(ctx),
         NEW x \in Operand, ctx.slot[x] = NoSlot,
         NEW c2 \in Context, NEW s,
         c2.slot = [ctx.slot EXCEPT ![x] = s],
         \/ s \in ctx.free /\ c2.free = ctx.free \ {s} /\ c2.next = ctx.next
         \/ s = ctx.next /\ c2.free = ctx.free /\ c2.next = ctx.next + 1
  PROVE  Partitioned(c2) /\ Bounded(c2) /\ Owned(c2) = Owned(ctx) \cup {x}
<1>1. /\ ctx.next \in Nat /\ Fixed \in Nat /\ Fixed <= ctx.next
      /\ ctx.free \subseteq Fixed .. ctx.next - 1
      /\ DOMAIN ctx.slot = Operand
  BY FrameAssumption DEF Context, Bounded
<1>2. s \in Nat /\ s # NoSlot /\ s >= Fixed
  BY <1>1 DEF NoSlot
<1>3. Owned(c2) = Owned(ctx) \cup {x} /\ x \notin Owned(ctx)
  BY <1>1, <1>2 DEF Owned
<1>4. /\ c2.slot[x] = s
      /\ \A y \in Owned(ctx) : c2.slot[y] = ctx.slot[y]
  BY <1>1, <1>3 DEF Owned
<1>5. \A y \in Owned(ctx) : ctx.slot[y] \in (Fixed .. ctx.next - 1) \ ctx.free
  BY DEF Partitioned
<1>6. \A y \in Owned(ctx) : ctx.slot[y] # s
  BY <1>1, <1>5
<1>7. \A y, z \in Owned(c2) : c2.slot[y] = c2.slot[z] => y = z
  BY <1>3, <1>4, <1>6 DEF Partitioned
<1>8. (Fixed .. c2.next - 1) \ c2.free = ((Fixed .. ctx.next - 1) \ ctx.free) \cup {s}
  <2>1. CASE s \in ctx.free /\ c2.free = ctx.free \ {s} /\ c2.next = ctx.next
    BY <1>1, <2>1
  <2>2. CASE s = ctx.next /\ c2.free = ctx.free /\ c2.next = ctx.next + 1
    <3>1. Fixed .. c2.next - 1 = (Fixed .. ctx.next - 1) \cup {s} /\ s \notin ctx.free
      BY <1>1, <2>2
    <3> QED
      BY <2>2, <3>1
  <2> QED
    BY <2>1, <2>2
<1>9. {c2.slot[y] : y \in Owned(c2)} = {ctx.slot[y] : y \in Owned(ctx)} \cup {s}
  BY <1>3, <1>4
<1>10. Partitioned(c2)
  BY <1>7, <1>8, <1>9 DEF Partitioned
<1>11. Bounded(c2)
  BY <1>1 DEF Bounded
<1> QED
  BY <1>3, <1>10, <1>11

(* A permanent slot takes nothing from the operands that have one.          *)
LEMMA AllocPermanentKeeps ==
  ASSUME NEW ctx \in Context, Partitioned(ctx), Bounded(ctx), NEW v \in Operand
  PROVE  LET c2 == AllocPermanent(ctx, v) IN
         /\ c2 \in Context /\ Partitioned(c2) /\ Bounded(c2)
         /\ Owned(c2) = Owned(ctx) \cup {v}
         /\ \A x \in Owned(ctx) : c2.slot[x] = ctx.slot[x]
         /\ c2.free = ctx.free
         /\ c2.next = IF v \in Owned(ctx) THEN ctx.next ELSE ctx.next + 1
         /\ v \in Owned(ctx) => c2 = ctx
<1> DEFINE c2 == AllocPermanent(ctx, v)
<1>1. CASE ctx.slot[v] # NoSlot
  BY <1>1 DEF AllocPermanent, Owned
<1>2. CASE ctx.slot[v] = NoSlot
  <2>1. /\ c2 \in Context
        /\ c2.slot = [ctx.slot EXCEPT ![v] = ctx.next]
        /\ c2.free = ctx.free /\ c2.next = ctx.next + 1
    <3>1. c2 = [ctx EXCEPT !.slot[v] = ctx.next, !.next = @ + 1]
      BY <1>2 DEF AllocPermanent
    <3> HIDE DEF c2
    <3>2. ctx.next \in Nat /\ ctx.next + 1 \in Nat
      BY DEF Context
    <3>3. [ctx.slot EXCEPT ![v] = ctx.next] \in [Operand -> Nat \cup {NoSlot}]
      BY <3>2 DEF Context
    <3>4. c2.slot = [ctx.slot EXCEPT ![v] = ctx.next]
      BY <3>1 DEF Context
    <3>5. c2.free = ctx.free /\ c2.next = ctx.next + 1
      BY <3>1 DEF Context
    <3>6. c2 = [slot |-> c2.slot, free |-> c2.free, next |-> c2.next]
      BY <3>1 DEF Context
    <3> QED
      BY <3>2, <3>3, <3>4, <3>5, <3>6 DEF Context
  <2>2. Partitioned(c2) /\ Bounded(c2) /\ Owned(c2) = Owned(ctx) \cup {v}
    <3> HIDE DEF c2
    <3> QED
      BY <1>2, <2>1, TakeSlot
  <2>3. v \notin Owned(ctx) /\ \A x \in Owned(ctx) : c2.slot[x] = ctx.slot[x]
    BY <1>2, <2>1 DEF Owned, Context
  <2> QED
    BY <2>1, <2>2, <2>3
<1> QED
  BY <1>1, <1>2

(* Nor does a temporary one, from the free list or a fresh one.             *)
LEMMA AllocTempKeeps ==
  ASSUME NEW ctx \in Context, Partitioned(ctx), Bounded(ctx), NEW t \in Operand
  PROVE  LET c2 == AllocTemp(ctx, t) IN
         /\ c2 \in Context /\ Partitioned(c2) /\ Bounded(c2)
         /\ Owned(c2) = Owned(ctx) \cup {t}
         /\ \A x \in Owned(ctx) : c2.slot[x] = ctx.slot[x]
         /\ ctx.next <= c2.next
         /\ c2.next # ctx.next => c2.free = {}
<1> DEFINE c2 == AllocTemp(ctx, t)
<1>1. ctx.next \in Nat
  BY DEF Context
<1>2. CASE ctx.slot[t] # NoSlot
  BY <1>1, <1>2 DEF AllocTemp, Owned
<1>3. CASE ctx.slot[t] = NoSlot
  <2>1. t \notin Owned(ctx)
    BY <1>3 DEF Owned
  <2>2. CASE ctx.free = {}
    <3>1. /\ c2 \in Context
          /\ c2.slot = [ctx.slot EXCEPT ![t] = ctx.next]
          /\ c2.free = ctx.free /\ c2.next = ctx.next + 1
      <4>1. c2 = [ctx EXCEPT !.slot[t] = ctx.next, !.next = @ + 1]
        BY <1>3, <2>2 DEF AllocTemp
      <4> HIDE DEF c2
      <4>2. ctx.next \in Nat /\ ctx.next + 1 \in Nat
        BY DEF Context
      <4>3. [ctx.slot EXCEPT ![t] = ctx.next] \in [Operand -> Nat \cup {NoSlot}]
        BY <4>2 DEF Context
      <4>4. c2.slot = [ctx.slot EXCEPT ![t] = ctx.next]
        BY <4>1 DEF Context
      <4>5. c2.free = ctx.free /\ c2.next = ctx.next + 1
        BY <4>1 DEF Context
      <4>6. c2 = [slot |-> c2.slot, free |-> c2.free, next |-> c2.next]
        BY <4>1 DEF Context
      <4> QED
        BY <4>2, <4>3, <4>4, <4>5, <4>6 DEF Context
    <3>2. Partitioned(c2) /\ Bounded(c2) /\ Owned(c2) = Owned(ctx) \cup {t}
      <4> HIDE DEF c2
      <4> QED
        BY <1>3, <3>1, TakeSlot
    <3>3. \A x \in Owned(ctx) : c2.slot[x] = ctx.slot[x]
      BY <2>1, <3>1 DEF Owned, Context
    <3> QED
      BY <1>1, <2>2, <3>1, <3>2, <3>3
  <2>3. CASE ctx.free # {}
    <3> DEFINE s == CHOOSE s \in ctx.free : TRUE
    <3>1. s \in ctx.free /\ s \in Nat
      BY <2>3 DEF Context
    <3>2. c2 = [ctx EXCEPT !.slot[t] = s, !.free = @ \ {s}]
      BY <1>3, <2>3 DEF AllocTemp
    <3> HIDE DEF s, c2
    <3>3. /\ c2 \in Context
          /\ c2.slot = [ctx.slot EXCEPT ![t] = s]
          /\ c2.free = ctx.free \ {s} /\ c2.next = ctx.next
      BY <3>1, <3>2 DEF Context
    <3>4. Partitioned(c2) /\ Bounded(c2) /\ Owned(c2) = Owned(ctx) \cup {t}
      BY <1>3, <3>1, <3>3, TakeSlot
    <3>5. \A x \in Owned(ctx) : c2.slot[x] = ctx.slot[x]
      BY <2>1, <3>3 DEF Owned, Context
    <3> QED
      BY <1>1, <3>3, <3>4, <3>5 DEF c2
  <2> QED
    BY <2>2, <2>3
<1> QED
  BY <1>2, <1>3

(* Freeing dead Temps takes no slot from the others.                        *)
LEMMA FreeDeadTempsKeeps ==
  ASSUME NEW ctx \in Context, Partitioned(ctx), Bounded(ctx),
         NEW dead \in SUBSET Operand
  PROVE  LET c2 == FreeDeadTemps(ctx, dead) IN
         /\ c2 \in Context /\ Partitioned(c2) /\ Bounded(c2)
         /\ Owned(c2) = Owned(ctx) \ dead
         /\ \A x \in Operand \ dead : c2.slot[x] = ctx.slot[x]
         /\ c2.next = ctx.next
<1> DEFINE c2 == FreeDeadTemps(ctx, dead)
           gone == SlotsOf(ctx, dead)
<1>1. gone = {ctx.slot[x] : x \in Owned(ctx) \cap dead}
  BY DEF SlotsOf, Owned
<1>2. gone \subseteq Fixed .. ctx.next - 1 /\ gone \subseteq Nat
  BY <1>1, FrameAssumption DEF Partitioned
<1>3. /\ c2.slot = Without(ctx.slot, dead)
      /\ c2.free = ctx.free \cup gone /\ c2.next = ctx.next
      /\ c2 \in Context
  <2> HIDE DEF gone
  <2>1. Without(ctx.slot, dead) \in [Operand -> Nat \cup {NoSlot}]
    BY DEF Without, Context
  <2>2. c2 = [ctx EXCEPT !.free = @ \cup gone, !.slot = Without(ctx.slot, dead)]
    BY DEF FreeDeadTemps, gone
  <2> HIDE DEF c2
  <2> QED
    BY <1>2, <2>1, <2>2 DEF Context
<1> HIDE DEF c2, gone
<1>4. \A x \in Operand : c2.slot[x] = IF x \in dead THEN NoSlot ELSE ctx.slot[x]
  BY <1>3 DEF Without
<1>5. Owned(c2) = Owned(ctx) \ dead
  BY <1>4 DEF Owned
<1>6. \A x, y \in Owned(c2) : c2.slot[x] = c2.slot[y] => x = y
  BY <1>4, <1>5 DEF Partitioned, Owned
<1>7. {c2.slot[x] : x \in Owned(c2)} = {ctx.slot[x] : x \in Owned(ctx)} \ gone
  <2>1. \A x \in Owned(c2) : c2.slot[x] = ctx.slot[x] /\ x \in Owned(ctx)
    BY <1>4, <1>5 DEF Owned
  <2>2. \A x \in Owned(c2) : ctx.slot[x] \notin gone
    BY <1>1, <1>5 DEF Partitioned
  <2>3. \A x \in Owned(ctx) : ctx.slot[x] \notin gone => x \in Owned(c2)
    BY <1>1, <1>5
  <2> QED
    BY <2>1, <2>2, <2>3
<1>8. Partitioned(c2)
  BY <1>3, <1>6, <1>7 DEF Partitioned
<1>9. Bounded(c2)
  BY <1>2, <1>3 DEF Bounded
<1> QED
  BY <1>3, <1>4, <1>5, <1>8, <1>9 DEF c2

-----------------------------------------------------------------------------
(* A function's context starts with its parameters' slots.                  *)
LEMMA StartKeeps ==
  Start \in Context /\ Partitioned(Start) /\ Bounded(Start) /\ Owned(Start) = {}
<1>1. Start \in Context
  BY FrameAssumption DEF Start, Context
<1>2. Owned(Start) = {}
  BY DEF Start, Owned
<1>3. Fixed .. Start.next - 1 = {} /\ Start.next = Fixed /\ Start.free = {}
  BY FrameAssumption DEF Start
<1> QED
  BY <1>1, <1>2, <1>3, FrameAssumption DEF Partitioned, Bounded

(* Both contexts start well formed.                                         *)
LEMMA InitInv == Init => IInv
<1> SUFFICES ASSUME Init PROVE IInv
  OBVIOUS
<1>1. TypeOK
  BY StartKeeps DEF Init, TypeOK
<1>2. FrameSuffices
  <2>1. Cardinality(Var) \in Nat
    BY FrameAssumption, FS_CardinalityType
  <2> QED
    BY <2>1, FrameAssumption DEF Init, FrameSuffices, Start
<1>3. Covers(dry, real, unseen) /\ Scanned
  BY StartKeeps DEF Init, Covers, Scanned, Start
<1> QED
  BY <1>1, <1>2, <1>3, StartKeeps DEF IInv, Init

(* The generated code takes a slot beyond its frame only when it owns one    *)
(* operand per slot; those operands own slots in the dry run, or are Vars   *)
(* the dry run has not met.                                                 *)
LEMMA FullFrameSuffices ==
  ASSUME NEW r \in Context, NEW d \in Context, NEW u \in SUBSET Var,
         Partitioned(r), Bounded(r), Partitioned(d), Bounded(d),
         Covers(d, r, u), r.free = {}
  PROVE  Suffices(d, r, u)
<1> DEFINE R == Owned(r)
           D == Owned(d)
<1>1. /\ IsFiniteSet(R) /\ Cardinality(R) = r.next - Fixed
      /\ IsFiniteSet(D) /\ Cardinality(D) \in Nat /\ Cardinality(D) <= d.next - Fixed
  BY OwnedCount
<1>2. IsFiniteSet(u) /\ Cardinality(u) \in Nat
  BY FrameAssumption, FS_Subset, FS_CardinalityType
<1>3. R \in SUBSET (D \cup u)
  BY DEF Covers, Owned, Operand
<1>4. r.next \in Nat /\ d.next \in Nat /\ Fixed \in Nat
  BY FrameAssumption DEF Context
<1> HIDE DEF R, D
<1>5. /\ IsFiniteSet(D \cup u)
      /\ Cardinality(D \cup u) = Cardinality(D) + Cardinality(u) - Cardinality(D \cap u)
  BY <1>1, <1>2, FS_Union
<1>6. Cardinality(D \cap u) \in Nat
  <2>1. D \cap u \in SUBSET u
    OBVIOUS
  <2> QED
    BY <1>2, <2>1, FS_Subset, FS_CardinalityType
<1>7. Cardinality(R) <= Cardinality(D \cup u)
  BY <1>3, <1>5, FS_Subset
<1> QED
  BY <1>1, <1>2, <1>4, <1>5, <1>6, <1>7 DEF Suffices

(* The invariant is inductive, instruction by instruction.                  *)
LEMMA StepInv == IInv /\ [Next]_vars => IInv'
<1> SUFFICES ASSUME IInv, [Next]_vars PROVE IInv'
  OBVIOUS
<1> DEFINE Sound(c) == c \in Context /\ Partitioned(c) /\ Bounded(c)
<1>1. /\ Sound(real) /\ Sound(dry)
      /\ live \subseteq Temp /\ unscanned \subseteq Var /\ unseen \subseteq Var
      /\ Covers(dry, real, unseen) /\ Suffices(dry, real, unseen)
      /\ \A v \in Var : v \in Owned(real) <=> v \notin unscanned
      /\ unscanned # {} => real.free = {}
  BY DEF IInv, TypeOK, FrameSuffices, Suffices, Scanned
<1>2. /\ real.next \in Nat /\ dry.next \in Nat
      /\ Temp \subseteq Operand /\ Var \subseteq Operand /\ Temp \cap Var = {}
  BY <1>1, FrameAssumption DEF Context, Operand
<1>3. ASSUME NEW u \in SUBSET Var PROVE IsFiniteSet(u) /\ Cardinality(u) \in Nat
  BY FrameAssumption, FS_Subset, FS_CardinalityType
<1>4. SUFFICES
        /\ Sound(real') /\ Sound(dry')
        /\ live' \subseteq Temp /\ unscanned' \subseteq Var /\ unseen' \subseteq Var
        /\ Covers(dry', real', unseen') /\ Suffices(dry', real', unseen')
        /\ \A v \in Var : v \in Owned(real') <=> v \notin unscanned'
        /\ unscanned' # {} => real'.free = {}
  BY DEF IInv, TypeOK, FrameSuffices, Suffices, Scanned, Partitioned, Bounded, Covers, Owned
<1>5. CASE PreScan
  <2>1. PICK v \in unscanned :
          /\ real' = AllocPermanent(real, v) /\ unscanned' = unscanned \ {v}
          /\ dry' = dry /\ live' = live /\ unseen' = unseen
    BY <1>5 DEF PreScan
  <2>2. v \in Var /\ v \in Operand /\ v \notin Temp
    BY <1>1, <1>2
  <2>3. /\ Sound(real') /\ Owned(real') = Owned(real) \cup {v}
        /\ real'.free = real.free
    BY <1>1, <2>1, <2>2, AllocPermanentKeeps
  <2>4. Covers(dry', real', unseen')
    BY <1>1, <2>1, <2>2, <2>3 DEF Covers
  <2>5. real'.free = {}
    BY <1>1, <2>1, <2>3
  <2>6. Suffices(dry', real', unseen')
    BY <1>1, <2>1, <2>3, <2>4, <2>5, FullFrameSuffices
  <2> QED
    BY <1>1, <2>1, <2>2, <2>3, <2>4, <2>5, <2>6
<1>6. CASE NameVar
  <2>1. PICK v \in Var :
          /\ dry' = AllocPermanent(dry, v) /\ real' = AllocPermanent(real, v)
          /\ unseen' = unseen \ {v}
          /\ live' = live /\ unscanned' = unscanned /\ unscanned = {}
    BY <1>6 DEF NameVar, Generating
  <2>2. v \in Operand /\ v \notin Temp /\ v \in Owned(real)
    BY <1>1, <1>2, <2>1
  <2>3. real' = real
    BY <1>1, <2>1, <2>2, AllocPermanentKeeps
  <2>4. /\ Sound(dry') /\ Owned(dry') = Owned(dry) \cup {v}
        /\ dry'.next = IF v \in Owned(dry) THEN dry.next ELSE dry.next + 1
    BY <1>1, <2>1, <2>2, AllocPermanentKeeps
  <2>5. Covers(dry', real', unseen')
    BY <1>1, <2>1, <2>2, <2>3, <2>4 DEF Covers
  <2>6. v \in Owned(dry) <=> v \notin unseen
    BY <1>1, <2>1 DEF Covers
  <2>7. Cardinality(unseen) \in Nat /\ Cardinality(unseen \ {v}) =
          IF v \in unseen THEN Cardinality(unseen) - 1 ELSE Cardinality(unseen)
    BY <1>1, <1>3, FS_RemoveElement
  <2>8. Suffices(dry', real', unseen')
    BY <1>1, <1>2, <2>1, <2>3, <2>4, <2>6, <2>7 DEF Suffices
  <2> QED
    BY <1>1, <2>1, <2>3, <2>4, <2>5, <2>8
<1>7. CASE Define
  <2>1. PICK t \in Temp, stored \in BOOLEAN :
          /\ dry' = AllocTemp(dry, t)
          /\ real' = IF stored THEN AllocTemp(real, t) ELSE real
          /\ live' = live \cup {t}
          /\ unseen' = unseen /\ unscanned' = unscanned /\ unscanned = {}
    BY <1>7 DEF Define, Generating
  <2>2. t \in Operand /\ t \notin Var
    BY <1>2
  <2>3. Sound(dry') /\ Owned(dry') = Owned(dry) \cup {t} /\ dry.next <= dry'.next
    BY <1>1, <2>1, <2>2, AllocTempKeeps
  <2>4. /\ Sound(real') /\ Owned(real') \subseteq Owned(real) \cup {t}
        /\ Owned(real) \subseteq Owned(real')
        /\ real'.next # real.next => real'.free = {}
    <3>1. CASE stored
      BY <1>1, <2>1, <2>2, <3>1, AllocTempKeeps
    <3>2. CASE ~stored
      BY <1>1, <2>1, <3>2
    <3> QED
      BY <3>1, <3>2
  <2>5. Covers(dry', real', unseen')
    BY <1>1, <2>1, <2>2, <2>3, <2>4 DEF Covers
  <2>6. CASE real'.next = real.next
    <3>1. dry'.next \in Nat /\ Cardinality(unseen) \in Nat
      BY <1>1, <1>3, <2>3 DEF Context
    <3>2. Suffices(dry', real', unseen')
      BY <1>1, <1>2, <2>1, <2>3, <2>6, <3>1 DEF Suffices
    <3> QED
      BY <1>1, <2>1, <2>2, <2>3, <2>4, <2>5, <3>2
  <2>7. CASE real'.next # real.next
    <3>1. Suffices(dry', real', unseen')
      BY <1>1, <2>1, <2>3, <2>4, <2>5, <2>7, FullFrameSuffices
    <3> QED
      BY <1>1, <2>1, <2>2, <2>3, <2>4, <2>5, <3>1
  <2> QED
    BY <2>6, <2>7
<1>8. CASE EndOfInstruction
  <2>1. PICK dead \in SUBSET live :
          /\ dry' = FreeDeadTemps(dry, dead) /\ real' = FreeDeadTemps(real, dead)
          /\ live' = live \ dead
          /\ unseen' = unseen /\ unscanned' = unscanned /\ unscanned = {}
    BY <1>8 DEF EndOfInstruction, Generating
  <2>2. dead \in SUBSET Operand /\ dead \cap Var = {}
    BY <1>1, <1>2
  <2>3. Sound(dry') /\ Owned(dry') = Owned(dry) \ dead /\ dry'.next = dry.next
    BY <1>1, <2>1, <2>2, FreeDeadTempsKeeps
  <2>4. Sound(real') /\ Owned(real') = Owned(real) \ dead /\ real'.next = real.next
    BY <1>1, <2>1, <2>2, FreeDeadTempsKeeps
  <2>5. Covers(dry', real', unseen')
    BY <1>1, <2>1, <2>2, <2>3, <2>4 DEF Covers
  <2>6. Suffices(dry', real', unseen')
    BY <1>1, <2>1, <2>3, <2>4 DEF Suffices
  <2> QED
    BY <1>1, <2>1, <2>2, <2>3, <2>4, <2>5, <2>6
<1>9. CASE UNCHANGED vars
  BY <1>1, <1>9 DEF vars
<1> QED
  BY <1>5, <1>6, <1>7, <1>8, <1>9 DEF Next

(* Every reachable state of the two runs satisfies the invariant.           *)
THEOREM Inductive == Spec => []IInv
<1>1. Init => IInv
  BY InitInv
<1>2. IInv /\ [Next]_vars => IInv'
  BY StepInv
<1> QED
  BY <1>1, <1>2, PTL DEF Spec

(* Both contexts stay well formed, whatever the instructions.               *)
THEOREM TypeCorrect == Spec => []TypeOK
<1>1. IInv => TypeOK
  BY DEF IInv
<1> QED
  BY <1>1, Inductive, PTL

(* The generated code needs no slot beyond the frame of the dry run.        *)
THEOREM DryRunSuffices == Spec => []FrameSuffices
<1>1. IInv => FrameSuffices
  BY DEF IInv
<1> QED
  BY <1>1, Inductive, PTL

(* No two operands share a slot, and no slot is lost.                       *)
THEOREM NoSlotSharedOrLost == Spec => []SlotsPartitioned
<1>1. IInv => SlotsPartitioned
  BY DEF IInv, SlotsPartitioned
<1> QED
  BY <1>1, Inductive, PTL

(* The slot of a Temp that is still needed, and of a Var, stays its own.    *)
THEOREM NeededSlotsStay == Spec => SlotsStay
<1> DEFINE Stay == \A x \in Operand :
                     /\ x \in Var \/ x \in live \cap live'
                     /\ real.slot[x] # NoSlot
                     => real'.slot[x] = real.slot[x]
<1>1. IInv /\ [Next]_vars => Stay
  <2> SUFFICES ASSUME IInv, [Next]_vars, NEW x \in Operand,
                      x \in Var \/ x \in live \cap live', x \in Owned(real)
               PROVE  real'.slot[x] = real.slot[x]
    BY DEF Owned
  <2>1. /\ real \in Context /\ Partitioned(real) /\ Bounded(real)
        /\ live \subseteq Temp /\ unscanned \subseteq Var
        /\ Temp \subseteq Operand /\ Var \subseteq Operand /\ Temp \cap Var = {}
    BY FrameAssumption DEF IInv, TypeOK, Operand
  <2>2. CASE \E v \in Operand : real' = AllocPermanent(real, v)
    BY <2>1, <2>2, AllocPermanentKeeps
  <2>3. CASE \E t \in Operand : real' = AllocTemp(real, t)
    BY <2>1, <2>3, AllocTempKeeps
  <2>4. CASE EndOfInstruction
    <3>1. PICK dead \in SUBSET live :
            real' = FreeDeadTemps(real, dead) /\ live' = live \ dead
      BY <2>4 DEF EndOfInstruction
    <3>2. x \notin dead /\ dead \in SUBSET Operand
      BY <2>1, <3>1
    <3> QED
      BY <2>1, <3>1, <3>2, FreeDeadTempsKeeps
  <2>5. CASE real' = real
    BY <2>5
  <2> QED
    BY <2>1, <2>2, <2>3, <2>4, <2>5 DEF Next, PreScan, NameVar, Define, vars
<1>2. IInv /\ [Next]_vars => [Stay]_vars
  BY <1>1
<1> QED
  BY <1>2, Inductive, PTL DEF Spec, SlotsStay
=============================================================================
