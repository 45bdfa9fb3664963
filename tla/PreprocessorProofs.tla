--------------------------- MODULE PreprocessorProofs ---------------------------
(***************************************************************************)
(* Proofs about Preprocessor, for every file system, every set of include   *)
(* directories and every meaning of expressions and macros.                 *)
(***************************************************************************)
EXTENDS Preprocessor, SequenceTheorems, TLAPS

Flags == [taking : BOOLEAN, ever : BOOLEAN]
Frames == [file : DOMAIN files, at : Nat, conds : Seq(Flags), guard : SUBSET DOMAIN files,
           groups : Seq(Seq(BOOLEAN))]

\* What the two flags of each open group mean: taking, that the groups up to this
\* one are all in their first true branch; ever, where the groups around it are,
\* that it has had a true branch.
Outer(groups, j) == \A i \in 1 .. j - 1 : FirstTrue(groups[i])
HadTrue(branches) == \E n \in 1 .. Len(branches) : branches[n]
FlagsRight(conds, groups) ==
  /\ Len(groups) = Len(conds)
  /\ \A j \in 1 .. Len(conds) :
       /\ groups[j] # <<>>
       /\ conds[j].taking <=> Outer(groups, j) /\ FirstTrue(groups[j])
       /\ Outer(groups, j) => (conds[j].ever <=> HadTrue(groups[j]))

FilesOK == /\ Top \in DOMAIN files
           /\ \A f \in DOMAIN files : files[f] \in Seq(Range(files[f]))

StackOK == /\ stack \in Seq(Frames)
           /\ \A k \in 1 .. Len(stack) : /\ stack[k].at <= Len(files[stack[k].file])
                                         /\ FlagsRight(stack[k].conds, stack[k].groups)

\* A frame's guard has the files of the frames up to it, without the first.
GuardsOK == \A k \in 1 .. Len(stack), file \in DOMAIN files :
              file \in stack[k].guard <=> \E i \in 2 .. k : stack[i].file = file

\* The lexer is where the active frame is.
Mapped == Unmarked /\ stack # <<>> => pos = <<Active.file, Active.at + 1>>

OutOK == \E S : out \in Seq(S)

Frameful == FilesOK /\ StackOK /\ GuardsOK /\ NoFileWithinItself

IInv == Frameful /\ Mapped /\ OutOK /\ LinesMapped /\ error \in BOOLEAN

-----------------------------------------------------------------------------
(* The stack of conditionals of one frame. *)

LEMMA FlagsType ==
  ASSUME NEW p \in BOOLEAN, NEW q \in BOOLEAN
  PROVE  [taking |-> p, ever |-> q] \in Flags
BY DEF Flags

\* All groups are taken iff each is in its first true branch.
LEMMA TakingMeans ==
  ASSUME NEW conds \in Seq(Flags), NEW groups \in Seq(Seq(BOOLEAN)), FlagsRight(conds, groups)
  PROVE  Taking(conds) <=> \A i \in 1 .. Len(groups) : FirstTrue(groups[i])
<1>1. DOMAIN conds = 1 .. Len(conds) /\ Len(conds) \in Nat /\ Len(groups) = Len(conds)
  BY DEF FlagsRight
<1>2. ASSUME Taking(conds), NEW i \in 1 .. Len(groups)
      PROVE  FirstTrue(groups[i])
  BY <1>1, <1>2 DEF Taking, FlagsRight
<1>3. ASSUME \A i \in 1 .. Len(groups) : FirstTrue(groups[i])
      PROVE  Taking(conds)
  BY <1>1, <1>3 DEF Taking, FlagsRight, Outer
<1> QED BY <1>2, <1>3

\* A group on top of the others whose flags are right.
LEMMA PushedOK ==
  ASSUME NEW conds \in Seq(Flags), NEW groups \in Seq(Seq(BOOLEAN)), FlagsRight(conds, groups),
         NEW c \in Flags, NEW g \in Seq(BOOLEAN), g # <<>>,
         c.taking <=> Taking(conds) /\ FirstTrue(g),
         Taking(conds) => (c.ever <=> HadTrue(g))
  PROVE  FlagsRight(Append(conds, c), Append(groups, g))
<1> DEFINE n == Len(conds)
           cs == Append(conds, c)
           gs == Append(groups, g)
<1>1. n \in Nat /\ Len(groups) = n
  BY DEF FlagsRight
<1>2. /\ Len(cs) = n + 1 /\ Len(gs) = n + 1
      /\ \A j \in 1 .. n : cs[j] = conds[j] /\ gs[j] = groups[j]
      /\ cs[n + 1] = c /\ gs[n + 1] = g
  BY <1>1, AppendProperties
<1>3. \A j \in 1 .. n + 1 : Outer(gs, j) <=> Outer(groups, j)
  BY <1>1, <1>2 DEF Outer
<1>4. Outer(groups, n + 1) <=> Taking(conds)
  BY <1>1, TakingMeans DEF Outer
<1> HIDE DEF cs, gs
<1>5. ASSUME NEW j \in 1 .. n
      PROVE  /\ gs[j] # <<>>
             /\ cs[j].taking <=> Outer(gs, j) /\ FirstTrue(gs[j])
             /\ Outer(gs, j) => (cs[j].ever <=> HadTrue(gs[j]))
  <2>1. cs[j] = conds[j] /\ gs[j] = groups[j] /\ (Outer(gs, j) <=> Outer(groups, j))
    BY <1>1, <1>2, <1>3
  <2>2. /\ groups[j] # <<>>
        /\ conds[j].taking <=> Outer(groups, j) /\ FirstTrue(groups[j])
        /\ Outer(groups, j) => (conds[j].ever <=> HadTrue(groups[j]))
    BY DEF FlagsRight
  <2> QED BY <2>1, <2>2
<1>6. /\ gs[n + 1] # <<>>
      /\ cs[n + 1].taking <=> Outer(gs, n + 1) /\ FirstTrue(gs[n + 1])
      /\ Outer(gs, n + 1) => (cs[n + 1].ever <=> HadTrue(gs[n + 1]))
  BY <1>1, <1>2, <1>3, <1>4
<1>7. FlagsRight(cs, gs)
  BY <1>1, <1>2, <1>5, <1>6 DEF FlagsRight
<1> QED BY <1>7 DEF cs, gs

\* What is left without the innermost group.
LEMMA PoppedOK ==
  ASSUME NEW conds \in Seq(Flags), NEW groups \in Seq(Seq(BOOLEAN)), FlagsRight(conds, groups),
         conds # <<>>
  PROVE  /\ Parents(conds) \in Seq(Flags) /\ Parents(groups) \in Seq(Seq(BOOLEAN))
         /\ FlagsRight(Parents(conds), Parents(groups))
<1> DEFINE n == Len(conds)
           cs == Parents(conds)
           gs == Parents(groups)
<1>1. n \in Nat \ {0} /\ Len(groups) = n
  BY DEF FlagsRight
<1>2. /\ cs \in Seq(Flags) /\ gs \in Seq(Seq(BOOLEAN))
      /\ Len(cs) = n - 1 /\ Len(gs) = n - 1
      /\ \A j \in 1 .. n - 1 : cs[j] = conds[j] /\ gs[j] = groups[j]
  BY <1>1 DEF Parents
<1> HIDE DEF cs, gs
<1>3. ASSUME NEW j \in 1 .. n - 1
      PROVE  /\ gs[j] # <<>>
             /\ cs[j].taking <=> Outer(gs, j) /\ FirstTrue(gs[j])
             /\ Outer(gs, j) => (cs[j].ever <=> HadTrue(gs[j]))
  <2>1. cs[j] = conds[j] /\ gs[j] = groups[j]
    BY <1>2
  <2>2. j \in 1 .. n
    BY <1>1
  <2>3. \A i \in 1 .. j - 1 : gs[i] = groups[i]
    BY <1>1, <1>2
  <2>4. Outer(gs, j) <=> Outer(groups, j)
    BY <2>3 DEF Outer
  <2>5. /\ groups[j] # <<>>
        /\ conds[j].taking <=> Outer(groups, j) /\ FirstTrue(groups[j])
        /\ Outer(groups, j) => (conds[j].ever <=> HadTrue(groups[j]))
    BY <2>2 DEF FlagsRight
  <2> QED BY <2>1, <2>4, <2>5
<1>4. FlagsRight(cs, gs)
  BY <1>1, <1>2, <1>3 DEF FlagsRight
<1> QED BY <1>2, <1>4 DEF cs, gs

\* Another value for the innermost group.
LEMMA ReplacedOK ==
  ASSUME NEW conds \in Seq(Flags), NEW groups \in Seq(Seq(BOOLEAN)), FlagsRight(conds, groups),
         conds # <<>>, NEW c \in Flags, NEW g \in Seq(BOOLEAN), g # <<>>,
         c.taking <=> Taking(Parents(conds)) /\ FirstTrue(g),
         Taking(Parents(conds)) => (c.ever <=> HadTrue(g))
  PROVE  LET n == Len(conds)
             cs == [conds EXCEPT ![n] = c]
             gs == [groups EXCEPT ![n] = g]
         IN  cs \in Seq(Flags) /\ gs \in Seq(Seq(BOOLEAN)) /\ FlagsRight(cs, gs)
<1> DEFINE n == Len(conds)
           cs == [conds EXCEPT ![n] = c]
           gs == [groups EXCEPT ![n] = g]
<1>1. n \in Nat \ {0} /\ Len(groups) = n
  BY DEF FlagsRight
<1>2. /\ cs \in Seq(Flags) /\ gs \in Seq(Seq(BOOLEAN))
      /\ Len(cs) = n /\ Len(gs) = n
  BY <1>1
<1>3. /\ \A j \in 1 .. n - 1 : cs[j] = conds[j] /\ gs[j] = groups[j]
      /\ cs[n] = c /\ gs[n] = g
  BY <1>1
<1>4. Outer(groups, n) <=> Taking(Parents(conds))
  <2>1. /\ Parents(conds) \in Seq(Flags) /\ Parents(groups) \in Seq(Seq(BOOLEAN))
        /\ FlagsRight(Parents(conds), Parents(groups))
    BY PoppedOK
  <2>2. Taking(Parents(conds)) <=> \A i \in 1 .. Len(Parents(groups)) : FirstTrue(Parents(groups)[i])
    BY <2>1, TakingMeans
  <2>3. Len(Parents(groups)) = n - 1 /\ \A i \in 1 .. n - 1 : Parents(groups)[i] = groups[i]
    BY <1>1 DEF Parents
  <2> QED BY <2>2, <2>3 DEF Outer
<1> HIDE DEF cs, gs
<1>5. ASSUME NEW j \in 1 .. n
      PROVE  Outer(gs, j) <=> Outer(groups, j)
  <2>1. \A i \in 1 .. j - 1 : i \in 1 .. n - 1
    BY <1>1
  <2>2. \A i \in 1 .. j - 1 : gs[i] = groups[i]
    BY <2>1, <1>3
  <2> QED BY <2>2 DEF Outer
<1>6. ASSUME NEW j \in 1 .. n
      PROVE  /\ gs[j] # <<>>
             /\ cs[j].taking <=> Outer(gs, j) /\ FirstTrue(gs[j])
             /\ Outer(gs, j) => (cs[j].ever <=> HadTrue(gs[j]))
  <2>1. CASE j = n
    BY <2>1, <1>3, <1>4, <1>5
  <2>2. CASE j # n
    <3>1. j \in 1 .. n - 1
      BY <2>2, <1>1
    <3>2. cs[j] = conds[j] /\ gs[j] = groups[j]
      BY <3>1, <1>3
    <3>3. /\ groups[j] # <<>>
          /\ conds[j].taking <=> Outer(groups, j) /\ FirstTrue(groups[j])
          /\ Outer(groups, j) => (conds[j].ever <=> HadTrue(groups[j]))
      BY DEF FlagsRight
    <3> QED BY <3>2, <3>3, <1>5
  <2> QED BY <2>1, <2>2
<1>7. FlagsRight(cs, gs)
  BY <1>1, <1>2, <1>6 DEF FlagsRight
<1> QED BY <1>2, <1>7 DEF cs, gs

\* One more branch.
LEMMA BranchAdded ==
  ASSUME NEW g \in Seq(BOOLEAN), NEW b \in BOOLEAN
  PROVE  /\ Append(g, b) \in Seq(BOOLEAN) /\ Append(g, b) # <<>>
         /\ FirstTrue(Append(g, b)) <=> b /\ ~HadTrue(g)
         /\ HadTrue(Append(g, b)) <=> b \/ HadTrue(g)
<1> DEFINE n == Len(g)
           h == Append(g, b)
<1>1. n \in Nat /\ h \in Seq(BOOLEAN) /\ Len(h) = n + 1
  BY AppendProperties
<1>2. (\A i \in 1 .. n : h[i] = g[i]) /\ h[n + 1] = b
  BY AppendProperties
<1> HIDE DEF h
<1>3. FirstTrue(h) <=> b /\ ~HadTrue(g)
  BY <1>1, <1>2 DEF FirstTrue, HadTrue
<1>4. HadTrue(h) <=> b \/ HadTrue(g)
  BY <1>1, <1>2 DEF HadTrue
<1>5. h # <<>>
  BY <1>1
<1> QED BY <1>1, <1>3, <1>4, <1>5 DEF h

-----------------------------------------------------------------------------
(* The operations on a frame. *)

\* g is f with other conditionals, whose flags are right.
Same(f, g) == g.file = f.file /\ g.at = f.at /\ g.guard = f.guard
GoodFrom(f, g) == g \in Frames /\ FlagsRight(g.conds, g.groups) /\ Same(f, g)

LEMMA OpenedOK ==
  ASSUME NEW f \in Frames, FlagsRight(f.conds, f.groups), NEW b \in BOOLEAN
  PROVE  GoodFrom(f, Opened(f, b))
<1> DEFINE c == [taking |-> b /\ Taking(f.conds), ever |-> b]
           g == Opened(f, b)
<1>1. f.conds \in Seq(Flags) /\ f.groups \in Seq(Seq(BOOLEAN))
  BY DEF Frames
<1>2. Taking(f.conds) \in BOOLEAN
  BY DEF Taking
<1>3. c \in Flags
  BY <1>2, FlagsType
<1>4. c.taking = (b /\ Taking(f.conds)) /\ c.ever = b
  OBVIOUS
<1>5. <<b>> \in Seq(BOOLEAN) /\ <<b>> # <<>> /\ (FirstTrue(<<b>>) <=> b) /\ (HadTrue(<<b>>) <=> b)
  BY DEF FirstTrue, HadTrue
<1> HIDE DEF c
<1>6. g = [f EXCEPT !.conds = Append(f.conds, c), !.groups = Append(f.groups, <<b>>)]
  BY DEF Opened, c
<1>7. Append(f.conds, c) \in Seq(Flags) /\ Append(f.groups, <<b>>) \in Seq(Seq(BOOLEAN))
  BY <1>1, <1>3, <1>5, AppendProperties
<1>8. /\ g \in Frames /\ Same(f, g)
      /\ g.conds = Append(f.conds, c) /\ g.groups = Append(f.groups, <<b>>)
  BY <1>6, <1>7 DEF Frames, Same
<1>9. FlagsRight(Append(f.conds, c), Append(f.groups, <<b>>))
  BY <1>1, <1>3, <1>4, <1>5, PushedOK
<1> QED BY <1>8, <1>9 DEF GoodFrom

LEMMA ClosedOK ==
  ASSUME NEW f \in Frames, FlagsRight(f.conds, f.groups), f.conds # <<>>
  PROVE  GoodFrom(f, Closed(f))
<1>1. f.conds \in Seq(Flags) /\ f.groups \in Seq(Seq(BOOLEAN))
  BY DEF Frames
<1>2. /\ Parents(f.conds) \in Seq(Flags) /\ Parents(f.groups) \in Seq(Seq(BOOLEAN))
      /\ FlagsRight(Parents(f.conds), Parents(f.groups))
  BY <1>1, PoppedOK
<1>3. Closed(f) = [f EXCEPT !.conds = Parents(f.conds), !.groups = Parents(f.groups)]
  BY DEF Closed
<1>4. /\ Closed(f) \in Frames /\ Same(f, Closed(f))
      /\ Closed(f).conds = Parents(f.conds) /\ Closed(f).groups = Parents(f.groups)
  BY <1>2, <1>3 DEF Frames, Same
<1> QED BY <1>2, <1>4 DEF GoodFrom

\* What is the same for #elif and #else: the flags c and one more branch, b.
LEMMA BranchOK ==
  ASSUME NEW f \in Frames, FlagsRight(f.conds, f.groups), f.conds # <<>>, NEW b \in BOOLEAN, NEW c \in Flags,
         NEW n, n = Len(f.conds), NEW outer \in BOOLEAN, outer <=> Taking(Parents(f.conds)),
         c.taking <=> outer /\ b /\ ~f.conds[n].ever,
         outer => (c.ever <=> b \/ f.conds[n].ever)
  PROVE  GoodFrom(f, [f EXCEPT !.conds[n] = c, !.groups[n] = Append(@, b)])
<1> DEFINE g == f.groups[n]
           cs == [f.conds EXCEPT ![n] = c]
           gs == [f.groups EXCEPT ![n] = Append(g, b)]
           h == [f EXCEPT !.conds[n] = c, !.groups[n] = Append(@, b)]
<1>1. /\ f.conds \in Seq(Flags) /\ f.groups \in Seq(Seq(BOOLEAN))
      /\ n \in Nat \ {0} /\ Len(f.groups) = n
  BY DEF Frames, FlagsRight
<1>2. g \in Seq(BOOLEAN)
  BY <1>1
<1>3. outer => (f.conds[n].ever <=> HadTrue(g))
  <2>1. n \in 1 .. Len(f.conds)
    BY <1>1
  <2>2. Outer(f.groups, n) => (f.conds[n].ever <=> HadTrue(g))
    BY <2>1 DEF FlagsRight
  <2>3. /\ Parents(f.conds) \in Seq(Flags) /\ Parents(f.groups) \in Seq(Seq(BOOLEAN))
        /\ FlagsRight(Parents(f.conds), Parents(f.groups))
    BY <1>1, PoppedOK
  <2>4. Taking(Parents(f.conds))
          <=> \A i \in 1 .. Len(Parents(f.groups)) : FirstTrue(Parents(f.groups)[i])
    BY <2>3, TakingMeans
  <2>5. /\ Len(Parents(f.groups)) = n - 1
        /\ \A i \in 1 .. n - 1 : Parents(f.groups)[i] = f.groups[i]
    BY <1>1 DEF Parents
  <2>6. outer => Outer(f.groups, n)
    BY <2>4, <2>5 DEF Outer
  <2> QED BY <2>2, <2>6
<1>4. /\ Append(g, b) \in Seq(BOOLEAN) /\ Append(g, b) # <<>>
      /\ FirstTrue(Append(g, b)) <=> b /\ ~HadTrue(g)
      /\ HadTrue(Append(g, b)) <=> b \/ HadTrue(g)
  BY <1>2, BranchAdded
<1> HIDE DEF g
<1>5. /\ c.taking <=> Taking(Parents(f.conds)) /\ FirstTrue(Append(g, b))
      /\ Taking(Parents(f.conds)) => (c.ever <=> HadTrue(Append(g, b)))
  BY <1>3, <1>4
<1>6. cs \in Seq(Flags) /\ gs \in Seq(Seq(BOOLEAN)) /\ FlagsRight(cs, gs)
  BY <1>1, <1>4, <1>5, ReplacedOK
<1>7. h = [f EXCEPT !.conds = cs, !.groups = gs]
  BY DEF g
<1> HIDE DEF cs, gs, h
<1>8. /\ h \in Frames /\ Same(f, h)
      /\ h.conds = cs /\ h.groups = gs
  BY <1>6, <1>7 DEF Frames, Same
<1>9. GoodFrom(f, h)
  BY <1>6, <1>8 DEF GoodFrom
<1> QED BY <1>9 DEF h

LEMMA ElsedIfOK ==
  ASSUME NEW f \in Frames, FlagsRight(f.conds, f.groups), f.conds # <<>>, NEW b \in BOOLEAN
  PROVE  GoodFrom(f, ElsedIf(f, b))
<1> DEFINE n == Len(f.conds)
           outer == Taking(Parents(f.conds))
           ever == f.conds[n].ever
           new == b /\ outer
           c == IF ever THEN [taking |-> FALSE, ever |-> TRUE] ELSE [taking |-> new, ever |-> new]
<1>1. outer \in BOOLEAN /\ ever \in BOOLEAN /\ new \in BOOLEAN
  <2>1. n \in 1 .. n /\ f.conds \in Seq(Flags)
    BY DEF Frames
  <2>2. f.conds[n] \in Flags
    BY <2>1
  <2>3. ever \in BOOLEAN
    BY <2>2 DEF Flags
  <2>4. outer \in BOOLEAN
    BY DEF Taking
  <2> QED BY <2>3, <2>4
<1>2. c \in Flags
  BY <1>1, FlagsType
<1>3. /\ c.taking <=> outer /\ b /\ ~ever
      /\ outer => (c.ever <=> b \/ ever)
  BY <1>1
<1>4. ElsedIf(f, b) = [f EXCEPT !.conds[n] = c, !.groups[n] = Append(@, b)]
  BY DEF ElsedIf, Frames
<1> HIDE DEF c
<1>5. GoodFrom(f, [f EXCEPT !.conds[n] = c, !.groups[n] = Append(@, b)])
  BY <1>1, <1>2, <1>3, BranchOK
<1> QED BY <1>4, <1>5

LEMMA ElsedOK ==
  ASSUME NEW f \in Frames, FlagsRight(f.conds, f.groups), f.conds # <<>>
  PROVE  GoodFrom(f, Elsed(f))
<1> DEFINE n == Len(f.conds)
           outer == Taking(Parents(f.conds))
           ever == f.conds[n].ever
           new == ~ever /\ outer
           c == [taking |-> new, ever |-> ever \/ new]
<1>1. outer \in BOOLEAN /\ ever \in BOOLEAN /\ new \in BOOLEAN
  <2>1. n \in 1 .. n /\ f.conds \in Seq(Flags)
    BY DEF Frames
  <2>2. f.conds[n] \in Flags
    BY <2>1
  <2>3. ever \in BOOLEAN
    BY <2>2 DEF Flags
  <2>4. outer \in BOOLEAN
    BY DEF Taking
  <2> QED BY <2>3, <2>4
<1>2. c \in Flags
  BY <1>1, FlagsType
<1>3. /\ c.taking <=> outer /\ TRUE /\ ~ever
      /\ outer => (c.ever <=> TRUE \/ ever)
  BY <1>1
<1>4. Elsed(f) = [f EXCEPT !.conds[n] = c, !.groups[n] = Append(@, TRUE)]
  BY DEF Elsed, Frames
<1> HIDE DEF c
<1>5. GoodFrom(f, [f EXCEPT !.conds[n] = c, !.groups[n] = Append(@, TRUE)])
  BY <1>1, <1>2, <1>3, BranchOK
<1> QED BY <1>4, <1>5

-----------------------------------------------------------------------------
(* The operations on the stack. *)

LEMMA ActiveOK ==
  ASSUME Frameful, Running
  PROVE  /\ Len(stack) \in Nat \ {0} /\ Active \in Frames
         /\ Active.at <= Len(files[Active.file]) /\ FlagsRight(Active.conds, Active.groups)
<1>1. stack \in Seq(Frames) /\ stack # <<>>
  BY DEF Frameful, StackOK, Running
<1>2. Len(stack) \in Nat \ {0} /\ Len(stack) \in 1 .. Len(stack)
  BY <1>1
<1> QED BY <1>1, <1>2 DEF Frameful, StackOK, Active

\* A frame at another line.
LEMMA AtOK ==
  ASSUME NEW f \in Frames, NEW m \in Nat
  PROVE  LET h == [f EXCEPT !.at = m]
         IN  /\ h \in Frames /\ h.file = f.file /\ h.at = m /\ h.guard = f.guard
             /\ h.conds = f.conds /\ h.groups = f.groups
BY DEF Frames

\* The next line of the active frame, whose conditionals it may change.
LEMMA AdvanceOK ==
  ASSUME Frameful, Reading, NEW g, GoodFrom(Active, g), Advance(g), files' = files
  PROVE  /\ Frameful' /\ Len(stack') = Len(stack) /\ stack' # <<>>
         /\ Active'.file = Active.file /\ Active'.at = Active.at + 1
<1> DEFINE n == Len(stack)
           h == [g EXCEPT !.at = @ + 1]
<1>1. /\ n \in Nat \ {0} /\ Active \in Frames /\ stack \in Seq(Frames)
      /\ Active = stack[n]
  BY ActiveOK DEF Reading, Frameful, StackOK, Active
<1>2. Active.at < Len(files[Active.file]) /\ Active.at \in Nat /\ Len(files[Active.file]) \in Nat
  BY <1>1 DEF Reading, Frames, Frameful, FilesOK
<1>3. /\ h \in Frames /\ h.file = Active.file /\ h.at = Active.at + 1 /\ h.guard = Active.guard
      /\ h.conds = g.conds /\ h.groups = g.groups
  <2>1. g \in Frames /\ g.at \in Nat /\ g.file = Active.file /\ g.at = Active.at /\ g.guard = Active.guard
    BY DEF GoodFrom, Same, Frames
  <2>2. g.at + 1 \in Nat /\ h = [g EXCEPT !.at = g.at + 1]
    BY <2>1
  <2> QED BY <2>1, <2>2, AtOK
<1> HIDE DEF h
<1>4. stack' = [stack EXCEPT ![n] = h]
  BY DEF Advance, h
<1>5. /\ stack' \in Seq(Frames) /\ Len(stack') = n /\ stack'[n] = h
      /\ \A k \in 1 .. n : k # n => stack'[k] = stack[k]
  BY <1>1, <1>3, <1>4
<1>6. FilesOK' /\ Frames' = Frames
  BY DEF Frameful, FilesOK, Frames
<1>7. \A k \in 1 .. n : stack'[k].file = stack[k].file /\ stack'[k].guard = stack[k].guard
  BY <1>1, <1>3, <1>5
<1>8. StackOK'
  <2>1. ASSUME NEW k \in 1 .. n
        PROVE  stack'[k].at <= Len(files[stack'[k].file]) /\ FlagsRight(stack'[k].conds, stack'[k].groups)
    <3>1. CASE k = n
      BY <3>1, <1>2, <1>3, <1>5 DEF GoodFrom
    <3>2. CASE k # n
      BY <3>2, <1>5 DEF Frameful, StackOK
    <3> QED BY <3>1, <3>2
  <2> QED BY <2>1, <1>5, <1>6 DEF StackOK
<1>9. GuardsOK'
  BY <1>1, <1>5, <1>7 DEF Frameful, GuardsOK
<1>10. NoFileWithinItself'
  BY <1>1, <1>5, <1>7 DEF Frameful, NoFileWithinItself
<1>11. stack' # <<>> /\ Active' = h
  BY <1>1, <1>5 DEF Active
<1> QED BY <1>3, <1>5, <1>6, <1>8, <1>9, <1>10, <1>11 DEF Frameful

\* A frame on top, for a file that is not being included.
LEMMA EnteredOK ==
  ASSUME Frameful, Reading, NEW file \in DOMAIN files, file \notin Active.guard,
         stack' = Append(OnceRead, Entered(file)), files' = files
  PROVE  Frameful' /\ stack' # <<>> /\ Active'.file = file /\ Active'.at = 0
<1> DEFINE n == Len(stack)
           h == [Active EXCEPT !.at = @ + 1]
           e == Entered(file)
<1>1. /\ n \in Nat \ {0} /\ Active \in Frames /\ stack \in Seq(Frames)
      /\ Active = stack[n] /\ FlagsRight(Active.conds, Active.groups)
  BY ActiveOK DEF Reading, Frameful, StackOK, Active
<1>2. Active.at < Len(files[Active.file]) /\ Active.at \in Nat /\ Len(files[Active.file]) \in Nat
  BY <1>1 DEF Reading, Frames, Frameful, FilesOK
<1>3. /\ h \in Frames /\ h.file = Active.file /\ h.at = Active.at + 1 /\ h.guard = Active.guard
      /\ h.conds = Active.conds /\ h.groups = Active.groups
  <2>1. Active.at + 1 \in Nat /\ h = [Active EXCEPT !.at = Active.at + 1]
    BY <1>2
  <2> QED BY <2>1, <1>1, AtOK
<1>4. /\ e \in Frames /\ e.file = file /\ e.at = 0 /\ e.guard = Active.guard \cup {file}
      /\ e.conds = <<>> /\ e.groups = <<>>
  BY <1>1 DEF Entered, Frame, Frames
<1>5. OnceRead = [stack EXCEPT ![n] = h]
  BY <1>1 DEF OnceRead
<1> HIDE DEF h, e
<1>6. /\ OnceRead \in Seq(Frames) /\ Len(OnceRead) = n /\ OnceRead[n] = h
      /\ \A k \in 1 .. n : k # n => OnceRead[k] = stack[k]
  BY <1>1, <1>3, <1>5
<1>7. /\ stack' \in Seq(Frames) /\ Len(stack') = n + 1 /\ stack'[n + 1] = e
      /\ \A k \in 1 .. n : stack'[k] = OnceRead[k]
  BY <1>1, <1>4, <1>6, AppendProperties DEF e
<1>8. FilesOK' /\ Frames' = Frames
  BY DEF Frameful, FilesOK, Frames
<1>9. \A k \in 1 .. n : stack'[k].file = stack[k].file /\ stack'[k].guard = stack[k].guard
  BY <1>1, <1>3, <1>6, <1>7
<1>10. StackOK'
  <2>1. ASSUME NEW k \in 1 .. n + 1
        PROVE  stack'[k].at <= Len(files[stack'[k].file]) /\ FlagsRight(stack'[k].conds, stack'[k].groups)
    <3>1. CASE k = n + 1
      <4>1. FlagsRight(<<>>, <<>>)
        BY DEF FlagsRight
      <4>2. Len(files[file]) \in Nat
        BY DEF Frameful, FilesOK
      <4> QED BY <3>1, <4>1, <4>2, <1>4, <1>7
    <3>2. CASE k = n
      BY <3>2, <1>1, <1>2, <1>3, <1>6, <1>7
    <3>3. CASE k # n + 1 /\ k # n
      BY <3>3, <1>1, <1>6, <1>7 DEF Frameful, StackOK
    <3> QED BY <3>1, <3>2, <3>3
  <2> QED BY <2>1, <1>7, <1>8 DEF StackOK
<1>11. GuardsOK'
  <2>1. ASSUME NEW k \in 1 .. n, NEW x \in DOMAIN files
        PROVE  x \in stack'[k].guard <=> \E i \in 2 .. k : stack'[i].file = x
    <3>1. x \in stack[k].guard <=> \E i \in 2 .. k : stack[i].file = x
      BY DEF Frameful, GuardsOK
    <3>2. \A i \in 2 .. k : i \in 1 .. n
      BY <1>1
    <3>3. \A i \in 2 .. k : stack'[i].file = stack[i].file
      BY <3>2, <1>9
    <3> QED BY <3>1, <3>3, <1>9
  <2>2. ASSUME NEW x \in DOMAIN files
        PROVE  x \in stack'[n + 1].guard <=> \E i \in 2 .. n + 1 : stack'[i].file = x
    <3>1. stack'[n + 1].guard = Active.guard \cup {stack'[n + 1].file}
      BY <1>4, <1>7
    <3>2. n \in 1 .. n
      BY <1>1
    <3>3. stack'[n].guard = Active.guard
      BY <3>2, <1>1, <1>9
    <3>4. x \in Active.guard <=> \E i \in 2 .. n : stack'[i].file = x
      BY <2>1, <3>2, <3>3
    <3>5. \A i : i \in 2 .. n + 1 <=> i \in 2 .. n \/ i = n + 1
      BY <1>1
    <3> QED BY <3>1, <3>4, <3>5
  <2>3. \A k \in 1 .. n + 1 : k \in 1 .. n \/ k = n + 1
    BY <1>1
  <2> QED BY <2>1, <2>2, <2>3, <1>7 DEF GuardsOK
<1>12. NoFileWithinItself'
  <2>1. ASSUME NEW i \in 1 .. n + 1, NEW j \in 1 .. n + 1, i > 1, i < j
        PROVE  stack'[i].file # stack'[j].file
    <3>1. CASE j = n + 1
      <4>1. i \in 2 .. n /\ i \in 1 .. n /\ n \in 1 .. n
        BY <2>1, <3>1, <1>1
      <4>2. stack[i] \in Frames
        BY <4>1, <1>1
      <4>3. stack[i].file \in DOMAIN files
        BY <4>2 DEF Frames
      <4>4. stack[i].file \in stack[n].guard
        BY <4>1, <4>3 DEF Frameful, GuardsOK
      <4>5. stack'[i].file \in Active.guard
        BY <4>1, <4>4, <1>1, <1>9
      <4>6. stack'[j].file = file
        BY <3>1, <1>4, <1>7
      <4> QED BY <4>5, <4>6
    <3>2. CASE j # n + 1
      <4>1. i \in 1 .. n /\ j \in 1 .. n
        BY <2>1, <3>2, <1>1
      <4>2. DOMAIN stack = 1 .. n
        BY <1>1
      <4>3. stack[i].file # stack[j].file
        BY <2>1, <4>1, <4>2 DEF Frameful, NoFileWithinItself
      <4>4. stack'[i].file = stack[i].file /\ stack'[j].file = stack[j].file
        BY <4>1, <1>9
      <4> QED BY <4>3, <4>4
    <3> QED BY <3>1, <3>2
  <2>2. DOMAIN stack' = 1 .. n + 1
    BY <1>7
  <2> QED BY <2>1, <2>2 DEF NoFileWithinItself
<1>13. stack' # <<>> /\ Active' = e
  BY <1>1, <1>7 DEF Active
<1> QED BY <1>4, <1>8, <1>10, <1>11, <1>12, <1>13 DEF Frameful

\* The frame that included the one that has ended.
LEMMA ReturnedOK ==
  ASSUME Frameful, Running, stack' = SubSeq(stack, 1, Len(stack) - 1), files' = files
  PROVE  /\ Frameful' /\ Len(stack') = Len(stack) - 1
         /\ Len(stack) > 1 => Active' = stack[Len(stack) - 1]
<1> DEFINE n == Len(stack)
<1>1. n \in Nat \ {0} /\ stack \in Seq(Frames)
  BY ActiveOK DEF Frameful, StackOK
<1>2. /\ stack' \in Seq(Frames) /\ Len(stack') = n - 1
      /\ \A k \in 1 .. n - 1 : stack'[k] = stack[k]
  <2>1. \A i \in 1 .. n - 1 : stack[i] \in Frames
    BY <1>1
  <2>2. /\ stack' \in Seq(Frames) /\ Len(stack') = (IF 1 <= n - 1 THEN n - 1 - 1 + 1 ELSE 0)
        /\ \A i \in 1 .. n - 1 - 1 + 1 : stack'[i] = stack[1 + i - 1]
    BY <2>1, <1>1, SubSeqProperties
  <2>3. Len(stack') = n - 1
    <3>1. CASE n = 1
      BY <3>1, <2>2
    <3>2. CASE n # 1
      <4>1. n - 1 - 1 + 1 = n - 1 /\ 1 <= n - 1
        <5>1. \A m \in Nat \ {0} : m # 1 => m - 1 - 1 + 1 = m - 1 /\ 1 <= m - 1
          OBVIOUS
        <5> QED BY <5>1, <3>2, <1>1
      <4> QED BY <4>1, <2>2
    <3> QED BY <3>1, <3>2
  <2>4. ASSUME NEW k \in 1 .. n - 1
        PROVE  stack'[k] = stack[k]
    <3>1. k \in 1 .. n - 1 - 1 + 1 /\ 1 + k - 1 = k
      BY <1>1
    <3> QED BY <3>1, <2>2
  <2> QED BY <2>2, <2>3, <2>4
<1>3. FilesOK' /\ Frames' = Frames
  BY DEF Frameful, FilesOK, Frames
<1>4. StackOK'
  BY <1>1, <1>2, <1>3 DEF Frameful, StackOK
<1>5. GuardsOK'
  <2>1. ASSUME NEW k \in 1 .. n - 1, NEW x \in DOMAIN files
        PROVE  x \in stack'[k].guard <=> \E i \in 2 .. k : stack'[i].file = x
    <3>1. k \in 1 .. n /\ \A i \in 2 .. k : i \in 1 .. n - 1
      BY <1>1
    <3>2. x \in stack[k].guard <=> \E i \in 2 .. k : stack[i].file = x
      BY <3>1 DEF Frameful, GuardsOK
    <3> QED BY <3>1, <3>2, <1>2
  <2> QED BY <2>1, <1>2 DEF GuardsOK
<1>6. NoFileWithinItself'
  BY <1>1, <1>2 DEF Frameful, NoFileWithinItself
<1>7. n > 1 => Active' = stack[n - 1]
  BY <1>1, <1>2 DEF Active
<1> QED BY <1>2, <1>3, <1>4, <1>5, <1>6, <1>7 DEF Frameful

-----------------------------------------------------------------------------
(* The invariant. *)

LEMMA InitOK == Init => IInv
<1> SUFFICES ASSUME Init PROVE IInv
  OBVIOUS
<1>1. FilesOK
  BY WorldsAssumption DEF Init, FilesOK
<1>2. /\ stack \in Seq(Frames) /\ Len(stack) = 1 /\ stack[1].at = 0 /\ stack[1].file = Top
      /\ stack[1].guard = {} /\ stack[1].conds = <<>> /\ stack[1].groups = <<>>
  <2>1. Frame(Top, {}) \in Frames
    BY <1>1 DEF Frame, Frames, FilesOK
  <2> QED BY <2>1 DEF Init, Frame
<1>3. StackOK
  <2>1. FlagsRight(<<>>, <<>>) /\ Len(files[Top]) \in Nat
    BY <1>1 DEF FlagsRight, FilesOK
  <2> QED BY <1>2, <2>1 DEF StackOK
<1>4. GuardsOK
  BY <1>2 DEF GuardsOK
<1>5. NoFileWithinItself
  BY <1>2 DEF NoFileWithinItself
<1>6. Mapped
  BY <1>2 DEF Mapped, Init, Active, Frame
<1>7. OutOK /\ LinesMapped
  <2>1. out = <<>> /\ out \in Seq({})
    BY DEF Init
  <2> QED BY <2>1 DEF OutOK, LinesMapped
<1>8. error \in BOOLEAN
  BY DEF Init
<1> QED BY <1>1, <1>3, <1>4, <1>5, <1>6, <1>7, <1>8 DEF IInv, Frameful

LEMMA BooleanCondition == Condition \in BOOLEAN
BY DEF Condition

\* A step that changes none of what the invariant is about.
LEMMA RaiseOK == ASSUME IInv, Raise PROVE IInv'
<1>1. FilesOK' /\ StackOK' /\ GuardsOK' /\ NoFileWithinItself'
  BY DEF IInv, Frameful, Raise, FilesOK, StackOK, Frames, GuardsOK, NoFileWithinItself
<1>2. Mapped' /\ OutOK' /\ LinesMapped' /\ error' \in BOOLEAN
  BY DEF IInv, Raise, Mapped, Unmarked, Active, OutOK, LinesMapped
<1> QED BY <1>1, <1>2 DEF IInv, Frameful

\* A step to the next line.
LEMMA LineRead ==
  ASSUME IInv, Reading, NEW g, GoodFrom(Active, g), Advance(g), NextLine, UNCHANGED <<files, error, out>>
  PROVE  IInv'
<1>1. /\ Frameful' /\ stack' # <<>> /\ stack # <<>>
      /\ Active'.file = Active.file /\ Active'.at = Active.at + 1
  BY AdvanceOK DEF IInv, Reading, Running
<1>2. Mapped'
  <2>1. Unmarked' <=> Unmarked
    BY DEF Unmarked
  <2>2. Unmarked => pos' = <<Active.file, Active.at + 1 + 1>>
    BY <1>1 DEF IInv, Mapped, NextLine
  <2> QED BY <1>1, <2>1, <2>2 DEF Mapped
<1>3. OutOK' /\ LinesMapped' /\ error' \in BOOLEAN
  BY DEF IInv, OutOK, LinesMapped, Unmarked
<1> QED BY <1>1, <1>2, <1>3 DEF IInv

\* The active frame, as it is.
LEMMA Itself == ASSUME IInv, Reading PROVE GoodFrom(Active, Active)
BY ActiveOK DEF IInv, Reading, GoodFrom, Same

LEMMA TextOK == ASSUME IInv, Text PROVE IInv'
<1>1. Reading /\ GoodFrom(Active, Active) /\ Advance(Active) /\ NextLine /\ files' = files /\ error' = error
  BY Itself DEF Text
<1>2. /\ Frameful' /\ stack' # <<>> /\ stack # <<>>
      /\ Active'.file = Active.file /\ Active'.at = Active.at + 1
  BY <1>1, AdvanceOK DEF IInv, Reading, Running
<1>3. Unmarked => pos = <<Active.file, Active.at + 1>> /\ pos' = <<Active.file, Active.at + 1 + 1>>
  BY <1>1, <1>2 DEF IInv, Mapped, NextLine
<1>4. Unmarked' <=> Unmarked
  BY <1>1 DEF Unmarked
<1>5. Mapped'
  BY <1>2, <1>3, <1>4 DEF Mapped
<1>6. OutOK' /\ LinesMapped'
  <2> DEFINE r == [file |-> Active.file, line |-> Active.at + 1, pos |-> pos, text |-> Expanded(Line.arg, defines)]
  <2>1. CASE out' = out
    BY <2>1, <1>4 DEF IInv, OutOK, LinesMapped
  <2>2. CASE out' = Append(out, r)
    <3>1. PICK S : out \in Seq(S)
      BY DEF IInv, OutOK
    <3>2. out \in Seq(S \cup {r}) /\ r \in S \cup {r}
      BY <3>1
    <3>3. /\ out' \in Seq(S \cup {r}) /\ Len(out') = Len(out) + 1 /\ out'[Len(out) + 1] = r
          /\ \A i \in 1 .. Len(out) : out'[i] = out[i]
      BY <2>2, <3>2, AppendProperties
    <3>4. Unmarked => r.pos = <<r.file, r.line>>
      BY <1>3
    <3> HIDE DEF r
    <3>5. ASSUME Unmarked', NEW i \in DOMAIN out'
          PROVE  out'[i].pos = <<out'[i].file, out'[i].line>>
      <4>1. i \in 1 .. Len(out) + 1 /\ Len(out) \in Nat /\ DOMAIN out = 1 .. Len(out)
        BY <3>1, <3>3
      <4>2. CASE i = Len(out) + 1
        BY <4>2, <3>3, <3>4, <3>5, <1>4
      <4>3. CASE i # Len(out) + 1
        <5>1. i \in 1 .. Len(out)
          BY <4>1, <4>3
        <5>2. out[i].pos = <<out[i].file, out[i].line>>
          BY <5>1, <4>1, <3>5, <1>4 DEF IInv, LinesMapped
        <5> QED BY <5>1, <5>2, <3>3
      <4> QED BY <4>2, <4>3
    <3> QED BY <3>3, <3>5 DEF OutOK, LinesMapped
  <2> QED BY <2>1, <2>2 DEF Text
<1> QED BY <1>1, <1>2, <1>5, <1>6 DEF IInv

LEMMA MarkerOK == ASSUME IInv, Marker PROVE IInv'
<1>1. /\ Reading /\ GoodFrom(Active, Active) /\ Advance(Active)
      /\ files' = files /\ error' = error /\ out' = out
  BY Itself DEF Marker
<1>2. Frameful'
  BY <1>1, AdvanceOK DEF IInv
<1>3. ~Unmarked /\ ~Unmarked'
  <2>1. Active \in Frames /\ Active.at < Len(files[Active.file]) /\ files[Active.file] \in Seq(Range(files[Active.file]))
    BY <1>1, ActiveOK DEF IInv, Reading, Frameful, FilesOK, Frames
  <2>2. /\ Active.file \in DOMAIN files /\ Active.at + 1 \in DOMAIN files[Active.file]
        /\ files[Active.file][Active.at + 1].is \in {"line", "# line"}
    <3>1. Active.file \in DOMAIN files /\ Active.at + 1 \in DOMAIN files[Active.file]
      BY <2>1 DEF Frames
    <3>2. Line.is \in {"line", "# line"}
      BY DEF Marker
    <3> QED BY <3>1, <3>2 DEF Line
  <2> QED BY <2>2, <1>1 DEF Unmarked
<1> QED BY <1>1, <1>2, <1>3 DEF IInv, Mapped, OutOK, LinesMapped

LEMMA IncludeOK == ASSUME IInv, Include PROVE IInv'
<1>1. Reading /\ GoodFrom(Active, Active)
  BY Itself DEF Include
<1>2. CASE Raise
  BY <1>2, RaiseOK
<1>3. CASE \E k \in Found : Enter(Candidate(k))
  <2>1. PICK k \in Found : Enter(Candidate(k))
    BY <1>3
  <2> DEFINE file == Candidate(k)
  <2>2. file \in DOMAIN files
    BY DEF Found
  <2> HIDE DEF file
  <2>3. CASE file \in Active.guard
    <3>1. Advance(Active) /\ NextLine /\ UNCHANGED <<files, error, out>>
      BY <2>1, <2>3 DEF Enter, file
    <3> QED BY <3>1, <1>1, LineRead
  <2>4. CASE file \notin Active.guard
    <3>1. /\ stack' = Append(OnceRead, Entered(file)) /\ pos' = <<file, 1>>
          /\ files' = files /\ error' = error /\ out' = out
      BY <2>1, <2>4 DEF Enter, file
    <3>2. Frameful' /\ stack' # <<>> /\ Active'.file = file /\ Active'.at = 0
      BY <1>1, <2>2, <2>4, <3>1, EnteredOK DEF IInv
    <3>3. Mapped'
      BY <3>1, <3>2 DEF Mapped
    <3> QED BY <3>1, <3>2, <3>3 DEF IInv, OutOK, LinesMapped, Unmarked
  <2> QED BY <2>3, <2>4
<1> QED BY <1>2, <1>3 DEF Include

LEMMA EndOfFileOK == ASSUME IInv, EndOfFile PROVE IInv'
<1>1. CASE Raise
  BY <1>1, RaiseOK
<1>2. CASE ~Raise
  <2>1. /\ stack' = SubSeq(stack, 1, Len(stack) - 1) /\ files' = files /\ error' = error /\ out' = out
        /\ pos' = IF Len(stack) > 1 THEN Resumed(stack[Len(stack) - 1]) ELSE pos
        /\ Running
    BY <1>2 DEF EndOfFile
  <2>2. Frameful' /\ Len(stack') = Len(stack) - 1 /\ (Len(stack) > 1 => Active' = stack[Len(stack) - 1])
    BY <2>1, ReturnedOK DEF IInv
  <2>3. Len(stack) \in Nat \ {0}
    BY <2>1, ActiveOK DEF IInv
  <2>4. Mapped'
    <3>1. CASE Len(stack) > 1
      BY <3>1, <2>1, <2>2 DEF Mapped, Resumed
    <3>2. CASE Len(stack) = 1
      <4>1. stack' = <<>>
        BY <3>2, <2>2 DEF Frameful, StackOK
      <4> QED BY <4>1 DEF Mapped
    <3> QED BY <3>1, <3>2, <2>3
  <2> QED BY <2>1, <2>2, <2>4 DEF IInv, OutOK, LinesMapped, Unmarked
<1> QED BY <1>1, <1>2

\* Every step keeps the invariant.
LEMMA NextOK == IInv /\ [Next]_vars => IInv'
<1> SUFFICES ASSUME IInv, [Next]_vars PROVE IInv'
  OBVIOUS
<1>1. CASE Text
  BY <1>1, TextOK
<1>2. CASE Marker
  BY <1>2, MarkerOK
<1>3. CASE If
  <2>1. CASE Raise
    BY <2>1, RaiseOK
  <2>2. CASE ~Raise
    <3>1. Reading /\ Advance(Opened(Active, Condition)) /\ NextLine /\ UNCHANGED <<files, error, out>>
      BY <1>3, <2>2 DEF If
    <3>2. GoodFrom(Active, Opened(Active, Condition))
      BY <3>1, ActiveOK, OpenedOK, BooleanCondition DEF IInv, Reading
    <3> QED BY <3>1, <3>2, LineRead
  <2> QED BY <2>1, <2>2
<1>4. CASE Elif
  <2> DEFINE b == ~Unreadable /\ Condition
  <2>1. CASE Raise
    BY <2>1, RaiseOK
  <2>2. CASE ~Raise
    <3>1. /\ Reading /\ Active.conds # <<>> /\ Advance(ElsedIf(Active, b)) /\ NextLine
          /\ UNCHANGED <<files, error, out>>
      BY <1>4, <2>2 DEF Elif
    <3>2. b \in BOOLEAN
      OBVIOUS
    <3> HIDE DEF b
    <3>3. GoodFrom(Active, ElsedIf(Active, b))
      BY <3>1, <3>2, ActiveOK, ElsedIfOK DEF IInv, Reading
    <3> QED BY <3>1, <3>3, LineRead
  <2> QED BY <2>1, <2>2
<1>5. CASE Else
  <2>1. CASE Raise
    BY <2>1, RaiseOK
  <2>2. CASE ~Raise
    <3>1. /\ Reading /\ Active.conds # <<>> /\ Advance(Elsed(Active)) /\ NextLine
          /\ UNCHANGED <<files, error, out>>
      BY <1>5, <2>2 DEF Else
    <3>2. GoodFrom(Active, Elsed(Active))
      BY <3>1, ActiveOK, ElsedOK DEF IInv, Reading
    <3> QED BY <3>1, <3>2, LineRead
  <2> QED BY <2>1, <2>2
<1>6. CASE Endif
  <2>1. CASE Raise
    BY <2>1, RaiseOK
  <2>2. CASE ~Raise
    <3>1. /\ Reading /\ Active.conds # <<>> /\ Advance(Closed(Active)) /\ NextLine
          /\ UNCHANGED <<files, error, out>>
      BY <1>6, <2>2 DEF Endif
    <3>2. GoodFrom(Active, Closed(Active))
      BY <3>1, ActiveOK, ClosedOK DEF IInv, Reading
    <3> QED BY <3>1, <3>2, LineRead
  <2> QED BY <2>1, <2>2
<1>7. CASE Skip \/ Define \/ Undef \/ Ignore
  <2>1. Reading /\ Advance(Active) /\ NextLine /\ UNCHANGED <<files, error, out>>
    BY <1>7 DEF Skip, Define, Undef, Ignore
  <2> QED BY <2>1, Itself, LineRead
<1>8. CASE Wrong
  BY <1>8, RaiseOK DEF Wrong
<1>9. CASE Include
  BY <1>9, IncludeOK
<1>10. CASE EndOfFile
  BY <1>10, EndOfFileOK
<1>11. CASE UNCHANGED vars
  <2>1. files' = files /\ stack' = stack /\ error' = error /\ pos' = pos /\ out' = out
    BY <1>11 DEF vars
  <2>2. Frameful'
    BY <2>1 DEF IInv, Frameful, FilesOK, StackOK, Frames, GuardsOK, NoFileWithinItself
  <2>3. (Unmarked <=> Unmarked') /\ Active' = Active
    BY <2>1 DEF Unmarked, Active
  <2> QED BY <2>1, <2>2, <2>3 DEF IInv, Mapped, OutOK, LinesMapped
<1> QED BY <1>1, <1>2, <1>3, <1>4, <1>5, <1>6, <1>7, <1>8, <1>9, <1>10, <1>11 DEF Next, Terminating

LEMMA Invariant == Spec => []IInv
BY InitOK, NextOK, PTL DEF Spec

-----------------------------------------------------------------------------
LEMMA InvariantTaken == IInv => TakenRight
<1> SUFFICES ASSUME IInv, NEW k \in 1 .. Len(stack)
             PROVE  Taking(stack[k].conds) <=> \A j \in DOMAIN stack[k].groups : FirstTrue(stack[k].groups[j])
  BY DEF TakenRight, IInv, Frameful, StackOK
<1>1. stack[k] \in Frames /\ FlagsRight(stack[k].conds, stack[k].groups)
  BY DEF IInv, Frameful, StackOK
<1>2. stack[k].conds \in Seq(Flags) /\ stack[k].groups \in Seq(Seq(BOOLEAN))
  BY <1>1 DEF Frames
<1>3. DOMAIN stack[k].groups = 1 .. Len(stack[k].groups)
  BY <1>2
<1> QED BY <1>1, <1>2, <1>3, TakingMeans

\* The variables have their types: every frame reads a line of its file.
THEOREM TypeCorrect == Spec => []TypeOK
<1>1. IInv => TypeOK
  <2> SUFFICES ASSUME IInv PROVE TypeOK
    OBVIOUS
  <2>1. ASSUME NEW k \in 1 .. Len(stack)
        PROVE  FrameType(stack[k])
    <3>1. stack[k] \in Frames /\ stack[k].at <= Len(files[stack[k].file])
      BY DEF IInv, Frameful, StackOK
    <3>2. Len(files[stack[k].file]) \in Nat
      BY <3>1 DEF IInv, Frameful, FilesOK, Frames
    <3> QED BY <3>1, <3>2 DEF FrameType, Frames, Flags
  <2> QED BY <2>1 DEF TypeOK, IInv, Frameful, FilesOK, StackOK
<1> QED BY <1>1, Invariant, PTL

\* The flags of the open groups select the lines that C selects: those in the
\* first true branch of every group around them.
THEOREM LinesTaken == Spec => []TakenRight
BY Invariant, InvariantTaken, PTL

\* Only selected lines define macros, remove them or include files.
THEOREM NothingSkipped == Spec => SelectedOnly
<1>1. ASSUME IInv, [Next]_vars, defines' # defines \/ Len(stack') > Len(stack)
      PROVE  \A j \in DOMAIN Active.groups : FirstTrue(Active.groups[j])
  <2>1. CASE Selected /\ Reading
    <3>1. Len(stack) \in Nat \ {0} /\ Len(stack) \in DOMAIN stack
      BY <1>1, <2>1, ActiveOK DEF IInv, Reading, Frameful, StackOK
    <3> QED BY <2>1, <3>1, <1>1, InvariantTaken DEF TakenRight, Active, Selected
  <2>2. CASE ~(Selected /\ Reading)
    <3>1. \/ Text \/ Marker \/ If \/ Elif \/ Else \/ Endif \/ Skip \/ EndOfFile
          \/ Raise \/ UNCHANGED vars
      BY <1>1, <2>2 DEF Next, Terminating, Define, Undef, Ignore, Wrong, Include
    <3>2. defines' = defines
      BY <3>1 DEF Text, Marker, If, Elif, Else, Endif, Skip, EndOfFile, Raise, vars
    <3>3. CASE Raise \/ UNCHANGED vars
      BY <3>2, <3>3, <1>1 DEF Raise, vars, IInv, Frameful, StackOK
    <3>4. CASE ~Raise /\ (Text \/ Marker \/ If \/ Elif \/ Else \/ Endif \/ Skip)
      <4>1. Reading /\ \E g : Advance(g)
        BY <3>4 DEF Text, Marker, If, Elif, Else, Endif, Skip
      <4>2. Len(stack') = Len(stack)
        BY <4>1, <1>1 DEF Advance, IInv, Frameful, StackOK
      <4> QED BY <4>2, <3>2, <1>1 DEF IInv, Frameful, StackOK
    <3>5. CASE ~Raise /\ EndOfFile
      <4>1. Running /\ stack' = SubSeq(stack, 1, Len(stack) - 1) /\ files' = files
        BY <3>5 DEF EndOfFile
      <4>2. Len(stack') = Len(stack) - 1 /\ Len(stack) \in Nat \ {0}
        BY <4>1, <1>1, ReturnedOK, ActiveOK DEF IInv
      <4> QED BY <4>2, <3>2, <1>1
    <3> QED BY <3>1, <3>3, <3>4, <3>5
  <2> QED BY <2>1, <2>2
<1>2. IInv /\ [Next]_vars
        => [defines' # defines \/ Len(stack') > Len(stack) =>
              \A j \in DOMAIN Active.groups : FirstTrue(Active.groups[j])]_vars
  BY <1>1
<1> QED BY <1>2, Invariant, PTL DEF Spec, SelectedOnly

\* The lexer has the file and the number of every line that is passed on.
THEOREM LinesKnown == Spec => []LinesMapped
<1>1. IInv => LinesMapped
  BY DEF IInv
<1> QED BY <1>1, Invariant, PTL

\* No file but the first is included within itself.
THEOREM NoRecursion == Spec => []NoFileWithinItself
<1>1. IInv => NoFileWithinItself
  BY DEF IInv, Frameful
<1> QED BY <1>1, Invariant, PTL
=============================================================================
