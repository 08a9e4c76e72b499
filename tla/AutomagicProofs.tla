--------------------------- MODULE AutomagicProofs ---------------------------
(***************************************************************************)
(* For any plugins, stackers and images, and whatever has been configured: *)
(*  - stack_layer() goes as far as the image allows (StackIsMaximal);      *)
(*  - a kernel module is of one piece (ModuleOfOnePiece).  Every action    *)
(*    changes one section at most and only adds to the context (Grows,     *)
(*    ChangesOnly), so that each keeps the sections right for their layers;*)
(*  - as long as nothing fails, plugins share their stack (OneStack) and   *)
(*    are unmet for a cause (UnmetForCause): both rest on what is true     *)
(*    until the first failure (FailFree).                                  *)
(***************************************************************************)
EXTENDS Automagic, SequenceTheorems, FiniteSetTheorems, ProofBasics, TLAPS

StackKinds == {FileLayer} \cup {Stackers[i].gives : i \in DOMAIN Stackers}

Used(left) == DOMAIN Stackers \ Range(left)

\* The stackers left are some of them, each once, and there is a layer on the stack
StackingTyped(s) ==
  /\ s = [left |-> s.left, at |-> s.at, stack |-> s.stack]
  /\ s.left \in Seq(DOMAIN Stackers)
  /\ \A i, j \in DOMAIN s.left : s.left[i] = s.left[j] => i = j
  /\ s.at \in 1 .. Len(s.left) + 1
  /\ s.stack \in Seq(StackKinds) /\ s.stack # <<>>

\* Those tried since the last one that stacked do not recognise the top
TriedInVain(s) == \A i \in 1 .. s.at - 1 : ~Stacks(s.left[i], Last(s.stack))

\* Each used stacker has put one layer onto one it recognised
EachLayerByOne(s) ==
  /\ Len(s.stack) = Cardinality(Used(s.left)) + 1
  /\ \A n \in 2 .. Len(s.stack) :
       \E i \in Used(s.left) : Stacks(i, s.stack[n - 1]) /\ Stackers[i].gives = s.stack[n]

StackInv ==
  /\ "step" \in DOMAIN run
  /\ At("scan") => StackingTyped(stacking) /\ TriedInVain(stacking) /\ EachLayerByOne(stacking)

-----------------------------------------------------------------------------
\* There are finitely many stackers.
LEMMA StackersFinite ==
  /\ Len(Stackers) \in Nat /\ DOMAIN Stackers = 1 .. Len(Stackers)
  /\ IsFiniteSet(DOMAIN Stackers)
  <1>1. Len(Stackers) \in Nat /\ DOMAIN Stackers = 1 .. Len(Stackers)
    BY StackersAssumption, LenProperties
  <1> QED BY <1>1, FS_Interval

\* The stackers that are left when the one at place k has been used.
LEMMA RemovedAt ==
  ASSUME NEW S, NEW s \in Seq(S), NEW k \in 1 .. Len(s),
         \A i, j \in DOMAIN s : s[i] = s[j] => i = j
  PROVE  /\ RemoveAt(s, k) \in Seq(S)
         /\ Len(RemoveAt(s, k)) = Len(s) - 1
         /\ \A i, j \in DOMAIN RemoveAt(s, k) : RemoveAt(s, k)[i] = RemoveAt(s, k)[j] => i = j
         /\ Range(RemoveAt(s, k)) = Range(s) \ {s[k]}
  <1> DEFINE low == SubSeq(s, 1, k - 1)
             high == SubSeq(s, k + 1, Len(s))
             r == RemoveAt(s, k)
  <1>1. Len(s) \in Nat /\ DOMAIN s = 1 .. Len(s)
    BY LenProperties
  <1>2. \A i \in 1 .. Len(s) : s[i] \in S
    BY ElementOfSeq
  <1>3. /\ low \in Seq(S) /\ Len(low) = k - 1
        /\ \A i \in 1 .. k - 1 : low[i] = s[i]
    <2>1. \A i \in 1 .. k - 1 : s[i] \in S
      BY <1>1, <1>2
    <2>2. 1 \in Int /\ k - 1 \in Int
      BY <1>1
    <2>3. /\ low \in Seq(S) /\ Len(low) = IF 1 <= k - 1 THEN k - 1 - 1 + 1 ELSE 0
          /\ \A i \in 1 .. k - 1 - 1 + 1 : low[i] = s[1 + i - 1]
      BY <2>1, <2>2, SubSeqProperties
    <2> HIDE DEF low
    <2> QED BY <1>1, <2>3
  <1>4. /\ high \in Seq(S) /\ Len(high) = Len(s) - k
        /\ \A i \in 1 .. Len(s) - k : high[i] = s[k + i]
    <2>1. \A i \in k + 1 .. Len(s) : s[i] \in S
      BY <1>1, <1>2
    <2>2. k + 1 \in Int /\ Len(s) \in Int
      BY <1>1
    <2>3. /\ high \in Seq(S) /\ Len(high) = IF k + 1 <= Len(s) THEN Len(s) - (k + 1) + 1 ELSE 0
          /\ \A i \in 1 .. Len(s) - (k + 1) + 1 : high[i] = s[k + 1 + i - 1]
      BY <2>1, <2>2, SubSeqProperties
    <2> HIDE DEF low, high, r
    <2>4. Len(high) = Len(s) - k
      <3>1. k \in Int /\ Len(s) \in Int /\ k <= Len(s)
        BY <1>1
      <3>2. Len(high) = IF k + 1 <= Len(s) THEN Len(s) - (k + 1) + 1 ELSE 0
        BY <2>3, Zenon
      <3>3. k + 1 <= Len(s) \/ k = Len(s)
        BY <3>1
      <3> QED BY <3>1, <3>2, <3>3
    <2>5. ASSUME NEW i \in 1 .. Len(s) - k PROVE high[i] = s[k + i]
      <3>1. i \in 1 .. Len(s) - (k + 1) + 1 /\ k + 1 + i - 1 = k + i
        BY <1>1
      <3> QED BY <2>3, <3>1
    <2> QED BY <2>3, <2>4, <2>5
  <1>5. r = low \o high
    BY DEF RemoveAt
  <1> HIDE DEF low, high, r
  <1>6. /\ r \in Seq(S) /\ Len(r) = Len(s) - 1
        /\ \A i \in 1 .. Len(s) - 1 : r[i] = IF i < k THEN s[i] ELSE s[i + 1]
    <2>1. /\ r \in Seq(S) /\ Len(r) = Len(low) + Len(high)
          /\ \A i \in 1 .. Len(low) + Len(high) : r[i] = IF i <= Len(low) THEN low[i] ELSE high[i - Len(low)]
      BY ZenonT(30), <1>3, <1>4, <1>5, ConcatProperties
    <2>2. Len(low) + Len(high) = Len(s) - 1
      BY <1>1, <1>3, <1>4
    <2>3. ASSUME NEW i \in 1 .. Len(s) - 1 PROVE r[i] = IF i < k THEN s[i] ELSE s[i + 1]
      <3>1. CASE i < k
        BY <3>1, <2>1, <2>2, <1>1, <1>3
      <3>2. CASE i >= k
        <4>1. r[i] = high[i - (k - 1)]
          <5>1. i \in 1 .. Len(low) + Len(high)
            BY <2>2
          <5>2. ~(i <= Len(low)) /\ i - Len(low) = i - (k - 1)
            BY <3>2, <1>1, <1>3
          <5> QED BY <2>1, <5>1, <5>2
        <4>2. i - (k - 1) \in 1 .. Len(s) - k /\ k + (i - (k - 1)) = i + 1
          BY <3>2, <1>1
        <4> QED BY <3>2, <4>1, <4>2, <1>4, <1>1
      <3> QED BY <3>1, <3>2, <1>1
    <2> QED BY <2>1, <2>2, <2>3
  <1>7. DOMAIN r = 1 .. Len(s) - 1
    BY <1>6, LenProperties
  <1>8. \A i, j \in DOMAIN r : r[i] = r[j] => i = j
    <2> SUFFICES ASSUME NEW i \in 1 .. Len(s) - 1, NEW j \in 1 .. Len(s) - 1, r[i] = r[j]
                 PROVE  i = j
      BY <1>7
    <2> DEFINE Place(n) == IF n < k THEN n ELSE n + 1
    <2>1. Place(i) \in DOMAIN s /\ Place(j) \in DOMAIN s
      BY <1>1
    <2>2. r[i] = s[Place(i)] /\ r[j] = s[Place(j)]
      BY <1>6
    <2>3. Place(i) = Place(j)
      BY <2>1, <2>2
    <2> QED BY <2>3, <1>1
  <1>9. Range(r) = Range(s) \ {s[k]}
    <2>1. ASSUME NEW i \in DOMAIN r PROVE r[i] \in Range(s) \ {s[k]}
      BY SMTT(20), <1>1, <1>6, <1>7 DEF Range
    <2>2. ASSUME NEW i \in DOMAIN s, i # k PROVE s[i] \in Range(r)
      <3>1. CASE i < k
        BY <3>1, <1>1, <1>6, <1>7 DEF Range
      <3>2. CASE i > k
        <4>1. i - 1 \in DOMAIN r /\ r[i - 1] = s[i]
          BY <3>2, <1>1, <1>6, <1>7
        <4> QED BY <4>1 DEF Range
      <3> QED BY <3>1, <3>2, <2>2, <1>1
    <2> QED BY <2>1, <2>2 DEF Range
  <1> QED BY <1>6, <1>8, <1>9 DEF r

-----------------------------------------------------------------------------
(* The steps *)

\* stack_layer() begins: all stackers are left, and the file is all there is.
LEMMA BeginStackingInv ==
  ASSUME StackInv, BeginStacking
  PROVE  StackInv'
  <1> DEFINE all == [i \in DOMAIN Stackers |-> i]
  <1>1. stacking' = [left |-> all, at |-> 1, stack |-> <<FileLayer>>] /\ "step" \in DOMAIN run'
    BY DEF BeginStacking, StackInv, Go
  <1>2. all \in Seq(DOMAIN Stackers) /\ Len(all) = Len(Stackers) /\ DOMAIN all = DOMAIN Stackers
    <2>1. all \in [1 .. Len(Stackers) -> DOMAIN Stackers]
      BY StackersFinite
    <2>2. all \in Seq(DOMAIN Stackers)
      BY <2>1, StackersFinite, SeqDef
    <2> QED BY <2>2, StackersFinite, LenProperties
  <1>3. Range(all) = DOMAIN Stackers
    BY DEF Range
  <1>4. \A i, j \in DOMAIN all : all[i] = all[j] => i = j
    OBVIOUS
  <1>5. <<FileLayer>> \in Seq(StackKinds) /\ Len(<<FileLayer>>) = 1 /\ <<FileLayer>> # <<>>
    BY DEF StackKinds
  <1> HIDE DEF all
  <1>6. StackingTyped(stacking)'
    BY <1>1, <1>2, <1>4, <1>5, StackersFinite DEF StackingTyped
  <1>7. TriedInVain(stacking)'
    BY <1>1 DEF TriedInVain
  <1>8. EachLayerByOne(stacking)'
    <2>1. Used(all) = {}
      BY <1>3 DEF Used
    <2> QED BY <1>1, <1>5, <2>1, FS_EmptySet DEF EachLayerByOne
  <1> QED BY <1>1, <1>6, <1>7, <1>8 DEF StackInv

\* A stacker is tried that does not recognise the top: it is the next one's turn.
LEMMA TriedStackerInv ==
  ASSUME StackInv, TryStacker, ~Stacks(stacking.left[stacking.at], Last(stacking.stack))
  PROVE  StackInv'
  <1>1. /\ StackingTyped(stacking) /\ TriedInVain(stacking) /\ EachLayerByOne(stacking)
        /\ stacking.at <= Len(stacking.left) /\ UNCHANGED <<working, run>>
    BY DEF TryStacker, StackInv, given
  <1>2. stacking' = [stacking EXCEPT !.at = @ + 1]
    BY DEF TryStacker
  <1>3. /\ stacking'.left = stacking.left /\ stacking'.stack = stacking.stack
        /\ stacking'.at = stacking.at + 1
        /\ stacking' = [left |-> stacking'.left, at |-> stacking'.at, stack |-> stacking'.stack]
    BY <1>1, <1>2 DEF StackingTyped
  <1>4. Len(stacking.left) \in Nat
    BY <1>1, LenProperties DEF StackingTyped
  <1>5. StackingTyped(stacking)'
    BY <1>1, <1>3, <1>4 DEF StackingTyped
  <1>6. TriedInVain(stacking)'
    <2> SUFFICES ASSUME NEW i \in 1 .. stacking.at PROVE ~Stacks(stacking.left[i], Last(stacking.stack))
      BY <1>1, <1>3, <1>4 DEF TriedInVain, Stacks, StackingTyped
    <2> QED BY <1>1, <1>4 DEF TriedInVain, StackingTyped
  <1>7. EachLayerByOne(stacking)'
    BY <1>1, <1>3 DEF EachLayerByOne, Stacks
  <1> QED BY <1>1, <1>5, <1>6, <1>7 DEF StackInv

\* A stacker recognises the top: its layer is the new top, and all that are left have
\* their turn again.
LEMMA StackedInv ==
  ASSUME StackInv, TryStacker, Stacks(stacking.left[stacking.at], Last(stacking.stack))
  PROVE  StackInv'
  <1> DEFINE left == stacking.left
             stack == stacking.stack
             i == left[stacking.at]
             rest == RemoveAt(left, stacking.at)
             higher == Append(stack, Stackers[i].gives)
  <1>1. /\ StackingTyped(stacking) /\ EachLayerByOne(stacking)
        /\ stacking.at <= Len(left) /\ UNCHANGED <<working, run>>
    BY DEF TryStacker, StackInv, given
  <1>2. stacking' = [left |-> rest, at |-> 1, stack |-> higher]
    BY DEF TryStacker
  <1>3. /\ Len(left) \in Nat /\ DOMAIN left = 1 .. Len(left) /\ stacking.at \in 1 .. Len(left)
        /\ i \in DOMAIN Stackers /\ i \in Range(left)
    <2>1. Len(left) \in Nat /\ DOMAIN left = 1 .. Len(left)
      BY <1>1, LenProperties DEF StackingTyped
    <2>2. stacking.at \in 1 .. Len(left)
      BY <1>1, <2>1 DEF StackingTyped
    <2>3. i \in DOMAIN Stackers
      BY <1>1, <2>2, ElementOfSeq DEF StackingTyped
    <2> QED BY <2>1, <2>2, <2>3 DEF Range
  <1>4. /\ rest \in Seq(DOMAIN Stackers) /\ Len(rest) = Len(left) - 1
        /\ \A j, k \in DOMAIN rest : rest[j] = rest[k] => j = k
        /\ Range(rest) = Range(left) \ {i}
    BY <1>1, <1>3, RemovedAt DEF StackingTyped
  <1>5. /\ Len(stack) \in Nat /\ Len(stack) >= 1
        /\ higher \in Seq(StackKinds) /\ higher # <<>> /\ Len(higher) = Len(stack) + 1
        /\ \A n \in 1 .. Len(stack) : higher[n] = stack[n]
        /\ higher[Len(stack) + 1] = Stackers[i].gives
    <2>1. Stackers[i].gives \in StackKinds
      BY <1>3 DEF StackKinds
    <2>2. stack \in Seq(StackKinds) /\ stack # <<>>
      BY <1>1 DEF StackingTyped
    <2>3. Len(stack) \in Nat /\ Len(stack) >= 1
      BY <2>2, LenProperties, EmptySeq
    <2> QED BY <2>1, <2>2, <2>3, AppendProperties
  <1>6. Stacks(i, stack[Len(stack)])
    BY DEF Last
  <1>7. /\ Used(rest) = Used(left) \cup {i} /\ i \notin Used(left)
        /\ Cardinality(Used(rest)) = Cardinality(Used(left)) + 1
    <2>1. Used(rest) = Used(left) \cup {i} /\ i \notin Used(left)
      BY <1>3, <1>4 DEF Used
    <2>2. IsFiniteSet(Used(left))
      BY StackersFinite, FS_Subset DEF Used
    <2> HIDE DEF rest, left, i
    <2> QED BY <2>1, <2>2, FS_AddElement
  <1> HIDE DEF left, stack, i, rest, higher
  <1>8. StackingTyped(stacking)'
    BY <1>2, <1>3, <1>4, <1>5 DEF StackingTyped
  <1>9. TriedInVain(stacking)'
    BY <1>2 DEF TriedInVain
  <1>10. EachLayerByOne(stacking)'
    <2>1. Len(stack) = Cardinality(Used(left)) + 1
      BY <1>1 DEF EachLayerByOne, left, stack
    <2>2. \A n \in 2 .. Len(stack) :
            \E j \in Used(left) : Stacks(j, stack[n - 1]) /\ Stackers[j].gives = stack[n]
      BY <1>1 DEF EachLayerByOne, left, stack
    <2>3. Len(higher) = Cardinality(Used(rest)) + 1
      BY <1>5, <1>7, <2>1
    <2>4. ASSUME NEW n \in 2 .. Len(higher)
          PROVE  \E j \in Used(rest) : Stacks(j, higher[n - 1]) /\ Stackers[j].gives = higher[n]
      <3>1. CASE n \in 2 .. Len(stack)
        <4>1. higher[n] = stack[n] /\ higher[n - 1] = stack[n - 1]
          BY <3>1, <1>5
        <4> QED BY <3>1, <4>1, <2>2, <1>7
      <3>2. CASE n = Len(stack) + 1
        <4>1. higher[n] = Stackers[i].gives /\ higher[n - 1] = stack[Len(stack)]
          BY <3>2, <1>5
        <4> QED BY <4>1, <1>6, <1>7
      <3> QED BY <3>1, <3>2, <1>5
    <2> QED BY <1>1, <1>2, <2>3, <2>4 DEF EachLayerByOne, Stacks
  <1> QED BY <1>1, <1>8, <1>9, <1>10 DEF StackInv

\* A step of a run that leaves stack_layer(), or is not in it.
LEMMA Elsewhere ==
  ASSUME StackInv, NEW step, step # "scan", Go(step)
  PROVE  StackInv'
  BY DEF StackInv, Go, At

\* Every step of a run keeps what is true of the stack.
LEMMA StepInv ==
  ASSUME StackInv, Step
  PROVE  StackInv'
  <1>1. CASE BeginStacking
    BY <1>1, BeginStackingInv
  <1>2. CASE TryStacker
    BY <1>2, TriedStackerInv, StackedInv
  <1>3. CASE SkipLayer \/ BuildLayer \/ BuildLayerFails \/ SkipTable \/ BuildTable \/ BuildTableFails
    <2>1. Go("table") \/ Go("layer") \/ Go("module")
      BY <1>3 DEF SkipLayer, BuildLayer, BuildLayerFails, SkipTable, BuildTable, BuildTableFails
    <2> QED BY <2>1, Elsewhere
  <1>4. CASE SkipModule \/ BuildModule
    <2>1. Go("stack") \/ Go("remember")
      BY <1>4 DEF SkipModule, BuildModule, AfterConstruction
    <2> QED BY <2>1, Elsewhere
  <1>5. CASE NotNeeded \/ UseCached \/ NothingSuits \/ Remember
    <2>1. Go("symbols")
      BY <1>5 DEF NotNeeded, UseCached, NothingSuits, Remember
    <2> QED BY <2>1, Elsewhere
  <1>6. CASE ApplyStack
    BY <1>6 DEF ApplyStack, StackInv, At
  <1>7. CASE NoBanner \/ FindSymbols \/ FindSymbolsFails
    <2>1. Go("kernel")
      BY <1>7 DEF NoBanner, FindSymbols, FindSymbolsFails
    <2> QED BY <2>1, Elsewhere
  <1>8. CASE KernelModule \/ NoKernelModule \/ Check
    <2>1. Go("check") \/ Go("idle")
      BY <1>8 DEF KernelModule, NoKernelModule, Check
    <2> QED BY <2>1, Elsewhere
  <1> QED BY <1>1, <1>2, <1>3, <1>4, <1>5, <1>6, <1>7, <1>8 DEF Step

-----------------------------------------------------------------------------
(* Whatever plugins are run, and whatever fails: the invariant is kept by every step, of any run.  *)
THEOREM StackingInductive == Spec => []StackInv
  <1>1. Init => StackInv
    BY DEF Init, StackInv, At
  <1>2. StackInv /\ [Next]_vars => StackInv'
    <2> SUFFICES ASSUME StackInv, [Next]_vars PROVE StackInv'
      OBVIOUS
    <2>1. CASE Step
      BY <2>1, StepInv
    <2>2. ASSUME NEW p \in Plugins, Start(p) PROVE StackInv'
      BY <2>2 DEF Start, StackInv, At
    <2>3. CASE UNCHANGED vars
      BY <2>3 DEF vars, given, StackInv, At, StackingTyped, TriedInVain, EachLayerByOne, Stacks
    <2> QED BY <2>1, <2>2, <2>3 DEF Next
  <1> QED BY <1>1, <1>2, PTL DEF Spec

(* When stack_layer() is done, no stacker that is left recognises the top of the stack, and each   *)
(* layer but the file was put there by a stacker of its own over one that it recognises.           *)
THEOREM StackingIsMaximal == Spec => []StackIsMaximal
  <1>1. StackInv => StackIsMaximal
    <2> SUFFICES ASSUME StackInv, At("scan"), stacking.at > Len(stacking.left) PROVE StackIsMaximal
      BY DEF StackIsMaximal
    <2>1. StackingTyped(stacking) /\ TriedInVain(stacking) /\ EachLayerByOne(stacking)
      BY DEF StackInv
    <2>2. Len(stacking.left) \in Nat /\ DOMAIN stacking.left = 1 .. Len(stacking.left)
      BY <2>1, LenProperties DEF StackingTyped
    <2>3. \A i \in Range(stacking.left) : ~Stacks(i, Last(stacking.stack))
      BY <2>1, <2>2 DEF TriedInVain, StackingTyped, Range
    <2> QED BY <2>1, <2>3 DEF StackIsMaximal, EachLayerByOne, Used
  <1> QED BY <1>1, StackingInductive, PTL

-----------------------------------------------------------------------------
(* Sections that are right for their layers *)

\* The kinds there are: those stacked, and those users have configured
ConfiguredKinds ==
  UNION {{level.kind : level \in Range(section.levels)} : section \in UNION {Provided[p] : p \in Plugins}}

AllKinds == StackKinds \cup ConfiguredKinds
Value == AllKinds \cup {Unknown}
Level == [kind : AllKinds, name : Nat, kernelOffset : Value]
Section ==
  [levels : Seq(Level), isf : Value, offset : Value, class : BOOLEAN, table : Nat, module : Nat]

ModuleType == [layer : Nat, table : Nat, offset : Value]

\* What is in the context
ContextTyped ==
  /\ layers \in Seq([kind : AllKinds, below : Nat])
  /\ tables \in Seq([kind : Value])
  /\ modules \in Seq(ModuleType)

\* What a section names is there
SectionTyped(p) ==
  /\ conf[p] \in Section
  /\ \A i \in DOMAIN conf[p].levels : conf[p].levels[i].name \in 0 .. Len(layers)
  /\ conf[p].table \in 0 .. Len(tables)
  /\ conf[p].module \in 0 .. Len(modules)

\* A class has the name of a layer of its own, or none, and an offset found for it, or none
LevelFits(level) ==
  /\ level.name # None => layers[level.name].kind = level.kind
  /\ level.kernelOffset \in {level.kind, Unknown}

\* What is known of a layer is right for it, or nothing is known; so it is for those below
OfOneKind(p) ==
  LET c == conf[p]
      kind == Last(c.levels).kind
  IN IF c.levels = <<>> THEN c.isf = Unknown /\ c.offset = Unknown /\ c.table = None
     ELSE /\ kind \in Accepts[p]
          /\ LevelFits(Last(c.levels)) /\ \A i \in DOMAIN c.levels : LevelFits(c.levels[i])
          /\ c.isf \in {kind, Unknown} /\ c.offset \in {kind, Unknown}
          /\ c.table # None => tables[c.table].kind = kind

\* A module is made of what its section has, and the section stays as it was
ModuleMade(p) ==
  conf[p].module # None =>
    /\ p \in ModulePlugins /\ LayerSatisfied(p) /\ TableSatisfied(p) /\ conf[p].offset # Unknown
    /\ modules[conf[p].module] = [layer |-> LayerName(conf[p]), table |-> conf[p].table, offset |-> conf[p].offset]

SectionInv(p) == SectionTyped(p) /\ ModuleMade(p) /\ (p \in mixed \/ OfOneKind(p))

\* The layer requirement at a depth of a section
LevelAt(p, d) == conf[p].levels[Len(conf[p].levels) - d]

\* What LayerStacker remembers is a layer of a section
CacheInv ==
  cached # <<>> =>
    /\ cached = [top |-> cached.top, from |-> cached.from, depth |-> cached.depth]
    /\ cached.from \in Plugins /\ cached.top \in 0 .. Len(layers)
    /\ cached.depth \in 0 .. Len(conf[cached.from].levels) - 1
    /\ \/ cached.from \in mixed \/ cached.top = None
       \/ layers[cached.top].kind = LevelAt(cached.from, cached.depth).kind

\* ConstructionMagic at work on what LayerStacker has stacked
Constructing == run.magic = "stacked" /\ run.step \in {"layer", "table", "module", "remember"}

\* LayerStacker forgets before it stacks, and applies what it stacked to the section; a
\* plugin that has been constructed has its module
RunInv ==
  /\ run = [plugin |-> run.plugin, step |-> run.step, magic |-> run.magic]
  /\ run.step # "idle" => run.plugin \in Plugins /\ run.magic \in {"first", "stacked"}
  /\ run.step = "remember" => run.magic = "stacked"
  /\ Constructing => depth \in 0 .. Len(conf[run.plugin].levels) - 1
  /\ Constructing \/ run.step = "scan" => cached = <<>>
  /\ \A p \in constructed : p \in Plugins /\ (p \in ModulePlugins => conf[p].module # None)

Sections == conf = [p \in Plugins |-> conf[p]] /\ \A p \in Plugins : SectionInv(p)

PieceInv == ContextTyped /\ Sections /\ CacheInv /\ RunInv

-----------------------------------------------------------------------------
(* As long as nothing fails *)

\* The section of a plugin either describes no layer or names one that was made
Built(p) == conf[p].levels # <<>> => LayerName(conf[p]) # None

\* It describes one that suits and has yet to be made
ToBeBuilt(p) == conf[p].levels # <<>> /\ LayerName(conf[p]) = None /\ Last(conf[p].levels).kind \in Accepts[p]

\* What is known of the class of a plugin's layer is not needed: the layer is made, and suits
PartsInv ==
  parts /\ run.step \in {"layer", "table", "module", "stack", "scan"} =>
    LayerSatisfied(run.plugin) \/ (run.step = "layer" /\ ToBeBuilt(run.plugin))

\* So it is the layer requirement itself that anything is suitable for
TopsOnly ==
  /\ \A p \in Plugins : Built(p) \/ ToBeBuilt(p)
  /\ PartsInv
  /\ Constructing => depth = 0
  /\ cached # <<>> => cached.depth = 0

\* Every section that began empty is built, but while its layers are being made, and that of the
\* plugin that is run when ConstructionMagic is done with its layers
BuiltInv ==
  /\ cached # <<>> => cached.top # None
  /\ \A p \in Plugins \ configured : Built(p) \/ (Constructing /\ run.step = "layer" /\ p = run.plugin)
  /\ run.step \notin {"idle", "layer"} => Built(run.plugin)

\* The plugins that were run, the one that is included, and a layer that suits them all
HasRun == {p \in Plugins : p \in constructed \cup unmet \/ (p = run.plugin /\ ~At("idle"))}

Shared(p) == \A r \in HasRun : Suits(r, LayerName(conf[p]))

\* LayerStacker remembers such a layer, or is about to
SharedInv ==
  \A p \in Plugins \ (configured \cup mixed) :
    LayerName(conf[p]) # None /\ Shared(p) =>
      (cached # <<>> /\ cached.top = LayerName(conf[p])) \/ (Constructing /\ p = run.plugin)

\* What may be wrong with the image: no layer that suits, or no symbols for it
NothingFound(p) == conf[p].levels = <<>> /\ Range(stacking.stack) \cap Accepts[p] = {}
NoSymbols(p) == LayerName(conf[p]) # None /\ layers[LayerName(conf[p])].kind \notin Banners

\* Behind LayerStacker, behind SymbolFinder and behind KernelModule something is there, or is not
\* to be found
CauseInv ==
  LET p == run.plugin IN
  p \notin mixed =>
    /\ run.step \in {"symbols", "kernel", "check"} => LayerSatisfied(p) \/ NothingFound(p)
    /\ run.step \in {"kernel", "check"} /\ p \in ModulePlugins =>
         TableSatisfied(p) \/ NothingFound(p) \/ NoSymbols(p)
    /\ run.step = "check" =>
         Satisfied(p) \/ NothingFound(p) \/ (p \in ModulePlugins /\ (NoSymbols(p) \/ KernelOffset(p) = Unknown))

FailFree == ~failed => TopsOnly /\ BuiltInv /\ SharedInv /\ CauseInv /\ UnmetForCause

-----------------------------------------------------------------------------
\* The least of a set of numbers is one of them.
LEMMA MinOf ==
  ASSUME NEW S \in SUBSET Nat, S # {}
  PROVE  Min(S) \in S /\ \A n \in S : Min(S) <= n
  <1>1. \E n \in S : \A m \in S : n <= m
    BY LeastNumber
  <1> QED BY <1>1 DEF Min

\* The greatest of a bounded set of numbers is one of them.
LEMMA MaxOf ==
  ASSUME NEW n \in Nat, NEW S \in SUBSET (0 .. n), S # {}
  PROVE  Max(S) \in S /\ \A m \in S : m <= Max(S)
  <1> DEFINE bounds == {k \in Nat : \A m \in S : m <= k}
  <1>1. n \in bounds
    OBVIOUS
  <1>2. PICK k \in bounds : \A m \in bounds : k <= m
    <2>1. bounds \in SUBSET Nat /\ bounds # {}
      BY <1>1
    <2> QED BY <2>1, LeastNumber
  <1>3. k \in S
    <2> SUFFICES ASSUME k \notin S PROVE FALSE
      OBVIOUS
    <2>0. k \in Nat
      OBVIOUS
    <2>1. \A m \in S : m <= k - 1
      <3> SUFFICES ASSUME NEW m \in S PROVE m <= k - 1
        OBVIOUS
      <3>1. m <= k /\ m # k /\ m \in Nat /\ k \in Nat
        BY <1>2
      <3> QED BY <3>1
    <2>2. k - 1 \in Nat
      <3>1. PICK m \in S : TRUE
        OBVIOUS
      <3> QED BY <3>1, <2>1, <1>2
    <2>3. k - 1 \in bounds
      BY <2>1, <2>2
    <2> HIDE DEF bounds
    <2>4. k <= k - 1
      BY <2>3, <1>2
    <2> QED BY <2>0, <2>4
  <1>4. \E m \in S : \A i \in S : m >= i
    BY <1>2, <1>3
  <1> QED BY <1>4 DEF Max

\* The top of a stack.
LEMMA TopOf ==
  ASSUME NEW S, NEW s \in Seq(S), s # <<>>
  PROVE  /\ Len(s) \in Nat /\ Len(s) >= 1 /\ DOMAIN s = 1 .. Len(s) /\ Len(s) \in DOMAIN s
         /\ Last(s) = s[Len(s)] /\ Last(s) \in S
  <1>1. Len(s) \in Nat /\ DOMAIN s = 1 .. Len(s) /\ Len(s) >= 1
    BY LenProperties, EmptySeq
  <1>2. s[Len(s)] \in S
    BY <1>1, ElementOfSeq
  <1> QED BY <1>1, <1>2 DEF Last

\* A sequence is made of its elements.
LEMMA Tabulated ==
  ASSUME NEW S, NEW n \in Nat, NEW f, f \in [1 .. n -> S]
  PROVE  f \in Seq(S) /\ Len(f) = n /\ DOMAIN f = 1 .. n
  <1>1. f \in Seq(S)
    BY SeqDef
  <1> QED BY <1>1, LenProperties

-----------------------------------------------------------------------------
(* Sections that are merged *)

\* A class keeps what it has.
LEMMA MergedLevel ==
  ASSUME NEW a \in Level, NEW b \in Level, NEW m, m = MergeLevel(a, b)
  PROVE  /\ m \in Level /\ m.kind = a.kind /\ m.name \in {a.name, b.name} /\ (a.name # None => m.name = a.name)
         /\ m.kernelOffset \in {a.kernelOffset, b.kernelOffset}
  <1>1. PICK k, n, o : k = a.kind /\ n = a.name /\ o = a.kernelOffset
    OBVIOUS
  <1>2. PICK n2, o2 : n2 = b.name /\ o2 = b.kernelOffset
    OBVIOUS
  <1>3. a = [kind |-> k, name |-> n, kernelOffset |-> o] /\ k \in AllKinds /\ n \in Nat /\ o \in Value
    BY <1>1 DEF Level
  <1>4. n2 \in Nat /\ o2 \in Value
    BY <1>2 DEF Level
  <1>5. m = [kind |-> k, name |-> IF n = None THEN n2 ELSE n, kernelOffset |-> IF o = Unknown THEN o2 ELSE o]
    BY <1>2, <1>3 DEF MergeLevel
  <1> QED BY <1>1, <1>2, <1>3, <1>4, <1>5 DEF Level

\* What is right for a class is right for it.
LEMMA MergedFits ==
  ASSUME NEW a \in Level, NEW b \in Level, a.kind = b.kind, LevelFits(a), LevelFits(b)
  PROVE  LevelFits(MergeLevel(a, b))
  <1>1. PICK m : m = MergeLevel(a, b)
    OBVIOUS
  <1>2. /\ m.kind = a.kind /\ m.name \in {a.name, b.name}
        /\ m.kernelOffset \in {a.kernelOffset, b.kernelOffset}
    BY <1>1, MergedLevel
  <1>3. LevelFits(m)
    BY <1>2 DEF LevelFits
  <1> QED BY <1>1, <1>3

\* MergeLevels keeps the classes that are there, and each name is that of one of the two sections.
LEMMA Merging ==
  ASSUME NEW into \in Seq(Level), NEW from \in Seq(Level), from # <<>>,
         NEW d \in Nat, NEW m, m = MergeLevels(into, d, from)
  PROVE  /\ m \in Seq(Level) /\ m # <<>>
         /\ into = <<>> => m = from
         /\ into # <<>> => /\ Len(m) = Len(into) /\ DOMAIN m = DOMAIN into
                           /\ \A i \in DOMAIN into : /\ m[i].kind = into[i].kind
                                                     /\ into[i].name # None => m[i].name = into[i].name
         /\ \A i \in DOMAIN m : \/ \E j \in DOMAIN from : m[i].name = from[j].name
                                \/ into # <<>> /\ i \in DOMAIN into /\ m[i].name = into[i].name
  <1>1. CASE into = <<>>
    BY <1>1 DEF MergeLevels
  <1>2. CASE into # <<>>
    <2> DEFINE Same(i) == i + d - Len(into) + Len(from)
    <2>1. /\ Len(into) \in Nat /\ DOMAIN into = 1 .. Len(into) /\ Len(into) >= 1
          /\ Len(from) \in Nat /\ DOMAIN from = 1 .. Len(from)
      BY <1>2, TopOf
    <2>2. \A i \in DOMAIN into : into[i] \in Level
      BY <2>1, ElementOfSeq
    <2>3. \A i \in DOMAIN from : from[i] \in Level
      BY <2>1, ElementOfSeq
    <2>4. m = [i \in DOMAIN into |-> IF Same(i) \in DOMAIN from THEN MergeLevel(into[i], from[Same(i)]) ELSE into[i]]
      BY <1>2 DEF MergeLevels
    <2> HIDE DEF Same
    <2>5. ASSUME NEW i \in DOMAIN into
          PROVE  /\ m[i] \in Level /\ m[i].kind = into[i].kind
                 /\ m[i].name = into[i].name \/ \E j \in DOMAIN from : m[i].name = from[j].name
                 /\ into[i].name # None => m[i].name = into[i].name
      <3>1. CASE Same(i) \in DOMAIN from
        <4>1. PICK a, b, j, x : a = into[i] /\ b = from[j] /\ j = Same(i) /\ x = m[i]
          OBVIOUS
        <4>2. a \in Level /\ b \in Level /\ x = MergeLevel(a, b) /\ j \in DOMAIN from
          BY <3>1, <2>2, <2>3, <2>4, <4>1
        <4>3. x \in Level /\ x.kind = a.kind /\ x.name \in {a.name, b.name} /\ (a.name # None => x.name = a.name)
          BY <4>2, MergedLevel
        <4> QED BY <4>1, <4>2, <4>3
      <3>2. CASE Same(i) \notin DOMAIN from
        <4>1. m[i] = into[i]
          BY <3>2, <2>4
        <4> QED BY <4>1, <2>2
      <3> QED BY <3>1, <3>2
    <2>6. m \in Seq(Level) /\ Len(m) = Len(into) /\ DOMAIN m = DOMAIN into
      <3>1. m \in [1 .. Len(into) -> Level]
        BY <2>1, <2>4, <2>5
      <3> QED BY <3>1, <2>1, Tabulated
    <2>7. m # <<>>
      BY <2>1, <2>6
    <2> QED BY <1>2, <2>5, <2>6, <2>7
  <1> QED BY <1>1, <1>2

\* Sequences of the same kinds are of the same length.
LEMMA SameKinds ==
  ASSUME NEW S, NEW s \in Seq(S), NEW T, NEW t \in Seq(T), Kinds(s) = Kinds(t)
  PROVE  /\ Len(s) = Len(t) /\ DOMAIN s = DOMAIN t
         /\ \A i \in DOMAIN s : s[i].kind = t[i].kind
  <1>1. DOMAIN s = 1 .. Len(s) /\ Len(s) \in Nat
    BY LenProperties
  <1>2. DOMAIN t = 1 .. Len(t) /\ Len(t) \in Nat
    BY LenProperties
  <1>3. DOMAIN Kinds(s) = DOMAIN s /\ DOMAIN Kinds(t) = DOMAIN t
    BY DEF Kinds
  <1>4. Len(t) = Len(s)
    <2>1. PICK k, l : k = Len(t) /\ l = Len(s)
      OBVIOUS
    <2>2. k \in Nat /\ l \in Nat /\ 1 .. k = 1 .. l
      BY <1>1, <1>2, <1>3, <2>1
    <2>3. l > 0 => l \in 1 .. k
      BY <2>2
    <2>4. k > 0 => k \in 1 .. l
      BY <2>2
    <2>5. k = l
      BY <2>2, <2>3, <2>4
    <2> QED BY <2>1, <2>5
  <1>5. ASSUME NEW i \in DOMAIN s PROVE s[i].kind = t[i].kind
    <2>1. Kinds(s)[i] = s[i].kind /\ Kinds(t)[i] = t[i].kind
      BY <1>3 DEF Kinds
    <2> QED BY <2>1
  <1> QED BY <1>3, <1>4, <1>5

\* The classes up to one of them.
LEMMA LowLevels ==
  ASSUME NEW S, NEW s \in Seq(S), NEW n \in 1 .. Len(s), NEW low, low = SubSeq(s, 1, n)
  PROVE  /\ low \in Seq(S) /\ low # <<>> /\ Len(low) = n
         /\ DOMAIN low = 1 .. n /\ DOMAIN low \subseteq DOMAIN s
         /\ \A i \in 1 .. n : low[i] = s[i]
  <1>1. Len(s) \in Nat /\ DOMAIN s = 1 .. Len(s)
    BY LenProperties
  <1>2. 1 \in Int /\ n \in Int
    BY <1>1
  <1>3. \A i \in 1 .. n : s[i] \in S
    <2>1. \A i \in 1 .. Len(s) : s[i] \in S
      BY <1>1, ElementOfSeq
    <2> QED BY <1>1, <2>1
  <1>4. /\ low \in Seq(S) /\ Len(low) = IF 1 <= n THEN n - 1 + 1 ELSE 0
        /\ \A i \in 1 .. n - 1 + 1 : low[i] = s[1 + i - 1]
    BY <1>2, <1>3, SubSeqProperties
  <1>5. Len(low) = n
    BY <1>1, <1>4
  <1>6. ASSUME NEW i \in 1 .. n PROVE low[i] = s[i]
    <2>1. i \in 1 .. n - 1 + 1 /\ 1 + i - 1 = i
      BY <1>1
    <2> QED BY <1>4, <2>1
  <1>7. DOMAIN low = 1 .. n
    BY <1>4, <1>5, LenProperties
  <1>8. low # <<>>
    <2>1. n \in DOMAIN low
      BY <1>1, <1>7
    <2> QED BY <2>1
  <1> QED BY <1>1, <1>4, <1>5, <1>6, <1>7, <1>8

\* Where the kinds are the same, each class gets what is right for it.
LEMMA MergingFits ==
  ASSUME NEW into \in Seq(Level), NEW from \in Seq(Level), into # <<>>, from # <<>>,
         NEW d \in Nat, d < Len(into), NEW m, m = MergeLevels(into, d, from),
         Kinds(SubSeq(into, 1, Len(into) - d)) = Kinds(from),
         \A i \in DOMAIN into : LevelFits(into[i]), \A i \in DOMAIN from : LevelFits(from[i])
  PROVE  /\ \A i \in DOMAIN m : LevelFits(m[i])
         /\ Len(from) = Len(into) - d /\ into[Len(into) - d].kind = Last(from).kind
  <1>1. PICK n, low : n = Len(into) - d /\ low = SubSeq(into, 1, n)
    OBVIOUS
  <1>2. /\ low \in Seq(Level) /\ Len(low) = n /\ DOMAIN low = 1 .. n /\ DOMAIN low \subseteq DOMAIN into
        /\ \A i \in 1 .. n : low[i] = into[i]
        /\ n \in 1 .. n
    <2>1. n \in 1 .. Len(into) /\ n \in 1 .. n
      BY <1>1, LenProperties
    <2> QED BY <1>1, <2>1, LowLevels
  <1>3. Len(low) = Len(from) /\ DOMAIN low = DOMAIN from /\ \A i \in DOMAIN low : low[i].kind = from[i].kind
    <2>1. Kinds(low) = Kinds(from)
      BY <1>1
    <2> QED BY <1>2, <2>1, SameKinds
  <1>4. Len(into) \in Nat /\ DOMAIN into = 1 .. Len(into)
    BY LenProperties
  <1>5. \A i \in DOMAIN into : into[i] \in Level
    BY <1>4, ElementOfSeq
  <1>6. \A i \in DOMAIN from : from[i] \in Level
    BY LenProperties, ElementOfSeq
  <1>7. m = [i \in DOMAIN into |-> IF i \in DOMAIN from THEN MergeLevel(into[i], from[i]) ELSE into[i]]
    <2>1. PICK l, k : l = Len(into) /\ k = Len(from)
      OBVIOUS
    <2>2. l \in Nat /\ k = l - d /\ DOMAIN into = 1 .. l
      BY <1>1, <1>2, <1>3, <1>4, <2>1
    <2>3. \A i \in DOMAIN into : i + d - l + k = i
      BY <2>2
    <2> QED BY <2>1, <2>3 DEF MergeLevels
  <1>8. ASSUME NEW i \in DOMAIN into PROVE LevelFits(m[i])
    <2>1. CASE i \in DOMAIN from
      <3>1. PICK a, b, x : a = into[i] /\ b = from[i] /\ x = m[i]
        OBVIOUS
      <3>2. /\ a \in Level /\ b \in Level /\ a.kind = b.kind /\ LevelFits(a) /\ LevelFits(b)
            /\ x = MergeLevel(a, b)
        BY <1>2, <1>3, <1>5, <1>6, <1>7, <2>1, <3>1
      <3>3. LevelFits(x)
        BY <3>2, MergedFits
      <3> QED BY <3>1, <3>3
    <2>2. CASE i \notin DOMAIN from
      BY <1>7, <2>2
    <2> QED BY <2>1, <2>2
  <1>9. into[n].kind = Last(from).kind
    <2>1. Last(from) = from[n]
      BY <1>2, <1>3 DEF Last
    <2> QED BY <1>2, <1>3, <2>1
  <1> QED BY <1>1, <1>2, <1>3, <1>7, <1>8, <1>9

\* One name in a section changes.
LEMMA Naming ==
  ASSUME NEW levels \in Seq(Level), NEW i \in DOMAIN levels, NEW name \in Nat,
         NEW m, m = [levels EXCEPT ![i].name = name]
  PROVE  /\ m \in Seq(Level) /\ m # <<>> /\ Len(m) = Len(levels) /\ DOMAIN m = DOMAIN levels
         /\ \A j \in DOMAIN levels : /\ m[j].kind = levels[j].kind /\ m[j].kernelOffset = levels[j].kernelOffset
                                     /\ m[j].name = IF j = i THEN name ELSE levels[j].name
  <1>1. Len(levels) \in Nat /\ DOMAIN levels = 1 .. Len(levels)
    BY LenProperties
  <1>2. \A j \in 1 .. Len(levels) : levels[j] \in Level
    BY <1>1, ElementOfSeq
  <1>3. levels \in [1 .. Len(levels) -> Level] /\ i \in 1 .. Len(levels)
    BY <1>1, LenProperties
  <1>4. [levels[i] EXCEPT !.name = name] \in Level
    BY <1>2, <1>3 DEF Level
  <1>5. m \in [1 .. Len(levels) -> Level]
    BY <1>3, <1>4
  <1>6. m \in Seq(Level) /\ Len(m) = Len(levels) /\ DOMAIN m = DOMAIN levels
    BY <1>1, <1>5, Tabulated
  <1>7. m # <<>>
    BY <1>1, <1>6
  <1>8. ASSUME NEW j \in 1 .. Len(levels)
        PROVE  /\ m[j].kind = levels[j].kind /\ m[j].kernelOffset = levels[j].kernelOffset
               /\ m[j].name = IF j = i THEN name ELSE levels[j].name
    <2>1. levels[j] \in Level
      BY <1>2
    <2>2. m[j] = IF j = i THEN [levels[j] EXCEPT !.name = name] ELSE levels[j]
      BY <1>3
    <2> QED BY <2>1, <2>2 DEF Level
  <1> QED BY <1>1, <1>6, <1>7, <1>8

-----------------------------------------------------------------------------
(* What the steps leave as it is *)

Extends(s, t) == Len(s) <= Len(t) /\ \A i \in 1 .. Len(s) : t[i] = s[i]

Grows ==
  /\ ContextTyped'
  /\ Extends(layers, layers') /\ Extends(tables, tables') /\ Extends(modules, modules')
  /\ mixed \subseteq mixed'

\* The section of p is the only one that may change; one with a module does not change
ChangesOnly(p) ==
  /\ conf' = [q \in Plugins |-> IF q = p THEN conf'[p] ELSE conf[q]]
  /\ conf[p].module = None \/ conf'[p] = conf[p]
  /\ conf[p].levels # <<>> =>
       /\ Len(conf'[p].levels) = Len(conf[p].levels)
       /\ \A i \in DOMAIN conf[p].levels : conf'[p].levels[i].kind = conf[p].levels[i].kind

\* The classes of a section, the top one and the name it gives.
LEMMA SectionLevels ==
  ASSUME NEW p, SectionTyped(p), conf[p].levels # <<>>
  PROVE  /\ conf[p].levels \in Seq(Level) /\ DOMAIN conf[p].levels = 1 .. Len(conf[p].levels)
         /\ Len(conf[p].levels) \in Nat /\ Len(conf[p].levels) >= 1 /\ Len(conf[p].levels) \in DOMAIN conf[p].levels
         /\ Last(conf[p].levels) = conf[p].levels[Len(conf[p].levels)] /\ Last(conf[p].levels) \in Level
         /\ LayerName(conf[p]) = Last(conf[p].levels).name /\ LayerName(conf[p]) \in 0 .. Len(layers)
  <1>1. conf[p].levels \in Seq(Level)
    BY DEF SectionTyped, Section
  <1>2. /\ DOMAIN conf[p].levels = 1 .. Len(conf[p].levels)
        /\ Len(conf[p].levels) \in Nat /\ Len(conf[p].levels) >= 1 /\ Len(conf[p].levels) \in DOMAIN conf[p].levels
        /\ Last(conf[p].levels) = conf[p].levels[Len(conf[p].levels)] /\ Last(conf[p].levels) \in Level
    BY <1>1, TopOf
  <1>3. LayerName(conf[p]) = Last(conf[p].levels).name
    BY DEF LayerName
  <1> QED BY <1>1, <1>2, <1>3 DEF SectionTyped

\* A section names a layer of the context, or none.
LEMMA NameThere ==
  ASSUME NEW p, ContextTyped, SectionTyped(p)
  PROVE  LayerName(conf[p]) \in 0 .. Len(layers)
  <1>1. Len(layers) \in Nat
    BY LenProperties DEF ContextTyped
  <1>2. CASE conf[p].levels = <<>>
    BY <1>1, <1>2 DEF LayerName, None
  <1>3. CASE conf[p].levels # <<>>
    BY <1>3, SectionLevels
  <1> QED BY <1>2, <1>3

\* A section that does not change is as right as it was: what is in the context stays.
LEMMA SectionStays ==
  ASSUME NEW p \in Plugins, ContextTyped, SectionInv(p), Grows, conf'[p] = conf[p]
  PROVE  SectionInv(p)'
  <1>1. /\ Len(layers) \in Nat /\ Len(layers)' \in Nat /\ Len(layers) <= Len(layers)'
        /\ Len(tables) \in Nat /\ Len(tables)' \in Nat /\ Len(tables) <= Len(tables)'
        /\ Len(modules) \in Nat /\ Len(modules)' \in Nat /\ Len(modules) <= Len(modules)'
    BY LenProperties DEF ContextTyped, Grows, Extends
  <1>2. PICK c : c = conf[p]
    OBVIOUS
  <1>3. SectionTyped(p)'
    BY <1>1 DEF SectionInv, SectionTyped
  <1>4. /\ \A n \in 1 .. Len(layers) : layers'[n] = layers[n]
        /\ \A n \in 1 .. Len(tables) : tables'[n] = tables[n]
        /\ \A n \in 1 .. Len(modules) : modules'[n] = modules[n]
    BY DEF Grows, Extends
  <1>5. LayerName(c) \in 0 .. Len(layers) /\ c.table \in 0 .. Len(tables) /\ c.module \in 0 .. Len(modules)
    <2>1. CASE c.levels = <<>>
      BY <1>1, <1>2, <2>1 DEF LayerName, None, SectionInv, SectionTyped
    <2>2. CASE c.levels # <<>>
      BY <1>2, <2>2, SectionLevels DEF SectionInv, SectionTyped
    <2> QED BY <2>1, <2>2
  <1>6. /\ LayerName(c) # None => LayerName(c) \in 1 .. Len(layers)
        /\ c.table # None => c.table \in 1 .. Len(tables)
        /\ c.module # None => c.module \in 1 .. Len(modules)
    BY <1>1, <1>5 DEF None
  <1>7. /\ LayerName(c) # None => layers'[LayerName(c)] = layers[LayerName(c)]
        /\ c.table # None => tables'[c.table] = tables[c.table]
        /\ c.module # None => modules'[c.module] = modules[c.module]
    BY <1>4, <1>6
  <1>8. ModuleMade(p)'
    BY <1>2, <1>7 DEF SectionInv, ModuleMade, LayerSatisfied, TableSatisfied, Suits
  <1>9. ASSUME NEW l, l.name \in 0 .. Len(layers), LevelFits(l) PROVE LevelFits(l)'
    <2>1. l.name # None => layers'[l.name] = layers[l.name]
      BY <1>1, <1>4, <1>9 DEF None
    <2> QED BY <1>9, <2>1 DEF LevelFits
  <1>10. p \in mixed \/ OfOneKind(p)
    BY DEF SectionInv
  <1>11. ASSUME OfOneKind(p) PROVE OfOneKind(p)'
    <2>1. CASE c.levels = <<>>
      BY <1>2, <1>11, <2>1 DEF OfOneKind
    <2>2. CASE c.levels # <<>>
      <3>1. \A i \in DOMAIN c.levels : c.levels[i].name \in 0 .. Len(layers) /\ LevelFits(c.levels[i])
        BY <1>2, <1>11, <2>2 DEF OfOneKind, SectionInv, SectionTyped
      <3>2. Last(c.levels).name \in 0 .. Len(layers) /\ LevelFits(Last(c.levels))
        BY <1>2, <1>5, <1>11, <2>2 DEF OfOneKind, LayerName
      <3>3. LevelFits(Last(c.levels))' /\ \A i \in DOMAIN c.levels : LevelFits(c.levels[i])'
        BY <1>9, <3>1, <3>2
      <3> QED BY <1>2, <1>7, <1>11, <2>2, <3>3 DEF OfOneKind
    <2> QED BY <2>1, <2>2
  <1>12. p \in mixed' \/ OfOneKind(p)'
    BY <1>10, <1>11 DEF Grows
  <1> QED BY <1>3, <1>8, <1>12 DEF SectionInv

\* So only the section of the plugin that is run needs a proof, unless LayerStacker
\* remembers something new.
LEMMA SectionsStay ==
  ASSUME NEW p \in Plugins, ContextTyped, Sections, CacheInv, Grows, ChangesOnly(p), SectionInv(p)'
  PROVE  /\ Sections'
         /\ cached' = cached => CacheInv'
         /\ \A q \in Plugins : conf[q].module # None => conf'[q].module # None
  <1>1. \A q \in Plugins \ {p} : conf'[q] = conf[q]
    BY DEF ChangesOnly
  <1>2. \A q \in Plugins \ {p} : SectionInv(q)'
    BY <1>1, SectionStays DEF Sections
  <1>3. (conf = [q \in Plugins |-> conf[q]])'
    BY DEF ChangesOnly
  <1>4. Sections'
    BY <1>2, <1>3 DEF Sections
  <1>5. ASSUME cached' = cached, cached # <<>> PROVE CacheInv'
    <2>1. PICK q, n, d : cached.from = q /\ cached.top = n /\ cached.depth = d
      OBVIOUS
    <2>2. /\ q \in Plugins /\ n \in 0 .. Len(layers) /\ d \in 0 .. Len(conf[q].levels) - 1
          /\ q \in mixed \/ n = None \/ layers[n].kind = LevelAt(q, d).kind
          /\ cached = [top |-> n, from |-> q, depth |-> d]
      BY <1>5, <2>1 DEF CacheInv
    <2>3. /\ Len(layers) \in Nat /\ Len(layers)' \in Nat /\ Len(layers) <= Len(layers)'
          /\ n # None => n \in 1 .. Len(layers) /\ layers'[n] = layers[n]
      BY <2>2, LenProperties DEF ContextTyped, Grows, Extends, None
    <2>4. PICK s, t : s = conf[q].levels /\ t = conf'[q].levels
      OBVIOUS
    <2>5. s \in Seq(Level) /\ Len(s) \in Nat /\ DOMAIN s = 1 .. Len(s)
      BY <2>2, <2>4, LenProperties DEF Sections, SectionInv, SectionTyped, Section
    <2>6. s # <<>>
      <3>1. 0 .. Len(s) - 1 # {}
        BY <2>2, <2>4
      <3>2. Len(s) # 0
        BY <2>5, <3>1
      <3> QED BY <3>2, EmptySeq
    <2>7. Len(t) = Len(s) /\ \A i \in DOMAIN s : t[i].kind = s[i].kind
      <3>1. CASE q = p
        BY <2>4, <2>6, <3>1 DEF ChangesOnly
      <3>2. CASE q # p
        BY <1>1, <2>2, <2>4, <3>2
      <3> QED BY <3>1, <3>2
    <2>8. t[Len(t) - d].kind = s[Len(s) - d].kind
      <3>1. Len(s) - d \in DOMAIN s
        BY <2>2, <2>4, <2>5
      <3> QED BY <2>7, <3>1
    <2>9. n \in 0 .. Len(layers)'
      BY <2>2, <2>3
    <2>10. q \in mixed' \/ n = None \/ layers'[n].kind = t[Len(t) - d].kind
      BY <2>2, <2>3, <2>4, <2>8 DEF Grows, LevelAt
    <2>11. cached' = [top |-> n, from |-> q, depth |-> d] /\ d \in 0 .. Len(t) - 1
      BY <1>5, <2>2, <2>4, <2>7
    <2> QED BY <2>2, <2>4, <2>9, <2>10, <2>11 DEF CacheInv, LevelAt
  <1>6. cached' = cached => CacheInv'
    BY <1>5 DEF CacheInv
  <1>7. ASSUME NEW q \in Plugins, conf[q].module # None PROVE conf'[q].module # None
    BY <1>1, <1>7 DEF ChangesOnly
  <1> QED BY <1>4, <1>6, <1>7

\* Appending to the layers, the tables or the modules keeps those that are there.
LEMMA AppendExtends ==
  ASSUME NEW S, NEW s \in Seq(S), NEW x \in S, NEW t, t = Append(s, x)
  PROVE  /\ t \in Seq(S) /\ Extends(s, t) /\ Len(t) = Len(s) + 1 /\ t[Len(s) + 1] = x
         /\ Len(s) \in Nat
  <1>1. Len(s) \in Nat
    BY LenProperties
  <1>2. t \in Seq(S) /\ Len(t) = Len(s) + 1 /\ t[Len(s) + 1] = x /\ \A i \in 1 .. Len(s) : t[i] = s[i]
    BY AppendProperties
  <1> QED BY <1>1, <1>2 DEF Extends

\* A sequence extends itself.
LEMMA SameExtends ==
  ASSUME NEW S, NEW s \in Seq(S)
  PROVE  Extends(s, s)
  <1>1. Len(s) \in Nat
    BY LenProperties
  <1> QED BY <1>1 DEF Extends

\* Without a module, a section has none to be made of its values.
LEMMA NoModule ==
  ASSUME NEW p, ModuleMade(p), p \notin ModulePlugins \/ conf[p].module = None
  PROVE  conf[p].module = None
  BY DEF ModuleMade

\* A class of the section is constructed, the top one or one below it.
LEMMA BuildLayerPiece ==
  ASSUME PieceInv, BuildLayer, NEW p, p = run.plugin
  PROVE  /\ Grows /\ ChangesOnly(p) /\ SectionInv(p)'
         /\ \E i \in DOMAIN conf[p].levels :
              /\ i = ToBuild(conf[p].levels) /\ conf[p].levels # <<>> /\ conf'[p].levels # <<>>
              /\ i = Len(conf[p].levels) => /\ LayerName(conf'[p]) # None
                                            /\ layers'[LayerName(conf'[p])].kind = Last(conf[p].levels).kind
              /\ i # Len(conf[p].levels) => LayerName(conf'[p]) = LayerName(conf[p])
  <1>1. /\ p \in Plugins /\ ContextTyped /\ SectionTyped(p) /\ ModuleMade(p) /\ (p \in mixed \/ OfOneKind(p))
        /\ conf = [q \in Plugins |-> conf[q]]
    BY DEF PieceInv, Sections, RunInv, BuildLayer, At, SectionInv
  <1>2. /\ ~Satisfied(p) /\ ~LayerSatisfied(p) /\ conf[p].levels # <<>>
        /\ conf[p].module = None
    BY <1>1, NoModule DEF BuildLayer, NothingToBuild, Satisfied
  <1> DEFINE levels == conf[p].levels
             i == ToBuild(levels)
             N == Len(layers) + 1
  <1>3. /\ levels \in Seq(Level) /\ DOMAIN levels = 1 .. Len(levels) /\ Len(levels) \in DOMAIN levels
        /\ Len(levels) \in Nat /\ Len(levels) >= 1 /\ Last(levels) = levels[Len(levels)]
        /\ LayerName(conf[p]) = Last(levels).name
        /\ \A j \in DOMAIN levels : levels[j] \in Level /\ levels[j].name \in 0 .. Len(layers)
    <2>1. levels \in Seq(Level) /\ DOMAIN levels = 1 .. Len(levels) /\ Len(levels) \in DOMAIN levels
          /\ Len(levels) \in Nat /\ Len(levels) >= 1 /\ Last(levels) = levels[Len(levels)]
          /\ LayerName(conf[p]) = Last(levels).name
      BY <1>1, <1>2, SectionLevels
    <2>2. \A j \in DOMAIN levels : levels[j] \in Level
      BY <2>1, ElementOfSeq
    <2>3. \A j \in DOMAIN levels : levels[j].name \in 0 .. Len(layers)
      BY <1>1 DEF SectionTyped
    <2> QED BY <2>1, <2>2, <2>3
  <1>4. i \in DOMAIN levels
    <2>1. CASE Last(levels).name # None /\ ~parts
      BY <1>3, <2>1 DEF ToBuild
    <2>2. CASE ~(Last(levels).name # None /\ ~parts)
      <3>1. PICK S, n : S = {0} \cup {j \in 1 .. Len(levels) - 1 : levels[j].name # None} /\ n = Len(levels) - 1
        OBVIOUS
      <3>2. n \in Nat /\ S \in SUBSET (0 .. n) /\ S # {}
        BY <1>3, <3>1
      <3>3. Max(S) \in S
        BY <3>2, MaxOf
      <3>4. i = 1 + Max(S)
        BY <2>2, <3>1 DEF ToBuild
      <3>5. PICK k : k = Max(S)
        OBVIOUS
      <3>6. k \in 0 .. n
        BY <3>2, <3>3, <3>5
      <3>7. 1 + k \in 1 .. Len(levels)
        BY <1>3, <3>1, <3>6
      <3> QED BY <1>3, <3>4, <3>5, <3>7
    <2> QED BY <2>1, <2>2
  <1>5. Layer(levels, i) \in [kind : AllKinds, below : Nat] /\ Layer(levels, i).kind = levels[i].kind
    <2>1. levels[i] \in Level
      BY <1>3, <1>4
    <2>2. i # 1 => i - 1 \in DOMAIN levels
      BY <1>3, <1>4
    <2>3. i # 1 => levels[i - 1].name \in Nat
      BY <1>3, <2>2 DEF Level
    <2> QED BY <2>1, <2>3 DEF Layer, Level, None
  <1>6. layers' = Append(layers, Layer(levels, i)) /\ conf' = [conf EXCEPT ![p].levels[i].name = N]
        /\ UNCHANGED <<tables, modules, mixed>>
    BY DEF BuildLayer, history
  <1>7. /\ layers' \in Seq([kind : AllKinds, below : Nat]) /\ Extends(layers, layers')
        /\ Len(layers') = N /\ layers'[N].kind = levels[i].kind /\ Len(layers) \in Nat
    <2>1. PICK x : x = Layer(levels, i)
      OBVIOUS
    <2>2. x \in [kind : AllKinds, below : Nat] /\ x.kind = levels[i].kind /\ layers' = Append(layers, x)
      BY <1>5, <1>6, <2>1
    <2>3. PICK S, s, t : S = [kind : AllKinds, below : Nat] /\ s = layers /\ t = layers'
      OBVIOUS
    <2>4. s \in Seq(S) /\ x \in S /\ t = Append(s, x)
      BY <1>1, <2>2, <2>3 DEF ContextTyped
    <2>5. t \in Seq(S) /\ Extends(s, t) /\ Len(t) = Len(s) + 1 /\ t[Len(s) + 1] = x /\ Len(s) \in Nat
      BY <2>4, AppendExtends, ZenonT(30)
    <2> QED BY <2>2, <2>3, <2>5
  <1>8. Grows
    BY <1>1, <1>6, <1>7, SameExtends DEF Grows, ContextTyped
  <1>9. PICK m : m = [levels EXCEPT ![i].name = N]
    OBVIOUS
  <1>10. N \in Nat
    BY <1>7
  <1> HIDE DEF N
  <1>11. /\ m \in Seq(Level) /\ m # <<>> /\ Len(m) = Len(levels) /\ DOMAIN m = DOMAIN levels
         /\ \A j \in DOMAIN levels : /\ m[j].kind = levels[j].kind /\ m[j].kernelOffset = levels[j].kernelOffset
                                     /\ m[j].name = IF j = i THEN N ELSE levels[j].name
    <2>1. levels \in Seq(Level) /\ i \in DOMAIN levels
      BY <1>3, <1>4, Zenon
    <2> HIDE DEF levels, i
    <2> QED BY <1>9, <1>10, <2>1, Naming
  <1>12. conf' = [q \in Plugins |-> IF q = p THEN conf'[p] ELSE conf[q]] /\ conf'[p] = [conf[p] EXCEPT !.levels = m]
    BY <1>1, <1>6, <1>9
  <1>13. conf[p] \in Section
    BY <1>1 DEF SectionTyped
  <1>14. /\ conf'[p] \in Section /\ conf'[p].levels = m
         /\ conf'[p].isf = conf[p].isf /\ conf'[p].offset = conf[p].offset
         /\ conf'[p].table = conf[p].table /\ conf'[p].module = conf[p].module
    BY <1>11, <1>12, <1>13 DEF Section
  <1>15. Last(m) = m[Len(levels)] /\ Last(m).kind = Last(levels).kind
         /\ LayerName(conf'[p]) = Last(m).name
         /\ Last(m).name = IF i = Len(levels) THEN N ELSE Last(levels).name
    <2>1. Last(m) = m[Len(levels)]
      BY <1>11, Zenon DEF Last
    <2>2. m[Len(levels)].kind = levels[Len(levels)].kind
          /\ m[Len(levels)].name = IF i = Len(levels) THEN N ELSE levels[Len(levels)].name
      BY <1>3, <1>11, Zenon
    <2>3. LayerName(conf'[p]) = Last(m).name
      BY <1>11, <1>14, Zenon DEF LayerName
    <2> HIDE DEF levels, i
    <2> QED BY <1>3, <2>1, <2>2, <2>3
  <1>16. SectionTyped(p)'
    <2>1. \A j \in DOMAIN m : m[j].name \in 0 .. N
      <3> SUFFICES ASSUME NEW j \in DOMAIN m PROVE m[j].name \in 0 .. N
        OBVIOUS
      <3>1. levels[j].name \in 0 .. Len(layers) /\ (m[j].name = N \/ m[j].name = levels[j].name)
        BY <1>3, <1>11
      <3> QED BY <3>1, <1>7 DEF N
    <2> QED BY <1>1, <1>6, <1>7, <1>14, <2>1 DEF SectionTyped
  <1>17. ModuleMade(p)'
    BY <1>2, <1>14 DEF ModuleMade
  <1>18. p \in mixed' \/ OfOneKind(p)'
    <2> SUFFICES ASSUME p \notin mixed PROVE OfOneKind(p)'
      BY <1>6
    <2>1. /\ Last(levels).kind \in Accepts[p] /\ \A j \in DOMAIN levels : LevelFits(levels[j])
          /\ conf[p].isf \in {Last(levels).kind, Unknown} /\ conf[p].offset \in {Last(levels).kind, Unknown}
          /\ conf[p].table # None => tables[conf[p].table].kind = Last(levels).kind
      BY <1>1, <1>2 DEF OfOneKind
    <2>2. ASSUME NEW j \in DOMAIN m PROVE LevelFits(m[j])'
      <3>1. /\ m[j].kind = levels[j].kind /\ m[j].kernelOffset = levels[j].kernelOffset
            /\ m[j].name = IF j = i THEN N ELSE levels[j].name
            /\ j \in DOMAIN levels
        BY <1>11
      <3>2. CASE j = i
        <4>1. layers'[m[j].name].kind = m[j].kind
          BY <1>7, <3>1, <3>2 DEF N
        <4>2. m[j].kernelOffset \in {m[j].kind, Unknown}
          BY <2>1, <3>1 DEF LevelFits
        <4> QED BY <1>9, <4>1, <4>2 DEF LevelFits
      <3>3. CASE j # i
        <4>1. levels[j].name \in 0 .. Len(layers) /\ LevelFits(levels[j])
          BY <1>3, <2>1, <3>1
        <4>2. levels[j].name # None => layers'[levels[j].name] = layers[levels[j].name]
          BY <1>7, <4>1 DEF Extends, None
        <4> QED BY <1>9, <3>1, <3>3, <4>1, <4>2 DEF LevelFits
      <3> QED BY <3>2, <3>3
    <2>3. Last(m).kind = Last(levels).kind /\ tables' = tables /\ m # <<>>
      BY <1>6, <1>11, <1>15
    <2>4. LevelFits(Last(m))'
      <3>1. Last(m) = m[Len(levels)] /\ Len(levels) \in DOMAIN m
        BY <1>3, <1>11, <1>15
      <3> QED BY <2>2, <3>1
    <2> HIDE DEF levels, i
    <2> QED BY <1>14, <2>1, <2>2, <2>3, <2>4 DEF OfOneKind
  <1>19. ChangesOnly(p)
    <2>1. Len(conf'[p].levels) = Len(levels) /\ \A j \in DOMAIN levels : conf'[p].levels[j].kind = levels[j].kind
      BY <1>11, <1>14
    <2> HIDE DEF i
    <2> QED BY <1>2, <1>12, <2>1 DEF ChangesOnly
  <1>20. /\ i = Len(levels) => LayerName(conf'[p]) # None /\ layers'[LayerName(conf'[p])].kind = Last(levels).kind
         /\ i # Len(levels) => LayerName(conf'[p]) = LayerName(conf[p])
    <2>1. i = Len(levels) => layers'[N].kind = Last(levels).kind /\ N # None
      BY <1>3, <1>7 DEF N, None
    <2> HIDE DEF i, levels
    <2> QED BY <1>3, <1>15, <2>1
  <1>21. SectionInv(p)'
    BY <1>16, <1>17, <1>18 DEF SectionInv
  <1>22. conf'[p].levels # <<>>
    BY <1>11, <1>14
  <1> QED BY <1>2, <1>4, <1>8, <1>19, <1>20, <1>21, <1>22

\* The values that are right for a layer of a kind
RightFor(c, kind) ==
  c.isf \in {kind, Unknown} /\ c.offset \in {kind, Unknown}

\* A section gets other values, and its layer stays.
LEMMA LayerKept ==
  ASSUME ContextTyped, Sections, Grows, layers' = layers, NEW p \in Plugins, conf[p].module = None,
         NEW c \in Section, conf' = [conf EXCEPT ![p] = c], c.levels = conf[p].levels,
         c.table \in 0 .. Len(tables'), c.module \in 0 .. Len(modules'),
         c.module # None =>
           /\ p \in ModulePlugins /\ LayerSatisfied(p) /\ c.table # None /\ c.offset # Unknown
           /\ modules'[c.module] = [layer |-> LayerName(c), table |-> c.table, offset |-> c.offset],
         p \notin mixed /\ c.levels = <<>> =>
           c.isf = Unknown /\ c.offset = Unknown /\ c.table = None,
         p \notin mixed /\ c.levels # <<>> =>
           RightFor(c, Last(c.levels).kind) /\ (c.table # None => tables'[c.table].kind = Last(c.levels).kind)
  PROVE  ChangesOnly(p) /\ SectionInv(p)'
  <1>1. /\ SectionTyped(p) /\ ModuleMade(p) /\ (p \in mixed \/ OfOneKind(p))
        /\ conf = [q \in Plugins |-> conf[q]]
    BY DEF Sections, SectionInv
  <1>2. conf'[p] = c /\ conf' = [q \in Plugins |-> IF q = p THEN c ELSE conf[q]]
    BY <1>1
  <1>3. ChangesOnly(p)
    BY <1>2 DEF ChangesOnly
  <1>4. LayerName(c) = LayerName(conf[p])
    BY DEF LayerName
  <1>5. SectionTyped(p)'
    BY <1>1, <1>2 DEF SectionTyped
  <1>6. ModuleMade(p)'
    BY <1>2, <1>4 DEF ModuleMade, LayerSatisfied, Suits, TableSatisfied
  <1>7. ASSUME p \notin mixed PROVE OfOneKind(p)'
    <2>1. CASE c.levels = <<>>
      BY <1>2, <1>7, <2>1 DEF OfOneKind
    <2>2. CASE c.levels # <<>>
      <3>1. OfOneKind(p) /\ conf[p].levels # <<>>
        BY <1>1, <1>7, <2>2
      <3>2. /\ Last(c.levels).kind \in Accepts[p]
            /\ LevelFits(Last(c.levels)) /\ \A i \in DOMAIN c.levels : LevelFits(c.levels[i])
        BY <3>1 DEF OfOneKind
      <3>3. \A l : LevelFits(l) => LevelFits(l)'
        BY DEF LevelFits
      <3> QED BY <1>2, <1>7, <2>2, <3>2, <3>3 DEF OfOneKind, RightFor
    <2> QED BY <2>1, <2>2
  <1>8. p \in mixed' \/ OfOneKind(p)'
    BY <1>7 DEF Grows
  <1> QED BY <1>3, <1>5, <1>6, <1>8 DEF SectionInv

\* A step that changes neither the context nor a section.
LEMMA NothingChanges ==
  ASSUME ContextTyped, Sections, UNCHANGED <<layers, tables, modules, conf, mixed>>
  PROVE  /\ Grows /\ Sections' /\ ContextTyped'
         /\ cached' = cached /\ CacheInv => CacheInv'
  <1>1. ContextTyped'
    BY DEF ContextTyped
  <1>2. Grows
    BY <1>1, SameExtends DEF Grows, ContextTyped
  <1>3. Sections'
    BY DEF Sections, SectionInv, SectionTyped, ModuleMade, LayerSatisfied, TableSatisfied, Suits, OfOneKind, LevelFits
  <1>4. cached' = cached /\ CacheInv => CacheInv'
    BY DEF CacheInv, LevelAt
  <1> QED BY <1>1, <1>2, <1>3, <1>4

\* What is known of the plugin that is run.
LEMMA RunsSection ==
  ASSUME PieceInv, ~At("idle"), NEW p, p = run.plugin
  PROVE  /\ p \in Plugins /\ ContextTyped /\ Sections /\ CacheInv
         /\ SectionTyped(p) /\ ModuleMade(p) /\ (p \in mixed \/ OfOneKind(p)) /\ conf[p] \in Section
         /\ conf = [q \in Plugins |-> conf[q]]
         /\ ~Satisfied(p) \/ p \notin ModulePlugins => conf[p].module = None
         /\ Len(layers) \in Nat /\ Len(tables) \in Nat /\ Len(modules) \in Nat
         /\ LayerName(conf[p]) \in 0 .. Len(layers)
  <1>1. p \in Plugins /\ ContextTyped /\ Sections /\ CacheInv
    BY DEF PieceInv, RunInv, At
  <1>2. /\ SectionTyped(p) /\ ModuleMade(p) /\ (p \in mixed \/ OfOneKind(p)) /\ conf[p] \in Section
        /\ conf = [q \in Plugins |-> conf[q]]
    BY <1>1 DEF Sections, SectionInv, SectionTyped
  <1>3. ~Satisfied(p) \/ p \notin ModulePlugins => conf[p].module = None
    BY <1>2, NoModule DEF Satisfied
  <1>4. Len(layers) \in Nat /\ Len(tables) \in Nat /\ Len(modules) \in Nat
    BY <1>1, LenProperties DEF ContextTyped
  <1> QED BY <1>1, <1>2, <1>3, <1>4, NameThere

\* A table is added for what the section says of the symbols.
LEMMA AddTablePiece ==
  ASSUME ContextTyped, NEW k \in Value, tables' = Append(tables, [kind |-> k]),
         UNCHANGED <<layers, modules, mixed>>
  PROVE  /\ Grows /\ Len(tables)' = Len(tables) + 1 /\ Len(tables) \in Nat
         /\ tables'[Len(tables) + 1].kind = k
  <1>1. PICK S, s, t, x : S = [kind : Value] /\ s = tables /\ t = tables' /\ x = [kind |-> k]
    OBVIOUS
  <1>2. s \in Seq(S) /\ x \in S /\ t = Append(s, x)
    BY <1>1 DEF ContextTyped
  <1>3. t \in Seq(S) /\ Extends(s, t) /\ Len(t) = Len(s) + 1 /\ t[Len(s) + 1] = x /\ Len(s) \in Nat
    BY <1>2, AppendExtends, ZenonT(30)
  <1>4. Extends(layers, layers) /\ Extends(modules, modules)
    BY SameExtends DEF ContextTyped
  <1>5. ContextTyped'
    BY <1>1, <1>3 DEF ContextTyped
  <1>6. tables'[Len(tables) + 1].kind = k
    BY <1>1, <1>3
  <1> QED BY <1>1, <1>3, <1>4, <1>5, <1>6 DEF Grows

\* BuildTable makes the table of what the section says of the symbols.
LEMMA BuildTablePiece ==
  ASSUME PieceInv, BuildTable, NEW p, p = run.plugin
  PROVE  Grows /\ ChangesOnly(p) /\ SectionInv(p)'
  <1>1. ~At("idle")
    BY DEF BuildTable, At
  <1>2. /\ p \in Plugins /\ ContextTyped /\ Sections /\ (p \in mixed \/ OfOneKind(p)) /\ conf[p] \in Section
        /\ Len(tables) \in Nat /\ Len(modules) \in Nat
    BY <1>1, RunsSection
  <1>3. conf[p].module = None /\ conf[p].isf # Unknown
    BY <1>1, RunsSection DEF BuildTable, TableKnown
  <1>4. conf[p].isf \in Value
    BY <1>2 DEF Section
  <1>5. /\ tables' = Append(tables, [kind |-> conf[p].isf]) /\ UNCHANGED <<layers, modules, mixed>>
        /\ conf' = [conf EXCEPT ![p].table = Len(tables) + 1]
    BY DEF BuildTable, history
  <1>6. Grows /\ Len(tables)' = Len(tables) + 1 /\ tables'[Len(tables) + 1].kind = conf[p].isf
    BY <1>2, <1>4, <1>5, AddTablePiece
  <1>7. PICK c : c = [conf[p] EXCEPT !.table = Len(tables) + 1]
    OBVIOUS
  <1>8. /\ c \in Section /\ c.levels = conf[p].levels /\ c.table = Len(tables) + 1 /\ c.module = None
        /\ c.isf = conf[p].isf /\ c.offset = conf[p].offset
    BY <1>2, <1>3, <1>7 DEF Section
  <1>9. conf' = [conf EXCEPT ![p] = c]
    BY <1>2, <1>5, <1>7
  <1>10. p \notin mixed /\ c.levels = <<>> => FALSE
    BY <1>2, <1>3, <1>8 DEF OfOneKind
  <1>11. p \notin mixed /\ c.levels # <<>> =>
           RightFor(c, Last(c.levels).kind) /\ (c.table # None => tables'[c.table].kind = Last(c.levels).kind)
    BY <1>2, <1>3, <1>6, <1>8 DEF OfOneKind, RightFor
  <1>12. c.table \in 0 .. Len(tables') /\ c.module \in 0 .. Len(modules')
    BY <1>2, <1>5, <1>6, <1>8 DEF None
  <1> QED BY <1>2, <1>3, <1>5, <1>6, <1>8, <1>9, <1>10, <1>11, <1>12, LayerKept

\* A module is added to the context.
LEMMA MoreModules ==
  ASSUME ContextTyped, NEW x \in ModuleType, modules' = Append(modules, x),
         UNCHANGED <<layers, tables, mixed>>
  PROVE  /\ Grows /\ Len(modules)' = Len(modules) + 1 /\ Len(modules) \in Nat
         /\ modules'[Len(modules) + 1] = x
  <1>1. PICK S, s, t, y : S = ModuleType /\ s = modules /\ t = modules' /\ y = x
    OBVIOUS
  <1>2. s \in Seq(S) /\ y \in S /\ t = Append(s, y)
    BY <1>1 DEF ContextTyped
  <1>3. t \in Seq(S) /\ Extends(s, t) /\ Len(t) = Len(s) + 1 /\ t[Len(s) + 1] = y /\ Len(s) \in Nat
    BY <1>2, AppendExtends, ZenonT(30)
  <1>4. Extends(layers, layers) /\ Extends(tables, tables)
    BY SameExtends DEF ContextTyped
  <1>5. ContextTyped'
    BY <1>1, <1>3 DEF ContextTyped
  <1> QED BY <1>1, <1>3, <1>4, <1>5 DEF Grows

\* A module is made of the layer, the table and the offset of its section.
LEMMA AddModulePiece ==
  ASSUME ContextTyped, Sections, NEW p \in Plugins, p \in ModulePlugins, conf[p].module = None,
         LayerSatisfied(p), TableSatisfied(p),
         NEW section \in Section, AddModule(p, section), UNCHANGED <<layers, tables, mixed>>,
         section.levels = conf[p].levels, section.table = conf[p].table, section.offset # Unknown,
         section.isf = conf[p].isf, section.offset \in {conf[p].offset, KernelOffset(p)}
  PROVE  Grows /\ ChangesOnly(p) /\ SectionInv(p)'
  <1>1. SectionTyped(p) /\ (p \in mixed \/ OfOneKind(p))
    BY DEF Sections, SectionInv
  <1>2. Len(layers) \in Nat /\ LayerName(conf[p]) \in Nat /\ LayerName(section) = LayerName(conf[p])
    <2>1. LayerName(conf[p]) \in 0 .. Len(layers)
      BY <1>1, NameThere
    <2> QED BY <2>1, LenProperties DEF LayerName, ContextTyped
  <1>3. PICK x : x = [layer |-> LayerName(section), table |-> section.table, offset |-> section.offset]
    OBVIOUS
  <1>4. x \in ModuleType /\ modules' = Append(modules, x)
    BY <1>2, <1>3 DEF Section, AddModule, ModuleType
  <1>5. /\ Grows /\ Len(modules)' = Len(modules) + 1 /\ Len(modules) \in Nat
        /\ modules'[Len(modules) + 1] = x
    BY <1>4, MoreModules
  <1>0. PICK k : k = Len(modules) + 1
    OBVIOUS
  <1>9. PICK c : c = [section EXCEPT !.module = k]
    OBVIOUS
  <1>10. /\ c \in Section /\ c.levels = conf[p].levels /\ c.table = conf[p].table /\ c.module = Len(modules) + 1
         /\ c.isf = conf[p].isf /\ c.offset = section.offset
    <2>1. k \in Nat
      BY <1>0, <1>5
    <2> QED BY <1>0, <1>9, <2>1 DEF Section
  <1>11. conf' = [conf EXCEPT ![p] = c]
    BY <1>0, <1>9 DEF AddModule
  <1>12. c.table \in 0 .. Len(tables') /\ c.table # None
    BY <1>1, <1>10 DEF SectionTyped, TableSatisfied
  <1>13. c.module \in 0 .. Len(modules') /\ modules'[c.module] = x
    BY <1>5, <1>10
  <1>14. LayerName(c) = LayerName(section)
    BY <1>10 DEF LayerName
  <1>15. modules'[c.module] = [layer |-> LayerName(c), table |-> c.table, offset |-> c.offset]
    BY <1>3, <1>10, <1>13, <1>14
  <1>16. c.levels # <<>>
    BY <1>10 DEF LayerSatisfied, Suits, LayerName
  <1>17. p \notin mixed =>
           RightFor(c, Last(c.levels).kind) /\ (c.table # None => tables'[c.table].kind = Last(c.levels).kind)
    BY <1>1, <1>10, <1>16 DEF OfOneKind, RightFor, KernelOffset, LevelFits
  <1>18. c.offset # Unknown
    BY <1>10
  <1> QED BY <1>5, <1>10, <1>11, <1>12, <1>13, <1>15, <1>16, <1>17, <1>18, LayerKept

\* BuildModule makes the module of what the section has.
LEMMA BuildModulePiece ==
  ASSUME PieceInv, BuildModule, NEW p, p = run.plugin
  PROVE  Grows /\ ChangesOnly(p) /\ SectionInv(p)'
  <1>1. ~At("idle")
    BY DEF BuildModule, At
  <1>2. /\ p \in ModulePlugins /\ ~Satisfied(p) /\ LayerSatisfied(p) /\ TableSatisfied(p) /\ conf[p].offset # Unknown
        /\ AddModule(p, conf[p]) /\ UNCHANGED <<layers, tables, mixed>>
    BY DEF BuildModule, ModuleComplete, history
  <1>3. /\ p \in Plugins /\ ContextTyped /\ Sections /\ conf[p] \in Section /\ conf[p].module = None
    BY <1>1, <1>2, RunsSection
  <1> QED BY <1>2, <1>3, AddModulePiece

\* KernelModule completes what it can, or sets the module's class only.
LEMMA KernelModulePiece ==
  ASSUME PieceInv, KernelModule, NEW p, p = run.plugin
  PROVE  Grows /\ ChangesOnly(p) /\ SectionInv(p)'
  <1>1. ~At("idle")
    BY DEF KernelModule, At
  <1>2. p \in ModulePlugins /\ ~Satisfied(p) /\ UNCHANGED <<layers, tables, mixed>>
    BY DEF KernelModule, history
  <1>3. /\ p \in Plugins /\ ContextTyped /\ Sections /\ conf[p] \in Section /\ conf[p].module = None
        /\ SectionTyped(p) /\ (p \in mixed \/ OfOneKind(p))
    BY <1>1, <1>2, RunsSection
  <1>4. PICK section : section = [conf[p] EXCEPT !.class = TRUE]
    OBVIOUS
  <1>5. /\ section \in Section /\ section.levels = conf[p].levels /\ section.table = conf[p].table
        /\ section.module = None /\ section.isf = conf[p].isf /\ section.offset = conf[p].offset
    BY <1>3, <1>4 DEF Section
  <1>6. CASE LayerSatisfied(p) /\ TableSatisfied(p) /\ KernelOffset(p) # Unknown
    <2>0. PICK o : o = KernelOffset(p)
      OBVIOUS
    <2>1. PICK c : c = [section EXCEPT !.offset = o]
      OBVIOUS
    <2>2. AddModule(p, c)
      BY <1>4, <1>6, <2>0, <2>1 DEF KernelModule
    <2>3. o \in Value
      <3>1. conf[p].levels # <<>>
        BY <1>6 DEF LayerSatisfied, Suits, LayerName
      <3>2. Last(conf[p].levels) \in Level
        BY <1>3, <3>1, SectionLevels
      <3> QED BY <2>0, <3>2 DEF Level, KernelOffset
    <2>4. /\ c \in Section /\ c.levels = conf[p].levels /\ c.table = conf[p].table
          /\ c.isf = conf[p].isf /\ c.offset = o /\ c.offset # Unknown
      BY <1>5, <1>6, <2>0, <2>1, <2>3 DEF Section
    <2>5. c.offset \in {conf[p].offset, KernelOffset(p)}
      BY <2>0, <2>4
    <2> QED BY <1>2, <1>3, <1>6, <2>2, <2>4, <2>5, AddModulePiece
  <1>7. CASE ~(LayerSatisfied(p) /\ TableSatisfied(p) /\ KernelOffset(p) # Unknown)
    <2>1. conf' = [conf EXCEPT ![p] = section] /\ UNCHANGED modules
      BY <1>4, <1>7 DEF KernelModule
    <2>2. Grows
      <3>1. ContextTyped' /\ Extends(layers, layers) /\ Extends(tables, tables) /\ Extends(modules, modules)
        BY <1>2, <1>3, <2>1, SameExtends DEF ContextTyped
      <3> QED BY <1>2, <2>1, <3>1 DEF Grows
    <2>3. section.table \in 0 .. Len(tables') /\ section.module \in 0 .. Len(modules')
      BY <1>2, <1>3, <1>5, <2>1 DEF SectionTyped
    <2>4. p \notin mixed /\ section.levels = <<>> =>
            /\ section.isf = Unknown /\ section.offset = Unknown
            /\ section.table = None
      BY <1>3, <1>5 DEF OfOneKind
    <2>5. p \notin mixed /\ section.levels # <<>> =>
            /\ RightFor(section, Last(section.levels).kind)
            /\ section.table # None => tables'[section.table].kind = Last(section.levels).kind
      BY <1>2, <1>3, <1>5 DEF OfOneKind, RightFor
    <2> QED BY <1>2, <1>3, <1>5, <2>1, <2>2, <2>3, <2>4, <2>5, LayerKept
  <1> QED BY <1>6, <1>7

\* The layer in which a banner is found is that of the section, and of a kind known there.
LEMMA BannerFound ==
  ASSUME PieceInv, At("symbols"), Banner(run.plugin), NEW p, p = run.plugin
  PROVE  /\ p \in ModulePlugins /\ conf[p].module = None /\ conf[p].table = None
         /\ LayerToScan(p) = LayerName(conf[p]) /\ LayerName(conf[p]) \in 1 .. Len(layers) /\ conf[p].levels # <<>>
         /\ layers[LayerName(conf[p])].kind \in Value
         /\ p \in mixed \/ layers[LayerName(conf[p])].kind = Last(conf[p].levels).kind
  <1>1. ~At("idle")
    BY DEF At
  <1>2. /\ p \in ModulePlugins /\ ~TableSatisfied(p) /\ LayerToScan(p) = LayerName(conf[p])
        /\ LayerName(conf[p]) # None
    BY DEF Banner, LayerToScan
  <1>3. /\ p \in Plugins /\ ContextTyped /\ ModuleMade(p) /\ (p \in mixed \/ OfOneKind(p))
        /\ LayerName(conf[p]) \in 0 .. Len(layers) /\ Len(layers) \in Nat
    BY <1>1, RunsSection
  <1>4. conf[p].module = None
    BY <1>2, <1>3 DEF ModuleMade
  <1>5. LayerName(conf[p]) \in 1 .. Len(layers)
    BY <1>2, <1>3 DEF None
  <1>6. layers[LayerName(conf[p])] \in [kind : AllKinds, below : Nat]
    <2>1. PICK S, s, n : S = [kind : AllKinds, below : Nat] /\ s = layers /\ n = LayerName(conf[p])
      OBVIOUS
    <2>2. s \in Seq(S) /\ n \in 1 .. Len(s)
      BY <1>3, <1>5, <2>1 DEF ContextTyped
    <2>3. s[n] \in S
      BY <2>2, ElementOfSeq
    <2> QED BY <2>1, <2>3
  <1>7. layers[LayerName(conf[p])].kind \in Value
    BY <1>6 DEF Value
  <1>8. conf[p].levels # <<>>
    BY <1>2 DEF LayerName
  <1>9. p \in mixed \/ layers[LayerName(conf[p])].kind = Last(conf[p].levels).kind
    BY <1>2, <1>3, <1>8 DEF OfOneKind, LevelFits, LayerName
  <1> QED BY <1>2, <1>4, <1>5, <1>7, <1>8, <1>9 DEF TableSatisfied

\* FindSymbols makes the table of the symbols known for the layer of the section, or fails to.
LEMMA FindSymbolsPiece ==
  ASSUME PieceInv, FindSymbols \/ FindSymbolsFails, NEW p, p = run.plugin
  PROVE  Grows /\ ChangesOnly(p) /\ SectionInv(p)'
  <1>1. At("symbols") /\ Banner(p) /\ UNCHANGED <<layers, modules, mixed>>
    BY DEF FindSymbols, FindSymbolsFails, history, context
  <1>2. ~At("idle")
    BY <1>1 DEF At
  <1>3. PICK k : k = layers[LayerName(conf[p])].kind
    OBVIOUS
  <1>4. /\ p \in ModulePlugins /\ conf[p].module = None /\ conf[p].table = None /\ conf[p].levels # <<>>
        /\ k \in Value /\ (p \in mixed \/ k = Last(conf[p].levels).kind)
        /\ LayerToScan(p) = LayerName(conf[p])
    BY <1>1, <1>3, BannerFound
  <1>5. /\ p \in Plugins /\ ContextTyped /\ Sections /\ conf[p] \in Section /\ (p \in mixed \/ OfOneKind(p))
        /\ conf = [q \in Plugins |-> conf[q]] /\ Len(tables) \in Nat /\ Len(modules) \in Nat
    BY <1>2, RunsSection
  <1>6. FoundIsf(p) = [conf EXCEPT ![p].isf = k]
    BY <1>3, <1>4 DEF FoundIsf
  <1>7. FoundIsf(p)[p].isf = k
    BY <1>5, <1>6 DEF Section
  <1>8. CASE FindSymbols
    <2>1. /\ tables' = Append(tables, [kind |-> k])
          /\ conf' = [FoundIsf(p) EXCEPT ![p].table = Len(tables) + 1]
      BY <1>7, <1>8 DEF FindSymbols
    <2>2. /\ Grows /\ Len(tables)' = Len(tables) + 1 /\ Len(tables) \in Nat
          /\ tables'[Len(tables) + 1].kind = k
      BY <1>1, <1>4, <1>5, <2>1, AddTablePiece
    <2>3. PICK n : n = Len(tables) + 1
      OBVIOUS
    <2>4. n \in Nat /\ n # None
      BY <2>2, <2>3 DEF None
    <2>5. PICK c : c = [conf[p] EXCEPT !.isf = k, !.table = n]
      OBVIOUS
    <2>6. /\ c \in Section /\ c.levels = conf[p].levels /\ c.table = n /\ c.module = None
          /\ c.isf = k /\ c.offset = conf[p].offset
      BY <1>4, <1>5, <2>4, <2>5 DEF Section
    <2>7. conf' = [conf EXCEPT ![p] = c]
      BY <1>5, <1>6, <2>1, <2>3, <2>5
    <2>8. c.table \in 0 .. Len(tables') /\ c.module \in 0 .. Len(modules')
      BY <1>1, <1>5, <2>2, <2>3, <2>6 DEF None
    <2>9. p \notin mixed =>
            RightFor(c, Last(c.levels).kind) /\ (c.table # None => tables'[c.table].kind = Last(c.levels).kind)
      BY <1>4, <1>5, <2>2, <2>3, <2>6 DEF OfOneKind, RightFor
    <2> QED BY <1>1, <1>4, <1>5, <2>2, <2>6, <2>7, <2>8, <2>9, LayerKept
  <1>9. CASE FindSymbolsFails
    <2>1. conf' = FoundIsf(p) /\ UNCHANGED tables
      BY <1>9 DEF FindSymbolsFails, context
    <2>2. Grows
      <3>1. ContextTyped' /\ Extends(layers, layers) /\ Extends(tables, tables) /\ Extends(modules, modules)
        BY <1>1, <1>5, <2>1, SameExtends DEF ContextTyped
      <3> QED BY <1>1, <2>1, <3>1 DEF Grows
    <2>3. PICK c : c = [conf[p] EXCEPT !.isf = k]
      OBVIOUS
    <2>4. /\ c \in Section /\ c.levels = conf[p].levels /\ c.table = None /\ c.module = None
          /\ c.isf = k /\ c.offset = conf[p].offset
      BY <1>4, <1>5, <2>3 DEF Section
    <2>5. conf' = [conf EXCEPT ![p] = c]
      BY <1>5, <1>6, <2>1, <2>3
    <2>6. c.table \in 0 .. Len(tables') /\ c.module \in 0 .. Len(modules')
      BY <1>1, <1>5, <2>1, <2>4 DEF None
    <2>7. p \notin mixed => RightFor(c, Last(c.levels).kind)
      BY <1>4, <1>5, <2>4 DEF OfOneKind, RightFor
    <2> QED BY <1>1, <1>4, <1>5, <2>2, <2>4, <2>5, <2>6, <2>7, LayerKept
  <1> QED BY <1>8, <1>9

\* A section gets the layer of another, or what was stacked.
LEMMA MergedKept ==
  ASSUME ContextTyped, Sections, UNCHANGED context, mixed \subseteq mixed',
         NEW p \in Plugins, conf[p].module = None,
         NEW c \in Section, conf' = [conf EXCEPT ![p] = c], c.levels # <<>>,
         \A i \in DOMAIN c.levels : c.levels[i].name \in 0 .. Len(layers),
         c.table = conf[p].table, c.module = None, c.isf = conf[p].isf, c.offset = conf[p].offset,
         conf[p].levels # <<>> =>
           /\ Len(c.levels) = Len(conf[p].levels)
           /\ \A i \in DOMAIN conf[p].levels : c.levels[i].kind = conf[p].levels[i].kind,
         p \notin mixed' =>
           Last(c.levels).kind \in Accepts[p] /\ \A i \in DOMAIN c.levels : LevelFits(c.levels[i])
  PROVE  Grows /\ ChangesOnly(p) /\ SectionInv(p)'
  <1>1. /\ SectionTyped(p) /\ ModuleMade(p) /\ (p \in mixed \/ OfOneKind(p))
        /\ conf = [q \in Plugins |-> conf[q]]
    BY DEF Sections, SectionInv
  <1>2. UNCHANGED <<layers, tables, modules>>
    BY DEF context
  <1>3. Grows
    <2>1. ContextTyped' /\ Extends(layers, layers) /\ Extends(tables, tables) /\ Extends(modules, modules)
      BY <1>2, SameExtends DEF ContextTyped
    <2> QED BY <1>2, <2>1 DEF Grows
  <1>4. conf'[p] = c /\ conf' = [q \in Plugins |-> IF q = p THEN c ELSE conf[q]]
    BY <1>1
  <1>5. ChangesOnly(p)
    BY <1>4 DEF ChangesOnly
  <1>6. SectionTyped(p)'
    <2>1. c.table \in 0 .. Len(tables) /\ c.module \in 0 .. Len(modules)
      BY <1>1 DEF SectionTyped
    <2> QED BY <1>2, <1>4, <2>1 DEF SectionTyped
  <1>7. ModuleMade(p)'
    BY <1>4 DEF ModuleMade
  <1>8. ASSUME p \notin mixed' PROVE OfOneKind(p)'
    <2>1. OfOneKind(p)
      BY <1>1, <1>8
    <2>2. Last(c.levels) = c.levels[Len(c.levels)] /\ Len(c.levels) \in DOMAIN c.levels
      <3>1. PICK s : s = c.levels
        OBVIOUS
      <3>2. s \in Seq(Level) /\ s # <<>>
        BY <3>1 DEF Section
      <3>3. Last(s) = s[Len(s)] /\ Len(s) \in DOMAIN s
        BY <3>2, TopOf
      <3> QED BY <3>1, <3>3
    <2>3. conf[p].levels # <<>> => Last(c.levels).kind = Last(conf[p].levels).kind
      <3> SUFFICES ASSUME conf[p].levels # <<>> PROVE Last(c.levels).kind = Last(conf[p].levels).kind
        OBVIOUS
      <3>1. /\ Len(conf[p].levels) \in DOMAIN conf[p].levels
            /\ Last(conf[p].levels) = conf[p].levels[Len(conf[p].levels)]
        BY <1>1, SectionLevels
      <3> QED BY <2>2, <3>1
    <2>4. /\ c.isf \in {Last(c.levels).kind, Unknown} /\ c.offset \in {Last(c.levels).kind, Unknown}
          /\ c.table # None => tables[c.table].kind = Last(c.levels).kind
      BY <2>1, <2>3 DEF OfOneKind
    <2>5. \A l : LevelFits(l) => LevelFits(l)'
      BY <1>2 DEF LevelFits
    <2>6. LevelFits(Last(c.levels))' /\ \A i \in DOMAIN c.levels : LevelFits(c.levels[i])'
      BY <1>8, <2>2, <2>5
    <2> QED BY <1>2, <1>4, <1>8, <2>4, <2>6 DEF OfOneKind
  <1>9. p \in mixed' \/ OfOneKind(p)'
    BY <1>8
  <1> QED BY <1>3, <1>5, <1>6, <1>7, <1>9 DEF SectionInv

\* The layer of a class is another.
LEMMA NamingFits ==
  ASSUME NEW levels \in Seq(Level), NEW i \in DOMAIN levels, NEW name \in Nat,
         NEW m, m = [levels EXCEPT ![i].name = name],
         \A j \in DOMAIN levels : LevelFits(levels[j]),
         name = None \/ layers[name].kind = levels[i].kind
  PROVE  \A j \in DOMAIN m : LevelFits(m[j])
  <1>1. /\ DOMAIN m = DOMAIN levels
        /\ \A j \in DOMAIN levels : /\ m[j].kind = levels[j].kind /\ m[j].kernelOffset = levels[j].kernelOffset
                                    /\ m[j].name = IF j = i THEN name ELSE levels[j].name
    BY Naming
  <1> QED BY <1>1 DEF LevelFits

\* The requirement that LayerStacker takes is the first that is suitable.
LEMMA FirstSuitable ==
  ASSUME NEW p, SectionTyped(p), NEW fits \in BOOLEAN, NEW offered \in BOOLEAN, NEW known,
         NEW S, S = Suitable(p, fits, offered, known), S # {}, NEW d, d = Min(S)
  PROVE  /\ d \in Nat
         /\ conf[p].levels # <<>> => d < Len(conf[p].levels)
         /\ conf[p].levels = <<>> => d = 0
         /\ d = 0 => LayerSatisfied(p) \/ fits
         /\ d # 0 => known /\ ~LayerSatisfied(p) /\ ~fits
  <1>1. PICK levels, n : levels = conf[p].levels /\ n = Len(levels)
    OBVIOUS
  <1>2. levels \in Seq(Level) /\ n \in Nat /\ (levels = <<>> <=> n = 0)
    <2>1. levels \in Seq(Level)
      BY <1>1 DEF SectionTyped, Section
    <2> QED BY <1>1, <2>1, LenProperties, EmptySeq
  <1>3. S \in SUBSET Nat
    BY <1>1, <1>2 DEF Suitable
  <1>4. d \in S /\ \A k \in S : d <= k
    BY <1>3, MinOf
  <1>5. d \in 0 .. n /\ (d # 0 => known /\ d < n) /\ (d = 0 => LayerSatisfied(p) \/ fits)
    BY <1>1, <1>2, <1>4 DEF Suitable
  <1>6. LayerSatisfied(p) \/ fits => 0 \in S
    BY <1>1, <1>2 DEF Suitable
  <1>7. d # 0 => ~LayerSatisfied(p) /\ ~fits
    <2> SUFFICES ASSUME LayerSatisfied(p) \/ fits PROVE d = 0
      OBVIOUS
    <2>1. d <= 0
      BY <1>4, <1>6
    <2>2. d \in Nat
      BY <1>3, <1>4
    <2> QED BY <2>1, <2>2
  <1> QED BY <1>1, <1>2, <1>5, <1>7

\* A layer's section, and it is the layer at its top.
LEMMA BranchOf ==
  ASSUME NEW p, SectionTyped(p), NEW d \in 0 .. Len(conf[p].levels) - 1, NEW from, from = Branch(p, d)
  PROVE  /\ from \in Seq(Level) /\ from # <<>> /\ DOMAIN from \subseteq DOMAIN conf[p].levels
         /\ \A i \in DOMAIN from : from[i] = conf[p].levels[i]
         /\ Last(from) = LevelAt(p, d)
  <1>1. PICK all, n : all = conf[p].levels /\ n = Len(all) - d
    OBVIOUS
  <1>2. all \in Seq(Level)
    BY <1>1 DEF SectionTyped, Section
  <1>3. n \in 1 .. Len(all)
    BY <1>1, <1>2, LenProperties
  <1>4. from = SubSeq(all, 1, n)
    BY <1>1 DEF Branch
  <1>5. /\ from \in Seq(Level) /\ from # <<>>
        /\ DOMAIN from = 1 .. n /\ DOMAIN from \subseteq DOMAIN all
        /\ \A i \in 1 .. n : from[i] = all[i]
        /\ Len(from) = n
    BY <1>2, <1>3, <1>4, LowLevels
  <1>6. Last(from) = all[n]
    <2>1. n \in 1 .. n
      BY <1>3
    <2> QED BY <1>5, <2>1 DEF Last
  <1> QED BY <1>1, <1>5, <1>6 DEF LevelAt

\* The section gets what LayerStacker remembers: it was not mixed only if that is of the same kinds.
LEMMA UseCachedPiece ==
  ASSUME PieceInv, UseCached, NEW p, p = run.plugin
  PROVE  /\ Grows /\ ChangesOnly(p) /\ SectionInv(p)' /\ conf'[p].levels # <<>>
         /\ Min(CacheSuits(p)) = 0 => LayerName(conf'[p]) = cached.top
  <1>1. ~At("idle") /\ ~Satisfied(p) /\ CacheApplies(p) /\ UNCHANGED context
    BY DEF UseCached, At
  <1>2. PICK f, top, e : f = cached.from /\ top = cached.top /\ e = cached.depth
    OBVIOUS
  <1>3. /\ p \in Plugins /\ ContextTyped /\ Sections /\ CacheInv /\ SectionTyped(p) /\ (p \in mixed \/ OfOneKind(p))
        /\ conf[p] \in Section /\ conf[p].module = None /\ Len(layers) \in Nat /\ conf = [q \in Plugins |-> conf[q]]
    BY <1>1, RunsSection
  <1>4. /\ f \in Plugins /\ top \in 0 .. Len(layers) /\ e \in 0 .. Len(conf[f].levels) - 1
        /\ f \in mixed \/ top = None \/ layers[top].kind = LevelAt(f, e).kind
    BY <1>1, <1>2, <1>3 DEF CacheInv, CacheApplies
  <1>5. SectionTyped(f) /\ (f \in mixed \/ OfOneKind(f)) /\ conf[f] \in Section
    BY <1>3, <1>4 DEF Sections, SectionInv, SectionTyped
  <1>6. PICK into, all, from, d :
          into = conf[p].levels /\ all = conf[f].levels /\ from = Branch(f, e) /\ d = Min(CacheSuits(p))
    OBVIOUS
  <1>7. into \in Seq(Level) /\ all \in Seq(Level) /\ Len(into) \in Nat /\ (into = <<>> <=> Len(into) = 0)
    <2>1. into \in Seq(Level) /\ all \in Seq(Level)
      BY <1>3, <1>5, <1>6 DEF Section
    <2> QED BY <2>1, LenProperties, EmptySeq
  <1>8. /\ from \in Seq(Level) /\ from # <<>> /\ DOMAIN from \subseteq DOMAIN all
        /\ \A i \in DOMAIN from : from[i] = all[i]
        /\ Last(from) = LevelAt(f, e)
    BY <1>4, <1>5, <1>6, BranchOf
  <1>9. /\ d \in Nat /\ (into # <<>> => d < Len(into)) /\ (into = <<>> => d = 0)
        /\ d = 0 => LayerSatisfied(p) \/ Suits(p, top)
    <2>1. PICK fits, offered, known :
            fits = Suits(p, top) /\ offered = (top # None) /\ known = (parts \/ top = None)
      OBVIOUS
    <2>2. fits \in BOOLEAN /\ offered \in BOOLEAN
      BY <2>1 DEF Suits
    <2>3. CacheSuits(p) = Suitable(p, fits, offered, known) /\ CacheSuits(p) # {}
      BY <1>1, <1>2, <2>1 DEF CacheSuits, CacheApplies
    <2>4. /\ d \in Nat /\ (into # <<>> => d < Len(into)) /\ (into = <<>> => d = 0)
          /\ d = 0 => LayerSatisfied(p) \/ fits
      BY <1>3, <1>6, <2>2, <2>3, FirstSuitable
    <2> QED BY <2>1, <2>4
  <1>10. PICK m : m = MergeLevels(into, d, from)
    OBVIOUS
  <1>11. /\ m \in Seq(Level) /\ m # <<>>
         /\ into = <<>> => m = from
         /\ into # <<>> => /\ Len(m) = Len(into) /\ DOMAIN m = DOMAIN into
                           /\ \A i \in DOMAIN into : m[i].kind = into[i].kind
         /\ \A i \in DOMAIN m : \/ \E j \in DOMAIN from : m[i].name = from[j].name
                                \/ into # <<>> /\ i \in DOMAIN into /\ m[i].name = into[i].name
    <2>1. into \in Seq(Level) /\ from \in Seq(Level) /\ from # <<>> /\ d \in Nat
      BY <1>7, <1>8, <1>9, Zenon
    <2> QED BY SMTT(40), <1>10, <2>1, Merging
  <1>12. PICK k : k = Len(m) - d
    OBVIOUS
  <1>13. k \in DOMAIN m /\ top \in Nat
    <2>1. Len(m) \in Nat /\ Len(m) >= 1 /\ DOMAIN m = 1 .. Len(m)
      BY <1>11, TopOf
    <2>2. d < Len(m)
      BY <1>9, <1>11, <2>1
    <2> QED BY <1>3, <1>4, <1>9, <1>12, <2>1, <2>2
  <1>14. PICK n : n = [m EXCEPT ![k].name = top]
    OBVIOUS
  <1>15. /\ n \in Seq(Level) /\ n # <<>> /\ Len(n) = Len(m) /\ DOMAIN n = DOMAIN m
         /\ \A j \in DOMAIN m : /\ n[j].kind = m[j].kind /\ n[j].kernelOffset = m[j].kernelOffset
                                /\ n[j].name = IF j = k THEN top ELSE m[j].name
    <2>1. m \in Seq(Level) /\ k \in DOMAIN m /\ top \in Nat
      BY <1>11, <1>13, Zenon
    <2> QED BY SMTT(40), <1>14, <2>1, Naming
  <1>16. Last(n) = n[Len(m)] /\ Last(m) = m[Len(m)] /\ Len(m) \in DOMAIN m
    BY <1>11, <1>15, TopOf DEF Last
  <1>17. PICK c : c = [conf[p] EXCEPT !.levels = n]
    OBVIOUS
  <1>18. /\ c \in Section /\ c.levels = n /\ c.table = conf[p].table /\ c.module = None
         /\ c.isf = conf[p].isf /\ c.offset = conf[p].offset
    BY <1>3, <1>15, <1>17 DEF Section
  <1>19. conf' = [conf EXCEPT ![p] = c]
    <2>1. conf' = [conf EXCEPT ![p].levels = NameAt(MergeLevels(@, d, from), d, top)]
      BY <1>2, <1>6 DEF UseCached
    <2>2. NameAt(MergeLevels(into, d, from), d, top) = n
      BY <1>10, <1>12, <1>14 DEF NameAt
    <2> QED BY <1>3, <1>6, <1>17, <2>1, <2>2
  <1>20. \A i \in DOMAIN n : n[i].name \in 0 .. Len(layers)
    <2> SUFFICES ASSUME NEW i \in DOMAIN n PROVE n[i].name \in 0 .. Len(layers)
      OBVIOUS
    <2>1. \A j \in DOMAIN from : from[j].name \in 0 .. Len(layers)
      BY <1>5, <1>6, <1>8 DEF SectionTyped
    <2>2. \A j \in DOMAIN into : into[j].name \in 0 .. Len(layers)
      BY <1>3, <1>6 DEF SectionTyped
    <2>3. m[i].name \in 0 .. Len(layers)
      BY <1>11, <1>15, <2>1, <2>2
    <2> QED BY <1>4, <1>15, <2>3
  <1>21. mixed \subseteq mixed' /\ (p \notin mixed' => /\ f \notin mixed /\ p \notin mixed
                                                       /\ into = <<>> \/ Kinds(Branch(p, d)) = Kinds(from))
    BY <1>2, <1>6 DEF UseCached, MixedBy
  <1>22. ASSUME p \notin mixed'
         PROVE  Last(n).kind \in Accepts[p] /\ \A i \in DOMAIN n : LevelFits(n[i])
    <2>1. OfOneKind(p) /\ OfOneKind(f) /\ (into = <<>> \/ Kinds(Branch(p, d)) = Kinds(from))
      BY <1>3, <1>5, <1>21, <1>22
    <2>2. \A i \in DOMAIN from : LevelFits(from[i])
      <3>1. all # <<>>
        BY <1>4, <1>6, EmptySeq
      <3>2. \A i \in DOMAIN all : LevelFits(all[i])
        BY <1>6, <2>1, <3>1 DEF OfOneKind
      <3> QED BY <1>8, <3>2
    <2>3. top = None \/ layers[top].kind = Last(from).kind
      BY <1>4, <1>8, <1>21, <1>22
    <2>4. CASE into = <<>>
      <3>1. m = from /\ k = Len(m) /\ d = 0
        BY <1>9, <1>11, <1>12, <1>16, <2>4, LenProperties
      <3>2. m[k] = Last(from)
        BY <1>16, <3>1
      <3>0. /\ m \in Seq(Level) /\ k \in DOMAIN m /\ top \in Nat /\ \A i \in DOMAIN m : LevelFits(m[i])
            /\ top = None \/ layers[top].kind = m[k].kind
        BY <1>11, <1>13, <2>2, <2>3, <3>1, <3>2, Zenon
      <3>3. \A i \in DOMAIN n : LevelFits(n[i])
        BY SMTT(40), <1>14, <3>0, NamingFits
      <3>4. LayerName(conf[p]) = None
        BY <1>6, <2>4 DEF LayerName
      <3>5. top # None /\ layers[top].kind \in Accepts[p]
        BY <1>9, <3>1, <3>4 DEF LayerSatisfied, Suits
      <3>6. Last(n).kind = Last(from).kind
        BY <1>15, <1>16, <3>1, <3>2
      <3> QED BY <2>3, <3>3, <3>5, <3>6
    <2>5. CASE into # <<>>
      <3>1. Kinds(SubSeq(into, 1, Len(into) - d)) = Kinds(from)
        BY <1>6, <2>1, <2>5 DEF Branch
      <3>2. \A i \in DOMAIN into : LevelFits(into[i])
        BY <1>6, <2>1, <2>5 DEF OfOneKind
      <3>3. (\A i \in DOMAIN m : LevelFits(m[i])) /\ into[Len(into) - d].kind = Last(from).kind
        BY <1>7, <1>8, <1>9, <1>10, <2>2, <2>5, <3>1, <3>2, MergingFits
      <3>4. m[k].kind = Last(from).kind
        BY <1>11, <1>12, <1>13, <2>5, <3>3
      <3>5. /\ m \in Seq(Level) /\ k \in DOMAIN m /\ top \in Nat /\ \A i \in DOMAIN m : LevelFits(m[i])
            /\ top = None \/ layers[top].kind = m[k].kind
        BY <1>11, <1>13, <2>3, <3>3, <3>4, Zenon
      <3>6. \A i \in DOMAIN n : LevelFits(n[i])
        BY SMTT(40), <1>14, <3>5, NamingFits
      <3>7. Last(n).kind = Last(into).kind
        <4>1. Last(n).kind = into[Len(into)].kind
          BY <1>11, <1>15, <1>16, <2>5
        <4> QED BY <4>1 DEF Last
      <3>8. Last(into).kind \in Accepts[p]
        BY <1>6, <2>1, <2>5 DEF OfOneKind
      <3> QED BY <3>6, <3>7, <3>8
    <2> QED BY <2>4, <2>5
  <1>23. conf'[p] = c
    BY <1>3, <1>19
  <1>24. /\ \A i \in DOMAIN c.levels : c.levels[i].name \in 0 .. Len(layers)
         /\ c.levels # <<>>
         /\ conf[p].levels # <<>> =>
              /\ Len(c.levels) = Len(conf[p].levels)
              /\ \A i \in DOMAIN conf[p].levels : c.levels[i].kind = conf[p].levels[i].kind
    BY <1>6, <1>11, <1>15, <1>18, <1>20
  <1>25. p \notin mixed' =>
           Last(c.levels).kind \in Accepts[p] /\ \A i \in DOMAIN c.levels : LevelFits(c.levels[i])
    BY <1>18, <1>22
  <1>26. d = 0 => LayerName(c) = top
    <2> SUFFICES ASSUME d = 0 PROVE LayerName(c) = top
      OBVIOUS
    <2>1. k = Len(m)
      BY <1>11, <1>12, LenProperties
    <2> QED BY <1>15, <1>16, <1>18, <2>1 DEF LayerName
  <1>27. mixed \subseteq mixed'
    BY <1>21
  <1>28. Grows /\ ChangesOnly(p) /\ SectionInv(p)'
    BY <1>1, <1>3, <1>18, <1>19, <1>24, <1>25, <1>27, MergedKept
  <1> QED BY <1>2, <1>6, <1>23, <1>24, <1>26, <1>28

\* The highest layer of a stack that suits.
LEMMA HighestOf ==
  ASSUME NEW p, NEW stack \in Seq(StackKinds), NEW top, top = Highest(p, stack)
  PROVE  /\ top = 0 => \A i \in DOMAIN stack : stack[i] \notin Accepts[p]
         /\ top # 0 => top \in 1 .. Len(stack) /\ stack[top] \in Accepts[p]
         /\ \A i \in DOMAIN stack : stack[i] \in Accepts[p] => i <= top
  <1> DEFINE S == {i \in DOMAIN stack : stack[i] \in Accepts[p]} \cup {0}
  <1>1. DOMAIN stack = 1 .. Len(stack) /\ Len(stack) \in Nat
    BY LenProperties
  <1>2. S \in SUBSET (0 .. Len(stack)) /\ S # {}
    BY <1>1
  <1>3. top \in S /\ \A m \in S : m <= top
    <2>1. PICK T, n : T = S /\ n = Len(stack)
      OBVIOUS
    <2>2. T \in SUBSET (0 .. n) /\ T # {} /\ n \in Nat
      BY <1>1, <1>2, <2>1
    <2>3. Max(T) \in T /\ \A m \in T : m <= Max(T)
      BY <2>2, MaxOf
    <2>4. top = Max(T)
      BY <2>1 DEF Highest
    <2> QED BY <2>1, <2>3, <2>4
  <1>4. ASSUME top = 0, NEW i \in DOMAIN stack PROVE stack[i] \notin Accepts[p]
    <2> SUFFICES ASSUME stack[i] \in Accepts[p] PROVE FALSE
      OBVIOUS
    <2>1. i \in S
      OBVIOUS
    <2>2. i <= 0 /\ i \in 1 .. Len(stack)
      BY <1>1, <1>3, <1>4, <2>1
    <2> QED BY <1>1, <2>2
  <1>5. top # 0 => top \in 1 .. Len(stack) /\ stack[top] \in Accepts[p]
    BY <1>1, <1>3
  <1>6. \A i \in DOMAIN stack : stack[i] \in Accepts[p] => i <= top
    BY <1>3
  <1> QED BY <1>4, <1>5, <1>6

\* The configuration of the layers of a stack up to one of them.
LEMMA UnbuiltUpTo ==
  ASSUME NEW stack \in Seq(StackKinds), NEW top \in 1 .. Len(stack), NEW u, u = Unbuilt(SubSeq(stack, 1, top))
  PROVE  /\ u \in Seq(Level) /\ u # <<>> /\ Last(u).kind = stack[top]
         /\ \A i \in DOMAIN u : u[i].name = None /\ LevelFits(u[i])
  <1>1. DOMAIN stack = 1 .. Len(stack) /\ Len(stack) \in Nat
    BY LenProperties
  <1>2. PICK r : r = SubSeq(stack, 1, top)
    OBVIOUS
  <1>3. /\ r \in Seq(StackKinds) /\ Len(r) = top /\ DOMAIN r = 1 .. top
        /\ \A i \in 1 .. top : r[i] = stack[i]
    BY <1>2, LowLevels
  <1>4. \A i \in 1 .. top : stack[i] \in AllKinds
    <2>1. \A i \in 1 .. Len(stack) : stack[i] \in StackKinds
      BY ElementOfSeq
    <2> QED BY <1>1, <2>1 DEF AllKinds
  <1>5. u = [i \in 1 .. top |->
               [kind |-> stack[i], name |-> None,
                kernelOffset |-> IF stack[i] \in KernelOffsets THEN stack[i] ELSE Unknown]]
    BY <1>2, <1>3 DEF Unbuilt
  <1>6. ASSUME NEW i \in 1 .. top
        PROVE  u[i] \in Level /\ u[i].kind = stack[i] /\ u[i].name = None /\ LevelFits(u[i])
    <2>1. PICK k, x, o : k = stack[i] /\ x = u[i] /\ o = IF k \in KernelOffsets THEN k ELSE Unknown
      OBVIOUS
    <2>2. x = [kind |-> k, name |-> None, kernelOffset |-> o] /\ k \in AllKinds /\ o \in {k, Unknown}
      BY <1>4, <1>5, <2>1
    <2>3. x \in Level /\ x.kind = k /\ x.name = None
      BY <2>2 DEF Level, None, Value
    <2>4. LevelFits(x)
      BY <2>2 DEF LevelFits
    <2> QED BY <2>1, <2>3, <2>4
  <1>7. u \in Seq(Level) /\ Len(u) = top /\ DOMAIN u = 1 .. top
    <2>1. u \in [1 .. top -> Level]
      BY <1>5, <1>6
    <2>2. top \in Nat
      BY <1>1
    <2> QED BY <2>1, <2>2, Tabulated
  <1>8. u # <<>> /\ Last(u).kind = stack[top]
    <2>1. top \in DOMAIN u /\ top \in 1 .. top
      BY <1>1, <1>7
    <2>2. u # <<>>
      BY <2>1
    <2>3. Last(u) = u[top]
      BY <1>7, <2>2 DEF Last
    <2> QED BY <1>6, <2>1, <2>2, <2>3
  <1> QED BY <1>6, <1>7, <1>8

\* The section gets what was stacked, where it is suitable.
LEMMA ApplyStackPiece ==
  ASSUME PieceInv, StackInv, ApplyStack, NEW p, p = run.plugin
  PROVE  /\ Grows /\ ChangesOnly(p) /\ SectionInv(p)' /\ conf'[p].levels # <<>>
         /\ depth' \in 0 .. Len(conf'[p].levels) - 1
         /\ conf[p].levels # <<>> => LayerName(conf'[p]) = LayerName(conf[p])
         /\ conf[p].levels = <<>> => Last(conf'[p].levels).kind \in Accepts[p]
  <1>1. ~At("idle") /\ At("scan") /\ UNCHANGED context
    BY DEF ApplyStack, At
  <1>2. /\ p \in Plugins /\ ContextTyped /\ Sections /\ SectionTyped(p) /\ (p \in mixed \/ OfOneKind(p))
        /\ conf[p] \in Section /\ Len(layers) \in Nat /\ conf = [q \in Plugins |-> conf[q]]
        /\ ModuleMade(p)
    BY <1>1, RunsSection
  <1>3. PICK stack, into, d, top, u :
          /\ stack = stacking.stack /\ into = conf[p].levels /\ d = Min(StackSuits(p))
          /\ top = IF d = 0 THEN Highest(p, stack) ELSE Len(stack)
          /\ u = Unbuilt(SubSeq(stack, 1, top))
    OBVIOUS
  <1>4. stack \in Seq(StackKinds) /\ stack # <<>> /\ Len(stack) \in Nat /\ Len(stack) >= 1
    <2>1. stack \in Seq(StackKinds) /\ stack # <<>>
      BY <1>1, <1>3 DEF StackInv, StackingTyped
    <2> QED BY <2>1, TopOf
  <1>5. /\ d \in Nat /\ (into # <<>> => d < Len(into)) /\ (into = <<>> => d = 0)
        /\ d = 0 => LayerSatisfied(p) \/ Highest(p, stack) # 0
        /\ d # 0 => ~LayerSatisfied(p)
    <2>1. (Highest(p, stack) # 0) \in BOOLEAN
      OBVIOUS
    <2>2. StackSuits(p) = Suitable(p, Highest(p, stack) # 0, TRUE, parts) /\ StackSuits(p) # {}
      BY <1>3 DEF StackSuits, ApplyStack
    <2> QED BY <1>2, <1>3, <2>1, <2>2, FirstSuitable
  <1>6. /\ conf' = IF Named(p, d) THEN conf ELSE [conf EXCEPT ![p].levels = MergeLevels(@, d, u)]
        /\ mixed' = IF Named(p, d) THEN mixed ELSE MixedBy(p, d, u)
        /\ depth' = d
    BY <1>3 DEF ApplyStack
  <1>7. into \in Seq(Level) /\ Len(into) \in Nat /\ (into = <<>> <=> Len(into) = 0)
    <2>1. into \in Seq(Level)
      BY <1>2, <1>3 DEF Section
    <2> QED BY <2>1, LenProperties, EmptySeq
  <1>8. CASE Named(p, d)
    <2>1. UNCHANGED <<layers, tables, modules, conf, mixed>>
      BY <1>1, <1>6, <1>8 DEF context
    <2>2. Grows /\ Sections'
      BY <1>2, <2>1, NothingChanges
    <2>3. into # <<>>
      BY <1>3, <1>5, <1>8 DEF Named, LayerSatisfied, Suits, LayerName
    <2>4. ChangesOnly(p)
      BY <1>2, <2>1 DEF ChangesOnly
    <2>5. d \in 0 .. Len(into) - 1
      BY <1>5, <1>7, <2>3
    <2>6. LayerName(conf'[p]) = LayerName(conf[p])
      BY <2>1
    <2> QED BY <1>2, <1>3, <1>6, <2>1, <2>2, <2>3, <2>4, <2>5, <2>6 DEF Sections
  <1>9. CASE ~Named(p, d)
    <2>1. ~LayerSatisfied(p)
      BY <1>5, <1>9 DEF Named
    <2>2. conf[p].module = None
      BY <1>2, <2>1 DEF ModuleMade
    <2>3. top \in 1 .. Len(stack) /\ (d = 0 => stack[top] \in Accepts[p])
      <3>1. CASE d = 0
        BY <1>3, <1>4, <1>5, <2>1, <3>1, HighestOf
      <3>2. CASE d # 0
        BY <1>3, <1>4, <3>2
      <3> QED BY <3>1, <3>2
    <2>4. /\ u \in Seq(Level) /\ u # <<>> /\ Last(u).kind = stack[top]
          /\ \A i \in DOMAIN u : u[i].name = None /\ LevelFits(u[i])
      BY <1>3, <1>4, <2>3, UnbuiltUpTo
    <2>5. PICK m : m = MergeLevels(into, d, u)
      OBVIOUS
    <2>6. /\ m \in Seq(Level) /\ m # <<>>
          /\ into = <<>> => m = u
          /\ into # <<>> => /\ Len(m) = Len(into) /\ DOMAIN m = DOMAIN into
                            /\ \A i \in DOMAIN into : /\ m[i].kind = into[i].kind
                                                      /\ into[i].name # None => m[i].name = into[i].name
          /\ \A i \in DOMAIN m : \/ \E j \in DOMAIN u : m[i].name = u[j].name
                                 \/ into # <<>> /\ i \in DOMAIN into /\ m[i].name = into[i].name
      <3>1. into \in Seq(Level) /\ u \in Seq(Level) /\ u # <<>> /\ d \in Nat
        BY <1>5, <1>7, <2>4, Zenon
      <3> QED BY SMTT(40), <2>5, <3>1, Merging
    <2>7. PICK c : c = [conf[p] EXCEPT !.levels = m]
      OBVIOUS
    <2>8. /\ c \in Section /\ c.levels = m /\ c.table = conf[p].table /\ c.module = None
          /\ c.isf = conf[p].isf /\ c.offset = conf[p].offset
      BY <1>2, <2>2, <2>6, <2>7 DEF Section
    <2>9. conf' = [conf EXCEPT ![p] = c] /\ conf'[p] = c /\ mixed' = MixedBy(p, d, u)
      BY <1>2, <1>3, <1>6, <1>9, <2>5, <2>7
    <2>10. \A i \in DOMAIN m : m[i].name \in 0 .. Len(layers)
      <3> SUFFICES ASSUME NEW i \in DOMAIN m PROVE m[i].name \in 0 .. Len(layers)
        OBVIOUS
      <3>1. \A j \in DOMAIN into : into[j].name \in 0 .. Len(layers)
        BY <1>2, <1>3 DEF SectionTyped
      <3>2. None \in 0 .. Len(layers)
        BY <1>2 DEF None
      <3> QED BY <2>4, <2>6, <3>1, <3>2
    <2>11. mixed \subseteq mixed' /\ (p \notin mixed' => p \notin mixed /\ (into = <<>> \/ Kinds(Branch(p, d)) = Kinds(u)))
      BY <1>3, <2>9 DEF MixedBy
    <2>12. Last(m) = m[Len(m)] /\ Len(m) \in DOMAIN m
      BY <2>6, TopOf
    <2>13. ASSUME p \notin mixed' PROVE Last(m).kind \in Accepts[p] /\ \A i \in DOMAIN m : LevelFits(m[i])
      <3>1. OfOneKind(p) /\ (into = <<>> \/ Kinds(Branch(p, d)) = Kinds(u))
        BY <1>2, <2>11, <2>13
      <3>2. CASE into = <<>>
        BY <1>5, <2>3, <2>4, <2>6, <3>2
      <3>3. CASE into # <<>>
        <4>1. Kinds(SubSeq(into, 1, Len(into) - d)) = Kinds(u)
          BY <1>3, <3>1, <3>3 DEF Branch
        <4>2. Last(into).kind \in Accepts[p] /\ \A i \in DOMAIN into : LevelFits(into[i])
          BY <1>3, <3>1, <3>3 DEF OfOneKind
        <4>3. \A i \in DOMAIN m : LevelFits(m[i])
          BY <1>5, <1>7, <2>4, <2>5, <3>3, <4>1, <4>2, MergingFits
        <4>4. Last(m).kind = Last(into).kind
          <5>1. Last(m).kind = into[Len(into)].kind
            BY <2>6, <2>12, <3>3
          <5> QED BY <5>1 DEF Last
        <4> QED BY <4>2, <4>3, <4>4
      <3> QED BY <3>2, <3>3
    <2>14. /\ \A i \in DOMAIN c.levels : c.levels[i].name \in 0 .. Len(layers)
           /\ c.levels # <<>>
           /\ conf[p].levels # <<>> =>
                /\ Len(c.levels) = Len(conf[p].levels)
                /\ \A i \in DOMAIN conf[p].levels : c.levels[i].kind = conf[p].levels[i].kind
      BY <1>3, <2>6, <2>8, <2>10
    <2>15. p \notin mixed' =>
             Last(c.levels).kind \in Accepts[p] /\ \A i \in DOMAIN c.levels : LevelFits(c.levels[i])
      BY <2>8, <2>13
    <2>16. mixed \subseteq mixed'
      BY <2>11
    <2>17. Grows /\ ChangesOnly(p) /\ SectionInv(p)'
      BY <1>1, <1>2, <2>2, <2>8, <2>9, <2>14, <2>15, <2>16, MergedKept
    <2>18. d \in 0 .. Len(m) - 1
      <3>1. Len(m) \in Nat /\ Len(m) >= 1
        BY <2>6, TopOf
      <3>2. d < Len(m)
        BY <1>5, <1>7, <2>6, <3>1
      <3> QED BY <1>5, <3>1, <3>2
    <2>19. into # <<>> => LayerName(c) = LayerName(conf[p])
      <3> SUFFICES ASSUME into # <<>> PROVE Last(m).name = Last(into).name
        BY <1>3, <2>6, <2>8 DEF LayerName
      <3>1. Last(into) = into[Len(into)] /\ Len(into) \in DOMAIN into
        BY <1>7, TopOf
      <3>2. Last(m).name \in {None, Last(into).name} /\ (Last(into).name # None => Last(m).name = Last(into).name)
        BY <2>4, <2>6, <2>12, <3>1
      <3> QED BY <3>2
    <2>20. into = <<>> => Last(m).kind \in Accepts[p]
      BY <1>5, <2>3, <2>4, <2>6
    <2> QED BY <1>3, <1>6, <2>8, <2>9, <2>14, <2>17, <2>18, <2>19, <2>20
  <1> QED BY <1>8, <1>9

-----------------------------------------------------------------------------
(* Where a run is *)

\* The steps that go on with a run, one after the other.
LEMMA GoesOn ==
  ASSUME RunInv, ~At("idle"), NEW step, Go(step), step # "scan",
         step \in {"layer", "table", "module"} => run.step \in {"layer", "table"},
         step = "remember" => run.step = "module" /\ run.magic = "stacked",
         Constructing => cached' = cached /\ depth' = depth,
         constructed' = constructed,
         \A q \in Plugins : conf[q].module # None => conf'[q].module # None,
         conf[run.plugin].levels # <<>> => Len(conf'[run.plugin].levels) = Len(conf[run.plugin].levels)
  PROVE  RunInv'
  <1>1. PICK p, from, magic : p = run.plugin /\ from = run.step /\ magic = run.magic
    OBVIOUS
  <1>2. /\ run = [plugin |-> p, step |-> from, magic |-> magic] /\ from # "idle" /\ p \in Plugins
        /\ magic \in {"first", "stacked"}
    BY <1>1 DEF RunInv, At
  <1>3. run' = [plugin |-> p, step |-> step, magic |-> magic]
    BY <1>2 DEF Go
  <1>4. run'.plugin = p /\ run'.step = step /\ run'.magic = magic
    BY <1>3
  <1>5. Constructing' => Constructing /\ step # "idle"
    BY <1>1, <1>4 DEF Constructing
  <1>6. Constructing' => depth' \in 0 .. Len(conf'[p].levels) - 1 /\ cached' = <<>>
    <2> SUFFICES ASSUME Constructing PROVE depth' \in 0 .. Len(conf'[p].levels) - 1 /\ cached' = <<>>
      BY <1>5
    <2>1. depth \in 0 .. Len(conf[p].levels) - 1 /\ cached = <<>>
      BY <1>1 DEF RunInv
    <2>2. conf[p].levels # <<>>
      BY <2>1, EmptySeq
    <2> QED BY <1>1, <2>1, <2>2
  <1>7. \A q \in constructed' : q \in Plugins /\ (q \in ModulePlugins => conf'[q].module # None)
    BY DEF RunInv
  <1>8. step = "remember" => magic = "stacked"
    BY <1>1
  <1> QED BY <1>2, <1>3, <1>4, <1>6, <1>7, <1>8 DEF RunInv

\* A step that changes the section of the plugin that is run, and nothing else of Sections.
LEMMA PieceGoesOn ==
  ASSUME PieceInv, ~At("idle"), NEW p, p = run.plugin,
         Grows, ChangesOnly(p), SectionInv(p)', UNCHANGED <<cached, depth, constructed>>,
         NEW step, Go(step), step # "scan",
         step \in {"layer", "table", "module"} => run.step \in {"layer", "table"},
         step = "remember" => run.step = "module" /\ run.magic = "stacked"
  PROVE  PieceInv'
  <1>1. p \in Plugins /\ ContextTyped /\ Sections /\ CacheInv /\ RunInv
    BY RunsSection DEF PieceInv
  <1>2. Sections' /\ CacheInv' /\ \A q \in Plugins : conf[q].module # None => conf'[q].module # None
    BY <1>1, SectionsStay
  <1>3. conf[p].levels # <<>> => Len(conf'[p].levels) = Len(conf[p].levels)
    BY DEF ChangesOnly
  <1>4. RunInv'
    BY <1>1, <1>2, <1>3, GoesOn
  <1> QED BY <1>2, <1>4 DEF PieceInv, Grows

\* A step that only goes on keeps the invariant.
LEMMA PieceUnchanged ==
  ASSUME PieceInv, ~At("idle"), UNCHANGED <<layers, tables, modules, conf, mixed, cached, depth, constructed>>,
         NEW step, Go(step), step # "scan",
         step \in {"layer", "table", "module"} => run.step \in {"layer", "table"},
         step = "remember" => run.step = "module" /\ run.magic = "stacked"
  PROVE  PieceInv'
  <1>1. ContextTyped' /\ Sections' /\ CacheInv'
    BY NothingChanges DEF PieceInv
  <1>2. RunInv
    BY DEF PieceInv
  <1>3. RunInv'
    BY <1>2, GoesOn
  <1> QED BY <1>1, <1>3 DEF PieceInv

\* Every step of a run keeps the invariant.
LEMMA PieceKept ==
  ASSUME PieceInv, StackInv, Step
  PROVE  PieceInv'
  <1>1. PICK p : p = run.plugin
    OBVIOUS
  <1>2. CASE SkipLayer \/ BuildLayerFails \/ SkipTable \/ BuildTableFails
    <2>1. ~At("idle") /\ UNCHANGED <<layers, tables, modules, conf, mixed, cached, depth, constructed>>
      BY <1>2 DEF SkipLayer, BuildLayerFails, SkipTable, BuildTableFails, At, context, search, history
    <2>2. run.step \in {"layer", "table"} /\ (Go("table") \/ Go("module"))
      BY <1>2 DEF SkipLayer, BuildLayerFails, SkipTable, BuildTableFails, At
    <2> QED BY <2>1, <2>2, PieceUnchanged
  <1>3. CASE BuildLayer
    <2>1. ~At("idle") /\ UNCHANGED <<cached, depth, constructed>> /\ run.step = "layer" /\ (Go("table") \/ Go("layer"))
      BY <1>3 DEF BuildLayer, At, search, history
    <2>2. Grows /\ ChangesOnly(p) /\ SectionInv(p)'
      BY <1>1, <1>3, BuildLayerPiece
    <2> QED BY <1>1, <2>1, <2>2, PieceGoesOn
  <1>4. CASE BuildTable
    <2>1. ~At("idle") /\ UNCHANGED <<cached, depth, constructed>> /\ run.step = "table" /\ Go("module")
      BY <1>4 DEF BuildTable, At, search, history
    <2>2. Grows /\ ChangesOnly(p) /\ SectionInv(p)'
      BY <1>1, <1>4, BuildTablePiece
    <2> QED BY <1>1, <2>1, <2>2, PieceGoesOn
  <1>5. CASE SkipModule \/ BuildModule
    <2>1. ~At("idle") /\ UNCHANGED <<cached, depth, constructed>> /\ run.step = "module"
      BY <1>5 DEF SkipModule, BuildModule, At, search, history
    <2>2. run.magic \in {"first", "stacked"}
      BY <2>1 DEF PieceInv, RunInv, At
    <2>3. Go("stack") \/ (Go("remember") /\ run.magic = "stacked")
      BY <1>5, <2>2 DEF SkipModule, BuildModule, AfterConstruction
    <2>4. CASE SkipModule
      <3>1. UNCHANGED <<layers, tables, modules, conf, mixed>>
        BY <2>4 DEF SkipModule, context, history
      <3> QED BY <2>1, <2>3, <3>1, PieceUnchanged
    <2>5. CASE BuildModule
      <3>1. Grows /\ ChangesOnly(p) /\ SectionInv(p)'
        BY <1>1, <2>5, BuildModulePiece
      <3> QED BY <1>1, <2>1, <2>3, <3>1, PieceGoesOn
    <2> QED BY <1>5, <2>4, <2>5
  <1>6. CASE NotNeeded \/ NothingSuits \/ NoBanner \/ NoKernelModule
    <2>1. ~At("idle") /\ UNCHANGED <<layers, tables, modules, conf, mixed, cached, depth, constructed>>
      BY <1>6 DEF NotNeeded, NothingSuits, NoBanner, NoKernelModule, At, context, search, history
    <2>2. Go("symbols") \/ Go("kernel") \/ Go("check")
      BY <1>6 DEF NotNeeded, NothingSuits, NoBanner, NoKernelModule
    <2> QED BY <2>1, <2>2, PieceUnchanged
  <1>7. CASE UseCached
    <2>1. ~At("idle") /\ UNCHANGED <<cached, depth, constructed>> /\ Go("symbols")
      BY <1>7 DEF UseCached, At, search
    <2>2. Grows /\ ChangesOnly(p) /\ SectionInv(p)'
      BY <1>1, <1>7, UseCachedPiece
    <2> QED BY <1>1, <2>1, <2>2, PieceGoesOn
  <1>8. CASE BeginStacking
    <2>1. /\ ~At("idle") /\ UNCHANGED <<layers, tables, modules, conf, mixed, constructed>>
          /\ cached' = <<>> /\ Go("scan") /\ run.step = "stack"
      BY <1>8 DEF BeginStacking, At, context, history
    <2>2. ContextTyped' /\ Sections'
      BY <2>1, NothingChanges DEF PieceInv
    <2>3. CacheInv'
      BY <2>1 DEF CacheInv
    <2>4. run = [plugin |-> p, step |-> run.step, magic |-> run.magic] /\ p \in Plugins /\ run.magic \in {"first", "stacked"}
      BY <1>1, <2>1 DEF PieceInv, RunInv
    <2>5. run'.plugin = p /\ run'.step = "scan" /\ run'.magic = run.magic
          /\ run' = [plugin |-> p, step |-> "scan", magic |-> run.magic]
      BY <2>1, <2>4 DEF Go
    <2>6. \A q \in constructed' : q \in Plugins /\ (q \in ModulePlugins => conf'[q].module # None)
      BY <2>1 DEF PieceInv, RunInv
    <2>7. RunInv'
      BY <2>1, <2>4, <2>5, <2>6 DEF RunInv, Constructing
    <2> QED BY <2>2, <2>3, <2>7 DEF PieceInv
  <1>9. CASE TryStacker
    <2>1. UNCHANGED <<layers, tables, modules, conf, mixed, cached, depth, run, constructed>>
      BY <1>9 DEF TryStacker, context, search, history
    <2>2. ContextTyped' /\ Sections' /\ CacheInv'
      BY <2>1, NothingChanges DEF PieceInv
    <2>3. RunInv'
      BY <2>1 DEF PieceInv, RunInv, Constructing
    <2> QED BY <2>2, <2>3 DEF PieceInv
  <1>10. CASE ApplyStack
    <2>1. /\ ~At("idle") /\ run.step = "scan" /\ UNCHANGED <<cached, constructed>>
          /\ run' = [run EXCEPT !.step = "layer", !.magic = "stacked"]
      BY <1>10 DEF ApplyStack, At
    <2>2. Grows /\ ChangesOnly(p) /\ SectionInv(p)' /\ depth' \in 0 .. Len(conf'[p].levels) - 1
      BY <1>1, <1>10, ApplyStackPiece
    <2>3. p \in Plugins /\ ContextTyped /\ Sections /\ CacheInv /\ RunInv
      BY <1>1, <2>1, RunsSection DEF PieceInv
    <2>4. Sections' /\ CacheInv' /\ \A q \in Plugins : conf[q].module # None => conf'[q].module # None
      BY <2>1, <2>2, <2>3, SectionsStay
    <2>5. run = [plugin |-> p, step |-> run.step, magic |-> run.magic]
      BY <1>1, <2>3 DEF RunInv
    <2>6. run'.plugin = p /\ run'.step = "layer" /\ run'.magic = "stacked"
          /\ run' = [plugin |-> p, step |-> "layer", magic |-> "stacked"]
      <3>1. PICK from, magic, r : from = run.step /\ magic = run.magic /\ r = run
        OBVIOUS
      <3>2. r = [plugin |-> p, step |-> from, magic |-> magic] /\ run' = [r EXCEPT !.step = "layer", !.magic = "stacked"]
        BY <2>1, <2>5, <3>1
      <3>3. run' = [plugin |-> p, step |-> "layer", magic |-> "stacked"]
        BY <3>2
      <3> QED BY <3>3
    <2>7. \A q \in constructed' : q \in Plugins /\ (q \in ModulePlugins => conf'[q].module # None)
      BY <2>1, <2>3, <2>4 DEF RunInv
    <2>8. cached' = <<>>
      BY <2>1, <2>3 DEF RunInv
    <2>9. RunInv'
      BY <2>2, <2>3, <2>6, <2>7, <2>8 DEF RunInv, Constructing
    <2> QED BY <2>2, <2>4, <2>9 DEF PieceInv, Grows
  <1>11. CASE Remember
    <2>1. /\ ~At("idle") /\ run.step = "remember" /\ UNCHANGED <<layers, tables, modules, conf, mixed, constructed>>
          /\ cached' = Remembered(p) /\ Go("symbols")
      BY <1>1, <1>11 DEF Remember, At, context, history
    <2>2. ContextTyped' /\ Sections'
      BY <2>1, NothingChanges DEF PieceInv
    <2>3. p \in Plugins /\ RunInv /\ SectionTyped(p) /\ (p \in mixed \/ OfOneKind(p))
      BY <1>1, <2>1, RunsSection DEF PieceInv
    <2>4. depth \in 0 .. Len(conf[p].levels) - 1
      BY <1>1, <2>1, <2>3 DEF RunInv, Constructing
    <2>5. CacheInv'
      <3>1. PICK levels, n, d, name : levels = conf[p].levels /\ n = Len(levels) - d /\ d = depth /\ name = levels[n].name
        OBVIOUS
      <3>2. levels \in Seq(Level) /\ levels # <<>>
        BY <2>3, <2>4, <3>1, EmptySeq DEF SectionTyped, Section
      <3>3. n \in DOMAIN levels
        BY <2>4, <3>1, <3>2, LenProperties
      <3>4. name \in 0 .. Len(layers)
        BY <2>3, <3>1, <3>3 DEF SectionTyped
      <3>5. p \in mixed \/ LevelFits(levels[n])
        BY <2>3, <3>1, <3>2, <3>3 DEF OfOneKind
      <3>6. p \in mixed \/ name = None \/ layers[name].kind = levels[n].kind
        BY <3>1, <3>5 DEF LevelFits
      <3>7. cached' = [top |-> name, from |-> p, depth |-> d] /\ d \in 0 .. Len(conf[p].levels) - 1
        BY <2>1, <2>4, <3>1 DEF Remembered
      <3>8. cached'.top = name /\ cached'.from = p /\ cached'.depth = d /\ cached' # <<>>
        BY <3>7
      <3>9. LevelAt(p, d)' = levels[n]
        BY <2>1, <3>1 DEF LevelAt
      <3> QED BY <2>1, <2>3, <3>4, <3>6, <3>7, <3>8, <3>9 DEF CacheInv, LevelAt
    <2>6. run = [plugin |-> p, step |-> run.step, magic |-> run.magic] /\ run.magic \in {"first", "stacked"}
      BY <1>1, <2>1, <2>3 DEF RunInv
    <2>7. run'.plugin = p /\ run'.step = "symbols" /\ run'.magic = run.magic
          /\ run' = [plugin |-> p, step |-> "symbols", magic |-> run.magic]
      BY <2>1, <2>6 DEF Go
    <2>8. \A q \in constructed' : q \in Plugins /\ (q \in ModulePlugins => conf'[q].module # None)
      BY <2>1, <2>3 DEF RunInv
    <2>9. RunInv'
      BY <2>1, <2>3, <2>6, <2>7, <2>8 DEF RunInv, Constructing
    <2> QED BY <2>2, <2>5, <2>9 DEF PieceInv
  <1>12. CASE FindSymbols \/ FindSymbolsFails
    <2>1. ~At("idle") /\ UNCHANGED <<cached, depth, constructed>> /\ Go("kernel")
      BY <1>12 DEF FindSymbols, FindSymbolsFails, At, search, history
    <2>2. Grows /\ ChangesOnly(p) /\ SectionInv(p)'
      BY <1>1, <1>12, FindSymbolsPiece
    <2> QED BY <1>1, <2>1, <2>2, PieceGoesOn
  <1>13. CASE KernelModule
    <2>1. ~At("idle") /\ UNCHANGED <<cached, depth, constructed>> /\ Go("check")
      BY <1>13 DEF KernelModule, At, search, history
    <2>2. Grows /\ ChangesOnly(p) /\ SectionInv(p)'
      BY <1>1, <1>13, KernelModulePiece
    <2> QED BY <1>1, <2>1, <2>2, PieceGoesOn
  <1>14. CASE Check
    <2>1. /\ ~At("idle") /\ UNCHANGED <<layers, tables, modules, conf, mixed, cached>> /\ Go("idle")
          /\ constructed' = constructed \/ (constructed' = constructed \cup {p} /\ Satisfied(p))
      BY <1>1, <1>14 DEF Check, At, context
    <2>2. ContextTyped' /\ Sections' /\ CacheInv'
      BY <2>1, NothingChanges DEF PieceInv
    <2>3. p \in Plugins /\ RunInv
      BY <1>1, <2>1, RunsSection DEF PieceInv
    <2>4. run = [plugin |-> p, step |-> run.step, magic |-> run.magic]
      BY <1>1, <2>3 DEF RunInv
    <2>5. run'.plugin = p /\ run'.step = "idle" /\ run'.magic = run.magic
          /\ run' = [plugin |-> p, step |-> "idle", magic |-> run.magic]
      BY <2>1, <2>4 DEF Go
    <2>6. \A q \in constructed' : q \in Plugins /\ (q \in ModulePlugins => conf'[q].module # None)
      BY <2>1, <2>3 DEF RunInv, Satisfied
    <2>7. RunInv'
      BY <2>5, <2>6 DEF RunInv, Constructing
    <2> QED BY <2>2, <2>7 DEF PieceInv
  <1> QED BY <1>2, <1>3, <1>4, <1>5, <1>6, <1>7, <1>8, <1>9, <1>10, <1>11, <1>12, <1>13, <1>14 DEF Step

\* What users may have configured is as a section should be.
LEMMA ConfiguredSection ==
  ASSUME NEW p \in Plugins, NEW section \in Provided[p]
  PROVE  /\ section \in Section /\ section.module = None /\ section.table = None
         /\ \A i \in DOMAIN section.levels : section.levels[i].name = None /\ LevelFits(section.levels[i])
         /\ section.levels = <<>> => section.isf = Unknown /\ section.offset = Unknown
         /\ section.levels # <<>> =>
              Last(section.levels).kind \in Accepts[p] /\ RightFor(section, Last(section.levels).kind)
  <1>1. Configurable(p, section)
    BY ProvidedAssumption
  <1>2. PICK levels, i, f, class : levels = section.levels /\ i = section.isf /\ f = section.offset /\ class = section.class
    OBVIOUS
  <1>3. /\ section = [levels |-> levels, isf |-> i, offset |-> f, class |-> class, table |-> None, module |-> None]
        /\ levels \in Seq(Range(levels)) /\ class \in BOOLEAN
        /\ \A j \in DOMAIN levels :
             \E o \in {levels[j].kind, Unknown} : levels[j] = [kind |-> levels[j].kind, name |-> None, kernelOffset |-> o]
        /\ levels # <<>> => Last(levels).kind \in Accepts[p]
        /\ i # Unknown => levels # <<>> /\ i = Last(levels).kind
        /\ f # Unknown => levels # <<>> /\ f = Last(levels).kind
    BY <1>1, <1>2 DEF Configurable
  <1>4. \A j \in DOMAIN levels : levels[j].kind \in AllKinds
    <2> SUFFICES ASSUME NEW j \in DOMAIN levels PROVE levels[j].kind \in ConfiguredKinds
      BY DEF AllKinds
    <2>1. levels[j] \in Range(section.levels)
      BY <1>2 DEF Range
    <2>2. section \in UNION {Provided[q] : q \in Plugins}
      OBVIOUS
    <2> QED BY <2>1, <2>2 DEF ConfiguredKinds
  <1>5. \A j \in DOMAIN levels : levels[j] \in Level /\ levels[j].name = None /\ LevelFits(levels[j])
    <2> SUFFICES ASSUME NEW j \in DOMAIN levels
                 PROVE  levels[j] \in Level /\ levels[j].name = None /\ LevelFits(levels[j])
      OBVIOUS
    <2>1. PICK k, x : k = levels[j].kind /\ x = levels[j]
      OBVIOUS
    <2>2. PICK o \in {k, Unknown} : x = [kind |-> k, name |-> None, kernelOffset |-> o]
      BY <1>3, <2>1
    <2>3. k \in AllKinds
      BY <1>4, <2>1
    <2>4. x \in Level
      BY <2>2, <2>3 DEF Level, None, Value
    <2>5. x.name = None /\ LevelFits(x)
      BY <2>2 DEF LevelFits
    <2> QED BY <2>1, <2>4, <2>5
  <1>6. levels \in Seq(Level) /\ DOMAIN levels = 1 .. Len(levels) /\ Len(levels) \in Nat
    <2>1. PICK R : R = Range(levels)
      OBVIOUS
    <2>2. levels \in Seq(R)
      BY <1>3, <2>1
    <2>3. DOMAIN levels = 1 .. Len(levels) /\ Len(levels) \in Nat /\ levels \in [1 .. Len(levels) -> R]
      BY <2>2, LenProperties
    <2>4. levels \in [1 .. Len(levels) -> Level]
      BY <1>5, <2>3
    <2>5. levels \in Seq(Level)
      BY <2>3, <2>4, Tabulated
    <2> QED BY <2>3, <2>5
  <1>7. levels # <<>> => Last(levels) \in Level /\ Last(levels).kind \in AllKinds
    <2>1. levels # <<>> => Last(levels) \in Level
      BY <1>6, TopOf
    <2> QED BY <2>1 DEF Level
  <1>8. i \in Value /\ f \in Value
    BY <1>3, <1>7 DEF Value
  <1>9. section \in Section
    BY <1>3, <1>6, <1>8 DEF Section, None
  <1> QED BY <1>2, <1>3, <1>5, <1>9 DEF RightFor

\* At first the sections are what users have configured, and the context is empty.
LEMMA PieceAtFirst ==
  ASSUME Init
  PROVE  PieceInv
  <1>1. /\ layers = <<>> /\ tables = <<>> /\ modules = <<>> /\ cached = <<>> /\ constructed = {}
        /\ run = [plugin |-> CHOOSE p \in Plugins : TRUE, step |-> "idle", magic |-> "none"]
    BY DEF Init
  <1>2. PICK all : all = UNION {Provided[p] : p \in Plugins}
    OBVIOUS
  <1>3. conf \in [Plugins -> all] /\ \A p \in Plugins : conf[p] \in Provided[p]
    BY <1>2 DEF Init
  <1>4. ContextTyped
    <2>1. \A S : <<>> \in Seq(S)
      BY EmptySeq
    <2> QED BY <1>1, <2>1 DEF ContextTyped
  <1>5. ASSUME NEW p \in Plugins PROVE SectionInv(p)
    <2>1. PICK c : c = conf[p]
      OBVIOUS
    <2>2. /\ c \in Section /\ c.module = None /\ c.table = None
          /\ \A i \in DOMAIN c.levels : c.levels[i].name = None /\ LevelFits(c.levels[i])
          /\ c.levels = <<>> => c.isf = Unknown /\ c.offset = Unknown
          /\ c.levels # <<>> => Last(c.levels).kind \in Accepts[p] /\ RightFor(c, Last(c.levels).kind)
      BY <1>3, <2>1, ConfiguredSection
    <2>3. None \in 0 .. Len(layers) /\ None \in 0 .. Len(tables) /\ None \in 0 .. Len(modules)
      BY <1>1, EmptySeq DEF None
    <2>4. SectionTyped(p)
      BY <2>1, <2>2, <2>3 DEF SectionTyped
    <2>5. ModuleMade(p)
      BY <2>1, <2>2 DEF ModuleMade
    <2>6. c.levels # <<>> => LevelFits(Last(c.levels))
      <3> SUFFICES ASSUME c.levels # <<>> PROVE LevelFits(Last(c.levels))
        OBVIOUS
      <3>1. c.levels \in Seq(Level)
        BY <2>2 DEF Section
      <3>2. Last(c.levels) = c.levels[Len(c.levels)] /\ Len(c.levels) \in DOMAIN c.levels
        BY <3>1, TopOf
      <3> QED BY <2>2, <3>2
    <2>7. OfOneKind(p)
      BY <2>1, <2>2, <2>6 DEF OfOneKind, RightFor
    <2> QED BY <2>4, <2>5, <2>7 DEF SectionInv
  <1>6. Sections
    BY <1>3, <1>5 DEF Sections
  <1>7. CacheInv
    BY <1>1 DEF CacheInv
  <1>8. RunInv
    BY <1>1 DEF RunInv, Constructing
  <1> QED BY <1>4, <1>6, <1>7, <1>8 DEF PieceInv

\* Start begins a run, and leaves what the last one has left.
LEMMA PieceStarts ==
  ASSUME PieceInv, NEW p \in Plugins, Start(p)
  PROVE  PieceInv'
  <1>1. /\ UNCHANGED <<layers, tables, modules, conf, mixed, cached, constructed>>
        /\ run' = [plugin |-> p, step |-> "layer", magic |-> "first"]
    BY DEF Start, context
  <1>2. ContextTyped' /\ Sections' /\ CacheInv'
    BY <1>1, NothingChanges DEF PieceInv
  <1>3. \A q \in constructed' : q \in Plugins /\ (q \in ModulePlugins => conf'[q].module # None)
    BY <1>1 DEF PieceInv, RunInv
  <1>4. RunInv'
    BY <1>1, <1>3 DEF RunInv, Constructing
  <1> QED BY <1>2, <1>4 DEF PieceInv

\* What a section says of its layer is right for that layer, in any run and whatever fails.
THEOREM PiecesFit == Spec => []PieceInv
  <1>1. Init => PieceInv
    BY PieceAtFirst
  <1>2. PieceInv /\ StackInv /\ [Next]_vars => PieceInv'
    <2> SUFFICES ASSUME PieceInv, StackInv, [Next]_vars PROVE PieceInv'
      OBVIOUS
    <2>1. CASE Step
      BY <2>1, PieceKept
    <2>2. ASSUME NEW p \in Plugins, Start(p) PROVE PieceInv'
      BY <2>2, PieceStarts
    <2>3. CASE UNCHANGED vars
      <3>1. UNCHANGED <<layers, tables, modules, conf, mixed, cached, depth, run, constructed>>
        BY <2>3 DEF vars, context, search, history
      <3>2. ContextTyped' /\ Sections' /\ CacheInv'
        BY <3>1, NothingChanges DEF PieceInv
      <3>3. RunInv'
        BY <3>1 DEF PieceInv, RunInv, Constructing
      <3> QED BY <3>2, <3>3 DEF PieceInv
    <2> QED BY <2>1, <2>2, <2>3 DEF Next
  <1> QED BY <1>1, <1>2, StackingInductive, PTL DEF Spec

\* The kernel module of a plugin that was constructed, and whose section was not mixed with that of
\* another layer, is made of one layer that suits, and of the symbols and the offset found for it.
THEOREM ModulesAreOfOnePiece == Spec => []ModuleOfOnePiece
  <1>1. PieceInv => ModuleOfOnePiece
    <2> SUFFICES ASSUME PieceInv, NEW p \in (constructed \cap ModulePlugins) \ mixed
                 PROVE  LET module == modules[conf[p].module]
                            kind == layers[module.layer].kind
                        IN /\ kind \in Accepts[p] /\ module.layer = LayerName(conf[p])
                           /\ tables[module.table].kind = kind /\ module.offset = kind
      BY DEF ModuleOfOnePiece
    <2>1. p \in Plugins /\ conf[p].module # None
      BY DEF PieceInv, RunInv
    <2>2. ModuleMade(p) /\ OfOneKind(p)
      BY <2>1 DEF PieceInv, Sections, SectionInv
    <2>3. PICK c, name, module : c = conf[p] /\ name = LayerName(conf[p]) /\ module = modules[conf[p].module]
      OBVIOUS
    <2>4. /\ name # None /\ layers[name].kind \in Accepts[p] /\ c.table # None /\ c.offset # Unknown
          /\ module = [layer |-> name, table |-> c.table, offset |-> c.offset]
      BY <2>1, <2>2, <2>3 DEF ModuleMade, LayerSatisfied, Suits, TableSatisfied
    <2>5. c.levels # <<>> /\ Last(c.levels).name = name
      BY <2>3, <2>4 DEF LayerName
    <2>6. /\ layers[name].kind = Last(c.levels).kind /\ c.offset = Last(c.levels).kind
          /\ tables[c.table].kind = Last(c.levels).kind
      BY <2>2, <2>3, <2>4, <2>5 DEF OfOneKind, LevelFits
    <2>7. module.layer = name /\ module.table = c.table /\ module.offset = c.offset
      BY <2>4
    <2> QED BY <2>3, <2>4, <2>6, <2>7
  <1> QED BY <1>1, PiecesFit, PTL

\* The layer a section names is as it was.
LEMMA SuitsStay ==
  ASSUME ContextTyped, Grows, NEW n \in 0 .. Len(layers), NEW r
  PROVE  Suits(r, n)' <=> Suits(r, n)
  <1>1. n # None => layers'[n] = layers[n]
    <2>1. Len(layers) \in Nat
      BY LenProperties DEF ContextTyped
    <2>2. n # None => n \in 1 .. Len(layers)
      BY <2>1 DEF None
    <2> QED BY <2>2 DEF Grows, Extends
  <1> QED BY <1>1 DEF Suits

\* A section that was not mixed with another is satisfied if its layer has been made.
LEMMA MadeIsRight ==
  ASSUME NEW p, OfOneKind(p), LayerName(conf[p]) # None
  PROVE  LayerSatisfied(p)
  <1>1. conf[p].levels # <<>>
    BY DEF LayerName
  <1>2. Last(conf[p].levels).kind \in Accepts[p] /\ layers[LayerName(conf[p])].kind = Last(conf[p].levels).kind
    BY <1>1 DEF OfOneKind, LevelFits, LayerName
  <1> QED BY <1>2 DEF LayerSatisfied, Suits

\* A plugin that is satisfied has a layer that suits.
LEMMA SatisfiedHasLayer ==
  ASSUME NEW p, ModuleMade(p), Satisfied(p)
  PROVE  LayerSatisfied(p)
  BY DEF ModuleMade, Satisfied

\* The steps that leave every section's layers, and what LayerStacker remembers, as they are.
Steady ==
  \/ SkipLayer \/ SkipTable \/ BuildTable \/ SkipModule \/ BuildModule \/ NotNeeded \/ TryStacker
  \/ NothingSuits \/ NoBanner \/ FindSymbols \/ KernelModule \/ NoKernelModule \/ Check

\* They change nothing of what the layers depend on.
LEMMA SteadyStep ==
  ASSUME PieceInv, Steady
  PROVE  /\ Grows /\ \A q \in Plugins : conf'[q].levels = conf[q].levels
         /\ UNCHANGED <<layers, cached, configured, search, failed, mixed>>
  <1>1. UNCHANGED <<layers, cached, configured, search, failed, mixed>>
    BY DEF Steady, SkipLayer, SkipTable, BuildTable, SkipModule, BuildModule, NotNeeded, TryStacker,
       NothingSuits, NoBanner, FindSymbols, KernelModule, NoKernelModule, Check, context, given, history
  <1>2. ContextTyped /\ Sections
    BY DEF PieceInv
  <1>3. conf = [q \in Plugins |-> conf[q]]
    BY <1>2 DEF Sections
  <1>4. CASE SkipLayer \/ SkipTable \/ SkipModule \/ NotNeeded \/ TryStacker \/ NothingSuits \/ NoBanner
             \/ NoKernelModule \/ Check
    <2>1. UNCHANGED <<layers, tables, modules, conf, mixed>>
      BY <1>4 DEF SkipLayer, SkipTable, SkipModule, NotNeeded, TryStacker, NothingSuits, NoBanner,
         NoKernelModule, Check, context, history
    <2>2. Grows
      BY <1>2, <2>1, NothingChanges
    <2> QED BY <1>1, <2>1, <2>2
  <1>5. CASE BuildTable \/ BuildModule \/ FindSymbols \/ KernelModule
    <2>1. PICK p : p = run.plugin
      OBVIOUS
    <2>2. Grows /\ ChangesOnly(p)
      BY <1>5, <2>1, BuildTablePiece, BuildModulePiece, FindSymbolsPiece, KernelModulePiece
    <2>3. ~At("idle")
      BY <1>5 DEF BuildTable, BuildModule, FindSymbols, KernelModule, At
    <2>4. p \in Plugins /\ conf[p] \in Section
      BY <2>1, <2>3, RunsSection
    <2>5. \A q \in Plugins \ {p} : conf'[q] = conf[q]
      BY <2>2 DEF ChangesOnly
    <2>6. PICK c : c = conf[p]
      OBVIOUS
    <2>7. conf'[p].levels = conf[p].levels
      <3>1. CASE BuildTable
        BY <1>3, <2>1, <2>4, <3>1 DEF BuildTable, Section
      <3>2. CASE BuildModule
        BY <1>3, <2>1, <2>4, <3>2 DEF BuildModule, AddModule, Section
      <3>3. CASE FindSymbols
        BY <1>3, <2>1, <2>4, <3>3 DEF FindSymbols, FoundIsf, Section
      <3>4. CASE KernelModule
        <4>1. PICK section : section = [conf[p] EXCEPT !.class = TRUE]
          OBVIOUS
        <4>2. section.levels = conf[p].levels /\ section \in Section
          BY <2>4, <4>1 DEF Section
        <4>3. PICK m, o : m = Len(modules) + 1 /\ o = KernelOffset(p)
          OBVIOUS
        <4>4. conf' = [conf EXCEPT ![p] = [[section EXCEPT !.offset = o] EXCEPT !.module = m]]
                \/ conf' = [conf EXCEPT ![p] = section]
          BY <2>1, <3>4, <4>1, <4>3 DEF KernelModule, AddModule
        <4> QED BY <1>3, <2>4, <4>2, <4>4 DEF Section
      <3> QED BY <1>5, <3>1, <3>2, <3>3, <3>4
    <2> QED BY <1>1, <2>2, <2>5, <2>7
  <1> QED BY <1>4, <1>5 DEF Steady

\* A step is one of the plugin that is run, and no plugin is forgotten that was run.
LEMMA StepsPlugin ==
  ASSUME PieceInv, Step, NEW p, p = run.plugin
  PROVE  /\ ~At("idle") /\ p \in Plugins /\ run'.plugin = p /\ UNCHANGED configured
         /\ HasRun \subseteq HasRun' /\ p \in HasRun
  <1>1. ~At("idle") /\ UNCHANGED configured
    BY DEF Step, SkipLayer, BuildLayer, BuildLayerFails, SkipTable, BuildTable, BuildTableFails, SkipModule,
       BuildModule, NotNeeded, UseCached, BeginStacking, TryStacker, NothingSuits, ApplyStack, Remember,
       NoBanner, FindSymbols, FindSymbolsFails, KernelModule, NoKernelModule, Check, At, given
  <1>2. p \in Plugins /\ run = [plugin |-> p, step |-> run.step, magic |-> run.magic] /\ run.step # "idle"
    BY <1>1 DEF PieceInv, RunInv, At
  <1>3. \/ Check
        \/ UNCHANGED <<constructed, unmet, run>>
        \/ UNCHANGED <<constructed, unmet>> /\ \E step : Go(step) /\ step # "idle"
        \/ UNCHANGED <<constructed, unmet>> /\ run' = [run EXCEPT !.step = "layer", !.magic = "stacked"]
    <2>1. CASE SkipLayer \/ BuildLayer \/ BuildLayerFails \/ SkipTable \/ BuildTable \/ BuildTableFails
      BY <2>1 DEF SkipLayer, BuildLayer, BuildLayerFails, SkipTable, BuildTable, BuildTableFails, history
    <2>2. CASE SkipModule \/ BuildModule \/ NotNeeded \/ UseCached \/ BeginStacking
      BY <2>2 DEF SkipModule, BuildModule, NotNeeded, UseCached, BeginStacking, AfterConstruction, history
    <2>3. CASE TryStacker \/ NothingSuits \/ ApplyStack \/ Remember
      BY <2>3 DEF TryStacker, NothingSuits, ApplyStack, Remember, history
    <2>4. CASE NoBanner \/ FindSymbols \/ FindSymbolsFails \/ KernelModule \/ NoKernelModule
      BY <2>4 DEF NoBanner, FindSymbols, FindSymbolsFails, KernelModule, NoKernelModule, history
    <2> QED BY <2>1, <2>2, <2>3, <2>4 DEF Step
  <1>4. p \in HasRun
    BY <1>1, <1>2 DEF HasRun
  <1>5. CASE Check
    <2>1. Go("idle") /\ p \in constructed' \cup unmet' /\ constructed \cup unmet \subseteq constructed' \cup unmet'
      BY <1>5 DEF Check
    <2>2. run'.plugin = p
      BY <1>2, <2>1 DEF Go
    <2>3. HasRun \subseteq HasRun'
      BY <2>1 DEF HasRun
    <2> QED BY <1>1, <1>2, <1>4, <2>2, <2>3
  <1>6. CASE UNCHANGED <<constructed, unmet, run>>
    BY <1>1, <1>2, <1>4, <1>6 DEF HasRun, At
  <1>7. ASSUME UNCHANGED <<constructed, unmet>>, NEW step, Go(step), step # "idle"
        PROVE  run'.plugin = p /\ HasRun \subseteq HasRun'
    <2>1. run'.plugin = p /\ run'.step = step
      BY <1>2, <1>7 DEF Go
    <2> QED BY <1>7, <2>1 DEF HasRun, At
  <1>8. ASSUME UNCHANGED <<constructed, unmet>>, run' = [run EXCEPT !.step = "layer", !.magic = "stacked"]
        PROVE  run'.plugin = p /\ HasRun \subseteq HasRun'
    <2>1. run'.plugin = p /\ run'.step = "layer"
      BY <1>2, <1>8
    <2> QED BY <1>8, <2>1 DEF HasRun, At
  <1> QED BY <1>1, <1>2, <1>3, <1>4, <1>5, <1>6, <1>7, <1>8

-----------------------------------------------------------------------------
(* As long as nothing fails, nothing is looked for below a layer requirement *)

\* What LayerStacker remembers is for the layer requirement itself.
LEMMA CacheAtTop ==
  ASSUME PieceInv, BuiltInv, PartsInv, At("stack"), NEW p, p = run.plugin, CacheApplies(p)
  PROVE  Min(CacheSuits(p)) = 0 /\ cached # <<>>
  <1>1. SectionTyped(p)
    BY RunsSection DEF At
  <1>2. cached # <<>> /\ CacheSuits(p) # {}
    BY DEF CacheApplies
  <1>3. PICK top, d : top = cached.top /\ d = Min(CacheSuits(p))
    OBVIOUS
  <1>4. PICK fits, offered, known : fits = Suits(p, top) /\ offered = (top # None) /\ known = (parts \/ top = None)
    OBVIOUS
  <1>5. fits \in BOOLEAN /\ offered \in BOOLEAN
    BY <1>4 DEF Suits
  <1>6. CacheSuits(p) = Suitable(p, fits, offered, known)
    BY <1>3, <1>4 DEF CacheSuits
  <1>7. d # 0 => known /\ ~LayerSatisfied(p)
    BY <1>1, <1>2, <1>3, <1>5, <1>6, FirstSuitable
  <1>8. top # None
    BY <1>2, <1>3 DEF BuiltInv
  <1>9. parts => LayerSatisfied(p)
    BY DEF PartsInv, At
  <1> QED BY <1>2, <1>3, <1>4, <1>7, <1>8, <1>9

\* And so is what was stacked.
LEMMA StackAtTop ==
  ASSUME PieceInv, PartsInv, ApplyStack, NEW p, p = run.plugin
  PROVE  Min(StackSuits(p)) = 0
  <1>1. SectionTyped(p) /\ At("scan") /\ StackSuits(p) # {}
    BY RunsSection DEF ApplyStack, At
  <1>2. PICK fits, offered, known, S, d :
          /\ fits = (Highest(p, stacking.stack) # 0) /\ offered = TRUE /\ known = parts
          /\ S = StackSuits(p) /\ d = Min(S)
    OBVIOUS
  <1>3. fits \in BOOLEAN /\ offered \in BOOLEAN /\ S # {}
    BY <1>1, <1>2
  <1>4. S = Suitable(p, fits, offered, known)
    BY <1>2 DEF StackSuits
  <1>5. d # 0 => known /\ ~LayerSatisfied(p)
    <2>1. SectionTyped(p) /\ d = Min(S)
      BY <1>1, <1>2
    <2>2. d # 0 => ~LayerSatisfied(p)
      BY <1>3, <1>4, <2>1, FirstSuitable
    <2>3. d # 0 => known
      BY <1>3, <1>4, <2>1, FirstSuitable
    <2> QED BY <2>2, <2>3
  <1>6. parts => LayerSatisfied(p)
    BY <1>1 DEF PartsInv, At
  <1> QED BY <1>2, <1>5, <1>6

\* LayerStacker remembers the layer the section names.
LEMMA RememberedTop ==
  ASSUME PieceInv, TopsOnly, Remember, NEW p, p = run.plugin
  PROVE  conf[p].levels # <<>> /\ cached' = [top |-> LayerName(conf[p]), from |-> p, depth |-> 0]
  <1>1. run.step = "remember" /\ Constructing
    BY DEF Remember, At, PieceInv, RunInv, Constructing
  <1>2. depth = 0 /\ 0 \in 0 .. Len(conf[p].levels) - 1
    BY <1>1 DEF TopsOnly, PieceInv, RunInv
  <1>3. conf[p].levels # <<>>
    BY <1>2, EmptySeq
  <1>4. SectionTyped(p)
    BY <1>1, RunsSection DEF At
  <1>5. LayerName(conf[p]) = conf[p].levels[Len(conf[p].levels)].name /\ Len(conf[p].levels) \in Nat
    BY <1>3, <1>4, SectionLevels
  <1>6. conf[p].levels[Len(conf[p].levels) - depth].name = LayerName(conf[p])
    BY <1>2, <1>5
  <1> QED BY <1>2, <1>3, <1>6 DEF Remember, Remembered

\* A section whose layers do not change is as far as it was.
LEMMA TopsStay ==
  ASSUME NEW q, conf'[q].levels = conf[q].levels
  PROVE  (Built(q) => Built(q)') /\ (ToBeBuilt(q) => ToBeBuilt(q)')
  BY DEF Built, ToBeBuilt, LayerName

\* No step but one that fails leaves more to be made than the layer itself.
LEMMA TopsKept ==
  ASSUME PieceInv, TopsOnly, BuiltInv, StackInv, Step, ~failed'
  PROVE  TopsOnly'
  <1>1. PICK p : p = run.plugin
    OBVIOUS
  <1>2. ~At("idle") /\ p \in Plugins /\ run'.plugin = p
    BY <1>1, StepsPlugin
  <1>3. run = [plugin |-> p, step |-> run.step, magic |-> run.magic]
    BY <1>1, <1>2 DEF PieceInv, RunInv, At
  <1>4. \A step : Go(step) => run'.step = step /\ run'.magic = run.magic
    BY <1>3 DEF Go
  <1>5. /\ \A q \in Plugins : Built(q) \/ ToBeBuilt(q)
        /\ PartsInv /\ (Constructing => depth = 0) /\ (cached # <<>> => cached.depth = 0)
    BY DEF TopsOnly
  <1>6. SectionTyped(p) /\ ModuleMade(p)
    BY <1>1, <1>2, RunsSection
  <1>7. ASSUME UNCHANGED <<depth, cached>>, Constructing' => Constructing,
               \A q \in Plugins : Built(q)' \/ ToBeBuilt(q)',
               parts' /\ run'.step \in {"layer", "table", "module", "stack", "scan"} =>
                 LayerSatisfied(p)' \/ (run'.step = "layer" /\ ToBeBuilt(p)')
        PROVE  TopsOnly'
    <2>1. PartsInv'
      BY <1>2, <1>7 DEF PartsInv
    <2> QED BY <1>5, <1>7, <2>1 DEF TopsOnly
  <1>8. CASE Steady
    <2>1. /\ \A q \in Plugins : conf'[q].levels = conf[q].levels
          /\ UNCHANGED <<layers, cached, parts, depth>>
      BY <1>8, SteadyStep DEF search
    <2>2. \A q \in Plugins : Built(q)' \/ ToBeBuilt(q)'
      BY <1>5, <2>1, TopsStay
    <2>3. LayerSatisfied(p) => LayerSatisfied(p)'
      BY <1>2, <2>1 DEF LayerSatisfied, Suits, LayerName
    <2>4. CASE SkipLayer
      <3>1. run.step = "layer" /\ run'.step = "table" /\ run'.magic = run.magic
        BY <1>4, <2>4 DEF SkipLayer, At
      <3>2. ToBeBuilt(p) => ~LayerSatisfied(p)
        BY DEF ToBeBuilt, LayerSatisfied, Suits
      <3>3. LayerSatisfied(p) \/ conf[p].levels = <<>>
        BY <1>1, <1>6, <2>4, SatisfiedHasLayer DEF SkipLayer, NothingToBuild
      <3>4. parts => LayerSatisfied(p)
        BY <1>1, <1>5, <3>1, <3>3 DEF PartsInv, ToBeBuilt
      <3>5. Constructing' => Constructing
        BY <3>1 DEF Constructing
      <3> QED BY <1>7, <2>1, <2>2, <2>3, <3>1, <3>4, <3>5
    <2>5. CASE SkipTable \/ BuildTable \/ SkipModule \/ BuildModule \/ TryStacker
      <3>1. run.step \in {"table", "module", "scan"}
        BY <2>5 DEF SkipTable, BuildTable, SkipModule, BuildModule, TryStacker, At
      <3>2. parts => LayerSatisfied(p)
        BY <1>1, <1>5, <3>1 DEF PartsInv
      <3>3. Constructing' => Constructing
        <4>1. CASE SkipTable \/ BuildTable
          <5>1. run.step = "table" /\ run'.magic = run.magic
            BY <1>4, <4>1 DEF SkipTable, BuildTable, At
          <5> QED BY <5>1 DEF Constructing
        <4>2. CASE SkipModule \/ BuildModule
          <5>1. run.step = "module" /\ run'.magic = run.magic
            BY <1>4, <4>2 DEF SkipModule, BuildModule, At
          <5> QED BY <5>1 DEF Constructing
        <4>3. CASE TryStacker
          BY <4>3 DEF TryStacker, Constructing
        <4> QED BY <2>5, <4>1, <4>2, <4>3
      <3> QED BY <1>7, <2>1, <2>2, <2>3, <3>2, <3>3
    <2>6. CASE NotNeeded \/ NothingSuits \/ NoBanner \/ FindSymbols \/ KernelModule \/ NoKernelModule \/ Check
      <3>1. Go("symbols") \/ Go("kernel") \/ Go("check") \/ Go("idle")
        BY <2>6 DEF NotNeeded, NothingSuits, NoBanner, FindSymbols, KernelModule, NoKernelModule, Check
      <3>2. run'.step \in {"symbols", "kernel", "check", "idle"}
        BY <1>4, <3>1
      <3> QED BY <1>7, <2>1, <2>2, <3>2 DEF Constructing
    <2> QED BY <1>8, <2>4, <2>5, <2>6 DEF Steady
  <1>9. CASE BuildLayer
    <2>1. /\ run.step = "layer" /\ UNCHANGED <<cached, parts, depth>> /\ ~LayerSatisfied(p)
          /\ IF ToBuild(conf[p].levels) = Len(conf[p].levels) THEN Go("table") ELSE Go("layer")
      BY <1>1, <1>9 DEF BuildLayer, NothingToBuild, At, search
    <2>2. PICK i : i = ToBuild(conf[p].levels)
      OBVIOUS
    <2>3. /\ ChangesOnly(p) /\ conf[p].levels # <<>> /\ conf'[p].levels # <<>>
          /\ i = Len(conf[p].levels) => /\ LayerName(conf'[p]) # None
                                        /\ layers'[LayerName(conf'[p])].kind = Last(conf[p].levels).kind
          /\ i # Len(conf[p].levels) => LayerName(conf'[p]) = LayerName(conf[p])
      BY <1>1, <1>9, <2>2, BuildLayerPiece
    <2>4. Last(conf'[p].levels).kind = Last(conf[p].levels).kind
      <3>1. Len(conf[p].levels) \in DOMAIN conf[p].levels
        BY <1>6, <2>3, SectionLevels
      <3>2. conf'[p].levels[Len(conf'[p].levels)].kind = conf[p].levels[Len(conf[p].levels)].kind
        BY <2>3, <3>1 DEF ChangesOnly
      <3> QED BY <3>2 DEF Last
    <2>5. /\ run'.magic = run.magic /\ run'.step \in {"layer", "table"}
          /\ run'.step = "table" => i = Len(conf[p].levels)
          /\ run'.step = "layer" => i # Len(conf[p].levels)
      BY <1>4, <2>1, <2>2
    <2>6. i = Len(conf[p].levels) => Built(p)'
      BY <2>3 DEF Built
    <2>7. i # Len(conf[p].levels) => (Built(p) => Built(p)') /\ (ToBeBuilt(p) => ToBeBuilt(p)')
      BY <2>3, <2>4 DEF Built, ToBeBuilt
    <2>8. ASSUME NEW q \in Plugins PROVE Built(q)' \/ ToBeBuilt(q)'
      <3>1. CASE q = p
        BY <1>2, <1>5, <2>6, <2>7, <3>1
      <3>2. CASE q # p
        <4>1. conf'[q] = conf[q]
          BY <2>3, <3>2 DEF ChangesOnly
        <4> QED BY <1>5, <4>1, TopsStay
      <3> QED BY <3>1, <3>2
    <2>9. ASSUME parts PROVE LayerSatisfied(p)' \/ (run'.step = "layer" /\ ToBeBuilt(p)')
      <3>1. ToBeBuilt(p)
        BY <1>1, <1>5, <2>1, <2>9 DEF PartsInv
      <3>2. CASE run'.step = "layer"
        BY <2>5, <2>7, <3>1, <3>2
      <3>3. CASE run'.step = "table"
        <4>1. LayerName(conf'[p]) # None /\ layers'[LayerName(conf'[p])].kind \in Accepts[p]
          BY <2>3, <2>5, <3>1, <3>3 DEF ToBeBuilt
        <4> QED BY <1>2, <4>1 DEF LayerSatisfied, Suits
      <3> QED BY <2>5, <3>2, <3>3
    <2>10. Constructing' => Constructing
      BY <2>1, <2>5 DEF Constructing
    <2> QED BY <1>7, <2>1, <2>8, <2>9, <2>10
  <1>10. CASE UseCached
    <2>1. /\ At("stack") /\ CacheApplies(p) /\ UNCHANGED <<cached, depth>> /\ Go("symbols")
      BY <1>1, <1>10 DEF UseCached, search
    <2>2. Min(CacheSuits(p)) = 0 /\ cached # <<>>
      BY <1>1, <1>5, <2>1, CacheAtTop
    <2>3. ChangesOnly(p) /\ LayerName(conf'[p]) = cached.top
      BY <1>1, <1>10, <2>2, UseCachedPiece
    <2>4. Built(p)'
      BY <2>2, <2>3 DEF BuiltInv, Built
    <2>5. ASSUME NEW q \in Plugins PROVE Built(q)' \/ ToBeBuilt(q)'
      <3>1. CASE q = p
        BY <2>4, <3>1
      <3>2. CASE q # p
        <4>1. conf'[q] = conf[q]
          BY <2>3, <3>2 DEF ChangesOnly
        <4> QED BY <1>5, <4>1, TopsStay
      <3> QED BY <3>1, <3>2
    <2>6. run'.step = "symbols"
      BY <1>4, <2>1
    <2> QED BY <1>7, <2>1, <2>5, <2>6 DEF Constructing
  <1>11. CASE BeginStacking
    <2>1. /\ run.step = "stack" /\ UNCHANGED <<layers, conf>> /\ cached' = <<>> /\ Go("scan")
          /\ parts' = (parts \/ (cached # <<>> /\ cached.top = None))
      BY <1>11 DEF BeginStacking, At, context
    <2>2. parts' => parts
      BY <2>1 DEF BuiltInv
    <2>3. run'.step = "scan"
      BY <1>4, <2>1
    <2>4. parts => LayerSatisfied(p)'
      BY <1>1, <1>2, <1>5, <2>1 DEF PartsInv, LayerSatisfied, Suits
    <2>5. \A q \in Plugins : Built(q)' \/ ToBeBuilt(q)'
      BY <1>5, <2>1, TopsStay
    <2>6. PartsInv'
      BY <1>2, <2>2, <2>4 DEF PartsInv
    <2> QED BY <2>1, <2>3, <2>5, <2>6 DEF TopsOnly, Constructing
  <1>12. CASE ApplyStack
    <2>1. /\ run.step = "scan" /\ UNCHANGED <<layers, cached, parts>>
          /\ run' = [run EXCEPT !.step = "layer", !.magic = "stacked"]
      BY <1>12 DEF ApplyStack, At, context
    <2>2. Min(StackSuits(p)) = 0
      BY <1>1, <1>5, <1>12, StackAtTop
    <2>3. depth' = 0
      BY <1>1, <1>12, <2>2 DEF ApplyStack
    <2>4. /\ ChangesOnly(p) /\ conf'[p].levels # <<>>
          /\ conf[p].levels # <<>> => LayerName(conf'[p]) = LayerName(conf[p])
          /\ conf[p].levels = <<>> => Last(conf'[p].levels).kind \in Accepts[p]
      BY <1>1, <1>12, ApplyStackPiece
    <2>5. Built(p)' \/ ToBeBuilt(p)'
      <3>1. CASE conf[p].levels = <<>>
        BY <2>4, <3>1 DEF Built, ToBeBuilt
      <3>2. CASE conf[p].levels # <<>>
        <4>1. Last(conf'[p].levels).kind = Last(conf[p].levels).kind
          <5>1. Len(conf[p].levels) \in DOMAIN conf[p].levels
            BY <1>6, <3>2, SectionLevels
          <5>2. conf'[p].levels[Len(conf'[p].levels)].kind = conf[p].levels[Len(conf[p].levels)].kind
            BY <2>4, <3>2, <5>1 DEF ChangesOnly
          <5> QED BY <5>2 DEF Last
        <4> QED BY <1>2, <1>5, <2>4, <3>2, <4>1 DEF Built, ToBeBuilt
      <3> QED BY <3>1, <3>2
    <2>6. ASSUME NEW q \in Plugins PROVE Built(q)' \/ ToBeBuilt(q)'
      <3>1. CASE q = p
        BY <2>5, <3>1
      <3>2. CASE q # p
        <4>1. conf'[q] = conf[q]
          BY <2>4, <3>2 DEF ChangesOnly
        <4> QED BY <1>5, <4>1, TopsStay
      <3> QED BY <3>1, <3>2
    <2>7. parts => LayerSatisfied(p)'
      <3> SUFFICES ASSUME LayerSatisfied(p) PROVE LayerSatisfied(p)'
        BY <1>1, <1>5, <2>1 DEF PartsInv
      <3>1. conf[p].levels # <<>>
        BY DEF LayerSatisfied, Suits, LayerName
      <3> QED BY <1>2, <2>1, <2>4, <3>1 DEF LayerSatisfied, Suits
    <2>8. PartsInv'
      BY <1>2, <2>1, <2>7 DEF PartsInv
    <2> QED BY <1>5, <2>1, <2>3, <2>6, <2>8 DEF TopsOnly
  <1>13. CASE Remember
    <2>1. UNCHANGED conf /\ cached' = [top |-> LayerName(conf[p]), from |-> p, depth |-> 0] /\ Go("symbols")
      BY <1>1, <1>13, RememberedTop DEF Remember
    <2>2. run'.step = "symbols" /\ cached'.depth = 0
      BY <1>4, <2>1
    <2>3. \A q \in Plugins : Built(q)' \/ ToBeBuilt(q)'
      BY <1>5, <2>1, TopsStay
    <2> QED BY <2>2, <2>3 DEF TopsOnly, PartsInv, Constructing
  <1>14. CASE BuildLayerFails \/ BuildTableFails \/ FindSymbolsFails
    BY <1>14 DEF BuildLayerFails, BuildTableFails, FindSymbolsFails
  <1> QED BY <1>8, <1>9, <1>10, <1>11, <1>12, <1>13, <1>14 DEF Step, Steady

-----------------------------------------------------------------------------
(* As long as nothing fails, what was begun to be made has been made *)

\* If neither layers nor what is remembered changes, what has been made stays so.
LEMMA BuiltStays ==
  ASSUME BuiltInv, PieceInv, \A q \in Plugins : conf'[q].levels = conf[q].levels, UNCHANGED <<cached, configured>>,
         run.step = "layer" => Built(run.plugin),
         run'.step \notin {"idle", "layer"} => ~At("idle") /\ run'.plugin = run.plugin
  PROVE  BuiltInv'
  <1>1. \A q \in Plugins : Built(q)' <=> Built(q)
    BY DEF Built, LayerName
  <1>2. \A q \in Plugins \ configured : Built(q)
    BY DEF BuiltInv
  <1>3. cached' # <<>> => cached'.top # None
    BY DEF BuiltInv
  <1>4. ASSUME run'.step \notin {"idle", "layer"} PROVE Built(run.plugin)'
    <2>1. PICK p : p = run.plugin
      OBVIOUS
    <2>2. run.step # "idle" /\ run'.plugin = p /\ p \in Plugins
      BY <1>4, <2>1 DEF At, PieceInv, RunInv
    <2>3. Built(p)
      BY <2>1, <2>2 DEF BuiltInv
    <2>4. Built(p)'
      BY <1>1, <2>2, <2>3
    <2> QED BY <2>2, <2>4 DEF Built
  <1> QED BY <1>1, <1>2, <1>3, <1>4 DEF BuiltInv

\* No step but one that fails leaves a stack half made.
LEMMA BuiltKept ==
  ASSUME PieceInv, TopsOnly, BuiltInv, StackInv, Step, ~failed'
  PROVE  BuiltInv'
  <1>1. PICK p : p = run.plugin
    OBVIOUS
  <1>2. CASE Steady
    <2>1. \A q \in Plugins : conf'[q].levels = conf[q].levels
      BY <1>2, SteadyStep
    <2>2. UNCHANGED <<cached, configured>>
      BY <1>2, SteadyStep
    <2>3. ~At("idle") /\ (At("layer") => SkipLayer)
      BY <1>2 DEF Steady, SkipLayer, SkipTable, BuildTable, SkipModule, BuildModule, NotNeeded, TryStacker,
         NothingSuits, NoBanner, FindSymbols, KernelModule, NoKernelModule, Check, At
    <2>4. run.step = "layer" => Built(p)
      <3>1. SUFFICES ASSUME SkipLayer, conf[p].levels # <<>> PROVE LayerName(conf[p]) # None
        BY <2>3 DEF Built, At
      <3>2. ModuleMade(p)
        BY <1>1, <2>3, RunsSection
      <3>3. LayerSatisfied(p)
        BY <1>1, <3>1, <3>2, SatisfiedHasLayer DEF SkipLayer, NothingToBuild
      <3> QED BY <3>3 DEF LayerSatisfied, Suits
    <2>5. run'.plugin = p
      <3>1. run = [plugin |-> p, step |-> run.step, magic |-> run.magic]
        BY <1>1 DEF PieceInv, RunInv
      <3>2. \A step : Go(step) => run'.plugin = p
        BY <3>1 DEF Go
      <3>3. run' = run \/ \E step : Go(step)
        BY <1>2 DEF Steady, SkipLayer, SkipTable, BuildTable, SkipModule, BuildModule, NotNeeded, TryStacker,
           NothingSuits, NoBanner, FindSymbols, KernelModule, NoKernelModule, Check
      <3> QED BY <1>1, <3>2, <3>3
    <2> QED BY <1>1, <2>1, <2>2, <2>3, <2>4, <2>5, BuiltStays
  <1>3. CASE BuildLayer
    <2>1. /\ ~At("idle") /\ run.step = "layer" /\ UNCHANGED <<cached, configured>>
          /\ IF ToBuild(conf[p].levels) = Len(conf[p].levels) THEN Go("table") ELSE Go("layer")
      BY <1>1, <1>3 DEF BuildLayer, At, given
    <2>2. /\ ChangesOnly(p) /\ conf'[p].levels # <<>> /\ conf[p].levels # <<>>
          /\ ToBuild(conf[p].levels) = Len(conf[p].levels) => LayerName(conf'[p]) # None
      BY <1>1, <1>3, BuildLayerPiece
    <2>3. run = [plugin |-> p, step |-> "layer", magic |-> run.magic] /\ p \in Plugins
      BY <1>1, <2>1 DEF PieceInv, RunInv
    <2>4. /\ run'.plugin = p /\ run'.magic = run.magic /\ run'.step \in {"table", "layer"}
          /\ run'.step = "table" => ToBuild(conf[p].levels) = Len(conf[p].levels)
          /\ ToBuild(conf[p].levels) = Len(conf[p].levels) => run'.step = "table"
      BY <2>1, <2>3 DEF Go
    <2>5. ASSUME NEW q \in Plugins \ configured, q # p PROVE Built(q)'
      <3>1. Built(q) /\ conf'[q] = conf[q]
        BY <1>1, <2>2, <2>5 DEF BuiltInv, ChangesOnly
      <3> QED BY <3>1 DEF Built
    <2>6. run'.step = "table" => Built(p)'
      BY <2>2, <2>4 DEF Built
    <2>7. ASSUME p \notin configured PROVE Built(p)' \/ (Constructing' /\ run'.step = "layer")
      <3>1. CASE run.magic = "stacked"
        BY <2>4, <2>6, <3>1 DEF Constructing
      <3>2. CASE run.magic # "stacked"
        <4>1. LayerName(conf[p]) # None
          BY <2>2, <2>3, <2>7, <3>2 DEF BuiltInv, Constructing, Built
        <4>2. ~parts
          <5>1. ~LayerSatisfied(p)
            BY <1>1, <1>3 DEF BuildLayer, NothingToBuild
          <5> QED BY <1>1, <2>1, <4>1, <5>1 DEF TopsOnly, PartsInv, ToBeBuilt
        <4>3. ToBuild(conf[p].levels) = Len(conf[p].levels)
          BY <2>2, <4>1, <4>2 DEF ToBuild, LayerName
        <4> QED BY <2>4, <2>6, <4>3
      <3> QED BY <3>1, <3>2
    <2>8. \A q \in Plugins \ configured' : Built(q)' \/ (Constructing' /\ run'.step = "layer" /\ q = run'.plugin)
      BY <2>1, <2>4, <2>5, <2>7
    <2>9. cached' # <<>> => cached'.top # None
      BY <2>1 DEF BuiltInv
    <2> QED BY <2>4, <2>6, <2>8, <2>9 DEF BuiltInv
  <1>4. CASE UseCached
    <2>1. /\ ~At("idle") /\ run.step = "stack" /\ UNCHANGED <<cached, configured>> /\ Go("symbols") /\ cached # <<>>
      BY <1>4 DEF UseCached, At, given, CacheApplies
    <2>2. ChangesOnly(p) /\ LayerName(conf'[p]) = cached.top
      <3>1. Min(CacheSuits(p)) = 0
        BY <1>1, <1>4, CacheAtTop DEF UseCached, TopsOnly
      <3> QED BY <1>1, <1>4, <3>1, UseCachedPiece
    <2>3. run = [plugin |-> p, step |-> "stack", magic |-> run.magic] /\ p \in Plugins
      BY <1>1, <2>1 DEF PieceInv, RunInv
    <2>4. run'.plugin = p /\ run'.step = "symbols"
      BY <2>1, <2>3 DEF Go
    <2>5. Built(p)'
      BY <2>1, <2>2 DEF BuiltInv, Built
    <2>6. ASSUME NEW q \in Plugins \ configured, q # p PROVE Built(q)'
      <3>1. Built(q) /\ conf'[q] = conf[q]
        BY <1>1, <2>2, <2>6 DEF BuiltInv, ChangesOnly
      <3> QED BY <3>1 DEF Built
    <2>7. cached' # <<>> => cached'.top # None
      BY <2>1 DEF BuiltInv
    <2> QED BY <2>1, <2>4, <2>5, <2>6, <2>7 DEF BuiltInv
  <1>5. CASE BeginStacking
    <2>1. /\ UNCHANGED <<conf, configured>> /\ cached' = <<>> /\ run.step = "stack" /\ Go("scan")
      BY <1>5 DEF BeginStacking, At, given
    <2>2. run = [plugin |-> p, step |-> "stack", magic |-> run.magic] /\ p \in Plugins
      BY <1>1, <2>1 DEF PieceInv, RunInv
    <2>3. run'.plugin = p /\ run'.step = "scan"
      BY <2>1, <2>2 DEF Go
    <2>4. Built(p) /\ \A q \in Plugins \ configured : Built(q)
      BY <1>1, <2>1 DEF BuiltInv
    <2>5. Built(p)' /\ \A q \in Plugins \ configured : Built(q)'
      BY <2>1, <2>4 DEF Built
    <2> QED BY <2>1, <2>3, <2>5 DEF BuiltInv
  <1>6. CASE ApplyStack
    <2>1. /\ UNCHANGED <<cached, configured>> /\ run.step = "scan"
          /\ run' = [run EXCEPT !.step = "layer", !.magic = "stacked"]
      BY <1>6 DEF ApplyStack, At, given
    <2>2. ChangesOnly(p)
      BY <1>1, <1>6, ApplyStackPiece
    <2>3. run = [plugin |-> p, step |-> "scan", magic |-> run.magic] /\ p \in Plugins
      BY <1>1, <2>1 DEF PieceInv, RunInv
    <2>4. run'.plugin = p /\ run'.step = "layer" /\ run'.magic = "stacked"
      BY <2>1, <2>3
    <2>5. ASSUME NEW q \in Plugins \ configured, q # p PROVE Built(q)'
      <3>1. Built(q) /\ conf'[q] = conf[q]
        BY <1>1, <2>2, <2>5 DEF BuiltInv, ChangesOnly
      <3> QED BY <3>1 DEF Built
    <2>6. cached' # <<>> => cached'.top # None
      BY <2>1 DEF BuiltInv
    <2> QED BY <2>1, <2>4, <2>5, <2>6 DEF BuiltInv, Constructing
  <1>7. CASE Remember
    <2>1. /\ UNCHANGED <<conf, configured>> /\ cached' = [top |-> LayerName(conf[p]), from |-> p, depth |-> 0]
          /\ conf[p].levels # <<>> /\ run.step = "remember" /\ Go("symbols")
      BY <1>1, <1>7, RememberedTop DEF Remember, At, given
    <2>2. run = [plugin |-> p, step |-> "remember", magic |-> "stacked"] /\ p \in Plugins
      BY <1>1, <2>1 DEF PieceInv, RunInv
    <2>3. run'.plugin = p /\ run'.step = "symbols"
      BY <2>1, <2>2 DEF Go
    <2>4. Built(p) /\ \A q \in Plugins \ configured : Built(q)
      BY <1>1, <2>1 DEF BuiltInv
    <2>5. Built(p)' /\ \A q \in Plugins \ configured : Built(q)'
      BY <2>1, <2>4 DEF Built
    <2>6. cached'.top # None
      BY <2>1, <2>4 DEF Built
    <2> QED BY <2>1, <2>3, <2>5, <2>6 DEF BuiltInv
  <1>8. CASE BuildLayerFails \/ BuildTableFails \/ FindSymbolsFails
    BY <1>8 DEF BuildLayerFails, BuildTableFails, FindSymbolsFails
  <1> QED BY <1>2, <1>3, <1>4, <1>5, <1>6, <1>7, <1>8 DEF Step, Steady

-----------------------------------------------------------------------------
(* As long as nothing fails, what all share is what LayerStacker remembers *)

\* A step that changes neither a plugin's layer nor what is remembered, of a run or between runs.
LEMMA SharedStays ==
  ASSUME SharedInv, PieceInv, Grows, NEW q \in Plugins, q \notin configured', q \notin mixed',
         LayerName(conf'[q]) = LayerName(conf[q]), LayerName(conf'[q]) # None,
         UNCHANGED configured, HasRun \subseteq HasRun',
         \A r \in HasRun' : Suits(r, LayerName(conf[q]))'
  PROVE  /\ LayerName(conf[q]) # None /\ (\A r \in HasRun : Suits(r, LayerName(conf[q])))
         /\ (cached # <<>> /\ cached.top = LayerName(conf[q])) \/ (Constructing /\ q = run.plugin)
  <1>1. ContextTyped /\ SectionTyped(q)
    BY DEF PieceInv, Sections, SectionInv
  <1>2. PICK n : n = LayerName(conf[q])
    OBVIOUS
  <1>3. n \in 0 .. Len(layers) /\ LayerName(conf'[q]) = n
    BY <1>1, <1>2, NameThere
  <1>4. \A r : Suits(r, n)' <=> Suits(r, n)
    BY <1>1, <1>3, SuitsStay
  <1>5. \A r \in HasRun' : Suits(r, n)'
    BY <1>2, <1>3 DEF Suits
  <1>6. \A r \in HasRun : Suits(r, n)
    BY <1>4, <1>5
  <1>7. q \in Plugins \ (configured \cup mixed)
    BY DEF Grows
  <1> QED BY <1>2, <1>3, <1>6, <1>7 DEF SharedInv, Shared

\* No step but one that fails gives a plugin a layer of its own that it could share.
LEMMA SharedKept ==
  ASSUME PieceInv, TopsOnly, BuiltInv, SharedInv, StackInv, Step, ~failed'
  PROVE  SharedInv'
  <1>1. PICK p : p = run.plugin
    OBVIOUS
  <1>2. /\ ~At("idle") /\ p \in Plugins /\ run'.plugin = p /\ UNCHANGED configured
        /\ HasRun \subseteq HasRun' /\ p \in HasRun
    BY <1>1, StepsPlugin
  <1> SUFFICES ASSUME NEW q \in Plugins, q \notin configured', q \notin mixed', LayerName(conf'[q]) # None,
                      \A r \in HasRun' : Suits(r, LayerName(conf[q]))'
               PROVE  \/ cached' # <<>> /\ cached'.top = LayerName(conf'[q])
                      \/ Constructing' /\ q = p
    BY <1>2 DEF SharedInv, Shared
  <1> DEFINE Before == /\ LayerName(conf[q]) # None /\ (\A r \in HasRun : Suits(r, LayerName(conf[q])))
                       /\ (cached # <<>> /\ cached.top = LayerName(conf[q])) \/ (Constructing /\ q = p)
  <1>3. ASSUME Grows, LayerName(conf'[q]) = LayerName(conf[q]) PROVE Before
    BY <1>1, <1>2, <1>3, SharedStays
  <1>4. ASSUME Grows, ChangesOnly(p), q # p PROVE LayerName(conf'[q]) = LayerName(conf[q]) /\ Before
    <2>1. conf'[q] = conf[q]
      BY <1>4 DEF ChangesOnly
    <2> QED BY <1>3, <1>4, <2>1
  <1>5. Constructing => cached = <<>>
    BY DEF PieceInv, RunInv
  <1>6. run = [plugin |-> p, step |-> run.step, magic |-> run.magic] /\ run.magic \in {"first", "stacked"}
    BY <1>1, <1>2 DEF PieceInv, RunInv, At
  <1> HIDE DEF Before
  <1>7. CASE Steady
    <2>1. Grows /\ LayerName(conf'[q]) = LayerName(conf[q]) /\ cached' = cached
      BY <1>7, SteadyStep DEF LayerName
    <2>2. Before
      BY <1>3, <2>1
    <2>3. Constructing => Constructing'
      <3>1. SUFFICES ASSUME Constructing PROVE Constructing'
        OBVIOUS
      <3>2. SkipLayer \/ SkipTable \/ BuildTable \/ SkipModule \/ BuildModule
        BY <1>7, <3>1 DEF Constructing, Steady, NotNeeded, TryStacker,
           NothingSuits, NoBanner, FindSymbols, KernelModule, NoKernelModule, Check, At
      <3>3. Go("table") \/ Go("module") \/ Go("remember")
        BY <3>1, <3>2 DEF Constructing, SkipLayer, SkipTable, BuildTable, SkipModule, BuildModule, AfterConstruction
      <3>4. run'.magic = "stacked" /\ run'.step \in {"table", "module", "remember"}
        BY <1>6, <3>1, <3>3 DEF Constructing, Go
      <3> QED BY <3>4 DEF Constructing
    <2> QED BY <2>1, <2>2, <2>3 DEF Before
  <1>8. CASE BuildLayer
    <2>1. /\ Grows /\ ChangesOnly(p) /\ cached' = cached /\ run.step = "layer" /\ (Go("table") \/ Go("layer"))
      BY <1>1, <1>8, BuildLayerPiece DEF BuildLayer, At
    <2>2. CASE q # p
      BY <1>4, <2>1, <2>2 DEF Before
    <2>3. CASE q = p /\ run.magic = "stacked"
      <3>1. run'.magic = "stacked" /\ run'.step \in {"table", "layer"}
        BY <1>6, <2>1, <2>3 DEF Go
      <3> QED BY <2>3, <3>1 DEF Constructing
    <2>4. CASE q = p /\ run.magic # "stacked"
      <3>1. p \notin configured /\ p \notin mixed
        BY <1>2, <2>1, <2>4 DEF Grows
      <3>2. Built(p) /\ OfOneKind(p)
        BY <1>2, <2>4, <3>1 DEF BuiltInv, Constructing, PieceInv, Sections, SectionInv
      <3>3. ~LayerSatisfied(p) /\ conf[p].levels # <<>>
        BY <1>1, <1>8 DEF BuildLayer, NothingToBuild
      <3> QED BY <3>2, <3>3, MadeIsRight DEF Built
    <2> QED BY <2>2, <2>3, <2>4
  <1>9. CASE UseCached
    <2>0. Min(CacheSuits(p)) = 0 /\ cached # <<>>
      BY <1>1, <1>9, CacheAtTop DEF UseCached, TopsOnly
    <2>1. /\ Grows /\ ChangesOnly(p) /\ LayerName(conf'[p]) = cached.top /\ cached' = cached /\ cached # <<>>
      BY <1>1, <1>9, <2>0, UseCachedPiece DEF UseCached
    <2>2. run.step = "stack"
      BY <1>9 DEF UseCached, At
    <2>3. CASE q # p
      BY <1>4, <2>1, <2>3 DEF Before
    <2> QED BY <2>1, <2>3
  <1>10. CASE BeginStacking
    <2>1. UNCHANGED <<layers, tables, modules, conf, mixed>> /\ run.step = "stack"
      BY <1>10 DEF BeginStacking, context, history, At
    <2>2. Grows
      BY <2>1, NothingChanges DEF PieceInv
    <2>3. Before
      BY <1>3, <2>1, <2>2
    <2>4. cached # <<>> /\ Suits(p, cached.top)
      BY <1>2, <2>1, <2>3 DEF Before, Constructing
    <2>5. 0 \in CacheSuits(p)
      <3>1. SectionTyped(p)
        BY <1>1, <1>2, RunsSection
      <3>2. Len(conf[p].levels) \in Nat
        BY <3>1, LenProperties DEF SectionTyped, Section
      <3>3. 0 \in 0 .. Len(conf[p].levels)
        BY <3>2
      <3> QED BY <2>4, <3>3 DEF CacheSuits, Suitable
    <2> QED BY <1>1, <1>10, <2>4, <2>5 DEF BeginStacking, CacheApplies
  <1>11. CASE ApplyStack
    <2>1. /\ Grows /\ ChangesOnly(p) /\ run.step = "scan" /\ run' = [run EXCEPT !.step = "layer", !.magic = "stacked"]
      BY <1>1, <1>11, ApplyStackPiece DEF ApplyStack, At
    <2>2. Constructing'
      <3>1. run'.step = "layer" /\ run'.magic = "stacked"
        BY <1>6, <2>1
      <3> QED BY <3>1 DEF Constructing
    <2>3. cached = <<>>
      BY <2>1 DEF PieceInv, RunInv
    <2>4. CASE q # p
      BY <1>4, <2>1, <2>3, <2>4 DEF Before
    <2> QED BY <2>2, <2>4
  <1>12. CASE Remember
    <2>1. /\ UNCHANGED <<layers, tables, modules, conf, mixed>> /\ run.step = "remember"
          /\ cached' = [top |-> LayerName(conf[p]), from |-> p, depth |-> 0]
      BY <1>1, <1>12, RememberedTop DEF Remember, context, history, At
    <2>2. Grows
      BY <2>1, NothingChanges DEF PieceInv
    <2>3. Before
      BY <1>3, <2>1, <2>2
    <2>4. Constructing
      BY <2>1 DEF PieceInv, RunInv, Constructing
    <2>5. q = p
      BY <1>5, <2>3, <2>4 DEF Before
    <2> QED BY <2>1, <2>5
  <1>13. CASE BuildLayerFails \/ BuildTableFails \/ FindSymbolsFails
    BY <1>13 DEF BuildLayerFails, BuildTableFails, FindSymbolsFails
  <1> QED BY <1>7, <1>8, <1>9, <1>10, <1>11, <1>12, <1>13 DEF Step, Steady

-----------------------------------------------------------------------------
(* As long as nothing fails, what a run ends without was not to be found *)

\* Every step but one that fails goes on with what it needs, or without what is not to be found.
LEMMA CauseKept ==
  ASSUME PieceInv, PieceInv', TopsOnly, BuiltInv, CauseInv, UnmetForCause, StackInv, Step, ~failed'
  PROVE  CauseInv' /\ UnmetForCause'
  <1>1. PICK p : p = run.plugin
    OBVIOUS
  <1>2. ~At("idle") /\ p \in Plugins /\ run'.plugin = p /\ run.step # "idle"
    BY <1>1, StepsPlugin DEF At
  <1>3. run = [plugin |-> p, step |-> run.step, magic |-> run.magic] /\ run.magic \in {"first", "stacked"}
    BY <1>1, <1>2 DEF PieceInv, RunInv
  <1>4. \A step : Go(step) => run'.step = step
    BY <1>3 DEF Go
  <1>5. ModuleMade(p) /\ SectionTyped(p) /\ (p \in mixed \/ OfOneKind(p)) /\ ContextTyped
    BY <1>1, <1>2, RunsSection
  <1>6. (ModuleMade(p) /\ (p \in mixed \/ OfOneKind(p)))'
    BY <1>2 DEF PieceInv, Sections, SectionInv
  <1> DEFINE Layered == LayerSatisfied(p) \/ NothingFound(p)
             Tabled == p \in ModulePlugins => TableSatisfied(p) \/ NothingFound(p) \/ NoSymbols(p)
             Ended == \/ Satisfied(p) \/ NothingFound(p)
                      \/ p \in ModulePlugins /\ (NoSymbols(p) \/ KernelOffset(p) = Unknown)
  <1>7. p \notin mixed =>
          /\ run.step \in {"symbols", "kernel", "check"} => Layered
          /\ run.step \in {"kernel", "check"} => Tabled
          /\ run.step = "check" => Ended
    BY <1>1 DEF CauseInv
  <1>8. ASSUME p \notin mixed' =>
                 /\ run'.step \in {"symbols", "kernel", "check"} => Layered'
                 /\ run'.step \in {"kernel", "check"} => Tabled'
                 /\ run'.step = "check" => Ended'
        PROVE  CauseInv'
    BY <1>2, <1>8 DEF CauseInv
  <1>9. run'.step # "idle" => UnmetForCause'
    BY DEF UnmetForCause
  <1>10. (Steady => mixed' = mixed /\ conf'[p].levels = conf[p].levels /\ layers' = layers)
    BY <1>2, SteadyStep
  <1>11. ASSUME Steady, stacking' = stacking
         PROVE  (LayerSatisfied(p)' <=> LayerSatisfied(p)) /\ (NothingFound(p)' <=> NothingFound(p))
                /\ (NoSymbols(p)' <=> NoSymbols(p)) /\ KernelOffset(p)' = KernelOffset(p)
    BY <1>10, <1>11 DEF LayerSatisfied, NothingFound, NoSymbols, LayerName, Suits, KernelOffset
  <1> HIDE DEF Layered, Tabled, Ended
  \* The steps before it comes to the symbols
  <1>12. ASSUME run'.step \notin {"symbols", "kernel", "check", "idle"} PROVE CauseInv' /\ UnmetForCause'
    BY <1>8, <1>9, <1>12
  <1>13. CASE SkipLayer \/ BuildLayer \/ SkipTable \/ BuildTable \/ SkipModule \/ BuildModule \/ BeginStacking
    <2>1. \E step \in {"layer", "table", "module", "stack", "remember", "scan"} : Go(step)
      BY <1>13 DEF SkipLayer, BuildLayer, SkipTable, BuildTable, SkipModule, BuildModule, BeginStacking,
         AfterConstruction
    <2>2. run'.step \in {"layer", "table", "module", "stack", "remember", "scan"}
      BY <1>4, <2>1
    <2> QED BY <1>12, <2>2
  <1>14. CASE TryStacker
    <2>1. run' = run /\ run.step = "scan"
      BY <1>14 DEF TryStacker, At
    <2> QED BY <1>12, <2>1
  <1>15. CASE ApplyStack
    <2>1. run'.step = "layer"
      BY <1>3, <1>15 DEF ApplyStack
    <2> QED BY <1>12, <2>1
  \* Those that come to them
  <1>16. CASE NotNeeded \/ NothingSuits
    <2>1. /\ Steady /\ stacking' = stacking /\ Go("symbols")
          /\ (NotNeeded => Satisfied(p))
          /\ (NothingSuits => At("scan") /\ StackSuits(p) = {})
      BY <1>1, <1>16 DEF NotNeeded, NothingSuits, Steady
    <2>2. run'.step = "symbols"
      BY <1>4, <2>1
    <2>3. ASSUME p \notin mixed PROVE Layered
      <3>1. CASE NotNeeded
        BY <1>5, <2>1, <3>1, SatisfiedHasLayer DEF Layered
      <3>2. CASE NothingSuits
        <4>0. ~LayerSatisfied(p) /\ Highest(p, stacking.stack) = 0
          <5>1. Len(conf[p].levels) \in Nat
            BY <1>5, LenProperties DEF SectionTyped, Section
          <5>2. 0 \in 0 .. Len(conf[p].levels) /\ 0 \notin StackSuits(p)
            BY <2>1, <3>2, <5>1
          <5> QED BY <5>2 DEF StackSuits, Suitable
        <4>1. OfOneKind(p) /\ Built(p)
          BY <1>1, <1>5, <2>1, <2>3, <3>2 DEF BuiltInv, At
        <4>2. conf[p].levels = <<>>
          BY <4>0, <4>1, MadeIsRight DEF Built
        <4>3. PICK stack, top : stack = stacking.stack /\ top = Highest(p, stack)
          OBVIOUS
        <4>4. stack \in Seq(StackKinds)
          BY <2>1, <3>2, <4>3 DEF StackInv, StackingTyped
        <4>5. \A i \in DOMAIN stack : stack[i] \notin Accepts[p]
          BY <4>0, <4>3, <4>4, HighestOf
        <4>6. Range(stack) \cap Accepts[p] = {}
          BY <4>5 DEF Range
        <4> QED BY <4>2, <4>3, <4>6 DEF Layered, NothingFound
      <3> QED BY <1>16, <3>1, <3>2
    <2>4. p \notin mixed' => Layered'
      BY <1>10, <1>11, <2>1, <2>3 DEF Layered
    <2> QED BY <1>8, <1>9, <2>2, <2>4
  <1>17. CASE UseCached
    <2>0. Min(CacheSuits(p)) = 0 /\ cached # <<>>
      BY <1>1, <1>17, CacheAtTop DEF UseCached, TopsOnly
    <2>1. /\ LayerName(conf'[p]) = cached.top /\ cached # <<>> /\ Go("symbols")
      BY <1>1, <1>17, <2>0, UseCachedPiece DEF UseCached
    <2>2. run'.step = "symbols"
      BY <1>4, <2>1
    <2>3. LayerName(conf'[p]) # None
      BY <2>1 DEF BuiltInv
    <2>4. p \notin mixed' => LayerSatisfied(p)'
      <3> SUFFICES ASSUME p \notin mixed' PROVE LayerSatisfied(p)'
        OBVIOUS
      <3>1. OfOneKind(p)'
        BY <1>6
      <3>2. PICK c : c = conf'[p]
        OBVIOUS
      <3>3. c.levels # <<>>
        BY <2>3, <3>2 DEF LayerName
      <3>4. Last(c.levels).kind \in Accepts[p] /\ layers'[LayerName(c)].kind = Last(c.levels).kind
        BY <2>3, <3>1, <3>2, <3>3 DEF OfOneKind, LevelFits, LayerName
      <3> QED BY <2>3, <3>2, <3>4 DEF LayerSatisfied, Suits
    <2> QED BY <1>8, <1>9, <2>2, <2>4 DEF Layered
  <1>18. CASE Remember
    <2>1. Go("symbols") /\ run.step = "remember" /\ UNCHANGED <<layers, conf, mixed>>
      BY <1>18 DEF Remember, At, context, history
    <2>2. run'.step = "symbols"
      BY <1>4, <2>1
    <2>3. conf[p].levels # <<>>
      BY <1>1, <1>18, RememberedTop
    <2>4. Built(p)
      BY <1>1, <2>1 DEF BuiltInv
    <2>5. p \notin mixed => LayerSatisfied(p)
      BY <1>5, <2>3, <2>4, MadeIsRight DEF Built
    <2>6. p \notin mixed' => LayerSatisfied(p)'
      BY <2>1, <2>5 DEF LayerSatisfied, Suits
    <2> QED BY <1>8, <1>9, <2>2, <2>6 DEF Layered
  \* SymbolFinder
  <1>19. CASE NoBanner
    <2>1. /\ Steady /\ stacking' = stacking /\ run.step = "symbols" /\ Go("kernel") /\ ~Banner(p)
          /\ UNCHANGED <<conf, mixed>>
      BY <1>1, <1>19 DEF NoBanner, Steady, At, history
    <2>2. run'.step = "kernel"
      BY <1>4, <2>1
    <2>3. p \notin mixed => Layered
      BY <1>7, <2>1
    <2>4. p \notin mixed => Tabled
      BY <2>1, <2>3 DEF Layered, Tabled, Banner, LayerToScan, NoSymbols, LayerSatisfied, Suits
    <2>5. p \notin mixed' => Layered' /\ Tabled'
      BY <1>11, <2>1, <2>3, <2>4 DEF Layered, Tabled, TableSatisfied
    <2> QED BY <1>8, <1>9, <2>2, <2>5
  <1>20. CASE FindSymbols
    <2>1. Steady /\ stacking' = stacking /\ run.step = "symbols" /\ Go("kernel")
      BY <1>20 DEF FindSymbols, Steady, At
    <2>2. run'.step = "kernel"
      BY <1>4, <2>1
    <2>3. p \notin mixed' => Layered'
      BY <1>7, <1>10, <1>11, <2>1 DEF Layered
    <2>4. conf'[p].table = Len(tables) + 1 /\ Len(tables) \in Nat
      <3>1. conf = [q \in Plugins |-> conf[q]] /\ conf[p] \in Section /\ Len(tables) \in Nat
        BY <1>1, <1>2, RunsSection
      <3> QED BY <1>1, <1>2, <1>20, <3>1 DEF FindSymbols, FoundIsf, Section
    <2>5. Tabled'
      BY <2>4 DEF Tabled, TableSatisfied, None
    <2> QED BY <1>8, <1>9, <2>2, <2>3, <2>5
  \* KernelModule
  <1>21. CASE KernelModule
    <2>1. /\ Steady /\ stacking' = stacking /\ run.step = "kernel" /\ Go("check") /\ p \in ModulePlugins /\ ~Satisfied(p)
      BY <1>1, <1>21 DEF KernelModule, Steady, At
    <2>2. run'.step = "check"
      BY <1>4, <2>1
    <2>3. conf = [q \in Plugins |-> conf[q]] /\ conf[p] \in Section /\ Len(modules) \in Nat
      BY <1>1, <1>2, RunsSection
    <2>4. PICK section : section = [conf[p] EXCEPT !.class = TRUE]
      OBVIOUS
    <2>5. section \in Section /\ section.table = conf[p].table
      BY <2>3, <2>4 DEF Section
    <2>6. PICK m, o : m = Len(modules) + 1 /\ o = KernelOffset(p)
      OBVIOUS
    <2>7. IF LayerSatisfied(p) /\ TableSatisfied(p) /\ o # Unknown
          THEN conf' = [conf EXCEPT ![p] = [[section EXCEPT !.offset = o] EXCEPT !.module = m]]
          ELSE conf' = [conf EXCEPT ![p] = section]
      BY <1>1, <1>21, <2>4, <2>6 DEF KernelModule, AddModule
    <2>8. conf'[p].table = conf[p].table
      <3>1. PICK built : built = [[section EXCEPT !.offset = o] EXCEPT !.module = m]
        OBVIOUS
      <3>2. built.table = section.table
        BY <2>5, <3>1 DEF Section
      <3>3. conf'[p] = built \/ conf'[p] = section
        BY <1>2, <2>3, <2>7, <3>1
      <3> QED BY <2>5, <3>2, <3>3
    <2>9. p \notin mixed' => Layered' /\ Tabled'
      <3>1. p \notin mixed' => Layered /\ Tabled
        BY <1>7, <1>10, <2>1
      <3> QED BY <1>11, <2>1, <2>8, <3>1 DEF Layered, Tabled, TableSatisfied
    <2>10. p \notin mixed' => Ended'
      <3> SUFFICES ASSUME p \notin mixed' PROVE Ended'
        OBVIOUS
      <3>1. CASE LayerSatisfied(p) /\ TableSatisfied(p) /\ o # Unknown
        <4>1. m # None /\ m \in Nat
          BY <2>3, <2>6 DEF None
        <4>2. conf'[p].module = m
          <5>1. PICK t : t = [section EXCEPT !.offset = o]
            OBVIOUS
          <5>2. t \in [DOMAIN section -> {t[k] : k \in DOMAIN section}] /\ DOMAIN t = DOMAIN section
            BY <5>1
          <5>3. "module" \in DOMAIN section
            BY <2>5 DEF Section
          <5>4. conf'[p] = [t EXCEPT !.module = m]
            BY <1>2, <2>3, <2>7, <3>1, <5>1
          <5> QED BY <5>2, <5>3, <5>4
        <4> QED BY <2>1, <4>1, <4>2 DEF Ended, Satisfied
      <3>2. CASE o = Unknown
        BY <1>11, <2>1, <2>6, <3>2 DEF Ended
      <3>3. CASE ~LayerSatisfied(p) \/ ~TableSatisfied(p)
        <4>1. NothingFound(p) \/ NoSymbols(p)
          BY <1>7, <1>10, <2>1, <3>3 DEF Layered, Tabled
        <4> QED BY <1>11, <2>1, <4>1 DEF Ended
      <3> QED BY <3>1, <3>2, <3>3
    <2> QED BY <1>8, <1>9, <2>2, <2>9, <2>10
  <1>22. CASE NoKernelModule
    <2>1. /\ Steady /\ stacking' = stacking /\ run.step = "kernel" /\ Go("check")
          /\ (p \notin ModulePlugins \/ Satisfied(p)) /\ UNCHANGED <<conf, mixed>>
      BY <1>1, <1>22 DEF NoKernelModule, Steady, At, history
    <2>2. run'.step = "check"
      BY <1>4, <2>1
    <2>3. p \notin mixed => Layered /\ Tabled
      BY <1>7, <2>1
    <2>4. p \notin mixed => Ended
      BY <2>1, <2>3 DEF Layered, Ended, Satisfied
    <2>5. Satisfied(p) => Satisfied(p)'
      BY <1>11, <2>1 DEF Satisfied
    <2>6. p \notin mixed' => Layered' /\ Tabled' /\ Ended'
      BY <1>11, <2>1, <2>3, <2>4, <2>5 DEF Layered, Tabled, Ended, TableSatisfied
    <2> QED BY <1>8, <1>9, <2>2, <2>6
  \* The end of the run
  <1>23. CASE Check
    <2>1. /\ run.step = "check" /\ Go("idle") /\ UNCHANGED <<conf, layers, mixed, stacking, failed>>
          /\ (p \in unmet' => ~Satisfied(p))
      BY <1>1, <1>23 DEF Check, At, context, history
    <2>2. run'.step = "idle"
      BY <1>4, <2>1
    <2>3. CauseInv'
      BY <1>8, <2>2
    <2>4. ASSUME p \in unmet', p \notin mixed
          PROVE  LET name == LayerName(conf[p])
                 IN IF name = None THEN Range(stacking.stack) \cap Accepts[p] = {}
                    ELSE p \in ModulePlugins /\ (layers[name].kind \notin Banners \/ KernelOffset(p) = Unknown)
      <3>1. Layered /\ Ended /\ ~Satisfied(p)
        BY <1>7, <2>1, <2>4
      <3>2. CASE NothingFound(p)
        BY <3>2 DEF NothingFound, LayerName
      <3>3. CASE ~NothingFound(p)
        <4>1. LayerName(conf[p]) # None
          BY <3>1, <3>3 DEF Layered, LayerSatisfied, Suits
        <4> QED BY <3>1, <3>3, <4>1 DEF Ended, NoSymbols
      <3> QED BY <3>2, <3>3
    <2>5. UnmetForCause'
      BY <1>2, <2>1, <2>4 DEF UnmetForCause, KernelOffset
    <2> QED BY <2>3, <2>5
  <1>24. CASE BuildLayerFails \/ BuildTableFails \/ FindSymbolsFails
    BY <1>24 DEF BuildLayerFails, BuildTableFails, FindSymbolsFails
  <1> QED BY <1>13, <1>14, <1>15, <1>16, <1>17, <1>18, <1>19, <1>20, <1>21, <1>22, <1>23, <1>24 DEF Step

\* A failure is never forgotten.
LEMMA FailedStays ==
  ASSUME Step, ~failed'
  PROVE  ~failed
  BY DEF Step, SkipLayer, BuildLayer, BuildLayerFails, SkipTable, BuildTable, BuildTableFails, SkipModule,
     BuildModule, NotNeeded, UseCached, BeginStacking, TryStacker, NothingSuits, ApplyStack, Remember,
     NoBanner, FindSymbols, FindSymbolsFails, KernelModule, NoKernelModule, Check, history

\* At first nothing has been made, and nobody was run.
LEMMA FailFreeAtFirst ==
  ASSUME Init
  PROVE  FailFree
  <1>1. /\ cached = <<>> /\ run.step = "idle" /\ constructed = {} /\ unmet = {}
        /\ configured = {p \in Plugins : conf[p] # Empty}
    BY DEF Init
  <1>2. \A p \in Plugins \ configured : conf[p].levels = <<>>
    BY <1>1 DEF Empty
  <1>3. BuiltInv
    BY <1>1, <1>2 DEF BuiltInv, Built
  <1>4. SharedInv
    BY <1>2 DEF SharedInv, LayerName
  <1>5. CauseInv /\ UnmetForCause
    BY <1>1 DEF CauseInv, UnmetForCause
  <1>6. ASSUME NEW p \in Plugins, conf[p].levels # <<>> PROVE ToBeBuilt(p)
    <2>1. PICK c : c = conf[p]
      OBVIOUS
    <2>2. c \in Provided[p]
      BY <2>1 DEF Init
    <2>3. /\ c \in Section /\ Last(c.levels).kind \in Accepts[p]
          /\ \A i \in DOMAIN c.levels : c.levels[i].name = None
      BY <1>6, <2>1, <2>2, ConfiguredSection
    <2>4. Last(c.levels) = c.levels[Len(c.levels)] /\ Len(c.levels) \in DOMAIN c.levels
      <3>1. PICK s : s = c.levels
        OBVIOUS
      <3>2. s \in Seq(Level) /\ s # <<>>
        BY <1>6, <2>1, <2>3, <3>1 DEF Section
      <3>3. Last(s) = s[Len(s)] /\ Len(s) \in DOMAIN s
        BY <3>2, TopOf
      <3> QED BY <3>1, <3>3
    <2>5. LayerName(c) = None
      BY <1>6, <2>1, <2>3, <2>4 DEF LayerName
    <2> QED BY <1>6, <2>1, <2>3, <2>5 DEF ToBeBuilt
  <1>7. TopsOnly
    BY <1>1, <1>6 DEF TopsOnly, Built, PartsInv, Constructing
  <1> QED BY <1>3, <1>4, <1>5, <1>7 DEF FailFree

\* The next run finds what the last one has left.
LEMMA FailFreeStarts ==
  ASSUME PieceInv, FailFree, NEW p \in Plugins, Start(p)
  PROVE  FailFree'
  <1>1. /\ UNCHANGED <<layers, tables, modules, conf, mixed, cached, configured, constructed, unmet, failed>>
        /\ run' = [plugin |-> p, step |-> "layer", magic |-> "first"] /\ run.step = "idle"
        /\ parts' = (conf[p].levels # <<>> /\ LayerName(conf[p]) = None)
    BY DEF Start, context, given, At
  <1>2. run'.step = "layer" /\ run'.plugin = p /\ run'.magic = "first"
    BY <1>1
  <1> SUFFICES ASSUME TopsOnly, BuiltInv, SharedInv
               PROVE  TopsOnly' /\ BuiltInv' /\ SharedInv' /\ CauseInv' /\ UnmetForCause'
    BY <1>1 DEF FailFree
  <1>3. BuiltInv'
    BY <1>1, <1>2, BuiltStays
  <1>4. SharedInv'
    <2> SUFFICES ASSUME NEW q \in Plugins, q \notin configured', q \notin mixed', LayerName(conf'[q]) # None,
                        \A r \in HasRun' : Suits(r, LayerName(conf[q]))'
                 PROVE  cached' # <<>> /\ cached'.top = LayerName(conf'[q])
      BY DEF SharedInv, Shared
    <2>1. LayerName(conf'[q]) = LayerName(conf[q]) /\ Grows
      BY <1>1, NothingChanges DEF PieceInv
    <2>2. HasRun \subseteq HasRun'
      BY <1>1 DEF HasRun, At
    <2>3. ~Constructing
      BY <1>1 DEF Constructing
    <2> QED BY <1>1, <2>1, <2>2, <2>3, SharedStays
  <1>5. CauseInv' /\ UnmetForCause'
    BY <1>2 DEF CauseInv, UnmetForCause
  <1>6. TopsOnly'
    <2>1. \A q \in Plugins : Built(q)' \/ ToBeBuilt(q)'
      BY <1>1, TopsStay DEF TopsOnly
    <2>2. parts' => ToBeBuilt(p)'
      BY <1>1, <2>1 DEF Built, LayerName
    <2>3. PartsInv'
      BY <1>2, <2>2 DEF PartsInv
    <2>4. ~Constructing'
      BY <1>2 DEF Constructing
    <2> QED BY <1>1, <2>1, <2>3, <2>4 DEF TopsOnly
  <1> QED BY <1>3, <1>4, <1>5, <1>6

\* As long as nothing fails, what was begun has been made, all that can share a layer share the
\* one that LayerStacker remembers, and a run goes without what the image does not have.
THEOREM FailFreeRuns == Spec => []FailFree
  <1>1. Init => FailFree
    BY FailFreeAtFirst
  <1>2. PieceInv /\ PieceInv' /\ StackInv /\ FailFree /\ [Next]_vars => FailFree'
    <2> SUFFICES ASSUME PieceInv, PieceInv', StackInv, FailFree, [Next]_vars PROVE FailFree'
      OBVIOUS
    <2>1. CASE Step
      <3> SUFFICES ASSUME ~failed' PROVE TopsOnly' /\ BuiltInv' /\ SharedInv' /\ CauseInv' /\ UnmetForCause'
        BY DEF FailFree
      <3>1. TopsOnly /\ BuiltInv /\ SharedInv /\ CauseInv /\ UnmetForCause
        BY <2>1, FailedStays DEF FailFree
      <3> QED BY <2>1, <3>1, TopsKept, BuiltKept, SharedKept, CauseKept
    <2>2. ASSUME NEW p \in Plugins, Start(p) PROVE FailFree'
      BY <2>2, FailFreeStarts
    <2>3. CASE UNCHANGED vars
      <3>1. /\ UNCHANGED <<layers, tables, modules, conf, cached, configured, stacking, run>>
            /\ UNCHANGED <<parts, depth, constructed, unmet, failed, mixed>>
        BY <2>3 DEF vars, context, given, search, history
      <3>2. BuiltInv => BuiltInv'
        BY <3>1 DEF BuiltInv, Built, Constructing
      <3>3. SharedInv => SharedInv'
        BY <3>1 DEF SharedInv, Shared, HasRun, At, Suits, Constructing
      <3>4. CauseInv => CauseInv'
        BY <3>1 DEF CauseInv, LayerSatisfied, TableSatisfied, Satisfied, NothingFound, NoSymbols, Suits, KernelOffset
      <3>5. UnmetForCause => UnmetForCause'
        BY <3>1 DEF UnmetForCause, KernelOffset
      <3>6. TopsOnly => TopsOnly'
        BY <3>1 DEF TopsOnly, Built, ToBeBuilt, PartsInv, LayerSatisfied, Suits, Constructing
      <3> QED BY <3>1, <3>2, <3>3, <3>4, <3>5, <3>6 DEF FailFree
    <2> QED BY <2>1, <2>2, <2>3 DEF Next
  <1> QED BY <1>1, <1>2, PiecesFit, StackingInductive, PTL DEF Spec

\* A run that fails without a failure has its reason in the image.
THEOREM UnmetHaveTheirCause == Spec => []UnmetForCause
  <1>1. FailFree => UnmetForCause
    BY DEF FailFree, UnmetForCause
  <1> QED BY <1>1, FailFreeRuns, PTL

\* Plugins that can share a stack of layers do.
THEOREM StacksAreShared == Spec => []OneStack
  <1>1. PieceInv /\ FailFree => OneStack
    <2> SUFFICES ASSUME PieceInv, FailFree, ~failed,
                        NEW p \in Plugins \ (configured \cup mixed), LayerName(conf[p]) # None,
                        NEW q \in Plugins \ (configured \cup mixed), LayerName(conf[q]) # None,
                        Kinds(conf[p].levels) = Kinds(conf[q].levels), Shared(p)
                 PROVE  LayerName(conf[p]) = LayerName(conf[q])
      BY DEF OneStack, Shared, HasRun
    <2>1. /\ SectionTyped(p) /\ SectionTyped(q) /\ OfOneKind(p) /\ OfOneKind(q)
      BY DEF PieceInv, Sections, SectionInv
    <2>2. PICK s, t : s = conf[p].levels /\ t = conf[q].levels
      OBVIOUS
    <2>3. s \in Seq(Level) /\ t \in Seq(Level) /\ s # <<>> /\ t # <<>>
      BY <2>1, <2>2 DEF SectionTyped, Section, LayerName
    <2>4. Last(s).kind = Last(t).kind
      <3>1. Len(s) = Len(t) /\ \A i \in DOMAIN s : s[i].kind = t[i].kind
        BY <2>2, <2>3, SameKinds
      <3>2. Len(s) \in DOMAIN s /\ Last(s) = s[Len(s)] /\ Last(t) = t[Len(t)]
        BY <2>3, TopOf
      <3> QED BY <3>1, <3>2
    <2>5. layers[LayerName(conf[p])].kind = Last(s).kind /\ layers[LayerName(conf[q])].kind = Last(t).kind
      BY <2>1, <2>2, <2>3 DEF OfOneKind, LevelFits, LayerName
    <2>6. Shared(q)
      BY <2>4, <2>5 DEF Shared, Suits
    <2>7. SharedInv /\ (Constructing => cached = <<>>)
      BY DEF FailFree, PieceInv, RunInv
    <2> QED BY <2>6, <2>7 DEF SharedInv
  <1> QED BY <1>1, FailFreeRuns, PiecesFit, PTL

=============================================================================
