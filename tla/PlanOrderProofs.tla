--------------------------- MODULE PlanOrderProofs ---------------------------
(***************************************************************************)
(* Theorems about PlanOrder, for plans of any size.                        *)
(***************************************************************************)
EXTENDS PlanOrder, TLAPS

\* What the loop of topological_order keeps: the bookkeeping of what is left
\* and what it waits for, once the plan is accepted.
Bookkeeping ==
  /\ stage \in {"read", "refused"} => out = <<>>
  /\ stage \in {"order", "wave", "cycle", "ordered"} =>
       /\ Known
       /\ remaining = Ids \ Placed
       /\ \A g \in remaining : incoming[g] = deps[g] \ Placed
  /\ stage # "wave" => ready = {}
  /\ ready \subseteq Free
  /\ stage = "cycle" => remaining # {} /\ Free = {}
  /\ stage = "ordered" => remaining = {}

\* The beginning of the order that is placed so far.
Prefix ==
  /\ \A i \in 1..Len(out) : \A d \in deps[out[i]] : \E j \in 1..(i - 1) : out[j] = d
  /\ \A i, j \in 1..Len(out) : out[i] = out[j] => i = j

\* No goal of a cycle is ever placed.
KnotsStay == \A s \in SUBSET Ids : Knot(s) => s \cap Placed = {}

\* The goals of the waves before wave k.
Above(depth, k) == {h \in Placed : depth[h] < k}

\* During wave k: what is in it waits for a goal of the wave before, and for
\* none later; what is left over waits for a goal that is not above it.
InWave(depth, k) ==
  /\ k \leq Len(out)
  /\ ready = {} => k < Len(out)
  /\ \A g \in Placed : depth[g] \leq k
  /\ \A g \in ready :
       /\ \A d \in deps[g] : depth[d] < k
       /\ k > 0 => \E d \in deps[g] : depth[d] = k - 1
       /\ \A h \in Placed : depth[h] = k => Sorts(h, g)
  /\ \A g \in remaining \ ready : ~(deps[g] \subseteq Above(depth, k))

\* Before wave k: nothing that is left could have been in an earlier one.
BeforeWave(depth, k) ==
  /\ k \leq Len(out)
  /\ \A g \in Placed : depth[g] < k
  /\ k > 0 => \A g \in remaining : ~(deps[g] \subseteq Above(depth, k - 1))

\* The goals that are placed have a depth, and are sorted by it.
Layers(depth, k) ==
  /\ IsDepth(depth, Placed)
  /\ SortedBy(depth)
  /\ stage = "wave" => InWave(depth, k)
  /\ stage # "wave" => BeforeWave(depth, k)

\* The wave a goal is placed in is its depth.
WavesAreDepths ==
  stage \in {"order", "wave", "cycle", "ordered"} =>
    \E depth \in [Ids -> Nat], k \in Nat : Layers(depth, k)

PlanInv == Bookkeeping /\ Prefix /\ KnotsStay /\ WavesAreDepths

\* Every step of the ordering keeps the types.
LEMMA OrderTypeStep == TypeOK /\ [Next]_vars => TypeOK'
<1> SUFFICES ASSUME TypeOK, [Next]_vars PROVE TypeOK'
  OBVIOUS
<1> USE DEF TypeOK, plan
<1>1. CASE Refuse  BY <1>1 DEF Refuse
<1>2. CASE Accept  BY <1>2 DEF Accept
<1>3. CASE FormWave  BY <1>3 DEF FormWave, Free
<1>4. CASE FindCycle  BY <1>4 DEF FindCycle
<1>5. CASE EndWave  BY <1>5 DEF EndWave
<1>6. CASE Return  BY <1>6 DEF Return
<1>7. ASSUME NEW g \in Ids, Place(g) PROVE TypeOK'  BY <1>7 DEF Place, Release
<1>8. CASE UNCHANGED vars  BY <1>8 DEF vars
<1> QED
  BY <1>1, <1>2, <1>3, <1>4, <1>5, <1>6, <1>7, <1>8 DEF Next, Finished

\* What one more goal at the end does to the goals that are placed.
LEMMA PlacedGrows ==
  ASSUME TypeOK, NEW g \in Ids, Place(g)
  PROVE  /\ Placed' = Placed \cup {g}
         /\ Len(out') = Len(out) + 1
         /\ out'[Len(out) + 1] = g
         /\ \A i \in 1..Len(out) : out'[i] = out[i]
<1>1. /\ out \in Seq(Ids)
      /\ out' = Append(out, g)
  BY DEF TypeOK, Place
<1>2. /\ Len(out) \in Nat
      /\ Len(out') = Len(out) + 1
      /\ out'[Len(out) + 1] = g
      /\ \A i \in 1..Len(out) : out'[i] = out[i]
  BY <1>1
<1>3. 1..Len(out') = 1..Len(out) \cup {Len(out) + 1}
  BY <1>2
<1> QED  BY <1>2, <1>3 DEF Placed

\* A goal is placed when everything it depends on is, and was not placed before.
LEMMA PlacedFree ==
  ASSUME TypeOK, Bookkeeping, NEW g \in Ids, Place(g)
  PROVE  g \notin Placed /\ deps[g] \subseteq Placed
<1>1. g \in Free /\ stage = "wave"  BY DEF Place, Bookkeeping
<1> QED  BY <1>1 DEF Bookkeeping, Free

\* The bookkeeping stays right.
LEMMA BookStep == TypeOK /\ Bookkeeping /\ [Next]_vars => Bookkeeping'
<1> SUFFICES ASSUME TypeOK, Bookkeeping, [Next]_vars PROVE Bookkeeping'
  OBVIOUS
<1> USE DEF TypeOK, Bookkeeping, plan, Known, Free
<1>1. CASE Refuse  BY <1>1 DEF Refuse
<1>2. CASE Accept
  <2>1. Placed' = {}  BY <1>2 DEF Accept, Placed
  <2> QED  BY <1>2, <2>1 DEF Accept
<1>3. CASE FormWave  BY <1>3 DEF FormWave, Placed
<1>4. CASE FindCycle  BY <1>4 DEF FindCycle, Placed
<1>5. CASE EndWave  BY <1>5 DEF EndWave, Placed
<1>6. CASE Return  BY <1>6 DEF Return, Placed
<1>7. ASSUME NEW g \in Ids, Place(g) PROVE Bookkeeping'
  <2>1. Placed' = Placed \cup {g}  BY <1>7, PlacedGrows
  <2>2. /\ remaining' = remaining \ {g}
        /\ \A h \in remaining' : incoming'[h] = incoming[h] \ {g}
        /\ ready' = ready \ {g}
        /\ stage = "wave" /\ stage' = "wave" /\ deps' = deps
    BY <1>7 DEF Place, Release
  <2>3. remaining' = Ids \ Placed'  BY <2>1, <2>2
  <2>4. \A h \in remaining' : incoming'[h] = deps'[h] \ Placed'  BY <2>1, <2>2
  <2>5. ready' \subseteq Free'  BY <2>2
  <2> QED  BY <2>2, <2>3, <2>4, <2>5
<1>8. CASE UNCHANGED vars  BY <1>8 DEF vars, Placed
<1> QED
  BY <1>1, <1>2, <1>3, <1>4, <1>5, <1>6, <1>7, <1>8 DEF Next, Finished

\* Dependencies stay in front, and no goal comes twice.
LEMMA PrefixStep == TypeOK /\ Bookkeeping /\ Prefix /\ [Next]_vars => Prefix'
<1> SUFFICES ASSUME TypeOK, Bookkeeping, Prefix, [Next]_vars PROVE Prefix'
  OBVIOUS
<1>1. CASE UNCHANGED <<deps, out>>  BY <1>1 DEF Prefix
<1>2. ASSUME NEW g \in Ids, Place(g) PROVE Prefix'
  <2> DEFINE n == Len(out)
  <2>1. /\ Len(out') = n + 1
        /\ out'[n + 1] = g
        /\ \A i \in 1..n : out'[i] = out[i]
        /\ n \in Nat
        /\ deps' = deps
    BY <1>2, PlacedGrows DEF TypeOK, Place, plan
  <2>2. g \notin Placed /\ deps[g] \subseteq Placed  BY <1>2, PlacedFree
  <2> HIDE DEF n
  <2>3. \A i \in 1..n : out[i] # g  BY <2>2 DEF Placed, n
  <2>4. \A d \in deps[g] : \E j \in 1..n : out[j] = d  BY <2>2 DEF Placed, n
  <2>5. ASSUME NEW i \in 1..(n + 1), NEW d \in deps'[out'[i]]
        PROVE  \E j \in 1..(i - 1) : out'[j] = d
    <3>1. CASE i = n + 1  BY <2>1, <2>4, <2>5, <3>1
    <3>2. CASE i # n + 1
      <4>1. i \in 1..n  BY <2>1, <3>2
      <4>2. PICK j \in 1..(i - 1) : out[j] = d  BY <2>1, <2>5, <4>1 DEF Prefix, n
      <4> QED  BY <2>1, <4>1, <4>2
    <3> QED  BY <3>1, <3>2
  <2>6. ASSUME NEW i \in 1..(n + 1), NEW j \in 1..(n + 1), out'[i] = out'[j]
        PROVE  i = j
    BY <2>1, <2>3, <2>6 DEF Prefix, n
  <2> QED  BY <2>1, <2>5, <2>6 DEF Prefix
<1> QED
  BY <1>1, <1>2
  DEF Next, Refuse, Accept, FormWave, FindCycle, EndWave, Return, Finished, vars, plan

\* A goal that waits for one of its own cycle is never free.
LEMMA KnotStep == TypeOK /\ Bookkeeping /\ KnotsStay /\ [Next]_vars => KnotsStay'
<1> SUFFICES ASSUME TypeOK, Bookkeeping, KnotsStay, [Next]_vars PROVE KnotsStay'
  OBVIOUS
<1>1. CASE UNCHANGED <<deps, out>>  BY <1>1 DEF KnotsStay, Knot, Placed
<1>2. ASSUME NEW g \in Ids, Place(g) PROVE KnotsStay'
  <2>1. Placed' = Placed \cup {g} /\ deps' = deps
    BY <1>2, PlacedGrows DEF Place, plan
  <2>2. deps[g] \subseteq Placed  BY <1>2, PlacedFree
  <2>3. ASSUME NEW s \in SUBSET Ids, Knot(s) PROVE s \cap Placed' = {}
    <3>1. s \cap Placed = {}  BY <2>3 DEF KnotsStay
    <3>2. g \notin s  BY <2>2, <2>3, <3>1 DEF Knot
    <3> QED  BY <2>1, <3>1, <3>2
  <2> QED  BY <2>1, <2>3 DEF KnotsStay, Knot
<1> QED
  BY <1>1, <1>2
  DEF Next, Refuse, Accept, FormWave, FindCycle, EndWave, Return, Finished, vars, plan

\* The goal that is placed next in wave k gets the depth k.
LEMMA PlaceLayers ==
  ASSUME TypeOK, Bookkeeping, Prefix, NEW g \in Ids, Place(g),
         NEW depth \in [Ids -> Nat], NEW k \in Nat, Layers(depth, k)
  PROVE  Layers([depth EXCEPT ![g] = k], k)'
<1> DEFINE n == Len(out)
           e == [depth EXCEPT ![g] = k]
<1>1. /\ Placed' = Placed \cup {g}
      /\ Len(out') = n + 1
      /\ out'[n + 1] = g
      /\ \A i \in 1..n : out'[i] = out[i]
      /\ n \in Nat
  BY PlacedGrows DEF TypeOK
<1>2. /\ stage = "wave" /\ stage' = "wave"
      /\ deps' = deps /\ prio' = prio
      /\ remaining' = remaining \ {g}
      /\ ready' = ready \ {g}
      /\ g \in ready
      /\ \A h \in ready \ {g} : Sorts(g, h)
  BY DEF Place, plan
<1>3. g \notin Placed /\ deps[g] \subseteq Placed  BY PlacedFree
<1>4. /\ Placed \subseteq Ids
      /\ e[g] = k
      /\ \A h \in Placed : e[h] = depth[h] /\ depth[h] \in Nat
  BY <1>3 DEF TypeOK, Placed
<1>5. \A i \in 1..n : out[i] \in Placed  BY DEF Placed
<1>6. ASSUME NEW h \in Placed, NEW d \in deps[h] PROVE d \in Placed
  <2>1. PICK i \in 1..Len(out) : out[i] = h  BY DEF Placed
  <2>2. PICK j \in 1..(i - 1) : out[j] = d  BY <2>1 DEF Prefix
  <2>3. j \in 1..Len(out)  BY <1>1, <2>1, <2>2
  <2> QED  BY <2>2, <2>3 DEF Placed
<1>7. InWave(depth, k) /\ IsDepth(depth, Placed) /\ SortedBy(depth)
  BY <1>2 DEF Layers
<1> HIDE DEF n, e
<1>8. IsDepth(e, Placed)'
  <2>1. ASSUME NEW h \in Placed
        PROVE  /\ \A d \in deps[h] : e[d] < e[h]
               /\ e[h] > 0 => \E d \in deps[h] : e[d] = e[h] - 1
    <3>1. /\ \A d \in deps[h] : depth[d] < depth[h]
          /\ depth[h] > 0 => \E d \in deps[h] : depth[d] = depth[h] - 1
      BY <1>7 DEF IsDepth
    <3>2. e[h] = depth[h] /\ \A d \in deps[h] : e[d] = depth[d]
      BY <1>4, <1>6
    <3> QED  BY <3>1, <3>2
  <2>2. /\ \A d \in deps[g] : e[d] < e[g]
        /\ e[g] > 0 => \E d \in deps[g] : e[d] = e[g] - 1
    <3>1. /\ \A d \in deps[g] : depth[d] < k
          /\ k > 0 => \E d \in deps[g] : depth[d] = k - 1
      BY <1>2, <1>7 DEF InWave
    <3>2. e[g] = k /\ \A d \in deps[g] : e[d] = depth[d]
      BY <1>3, <1>4
    <3> QED  BY <3>1, <3>2
  <2> QED  BY <1>1, <1>2, <2>1, <2>2 DEF IsDepth
<1>9. SortedBy(e)'
  <2>1. ASSUME NEW i \in 1..n, NEW j \in 1..n, i < j
        PROVE  Before(e, out[i], out[j])
    <3>1. Before(depth, out[i], out[j])  BY <1>7, <2>1 DEF SortedBy, n
    <3> QED  BY <1>4, <1>5, <3>1 DEF Before
  <2>2. ASSUME NEW h \in Placed PROVE Before(e, h, g)
    <3>1. e[h] = depth[h] /\ e[g] = k /\ depth[h] \in Nat
      BY <1>4
    <3>2. depth[h] \leq k /\ (depth[h] = k => Sorts(h, g))
      BY <1>2, <1>7 DEF InWave
    <3> QED  BY <3>1, <3>2 DEF Before, Sorts
  <2>3. ASSUME NEW i \in 1..(n + 1), NEW j \in 1..(n + 1), i < j
        PROVE  Before(e, out'[i], out'[j])
    <3>1. i \in 1..n  BY <1>1, <2>3
    <3>2. CASE j = n + 1  BY <1>1, <1>5, <2>2, <3>1, <3>2
    <3>3. CASE j # n + 1
      <4>1. j \in 1..n  BY <1>1, <3>3
      <4> QED  BY <1>1, <2>1, <2>3, <3>1, <4>1
    <3> QED  BY <3>2, <3>3
  <2> QED  BY <1>1, <1>2, <2>3 DEF SortedBy, Before
<1>10. Above(e, k)' = Above(depth, k)
  BY <1>1, <1>4 DEF Above
<1>11. InWave(e, k)'
  <2>1. k < Len(out')  BY <1>1, <1>7 DEF InWave, n
  <2>2. \A h \in Placed' : e[h] \leq k  BY <1>1, <1>4, <1>7 DEF InWave
  <2>3. ASSUME NEW h \in ready \ {g}
        PROVE  /\ \A d \in deps[h] : e[d] < k
               /\ k > 0 => \E d \in deps[h] : e[d] = k - 1
               /\ \A f \in Placed' : e[f] = k => Sorts(f, h)
    <3>1. /\ \A d \in deps[h] : depth[d] < k
          /\ k > 0 => \E d \in deps[h] : depth[d] = k - 1
          /\ \A f \in Placed : depth[f] = k => Sorts(f, h)
      BY <1>7 DEF InWave
    <3>2. deps[h] \subseteq Placed
      BY <1>2 DEF Bookkeeping, Free
    <3>3. \A d \in deps[h] : e[d] = depth[d]  BY <1>4, <3>2
    <3>4. Sorts(g, h)  BY <1>2
    <3> QED  BY <1>1, <1>4, <3>1, <3>3, <3>4
  <2>4. \A h \in remaining' \ ready' : ~(deps[h] \subseteq Above(depth, k))
    BY <1>2, <1>7 DEF InWave
  <2> QED  BY <1>2, <1>10, <2>1, <2>2, <2>3, <2>4 DEF InWave, Sorts
<1> QED  BY <1>2, <1>8, <1>9, <1>11 DEF Layers, e

\* What every step makes of the waves.
LEMMA WavesStep ==
  TypeOK /\ Bookkeeping /\ Prefix /\ WavesAreDepths /\ [Next]_vars => WavesAreDepths'
<1> SUFFICES ASSUME TypeOK, Bookkeeping, Prefix, WavesAreDepths, [Next]_vars
             PROVE  WavesAreDepths'
  OBVIOUS
<1> USE DEF plan
<1>1. CASE Refuse  BY <1>1 DEF Refuse, WavesAreDepths
<1>2. CASE Accept
  <2>1. /\ stage' = "order"
        /\ Placed' = {}
        /\ out' = <<>>
    BY <1>2 DEF Accept, Placed, Bookkeeping
  <2>2. Layers([g \in Ids |-> 0], 0)'
    BY <2>1 DEF Layers, BeforeWave, IsDepth, SortedBy
  <2>3. [g \in Ids |-> 0] \in [Ids -> Nat] /\ 0 \in Nat  OBVIOUS
  <2> QED  BY <2>2, <2>3 DEF WavesAreDepths
<1>3. ASSUME NEW g \in Ids, Place(g) PROVE WavesAreDepths'
  <2>1. PICK depth \in [Ids -> Nat], k \in Nat : Layers(depth, k)
    BY <1>3 DEF Place, WavesAreDepths
  <2>2. Layers([depth EXCEPT ![g] = k], k)'  BY <1>3, <2>1, PlaceLayers
  <2>3. [depth EXCEPT ![g] = k] \in [Ids -> Nat]  OBVIOUS
  <2> QED  BY <2>2, <2>3 DEF WavesAreDepths
<1>4. ASSUME UNCHANGED <<plan, remaining, out>>, stage # "read", stage # "refused",
             stage \in {"order", "wave", "cycle", "ordered"},
             FormWave \/ FindCycle \/ EndWave \/ Return
      PROVE  WavesAreDepths'
  <2>1. PICK depth \in [Ids -> Nat], k \in Nat : Layers(depth, k)
    BY <1>4 DEF WavesAreDepths
  <2>2. /\ Placed' = Placed
        /\ Len(out) \in Nat
        /\ \A m \in Nat : Above(depth, m)' = Above(depth, m)
        /\ IsDepth(depth, Placed)' /\ SortedBy(depth)'
    BY <1>4, <2>1 DEF Placed, Above, Layers, IsDepth, SortedBy, Before, TypeOK
  <2>3. \A h \in Placed : depth[h] \in Nat
    BY DEF Placed, TypeOK
  <2>4. CASE FindCycle \/ Return
    <3>1. BeforeWave(depth, k) /\ stage' # "wave"
      BY <2>1, <2>4 DEF Layers, FindCycle, Return
    <3>2. BeforeWave(depth, k)'
      <4>1. k > 0 => k - 1 \in Nat  OBVIOUS
      <4> QED  BY <1>4, <2>2, <3>1, <4>1 DEF BeforeWave
    <3> QED  BY <2>2, <3>1, <3>2 DEF Layers, WavesAreDepths
  <2>5. CASE FormWave
    <3>1. /\ BeforeWave(depth, k)
          /\ stage' = "wave" /\ ready' = Free /\ Free # {}
          /\ remaining = Ids \ Placed
          /\ \A g \in remaining : incoming[g] = deps[g] \ Placed
      BY <2>1, <2>5 DEF Layers, FormWave, Bookkeeping
    <3>2. ASSUME NEW g \in Free
          PROVE  /\ \A d \in deps[g] : depth[d] < k
                 /\ k > 0 => \E d \in deps[g] : depth[d] = k - 1
      <4>1. g \in remaining /\ deps[g] \subseteq Placed  BY <3>1 DEF Free
      <4>2. \A d \in deps[g] : depth[d] < k /\ depth[d] \in Nat
        BY <2>3, <3>1, <4>1 DEF BeforeWave
      <4>3. ASSUME k > 0 PROVE \E d \in deps[g] : depth[d] = k - 1
        <5>1. ~(deps[g] \subseteq Above(depth, k - 1))
          BY <3>1, <4>1, <4>3 DEF BeforeWave
        <5>2. PICK d \in deps[g] : ~(depth[d] < k - 1)
          BY <4>1, <5>1 DEF Above
        <5> QED  BY <4>2, <5>2
      <4> QED  BY <4>2, <4>3
    <3>3. \A h \in Placed : depth[h] < k /\ depth[h] \in Nat
      BY <2>3, <3>1 DEF BeforeWave
    <3>4. \A g \in remaining \ Free : ~(deps[g] \subseteq Above(depth, k))
      BY <3>1 DEF Free, Above
    <3>5. InWave(depth, k)'
      <4>1. k \leq Len(out)  BY <3>1 DEF BeforeWave
      <4>2. \A h \in Placed : depth[h] \leq k /\ depth[h] # k  BY <3>3
      <4> QED  BY <1>4, <2>2, <3>1, <3>2, <3>4, <4>1, <4>2 DEF InWave
    <3> QED  BY <2>2, <3>1, <3>5 DEF Layers, WavesAreDepths
  <2>6. CASE EndWave
    <3>1. InWave(depth, k) /\ ready = {} /\ stage' = "order"
      BY <2>1, <2>6 DEF Layers, EndWave
    <3>2. /\ k + 1 \leq Len(out)
          /\ \A h \in Placed : depth[h] < k + 1
          /\ \A g \in remaining : ~(deps[g] \subseteq Above(depth, k))
      BY <2>2, <2>3, <3>1 DEF InWave
    <3>3. BeforeWave(depth, k + 1)'
      <4>1. (k + 1) - 1 = k /\ k \in Nat  OBVIOUS
      <4> QED  BY <1>4, <2>2, <3>2, <4>1 DEF BeforeWave
    <3>4. Layers(depth, k + 1)'  BY <2>2, <3>1, <3>3 DEF Layers
    <3>5. k + 1 \in Nat  OBVIOUS
    <3> QED  BY <3>4, <3>5 DEF WavesAreDepths
  <2> QED  BY <1>4, <2>4, <2>5, <2>6
<1>5. CASE FormWave  BY <1>4, <1>5 DEF FormWave
<1>6. CASE FindCycle  BY <1>4, <1>6 DEF FindCycle
<1>7. CASE EndWave  BY <1>4, <1>7 DEF EndWave
<1>8. CASE Return  BY <1>4, <1>8 DEF Return
<1>9. CASE UNCHANGED vars
  <2>1. /\ UNCHANGED <<stage, deps, prio, remaining, ready, out>>
        /\ Placed' = Placed
    BY <1>9 DEF vars, Placed
  <2>2. ASSUME NEW depth \in [Ids -> Nat], NEW k \in Nat, Layers(depth, k)
        PROVE  Layers(depth, k)'
    <3>1. IsDepth(depth, Placed)' /\ SortedBy(depth)'
      BY <2>1, <2>2 DEF Layers, IsDepth, SortedBy, Before
    <3>2. stage = "wave" => InWave(depth, k)'
      BY <2>1, <2>2 DEF Layers, InWave, Above, Sorts
    <3>3. stage # "wave" => BeforeWave(depth, k)'
      BY <2>1, <2>2 DEF Layers, BeforeWave, Above
    <3> QED  BY <2>1, <3>1, <3>2, <3>3 DEF Layers
  <2> QED  BY <2>1, <2>2 DEF WavesAreDepths
<1> QED
  BY <1>1, <1>2, <1>3, <1>5, <1>6, <1>7, <1>8, <1>9 DEF Next, Finished

\* The types and the inductive invariant of the ordering.
THEOREM OrderInvariant == Spec => [](TypeOK /\ PlanInv)
<1>1. Init => TypeOK /\ PlanInv
  <2> SUFFICES ASSUME Init PROVE TypeOK /\ PlanInv
    OBVIOUS
  <2>1. TypeOK  BY DEF Init, TypeOK
  <2>2. Placed = {}  BY DEF Init, Placed
  <2>3. Bookkeeping  BY DEF Init, Bookkeeping
  <2>4. Prefix  BY DEF Init, Prefix
  <2>5. KnotsStay  BY <2>2 DEF KnotsStay
  <2>6. WavesAreDepths  BY DEF Init, WavesAreDepths
  <2> QED  BY <2>1, <2>3, <2>4, <2>5, <2>6 DEF PlanInv
<1>2. TypeOK /\ PlanInv /\ [Next]_vars => (TypeOK /\ PlanInv)'
  BY OrderTypeStep, BookStep, PrefixStep, KnotStep, WavesStep DEF PlanInv
<1> QED  BY <1>1, <1>2, PTL DEF Spec

\* In whatever order topological_order returns the goals of a plan, each comes
\* once and after all it depends on, and none is left out.
THEOREM DependenciesFirst == Spec => []DepsFirst
<1>1. TypeOK /\ PlanInv => DepsFirst
  <2> SUFFICES ASSUME TypeOK, PlanInv PROVE DepsFirst
    OBVIOUS
  <2>1. Placed \subseteq Ids
    BY DEF TypeOK, Placed
  <2>2. stage = "ordered" => Placed = Ids
    BY <2>1 DEF PlanInv, Bookkeeping
  <2> QED  BY <2>2 DEF PlanInv, Prefix, DepsFirst
<1> QED  BY <1>1, OrderInvariant, PTL

\* topological_order raises exactly for the plans that cannot be ordered.
THEOREM CyclesOnly == Spec => []CycleIsReal
<1>1. TypeOK /\ PlanInv => CycleIsReal
  <2> SUFFICES ASSUME TypeOK, PlanInv PROVE CycleIsReal
    OBVIOUS
  <2> USE DEF PlanInv, Bookkeeping
  <2>1. stage = "cycle" => Knot(remaining)
    BY DEF Knot, Free, Known, TypeOK
  <2>2. stage = "ordered" => \A s \in SUBSET Ids : ~Knot(s)
    <3>1. stage = "ordered" => Ids \subseteq Placed  OBVIOUS
    <3> QED  BY <3>1 DEF KnotsStay, Knot
  <2>3. stage \in {"cycle", "ordered"} => \A g \in Ids : deps[g] \subseteq Ids
    BY DEF Known
  <2> QED  BY <2>1, <2>2, <2>3 DEF CycleIsReal
<1> QED  BY <1>1, OrderInvariant, PTL

\* Whatever order the sets of topological_order are gone through, the result is
\* sorted by depth, priority and id: the plan alone determines it.
THEOREM OrderDetermined == Spec => []OrderIsDetermined
<1>1. TypeOK /\ PlanInv => OrderIsDetermined
  <2> SUFFICES ASSUME TypeOK, PlanInv, stage = "ordered"
               PROVE  \E depth \in [Ids -> 0..Len(out)] : IsDepth(depth, Ids) /\ SortedBy(depth)
    BY DEF OrderIsDetermined
  <2>1. PICK depth \in [Ids -> Nat], k \in Nat : Layers(depth, k)
    BY DEF PlanInv, WavesAreDepths
  <2>2. Placed = Ids
    BY DEF PlanInv, Bookkeeping, TypeOK, Placed
  <2>3. IsDepth(depth, Ids) /\ SortedBy(depth) /\ BeforeWave(depth, k)
    BY <2>1, <2>2 DEF Layers
  <2>4. Len(out) \in Nat  BY DEF TypeOK
  <2>5. ASSUME NEW g \in Ids PROVE depth[g] \in 0..Len(out)
    <3>1. depth[g] \in Nat  OBVIOUS
    <3>2. depth[g] < k /\ k \leq Len(out)  BY <2>2, <2>3 DEF BeforeWave
    <3> QED  BY <2>4, <3>1, <3>2
  <2>6. depth \in [Ids -> 0..Len(out)]  BY <2>5
  <2> QED  BY <2>3, <2>6
<1> QED  BY <1>1, OrderInvariant, PTL
=============================================================================
