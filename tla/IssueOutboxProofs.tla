------------------------- MODULE IssueOutboxProofs --------------------------
(***************************************************************************)
(* What the operations of IssueOutbox make of a state.  A Sound state is one*)
(* chain: one action waits, every slice that is kept leads up to it, and    *)
(* what continues a slice comes after it.  Every operation whose guard holds*)
(* takes a sound state to a sound state, and a sound state is one that      *)
(* validateDevelopmentState accepts.                                        *)
(*                                                                          *)
(* Lineage and SupersededProposalChain are found level by level; what they  *)
(* hold at the last level is proved by induction on the levels, and that a  *)
(* chain is exhausted by then from the bound on its ordinals.               *)
(***************************************************************************)
EXTENDS IssueOutbox, FiniteSetTheorems, WellFoundedInduction, TLAPS

-----------------------------------------------------------------------------
(***************************************************************************)
(* Induction over the natural numbers, for a set of them: a set that holds *)
(* 0 and the successor of each of its members is Nat.  And its companion,  *)
(* the least member of a set.                                              *)
(***************************************************************************)
Less == {p \in Nat \X Nat : p[1] < p[2]}

LEMMA LessIsWellFounded == IsWellFoundedOn(Less, Nat)
  BY NatLessThanWellFounded, Zenon DEF OpToRel, Less

LEMMA LessPair == ASSUME NEW x \in Nat, NEW y \in Nat, x < y PROVE <<x, y>> \in Less
<1>1. <<x, y>> \in Nat \X Nat
  OBVIOUS
<1>2. <<x, y>>[1] < <<x, y>>[2]
  OBVIOUS
<1> QED
  BY <1>1, <1>2, Zenon DEF Less

LEMMA Least ==
    ASSUME NEW T \in SUBSET Nat, T # {}
    PROVE  \E x \in T : \A y \in T : x <= y
<1>1. PICK x \in T : \A y \in T : ~ (<<y, x>> \in Less)
  <2>1. T \subseteq Nat
    OBVIOUS
  <2> QED
    BY <2>1, LessIsWellFounded, WFMin
<1>2. ASSUME NEW y \in T PROVE x <= y
  <2>1. x \in Nat /\ y \in Nat
    OBVIOUS
  <2>2. ~ (y < x)
    BY <1>1, <2>1, LessPair
  <2> QED
    BY <2>1, <2>2
<1> QED
  BY <1>2

LEMMA Induction ==
    ASSUME NEW T \in SUBSET Nat, 0 \in T, \A n \in T : n + 1 \in T
    PROVE  T = Nat
<1> SUFFICES ASSUME Nat \ T # {} PROVE FALSE
  OBVIOUS
<1>1. PICK x \in Nat \ T : \A y \in Nat \ T : x <= y
  BY Least
<1>2. x # 0 /\ x - 1 \in Nat
  OBVIOUS
<1>3. x - 1 \in T
  BY <1>1, <1>2
<1>4. x - 1 + 1 = x
  OBVIOUS
<1> QED
  BY <1>1, <1>2, <1>3, <1>4
-----------------------------------------------------------------------------
(***************************************************************************)
(* The walk along the slices.  A function that is defined by recursion is  *)
(* one that satisfies its equation, if there is any: there is, by          *)
(* induction on how far it is defined.                                     *)
(***************************************************************************)
Climbs(s, i, up, m) ==
    up = [n \in 0..m |-> IF n = 0 THEN {i}
                         ELSE up[n - 1] \cup Parents(s, up[n - 1])]

LEMMA ClimbExists ==
    ASSUME NEW s, NEW i, NEW m \in Nat
    PROVE  \E up : Climbs(s, i, up, m)
<1> DEFINE T == {k \in Nat : \E up : Climbs(s, i, up, k)}
<1>1. 0 \in T
  <2> DEFINE g == [n \in 0..0 |-> {i}]
  <2>1. Climbs(s, i, g, 0)
    BY DEF Climbs
  <2> QED
    BY <2>1
<1>2. ASSUME NEW k \in T PROVE k + 1 \in T
  <2>1. PICK up : Climbs(s, i, up, k)
    OBVIOUS
  <2> DEFINE top == up[k] \cup Parents(s, up[k])
             g == [n \in 0..k + 1 |-> IF n = k + 1 THEN top ELSE up[n]]
  <2>2. \A n \in 0..k : g[n] = up[n]
    OBVIOUS
  <2>3. g[k + 1] = top
    OBVIOUS
  <2>4. ASSUME NEW n \in 0..k + 1
        PROVE  g[n] = IF n = 0 THEN {i}
                      ELSE g[n - 1] \cup Parents(s, g[n - 1])
    <3> HIDE DEF g
    <3>1. CASE n = k + 1
      <4>1. n - 1 = k /\ k \in 0..k /\ n # 0
        BY <3>1
      <4> QED
        BY <2>2, <2>3, <3>1, <4>1
    <3>2. CASE n \in 0..k /\ n # 0
      <4>1. n - 1 \in 0..k
        BY <3>2
      <4>2. up[n] = up[n - 1] \cup Parents(s, up[n - 1])
        BY <2>1, <3>2, Zenon DEF Climbs
      <4> QED
        BY <2>2, <3>2, <4>1, <4>2
    <3>3. CASE n = 0
      <4>1. 0 \in 0..k
        OBVIOUS
      <4>2. up[0] = {i}
        BY <2>1, <4>1, Zenon DEF Climbs
      <4> QED
        BY <2>2, <3>3, <4>1, <4>2
    <3> QED
      BY <3>1, <3>2, <3>3
  <2>5. Climbs(s, i, g, k + 1)
    <3>1. g = [n \in 0..k + 1 |-> g[n]]
      OBVIOUS
    <3> HIDE DEF g
    <3>2. g = [n \in 0..k + 1 |-> IF n = 0 THEN {i}
                                  ELSE g[n - 1] \cup Parents(s, g[n - 1])]
      BY <2>4, <3>1
    <3> QED
      BY <3>2 DEF Climbs
  <2> QED
    BY <2>5
<1> HIDE DEF T
<1>3. T = Nat
  <2>1. T \in SUBSET Nat
    BY DEF T
  <2> QED
    BY <1>1, <1>2, <2>1, Induction
<1> QED
  BY <1>3 DEF T

LEMMA LineageClimbs ==
    ASSUME NEW s, NEW i, MaxSlices \in Nat
    PROVE  \E up : Climbs(s, i, up, MaxSlices) /\ Lineage(s, i) = up[MaxSlices]
<1>1. PICK g : Climbs(s, i, g, MaxSlices)
  BY ClimbExists
<1>2. g = [n \in 0..MaxSlices |-> IF n = 0 THEN {i}
                                 ELSE g[n - 1] \cup Parents(s, g[n - 1])]
  BY <1>1, Zenon DEF Climbs
<1>3. PICK up : /\ up = [n \in 0..MaxSlices |-> IF n = 0 THEN {i}
                                 ELSE up[n - 1] \cup Parents(s, up[n - 1])]
                /\ Lineage(s, i) = up[MaxSlices]
  BY <1>2, Zenon DEF Lineage
<1> QED
  BY <1>3, Zenon DEF Climbs

\* What the walk finds: the action itself, and what leads to it in as many
\* steps as are taken.
LEMMA ClimbSteps ==
    ASSUME NEW s, NEW i, NEW m \in Nat, NEW up, Climbs(s, i, up, m)
    PROVE  /\ up[0] = {i}
           /\ \A n \in 1..m : up[n] = up[n - 1] \cup Parents(s, up[n - 1])
<1>1. up[0] = {i}
  <2>1. 0 \in 0..m
    OBVIOUS
  <2> QED
    BY <2>1, Zenon DEF Climbs
<1>2. ASSUME NEW n \in 1..m
      PROVE  up[n] = up[n - 1] \cup Parents(s, up[n - 1])
  <2>1. n \in 0..m /\ n # 0
    OBVIOUS
  <2> QED
    BY <2>1, Zenon DEF Climbs
<1> QED
  BY <1>1, <1>2

LEMMA ClimbHoldsItself ==
    ASSUME NEW s, NEW i, NEW m \in Nat, NEW up, Climbs(s, i, up, m)
    PROVE  \A n \in 0..m : i \in up[n]
<1>0. /\ up[0] = {i}
      /\ \A n \in 1..m : up[n] = up[n - 1] \cup Parents(s, up[n - 1])
  BY ClimbSteps
<1> DEFINE T == {n \in Nat : n <= m => i \in up[n]}
<1>1. 0 \in T
  BY <1>0
<1>2. ASSUME NEW n \in T PROVE n + 1 \in T
  <2>1. CASE n + 1 <= m
    <3>1. n + 1 \in 1..m /\ n + 1 - 1 = n
      BY <2>1
    <3>2. up[n + 1] = up[n] \cup Parents(s, up[n])
      BY <1>0, <3>1
    <3>3. i \in up[n]
      BY <2>1
    <3> QED
      BY <3>2, <3>3
  <2> QED
    BY <2>1
<1>3. T \in SUBSET Nat
  OBVIOUS
<1> HIDE DEF T
<1>4. T = Nat
  BY <1>1, <1>2, <1>3, Induction
<1> QED
  BY <1>4 DEF T

LEMMA LineageHoldsItself ==
    ASSUME NEW s, NEW i
    PROVE  i \in Lineage(s, i)
<1>1. PICK up : Climbs(s, i, up, MaxSlices) /\ Lineage(s, i) = up[MaxSlices]
  BY LineageClimbs, OutboxAssumption
<1>2. MaxSlices \in Nat /\ MaxSlices \in 0..MaxSlices
  BY OutboxAssumption
<1> QED
  BY <1>1, <1>2, ClimbHoldsItself
\* All that is retired with a lineage: the lineage, and at least what directly
\* continues a slice of it.
Descends(s, i, gone, m) ==
    gone = [n \in 0..m |-> IF n = 0 THEN Lineage(s, i)
                           ELSE gone[n - 1] \cup Continuations(s, gone[n - 1])]

LEMMA DescentExists ==
    ASSUME NEW s, NEW i, NEW m \in Nat
    PROVE  \E gone : Descends(s, i, gone, m)
<1> DEFINE T == {k \in Nat : \E gone : Descends(s, i, gone, k)}
<1>1. 0 \in T
  <2> DEFINE g == [n \in 0..0 |-> Lineage(s, i)]
  <2>1. Descends(s, i, g, 0)
    BY DEF Descends
  <2> QED
    BY <2>1
<1>2. ASSUME NEW k \in T PROVE k + 1 \in T
  <2>1. PICK gone : Descends(s, i, gone, k)
    OBVIOUS
  <2> DEFINE last == gone[k] \cup Continuations(s, gone[k])
             g == [n \in 0..k + 1 |-> IF n = k + 1 THEN last ELSE gone[n]]
  <2>2. \A n \in 0..k : g[n] = gone[n]
    OBVIOUS
  <2>3. g[k + 1] = last
    OBVIOUS
  <2>4. ASSUME NEW n \in 0..k + 1
        PROVE  g[n] = IF n = 0 THEN Lineage(s, i)
                      ELSE g[n - 1] \cup Continuations(s, g[n - 1])
    <3> HIDE DEF g
    <3>1. CASE n = k + 1
      <4>1. n - 1 = k /\ k \in 0..k /\ n # 0
        BY <3>1
      <4> QED
        BY <2>2, <2>3, <3>1, <4>1
    <3>2. CASE n \in 0..k /\ n # 0
      <4>1. n - 1 \in 0..k
        BY <3>2
      <4>2. gone[n] = gone[n - 1] \cup Continuations(s, gone[n - 1])
        BY <2>1, <3>2, Zenon DEF Descends
      <4> QED
        BY <2>2, <3>2, <4>1, <4>2
    <3>3. CASE n = 0
      <4>1. 0 \in 0..k
        OBVIOUS
      <4>2. gone[0] = Lineage(s, i)
        BY <2>1, <4>1, Zenon DEF Descends
      <4> QED
        BY <2>2, <3>3, <4>1, <4>2
    <3> QED
      BY <3>1, <3>2, <3>3
  <2>5. Descends(s, i, g, k + 1)
    <3>1. g = [n \in 0..k + 1 |-> g[n]]
      OBVIOUS
    <3> HIDE DEF g
    <3>2. g = [n \in 0..k + 1 |-> IF n = 0 THEN Lineage(s, i)
                             ELSE g[n - 1] \cup Continuations(s, g[n - 1])]
      BY <2>4, <3>1
    <3> QED
      BY <3>2 DEF Descends
  <2> QED
    BY <2>5
<1> HIDE DEF T
<1>3. T = Nat
  <2>1. T \in SUBSET Nat
    BY DEF T
  <2> QED
    BY <1>1, <1>2, <2>1, Induction
<1> QED
  BY <1>3 DEF T

LEMMA ChainDescends ==
    ASSUME NEW s, s.version \in Nat, NEW i
    PROVE  \E gone : /\ Descends(s, i, gone, s.version)
                     /\ SupersededProposalChain(s, i) = gone[s.version]
<1>1. PICK g : Descends(s, i, g, s.version)
  BY DescentExists
<1>2. g = [n \in 0..s.version |-> IF n = 0 THEN Lineage(s, i)
                             ELSE g[n - 1] \cup Continuations(s, g[n - 1])]
  BY <1>1, Zenon DEF Descends
<1>3. PICK gone :
         /\ gone = [n \in 0..s.version |-> IF n = 0 THEN Lineage(s, i)
                             ELSE gone[n - 1] \cup Continuations(s, gone[n - 1])]
         /\ SupersededProposalChain(s, i) = gone[s.version]
  BY <1>2, Zenon DEF SupersededProposalChain
<1> QED
  BY <1>3, Zenon DEF Descends

LEMMA ChainHoldsContinuations ==
    ASSUME NEW s, s.version \in Nat \ {0}, NEW i
    PROVE  LET lineage == Lineage(s, i)
           IN  lineage \cup Continuations(s, lineage)
                   \subseteq SupersededProposalChain(s, i)
<1> DEFINE lineage == Lineage(s, i)
           both == lineage \cup Continuations(s, lineage)
           v == s.version
<1>1. PICK gone : Descends(s, i, gone, v) /\ SupersededProposalChain(s, i) = gone[v]
  BY ChainDescends
<1>2. gone[0] = lineage
  <2>1. 0 \in 0..v
    OBVIOUS
  <2> QED
    BY <1>1, <2>1, Zenon DEF Descends
<1>3. ASSUME NEW n \in 1..v
      PROVE  gone[n] = gone[n - 1] \cup Continuations(s, gone[n - 1])
  <2>1. n \in 0..v /\ n # 0
    OBVIOUS
  <2> QED
    BY <1>1, <2>1, Zenon DEF Descends
<1> DEFINE T == {n \in Nat : n + 1 <= v => both \subseteq gone[n + 1]}
<1> HIDE DEF lineage
<1>4. 0 \in T
  <2>1. 1 \in 1..v /\ 1 - 1 = 0
    OBVIOUS
  <2>2. gone[1] = both
    BY <1>2, <1>3, <2>1
  <2> QED
    BY <2>2
<1>5. ASSUME NEW n \in T PROVE n + 1 \in T
  <2> SUFFICES ASSUME n + 1 + 1 <= v PROVE both \subseteq gone[n + 1 + 1]
    OBVIOUS
  <2>1. n + 1 + 1 \in 1..v /\ n + 1 + 1 - 1 = n + 1 /\ n + 1 <= v
    OBVIOUS
  <2>2. gone[n + 1] \subseteq gone[n + 1 + 1]
    BY <1>3, <2>1
  <2>3. both \subseteq gone[n + 1]
    BY <2>1
  <2> QED
    BY <2>2, <2>3
<1>6. T = Nat
  <2>1. T \in SUBSET Nat
    OBVIOUS
  <2> HIDE DEF T
  <2> QED
    BY <1>4, <1>5, <2>1, Induction
<1>7. v - 1 \in Nat /\ v - 1 + 1 = v
  OBVIOUS
<1>8. both \subseteq gone[v]
  <2>1. v - 1 \in T
    BY <1>6, <1>7
  <2> QED
    BY <1>7, <2>1
<1> QED
  BY <1>1, <1>8 DEF lineage
-----------------------------------------------------------------------------
(***************************************************************************)
(* The invariant of the state of an Issue.  One action waits; every        *)
(* yielded slice was made for it, with no slice missing in between, and    *)
(* every action that continues a slice continues one that is still there.  *)
(***************************************************************************)
NamesOK(s) ==
    /\ \A i \in s.outbox : i.id \in 1..s.version /\ i.ordinal <= MaxSlices
    /\ \A i, j \in s.outbox : i.id = j.id => i = j

StatusesOK(s) == \A i \in s.outbox : ValidStatus(i)

\* What is reviewed or repaired has been published.
TargetOK(s) ==
    /\ s.target # None => Published(s, s.target)
    /\ s.phase \in {"review", "repair"} => s.target # None

RepairsOK(s) == \A i \in s.outbox : i.source # None => ValidRepair(s, i)

Waits(s, i) ==
    /\ i \in s.outbox /\ Live(i)
    /\ \A j \in s.outbox : Live(j) => j = i
    /\ i.task = "review" => s.phase = "review" /\ s.target = i.sha

Leads(s, y, i) ==
    \E j \in s.outbox :
        /\ j.parent = y.id /\ j.ordinal = y.ordinal + 1
        /\ j = i \/ j.status = "yielded"

Leading(s, i) ==
    \A y \in s.outbox : y.status = "yielded" =>
        /\ s.developer = "cursor" /\ y.task = "implement" /\ i.task = "implement"
        /\ y.ordinal < i.ordinal
        /\ Leads(s, y, i)

Continues(s, j) ==
    /\ \E p \in s.outbox :
           /\ p.id = j.parent /\ p.status = "yielded"
           /\ j.ordinal = p.ordinal + 1
           /\ j.task = p.task /\ j.sha = p.sha
    /\ \A k \in s.outbox :
           k.parent = j.parent /\ k.status # "failed" /\ j.status # "failed" => k = j

Following(s) == \A j \in s.outbox : j.parent # None => Continues(s, j)

OneWaits(s) == \E i \in s.outbox : Waits(s, i) /\ Leading(s, i)

Sound(s) ==
    /\ s \in States
    /\ NamesOK(s)
    /\ StatusesOK(s)
    /\ TargetOK(s)
    /\ RepairsOK(s)
    /\ OneWaits(s)
    /\ Following(s)

LEMMA StateTypes ==
    ASSUME NEW s \in States
    PROVE  /\ s.version \in Nat /\ s.phase \in Phases /\ s.target \in Nat
           /\ s.repairs \in Nat /\ s.transitions \in Seq(Events)
           /\ s.outbox \subseteq Items /\ s.developer \in {"cursor", "qwen"}
  BY DEF States

LEMMA ItemTypes ==
    ASSUME NEW i \in Items
    PROVE  /\ i.id \in Nat /\ i.task \in Tasks /\ i.sha \in Nat /\ i.parent \in Nat
           /\ i.ordinal \in Nat /\ i.source \in Nat /\ i.status \in Statuses
           /\ i.ticket \in Tickets /\ i.run \in Nat
  BY DEF Items

\* A walk up from the action that waits meets every yielded slice, for there
\* are as many steps to it as their ordinals differ by.
LEMMA ClimbMeetsYielded ==
    ASSUME NEW s \in States, NEW i \in s.outbox, Leading(s, i), i.ordinal <= MaxSlices,
           NEW up, Climbs(s, i, up, MaxSlices)
    PROVE  \A y \in s.outbox : y.status = "yielded" => y \in up[MaxSlices]
<1> DEFINE Far(d) == {y \in s.outbox : y.status = "yielded" /\ y.ordinal + d >= i.ordinal}
           T == {d \in Nat : \A n \in d..MaxSlices : Far(d) \subseteq up[n]}
<1>0. /\ MaxSlices \in Nat
      /\ i.ordinal \in Nat
      /\ \A y \in s.outbox : y.ordinal \in Nat
  BY OutboxAssumption, StateTypes, ItemTypes
<1>1. /\ up[0] = {i}
      /\ \A n \in 1..MaxSlices : up[n] = up[n - 1] \cup Parents(s, up[n - 1])
  BY <1>0, ClimbSteps
<1>2. \A n \in 0..MaxSlices : i \in up[n]
  BY <1>0, ClimbHoldsItself
<1>3. \A y \in s.outbox : y.status = "yielded" =>
          y.ordinal < i.ordinal /\ Leads(s, y, i)
  BY DEF Leading
<1>4. 0 \in T
  <2>1. Far(0) = {}
    BY <1>0, <1>3
  <2> HIDE DEF Far
  <2> QED
    BY <2>1
<1>5. ASSUME NEW d \in T PROVE d + 1 \in T
  <2> SUFFICES ASSUME NEW n \in d + 1..MaxSlices, NEW y \in Far(d + 1)
               PROVE  y \in up[n]
    OBVIOUS
  <2>1. n \in 1..MaxSlices /\ n - 1 \in d..MaxSlices /\ n - 1 \in 0..MaxSlices
    BY <1>0
  <2>2. up[n] = up[n - 1] \cup Parents(s, up[n - 1])
    BY <1>1, <2>1
  <2>3. y \in s.outbox /\ y.status = "yielded" /\ y.ordinal + (d + 1) >= i.ordinal
    OBVIOUS
  <2>4. PICK j \in s.outbox : /\ j.parent = y.id /\ j.ordinal = y.ordinal + 1
                              /\ j = i \/ j.status = "yielded"
    BY <1>3, <2>3 DEF Leads
  <2>5. j \in up[n - 1]
    <3>1. CASE j = i
      BY <1>2, <2>1, <3>1
    <3>2. CASE j.status = "yielded"
      <4>1. j.ordinal + d >= i.ordinal
        BY <1>0, <2>3, <2>4
      <4>2. j \in Far(d)
        BY <3>2, <4>1
      <4>3. Far(d) \subseteq up[n - 1]
        BY <2>1
      <4> QED
        BY <4>2, <4>3
    <3> QED
      BY <2>4, <3>1, <3>2
  <2>6. y \in Parents(s, up[n - 1])
    BY <2>3, <2>4, <2>5 DEF Parents
  <2> QED
    BY <2>2, <2>6
<1>6. T = Nat
  <2>1. T \in SUBSET Nat
    OBVIOUS
  <2> HIDE DEF T
  <2> QED
    BY <1>4, <1>5, <2>1, Induction
<1>7. ASSUME NEW y \in s.outbox, y.status = "yielded" PROVE y \in up[MaxSlices]
  <2>1. MaxSlices \in T /\ MaxSlices \in MaxSlices..MaxSlices
    BY <1>0, <1>6
  <2>2. y \in Far(MaxSlices)
    BY <1>0, <1>7
  <2>3. Far(MaxSlices) \subseteq up[MaxSlices]
    BY <2>1
  <2> QED
    BY <2>2, <2>3
<1> QED
  BY <1>7

LEMMA LineageHoldsYielded ==
    ASSUME NEW s \in States, NEW i \in s.outbox, Leading(s, i), i.ordinal <= MaxSlices
    PROVE  \A y \in s.outbox : y.status = "yielded" => y \in Lineage(s, i)
<1>1. PICK up : Climbs(s, i, up, MaxSlices) /\ Lineage(s, i) = up[MaxSlices]
  BY LineageClimbs, OutboxAssumption
<1> QED
  BY <1>1, ClimbMeetsYielded

\* The invariant is what validateDevelopmentState asks for, and more.
LEMMA SoundContinues ==
    ASSUME NEW s, Sound(s), NEW j \in s.outbox, j.parent # None
    PROVE  ValidContinuation(s, j)
<1>0. /\ s \in States /\ NamesOK(s) /\ OneWaits(s) /\ Following(s)
      /\ \A k \in s.outbox : k \in Items /\ k.ordinal \in Nat
  BY StateTypes, ItemTypes DEF Sound
<1>1. PICK i \in s.outbox : Waits(s, i) /\ Leading(s, i)
  BY <1>0 DEF OneWaits
<1>2. Continues(s, j)
  BY <1>0 DEF Following
<1>3. PICK p \in s.outbox : /\ p.id = j.parent /\ p.status = "yielded"
                            /\ j.ordinal = p.ordinal + 1
                            /\ j.task = p.task /\ j.sha = p.sha
  BY <1>2 DEF Continues
<1>4. j.ordinal \in 1..MaxSlices
  BY <1>0, <1>3, OutboxAssumption DEF NamesOK
<1>5. PICK k \in s.outbox : k.parent = p.id /\ (k = i \/ k.status = "yielded")
  BY <1>1, <1>3 DEF Leading, Leads
<1>6. k.status # "failed"
  BY <1>1, <1>5 DEF Waits, Live, InFlight
<1>7. k.parent # None
  BY <1>3, <1>5
<1>8. Continues(s, k)
  BY <1>0, <1>7 DEF Following
<1>9. {l \in s.outbox : l.parent = j.parent /\ l.status # "failed"} = {k}
  BY <1>3, <1>5, <1>6, <1>8 DEF Continues
<1>10. Cardinality({l \in s.outbox : l.parent = j.parent /\ l.status # "failed"}) = 1
  BY <1>9, FS_Singleton
<1> QED
  BY <1>3, <1>4, <1>10 DEF ValidContinuation

LEMMA SoundIsValid == ASSUME NEW s, Sound(s) PROVE Valid(s)
  BY SoundContinues DEF Valid, Sound, NamesOK, StatusesOK, RepairsOK

LEMMA SoundIsOneChain ==
    ASSUME NEW s, Sound(s)
    PROVE  \E i \in s.outbox :
               /\ {j \in s.outbox : Live(j)} = {i}
               /\ {j \in s.outbox : j.status = "yielded"} \subseteq Lineage(s, i)
<1>1. PICK i \in s.outbox : Waits(s, i) /\ Leading(s, i)
  BY DEF Sound, OneWaits
<1>2. {j \in s.outbox : Live(j)} = {i}
  BY <1>1 DEF Waits
<1>3. \A y \in s.outbox : y.status = "yielded" => y \in Lineage(s, i)
  BY <1>1, LineageHoldsYielded DEF Sound, NamesOK
<1> QED
  BY <1>2, <1>3
-----------------------------------------------------------------------------
(***************************************************************************)
(* Every operation keeps the invariant.                                    *)
(***************************************************************************)
LEMMA FreshTypes ==
    ASSUME NEW id \in Nat, NEW task \in Tasks, NEW sha \in Nat
    PROVE  LET i == Fresh(id, task, sha)
           IN  /\ i \in Items
               /\ i.id = id /\ i.task = task /\ i.sha = sha /\ i.parent = None
               /\ i.ordinal = 0 /\ i.source = None /\ i.status = "pending"
               /\ i.ticket = NoTicket /\ i.run = None
  BY DEF Fresh, Items, Statuses, Tickets, NoTicket, None

LEMMA StartedSound == ASSUME NEW d \in {"cursor", "qwen"} PROVE Sound(Started(d))
<1> DEFINE i == Fresh(1, "implement", MainSha)
           s == Started(d)
<1>1. /\ i \in Items
      /\ i.id = 1 /\ i.task = "implement" /\ i.parent = None
      /\ i.ordinal = 0 /\ i.source = None /\ i.status = "pending"
      /\ i.ticket = NoTicket /\ i.run = None
  BY FreshTypes DEF Tasks, MainSha
<1>2. /\ s.version = 1 /\ s.phase = "ready" /\ s.target = None
      /\ s.outbox = {i} /\ s.developer = d
  BY DEF Started
<1>3. s \in States
  <2> HIDE DEF i
  <2>1. << >> \in Seq(Events)
    OBVIOUS
  <2> QED
    BY <1>1, <2>1 DEF Started, States, Phases, None, i
<1> HIDE DEF i, s
<1>4. NamesOK(s)
  BY <1>1, <1>2, OutboxAssumption DEF NamesOK
<1>5. StatusesOK(s)
  BY <1>1, <1>2 DEF StatusesOK, ValidStatus
<1>6. TargetOK(s) /\ RepairsOK(s) /\ Following(s)
  BY <1>1, <1>2 DEF TargetOK, RepairsOK, Following
<1>7. OneWaits(s)
  BY <1>1, <1>2 DEF OneWaits, Waits, Leading, Live
<1> QED
  BY <1>3, <1>4, <1>5, <1>6, <1>7 DEF Sound, s

LEMMA StepTypes ==
    ASSUME NEW s \in States, NEW gone, NEW new \in SUBSET Items
    PROVE  LET t == Step(s, gone, new)
           IN  /\ t \in States
               /\ t.version = s.version + 1
               /\ t.outbox = (s.outbox \ gone) \cup new
               /\ t.phase = s.phase /\ t.target = s.target /\ t.repairs = s.repairs
               /\ t.transitions = s.transitions /\ t.developer = s.developer
<1> DEFINE outbox == (s.outbox \ gone) \cup new
           version == s.version + 1
           t == Step(s, gone, new)
<1>1. outbox \in SUBSET Items /\ version \in Nat
  BY StateTypes
<1>2. t = [s EXCEPT !.version = version, !.outbox = outbox]
  BY DEF Step
<1> HIDE DEF outbox, version, t
<1>3. /\ t \in States
      /\ t.version = version /\ t.outbox = outbox
      /\ t.phase = s.phase /\ t.target = s.target /\ t.repairs = s.repairs
      /\ t.transitions = s.transitions /\ t.developer = s.developer
  BY <1>1, <1>2 DEF States
<1> QED
  BY <1>3 DEF t, outbox, version

\* An action is replaced by itself, at another point of its dispatch.
Alike(i, j) ==
    /\ j.id = i.id /\ j.task = i.task /\ j.sha = i.sha
    /\ j.parent = i.parent /\ j.ordinal = i.ordinal

LEMMA ReplaceSound ==
    ASSUME NEW s, Sound(s), NEW i \in s.outbox, Live(i),
           NEW j \in Items, Alike(i, j), Live(j), ValidStatus(j),
           j.source # None => ValidRepair(s, j)
    PROVE  Sound(Step(s, {i}, {j}))
<1> DEFINE t == Step(s, {i}, {j})
<1>0. /\ s \in States /\ NamesOK(s) /\ StatusesOK(s) /\ TargetOK(s)
      /\ RepairsOK(s) /\ OneWaits(s) /\ Following(s)
      /\ s.version \in Nat
  BY StateTypes DEF Sound
<1>1. /\ t \in States
      /\ t.version = s.version + 1
      /\ t.outbox = (s.outbox \ {i}) \cup {j}
      /\ t.phase = s.phase /\ t.target = s.target /\ t.repairs = s.repairs
      /\ t.transitions = s.transitions /\ t.developer = s.developer
  BY <1>0, StepTypes
<1> HIDE DEF t
<1>2. /\ j.id = i.id /\ j.task = i.task /\ j.sha = i.sha
      /\ j.parent = i.parent /\ j.ordinal = i.ordinal
  BY DEF Alike
<1>3. j.status # "yielded" /\ j.status # "failed" /\ i.status # "yielded" /\ i.status # "failed"
  BY DEF Live, InFlight
<1>4. /\ \A k \in s.outbox \ {i} : k \in t.outbox /\ k.id # i.id
      /\ \A k \in t.outbox : k = j \/ k \in s.outbox \ {i}
      /\ j \in t.outbox
  BY <1>0, <1>1 DEF NamesOK
<1>5. NamesOK(t)
  BY <1>0, <1>1, <1>2, <1>4 DEF NamesOK
<1>6. StatusesOK(t)
  BY <1>0, <1>4 DEF StatusesOK
<1>7. TargetOK(t)
  BY <1>0, <1>1 DEF TargetOK, Published
<1>8. RepairsOK(t)
  BY <1>0, <1>1, <1>4 DEF RepairsOK, ValidRepair, Published, Disputed
<1>9. Waits(s, i) /\ Leading(s, i)
  BY <1>0 DEF OneWaits, Waits
<1>10. Waits(t, j)
  BY <1>1, <1>2, <1>4, <1>9 DEF Waits
<1>11. Leading(t, j)
  <2> SUFFICES ASSUME NEW y \in t.outbox, y.status = "yielded"
               PROVE  /\ t.developer = "cursor" /\ y.task = "implement"
                      /\ j.task = "implement" /\ y.ordinal < j.ordinal
                      /\ Leads(t, y, j)
    BY DEF Leading
  <2>1. y \in s.outbox \ {i}
    BY <1>3, <1>4
  <2>2. /\ s.developer = "cursor" /\ y.task = "implement" /\ i.task = "implement"
        /\ y.ordinal < i.ordinal
        /\ Leads(s, y, i)
    BY <1>9, <2>1 DEF Leading
  <2>3. PICK k \in s.outbox : /\ k.parent = y.id /\ k.ordinal = y.ordinal + 1
                              /\ k = i \/ k.status = "yielded"
    BY <2>2 DEF Leads
  <2>4. Leads(t, y, j)
    <3>1. CASE k = i
      BY <1>2, <1>4, <2>3, <3>1 DEF Leads
    <3>2. CASE k # i
      BY <1>4, <2>3, <3>2 DEF Leads
    <3> QED
      BY <3>1, <3>2
  <2> QED
    BY <1>1, <1>2, <2>2, <2>4
<1>12. Following(t)
  <2> SUFFICES ASSUME NEW k \in t.outbox, k.parent # None PROVE Continues(t, k)
    BY DEF Following
  <2> DEFINE l == IF k = j THEN i ELSE k
  <2>1. l \in s.outbox /\ l.parent = k.parent
    BY <1>2, <1>4
  <2>2. Continues(s, l)
    BY <1>0, <2>1 DEF Following
  <2>3. PICK p \in s.outbox : /\ p.id = l.parent /\ p.status = "yielded"
                              /\ l.ordinal = p.ordinal + 1
                              /\ l.task = p.task /\ l.sha = p.sha
    BY <2>2 DEF Continues
  <2>4. p \in t.outbox
    BY <1>3, <1>4, <2>3
  <2>5. ASSUME NEW m \in t.outbox, m.parent = k.parent, m.status # "failed",
               k.status # "failed"
        PROVE  m = k
    <3>1. \A n \in s.outbox :
              n.parent = l.parent /\ n.status # "failed" /\ l.status # "failed" => n = l
      BY <2>2 DEF Continues
    <3>2. l.status # "failed"
      BY <1>3, <2>5
    <3>3. CASE m = j
      <4>1. i = l
        BY <1>2, <1>3, <2>1, <2>5, <3>1, <3>2, <3>3
      <4> QED
        BY <1>4, <3>3, <4>1
    <3>4. CASE m \in s.outbox \ {i}
      <4>1. m = l
        BY <2>1, <2>5, <3>1, <3>2, <3>4
      <4> QED
        BY <3>4, <4>1
    <3> QED
      BY <1>4, <3>3, <3>4
  <2>6. k.ordinal = l.ordinal /\ k.task = l.task /\ k.sha = l.sha
    BY <1>2
  <2> QED
    BY <2>1, <2>3, <2>4, <2>5, <2>6 DEF Continues
<1>13. OneWaits(t)
  BY <1>4, <1>10, <1>11 DEF OneWaits
<1> QED
  BY <1>1, <1>5, <1>6, <1>7, <1>8, <1>12, <1>13 DEF Sound, t

LEMMA FirstPublishedTypes ==
    ASSUME NEW s \in States, NEW sha, Published(s, sha)
    PROVE  FirstPublished(s).run \in Nat
<1> DEFINE q == s.transitions
           Is(n) == q[n].kind = "publisher"
           T == {n \in DOMAIN q : Is(n)}
           First(n) == Is(n) /\ \A m \in DOMAIN q : Is(m) => n <= m
<1>1. /\ DOMAIN q \subseteq Nat
      /\ \A n \in DOMAIN q : q[n] \in Events
  <2>1. q \in Seq(Events)
    BY StateTypes
  <2> HIDE DEF q
  <2> QED
    BY <2>1
<1>2. T # {} /\ T \in SUBSET Nat
  BY <1>1 DEF Published
<1>3. \E n \in T : \A m \in T : n <= m
  <2> HIDE DEF T
  <2> QED
    BY <1>2, Least
<1>4. \E n \in DOMAIN q : First(n)
  BY <1>3
<1>5. FirstPublished(s) = q[CHOOSE n \in DOMAIN q : First(n)]
  BY DEF FirstPublished
<1>6. (CHOOSE n \in DOMAIN q : First(n)) \in DOMAIN q
  <2> HIDE DEF q, First
  <2> QED
    BY <1>4
<1>7. FirstPublished(s) \in Events
  <2> HIDE DEF q, First
  <2> QED
    BY <1>1, <1>5, <1>6
<1> QED
  BY <1>7 DEF Events

LEMMA BindSound ==
    ASSUME NEW s, Sound(s), NEW i \in s.outbox, Bindable(s, i)
    PROVE  Sound(Bind(s, i))
<1> DEFINE r == FirstPublished(s).run
           j == [i EXCEPT !.source = r]
<1>0. s \in States /\ i \in Items /\ StatusesOK(s) /\ TargetOK(s)
  BY StateTypes DEF Sound
<1>1. /\ i.task = "repair" /\ i.status = "pending" /\ i.parent = None
      /\ s.phase = "repair" /\ i.sha = s.target /\ LatestDisputes(s)
  BY DEF Bindable
<1>2. s.target # None /\ Published(s, s.target)
  BY <1>0, <1>1 DEF TargetOK
<1>3. r \in Nat
  BY <1>0, <1>2, FirstPublishedTypes
<1> HIDE DEF r
<1>4. /\ j \in Items
      /\ j.id = i.id /\ j.task = i.task /\ j.sha = i.sha /\ j.parent = i.parent
      /\ j.ordinal = i.ordinal /\ j.status = i.status /\ j.ticket = i.ticket
      /\ j.run = i.run
  BY <1>0, <1>3 DEF Items
<1>5. Disputed(s, s.target)
  <2>1. s.transitions \in Seq(Events)
    BY <1>0, StateTypes
  <2>2. s.transitions # << >>
    BY <1>1 DEF LatestDisputes
  <2>3. Len(s.transitions) \in DOMAIN s.transitions
    BY <2>1, <2>2
  <2> QED
    BY <1>1, <2>3 DEF LatestDisputes, Disputed
<1>6. Bind(s, i) = Step(s, {i}, {j})
  BY DEF Bind, r
<1> HIDE DEF j
<1>7. ValidRepair(s, j)
  BY <1>1, <1>2, <1>4, <1>5 DEF ValidRepair
<1>8. ValidStatus(j)
  <2>1. ValidStatus(i)
    BY <1>0 DEF StatusesOK
  <2> QED
    BY <1>1, <1>4, <2>1 DEF ValidStatus
<1>9. Live(i) /\ Live(j) /\ Alike(i, j)
  BY <1>1, <1>4 DEF Live, Alike
<1> QED
  BY <1>4, <1>6, <1>7, <1>8, <1>9, ReplaceSound

\* ValidRepair of an action is about its task, its place and its commit.
LEMMA RepairAlike ==
    ASSUME NEW s, NEW i, NEW j, Alike(i, j), i.status # "failed", ValidRepair(s, i)
    PROVE  ValidRepair(s, j)
  BY DEF ValidRepair, Alike

LEMMA IntendSound ==
    ASSUME NEW s, Sound(s), NEW i \in s.outbox, Dispatchable(i),
           NEW ticket \in Tickets, ticket.action = i.id
    PROVE  Sound(Intend(s, i, ticket))
<1> DEFINE j == [i EXCEPT !.status = "dispatching", !.ticket = ticket]
<1>0. s \in States /\ i \in Items /\ RepairsOK(s)
  BY StateTypes DEF Sound
<1>1. i.status = "pending" /\ IsDispatch(i)
  BY DEF Dispatchable
<1>2. /\ j \in Items
      /\ j.id = i.id /\ j.task = i.task /\ j.sha = i.sha /\ j.parent = i.parent
      /\ j.ordinal = i.ordinal /\ j.source = i.source
      /\ j.status = "dispatching" /\ j.ticket = ticket
  BY <1>0 DEF Items, Statuses
<1>3. Intend(s, i, ticket) = Step(s, {i}, {j})
  BY DEF Intend
<1> HIDE DEF j
<1>4. ValidStatus(j)
  BY <1>1, <1>2 DEF ValidStatus, IsDispatch, ForDeveloper
<1>5. Live(i) /\ Live(j) /\ Alike(i, j)
  BY <1>1, <1>2 DEF Live, InFlight, Alike
<1>6. j.source # None => ValidRepair(s, j)
  BY <1>0, <1>1, <1>2, <1>5, RepairAlike DEF RepairsOK
<1> QED
  BY <1>2, <1>3, <1>4, <1>5, <1>6, ReplaceSound

LEMMA AcknowledgeSound ==
    ASSUME NEW s, Sound(s), NEW i \in s.outbox, i.status = "dispatching",
           NEW r \in Nat \ {0}
    PROVE  Sound(Acknowledge(s, i, r))
<1> DEFINE j == [i EXCEPT !.status = "dispatched", !.ticket = NoTicket, !.run = r]
<1>0. s \in States /\ i \in Items /\ RepairsOK(s)
  BY StateTypes DEF Sound
<1>1. NoTicket \in Tickets
  BY DEF NoTicket, Tickets, None
<1>2. /\ j \in Items
      /\ j.id = i.id /\ j.task = i.task /\ j.sha = i.sha /\ j.parent = i.parent
      /\ j.ordinal = i.ordinal /\ j.source = i.source
      /\ j.status = "dispatched" /\ j.run = r
  BY <1>0, <1>1 DEF Items, Statuses
<1>3. Acknowledge(s, i, r) = Step(s, {i}, {j})
  BY DEF Acknowledge
<1> HIDE DEF j
<1>4. ValidStatus(j)
  BY <1>2 DEF ValidStatus, None
<1>5. Live(i) /\ Live(j) /\ Alike(i, j)
  BY <1>2 DEF Live, InFlight, Alike
<1>6. j.source # None => ValidRepair(s, j)
  BY <1>0, <1>2, <1>5, RepairAlike DEF RepairsOK
<1> QED
  BY <1>2, <1>3, <1>4, <1>5, <1>6, ReplaceSound

LEMMA AgainTypes ==
    ASSUME NEW i \in Items, NEW id \in Nat
    PROVE  LET k == Again(i, id)
           IN  /\ k \in Items
               /\ k.id = id /\ k.task = i.task /\ k.sha = i.sha
               /\ k.parent = i.parent /\ k.ordinal = i.ordinal /\ k.source = i.source
               /\ k.status = "pending" /\ k.ticket = NoTicket /\ k.run = None
<1>1. NoTicket \in Tickets
  BY DEF NoTicket, Tickets, None
<1> QED
  BY <1>1 DEF Again, Items, Statuses, None

\* A slice is kept, and the one that continues it waits: nothing continued
\* it yet, for what is continued has yielded.
LEMMA YieldSound ==
    ASSUME NEW s, Sound(s), NEW i \in s.outbox, CanYield(s, i)
    PROVE  Sound(YieldSlice(s, i))
<1> DEFINE v == s.version + 1
           j == [i EXCEPT !.status = "yielded"]
           m == Again(i, v)
           k == [m EXCEPT !.parent = i.id, !.ordinal = i.ordinal + 1]
           t == Step(s, {i}, {j, k})
<1>0. /\ s \in States /\ NamesOK(s) /\ StatusesOK(s) /\ TargetOK(s)
      /\ RepairsOK(s) /\ OneWaits(s) /\ Following(s)
      /\ s.version \in Nat /\ v \in Nat /\ i \in Items
  BY StateTypes DEF Sound
<1>1. /\ s.developer = "cursor" /\ i.task = "implement" /\ i.status = "dispatched"
      /\ i.ordinal < MaxSlices /\ i.ordinal \in Nat
      /\ i.id \in 1..s.version
  BY <1>0, ItemTypes DEF CanYield, NamesOK
<1>2. /\ j \in Items
      /\ j.id = i.id /\ j.task = i.task /\ j.sha = i.sha /\ j.parent = i.parent
      /\ j.ordinal = i.ordinal /\ j.source = i.source
      /\ j.status = "yielded" /\ j.run = i.run
  BY <1>0 DEF Items, Statuses
<1>3. /\ m \in Items
      /\ m.id = v /\ m.task = i.task /\ m.sha = i.sha /\ m.source = i.source
      /\ m.status = "pending" /\ m.ticket = NoTicket /\ m.run = None
  BY <1>0, AgainTypes
<1>4. /\ k \in Items
      /\ k.id = v /\ k.task = i.task /\ k.sha = i.sha /\ k.parent = i.id
      /\ k.ordinal = i.ordinal + 1 /\ k.source = i.source
      /\ k.status = "pending" /\ k.ticket = NoTicket /\ k.run = None
  <2> HIDE DEF m
  <2>1. i.id \in Nat /\ i.ordinal + 1 \in Nat
    BY <1>1
  <2> QED
    BY <1>3, <2>1 DEF Items
<1>5. YieldSlice(s, i) = t
  BY DEF YieldSlice
<1> HIDE DEF j, k, m
<1>6. /\ t \in States
      /\ t.version = s.version + 1
      /\ t.outbox = (s.outbox \ {i}) \cup {j, k}
      /\ t.phase = s.phase /\ t.target = s.target
      /\ t.transitions = s.transitions /\ t.developer = s.developer
  BY <1>0, <1>2, <1>4, StepTypes
<1> HIDE DEF t
<1>7. /\ \A l \in s.outbox \ {i} : l \in t.outbox /\ l.id # i.id /\ l.id # v /\ l.id \in 1..s.version
      /\ \A l \in t.outbox : l = j \/ l = k \/ l \in s.outbox \ {i}
      /\ j \in t.outbox /\ k \in t.outbox
      /\ j.id # k.id
  BY <1>0, <1>1, <1>2, <1>4, <1>6 DEF NamesOK
<1>8. NamesOK(t)
  <2>1. \A l \in t.outbox : l.id \in 1..t.version /\ l.ordinal <= MaxSlices
    BY <1>0, <1>1, <1>2, <1>4, <1>6, <1>7, OutboxAssumption DEF NamesOK
  <2>2. \A a, b \in t.outbox : a.id = b.id => a = b
    BY <1>0, <1>2, <1>4, <1>7 DEF NamesOK
  <2> QED
    BY <2>1, <2>2 DEF NamesOK
<1>9. StatusesOK(t)
  <2>1. ValidStatus(i)
    BY <1>0 DEF StatusesOK
  <2>2. ValidStatus(j)
    BY <1>1, <1>2, <2>1 DEF ValidStatus, IsDispatch, ForDeveloper
  <2>3. ValidStatus(k)
    BY <1>4 DEF ValidStatus
  <2> QED
    BY <1>0, <1>7, <2>2, <2>3 DEF StatusesOK
<1>10. TargetOK(t)
  BY <1>0, <1>6 DEF TargetOK, Published
<1>11. RepairsOK(t)
  <2>1. i.source = None
    BY <1>0, <1>1 DEF RepairsOK, ValidRepair
  <2> QED
    BY <1>0, <1>2, <1>4, <1>6, <1>7, <2>1 DEF RepairsOK, ValidRepair, Published, Disputed
<1>12. Waits(s, i) /\ Leading(s, i)
  BY <1>0, <1>1 DEF OneWaits, Waits, Live, InFlight
<1>13. Waits(t, k)
  BY <1>1, <1>2, <1>4, <1>7, <1>12 DEF Waits, Live, InFlight
<1>14. Leading(t, k)
  <2> SUFFICES ASSUME NEW y \in t.outbox, y.status = "yielded"
               PROVE  /\ t.developer = "cursor" /\ y.task = "implement"
                      /\ k.task = "implement" /\ y.ordinal < k.ordinal
                      /\ Leads(t, y, k)
    BY DEF Leading
  <2>1. CASE y = j
    <3>1. Leads(t, y, k)
      BY <1>2, <1>4, <1>7, <2>1 DEF Leads
    <3> QED
      BY <1>1, <1>2, <1>4, <1>6, <2>1, <3>1
  <2>2. CASE y \in s.outbox \ {i}
    <3>1. /\ y.task = "implement" /\ y.ordinal < i.ordinal
          /\ Leads(s, y, i)
      BY <1>12, <2>2 DEF Leading
    <3>2. PICK l \in s.outbox : /\ l.parent = y.id /\ l.ordinal = y.ordinal + 1
                                /\ l = i \/ l.status = "yielded"
      BY <3>1 DEF Leads
    <3>3. Leads(t, y, k)
      <4>1. CASE l = i
        BY <1>2, <1>7, <3>2, <4>1 DEF Leads
      <4>2. CASE l # i
        BY <1>7, <3>2, <4>2 DEF Leads
      <4> QED
        BY <4>1, <4>2
    <3>4. y.ordinal \in Nat
      BY <1>0, <2>2, StateTypes, ItemTypes
    <3> QED
      BY <1>1, <1>4, <1>6, <3>1, <3>3, <3>4
  <2> QED
    BY <1>4, <1>7, <2>1, <2>2
<1>15. \A l \in s.outbox : l.parent # i.id
  <2> SUFFICES ASSUME NEW l \in s.outbox, l.parent = i.id PROVE FALSE
    OBVIOUS
  <2>1. l.parent # None
    BY <1>1 DEF None
  <2>2. \E p \in s.outbox : p.id = l.parent /\ p.status = "yielded"
    BY <1>0, <2>1 DEF Following, Continues
  <2> QED
    BY <1>0, <1>1, <2>2 DEF NamesOK
<1>16. Following(t)
  <2> SUFFICES ASSUME NEW l \in t.outbox, l.parent # None PROVE Continues(t, l)
    BY DEF Following
  <2>1. CASE l = k
    <3>1. \A n \in t.outbox : n.parent = k.parent => n = k
      BY <1>2, <1>4, <1>7, <1>15
    <3>2. /\ j.id = l.parent /\ j.status = "yielded" /\ l.ordinal = j.ordinal + 1
          /\ l.task = j.task /\ l.sha = j.sha
      BY <1>2, <1>4, <2>1
    <3> QED
      BY <1>7, <2>1, <3>1, <3>2 DEF Continues
  <2>2. CASE l # k
    <3> DEFINE o == IF l = j THEN i ELSE l
    <3>1. o \in s.outbox /\ o.parent = l.parent
      BY <1>2, <1>7, <2>2
    <3>2. Continues(s, o)
      BY <1>0, <3>1 DEF Following
    <3>3. PICK p \in s.outbox : /\ p.id = o.parent /\ p.status = "yielded"
                                /\ o.ordinal = p.ordinal + 1
                                /\ o.task = p.task /\ o.sha = p.sha
      BY <3>2 DEF Continues
    <3>4. p \in t.outbox
      BY <1>1, <1>7, <3>3
    <3>5. ASSUME NEW n \in t.outbox, n.parent = l.parent, n.status # "failed",
                 l.status # "failed"
          PROVE  n = l
      <4>1. \A q \in s.outbox :
                q.parent = o.parent /\ q.status # "failed" /\ o.status # "failed" => q = o
        BY <3>2 DEF Continues
      <4>2. o.status # "failed"
        BY <1>1, <3>5
      <4>3. CASE n = k
        BY <1>4, <1>15, <3>1, <3>5, <4>3
      <4>4. CASE n = j
        <5>1. i = o
          BY <1>1, <1>2, <3>1, <3>5, <4>1, <4>2, <4>4
        <5> QED
          BY <1>7, <2>2, <4>4, <5>1
      <4>5. CASE n \in s.outbox \ {i}
        <5>1. n = o
          BY <3>1, <3>5, <4>1, <4>2, <4>5
        <5> QED
          BY <4>5, <5>1
      <4> QED
        BY <1>7, <4>3, <4>4, <4>5
    <3>6. l.ordinal = o.ordinal /\ l.task = o.task /\ l.sha = o.sha
      BY <1>2
    <3> QED
      BY <3>1, <3>3, <3>4, <3>5, <3>6 DEF Continues
  <2> QED
    BY <2>1, <2>2
<1>17. OneWaits(t)
  BY <1>7, <1>13, <1>14 DEF OneWaits
<1> QED
  BY <1>5, <1>6, <1>8, <1>9, <1>10, <1>11, <1>16, <1>17 DEF Sound

\* A failed action stays, and another takes its place.
LEMMA RecoverSound ==
    ASSUME NEW s, Sound(s), NEW i \in s.outbox, CanRecover(s, i)
    PROVE  Sound(Recover(s, i))
<1> DEFINE v == s.version + 1
           j == [i EXCEPT !.status = "failed"]
           k == Again(i, v)
           t == Step(s, {i}, {j, k})
<1>0. /\ s \in States /\ NamesOK(s) /\ StatusesOK(s) /\ TargetOK(s)
      /\ RepairsOK(s) /\ OneWaits(s) /\ Following(s)
      /\ s.version \in Nat /\ v \in Nat /\ i \in Items
  BY StateTypes DEF Sound
<1>1. /\ i.status = "dispatched" /\ ForDeveloper(i) /\ i.id \in 1..s.version
      /\ i.ordinal <= MaxSlices
  BY <1>0 DEF CanRecover, NamesOK
<1>2. /\ j \in Items
      /\ j.id = i.id /\ j.task = i.task /\ j.sha = i.sha /\ j.parent = i.parent
      /\ j.ordinal = i.ordinal /\ j.source = i.source
      /\ j.status = "failed" /\ j.run = i.run
  BY <1>0 DEF Items, Statuses
<1>3. /\ k \in Items
      /\ k.id = v /\ k.task = i.task /\ k.sha = i.sha
      /\ k.parent = i.parent /\ k.ordinal = i.ordinal /\ k.source = i.source
      /\ k.status = "pending" /\ k.ticket = NoTicket /\ k.run = None
  BY <1>0, AgainTypes
<1>4. Recover(s, i) = t
  BY DEF Recover
<1> HIDE DEF j, k
<1>5. /\ t \in States
      /\ t.version = s.version + 1
      /\ t.outbox = (s.outbox \ {i}) \cup {j, k}
      /\ t.phase = s.phase /\ t.target = s.target
      /\ t.transitions = s.transitions /\ t.developer = s.developer
  BY <1>0, <1>2, <1>3, StepTypes
<1> HIDE DEF t
<1>6. /\ \A l \in s.outbox \ {i} : l \in t.outbox /\ l.id # i.id /\ l.id # v /\ l.id \in 1..s.version
      /\ \A l \in t.outbox : l = j \/ l = k \/ l \in s.outbox \ {i}
      /\ j \in t.outbox /\ k \in t.outbox
      /\ j.id # k.id
  BY <1>0, <1>1, <1>2, <1>3, <1>5 DEF NamesOK
<1>7. NamesOK(t)
  <2>1. \A l \in t.outbox : l.id \in 1..t.version /\ l.ordinal <= MaxSlices
    BY <1>0, <1>1, <1>2, <1>3, <1>5, <1>6 DEF NamesOK
  <2>2. \A a, b \in t.outbox : a.id = b.id => a = b
    BY <1>0, <1>2, <1>3, <1>6 DEF NamesOK
  <2> QED
    BY <2>1, <2>2 DEF NamesOK
<1>8. StatusesOK(t)
  <2>1. ValidStatus(i)
    BY <1>0 DEF StatusesOK
  <2>2. ValidStatus(j)
    BY <1>1, <1>2, <2>1 DEF ValidStatus, ForDeveloper
  <2>3. ValidStatus(k)
    BY <1>3 DEF ValidStatus
  <2> QED
    BY <1>0, <1>6, <2>2, <2>3 DEF StatusesOK
<1>9. TargetOK(t)
  BY <1>0, <1>5 DEF TargetOK, Published
<1>10. RepairsOK(t)
  <2> SUFFICES ASSUME NEW l \in t.outbox, l.source # None PROVE ValidRepair(t, l)
    BY DEF RepairsOK
  <2> DEFINE o == IF l \in {j, k} THEN i ELSE l
  <2>1. o \in s.outbox /\ o.source # None
    BY <1>2, <1>3, <1>6
  <2>2. ValidRepair(s, o)
    BY <1>0, <2>1 DEF RepairsOK
  <2>3. /\ l.task = o.task /\ l.parent = o.parent /\ l.sha = o.sha
        /\ l.status # "failed" => o.status # "failed"
    BY <1>1, <1>2, <1>3
  <2> HIDE DEF o
  <2> QED
    BY <1>5, <2>2, <2>3 DEF ValidRepair, Published, Disputed
<1>11. Waits(s, i) /\ Leading(s, i)
  BY <1>0, <1>1 DEF OneWaits, Waits, Live, InFlight
<1>12. Waits(t, k)
  BY <1>2, <1>3, <1>5, <1>6, <1>11 DEF Waits, Live, InFlight
<1>13. Leading(t, k)
  <2> SUFFICES ASSUME NEW y \in t.outbox, y.status = "yielded"
               PROVE  /\ t.developer = "cursor" /\ y.task = "implement"
                      /\ k.task = "implement" /\ y.ordinal < k.ordinal
                      /\ Leads(t, y, k)
    BY DEF Leading
  <2>1. y \in s.outbox \ {i}
    BY <1>2, <1>3, <1>6
  <2>2. /\ s.developer = "cursor" /\ y.task = "implement" /\ i.task = "implement"
        /\ y.ordinal < i.ordinal
        /\ Leads(s, y, i)
    BY <1>11, <2>1 DEF Leading
  <2>3. PICK l \in s.outbox : /\ l.parent = y.id /\ l.ordinal = y.ordinal + 1
                              /\ l = i \/ l.status = "yielded"
    BY <2>2 DEF Leads
  <2>4. Leads(t, y, k)
    <3>1. CASE l = i
      BY <1>3, <1>6, <2>3, <3>1 DEF Leads
    <3>2. CASE l # i
      BY <1>6, <2>3, <3>2 DEF Leads
    <3> QED
      BY <3>1, <3>2
  <2> QED
    BY <1>3, <1>5, <2>2, <2>4
<1>14. Following(t)
  <2> SUFFICES ASSUME NEW l \in t.outbox, l.parent # None PROVE Continues(t, l)
    BY DEF Following
  <2> DEFINE o == IF l \in {j, k} THEN i ELSE l
  <2>1. o \in s.outbox /\ o.parent = l.parent
    BY <1>2, <1>3, <1>6
  <2>2. Continues(s, o)
    BY <1>0, <2>1 DEF Following
  <2>3. PICK p \in s.outbox : /\ p.id = o.parent /\ p.status = "yielded"
                              /\ o.ordinal = p.ordinal + 1
                              /\ o.task = p.task /\ o.sha = p.sha
    BY <2>2 DEF Continues
  <2>4. p \in t.outbox
    BY <1>1, <1>6, <2>3
  <2>5. ASSUME NEW n \in t.outbox, n.parent = l.parent, n.status # "failed",
               l.status # "failed"
        PROVE  n = l
    <3>1. \A q \in s.outbox :
              q.parent = o.parent /\ q.status # "failed" /\ o.status # "failed" => q = o
      BY <2>2 DEF Continues
    <3>2. o.status # "failed"
      BY <1>1, <2>5
    <3>3. n # j /\ l # j
      BY <1>2, <2>5
    <3>4. CASE n = k
      <4>1. i = o
        BY <1>1, <1>3, <2>1, <2>5, <3>1, <3>2, <3>4
      <4>2. l = k
        BY <1>6, <3>3, <4>1
      <4> QED
        BY <3>4, <4>2
    <3>5. CASE n \in s.outbox \ {i}
      <4>1. n = o
        BY <2>1, <2>5, <3>1, <3>2, <3>5
      <4> QED
        BY <3>5, <4>1
    <3> QED
      BY <1>6, <3>3, <3>4, <3>5
  <2>6. l.ordinal = o.ordinal /\ l.task = o.task /\ l.sha = o.sha
    BY <1>2, <1>3
  <2> QED
    BY <2>1, <2>3, <2>4, <2>5, <2>6 DEF Continues
<1>15. OneWaits(t)
  BY <1>6, <1>12, <1>13 DEF OneWaits
<1> QED
  BY <1>4, <1>5, <1>7, <1>8, <1>9, <1>10, <1>14, <1>15 DEF Sound

\* The next phase asks for one action, of which only what has failed before
\* and continues nothing is left.
LEMMA AdvanceTypes ==
    ASSUME NEW s \in States, NEW e \in Events, NEW gone
    PROVE  LET t == Advance(s, e, gone)
               phase == PhaseAfter(s, e)
               i == Fresh(s.version + 1, TaskIn[phase],
                          IF phase = "blocked" THEN None ELSE e.target)
           IN  /\ t \in States /\ i \in Items
               /\ t.version = s.version + 1
               /\ t.outbox = (s.outbox \ gone) \cup {i}
               /\ t.phase = phase /\ t.target = e.target
               /\ t.transitions = Append(s.transitions, e)
               /\ t.developer = s.developer
               /\ i.id = s.version + 1 /\ i.parent = None /\ i.ordinal = 0
               /\ i.source = None /\ i.status = "pending"
               /\ i.ticket = NoTicket /\ i.run = None
               /\ i.task = "review" => phase = "review" /\ i.sha = e.target
<1> DEFINE phase == PhaseAfter(s, e)
           sha == IF phase = "blocked" THEN None ELSE e.target
           task == TaskIn[phase]
           i == Fresh(s.version + 1, task, sha)
           t0 == Step(s, gone, {i})
           t == Advance(s, e, gone)
<1>0. /\ s.version \in Nat /\ s.version + 1 \in Nat /\ s.repairs \in Nat
      /\ s.transitions \in Seq(Events) /\ e.target \in Nat
  BY StateTypes DEF Events
<1>1. phase \in {"review", "quality", "blocked", "repair"}
  BY DEF PhaseAfter
<1>2. task \in Tasks /\ (task = "review" => phase = "review") /\ sha \in Nat
  <2>1. CASE phase = "review"
    BY <1>0, <2>1 DEF TaskIn, Tasks, None
  <2>2. CASE phase = "quality"
    BY <1>0, <2>2 DEF TaskIn, Tasks, None
  <2>3. CASE phase = "blocked"
    BY <1>0, <2>3 DEF TaskIn, Tasks, None
  <2>4. CASE phase = "repair"
    BY <1>0, <2>4 DEF TaskIn, Tasks, None
  <2> QED
    BY <1>1, <2>1, <2>2, <2>3, <2>4
<1> HIDE DEF phase, task
<1>3. /\ i \in Items
      /\ i.id = s.version + 1 /\ i.task = task /\ i.sha = sha /\ i.parent = None
      /\ i.ordinal = 0 /\ i.source = None /\ i.status = "pending"
      /\ i.ticket = NoTicket /\ i.run = None
  <2> HIDE DEF sha
  <2> QED
    BY <1>0, <1>2, FreshTypes
<1>4. task = "review" => sha = e.target
  BY <1>2
<1> HIDE DEF i, sha
<1>5. /\ t0 \in States
      /\ t0.version = s.version + 1
      /\ t0.outbox = (s.outbox \ gone) \cup {i}
      /\ t0.repairs = s.repairs
      /\ t0.transitions = s.transitions /\ t0.developer = s.developer
  BY <1>3, StepTypes
<1>6. t = [t0 EXCEPT !.phase = phase, !.target = e.target,
                !.repairs = IF e.outcome = "changes_requested" THEN @ + 1 ELSE @,
                !.transitions = Append(@, e)]
  BY DEF Advance, phase, task, sha, i
<1> DEFINE repairs == IF e.outcome = "changes_requested" THEN t0.repairs + 1 ELSE t0.repairs
           log == Append(t0.transitions, e)
<1>7. repairs \in Nat /\ log \in Seq(Events) /\ phase \in Phases
  BY <1>0, <1>1, <1>5 DEF Phases
<1>8. t = [t0 EXCEPT !.phase = phase, !.target = e.target,
                !.repairs = repairs, !.transitions = log]
  BY <1>6
<1>9. log = Append(s.transitions, e)
  BY <1>5
<1> HIDE DEF t0, t, repairs, log
<1>10. /\ t \in States
       /\ t.version = t0.version /\ t.outbox = t0.outbox
       /\ t.phase = phase /\ t.target = e.target
       /\ t.transitions = log /\ t.developer = t0.developer
  BY <1>0, <1>5, <1>7, <1>8 DEF States
<1>11. /\ t.version = s.version + 1
       /\ t.outbox = (s.outbox \ gone) \cup {i}
       /\ t.transitions = Append(s.transitions, e)
       /\ t.developer = s.developer
  BY <1>5, <1>9, <1>10
<1> QED
  BY <1>2, <1>3, <1>4, <1>10, <1>11 DEF t, i, sha, task, phase

\* What was said of a commit stays said.
LEMMA LogGrows ==
    ASSUME NEW s \in States, NEW e \in Events, NEW t,
           t.transitions = Append(s.transitions, e), NEW sha
    PROVE  /\ Published(s, sha) => Published(t, sha)
           /\ Disputed(s, sha) => Disputed(t, sha)
           /\ e.kind = "publisher" => Published(t, e.target)
<1> DEFINE q == s.transitions
           l == t.transitions
<1>1. /\ DOMAIN q \subseteq DOMAIN l
      /\ \A n \in DOMAIN q : l[n] = q[n]
      /\ Len(q) + 1 \in DOMAIN l /\ l[Len(q) + 1] = e
  <2>1. q \in Seq(Events) /\ l = Append(q, e)
    BY StateTypes
  <2> HIDE DEF q, l
  <2> QED
    BY <2>1
<1>2. Published(s, sha) => Published(t, sha)
  BY <1>1 DEF Published
<1>3. Disputed(s, sha) => Disputed(t, sha)
  BY <1>1 DEF Disputed
<1>4. e.kind = "publisher" => Published(t, e.target)
  BY <1>1 DEF Published
<1> QED
  BY <1>2, <1>3, <1>4

LEMMA AdvanceSound ==
    ASSUME NEW s, Sound(s), NEW e \in Events, e.target # None,
           e.kind = "publisher" \/ e.target = s.target,
           NEW gone,
           \A j \in s.outbox \ gone : j.status = "failed" /\ j.parent = None
    PROVE  Sound(Advance(s, e, gone))
<1> DEFINE phase == PhaseAfter(s, e)
           i == Fresh(s.version + 1, TaskIn[phase],
                      IF phase = "blocked" THEN None ELSE e.target)
           t == Advance(s, e, gone)
<1>0. /\ s \in States /\ NamesOK(s) /\ StatusesOK(s) /\ TargetOK(s)
      /\ RepairsOK(s) /\ s.version \in Nat
  BY StateTypes DEF Sound
<1>1. /\ t \in States /\ i \in Items
      /\ t.version = s.version + 1
      /\ t.outbox = (s.outbox \ gone) \cup {i}
      /\ t.phase = phase /\ t.target = e.target
      /\ t.transitions = Append(s.transitions, e)
      /\ i.id = s.version + 1 /\ i.parent = None /\ i.ordinal = 0
      /\ i.source = None /\ i.status = "pending"
      /\ i.ticket = NoTicket /\ i.run = None
      /\ i.task = "review" => phase = "review" /\ i.sha = e.target
  BY <1>0, AdvanceTypes
<1> HIDE DEF i, t, phase
<1>2. \A sha : /\ Published(s, sha) => Published(t, sha)
               /\ Disputed(s, sha) => Disputed(t, sha)
               /\ e.kind = "publisher" => Published(t, e.target)
  BY <1>0, <1>1, LogGrows
<1>3. \A j \in t.outbox :
          j = i \/ (j \in s.outbox /\ j.status = "failed" /\ j.parent = None)
  BY <1>1
<1>4. NamesOK(t)
  BY <1>0, <1>1, <1>3, OutboxAssumption DEF NamesOK
<1>5. StatusesOK(t)
  BY <1>0, <1>1, <1>3 DEF StatusesOK, ValidStatus
<1>6. TargetOK(t)
  <2>1. Published(t, e.target)
    BY <1>0, <1>2 DEF TargetOK
  <2> QED
    BY <1>1, <2>1 DEF TargetOK
<1>7. RepairsOK(t)
  BY <1>0, <1>1, <1>2, <1>3 DEF RepairsOK, ValidRepair
<1>8. Following(t)
  BY <1>1, <1>3 DEF Following
<1>9. Waits(t, i) /\ Leading(t, i) /\ i \in t.outbox
  BY <1>1, <1>3 DEF Waits, Leading, Live, InFlight
<1> QED
  BY <1>1, <1>4, <1>5, <1>6, <1>7, <1>8, <1>9 DEF Sound, OneWaits, t

LEMMA PublicationTypes ==
    ASSUME NEW r \in Nat
    PROVE  /\ PublicationOf(r) \in Events
           /\ PublicationOf(r).kind = "publisher" /\ PublicationOf(r).target # None
<1>1. PatchOf(r) \in Nat /\ PatchOf(r) # None
  BY DEF PatchOf, None
<1> HIDE DEF PatchOf
<1> QED
  BY <1>1 DEF PublicationOf, Events

LEMMA PublishSound ==
    ASSUME NEW s, Sound(s), NEW i \in s.outbox, NEW r \in Nat, Publishable(s, i, r)
    PROVE  Sound(Publish(s, i, r))
<1> DEFINE lineage == Lineage(s, i)
           gone == SupersededProposalChain(s, i)
<1>0. /\ s \in States /\ NamesOK(s) /\ OneWaits(s) /\ Following(s)
      /\ i.id \in 1..s.version /\ i.ordinal <= MaxSlices
      /\ s.version \in Nat \ {0}
  BY StateTypes DEF Sound, NamesOK
<1>1. i.status = "pending"
  BY DEF Publishable
<1>2. Waits(s, i) /\ Leading(s, i)
  BY <1>0, <1>1 DEF OneWaits, Waits, Live
<1>3. /\ i \in lineage
      /\ \A y \in s.outbox : y.status = "yielded" => y \in lineage
      /\ lineage \cup Continuations(s, lineage) \subseteq gone
  BY <1>0, <1>2, LineageHoldsItself, LineageHoldsYielded, ChainHoldsContinuations
<1> HIDE DEF lineage, gone
<1>4. ASSUME NEW j \in s.outbox \ gone PROVE j.status = "failed" /\ j.parent = None
  <2>1. ~ Live(j) /\ j.status # "yielded"
    BY <1>2, <1>3 DEF Waits
  <2>2. j.status \in Statuses
    BY <1>0, StateTypes, ItemTypes
  <2>3. j.status = "failed"
    BY <2>1, <2>2 DEF Live, InFlight, Statuses
  <2>4. ASSUME j.parent # None PROVE FALSE
    <3>1. PICK p \in s.outbox : p.id = j.parent /\ p.status = "yielded"
      BY <1>0, <2>4 DEF Following, Continues
    <3>2. j \in Continuations(s, lineage)
      BY <1>3, <3>1 DEF Continuations
    <3> QED
      BY <1>3, <3>2
  <2> QED
    BY <2>3, <2>4
<1>5. Publish(s, i, r) = Advance(s, PublicationOf(r), gone)
  BY DEF Publish, gone
<1> QED
  BY <1>4, <1>5, PublicationTypes, AdvanceSound

\* Where no slice was yielded, what is left without the action that waited
\* has failed and continues nothing.
LEMMA WithoutSlices ==
    ASSUME NEW s, Sound(s), NEW i \in s.outbox, Live(i),
           i.task # "implement" \/ s.developer = "qwen",
           NEW gone, i \in gone
    PROVE  \A j \in s.outbox \ gone : j.status = "failed" /\ j.parent = None
<1>0. s \in States /\ OneWaits(s) /\ Following(s)
  BY DEF Sound
<1>1. Waits(s, i) /\ Leading(s, i)
  BY <1>0 DEF OneWaits, Waits
<1>2. \A y \in s.outbox : y.status # "yielded"
  BY <1>1 DEF Leading
<1>3. ASSUME NEW j \in s.outbox \ gone PROVE j.status = "failed" /\ j.parent = None
  <2>1. j.status \in Statuses
    BY <1>0, StateTypes, ItemTypes
  <2>2. j.status = "failed"
    BY <1>1, <1>2, <2>1 DEF Waits, Live, InFlight, Statuses
  <2>3. j.parent = None
    BY <1>0, <1>2 DEF Following, Continues
  <2> QED
    BY <2>2, <2>3
<1> QED
  BY <1>3

LEMMA QwenPublishSound ==
    ASSUME NEW s, Sound(s), NEW i \in s.outbox,
           QwenPublishable(s, i) \/ QwenRepairPublishable(s, i)
    PROVE  Sound(QwenPublish(s, i))
<1>1. s.developer = "qwen" /\ i.status = "dispatched"
  BY DEF QwenPublishable, QwenRepairPublishable
<1>2. Live(i)
  BY <1>1 DEF Live, InFlight
<1>3. \A j \in s.outbox \ {i} : j.status = "failed" /\ j.parent = None
  <2>1. i \in {i}
    OBVIOUS
  <2> QED
    BY <1>1, <1>2, <2>1, WithoutSlices
<1>4. i.run \in Nat
  BY StateTypes, ItemTypes DEF Sound
<1>5. /\ PublicationOf(i.run) \in Events /\ PublicationOf(i.run).kind = "publisher"
      /\ PublicationOf(i.run).target # None
  BY <1>4, PublicationTypes
<1> QED
  BY <1>3, <1>5, AdvanceSound DEF QwenPublish

LEMMA AcceptSound ==
    ASSUME NEW s, Sound(s), NEW i \in s.outbox, i.status = "dispatched",
           i.task # "implement",
           NEW e \in Events, e.target # None, e.target = s.target
    PROVE  Sound(AcceptTaskResult(s, i, e))
<1>1. Live(i)
  BY DEF Live, InFlight
<1>2. i \in Lineage(s, i)
  BY LineageHoldsItself
<1>3. \A j \in s.outbox \ Lineage(s, i) : j.status = "failed" /\ j.parent = None
  BY <1>1, <1>2, WithoutSlices
<1> QED
  BY <1>3, AdvanceSound DEF AcceptTaskResult
-----------------------------------------------------------------------------
(* Which actions name a run: only an acknowledgement adds a name.          *)

RunsKept(s, t) ==
    \A j \in t.outbox : j.run # None =>
        \E i \in s.outbox : i.id = j.id /\ i.run = j.run

LEMMA StepKeepsRuns ==
    ASSUME NEW s \in States, NEW gone, NEW new \in SUBSET Items,
           \A j \in new : \/ j.run = None
                          \/ \E i \in s.outbox : i.id = j.id /\ i.run = j.run
    PROVE  RunsKept(s, Step(s, gone, new))
  BY StepTypes DEF RunsKept

LEMMA BindKeepsRuns ==
    ASSUME NEW s \in States, NEW i \in s.outbox, FirstPublished(s).run \in Nat
    PROVE  RunsKept(s, Bind(s, i))
<1> DEFINE r == FirstPublished(s).run
           j == [i EXCEPT !.source = r]
<1>1. i \in Items /\ r \in Nat
  BY StateTypes
<1> HIDE DEF r
<1>2. j \in Items /\ j.id = i.id /\ j.run = i.run
  BY <1>1 DEF Items
<1>3. Bind(s, i) = Step(s, {i}, {j})
  BY DEF Bind, r
<1> HIDE DEF j
<1> QED
  BY <1>2, <1>3, StepKeepsRuns

LEMMA IntendKeepsRuns ==
    ASSUME NEW s \in States, NEW i \in s.outbox, NEW ticket \in Tickets
    PROVE  RunsKept(s, Intend(s, i, ticket))
<1> DEFINE j == [i EXCEPT !.status = "dispatching", !.ticket = ticket]
<1>1. i \in Items
  BY StateTypes
<1>2. j \in Items /\ j.id = i.id /\ j.run = i.run
  BY <1>1 DEF Items, Statuses
<1>3. Intend(s, i, ticket) = Step(s, {i}, {j})
  BY DEF Intend
<1> HIDE DEF j
<1> QED
  BY <1>2, <1>3, StepKeepsRuns

LEMMA YieldKeepsRuns ==
    ASSUME NEW s \in States, NEW i \in s.outbox
    PROVE  RunsKept(s, YieldSlice(s, i))
<1> DEFINE j == [i EXCEPT !.status = "yielded"]
           m == Again(i, s.version + 1)
           k == [m EXCEPT !.parent = i.id, !.ordinal = i.ordinal + 1]
<1>1. /\ i \in Items /\ s.version + 1 \in Nat
      /\ i.id \in Nat /\ i.ordinal + 1 \in Nat
  BY StateTypes, ItemTypes
<1>2. j \in Items /\ j.id = i.id /\ j.run = i.run
  BY <1>1 DEF Items, Statuses
<1>3. m \in Items /\ m.run = None
  BY <1>1, AgainTypes
<1>4. k \in Items /\ k.run = None
  <2> HIDE DEF m
  <2> QED
    BY <1>1, <1>3 DEF Items
<1>5. YieldSlice(s, i) = Step(s, {i}, {j, k})
  BY DEF YieldSlice
<1> HIDE DEF j, k
<1> QED
  BY <1>2, <1>4, <1>5, StepKeepsRuns

LEMMA RecoverKeepsRuns ==
    ASSUME NEW s \in States, NEW i \in s.outbox
    PROVE  RunsKept(s, Recover(s, i))
<1> DEFINE j == [i EXCEPT !.status = "failed"]
           k == Again(i, s.version + 1)
<1>1. i \in Items /\ s.version + 1 \in Nat
  BY StateTypes
<1>2. j \in Items /\ j.id = i.id /\ j.run = i.run
  BY <1>1 DEF Items, Statuses
<1>3. k \in Items /\ k.run = None
  BY <1>1, AgainTypes
<1>4. Recover(s, i) = Step(s, {i}, {j, k})
  BY DEF Recover
<1> HIDE DEF j, k
<1> QED
  BY <1>2, <1>3, <1>4, StepKeepsRuns

LEMMA AdvanceKeepsRuns ==
    ASSUME NEW s \in States, NEW e \in Events, NEW gone
    PROVE  RunsKept(s, Advance(s, e, gone))
<1> DEFINE phase == PhaseAfter(s, e)
           i == Fresh(s.version + 1, TaskIn[phase],
                      IF phase = "blocked" THEN None ELSE e.target)
           t == Advance(s, e, gone)
<1>1. i.run = None /\ t.outbox = (s.outbox \ gone) \cup {i}
  BY AdvanceTypes
<1> HIDE DEF i, t
<1>2. RunsKept(s, t)
  BY <1>1 DEF RunsKept
<1> QED
  BY <1>2 DEF t

LEMMA AcknowledgeNames ==
    ASSUME NEW s \in States, NEW i \in s.outbox, NEW r \in Nat
    PROVE  LET t == Acknowledge(s, i, r)
           IN  /\ t.phase = s.phase /\ t.target = s.target
               /\ \E j \in t.outbox :
                      /\ j.id = i.id /\ j.task = i.task /\ j.sha = i.sha
                      /\ j.status = "dispatched" /\ j.run = r
                      /\ \A k \in t.outbox : k = j \/ k \in s.outbox
<1> DEFINE j == [i EXCEPT !.status = "dispatched", !.ticket = NoTicket, !.run = r]
           t == Acknowledge(s, i, r)
<1>0. i \in Items /\ NoTicket \in Tickets
  BY StateTypes DEF NoTicket, Tickets, None
<1>1. /\ j \in Items
      /\ j.id = i.id /\ j.task = i.task /\ j.sha = i.sha
      /\ j.status = "dispatched" /\ j.run = r
  BY <1>0 DEF Items, Statuses
<1>2. t = Step(s, {i}, {j})
  BY DEF Acknowledge
<1> HIDE DEF j, t
<1>3. /\ t.phase = s.phase /\ t.target = s.target
      /\ t.outbox = (s.outbox \ {i}) \cup {j}
  BY <1>1, <1>2, StepTypes
<1> QED
  BY <1>1, <1>3 DEF t
=============================================================================
