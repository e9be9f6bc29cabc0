------------------------- MODULE OutputStreamProofs -------------------------
(***************************************************************************)
(* What holds of OutputStream for every script, every limit of the page and *)
(* every bound, whatever is lost, refused, evicted or answered late; the    *)
(* last two theorems name what may not happen besides.                      *)
(***************************************************************************)
EXTENDS OutputStream, TLAPS, FiniteSetTheorems, WellFoundedInduction

\* The types of what a page holds.
Frames  == [kind : Kinds, superseded : BOOLEAN]
Boards  == UNION {[S -> Frames] : S \in SUBSET Positions}
Screens == [epoch : Epochs \cup {None}, last : Nat, whole : BOOLEAN, twice : BOOLEAN,
            size : Nat]
Requests == [id : Nat, epoch : Epochs, after : Nat, answer : Answers \cup {None}]
Pages ==
    [epoch : Epochs \cup {None}, frontier : Nat \cup {None}, pending : Boards,
     wantHistory : BOOLEAN, attemptsFor : Nat \cup {None}, attempts : Nat,
     inFlight : Nat, asked : SUBSET Requests, overtaken : SUBSET Positions,
     screen : Screens, mayHaveGap : BOOLEAN, repairPending : BOOLEAN]

Held(p) == DOMAIN p.pending

-----------------------------------------------------------------------------
(* Numbers, sets and functions.                                            *)

\* A set of numbers that has 0 and every successor has them all.
LEMMA Induction ==
    ASSUME NEW T \in SUBSET Nat, 0 \in T, \A n \in T : n + 1 \in T
    PROVE  T = Nat
<1> DEFINE Less == {p \in Nat \X Nat : p[1] < p[2]}
<1>1. IsWellFoundedOn(Less, Nat)
  BY NatLessThanWellFounded, Zenon DEF OpToRel
<1> SUFFICES ASSUME Nat \ T # {} PROVE FALSE
  OBVIOUS
<1>2. PICK x \in Nat \ T : \A y \in Nat \ T : ~ (<<y, x>> \in Less)
  <2>1. Nat \ T \subseteq Nat
    OBVIOUS
  <2> HIDE DEF Less
  <2> QED
    BY <1>1, <2>1, WFMin
<1>3. x # 0 /\ x - 1 \in Nat /\ x - 1 + 1 = x
  OBVIOUS
<1>4. <<x - 1, x>> \in Less
  BY <1>3
<1>5. x - 1 \in T
  BY <1>2, <1>3, <1>4
<1> QED
  BY <1>2, <1>3, <1>5

\* Numbers have a least one.
LEMMA LeastOf ==
    ASSUME NEW S \in SUBSET Nat, S # {}
    PROVE  Min(S) \in S /\ \A y \in S : Min(S) <= y
<1> DEFINE T == {n \in Nat : \A y \in S : n <= y}
<1>1. PICK y0 \in S : TRUE
  OBVIOUS
<1>2. PICK x \in T : x + 1 \notin T
  <2>1. y0 + 1 \in Nat \ T /\ 0 \in T /\ T \in SUBSET Nat
    BY <1>1
  <2> HIDE DEF T
  <2> QED
    BY <2>1, Induction
<1>3. x \in S
  <2>1. PICK y \in S : ~ (x + 1 <= y)
    BY <1>2
  <2>2. x <= y /\ x \in Nat /\ y \in Nat
    BY <2>1
  <2>3. x = y
    BY <2>1, <2>2
  <2> QED
    BY <2>3
<1>4. x \in S /\ \A y \in S : x <= y
  BY <1>3
<1> QED
  BY <1>4, Zenon DEF Min

\* Numbers with a bound have a greatest one.
LEMMA GreatestOf ==
    ASSUME NEW S \in SUBSET Nat, S # {}, NEW b \in Nat, \A y \in S : y <= b
    PROVE  Max(S) \in S /\ \A y \in S : Max(S) >= y
<1> DEFINE T == {n \in Nat : \E y \in S : y >= n}
<1>1. PICK y0 \in S : TRUE
  OBVIOUS
<1>2. PICK x \in T : x + 1 \notin T
  <2>1. b + 1 \in Nat \ T /\ 0 \in T /\ T \in SUBSET Nat
    BY <1>1
  <2> HIDE DEF T
  <2> QED
    BY <2>1, Induction
<1>3. x \in S
  <2>1. PICK y \in S : y >= x
    BY <1>2
  <2>2. ~ (y >= x + 1) /\ x \in Nat /\ y \in Nat
    BY <1>2
  <2>3. x = y
    BY <2>1, <2>2
  <2> QED
    BY <2>3
<1>4. x \in S /\ \A y \in S : x >= y
  <2>1. ASSUME NEW y \in S PROVE x >= y
    <3>1. y \in Nat /\ x \in Nat /\ ~ (y >= x + 1)
      BY <1>2
    <3> QED
      BY <3>1
  <2> QED
    BY <1>3, <2>1
<1> QED
  BY <1>4, Zenon DEF Max

\* The greater of two numbers, and the less.
LEMMA OfTwo ==
    ASSUME NEW a \in Nat, NEW b \in Nat
    PROVE  /\ Max({a, b}) = IF a >= b THEN a ELSE b
           /\ Min({a, b}) = IF a <= b THEN a ELSE b
<1>1. Max({a, b}) \in {a, b} /\ \A y \in {a, b} : Max({a, b}) >= y
  <2> DEFINE c == a + b
  <2>1. c \in Nat /\ \A y \in {a, b} : y <= c
    OBVIOUS
  <2> HIDE DEF c
  <2>2. {a, b} \in SUBSET Nat /\ {a, b} # {}
    OBVIOUS
  <2> QED
    BY <2>1, <2>2, GreatestOf
<1>2. Min({a, b}) \in {a, b} /\ \A y \in {a, b} : Min({a, b}) <= y
  BY LeastOf
<1> QED
  BY <1>1, <1>2

\* What is on a board.
LEMMA OnBoard ==
    ASSUME NEW f \in Boards
    PROVE  /\ f = [n \in DOMAIN f |-> f[n]] /\ DOMAIN f \subseteq Positions
           /\ \A n \in DOMAIN f : f[n] \in Frames
<1>1. PICK S \in SUBSET Positions : f \in [S -> Frames]
  BY DEF Boards
<1> QED
  BY <1>1

LEMMA ABoard ==
    ASSUME NEW S \in SUBSET Positions, NEW f \in [S -> Frames]
    PROVE  f \in Boards
BY DEF Boards

LEMMA EmptyBoard ==
    ASSUME NEW f \in Boards
    PROVE  /\ f = <<>> <=> DOMAIN f = {}
           /\ <<>> \in Boards /\ DOMAIN <<>> = {}
<1>1. <<>> \in [{} -> Frames] /\ DOMAIN <<>> = {}
  OBVIOUS
<1>2. <<>> \in Boards
  BY <1>1, ABoard
<1>3. ASSUME DOMAIN f = {} PROVE f = <<>>
  BY <1>3, OnBoard
<1> QED
  BY <1>1, <1>2, <1>3

\* Positions are finite sets of numbers, and not None.
LEMMA Numbers ==
    /\ Len(Script) \in Nat /\ Positions \subseteq Nat \ {0} /\ IsFiniteSet(Positions)
    /\ \A n \in Positions : Script[n] \in Kinds
    /\ None \notin Nat /\ None \notin Epochs /\ Epochs \subseteq Nat
    /\ None \notin Answers /\ None \notin Attaches
    /\ {MaxEpochs, MaxAttaches, MaxFrames, HOLE_ATTEMPT_LIMIT, MaxAsked} \subseteq Nat \ {0}
<1>1. Script \in Seq(Kinds)
  BY OutputAssumption
<1>2. Len(Script) \in Nat /\ \A n \in Positions : Script[n] \in Kinds
  BY <1>1 DEF Positions
<1>3. IsFiniteSet(Positions)
  BY <1>2, FS_Interval DEF Positions
<1>4. /\ None \notin Nat /\ None \notin Answers /\ None \notin Attaches
      /\ MaxEpochs \in Nat
  BY OutputAssumption
<1>5. Epochs \subseteq Nat
  BY <1>4 DEF Epochs
<1>6. Positions \subseteq Nat \ {0}
  BY <1>2 DEF Positions
<1> QED
  BY <1>2, <1>3, <1>4, <1>5, <1>6, OutputAssumption

-----------------------------------------------------------------------------
(* A page, and what an operator may make of it.                            *)

\* A resize that a level overtook is superseded or passed.
Told(p) ==
    \A n \in p.overtaken :
        \/ n \in Held(p) /\ p.pending[n].superseded
        \/ p.frontier # None /\ n <= p.frontier

\* What is asked is asked about the epoch of the page, and what is waited for is
\* asked.
Asks(p) ==
    /\ IsFiniteSet(p.asked)
    /\ \A f \in p.asked : f.epoch = p.epoch
    /\ p.inFlight # 0 => \E f \in p.asked : f.id = p.inFlight

Sane(p) ==
    /\ p \in Pages
    /\ Cardinality(Held(p)) <= MaxFrames
    /\ Told(p) /\ p.screen.size \notin p.overtaken
    /\ Asks(p)
    /\ p.epoch = None => p.frontier = None /\ Held(p) = {}

\* What is held is ahead of what comes next.
Ahead(p) == p.frontier # None => \A n \in Held(p) : p.frontier + 1 < n

\* Nothing is known beyond position c.
Within(p, c) ==
    /\ p.frontier # None => p.frontier <= c
    /\ \A n \in Held(p) : n <= c
    /\ p.screen.epoch = p.epoch => p.screen.last <= c

\* What is shown is behind what comes next.
Behind(p) ==
    p.screen.epoch = p.epoch =>
        IF p.frontier = None THEN \A n \in Held(p) : p.screen.last < n
        ELSE p.screen.last <= p.frontier

\* What is shown is everything up to the frontier.
InStep(p) ==
    /\ p.frontier # None /\ p.screen.epoch = p.epoch
    /\ p.screen.whole /\ p.screen.last = p.frontier

\* A loss is stated and no repair is on its way.
Owned(p) == p.mayHaveGap /\ ~p.repairPending

SameFlags(p, q) == q.mayHaveGap = p.mayHaveGap /\ q.repairPending = p.repairPending

\* What is shown and what comes next stay.
Stays(p, q) == q.screen = p.screen /\ q.frontier = p.frontier /\ SameFlags(p, q)

\* What an operator makes of a page of one epoch.
Keeps(p, q, c) ==
    /\ q.epoch = p.epoch
    /\ p.frontier # None => q.frontier # None /\ p.frontier <= q.frontier
    /\ SameFlags(p, q) \/ Owned(q)
    /\ Within(p, c) => Within(q, c)
    /\ InStep(p) => InStep(q) \/ Owned(q)
    /\ Behind(p) => Behind(q) /\ q.screen.twice = p.screen.twice
    /\ \/ q.screen.epoch = p.epoch
       \/ q.screen.epoch = p.screen.epoch /\ q.screen.last = p.screen.last
    /\ \A f \in q.asked : f \in p.asked \/ f.answer = None

LEMMA KeepsTwice ==
    ASSUME NEW p \in Pages, NEW q \in Pages, NEW r \in Pages, NEW c,
           Keeps(p, q, c), Keeps(q, r, c)
    PROVE  Keeps(p, r, c)
<1>1. p.frontier # None => r.frontier # None /\ p.frontier <= r.frontier
  BY Numbers DEF Keeps, Pages
<1>2. SameFlags(p, r) \/ Owned(r)
  BY DEF Keeps, SameFlags, Owned
<1>3. InStep(p) => InStep(r) \/ Owned(r)
  BY DEF Keeps, SameFlags, Owned
<1>4. /\ r.epoch = p.epoch
      /\ \/ r.screen.epoch = p.epoch
         \/ r.screen.epoch = p.screen.epoch /\ r.screen.last = p.screen.last
      /\ \A f \in r.asked : f \in p.asked \/ f.answer = None
  BY DEF Keeps
<1>5. Behind(p) => Behind(r) /\ r.screen.twice = p.screen.twice
  BY DEF Keeps
<1>6. Within(p, c) => Within(r, c)
  BY DEF Keeps
<1> QED
  BY <1>1, <1>2, <1>3, <1>4, <1>5, <1>6 DEF Keeps

\* Nothing shown, held or stated: nothing to keep.
LEMMA KeepsSame ==
    ASSUME NEW p \in Pages, NEW q \in Pages, NEW c,
           q.epoch = p.epoch, q.frontier = p.frontier, q.pending = p.pending,
           q.screen = p.screen, SameFlags(p, q) \/ Owned(q),
           \A f \in q.asked : f \in p.asked \/ f.answer = None
    PROVE  Keeps(p, q, c)
<1>1. p.frontier # None => p.frontier <= q.frontier
  BY DEF Pages
<1> QED
  BY <1>1 DEF Keeps, Within, InStep, Behind, Held

\* Frames lo to hi are shown.
LEMMA ShowIs ==
    ASSUME NEW p \in Pages, NEW lo \in Nat, NEW hi \in Nat, NEW frames,
           lo..hi \subseteq DOMAIN frames
    PROVE  LET s == Show(p, lo, hi, frames)
           IN  /\ s \in Screens
               /\ hi < lo => s = p.screen
               /\ lo <= hi =>
                    /\ s.epoch = p.epoch /\ s.last = hi
                    /\ s.whole = (p.screen.whole /\ p.screen.epoch = p.epoch
                                    /\ lo = p.screen.last + 1)
                    /\ s.twice = (p.screen.twice
                                    \/ (p.screen.epoch = p.epoch /\ lo <= p.screen.last))
               /\ \/ s.size = p.screen.size
                  \/ /\ s.size \in lo..hi /\ frames[s.size].kind = "resize"
                     /\ ~frames[s.size].superseded
<1> DEFINE sizes == {n \in lo..hi : frames[n].kind = "resize" /\ ~frames[n].superseded}
           size == IF sizes = {} THEN p.screen.size ELSE Max(sizes)
<1>1. sizes # {} => Max(sizes) \in sizes
  <2>1. sizes \in SUBSET Nat /\ \A y \in sizes : y <= hi
    OBVIOUS
  <2> HIDE DEF sizes
  <2> QED
    BY <2>1, GreatestOf
<1>2. size \in Nat
  <2>1. sizes \subseteq Nat
    OBVIOUS
  <2> HIDE DEF sizes
  <2>2. p.screen.size \in Nat
    BY DEF Pages, Screens
  <2> QED
    BY <1>1, <2>1, <2>2
<1>3. size = p.screen.size \/ size \in sizes
  <2> HIDE DEF sizes
  <2> QED
    BY <1>1
<1>4. Show(p, lo, hi, frames) =
        IF hi < lo THEN p.screen ELSE
        [epoch |-> p.epoch, last  |-> hi,
         whole |-> p.screen.whole /\ p.screen.epoch = p.epoch /\ lo = p.screen.last + 1,
         twice |-> p.screen.twice \/ (p.screen.epoch = p.epoch /\ lo <= p.screen.last),
         size  |-> size]
  BY DEF Show
<1> HIDE DEF size
<1>5. p.screen \in Screens /\ p.epoch \in Epochs \cup {None}
  BY DEF Pages
<1>6. p.screen.whole \in BOOLEAN /\ p.screen.twice \in BOOLEAN
  BY <1>5 DEF Screens
<1>7. Show(p, lo, hi, frames) \in Screens
  <2>1. CASE hi < lo
    BY <1>4, <1>5, <2>1
  <2>2. CASE ~ (hi < lo)
    BY <1>2, <1>4, <1>5, <2>2 DEF Screens
  <2> QED
    BY <2>1, <2>2
<1>8. CASE hi < lo
  BY <1>4, <1>7, <1>8
<1>9. CASE lo <= hi
  <2>1. ~ (hi < lo)
    BY <1>9
  <2> QED
    BY <1>3, <1>4, <1>7, <1>9, <2>1
<1> QED
  BY <1>8, <1>9

-----------------------------------------------------------------------------
(* The operators of the page.                                              *)

\* The frames next in line are those up to the first that is missing.
LEMMA DrainIs ==
    ASSUME NEW p \in Pages, p.frontier # None
    PROVE  \E top \in Nat :
             /\ p.frontier <= top /\ (p.frontier + 1)..top \subseteq Held(p)
             /\ top + 1 \notin Held(p)
             /\ Drain(p) = [p EXCEPT
                    !.pending = [n \in {m \in Held(p) : m > top} |-> p.pending[n]],
                    !.screen = Show(p, p.frontier + 1, top, p.pending),
                    !.frontier = top]
<1> DEFINE f == p.frontier
           H == Held(p)
           Free == {t \in Nat : t >= f /\ t + 1 \notin H}
           ahead == {n \in H : n > f}
           run == {n \in ahead : (f + 1)..n \subseteq ahead}
<1>1. f \in Nat /\ H \subseteq Nat /\ H \subseteq Positions
  BY Numbers, OnBoard DEF Pages, Held
<1>2. Free \in SUBSET Nat /\ Free # {}
  <2>1. Len(Script) \in Nat /\ \A n \in H : n <= Len(Script)
    BY <1>1, Numbers DEF Positions
  <2> HIDE DEF f, H
  <2>2. f + Len(Script) \in Free
    BY <1>1, <2>1
  <2> QED
    BY <2>2
<1>3. PICK t \in Free : \A y \in Free : t <= y
  <2> HIDE DEF Free
  <2> QED
    BY <1>2, LeastOf
<1>4. t \in Nat /\ f <= t /\ t + 1 \notin H
  BY <1>3
<1>5. \A m \in (f + 1)..t : m \in H
  <2> SUFFICES ASSUME NEW m \in (f + 1)..t, m \notin H PROVE FALSE
    OBVIOUS
  <2>1. m - 1 \in Nat /\ m - 1 >= f /\ m - 1 + 1 = m /\ ~ (t <= m - 1)
    BY <1>1, <1>4
  <2> QED
    BY <1>3, <2>1
<1>6. run = (f + 1)..t
  <2>1. ASSUME NEW n \in run PROVE n \in (f + 1)..t
    <3>1. n \in Nat /\ n > f /\ (f + 1)..n \subseteq H
      BY <1>1
    <3>2. ~ (t + 1 <= n)
      BY <1>1, <1>4, <3>1
    <3> QED
      BY <1>1, <1>4, <3>1, <3>2
  <2>2. ASSUME NEW n \in (f + 1)..t PROVE n \in run
    <3>1. \A m \in (f + 1)..n : m \in (f + 1)..t /\ m > f
      BY <1>1, <1>4
    <3>2. (f + 1)..n \subseteq ahead /\ n \in ahead
      BY <1>1, <1>5, <3>1
    <3> QED
      BY <3>2
  <2> QED
    BY <2>1, <2>2
<1>7. f + Cardinality(run) = t
  <2>0. f + 1 \in Int /\ t \in Int
    BY <1>1, <1>4
  <2>1. Cardinality((f + 1)..t) = IF f + 1 > t THEN 0 ELSE t - (f + 1) + 1
    <3> HIDE DEF f
    <3> QED
      BY <2>0, FS_Interval
  <2> HIDE DEF run
  <2> QED
    BY <1>1, <1>4, <1>6, <2>1
<1>8. ahead \ run = {m \in H : m > t}
  <2> HIDE DEF run
  <2>1. \A m \in H : (m > f /\ m \notin (f + 1)..t) <=> m > t
    BY <1>1, <1>4
  <2> QED
    BY <1>6, <2>1
<1>9. Drain(p) = [p EXCEPT !.pending = [n \in ahead \ run |-> p.pending[n]],
                           !.screen = Show(p, f + 1, f + Cardinality(run), p.pending),
                           !.frontier = f + Cardinality(run)]
  BY DEF Drain, Held
<1> HIDE DEF run, ahead
<1>10. Drain(p) = [p EXCEPT !.pending = [n \in {m \in H : m > t} |-> p.pending[n]],
                            !.screen = Show(p, f + 1, t, p.pending),
                            !.frontier = t]
  BY <1>7, <1>8, <1>9
<1>11. (f + 1)..t \subseteq H
  BY <1>5
<1> QED
  BY <1>4, <1>10, <1>11, Zenon

\* The pages before and after differ in nothing but what comes next, what is held
\* and what is shown.
SameRest(p, q) ==
    /\ q.epoch = p.epoch /\ q.wantHistory = p.wantHistory
    /\ q.attemptsFor = p.attemptsFor /\ q.attempts = p.attempts
    /\ q.inFlight = p.inFlight /\ q.asked = p.asked
    /\ q.mayHaveGap = p.mayHaveGap /\ q.repairPending = p.repairPending

LEMMA DrainSane ==
    ASSUME NEW p, Sane(p), NEW c \in Nat
    PROVE  LET q == Drain(p)
           IN  /\ Sane(q) /\ Ahead(q) /\ SameRest(p, q) /\ Keeps(p, q, c)
               /\ Held(q) \subseteq Held(p)
               /\ p.frontier = None => q = p
               /\ p.frontier # None => q.frontier # None
<1> DEFINE q == Drain(p)
<1>1. CASE p.frontier = None
  <2>1. q = p
    BY <1>1 DEF Drain
  <2> QED
    BY <1>1, <2>1, KeepsSame DEF Sane, Ahead, SameRest, SameFlags
<1>2. CASE p.frontier # None
  <2>0. p \in Pages
    BY DEF Sane
  <2>1. PICK top \in Nat :
             /\ p.frontier <= top /\ (p.frontier + 1)..top \subseteq Held(p)
             /\ top + 1 \notin Held(p)
             /\ q = [p EXCEPT
                    !.pending = [n \in {m \in Held(p) : m > top} |-> p.pending[n]],
                    !.screen = Show(p, p.frontier + 1, top, p.pending),
                    !.frontier = top]
    BY <1>2, <2>0, DrainIs, Zenon
  <2> DEFINE S == {m \in Held(p) : m > top}
             b == [n \in S |-> p.pending[n]]
             s == Show(p, p.frontier + 1, top, p.pending)
  <2>2. p.frontier \in Nat /\ p.pending \in Boards
    BY <1>2, <2>0 DEF Pages
  <2>3. Held(p) \subseteq Positions /\ Held(p) \subseteq Nat /\ IsFiniteSet(Held(p))
    BY <2>2, OnBoard, Numbers, FS_Subset DEF Held
  <2>4. b \in Boards /\ DOMAIN b = S /\ \A n \in S : b[n] = p.pending[n]
    <3>1. S \in SUBSET Positions
      BY <2>3
    <3>2. \A n \in S : p.pending[n] \in Frames
      BY <2>2, OnBoard DEF Held
    <3>3. b \in [S -> Frames]
      BY <3>2
    <3> QED
      BY <3>1, <3>3, ABoard
  <2>5. /\ s \in Screens
        /\ top < p.frontier + 1 => s = p.screen
        /\ p.frontier + 1 <= top =>
             /\ s.epoch = p.epoch /\ s.last = top
             /\ s.whole = (p.screen.whole /\ p.screen.epoch = p.epoch
                             /\ p.frontier + 1 = p.screen.last + 1)
             /\ s.twice = (p.screen.twice
                             \/ (p.screen.epoch = p.epoch /\ p.frontier + 1 <= p.screen.last))
        /\ \/ s.size = p.screen.size
           \/ /\ s.size \in (p.frontier + 1)..top /\ p.pending[s.size].kind = "resize"
              /\ ~p.pending[s.size].superseded
    <3>1. p.frontier + 1 \in Nat
      BY <2>2
    <3>2. (p.frontier + 1)..top \subseteq DOMAIN p.pending
      BY <2>1 DEF Held
    <3> QED
      BY <2>0, <3>1, <3>2, ShowIs
  <2>6a. q = [p EXCEPT !.pending = b, !.screen = s, !.frontier = top]
    BY <2>1
  <2> HIDE DEF b, s, q
  <2>6. /\ q \in Pages /\ q.pending = b /\ q.screen = s /\ q.frontier = top
        /\ SameRest(p, q) /\ q.overtaken = p.overtaken
    BY <2>0, <2>4, <2>5, <2>6a DEF Pages, SameRest
  <2>7. Held(q) = S
    BY <2>4, <2>6 DEF Held
  <2>8. Cardinality(Held(q)) <= MaxFrames
    <3>1. Cardinality(S) <= Cardinality(Held(p))
      BY <2>3, FS_Subset
    <3>2. Cardinality(S) \in Nat /\ Cardinality(Held(p)) \in Nat
      BY <2>3, FS_Subset, FS_CardinalityType
    <3> QED
      BY <2>7, <3>1, <3>2, Numbers DEF Sane
  <2>9. Told(q)
    <3>1. ASSUME NEW n \in q.overtaken
          PROVE  \/ n \in Held(q) /\ q.pending[n].superseded
                 \/ n <= top
      <4>1. n \in Nat
        BY <2>0, <2>6, <3>1, Numbers DEF Pages
      <4>2. (n \in Held(p) /\ p.pending[n].superseded) \/ n <= p.frontier
        BY <2>6, <3>1 DEF Sane, Told
      <4>3. CASE n > top
        <5>1. n \in S /\ p.pending[n].superseded
          BY <2>1, <2>2, <4>1, <4>2, <4>3
        <5> QED
          BY <2>4, <2>6, <2>7, <5>1
      <4> QED
        BY <4>1, <4>3
    <3>2. q.frontier # None
      BY <2>6, Numbers
    <3> QED
      BY <2>6, <3>1, <3>2 DEF Told
  <2>10. q.screen.size \notin q.overtaken
    <3>1. CASE s.size = p.screen.size
      BY <2>6, <3>1 DEF Sane
    <3>2. CASE /\ s.size \in (p.frontier + 1)..top /\ p.pending[s.size].kind = "resize"
               /\ ~p.pending[s.size].superseded
      <4>1. s.size \notin p.overtaken
        <5> SUFFICES ASSUME s.size \in p.overtaken PROVE FALSE
          OBVIOUS
        <5>1. s.size <= p.frontier
          BY <3>2 DEF Sane, Told
        <5> QED
          BY <2>2, <3>2, <5>1
      <4> QED
        BY <2>6, <4>1
    <3> QED
      BY <2>5, <3>1, <3>2
  <2>11. Asks(q)
    BY <2>6 DEF Sane, Asks, SameRest
  <2>12. q.epoch # None
    BY <1>2, <2>6 DEF Sane, SameRest
  <2>13. Sane(q)
    BY <2>6, <2>8, <2>9, <2>10, <2>11, <2>12 DEF Sane
  <2>14. Ahead(q)
    <3>1. \A n \in S : top + 1 < n
      BY <2>1, <2>3
    <3> QED
      BY <2>6, <2>7, <3>1 DEF Ahead
  <2>15. q.frontier # None
    BY <2>6, Numbers
  <2>16. Keeps(p, q, c)
    <3>1. q.epoch = p.epoch /\ SameFlags(p, q) /\ q.asked = p.asked
      BY <2>6 DEF SameRest, SameFlags
    <3>2. p.screen.last \in Nat
      BY <2>0 DEF Pages, Screens
    <3>3. CASE top < p.frontier + 1
      <4>1. s = p.screen /\ top = p.frontier
        BY <2>1, <2>2, <2>5, <3>3
      <4>2. Within(p, c) => Within(q, c)
        BY <2>6, <2>7, <3>1, <4>1 DEF Within
      <4>3. InStep(p) => InStep(q)
        BY <2>6, <3>1, <4>1 DEF InStep
      <4>4. Behind(p) => Behind(q)
        BY <1>2, <2>6, <3>1, <4>1 DEF Behind
      <4> QED
        BY <2>1, <2>6, <2>15, <3>1, <4>1, <4>2, <4>3, <4>4 DEF Keeps
    <3>4. CASE p.frontier + 1 <= top
      <4>1. s.epoch = p.epoch /\ s.last = top
        BY <2>5, <3>4
      <4>2. top \in Held(p)
        BY <2>1, <2>2, <3>4
      <4>3. Within(p, c) => Within(q, c)
        BY <2>6, <2>7, <3>1, <4>1, <4>2 DEF Within
      <4>4. InStep(p) => InStep(q)
        BY <2>5, <2>6, <2>15, <3>1, <3>4, <4>1 DEF InStep
      <4>5. Behind(q)
        BY <2>6, <2>15, <4>1 DEF Behind
      <4>6. Behind(p) => s.twice = p.screen.twice
        <5>1. p.screen.twice \in BOOLEAN
          BY <2>0 DEF Pages, Screens
        <5>2. Behind(p) /\ p.screen.epoch = p.epoch => ~ (p.frontier + 1 <= p.screen.last)
          BY <1>2, <2>2, <3>2 DEF Behind
        <5>3. s.twice = (p.screen.twice
                           \/ (p.screen.epoch = p.epoch /\ p.frontier + 1 <= p.screen.last))
          BY <2>5, <3>4
        <5> QED
          BY <5>1, <5>2, <5>3
      <4> QED
        BY <2>1, <2>6, <2>15, <3>1, <4>1, <4>3, <4>4, <4>5, <4>6 DEF Keeps
    <3> QED
      BY <2>1, <2>2, <3>3, <3>4
  <2>17. S \subseteq Held(p)
    OBVIOUS
  <2> QED
    BY <1>2, <2>6, <2>7, <2>13, <2>14, <2>15, <2>16, <2>17 DEF q
<1> QED
  BY <1>1, <1>2

\* A loss is stated.
LEMMA TruncatedSane ==
    ASSUME NEW p, Sane(p), NEW c
    PROVE  LET q == Truncated(p)
           IN  /\ Sane(q) /\ Owned(q) /\ Keeps(p, q, c)
               /\ q.frontier = p.frontier /\ q.pending = p.pending /\ q.screen = p.screen
               /\ q.inFlight = p.inFlight /\ q.asked = p.asked /\ q.overtaken = p.overtaken
               /\ q.wantHistory = p.wantHistory
               /\ q.attempts = p.attempts /\ q.attemptsFor = p.attemptsFor
<1> DEFINE q == Truncated(p)
<1>1. p \in Pages
  BY DEF Sane
<1>2. /\ q \in Pages /\ q.epoch = p.epoch
      /\ q.frontier = p.frontier /\ q.pending = p.pending /\ q.screen = p.screen
      /\ q.inFlight = p.inFlight /\ q.asked = p.asked /\ q.overtaken = p.overtaken
      /\ q.wantHistory = p.wantHistory
      /\ q.attempts = p.attempts /\ q.attemptsFor = p.attemptsFor
      /\ q.mayHaveGap = TRUE /\ q.repairPending = FALSE
  BY <1>1 DEF Pages, Truncated
<1> HIDE DEF q
<1>3. Sane(q)
  BY <1>2 DEF Sane, Told, Asks, Held
<1>4. Owned(q)
  BY <1>2 DEF Owned
<1>5. Keeps(p, q, c)
  BY <1>1, <1>2, <1>4, KeepsSame
<1> QED
  BY <1>2, <1>3, <1>4, <1>5 DEF q

\* A page adopts an epoch and knows nothing of it.
LEMMA ResetSane ==
    ASSUME NEW p, Sane(p), NEW e \in Epochs \cup {None}
    PROVE  LET q == Reset(p, e)
           IN  /\ Sane(q) /\ Ahead(q) /\ Behind(q)
               /\ q.epoch = e /\ q.frontier = None /\ Held(q) = {} /\ q.pending = <<>>
               /\ q.inFlight = 0 /\ q.asked = {} /\ q.overtaken = {}
               /\ q.attempts = 0 /\ q.attemptsFor = None
               /\ q.screen = p.screen /\ SameFlags(p, q)
<1> DEFINE q == Reset(p, e)
<1>1. p \in Pages /\ p.pending \in Boards
  BY DEF Sane, Pages
<1>2. <<>> \in Boards /\ DOMAIN <<>> = {}
  BY <1>1, EmptyBoard
<1> DEFINE m == [NextGeneration(p) EXCEPT !.epoch = e, !.frontier = None, !.pending = <<>>,
                                          !.wantHistory = FALSE]
<1>3. /\ m \in Pages /\ m.epoch = e /\ m.frontier = None /\ m.pending = <<>>
      /\ m.asked = {} /\ m.screen = p.screen /\ SameFlags(p, m)
  <2>1. /\ NextGeneration(p) \in Pages /\ NextGeneration(p).asked = {}
        /\ NextGeneration(p).screen = p.screen /\ SameFlags(p, NextGeneration(p))
    BY <1>1 DEF Pages, NextGeneration, SameFlags
  <2> QED
    BY <1>2, <2>1 DEF Pages, SameFlags
<1>4. q = [m EXCEPT !.attemptsFor = None, !.attempts = 0, !.inFlight = 0, !.overtaken = {}]
  BY DEF Reset
<1> HIDE DEF m, q
<1>5. /\ q \in Pages /\ q.epoch = e /\ q.frontier = None /\ q.pending = <<>>
      /\ q.inFlight = 0 /\ q.asked = {} /\ q.overtaken = {}
      /\ q.attempts = 0 /\ q.attemptsFor = None
      /\ q.screen = p.screen /\ SameFlags(p, q)
  BY <1>3, <1>4 DEF Pages, SameFlags
<1>6. Held(q) = {}
  BY <1>2, <1>5 DEF Held
<1>7. Cardinality(Held(q)) <= MaxFrames
  BY <1>6, FS_EmptySet, Numbers
<1>8. Sane(q)
  BY <1>5, <1>6, <1>7, FS_EmptySet DEF Sane, Told, Asks
<1>9. Ahead(q) /\ Behind(q)
  BY <1>5, <1>6 DEF Ahead, Behind
<1> QED
  BY <1>5, <1>6, <1>8, <1>9 DEF q

\* The lowest frame held.
LEMMA LowestIs ==
    ASSUME NEW p \in Pages, Held(p) # {}
    PROVE  /\ Lowest(p) \in Held(p) /\ \A n \in Held(p) : Lowest(p) <= n
           /\ Lowest(p) \in Nat /\ Lowest(p) - 1 \in Nat /\ Lowest(p) # 0
<1>1. Held(p) \in SUBSET Nat /\ Held(p) \subseteq Nat \ {0}
  BY Numbers, OnBoard DEF Held, Pages
<1>2. Min(Held(p)) \in Held(p) /\ \A n \in Held(p) : Min(Held(p)) <= n
  BY <1>1, LeastOf
<1> QED
  BY <1>1, <1>2 DEF Lowest, Held

\* The lowest frame held is next.
LEMMA AnchorSane ==
    ASSUME NEW p, Sane(p), NEW c \in Nat
    PROVE  LET q == Anchor(p)
           IN  /\ Sane(q) /\ Keeps(p, q, c) /\ SameRest(p, q)
               /\ q.screen = p.screen /\ q.pending = p.pending
               /\ q.frontier = None => Held(q) = {}
               /\ p.frontier # None => q = p
               /\ p.frontier = None /\ Held(p) # {} => q.frontier = Lowest(p) - 1
<1> DEFINE q == Anchor(p)
<1>1. p \in Pages /\ p.pending \in Boards
  BY DEF Sane, Pages
<1>2. p.pending = <<>> <=> Held(p) = {}
  BY <1>1, EmptyBoard DEF Held
<1>3. CASE ~ (p.frontier = None /\ p.pending # <<>>)
  <2>1. q = p
    BY <1>3 DEF Anchor
  <2> QED
    BY <1>1, <1>2, <1>3, <2>1, KeepsSame DEF SameRest, SameFlags
<1>4. CASE p.frontier = None /\ p.pending # <<>>
  <2>1. /\ Lowest(p) \in Held(p) /\ \A n \in Held(p) : Lowest(p) <= n
        /\ Lowest(p) \in Nat /\ Lowest(p) - 1 \in Nat
    BY <1>1, <1>2, <1>4, LowestIs
  <2> DEFINE a == Lowest(p) - 1
  <2>2. q = [p EXCEPT !.frontier = a]
    BY <1>4 DEF Anchor
  <2>3. a \in Nat /\ a # None
    BY <2>1, Numbers
  <2>4. Held(p) \subseteq Nat
    BY <1>1, Numbers, OnBoard DEF Held
  <2>5. \A n \in Held(p) : a < n
    BY <2>1, <2>4
  <2>6. a <= Lowest(p)
    BY <2>1
  <2> HIDE DEF a, q
  <2>7. /\ q \in Pages /\ q.frontier = a /\ SameRest(p, q) /\ q.screen = p.screen
        /\ q.pending = p.pending /\ q.overtaken = p.overtaken
    BY <1>1, <2>2, <2>3 DEF Pages, SameRest
  <2>8. Sane(q)
    BY <1>2, <1>4, <2>7 DEF Sane, Told, Asks, Held, SameRest
  <2>9. p.screen.last \in Nat
    BY <1>1 DEF Pages, Screens
  <2>10. Within(p, c) => Within(q, c)
    <3>1. Within(p, c) => a <= c
      BY <2>1, <2>3, <2>6 DEF Within
    <3> QED
      BY <2>7, <3>1 DEF Within, Held, SameRest
  <2>11. Behind(p) => Behind(q)
    <3>1. p.screen.last < Lowest(p) => p.screen.last <= a
      BY <2>1, <2>9 DEF a
    <3> QED
      BY <1>4, <2>1, <2>3, <2>7, <3>1 DEF Behind, SameRest
  <2>12. Keeps(p, q, c)
    BY <1>4, <2>7, <2>10, <2>11 DEF Keeps, InStep, SameRest, SameFlags
  <2> QED
    BY <1>2, <1>4, <2>3, <2>7, <2>8, <2>12 DEF q, a
<1> QED
  BY <1>3, <1>4

\* The hole below e is left: what is known to be missing is never asked for again,
\* and nothing that was shown is shown again.
LEMMA SkipHoleSane ==
    ASSUME NEW p, Sane(p), Owned(p), NEW e \in Nat \ {0}, NEW c \in Nat,
           Within(p, c) => e - 1 <= c, p.epoch # None,
           p.frontier # None \/ (Held(p) # {} /\ e = Lowest(p))
    PROVE  LET q == SkipHole(p, e)
           IN  /\ Sane(q) /\ Ahead(q) /\ SameRest(p, q) /\ Keeps(p, q, c)
               /\ q.frontier # None /\ Held(q) \subseteq Held(p)
<1> DEFINE held == IF p.pending # <<>> THEN Lowest(p) ELSE e
           a == Min({e, held}) - 1
           r == IF p.frontier = None \/ a > p.frontier THEN [p EXCEPT !.frontier = a] ELSE p
<1>1. p \in Pages /\ p.pending \in Boards
  BY DEF Sane, Pages
<1>2. p.pending = <<>> <=> Held(p) = {}
  BY <1>1, EmptyBoard DEF Held
<1>3. held \in Nat \ {0} /\ (Held(p) # {} => held = Lowest(p))
  BY <1>1, <1>2, LowestIs
<1>4. a \in Nat /\ a <= e - 1 /\ a <= held - 1 /\ a # None /\ (a = e - 1 \/ a = held - 1)
  <2> HIDE DEF held
  <2>1. Min({e, held}) = IF e <= held THEN e ELSE held
    BY <1>3, OfTwo
  <2> DEFINE m == Min({e, held})
  <2>2. m \in Nat \ {0} /\ m <= e /\ m <= held /\ (m = e \/ m = held)
    BY <1>3, <2>1
  <2>3. a = m - 1
    OBVIOUS
  <2> HIDE DEF m, a
  <2>4. m - 1 \in Nat /\ m - 1 <= e - 1 /\ m - 1 <= held - 1
    BY <1>3, <2>2
  <2> QED
    BY <2>2, <2>3, <2>4, Numbers
<1>5. SkipHole(p, e) = Drain(r)
  BY DEF SkipHole
<1> HIDE DEF held, a
<1>6. \A n \in Held(p) : a < n
  <2> SUFFICES ASSUME NEW n \in Held(p) PROVE a < n
    OBVIOUS
  <2>1. held <= n /\ n \in Nat
    BY <1>1, <1>3, LowestIs, Numbers, OnBoard DEF Held
  <2> QED
    BY <1>3, <1>4, <2>1
<1>7. /\ Sane(r) /\ r.frontier # None /\ SameRest(p, r) /\ Keeps(p, r, c)
      /\ r.pending = p.pending
  <2>1. CASE p.frontier = None \/ a > p.frontier
    <3>1. r = [p EXCEPT !.frontier = a]
      BY <2>1
    <3> HIDE DEF r
    <3>2. /\ r \in Pages /\ r.frontier = a /\ SameRest(p, r) /\ r.screen = p.screen
          /\ r.pending = p.pending /\ r.overtaken = p.overtaken
      BY <1>1, <1>4, <3>1 DEF Pages, SameRest
    <3>3. Told(r)
      <4> SUFFICES ASSUME NEW n \in p.overtaken, ~ (n \in Held(p) /\ p.pending[n].superseded)
                   PROVE  n <= a
        BY <1>4, <3>2 DEF Told, Held
      <4>1. p.frontier # None /\ n <= p.frontier /\ a > p.frontier
        BY <2>1 DEF Sane, Told
      <4>2. n \in Nat /\ p.frontier \in Nat
        BY <1>1, <4>1, Numbers DEF Pages
      <4> QED
        BY <1>4, <4>1, <4>2
    <3>4. Sane(r)
      BY <3>2, <3>3 DEF Sane, Asks, Held, SameRest
    <3>5. p.frontier # None => p.frontier <= a
      BY <1>1, <1>4, <2>1 DEF Pages
    <3>6. p.screen.last \in Nat
      BY <1>1 DEF Pages, Screens
    <3>7. Within(p, c) => Within(r, c)
      <4>1. Within(p, c) => a <= c
        BY <1>4
      <4> QED
        BY <3>2, <4>1 DEF Within, Held, SameRest
    <3>8. Behind(p) => Behind(r)
      <4> SUFFICES ASSUME Behind(p), p.screen.epoch = p.epoch
                   PROVE  p.screen.last <= a
        BY <1>4, <3>2 DEF Behind, SameRest
      <4>1. CASE p.frontier # None
        <5>1. p.screen.last <= p.frontier /\ p.frontier \in Nat /\ p.frontier <= a
          BY <1>1, <3>5, <4>1 DEF Behind, Pages
        <5> QED
          BY <1>4, <3>6, <5>1
      <4>2. CASE p.frontier = None
        <5>1. e = Lowest(p) /\ held = Lowest(p) /\ p.screen.last < Lowest(p)
          BY <1>1, <1>3, <4>2, LowestIs DEF Behind
        <5> QED
          BY <1>3, <1>4, <3>6, <5>1
      <4> QED
        BY <4>1, <4>2
    <3>9. SameFlags(p, r) /\ Owned(r)
      BY <3>2 DEF SameFlags, SameRest, Owned
    <3> QED
      BY <1>4, <3>2, <3>4, <3>5, <3>7, <3>8, <3>9 DEF Keeps, SameRest
  <2>2. CASE ~ (p.frontier = None \/ a > p.frontier)
    <3>1. r = p
      BY <2>2
    <3> QED
      BY <1>1, <2>2, <3>1, KeepsSame DEF SameRest, SameFlags
  <2> QED
    BY <2>1, <2>2
<1> HIDE DEF r
<1>8. LET q == Drain(r) IN /\ Sane(q) /\ Ahead(q) /\ SameRest(r, q) /\ Keeps(r, q, c)
                           /\ Held(q) \subseteq Held(r) /\ q.frontier # None
  BY <1>7, DrainSane
<1>9. Keeps(p, Drain(r), c)
  BY <1>1, <1>7, <1>8, KeepsTwice DEF Sane
<1>10. SameRest(p, Drain(r))
  BY <1>7, <1>8 DEF SameRest
<1> QED
  BY <1>5, <1>7, <1>8, <1>9, <1>10 DEF Held

\* What is held is given up, and that is stated.
LEMMA AbandonSane ==
    ASSUME NEW p, Sane(p), NEW c \in Nat
    PROVE  LET q == Abandon(p)
           IN  /\ Sane(q) /\ Keeps(p, q, c) /\ (Ahead(p) => Ahead(q))
               /\ q.inFlight = p.inFlight /\ q.asked = p.asked
               /\ q.attempts = 0 /\ q.wantHistory = FALSE
               /\ Held(q) \subseteq Held(p)
               /\ Held(p) # {} => Owned(q) /\ q.frontier # None
               /\ Held(p) = {} => /\ q.screen = p.screen /\ q.frontier = p.frontier
                                  /\ q.pending = p.pending /\ SameFlags(p, q)
<1> DEFINE r == [p EXCEPT !.attemptsFor = None, !.attempts = 0, !.wantHistory = FALSE]
<1>1. p \in Pages /\ p.pending \in Boards
  BY DEF Sane, Pages
<1>2. /\ r \in Pages /\ r.epoch = p.epoch /\ r.frontier = p.frontier /\ r.pending = p.pending
      /\ r.screen = p.screen /\ SameFlags(p, r) /\ r.overtaken = p.overtaken
      /\ r.asked = p.asked /\ r.inFlight = p.inFlight
      /\ r.attempts = 0 /\ r.wantHistory = FALSE
  BY <1>1 DEF Pages, SameFlags
<1>3. Abandon(p) = IF r.pending = <<>> THEN r ELSE SkipHole(Truncated(r), Lowest(r))
  BY DEF Abandon
<1> HIDE DEF r
<1>4. Sane(r)
  BY <1>2 DEF Sane, Told, Asks, Held
<1>5. Keeps(p, r, c)
  BY <1>1, <1>2, KeepsSame
<1>6. Held(r) = Held(p) /\ (r.pending = <<>> <=> Held(r) = {})
  BY <1>1, <1>2, EmptyBoard DEF Held
<1>7. CASE r.pending = <<>>
  <2>1. Ahead(p) => Ahead(r)
    BY <1>2, <1>6 DEF Ahead
  <2> QED
    BY <1>2, <1>3, <1>4, <1>5, <1>6, <1>7, <2>1
<1>8. CASE r.pending # <<>>
  <2> DEFINE t == Truncated(r)
             q == SkipHole(t, Lowest(r))
  <2>1. /\ Sane(t) /\ Owned(t) /\ Keeps(r, t, c) /\ t.pending = r.pending
        /\ t.inFlight = r.inFlight /\ t.asked = r.asked
        /\ t.wantHistory = r.wantHistory /\ t.attempts = r.attempts
    BY <1>4, TruncatedSane
  <2> HIDE DEF t
  <2>2. Held(t) = Held(r) /\ Held(t) # {} /\ Lowest(t) = Lowest(r)
    BY <1>6, <1>8, <2>1 DEF Held, Lowest
  <2>3. /\ Lowest(r) \in Nat \ {0} /\ Lowest(r) \in Held(t)
    BY <1>2, <2>2, <2>1, LowestIs DEF Sane
  <2>4. Within(t, c) => Lowest(r) - 1 <= c
    <3>1. Within(t, c) => Lowest(r) <= c
      BY <2>3 DEF Within
    <3> QED
      BY <2>3, <3>1
  <2>5. t.epoch # None
    BY <2>1, <2>2 DEF Sane
  <2>6. /\ Sane(q) /\ Ahead(q) /\ SameRest(t, q) /\ Keeps(t, q, c)
        /\ q.frontier # None /\ Held(q) \subseteq Held(t)
    BY <2>1, <2>2, <2>3, <2>4, <2>5, SkipHoleSane
  <2> HIDE DEF q
  <2>7. Owned(q)
    BY <2>1, <2>6 DEF Owned, SameRest
  <2>8. Keeps(p, q, c)
    <3>1. t \in Pages /\ q \in Pages
      BY <2>1, <2>6 DEF Sane
    <3>2. Keeps(p, t, c)
      BY <1>1, <1>2, <1>5, <2>1, <3>1, KeepsTwice
    <3> QED
      BY <1>1, <2>6, <3>1, <3>2, KeepsTwice
  <2>9. Abandon(p) = q
    BY <1>3, <1>8 DEF q, t
  <2> QED
    BY <1>2, <1>6, <1>8, <2>1, <2>2, <2>6, <2>7, <2>8, <2>9 DEF SameRest
<1> QED
  BY <1>7, <1>8

\* An attempt at a hole is counted.
LEMMA NoteAttemptSane ==
    ASSUME NEW p, Sane(p), NEW position \in Nat, NEW c
    PROVE  LET q == NoteAttempt(p, position)
           IN  /\ Sane(q) /\ Keeps(p, q, c) /\ (Ahead(p) => Ahead(q)) /\ SameFlags(p, q)
               /\ q.epoch = p.epoch /\ q.frontier = p.frontier /\ q.pending = p.pending
               /\ q.screen = p.screen /\ q.inFlight = p.inFlight /\ q.asked = p.asked
<1> DEFINE q == NoteAttempt(p, position)
           n == IF p.attemptsFor = position THEN p.attempts + 1 ELSE 1
<1>1. p \in Pages
  BY DEF Sane
<1>2. n \in Nat
  BY <1>1 DEF Pages
<1>3. q = [p EXCEPT !.attempts = n, !.attemptsFor = position]
  BY DEF NoteAttempt
<1> HIDE DEF n, q
<1>4. /\ q \in Pages /\ q.epoch = p.epoch /\ q.frontier = p.frontier /\ q.pending = p.pending
      /\ q.screen = p.screen /\ q.inFlight = p.inFlight /\ q.asked = p.asked
      /\ q.overtaken = p.overtaken /\ SameFlags(p, q)
  BY <1>1, <1>2, <1>3 DEF Pages, SameFlags
<1>5. Sane(q)
  BY <1>4 DEF Sane, Told, Asks, Held
<1>6. Keeps(p, q, c)
  BY <1>1, <1>4, KeepsSame
<1>7. Ahead(p) => Ahead(q)
  BY <1>4 DEF Ahead, Held
<1> QED
  BY <1>4, <1>5, <1>6, <1>7 DEF q

\* What is held waits for an answer, or its loss is stated; what was given up starts
\* anew.
Explained(p) == Held(p) # {} => p.inFlight # 0 \/ Owned(p)
Rested(p)    == Held(p) # {} => p.inFlight # 0 \/ p.attempts = 0

\* There is a number for one more request.
LEMMA FreeId ==
    ASSUME NEW S, S \subseteq Requests, IsFiniteSet(S)
    PROVE  Min(1..(Cardinality(S) + 1) \ {f.id : f \in S}) \in Nat \ {0}
<1> DEFINE k == Cardinality(S)
           ids == {f.id : f \in S}
           g == [f \in S |-> f.id]
<1>1. k \in Nat
  BY FS_CardinalityType
<1>2. g \in Surjection(S, ids)
  BY DEF Surjection
<1>3. IsFiniteSet(ids) /\ Cardinality(ids) <= k
  BY <1>2, FS_Surjection
<1>4. 1..(k + 1) \ ids # {}
  <2> SUFFICES ASSUME 1..(k + 1) \subseteq ids PROVE FALSE
    OBVIOUS
  <2>2. Cardinality(1..(k + 1)) = k + 1
    <3> DEFINE j == k + 1
    <3>1. 1 \in Int /\ j \in Int /\ ~ (1 > j) /\ j - 1 + 1 = j
      BY <1>1
    <3> HIDE DEF k, j
    <3>2. Cardinality(1..j) = IF 1 > j THEN 0 ELSE j - 1 + 1
      BY <3>1, FS_Interval, Zenon
    <3> QED
      BY <3>1, <3>2 DEF j
  <2>3. Cardinality(1..(k + 1)) <= Cardinality(ids)
    <3> HIDE DEF k, ids
    <3> QED
      BY <1>3, FS_Subset
  <2>4. Cardinality(ids) \in Nat
    <3> HIDE DEF ids
    <3> QED
      BY <1>3, FS_CardinalityType
  <2> HIDE DEF k, ids
  <2> QED
    BY <1>1, <1>3, <2>2, <2>3, <2>4
<1> DEFINE F == 1..(k + 1) \ ids
<1>5. F \in SUBSET Nat /\ F \subseteq Nat \ {0}
  <2> HIDE DEF k, ids
  <2> QED
    BY <1>1
<1>6. Min(F) \in F
  <2> HIDE DEF F
  <2> QED
    BY <1>4, <1>5, LeastOf DEF F
<1> HIDE DEF k, ids
<1> QED
  BY <1>5, <1>6 DEF k, ids

LEMMA RecoverSane ==
    ASSUME NEW p, Sane(p), Ahead(p), NEW c \in Nat
    PROVE  LET q == Recover(p)
           IN  /\ Sane(q) /\ Ahead(q) /\ Keeps(p, q, c)
               /\ Explained(q) /\ Rested(q) /\ Held(q) \subseteq Held(p)
               /\ p.asked \subseteq q.asked
               /\ p.inFlight # 0 => q = p
               /\ Owned(q) \/ Stays(p, q)
               /\ p.attempts = 0 \/ Held(p) = {} =>
                    /\ q.screen = p.screen /\ q.frontier = p.frontier
                    /\ q.pending = p.pending /\ SameFlags(p, q)
                    /\ Held(q) # {} => q.inFlight # 0
<1> DEFINE after == Frontier(p)
           id == Min(1..(Cardinality(p.asked) + 1) \ {f.id : f \in p.asked})
           new == [id |-> id, epoch |-> p.epoch, after |-> after, answer |-> None]
           r == [p EXCEPT !.inFlight = id, !.asked = p.asked \cup {new}]
           q == Recover(p)
<1>1. p \in Pages /\ p.pending \in Boards /\ p.asked \subseteq Requests
  BY DEF Sane, Pages
<1>2. p.pending = <<>> <=> Held(p) = {}
  BY <1>1, EmptyBoard DEF Held
<1>3. q = IF p.epoch = None \/ p.inFlight # 0 \/ (p.pending = <<>> /\ ~p.wantHistory) THEN p
          ELSE IF AttemptsAt(p, after) >= HOLE_ATTEMPT_LIMIT THEN Abandon(p)
          ELSE r
  BY DEF Recover
<1>4. id \in Nat \ {0}
  BY <1>1, FreeId DEF Sane, Asks
<1>5. after \in Nat
  BY <1>1 DEF Frontier, Pages
<1>6. Keeps(p, p, c) /\ SameFlags(p, p)
  BY <1>1, KeepsSame DEF SameFlags
<1> HIDE DEF after, id, q
<1>7. CASE p.epoch = None \/ p.inFlight # 0 \/ (p.pending = <<>> /\ ~p.wantHistory)
  <2>1. q = p
    BY <1>3, <1>7
  <2>2. Held(p) # {} => p.inFlight # 0
    BY <1>2, <1>7 DEF Sane
  <2> QED
    BY <1>6, <2>1, <2>2 DEF q, Explained, Rested, Stays
<1>8. CASE ~ (p.epoch = None \/ p.inFlight # 0 \/ (p.pending = <<>> /\ ~p.wantHistory))
  <2>1. CASE AttemptsAt(p, after) >= HOLE_ATTEMPT_LIMIT
    <3>1. q = Abandon(p)
      BY <1>3, <1>8, <2>1
    <3>2. /\ Sane(q) /\ Keeps(p, q, c) /\ Ahead(q) /\ q.attempts = 0
          /\ Held(q) \subseteq Held(p) /\ (Held(p) # {} => Owned(q))
          /\ q.asked = p.asked
          /\ Held(p) = {} => /\ q.screen = p.screen /\ q.frontier = p.frontier
                             /\ q.pending = p.pending /\ SameFlags(p, q)
      BY <3>1, AbandonSane
    <3>3. p.attempts # 0
      <4>1. HOLE_ATTEMPT_LIMIT \in Nat \ {0}
        BY Numbers
      <4>2. AttemptsAt(p, after) # 0
        BY <2>1, <4>1
      <4> QED
        BY <4>2 DEF AttemptsAt
    <3> QED
      BY <1>8, <3>2, <3>3 DEF q, Explained, Rested, Stays
  <2>2. CASE ~ (AttemptsAt(p, after) >= HOLE_ATTEMPT_LIMIT)
    <3>1. q = r
      BY <1>3, <1>8, <2>2
    <3>2. new \in Requests
      BY <1>1, <1>4, <1>5, <1>8 DEF Requests, Pages
    <3>3. /\ q \in Pages /\ q.epoch = p.epoch /\ q.frontier = p.frontier
          /\ q.pending = p.pending /\ q.screen = p.screen /\ SameFlags(p, q)
          /\ q.overtaken = p.overtaken
          /\ q.asked = p.asked \cup {new} /\ q.inFlight = id
      <4> HIDE DEF new
      <4> QED
        BY <1>1, <1>4, <3>1, <3>2 DEF Pages, SameFlags
    <3>a. new.id = id /\ new.epoch = p.epoch /\ new.answer = None
      OBVIOUS
    <3>b. IsFiniteSet(p.asked) /\ \A f \in p.asked : f.epoch = p.epoch
      BY DEF Sane, Asks
    <3> HIDE DEF new
    <3>4. IsFiniteSet(q.asked)
      <4>1. IsFiniteSet(p.asked \cup {new})
        BY <3>b, FS_AddElement, Zenon
      <4> QED
        BY <3>3, <4>1
    <3>5. Asks(q)
      BY <3>3, <3>4, <3>a, <3>b DEF Asks
    <3>6. Sane(q)
      BY <3>3, <3>5 DEF Sane, Told, Held
    <3>7. Keeps(p, q, c)
      BY <1>1, <3>3, <3>a, KeepsSame
    <3>8. Ahead(q) /\ Held(q) = Held(p)
      BY <3>3 DEF Ahead, Held
    <3> QED
      BY <1>4, <1>8, <3>3, <3>6, <3>7, <3>8 DEF q, Explained, Rested, Stays
  <2> QED
    BY <2>1, <2>2
<1> QED
  BY <1>7, <1>8

\* A frame is put on the board.
LEMMA WithIs ==
    ASSUME NEW board \in Boards, NEW n \in Positions, NEW frame \in Frames
    PROVE  LET b == With(board, n, frame)
           IN  /\ b \in Boards /\ DOMAIN b = DOMAIN board \cup {n}
               /\ n \notin DOMAIN board => \A m \in DOMAIN board : b[m] = board[m]
<1> DEFINE S == DOMAIN board \cup {n}
           b == [m \in S |-> IF m = n THEN frame ELSE board[m]]
<1>1. DOMAIN board \subseteq Positions /\ \A m \in DOMAIN board : board[m] \in Frames
  BY OnBoard
<1>2. S \in SUBSET Positions /\ b \in [S -> Frames]
  BY <1>1
<1>3. With(board, n, frame) = b
  BY DEF With
<1>4. b \in Boards
  BY <1>2, ABoard
<1>5. \A m \in DOMAIN board : n \notin DOMAIN board => b[m] = board[m]
  OBVIOUS
<1> QED
  BY <1>3, <1>4, <1>5

\* Frame n of the script.
LEMMA FrameIs ==
    ASSUME NEW n \in Positions
    PROVE  Frame(n) \in Frames /\ ~Frame(n).superseded /\ Frame(n).kind = Script[n]
BY Numbers DEF Frame, Frames

\* One frame is shown.
LEMMA ShowOneIs ==
    ASSUME NEW p \in Pages, NEW n \in Positions
    PROVE  LET s == ShowOne(p, n)
           IN  /\ s \in Screens /\ s.epoch = p.epoch /\ s.last = n
               /\ s.whole = (p.screen.whole /\ p.screen.epoch = p.epoch
                               /\ n = p.screen.last + 1)
               /\ s.twice = (p.screen.twice
                               \/ (p.screen.epoch = p.epoch /\ n <= p.screen.last))
               /\ s.size = p.screen.size \/ s.size = n
<1> DEFINE frames == [m \in {n} |-> Frame(n)]
<1>1. n \in Nat /\ DOMAIN frames = {n} /\ n..n = {n} /\ n <= n
  BY Numbers
<1>2. ShowOne(p, n) = Show(p, n, n, frames)
  BY DEF ShowOne
<1> HIDE DEF frames
<1>3. n..n \subseteq DOMAIN frames
  BY <1>1
<1>4. LET s == Show(p, n, n, frames)
           IN  /\ s \in Screens
               /\ n <= n =>
                    /\ s.epoch = p.epoch /\ s.last = n
                    /\ s.whole = (p.screen.whole /\ p.screen.epoch = p.epoch
                                    /\ n = p.screen.last + 1)
                    /\ s.twice = (p.screen.twice
                                    \/ (p.screen.epoch = p.epoch /\ n <= p.screen.last))
               /\ s.size = p.screen.size \/ s.size \in n..n
  BY <1>1, <1>3, ShowIs
<1> QED
  BY <1>1, <1>2, <1>4

\* Position n is shown.
Shown(p, n) == [p EXCEPT !.frontier = n, !.screen = ShowOne(p, n)]

\* Position n is next: it is shown.
LEMMA NextSane ==
    ASSUME NEW p, Sane(p), p.epoch # None, NEW n \in Positions, NEW c \in Nat, n <= c,
           Held(p) = {}, p.frontier = None \/ n = p.frontier + 1
    PROVE  LET q == Shown(p, n)
           IN  /\ Sane(q) /\ Ahead(q) /\ SameRest(p, q) /\ Held(q) = {}
               /\ q.frontier = n /\ q.screen.epoch = p.epoch /\ q.screen.last = n
               /\ q.screen.twice = (p.screen.twice
                                      \/ (p.screen.epoch = p.epoch /\ n <= p.screen.last))
               /\ p.frontier # None => Keeps(p, q, c)
<1> DEFINE s == ShowOne(p, n)
           q == [p EXCEPT !.frontier = n, !.screen = s]
<1>1. p \in Pages /\ n \in Nat /\ n # None
  BY Numbers DEF Sane
<1>2. /\ s \in Screens /\ s.epoch = p.epoch /\ s.last = n
      /\ s.whole = (p.screen.whole /\ p.screen.epoch = p.epoch
                      /\ n = p.screen.last + 1)
      /\ s.twice = (p.screen.twice \/ (p.screen.epoch = p.epoch /\ n <= p.screen.last))
      /\ s.size = p.screen.size \/ s.size = n
  BY <1>1, ShowOneIs
<1>q. Shown(p, n) = q
  BY DEF Shown
<1> HIDE DEF s
<1>3. /\ q \in Pages /\ q.frontier = n /\ q.screen = s /\ q.pending = p.pending
      /\ SameRest(p, q) /\ q.overtaken = p.overtaken
  BY <1>1, <1>2 DEF Pages, SameRest
<1> HIDE DEF q
<1>4. \A m \in p.overtaken : p.frontier # None /\ m <= p.frontier /\ m \in Nat
  BY <1>1, Numbers DEF Sane, Told, Pages
<1>5. Told(q)
  <2>1. ASSUME NEW m \in q.overtaken PROVE m <= n
    <3>1. p.frontier \in Nat /\ m <= p.frontier /\ n = p.frontier + 1 /\ m \in Nat
      BY <1>1, <1>3, <1>4, <2>1 DEF Pages
    <3> QED
      BY <3>1
  <2> QED
    BY <1>1, <1>3, <2>1 DEF Told
<1>6. s.size \notin p.overtaken
  <2>1. n \notin p.overtaken
    <3> SUFFICES ASSUME n \in p.overtaken PROVE FALSE
      OBVIOUS
    <3>1. p.frontier \in Nat /\ n <= p.frontier /\ n = p.frontier + 1
      BY <1>1, <1>4 DEF Pages
    <3> QED
      BY <1>1, <3>1
  <2> QED
    BY <1>2, <2>1 DEF Sane
<1>7. Sane(q)
  BY <1>3, <1>5, <1>6 DEF Sane, Asks, Held, SameRest
<1>8. Held(q) = {} /\ Ahead(q)
  BY <1>3 DEF Held, Ahead
<1>9. ASSUME p.frontier # None PROVE Keeps(p, q, c)
  <2>1. p.frontier \in Nat /\ n = p.frontier + 1 /\ p.screen.last \in Nat
    BY <1>1, <1>9 DEF Pages, Screens
  <2>2. Within(q, c) /\ Behind(q)
    BY <1>1, <1>2, <1>3, <1>8 DEF Within, Behind
  <2>3. InStep(p) => InStep(q)
    BY <1>1, <1>2, <1>3, <2>1 DEF InStep, SameRest
  <2>4. Behind(p) => s.twice = p.screen.twice
    <3>1. p.screen.twice \in BOOLEAN
      BY <1>1 DEF Pages, Screens
    <3>2. Behind(p) /\ p.screen.epoch = p.epoch => ~ (n <= p.screen.last)
      BY <1>9, <2>1 DEF Behind
    <3> QED
      BY <1>2, <3>1, <3>2
  <2>5. q.frontier # None /\ p.frontier <= q.frontier
    BY <1>1, <1>3, <2>1
  <2> QED
    BY <1>2, <1>3, <2>2, <2>3, <2>4, <2>5 DEF Keeps, SameRest, SameFlags
<1> QED
  BY <1>2, <1>3, <1>7, <1>8, <1>9, <1>q

\* A page gives up what it holds for position n.
GivenUp(p, n) ==
    [Truncated(NextGeneration(p)) EXCEPT
        !.pending = <<>>, !.inFlight = 0, !.wantHistory = FALSE,
        !.attemptsFor = None, !.attempts = 0, !.overtaken = {},
        !.frontier = Max({Frontier(p), n - 1})]

LEMMA OverflowSane ==
    ASSUME NEW p, Sane(p), p.epoch # None, NEW n \in Positions, NEW c \in Nat, n <= c,
           ~Passed(p, n)
    PROVE  LET q == GivenUp(p, n)
           IN  /\ Sane(q) /\ Owned(q) /\ Held(q) = {} /\ q.pending = <<>>
               /\ q.epoch = p.epoch /\ q.frontier = n - 1 /\ q.screen = p.screen
               /\ q.overtaken = {} /\ q.asked = {} /\ q.inFlight = 0
               /\ Within(p, c) => Within(q, c)
               /\ p.frontier # None => Keeps(p, q, c)
<1> DEFINE a == Max({Frontier(p), n - 1})
           t == Truncated(NextGeneration(p))
           m == [t EXCEPT !.pending = <<>>, !.inFlight = 0, !.wantHistory = FALSE]
           q == [m EXCEPT !.attemptsFor = None, !.attempts = 0, !.overtaken = {},
                          !.frontier = a]
<1>1. p \in Pages /\ p.pending \in Boards /\ n \in Nat /\ n - 1 \in Nat /\ n # 0
  BY Numbers DEF Sane, Pages
<1>2. <<>> \in Boards /\ DOMAIN <<>> = {}
  BY <1>1, EmptyBoard
<1>3. Frontier(p) \in Nat /\ Frontier(p) <= n - 1
  <2>1. p.frontier # None => p.frontier \in Nat /\ ~ (n <= p.frontier)
    BY <1>1 DEF Passed, Pages
  <2> QED
    BY <1>1, <2>1 DEF Frontier
<1>4. a = n - 1
  <2>1. Max({Frontier(p), n - 1}) = IF Frontier(p) >= n - 1 THEN Frontier(p) ELSE n - 1
    BY <1>1, <1>3, OfTwo
  <2> QED
    BY <1>1, <1>3, <2>1
<1>5. a \in Nat /\ a # None /\ a <= c /\ (p.frontier # None => p.frontier <= a)
  BY <1>1, <1>3, <1>4, Numbers DEF Frontier
<1> HIDE DEF a
<1>6. /\ t \in Pages /\ t.epoch = p.epoch /\ t.asked = {} /\ t.screen = p.screen
      /\ t.mayHaveGap = TRUE /\ t.repairPending = FALSE
  BY <1>1 DEF Pages, Truncated, NextGeneration
<1> HIDE DEF t
<1>7. /\ m \in Pages /\ m.epoch = p.epoch /\ m.asked = {} /\ m.screen = p.screen
      /\ m.mayHaveGap = TRUE /\ m.repairPending = FALSE
      /\ m.pending = <<>> /\ m.inFlight = 0
  BY <1>2, <1>6 DEF Pages
<1>q. GivenUp(p, n) = q
  BY DEF m, t, a, GivenUp
<1> HIDE DEF m
<1>8. /\ q \in Pages /\ q.epoch = p.epoch /\ q.asked = {} /\ q.screen = p.screen
      /\ q.mayHaveGap = TRUE /\ q.repairPending = FALSE
      /\ q.pending = <<>> /\ q.inFlight = 0 /\ q.overtaken = {} /\ q.frontier = a
  BY <1>5, <1>7 DEF Pages
<1> HIDE DEF q
<1>9. Held(q) = {}
  BY <1>2, <1>8 DEF Held
<1>10. Sane(q)
  <2>1. Cardinality(Held(q)) <= MaxFrames
    BY <1>9, FS_EmptySet, Numbers
  <2> QED
    BY <1>8, <1>9, <2>1, FS_EmptySet DEF Sane, Told, Asks
<1>11. Owned(q)
  BY <1>8 DEF Owned
<1>12. Within(p, c) => Within(q, c)
  BY <1>5, <1>8, <1>9 DEF Within
<1>13. ASSUME p.frontier # None PROVE Keeps(p, q, c)
  <2>1. p.screen.last \in Nat /\ p.frontier \in Nat
    BY <1>1, <1>13 DEF Pages, Screens
  <2>2. Behind(p) => Behind(q)
    BY <1>5, <1>8, <1>13, <2>1 DEF Behind
  <2> QED
    BY <1>5, <1>8, <1>11, <1>12, <2>2 DEF Keeps
<1> QED
  BY <1>4, <1>8, <1>9, <1>10, <1>11, <1>12, <1>13, <1>q

\* A frame is kept for later.  At the limit everything held is given up, and that is
\* stated.
LEMMA KeepFrameSane ==
    ASSUME NEW p, Sane(p), p.epoch # None, NEW n \in Positions, NEW c \in Nat, n <= c
    PROVE  LET q == KeepFrame(p, n, Frame(n))
           IN  /\ Sane(q) /\ q.epoch = p.epoch /\ q.asked \subseteq p.asked
               /\ SameFlags(p, q) \/ Owned(q)
               /\ Held(q) \subseteq Held(p) \cup {n}
               /\ Within(p, c) => Within(q, c)
               /\ \/ q.screen.epoch = p.epoch
                  \/ q.screen.epoch = p.screen.epoch /\ q.screen.last = p.screen.last
               /\ p.frontier # None => Keeps(p, q, c)
               /\ \/ /\ q.inFlight = p.inFlight /\ q.attempts = p.attempts
                     /\ q.frontier = p.frontier
                     /\ q.screen = p.screen /\ Held(p) \subseteq Held(q)
                     /\ (Passed(p, n) \/ n \in Held(q))
                  \/ /\ Owned(q) /\ q.attempts = 0 /\ q.inFlight = 0
                     /\ q.frontier = n \/ (q.frontier = n - 1 /\ Held(q) = {n})
                     /\ (p.screen.epoch = p.epoch => p.screen.last < n)
                          => Behind(q) /\ q.screen.twice = p.screen.twice
<1> DEFINE r == GivenUp(p, n)
           q == KeepFrame(p, n, Frame(n))
<1>1. p \in Pages /\ p.pending \in Boards /\ n \in Nat /\ n # 0 /\ n - 1 \in Nat /\ n # None
  BY Numbers DEF Sane, Pages
<1>2. Frame(n) \in Frames /\ Frame(n).kind = Script[n]
  BY FrameIs
<1>3. CASE n \in DOMAIN p.pending \/ Passed(p, n)
  <2>1. q = p
    BY <1>3 DEF KeepFrame
  <2>2. p.frontier # None => Keeps(p, p, c)
    BY <1>1, KeepsSame DEF SameFlags
  <2> QED
    BY <1>3, <2>1, <2>2 DEF SameFlags, Held
<1>4. CASE /\ ~ (n \in DOMAIN p.pending \/ Passed(p, n))
           /\ Cardinality(DOMAIN p.pending) >= MaxFrames \/ Frame(n).kind = "huge"
  <2>0. /\ q = IF Frame(n).kind = "huge"
               THEN [r EXCEPT !.screen = ShowOne(r, n), !.frontier = Max({@, n})]
               ELSE [r EXCEPT !.pending = With(@, n, Frame(n))]
    BY <1>4, Zenon DEF KeepFrame, GivenUp
  <2>1. /\ Sane(r) /\ Owned(r) /\ Held(r) = {} /\ r.pending = <<>>
        /\ r.epoch = p.epoch /\ r.frontier = n - 1 /\ r.screen = p.screen
        /\ r.overtaken = {} /\ r.asked = {} /\ r.inFlight = 0
        /\ Within(p, c) => Within(r, c)
        /\ p.frontier # None => Keeps(p, r, c)
    BY <1>4, OverflowSane
  <2>a. r.attempts = 0
    <3>1. Truncated(NextGeneration(p)) \in Pages
      BY <1>1 DEF Pages, Truncated, NextGeneration
    <3> QED
      BY <3>1 DEF Pages, GivenUp
  <2> HIDE DEF r, q
  <2>2. r \in Pages /\ r.frontier # None /\ r.frontier + 1 = n
    BY <1>1, <2>1, Numbers DEF Sane
  <2>3. CASE Frame(n).kind = "huge"
    <3> DEFINE s == Shown(r, n)
    <3>1. Max({r.frontier, n}) = n
      <4>1. Max({r.frontier, n}) = IF r.frontier >= n THEN r.frontier ELSE n
        BY <1>1, <2>1, OfTwo
      <4> QED
        BY <1>1, <2>1, <4>1
    <3>2. q = s
      <4>1. q = [r EXCEPT !.screen = ShowOne(r, n), !.frontier = Max({@, n})]
        BY <2>0, <2>3
      <4>2. q = [r EXCEPT !.screen = ShowOne(r, n), !.frontier = n]
        BY <3>1, <4>1
      <4> QED
        BY <2>2, <4>2 DEF Pages, Shown
    <3>3. /\ Sane(s) /\ Ahead(s) /\ SameRest(r, s) /\ Held(s) = {}
          /\ s.frontier = n /\ s.screen.epoch = r.epoch /\ s.screen.last = n
          /\ s.screen.twice = (r.screen.twice
                                 \/ (r.screen.epoch = r.epoch /\ n <= r.screen.last))
          /\ r.frontier # None => Keeps(r, s, c)
      BY <2>1, <2>2, NextSane
    <3> HIDE DEF s
    <3>4. Owned(s) /\ s.epoch = p.epoch /\ s.asked = {} /\ s.inFlight = 0
      BY <2>1, <3>3 DEF Owned, SameRest
    <3>5. p.frontier # None => Keeps(p, s, c)
      <4>1. s \in Pages
        BY <3>3 DEF Sane
      <4> QED
        BY <1>1, <2>1, <2>2, <3>3, <4>1, KeepsTwice
    <3>6. Within(p, c) => Within(s, c)
      BY <3>3, <3>4 DEF Within
    <3>7. p.screen.epoch = p.epoch /\ p.screen.last < n => s.screen.twice = p.screen.twice
      <4>1. p.screen.last \in Nat /\ p.screen.twice \in BOOLEAN
        BY <1>1 DEF Pages, Screens
      <4>2. p.screen.last < n => ~ (n <= p.screen.last)
        BY <1>1, <4>1
      <4> QED
        BY <2>1, <3>3, <4>1, <4>2
    <3>8. p.screen.epoch # p.epoch => s.screen.twice = p.screen.twice
      <4>1. p.screen.twice \in BOOLEAN
        BY <1>1 DEF Pages, Screens
      <4> QED
        BY <2>1, <3>3, <4>1
    <3>9. s.attempts = 0 /\ Behind(s)
      BY <1>1, <2>a, <3>3 DEF SameRest, Behind
    <3> QED
      BY <2>1, <3>2, <3>3, <3>4, <3>5, <3>6, <3>7, <3>8, <3>9 DEF q
  <2>4. CASE Frame(n).kind # "huge"
    <3> DEFINE b == With(r.pending, n, Frame(n))
    <3>1. q = [r EXCEPT !.pending = b]
      BY <2>0, <2>4
    <3>2. b \in Boards /\ DOMAIN b = {n}
      <4>1. r.pending \in Boards /\ DOMAIN r.pending = {}
        BY <2>1, <2>2 DEF Pages, Held
      <4> QED
        BY <1>2, <4>1, WithIs
    <3> HIDE DEF b
    <3>3. /\ q \in Pages /\ q.epoch = p.epoch /\ q.frontier = n - 1 /\ q.screen = p.screen
          /\ q.overtaken = {} /\ q.asked = {} /\ q.inFlight = 0 /\ q.attempts = 0
          /\ q.pending = b /\ SameFlags(r, q)
      BY <2>1, <2>2, <2>a, <3>1, <3>2 DEF Pages, SameFlags
    <3>4. Held(q) = {n} /\ Owned(q)
      BY <2>1, <3>2, <3>3 DEF Held, Owned, SameFlags
    <3>5. Sane(q)
      <4>1. Cardinality(Held(q)) <= MaxFrames
        <5>1. Cardinality({n}) = 1
          BY FS_Singleton, Zenon
        <5> QED
          BY <3>4, <5>1, Numbers
      <4>2. Asks(q) /\ Told(q)
        BY <3>3, FS_EmptySet DEF Asks, Told
      <4> QED
        BY <3>3, <4>1, <4>2 DEF Sane
    <3>6. Within(p, c) => Within(q, c)
      BY <2>1, <3>3, <3>4 DEF Within
    <3>7. ASSUME p.frontier # None PROVE Keeps(p, q, c)
      <4>1. Keeps(p, r, c) /\ q.frontier = r.frontier /\ q.screen = r.screen /\ q.epoch = r.epoch
        BY <2>1, <3>3, <3>7
      <4>2. Behind(p) => Behind(q) /\ q.screen.twice = p.screen.twice
        BY <2>2, <4>1 DEF Keeps, Behind
      <4> QED
        BY <3>3, <3>4, <3>6, <4>1, <4>2 DEF Keeps
    <3>8. (p.screen.epoch = p.epoch => p.screen.last < n) => Behind(q)
      <4>1. p.screen.last \in Nat /\ q.frontier # None
        BY <1>1, <3>3, Numbers DEF Pages, Screens
      <4> QED
        BY <1>1, <3>3, <4>1 DEF Behind
    <3> QED
      BY <3>3, <3>4, <3>5, <3>6, <3>7, <3>8 DEF q
  <2> QED
    BY <2>3, <2>4
<1>5. CASE ~ (\/ n \in DOMAIN p.pending \/ Passed(p, n)
              \/ Cardinality(DOMAIN p.pending) >= MaxFrames \/ Frame(n).kind = "huge")
  <2> DEFINE b == With(p.pending, n, Frame(n))
  <2>1. q = [p EXCEPT !.pending = b]
    BY <1>5 DEF KeepFrame
  <2>2. /\ b \in Boards /\ DOMAIN b = Held(p) \cup {n}
        /\ \A m \in Held(p) : b[m] = p.pending[m]
    BY <1>1, <1>2, <1>5, WithIs DEF Held
  <2> HIDE DEF b, q
  <2>3. /\ q \in Pages /\ q.epoch = p.epoch /\ q.frontier = p.frontier /\ q.screen = p.screen
        /\ q.overtaken = p.overtaken /\ q.asked = p.asked /\ q.inFlight = p.inFlight
        /\ q.attempts = p.attempts /\ q.pending = b /\ SameFlags(p, q)
    BY <1>1, <2>1, <2>2 DEF Pages, SameFlags
  <2>4. Held(q) = Held(p) \cup {n}
    BY <2>2, <2>3 DEF Held
  <2>5. Cardinality(Held(q)) <= MaxFrames
    <3>1. IsFiniteSet(Held(p))
      BY <1>1, OnBoard, Numbers, FS_Subset DEF Held
    <3>2. Cardinality(Held(p)) \in Nat /\ Cardinality(Held(p) \cup {n}) = Cardinality(Held(p)) + 1
      BY <1>5, <3>1, FS_AddElement, FS_CardinalityType DEF Held
    <3>3. ~ (Cardinality(Held(p)) >= MaxFrames) /\ MaxFrames \in Nat
      BY <1>5, Numbers DEF Held
    <3> QED
      BY <2>4, <3>2, <3>3
  <2>6. Told(q)
    BY <2>2, <2>3, <2>4 DEF Sane, Told
  <2>7. Sane(q)
    BY <2>3, <2>5, <2>6 DEF Sane, Asks
  <2>8. Within(p, c) => Within(q, c)
    BY <2>3, <2>4 DEF Within
  <2>9. ASSUME p.frontier # None PROVE Keeps(p, q, c)
    <3>1. p.frontier <= p.frontier
      BY <1>1, <2>9 DEF Pages
    <3>2. Behind(p) => Behind(q)
      BY <2>3, <2>9 DEF Behind
    <3>3. InStep(p) => InStep(q)
      BY <2>3 DEF InStep
    <3> QED
      BY <2>3, <2>8, <3>1, <3>2, <3>3 DEF Keeps
  <2> QED
    BY <2>3, <2>4, <2>7, <2>8, <2>9 DEF q
<1> QED
  BY <1>3, <1>4, <1>5

\* Nothing that is held is next.
LEMMA DrainRests ==
    ASSUME NEW p, Sane(p), Ahead(p)
    PROVE  LET q == Drain(p)
           IN  q.screen = p.screen /\ q.frontier = p.frontier /\ Held(q) = Held(p)
<1>1. p \in Pages
  BY DEF Sane
<1>2. CASE p.frontier = None
  BY <1>2 DEF Drain
<1>3. CASE p.frontier # None
  <2> DEFINE f == p.frontier
             q == Drain(p)
  <2>1. PICK top \in Nat :
             /\ f <= top /\ (f + 1)..top \subseteq Held(p)
             /\ top + 1 \notin Held(p)
             /\ Drain(p) = [p EXCEPT
                    !.pending = [n \in {m \in Held(p) : m > top} |-> p.pending[n]],
                    !.screen = Show(p, f + 1, top, p.pending),
                    !.frontier = top]
    BY <1>1, <1>3, DrainIs, Zenon
  <2>2. f \in Nat /\ \A n \in Held(p) : f + 1 < n /\ n \in Nat
    BY <1>1, <1>3, Numbers, OnBoard DEF Ahead, Pages, Held
  <2>3. top = f
    <3> SUFFICES ASSUME f < top PROVE FALSE
      BY <2>1, <2>2
    <3>1. f + 1 \in (f + 1)..top
      BY <2>2
    <3> QED
      BY <2>1, <2>2, <3>1
  <2>4. {m \in Held(p) : m > f} = Held(p)
    BY <2>2
  <2>5. Show(p, f + 1, f, p.pending) = p.screen
    BY <2>2 DEF Show
  <2>6. Drain(p) = [p EXCEPT
                    !.pending = [n \in Held(p) |-> p.pending[n]],
                    !.screen = p.screen,
                    !.frontier = f]
    BY <2>1, <2>3, <2>4, <2>5
  <2> QED
    BY <1>1, <2>6 DEF Pages, Held
<1> QED
  BY <1>2, <1>3

\* A page takes a live frame.
LEMMA AcceptSane ==
    ASSUME NEW p, Sane(p), Ahead(p), NEW e \in Epochs, NEW n \in Positions, NEW c \in Nat,
           n <= c
    PROVE  LET q == Accept(p, e, n)
           IN  /\ Sane(q) /\ Ahead(q) /\ q.epoch = e
               /\ SameFlags(p, q) \/ Owned(q)
               /\ Explained(p) => Explained(q)
               /\ Rested(p) => Rested(q)
               /\ \A f \in q.asked : f \in p.asked \/ f.answer = None
               /\ p.epoch = e /\ p.frontier # None => Keeps(p, q, c)
               /\ ~ (p.epoch = e /\ p.frontier # None) => Held(q) \subseteq {n}
               /\ \/ q.screen.epoch = e
                  \/ q.screen.epoch = p.screen.epoch /\ q.screen.last = p.screen.last
               /\ (p.screen.epoch = e => p.screen.last <= c) /\ (p.epoch = e => Within(p, c))
                     => Within(q, c)
<1> DEFINE anchors == p.epoch = None \/ p.frontier = None
           changed == p.epoch # None /\ e # p.epoch
           r == IF anchors \/ changed THEN Reset(p, e) ELSE p
           kept == KeepFrame(r, n, Frame(n))
           late == IF anchors THEN Anchor(kept) ELSE kept
           q == Accept(p, e, n)
<1>1. q = IF Passed(r, n) THEN r
          ELSE IF ~changed /\ r.pending = <<>> /\ (r.frontier = None \/ n = r.frontier + 1)
          THEN Recover([r EXCEPT !.frontier = n, !.screen = ShowOne(r, n)])
          ELSE Recover(Drain(late))
  BY DEF Accept
<1>2. p \in Pages /\ e # None
  BY Numbers DEF Sane
<1>3. /\ Sane(r) /\ Ahead(r) /\ r.epoch = e /\ SameFlags(p, r) /\ r.screen = p.screen
      /\ \A f \in r.asked : f \in p.asked
      /\ p.epoch = e /\ p.frontier # None => r = p
      /\ r = p \/ r.frontier = None
      /\ r.frontier = None => Held(r) = {}
      /\ r.frontier # None => p.epoch = e /\ p.frontier # None
      /\ (p.screen.epoch = e => p.screen.last <= c) /\ (p.epoch = e => Within(p, c))
            => Within(r, c)
  <2>1. CASE anchors \/ changed
    <3>1. LET t == Reset(p, e)
          IN  /\ Sane(t) /\ Ahead(t)
              /\ t.epoch = e /\ t.frontier = None /\ Held(t) = {}
              /\ t.asked = {} /\ t.screen = p.screen /\ SameFlags(p, t)
      BY ResetSane
    <3>2. r = Reset(p, e)
      BY <2>1
    <3> HIDE DEF r
    <3>3. ~ (p.epoch = e /\ p.frontier # None)
      BY <1>2, <2>1
    <3> QED
      BY <3>1, <3>2, <3>3 DEF Within
  <2>2. CASE ~ (anchors \/ changed)
    <3>1. r = p /\ p.epoch = e /\ p.frontier # None
      BY <2>2
    <3> HIDE DEF r
    <3> QED
      BY <3>1 DEF SameFlags
  <2> QED
    BY <2>1, <2>2
<1> HIDE DEF r, q
<1>r. r \in Pages
  BY <1>3 DEF Sane
<1>4. CASE Passed(r, n)
  <2>1. q = r /\ r = p
    BY <1>1, <1>3, <1>4 DEF Passed
  <2>2. Keeps(p, p, c)
    BY <1>2, KeepsSame DEF SameFlags
  <2> QED
    BY <1>3, <2>1, <2>2 DEF q
<1>5. ASSUME NEW t, Sane(t), Ahead(t), Keeps(r, t, c), r.frontier # None, q = Recover(t)
      PROVE  /\ Sane(q) /\ Ahead(q) /\ q.epoch = e
             /\ SameFlags(p, q) \/ Owned(q)
             /\ Explained(q) /\ Rested(q)
             /\ \A f \in q.asked : f \in p.asked \/ f.answer = None
             /\ p.epoch = e /\ p.frontier # None => Keeps(p, q, c)
             /\ \/ q.screen.epoch = e
                \/ q.screen.epoch = p.screen.epoch /\ q.screen.last = p.screen.last
             /\ Within(r, c) => Within(q, c)
  <2>1. /\ Sane(q) /\ Ahead(q) /\ Keeps(t, q, c) /\ Explained(q) /\ Rested(q)
    BY <1>5, RecoverSane
  <2>2. Keeps(r, q, c)
    <3>1. t \in Pages /\ q \in Pages
      BY <1>5, <2>1 DEF Sane
    <3> QED
      BY <1>5, <1>r, <2>1, <3>1, KeepsTwice
  <2> QED
    BY <1>3, <2>1, <2>2 DEF Keeps, SameFlags
<1>6. ASSUME NEW t, NEW k, Sane(t), Ahead(t), k \in Pages, Keeps(k, t, c), q = Recover(t),
             k.epoch = e, SameFlags(p, k) \/ Owned(k), k.asked \subseteq p.asked,
             Held(t) \subseteq {n},
             \/ k.screen.epoch = e
             \/ k.screen.epoch = p.screen.epoch /\ k.screen.last = p.screen.last,
             Within(r, c) => Within(k, c), r.frontier = None
      PROVE  /\ Sane(q) /\ Ahead(q) /\ q.epoch = e
             /\ SameFlags(p, q) \/ Owned(q)
             /\ Explained(q) /\ Rested(q)
             /\ \A f \in q.asked : f \in p.asked \/ f.answer = None
             /\ p.epoch = e /\ p.frontier # None => Keeps(p, q, c)
             /\ Held(q) \subseteq {n}
             /\ \/ q.screen.epoch = e
                \/ q.screen.epoch = p.screen.epoch /\ q.screen.last = p.screen.last
             /\ Within(r, c) => Within(q, c)
  <2>1. /\ Sane(q) /\ Ahead(q) /\ Keeps(t, q, c) /\ Explained(q) /\ Rested(q)
        /\ Held(q) \subseteq Held(t)
    BY <1>6, RecoverSane
  <2>2. Keeps(k, q, c)
    <3>1. t \in Pages /\ q \in Pages
      BY <1>6, <2>1 DEF Sane
    <3> QED
      BY <1>6, <2>1, <3>1, KeepsTwice
  <2>3. SameFlags(p, q) \/ Owned(q)
    BY <1>6, <2>2 DEF Keeps, SameFlags, Owned
  <2>4. /\ q.epoch = e
        /\ Within(r, c) => Within(q, c)
        /\ \A f \in q.asked : f \in p.asked \/ f.answer = None
        /\ \/ q.screen.epoch = e
           \/ q.screen.epoch = p.screen.epoch /\ q.screen.last = p.screen.last
    BY <1>6, <2>2 DEF Keeps
  <2>5. ~ (p.epoch = e /\ p.frontier # None)
    BY <1>3, <1>6
  <2> QED
    BY <1>6, <2>1, <2>3, <2>4, <2>5
<1>7. CASE /\ ~Passed(r, n) /\ ~changed /\ r.pending = <<>>
           /\ (r.frontier = None \/ n = r.frontier + 1)
  <2> DEFINE t == Shown(r, n)
  <2>1. q = Recover(t)
    BY <1>1, <1>7 DEF Shown
  <2>2. Held(r) = {}
    BY <1>7, <1>r, EmptyBoard DEF Held, Pages
  <2>3. /\ Sane(t) /\ Ahead(t) /\ SameRest(r, t) /\ Held(t) = {}
        /\ t.frontier = n /\ t.screen.epoch = r.epoch /\ t.screen.last = n
        /\ r.frontier # None => Keeps(r, t, c)
    BY <1>2, <1>3, <1>7, <2>2, NextSane
  <2> HIDE DEF t
  <2>4. CASE r.frontier # None
    BY <1>3, <1>5, <2>1, <2>3, <2>4 DEF q
  <2>5. CASE r.frontier = None
    <3>1. t \in Pages /\ Keeps(t, t, c)
      BY <2>3, KeepsSame DEF Sane, SameFlags
    <3>2. /\ Within(t, c) /\ SameFlags(p, t) /\ t.epoch = e /\ t.asked \subseteq p.asked
          /\ Held(t) \subseteq {n}
      BY <1>3, <2>3 DEF Within, SameFlags, SameRest
    <3> QED
      BY <1>3, <1>6, <2>1, <2>3, <2>5, <3>1, <3>2 DEF q
  <2> QED
    BY <2>4, <2>5
<1>8. CASE /\ ~Passed(r, n)
           /\ ~ (~changed /\ r.pending = <<>> /\ (r.frontier = None \/ n = r.frontier + 1))
  <2> DEFINE t == Drain(late)
  <2>1. q = Recover(t)
    BY <1>1, <1>8
  <2>2. /\ Sane(kept) /\ kept.epoch = r.epoch /\ kept.asked \subseteq r.asked
        /\ SameFlags(r, kept) \/ Owned(kept)
        /\ \/ kept.screen.epoch = e
           \/ kept.screen.epoch = p.screen.epoch /\ kept.screen.last = p.screen.last
        /\ Held(kept) \subseteq Held(r) \cup {n}
        /\ Within(r, c) => Within(kept, c)
        /\ r.frontier # None => Keeps(r, kept, c)
    BY <1>2, <1>3, KeepFrameSane
  <2> HIDE DEF kept
  <2>3. Sane(late) /\ Keeps(kept, late, c) /\ Held(late) = Held(kept)
    <3>1. /\ Sane(Anchor(kept)) /\ Keeps(kept, Anchor(kept), c)
          /\ Anchor(kept).pending = kept.pending
      BY <2>2, AnchorSane
    <3>2. Keeps(kept, kept, c)
      BY <2>2, KeepsSame DEF Sane, SameFlags
    <3> QED
      BY <2>2, <3>1, <3>2 DEF Held
  <2> HIDE DEF late
  <2>4. Sane(t) /\ Ahead(t) /\ Keeps(late, t, c) /\ Held(t) \subseteq Held(late)
    BY <2>3, DrainSane
  <2> HIDE DEF t
  <2>5. kept \in Pages /\ late \in Pages /\ t \in Pages
    BY <2>2, <2>3, <2>4 DEF Sane
  <2>6. Keeps(kept, t, c)
    BY <2>3, <2>4, <2>5, KeepsTwice
  <2>7. CASE r.frontier # None
    <3>1. Keeps(r, t, c)
      BY <1>r, <2>2, <2>5, <2>6, <2>7, KeepsTwice
    <3> QED
      BY <1>3, <1>5, <2>1, <2>4, <2>7, <3>1 DEF q
  <2>8. CASE r.frontier = None
    <3>1. SameFlags(p, kept) \/ Owned(kept)
      BY <1>3, <2>2 DEF SameFlags
    <3>2. kept.epoch = e /\ kept.asked \subseteq p.asked
      BY <1>3, <2>2
    <3>3. Held(t) \subseteq {n}
      BY <1>3, <2>2, <2>3, <2>4, <2>8
    <3> QED
      BY <1>3, <1>6, <3>3, <2>1, <2>2, <2>4, <2>5, <2>6, <2>8, <3>1, <3>2 DEF q
  <2> QED
    BY <2>7, <2>8
<1> QED
  BY <1>4, <1>7, <1>8

\* A level overtakes the resizes that wait.
LEMMA AcceptLevelSane ==
    ASSUME NEW p, Sane(p), NEW c \in Nat
    PROVE  LET q == AcceptLevel(p)
           IN  /\ Sane(q) /\ (Ahead(p) => Ahead(q)) /\ SameRest(p, q) /\ Keeps(p, q, c)
               /\ Held(q) = Held(p) /\ q.frontier = p.frontier
               /\ q.screen.epoch = p.screen.epoch /\ q.screen.last = p.screen.last
               /\ q.screen.twice = p.screen.twice /\ q.screen.whole = p.screen.whole
<1> DEFINE waiting == {n \in DOMAIN p.pending : p.pending[n].kind = "resize"}
           b == [n \in DOMAIN p.pending |->
                    [p.pending[n] EXCEPT !.superseded = @ \/ n \in waiting]]
           s == [p.screen EXCEPT !.size = 0]
           q == AcceptLevel(p)
<1>1. p \in Pages /\ p.pending \in Boards /\ p.screen \in Screens
  BY DEF Sane, Pages
<1>2. DOMAIN p.pending \in SUBSET Positions /\ \A n \in DOMAIN p.pending : p.pending[n] \in Frames
  BY <1>1, OnBoard
<1>3. \A n \in DOMAIN p.pending :
          /\ b[n] \in Frames
          /\ b[n].superseded = (p.pending[n].superseded \/ n \in waiting)
  BY <1>2 DEF Frames
<1>4. b \in Boards /\ DOMAIN b = Held(p)
  <2>1. b \in [DOMAIN p.pending -> Frames]
    BY <1>3
  <2> QED
    BY <1>2, <2>1, ABoard DEF Held
<1>5. /\ s \in Screens /\ s.size = 0 /\ s.epoch = p.screen.epoch /\ s.last = p.screen.last
      /\ s.twice = p.screen.twice /\ s.whole = p.screen.whole
  BY <1>1 DEF Screens
<1>6. q = [p EXCEPT !.pending = b, !.screen = s, !.overtaken = p.overtaken \cup waiting]
  BY <1>1 DEF AcceptLevel, Pages
<1>7. waiting \subseteq Held(p) /\ waiting \subseteq Positions
  BY <1>2 DEF Held
<1> HIDE DEF b, s, q, waiting
<1>8. /\ q \in Pages /\ q.pending = b /\ q.screen = s /\ q.frontier = p.frontier
      /\ q.overtaken = p.overtaken \cup waiting /\ SameRest(p, q)
  BY <1>1, <1>4, <1>5, <1>6, <1>7 DEF Pages, SameRest
<1>9. Held(q) = Held(p)
  BY <1>4, <1>8 DEF Held
<1>10. Told(q)
  <2> SUFFICES ASSUME NEW n \in q.overtaken
               PROVE  (n \in Held(q) /\ b[n].superseded) \/ (q.frontier # None /\ n <= q.frontier)
    BY <1>8 DEF Told
  <2>1. CASE n \in waiting
    BY <1>3, <1>7, <1>9, <2>1 DEF Held
  <2>2. CASE n \notin waiting
    <3>1. \/ n \in Held(p) /\ p.pending[n].superseded
          \/ p.frontier # None /\ n <= p.frontier
      BY <1>8, <2>2 DEF Sane, Told
    <3> QED
      BY <1>3, <1>8, <1>9, <3>1 DEF Held
  <2> QED
    BY <2>1, <2>2
<1>11. q.screen.size \notin q.overtaken
  BY <1>5, <1>8, Numbers DEF Pages
<1>12. Sane(q)
  BY <1>8, <1>9, <1>10, <1>11 DEF Sane, Asks, SameRest
<1>13. Ahead(p) => Ahead(q)
  BY <1>8, <1>9 DEF Ahead
<1>14. Keeps(p, q, c)
  <2>1. p.frontier # None => p.frontier <= p.frontier
    BY <1>1 DEF Pages
  <2>2. (Within(p, c) => Within(q, c)) /\ (InStep(p) => InStep(q)) /\ (Behind(p) => Behind(q))
    BY <1>5, <1>8, <1>9 DEF Within, InStep, Behind, SameRest
  <2> QED
    BY <1>5, <1>8, <2>1, <2>2 DEF Keeps, SameRest, SameFlags
<1> QED
  BY <1>5, <1>8, <1>9, <1>12, <1>13, <1>14 DEF q

\* A page takes one event of an answer.
LEMMA MergeSane ==
    ASSUME NEW p, Sane(p), Ahead(p), p.epoch # None, p.frontier # None,
           NEW n \in Positions, NEW c \in Nat, n <= c
    PROVE  LET q == Merge(p, n)
           IN  Sane(q) /\ Ahead(q) /\ Keeps(p, q, c)
<1>1. p \in Pages
  BY DEF Sane
<1>2. CASE Passed(p, n) \/ n \in DOMAIN p.pending
  <2>1. Merge(p, n) = p
    BY <1>2 DEF Merge
  <2> QED
    BY <1>1, <2>1, KeepsSame DEF SameFlags
<1>3. CASE /\ ~ (Passed(p, n) \/ n \in DOMAIN p.pending)
           /\ p.pending = <<>> /\ p.frontier # None /\ n = p.frontier + 1
  <2>1. Merge(p, n) = Shown(p, n)
    BY <1>3 DEF Merge, Shown
  <2>2. Held(p) = {}
    BY <1>1, <1>3, EmptyBoard DEF Held, Pages
  <2>3. Sane(Shown(p, n)) /\ Ahead(Shown(p, n)) /\ Keeps(p, Shown(p, n), c)
    BY <1>3, <2>2, NextSane
  <2> QED
    BY <2>1, <2>3
<1>4. CASE /\ ~ (Passed(p, n) \/ n \in DOMAIN p.pending)
           /\ ~ (p.pending = <<>> /\ p.frontier # None /\ n = p.frontier + 1)
  <2> DEFINE r == KeepFrame(p, n, Frame(n))
  <2>1. Merge(p, n) = Drain(r)
    BY <1>4 DEF Merge
  <2>2. Sane(r) /\ Keeps(p, r, c)
    BY KeepFrameSane
  <2> HIDE DEF r
  <2>3. Sane(Drain(r)) /\ Ahead(Drain(r)) /\ Keeps(r, Drain(r), c)
    BY <2>2, DrainSane
  <2>4. Keeps(p, Drain(r), c)
    <3>1. r \in Pages /\ Drain(r) \in Pages
      BY <2>2, <2>3 DEF Sane
    <3> QED
      BY <1>1, <2>2, <2>3, <3>1, KeepsTwice
  <2> QED
    BY <2>1, <2>3, <2>4
<1> QED
  BY <1>2, <1>3, <1>4

\* FoldLeft takes the events of an answer one by one.
Merging(p, s, f, m) ==
    f = [S \in SUBSET (1..m) |-> IF S = {} THEN p ELSE Merge(f[S \ {Max(S)}], s[Max(S)])]

\* The greatest of a set that has n + 1.
LEMMA LastOf ==
    ASSUME NEW n \in Nat, NEW S \in SUBSET (1..n + 1), n + 1 \in S
    PROVE  Max(S) = n + 1
<1>1. S \in SUBSET Nat /\ S # {} /\ n + 1 \in Nat /\ \A y \in S : y <= n + 1
  OBVIOUS
<1>2. Max(S) \in S /\ \A y \in S : Max(S) >= y
  BY <1>1, GreatestOf
<1>3. Max(S) \in Nat /\ Max(S) <= n + 1 /\ Max(S) >= n + 1
  BY <1>1, <1>2
<1> QED
  BY <1>3

LEMMA MergingExists ==
    ASSUME NEW p, NEW s, NEW m \in Nat
    PROVE  \E f : Merging(p, s, f, m)
<1> DEFINE T == {k \in Nat : \E f : Merging(p, s, f, k)}
<1>1. 0 \in T
  <2> DEFINE g == [S \in SUBSET (1..0) |-> p]
  <2>1. Merging(p, s, g, 0)
    BY DEF Merging
  <2> QED
    BY <2>1
<1>2. ASSUME NEW k \in T PROVE k + 1 \in T
  <2>1. PICK f : Merging(p, s, f, k)
    OBVIOUS
  <2> DEFINE g == [S \in SUBSET (1..k + 1) |->
                      IF k + 1 \notin S THEN f[S] ELSE Merge(f[S \ {k + 1}], s[k + 1])]
  <2>2. ASSUME NEW S \in SUBSET (1..k + 1)
        PROVE  g[S] = IF S = {} THEN p ELSE Merge(g[S \ {Max(S)}], s[Max(S)])
    <3>1. CASE k + 1 \in S
      <4>1. Max(S) = k + 1 /\ S # {}
        BY <3>1, LastOf
      <4>2. S \ {k + 1} \in SUBSET (1..k + 1) /\ k + 1 \notin S \ {k + 1}
        OBVIOUS
      <4>3. g[S \ {k + 1}] = f[S \ {k + 1}]
        BY <4>2
      <4> QED
        BY <3>1, <4>1, <4>3
    <3>2. CASE k + 1 \notin S
      <4>0. \A y \in 1..k + 1 : y # k + 1 => y \in 1..k
        OBVIOUS
      <4>1. S \in SUBSET (1..k) /\ \A x : S \ {x} \in SUBSET (1..k + 1) /\ k + 1 \notin S \ {x}
        BY <3>2, <4>0
      <4>2. \A x : g[S \ {x}] = f[S \ {x}]
        BY <4>1
      <4>3. g[S] = f[S]
        BY <3>2
      <4>4. f[S] = IF S = {} THEN p ELSE Merge(f[S \ {Max(S)}], s[Max(S)])
        BY <2>1, <4>1 DEF Merging
      <4> HIDE DEF g
      <4> QED
        BY <4>2, <4>3, <4>4
    <3> QED
      BY <3>1, <3>2
  <2>3. g = [S \in SUBSET (1..k + 1) |-> g[S]]
    OBVIOUS
  <2> HIDE DEF g
  <2>4. Merging(p, s, g, k + 1)
    BY <2>2, <2>3 DEF Merging
  <2> QED
    BY <2>4
<1> HIDE DEF T
<1>3. T = Nat
  <2>1. T \in SUBSET Nat
    BY DEF T
  <2> QED
    BY <1>1, <1>2, <2>1, Induction
<1> QED
  BY <1>3 DEF T

\* A page takes the events of an answer.
LEMMA MergedSane ==
    ASSUME NEW p, Sane(p), Ahead(p), p.epoch # None, p.frontier # None,
           NEW from \in Nat \ {0}, NEW upto \in Nat, NEW c \in Nat, upto <= c,
           upto <= Len(Script)
    PROVE  LET q == FoldLeft(Merge, p, [i \in 1..(upto + 1 - from) |-> from + i - 1])
           IN  Sane(q) /\ Ahead(q) /\ Keeps(p, q, c)
<1> DEFINE k == upto + 1 - from
           m == IF k < 0 THEN 0 ELSE k
           s == [i \in 1..k |-> from + i - 1]
           f == CHOOSE g : Merging(p, s, g, m)
           q == FoldLeft(Merge, p, s)
<1>1. m \in Nat /\ 1..k = 1..m /\ k \in Int
  OBVIOUS
<1>2. DOMAIN s = 1..m
  BY <1>1
<1>3. \A i \in 1..m : s[i] \in Positions /\ s[i] <= c
  <2>1. ASSUME NEW i \in 1..m PROVE s[i] \in Positions /\ s[i] <= c
    <3>1. i \in 1..k /\ i \in Nat /\ 1 <= i /\ i <= upto + 1 - from
      BY <1>1
    <3>2. s[i] = from + i - 1
      BY <3>1
    <3>3. 1 <= s[i] /\ s[i] <= upto /\ s[i] \in Nat
      BY <3>1, <3>2
    <3> HIDE DEF s
    <3> QED
      BY <3>3, Numbers DEF Positions
  <2> QED
    BY <2>1
<1> HIDE DEF s, m, k
<1>4. q = f[1..m]
  BY <1>2, Zenon DEF FoldLeft, MapThenFoldSet, Merging
<1>5. Merging(p, s, f, m)
  BY <1>1, MergingExists
<1> HIDE DEF f, q
<1>6. p \in Pages /\ Keeps(p, p, c)
  BY KeepsSame DEF Sane, SameFlags
<1> DEFINE Good(r) == Sane(r) /\ Ahead(r) /\ Keeps(p, r, c)
           T == {i \in Nat : i <= m => Good(f[1..i])}
<1>7. 0 \in T
  <2>1. 1..0 = {} /\ {} \in SUBSET (1..m)
    OBVIOUS
  <2>2. f[{}] = p
    BY <1>5, <2>1 DEF Merging
  <2>3. Good(p)
    BY <1>6
  <2> HIDE DEF Good
  <2> QED
    BY <2>1, <2>2, <2>3
<1>8. ASSUME NEW i \in T PROVE i + 1 \in T
  <2>1. ASSUME i + 1 <= m, Good(f[1..i]) PROVE Good(f[1..i + 1])
    <3>1. 1..i + 1 \in SUBSET (1..m) /\ 1..i + 1 # {} /\ i \in Nat /\ i + 1 \in 1..i + 1
          /\ i + 1 \in 1..m
      BY <1>1, <2>1
    <3>2. Max(1..i + 1) = i + 1
      BY <3>1, LastOf
    <3>3. (1..i + 1) \ {i + 1} = 1..i
      BY <3>1
    <3>4. f[1..i + 1] = Merge(f[1..i], s[i + 1])
      BY <1>5, <3>1, <3>2, <3>3 DEF Merging
    <3> DEFINE r == f[1..i]
    <3>5. s[i + 1] \in Positions /\ s[i + 1] <= c
      BY <1>3, <3>1
    <3>6. Sane(r) /\ Ahead(r) /\ Keeps(p, r, c)
      BY <2>1
    <3> HIDE DEF r, Good
    <3>7. r.epoch # None /\ r.frontier # None
      BY <3>6 DEF Keeps
    <3>8. LET t == Merge(r, s[i + 1]) IN Sane(t) /\ Ahead(t) /\ Keeps(r, t, c)
      BY <3>5, <3>6, <3>7, MergeSane
    <3>9. Keeps(p, Merge(r, s[i + 1]), c)
      <4>1. r \in Pages /\ Merge(r, s[i + 1]) \in Pages
        BY <3>6, <3>8 DEF Sane
      <4> QED
        BY <1>6, <3>6, <3>8, <4>1, KeepsTwice
    <3>10. Good(Merge(r, s[i + 1]))
      BY <3>8, <3>9 DEF Good
    <3> QED
      BY <3>4, <3>10 DEF r
  <2>2. i + 1 <= m => i <= m
    BY <1>1
  <2> HIDE DEF Good
  <2> QED
    BY <2>1, <2>2
<1>9. T = Nat
  <2>1. T \in SUBSET Nat
    OBVIOUS
  <2> HIDE DEF T
  <2> QED
    BY <1>7, <1>8, <2>1, Induction
<1>10. Good(f[1..m])
  <2>1. m \in T /\ m <= m
    BY <1>1, <1>9
  <2> HIDE DEF Good
  <2> QED
    BY <2>1
<1> QED
  BY <1>4, <1>10 DEF q, s, k

\* A page that knows what comes next only of one frame holds no other.
Lone(p) == p.frontier = None => \A m, n \in Held(p) : m = n

LEMMA LoneKept ==
    ASSUME NEW p, NEW q, NEW c, Keeps(p, q, c), Held(q) \subseteq Held(p), Lone(p)
    PROVE  Lone(q)
BY DEF Lone, Keeps

\* What is answered.
Heard(p) == {f \in p.asked : f.answer # None}

\* A request is settled and no longer waited for.
LEMMA UnwaitSane ==
    ASSUME NEW p, Sane(p), NEW f \in p.asked, NEW c
    PROVE  LET q == Unwait(Settle(p, f), f)
           IN  /\ Sane(q) /\ (Ahead(p) => Ahead(q)) /\ Keeps(p, q, c) /\ SameFlags(p, q)
               /\ q.epoch = p.epoch /\ q.frontier = p.frontier /\ q.pending = p.pending
               /\ q.screen = p.screen /\ q.asked = p.asked \ {f}
               /\ f \in Requests
<1> DEFINE s == Settle(p, f)
           q == Unwait(s, f)
<1>1. p \in Pages /\ p.asked \subseteq Requests
  BY DEF Sane, Pages
<1>2. /\ s \in Pages /\ s.epoch = p.epoch /\ s.frontier = p.frontier /\ s.pending = p.pending
      /\ s.screen = p.screen /\ s.asked = p.asked \ {f} /\ s.overtaken = p.overtaken
      /\ SameFlags(p, s) /\ s.inFlight = p.inFlight
  BY <1>1 DEF Pages, Settle, SameFlags
<1>3. q = IF s.inFlight = f.id THEN [s EXCEPT !.inFlight = 0] ELSE s
  BY DEF Unwait
<1> HIDE DEF s, q
<1>4. /\ q \in Pages /\ q.epoch = p.epoch /\ q.frontier = p.frontier /\ q.pending = p.pending
      /\ q.screen = p.screen /\ q.asked = p.asked \ {f} /\ q.overtaken = p.overtaken
      /\ SameFlags(p, q)
      /\ q.inFlight = 0 \/ (q.inFlight = p.inFlight /\ p.inFlight # f.id)
  BY <1>2, <1>3 DEF Pages, SameFlags
<1>5. Asks(q)
  <2>1. IsFiniteSet(p.asked) /\ \A g \in p.asked : g.epoch = p.epoch
    BY DEF Sane, Asks
  <2>2. IsFiniteSet(q.asked)
    BY <1>4, <2>1, FS_Subset
  <2>3. p.inFlight # 0 => \E g \in p.asked : g.id = p.inFlight
    BY DEF Sane, Asks
  <2>4. q.inFlight # 0 => \E g \in q.asked : g.id = q.inFlight
    BY <1>4, <2>3
  <2> QED
    BY <1>4, <2>1, <2>2, <2>4 DEF Asks
<1>6. Sane(q)
  BY <1>4, <1>5 DEF Sane, Told, Held
<1>7. Keeps(p, q, c)
  BY <1>1, <1>4, KeepsSame
<1>8. Ahead(p) => Ahead(q)
  BY <1>4 DEF Ahead, Held
<1> QED
  BY <1>1, <1>4, <1>6, <1>7, <1>8 DEF q, s

\* A page takes an answer about its epoch.
LEMMA OnReplySane ==
    ASSUME NEW p, Sane(p), Ahead(p), p.epoch # None, p.frontier # None,
           NEW f \in p.asked, NEW c \in Nat, c <= Len(Script),
           f.answer \in Answers, f.answer.match, f.answer.from # 0, f.answer.upto <= c,
           f.answer.complete \/ (f.answer.floor \in Nat \ {0} /\ f.answer.floor - 1 <= c)
    PROVE  LET q == OnReply(Settle(p, f), f)
           IN  /\ Sane(q) /\ Ahead(q) /\ Keeps(p, q, c) /\ Explained(q) /\ Rested(q)
<1> DEFINE a == f.answer
           s == Settle(p, f)
           u == Unwait(s, f)
           heard == [u EXCEPT !.wantHistory = FALSE]
           merged == FoldLeft(Merge, heard, [i \in 1..(a.upto + 1 - a.from) |-> a.from + i - 1])
           window == IF a.complete THEN merged ELSE SkipHole(Truncated(merged), a.floor)
           anchored == Anchor(window)
           noted == NoteAttempt(anchored, f.after)
           drained == Drain(noted)
           q == OnReply(s, f)
<1>1. q = Recover(drained)
  BY DEF OnReply
<1>2. /\ Sane(u) /\ Ahead(u) /\ Keeps(p, u, c)
      /\ u.epoch = p.epoch /\ u.frontier = p.frontier /\ u.pending = p.pending
      /\ f \in Requests
  BY UnwaitSane
<1>3. p \in Pages /\ u \in Pages
  BY <1>2 DEF Sane
<1>4. a.from \in Nat \ {0} /\ a.upto \in Nat /\ f.after \in Nat /\ a.upto <= c
  BY <1>2 DEF Answers, Requests
<1>5. a.upto <= Len(Script)
  BY <1>4, Numbers
<1>a. a.complete \/ (a.floor \in Nat \ {0} /\ a.floor - 1 <= c)
  OBVIOUS
<1> HIDE DEF s, u, a, q
<1>6. /\ heard \in Pages /\ heard.epoch = u.epoch /\ heard.frontier = u.frontier
      /\ heard.pending = u.pending /\ heard.screen = u.screen /\ heard.asked = u.asked
      /\ heard.overtaken = u.overtaken /\ heard.inFlight = u.inFlight /\ SameFlags(u, heard)
  BY <1>3 DEF Pages, SameFlags
<1> HIDE DEF heard
<1>7. Sane(heard) /\ Ahead(heard) /\ heard.epoch # None /\ heard.frontier # None
  BY <1>2, <1>6 DEF Sane, Told, Asks, Held, Ahead
<1>8. Keeps(p, heard, c)
  <2>1. Keeps(u, heard, c)
    BY <1>3, <1>6, KeepsSame
  <2> QED
    BY <1>2, <1>3, <1>6, <2>1, KeepsTwice
<1>9. Sane(merged) /\ Ahead(merged) /\ Keeps(heard, merged, c)
  BY <1>4, <1>5, <1>7, MergedSane
<1> HIDE DEF merged
<1>10. merged.epoch # None /\ merged.frontier # None /\ merged \in Pages
  BY <1>7, <1>9 DEF Keeps, Sane
<1>11. Sane(window) /\ Ahead(window) /\ Keeps(merged, window, c)
  <2>1. CASE a.complete
    <3>1. Keeps(merged, merged, c)
      BY <1>10, KeepsSame DEF SameFlags
    <3> QED
      BY <1>9, <2>1, <3>1
  <2>2. CASE ~a.complete
    <3> DEFINE t == Truncated(merged)
               w == SkipHole(t, a.floor)
    <3>1. /\ Sane(t) /\ Owned(t) /\ Keeps(merged, t, c) /\ t.frontier = merged.frontier
      BY <1>9, TruncatedSane
    <3> HIDE DEF t
    <3>2. t.epoch # None /\ t.frontier # None
      BY <1>10, <3>1 DEF Keeps
    <3>3. a.floor \in Nat \ {0} /\ a.floor - 1 <= c
      BY <1>a, <2>2
    <3>4. Sane(w) /\ Ahead(w) /\ Keeps(t, w, c)
      BY <3>1, <3>2, <3>3, SkipHoleSane
    <3> HIDE DEF w
    <3>5. Keeps(merged, w, c)
      <4>1. t \in Pages /\ w \in Pages
        BY <3>1, <3>4 DEF Sane
      <4> QED
        BY <1>10, <3>1, <3>4, <4>1, KeepsTwice
    <3>6. window = w
      BY <2>2 DEF w, t
    <3> QED
      BY <3>4, <3>5, <3>6
  <2> QED
    BY <2>1, <2>2
<1> HIDE DEF window
<1>12. Sane(anchored) /\ Keeps(window, anchored, c)
  BY <1>11, AnchorSane
<1> HIDE DEF anchored
<1>13. Sane(noted) /\ Keeps(anchored, noted, c)
  BY <1>4, <1>12, NoteAttemptSane
<1> HIDE DEF noted
<1>14. Sane(drained) /\ Ahead(drained) /\ Keeps(noted, drained, c)
  BY <1>13, DrainSane
<1> HIDE DEF drained
<1>15. Sane(q) /\ Ahead(q) /\ Keeps(drained, q, c) /\ Explained(q) /\ Rested(q)
  BY <1>1, <1>14, RecoverSane
<1>16. /\ window \in Pages /\ anchored \in Pages /\ noted \in Pages /\ drained \in Pages
       /\ q \in Pages
  BY <1>11, <1>12, <1>13, <1>14, <1>15 DEF Sane
<1>17. Keeps(p, merged, c)
  BY <1>3, <1>6, <1>8, <1>9, <1>10, KeepsTwice
<1>18. Keeps(p, window, c)
  BY <1>3, <1>10, <1>11, <1>16, <1>17, KeepsTwice
<1>19. Keeps(p, anchored, c)
  BY <1>3, <1>12, <1>16, <1>18, KeepsTwice
<1>20. Keeps(p, noted, c)
  BY <1>3, <1>13, <1>16, <1>19, KeepsTwice
<1>21. Keeps(p, drained, c)
  BY <1>3, <1>14, <1>16, <1>20, KeepsTwice
<1>22. Keeps(p, q, c)
  BY <1>3, <1>15, <1>16, <1>21, KeepsTwice
<1> QED
  BY <1>15, <1>22 DEF q, s

\* A request is refused.
LEMMA OnReplyFailedSane ==
    ASSUME NEW p, Sane(p), Ahead(p), Lone(p), NEW f \in p.asked, NEW c \in Nat
    PROVE  LET q == OnReplyFailed(Settle(p, f), f)
           IN  /\ Sane(q) /\ Ahead(q) /\ Lone(q) /\ Keeps(p, q, c)
               /\ Explained(q) /\ Rested(q)
               /\ Heard(q) \subseteq Heard(p) \ {f}
               /\ p.asked \ {f} \subseteq q.asked
<1> DEFINE s == Settle(p, f)
           u == Unwait(s, f)
           noted == NoteAttempt(u, f.after)
           q == OnReplyFailed(s, f)
<1>1. /\ Sane(u) /\ Ahead(u) /\ Keeps(p, u, c)
      /\ u.epoch = p.epoch /\ u.frontier = p.frontier /\ u.pending = p.pending
      /\ f \in Requests /\ u.asked = p.asked \ {f}
  BY UnwaitSane
<1>2. q = IF s.frontier = None THEN Drain(Anchor(noted)) ELSE Recover(noted)
  BY DEF OnReplyFailed
<1>3. p \in Pages /\ u \in Pages /\ f.after \in Nat
  BY <1>1 DEF Sane, Requests
<1>4. s.frontier = p.frontier
  BY <1>3 DEF Settle, Pages
<1> HIDE DEF s, u, q
<1>5. /\ Sane(noted) /\ Keeps(u, noted, c) /\ Ahead(noted)
      /\ noted.frontier = u.frontier /\ noted.pending = u.pending
      /\ noted.asked = u.asked
  BY <1>1, <1>3, NoteAttemptSane
<1> HIDE DEF noted
<1>6. noted \in Pages /\ Held(noted) = Held(p)
  BY <1>1, <1>5 DEF Sane, Held
<1>7. Keeps(p, noted, c)
  BY <1>1, <1>3, <1>5, <1>6, KeepsTwice
<1>8. CASE s.frontier = None
  <2> DEFINE r == Anchor(noted)
  <2>1. /\ Sane(r) /\ Keeps(noted, r, c) /\ SameRest(noted, r)
        /\ r.pending = noted.pending
        /\ r.frontier = None => Held(r) = {}
        /\ noted.frontier = None /\ Held(noted) # {} => r.frontier = Lowest(noted) - 1
    BY <1>5, AnchorSane
  <2> HIDE DEF r
  <2>2. /\ Sane(q) /\ Ahead(q) /\ SameRest(r, q) /\ Keeps(r, q, c)
        /\ Held(q) \subseteq Held(r)
    <3>1. q = Drain(r)
      BY <1>2, <1>8 DEF r
    <3> QED
      BY <2>1, <3>1, DrainSane
  <2>3. r \in Pages /\ q \in Pages
    BY <2>1, <2>2 DEF Sane
  <2>4. Keeps(p, q, c)
    <3>1. Keeps(p, r, c)
      BY <1>3, <1>6, <1>7, <2>1, <2>3, KeepsTwice
    <3> QED
      BY <1>3, <2>2, <2>3, <3>1, KeepsTwice
  <2>5. Held(q) = {}
    <3> SUFFICES ASSUME NEW n \in Held(q) PROVE FALSE
      OBVIOUS
    <3>1. Held(r) = Held(p) /\ n \in Held(p) /\ n \in Held(noted)
      BY <1>6, <2>1, <2>2 DEF Held
    <3>2. Lowest(noted) \in Held(p) /\ Lowest(noted) \in Nat /\ Lowest(noted) - 1 \in Nat
      BY <1>6, <3>1, LowestIs
    <3>3. Lowest(noted) = n
      BY <1>4, <1>8, <3>1, <3>2 DEF Lone
    <3>4. r.frontier = n - 1 /\ r.frontier \in Nat
      BY <1>1, <1>4, <1>5, <1>8, <2>1, <3>1, <3>2, <3>3
    <3>5. q.frontier # None /\ n - 1 <= q.frontier /\ q.frontier \in Nat
      BY <2>2, <2>3, <3>4, Numbers DEF Keeps, Pages
    <3>6. q.frontier + 1 < n
      BY <2>2, <3>5 DEF Ahead
    <3> QED
      BY <3>2, <3>3, <3>5, <3>6
  <2>6. q.asked = p.asked \ {f}
    BY <1>1, <1>5, <2>1, <2>2 DEF SameRest
  <2>7. Lone(q) /\ Explained(q) /\ Rested(q)
    BY <2>5 DEF Lone, Explained, Rested
  <2>8. Heard(q) \subseteq Heard(p) \ {f}
    BY <2>6 DEF Heard
  <2> QED
    BY <2>2, <2>4, <2>6, <2>7, <2>8 DEF q, s
<1>9. CASE s.frontier # None
  <2>1. q = Recover(noted)
    BY <1>2, <1>9
  <2>2. /\ Sane(q) /\ Ahead(q) /\ Keeps(noted, q, c) /\ Explained(q) /\ Rested(q)
        /\ noted.asked \subseteq q.asked
    BY <1>5, <2>1, RecoverSane
  <2>3. Keeps(p, q, c)
    <3>1. q \in Pages
      BY <2>2 DEF Sane
    <3> QED
      BY <1>3, <1>6, <1>7, <2>2, <3>1, KeepsTwice
  <2>4. Lone(q)
    BY <1>4, <1>9, <2>3 DEF Lone, Keeps
  <2>5. Heard(q) \subseteq Heard(p) \ {f}
    BY <1>1, <1>5, <2>2 DEF Heard, Keeps
  <2> QED
    BY <1>1, <1>4, <1>5, <1>9, <2>2, <2>3, <2>4, <2>5 DEF q, s
<1> QED
  BY <1>8, <1>9

\* FoldSet refuses requests one by one.
Refused(p, f) == OnReplyFailed(Settle(p, f), f)
Choice(s)     == CHOOSE x \in s : TRUE

Refusing(p, g, S) ==
    g = [s \in SUBSET S |-> IF s = {} THEN p ELSE Refused(g[s \ {Choice(s)}], Choice(s))]

LEMMA RefusingExists ==
    ASSUME NEW p, NEW S, IsFiniteSet(S)
    PROVE  \E g : Refusing(p, g, S)
<1> DEFINE Small(k) == {s \in SUBSET S : Cardinality(s) <= k}
           Up(g, k) == g = [s \in Small(k) |->
                              IF s = {} THEN p ELSE Refused(g[s \ {Choice(s)}], Choice(s))]
           T == {k \in Nat : \E g : Up(g, k)}
<1>0. \A s \in SUBSET S :
         /\ IsFiniteSet(s) /\ Cardinality(s) \in Nat /\ Cardinality(s) <= Cardinality(S)
         /\ s # {} => Choice(s) \in s /\ Cardinality(s \ {Choice(s)}) = Cardinality(s) - 1
  <2> TAKE s \in SUBSET S
  <2>1. IsFiniteSet(s) /\ Cardinality(s) <= Cardinality(S)
    BY FS_Subset
  <2>2. Cardinality(s) \in Nat
    BY <2>1, FS_CardinalityType
  <2>3. ASSUME s # {} PROVE Choice(s) \in s
    BY <2>3 DEF Choice
  <2>4. ASSUME s # {} PROVE Cardinality(s \ {Choice(s)}) = Cardinality(s) - 1
    <3> DEFINE x == Choice(s)
    <3>1. x \in s
      BY <2>3, <2>4
    <3> HIDE DEF x
    <3>2. Cardinality(s \ {x}) = IF x \in s THEN Cardinality(s) - 1 ELSE Cardinality(s)
      BY <2>1, FS_RemoveElement, Zenon
    <3>3. Cardinality(s \ {x}) = Cardinality(s) - 1
      BY <3>1, <3>2
    <3> QED
      BY <3>3 DEF x
  <2> QED
    BY <2>1, <2>2, <2>3, <2>4
<1>1. 0 \in T
  <2> DEFINE g == [s \in Small(0) |-> p]
  <2>1. ASSUME NEW s \in Small(0) PROVE s = {}
    <3>1. s \in SUBSET S /\ Cardinality(s) <= 0
      OBVIOUS
    <3>2. IsFiniteSet(s) /\ Cardinality(s) \in Nat
      BY <1>0, <3>1, Zenon
    <3>3. Cardinality(s) = 0
      BY <3>1, <3>2
    <3> QED
      BY <3>2, <3>3, FS_EmptySet
  <2>2. Up(g, 0)
    BY <2>1
  <2> QED
    BY <2>2
<1>2. ASSUME NEW k \in T PROVE k + 1 \in T
  <2>1. PICK g : Up(g, k)
    OBVIOUS
  <2> DEFINE h == [s \in Small(k + 1) |->
                      IF s = {} THEN p ELSE Refused(g[s \ {Choice(s)}], Choice(s))]
  <2>2. ASSUME NEW s \in Small(k + 1), s # {}
        PROVE  h[s \ {Choice(s)}] = g[s \ {Choice(s)}]
    <3> DEFINE t == s \ {Choice(s)}
    <3>1. t \in SUBSET S /\ Cardinality(t) <= k
      <4>1. Cardinality(t) = Cardinality(s) - 1 /\ Cardinality(s) \in Nat
        BY <1>0, <2>2
      <4>2. Cardinality(s) <= k + 1
        OBVIOUS
      <4> QED
        BY <4>1, <4>2
    <3> HIDE DEF t
    <3>2. t \in Small(k) /\ t \in Small(k + 1)
      <4>1. Cardinality(t) \in Nat /\ k \in Nat
        BY <3>1, <1>0, Zenon
      <4>2. Cardinality(t) <= k + 1
        BY <3>1, <4>1
      <4> QED
        BY <3>1, <4>2
    <3> HIDE DEF Small
    <3>3. g[t] = IF t = {} THEN p ELSE Refused(g[t \ {Choice(t)}], Choice(t))
      BY <2>1, <3>2
    <3>4. h[t] = IF t = {} THEN p ELSE Refused(g[t \ {Choice(t)}], Choice(t))
      BY <3>2
    <3> HIDE DEF h
    <3> QED
      BY <3>3, <3>4 DEF t
  <2>3. Up(h, k + 1)
    <3> HIDE DEF Small
    <3>1. ASSUME NEW s \in Small(k + 1)
          PROVE  h[s] = IF s = {} THEN p ELSE Refused(h[s \ {Choice(s)}], Choice(s))
      <4>1. h[s] = IF s = {} THEN p ELSE Refused(g[s \ {Choice(s)}], Choice(s))
        OBVIOUS
      <4> HIDE DEF h
      <4> QED
        BY <2>2, <4>1
    <3>2. h = [s \in Small(k + 1) |-> h[s]]
      OBVIOUS
    <3> HIDE DEF h
    <3> QED
      BY <3>1, <3>2
  <2> HIDE DEF Up, h
  <2> QED
    BY <2>3
<1>3. T = Nat
  <2>1. T \in SUBSET Nat
    OBVIOUS
  <2> HIDE DEF T
  <2> QED
    BY <1>1, <1>2, <2>1, Induction
<1>4. PICK g : Up(g, Cardinality(S))
  <2>1. Cardinality(S) \in T
    BY <1>3, FS_CardinalityType
  <2> HIDE DEF Up
  <2> QED
    BY <2>1
<1>5. Small(Cardinality(S)) = SUBSET S
  BY <1>0
<1>6. Refusing(p, g, S)
  <2> HIDE DEF Small
  <2> QED
    BY <1>4, <1>5 DEF Refusing
<1> QED
  BY <1>6

\* What is left of a page when requests are refused.
LEMMA RefusedSane ==
    ASSUME NEW p, Sane(p), Ahead(p), Lone(p), NEW S \in SUBSET p.asked, NEW c \in Nat,
           NEW g, Refusing(p, g, S)
    PROVE  LET q == g[S]
           IN  /\ Sane(q) /\ Ahead(q) /\ Lone(q) /\ Keeps(p, q, c)
               /\ (Explained(p) => Explained(q)) /\ (Rested(p) => Rested(q))
               /\ Heard(q) \subseteq Heard(p) \ S /\ p.asked \ S \subseteq q.asked
<1> DEFINE Good(q, s) ==
               /\ Sane(q) /\ Ahead(q) /\ Lone(q) /\ Keeps(p, q, c)
               /\ (Explained(p) => Explained(q)) /\ (Rested(p) => Rested(q))
               /\ Heard(q) \subseteq Heard(p) \ s /\ p.asked \ s \subseteq q.asked
           T == {k \in Nat : \A s \in SUBSET S : Cardinality(s) = k => Good(g[s], s)}
<1>0. p \in Pages /\ IsFiniteSet(S)
  <2>1. IsFiniteSet(p.asked)
    BY DEF Sane, Asks
  <2> QED
    BY <2>1, FS_Subset DEF Sane
<1>1. 0 \in T
  <2>1. ASSUME NEW s \in SUBSET S, Cardinality(s) = 0 PROVE Good(g[s], s)
    <3>1. s = {}
      BY <1>0, <2>1, FS_Subset, FS_EmptySet
    <3>2. g[s] = p
      BY <3>1 DEF Refusing
    <3>3. Keeps(p, p, c)
      BY <1>0, KeepsSame DEF SameFlags
    <3>4. Good(p, s)
      BY <3>1, <3>3
    <3> HIDE DEF Good
    <3> QED
      BY <3>2, <3>4
  <2> HIDE DEF Good
  <2> QED
    BY <2>1
<1>2. ASSUME NEW k \in T PROVE k + 1 \in T
  <2>1. ASSUME NEW s \in SUBSET S, Cardinality(s) = k + 1 PROVE Good(g[s], s)
    <3>0. IsFiniteSet(s) /\ k \in Nat
      BY <1>0, FS_Subset
    <3>1. s # {}
      BY <2>1, <3>0, FS_EmptySet
    <3> DEFINE x == Choice(s)
               t == s \ {x}
    <3>2. x \in s
      BY <3>1 DEF Choice
    <3>3. g[s] = Refused(g[t], x)
      BY <3>1 DEF Refusing
    <3> HIDE DEF x
    <3>4. Cardinality(t) = k
      <4>1. Cardinality(s \ {x}) = IF x \in s THEN Cardinality(s) - 1 ELSE Cardinality(s)
        BY <3>0, FS_RemoveElement, Zenon
      <4> QED
        BY <2>1, <3>0, <3>2, <4>1
    <3> DEFINE r == g[t]
    <3>5. Good(r, t)
      <4>1. t \in SUBSET S
        OBVIOUS
      <4> HIDE DEF Good, t
      <4> QED
        BY <3>4, <4>1
    <3>6. /\ Sane(r) /\ Ahead(r) /\ Lone(r) /\ Keeps(p, r, c)
          /\ Heard(r) \subseteq Heard(p) \ t /\ p.asked \ t \subseteq r.asked
      BY <3>5
    <3> HIDE DEF r, Good
    <3>7. x \in r.asked
      BY <3>2, <3>6
    <3>8. LET q == Refused(r, x)
          IN   /\ Sane(q) /\ Ahead(q) /\ Lone(q) /\ Keeps(r, q, c)
               /\ Explained(q) /\ Rested(q)
               /\ Heard(q) \subseteq Heard(r) \ {x}
               /\ r.asked \ {x} \subseteq q.asked
      BY <3>6, <3>7, OnReplyFailedSane DEF Refused
    <3> DEFINE q == Refused(r, x)
    <3>9. Keeps(p, q, c)
      <4>1. r \in Pages /\ q \in Pages
        BY <3>6, <3>8 DEF Sane
      <4> QED
        BY <1>0, <3>6, <3>8, <4>1, KeepsTwice
    <3> HIDE DEF q
    <3>10. Good(q, s)
      <4>1. Heard(q) \subseteq Heard(p) \ s /\ p.asked \ s \subseteq q.asked
        <5>1. /\ Heard(r) \subseteq Heard(p) \ t /\ p.asked \ t \subseteq r.asked
              /\ Heard(q) \subseteq Heard(r) \ {x} /\ r.asked \ {x} \subseteq q.asked
          BY <3>6, <3>8 DEF q
        <5> QED
          BY <5>1, <3>2
      <4>2. Sane(q) /\ Ahead(q) /\ Lone(q) /\ Explained(q) /\ Rested(q)
        BY <3>8 DEF q
      <4> QED
        BY <3>9, <4>1, <4>2 DEF Good
    <3> QED
      BY <3>3, <3>10 DEF q, r
  <2> HIDE DEF Good
  <2> QED
    BY <2>1
<1>3. T = Nat
  <2>1. T \in SUBSET Nat
    OBVIOUS
  <2> HIDE DEF T
  <2> QED
    BY <1>1, <1>2, <2>1, Induction
<1>4. Good(g[S], S)
  <2>1. Cardinality(S) \in T
    BY <1>0, <1>3, FS_CardinalityType
  <2> HIDE DEF Good
  <2> QED
    BY <2>1
<1> QED
  BY <1>4

\* A connection is lost, and every request on it.
LEMMA RejectedSane ==
    ASSUME NEW p, Sane(p), Ahead(p), Lone(p), NEW c \in Nat
    PROVE  LET q == Rejected(p)
           IN  /\ Sane(q) /\ Ahead(q) /\ Lone(q) /\ Keeps(p, q, c)
               /\ (Explained(p) => Explained(q)) /\ (Rested(p) => Rested(q))
               /\ Heard(q) = {}
<1> DEFINE late == {f \in p.asked : f.id # p.inFlight}
           last == p.asked \ late
           g == CHOOSE h : Refusing(p, h, late)
           r == g[late]
           h == CHOOSE i : Refusing(r, i, last)
           q == h[last]
<1>1. Rejected(p) = q
  BY Zenon DEF Rejected, FoldSet, MapThenFoldSet, Refusing, Refused, Choice
<1>2. p \in Pages /\ IsFiniteSet(p.asked) /\ late \in SUBSET p.asked /\ last \in SUBSET p.asked
  BY DEF Sane, Asks
<1>3. IsFiniteSet(late) /\ IsFiniteSet(last)
  BY <1>2, FS_Subset
<1>4. p.asked \ late = last
  OBVIOUS
<1> HIDE DEF late, last
<1>5. Refusing(p, g, late)
  BY <1>3, RefusingExists
<1> HIDE DEF g
<1>6. /\ Sane(r) /\ Ahead(r) /\ Lone(r) /\ Keeps(p, r, c)
      /\ (Explained(p) => Explained(r)) /\ (Rested(p) => Rested(r))
      /\ Heard(r) \subseteq Heard(p) \ late /\ p.asked \ late \subseteq r.asked
  BY <1>2, <1>5, RefusedSane
<1> HIDE DEF r
<1>7. Refusing(r, h, last)
  BY <1>3, RefusingExists
<1> HIDE DEF h
<1>8. last \in SUBSET r.asked
  BY <1>4, <1>6
<1>9. /\ Sane(q) /\ Ahead(q) /\ Lone(q) /\ Keeps(r, q, c)
      /\ (Explained(r) => Explained(q)) /\ (Rested(r) => Rested(q))
      /\ Heard(q) \subseteq Heard(r) \ last
  BY <1>6, <1>7, <1>8, RefusedSane
<1> HIDE DEF q
<1>10. Keeps(p, q, c)
  <2>1. r \in Pages /\ q \in Pages
    BY <1>6, <1>9 DEF Sane
  <2> QED
    BY <1>2, <1>6, <1>9, <2>1, KeepsTwice
<1>11. Heard(q) = {}
  BY <1>4, <1>6, <1>9 DEF Heard
<1> QED
  BY <1>1, <1>6, <1>9, <1>10, <1>11

\* Where the answer of an attach puts a page.
Placed(p, e, cursor, preserve) ==
    LET continuing == preserve /\ e = p.epoch /\ p.frontier # None
        lostEpoch  == preserve /\ p.epoch # None /\ e # p.epoch
        here       == IF e = p.epoch THEN p ELSE Reset(p, e)
        stated     == IF lostEpoch THEN Truncated(here) ELSE here
        placed     == IF ~continuing /\ (stated.frontier = None \/ cursor > stated.frontier)
                      THEN [stated EXCEPT !.frontier = cursor]
                      ELSE stated
    IN  [placed EXCEPT !.wantHistory = TRUE]

LEMMA PlacedSane ==
    ASSUME NEW p, Sane(p), NEW e \in Epochs, NEW cursor \in Nat, NEW preserve \in BOOLEAN
    PROVE  LET r == Placed(p, e, cursor, preserve)
           IN  /\ Sane(r) /\ r.epoch = e /\ r.screen = p.screen /\ r.asked \subseteq p.asked
               /\ Held(r) \subseteq Held(p) /\ (p.epoch # e => Held(r) = {})
               /\ r.frontier = IF p.epoch = e /\ p.frontier # None
                                    /\ (preserve \/ cursor <= p.frontier)
                               THEN p.frontier ELSE cursor
               /\ IF preserve /\ p.epoch # None /\ p.epoch # e
                  THEN Owned(r) ELSE SameFlags(p, r)
<1> DEFINE continuing == preserve /\ e = p.epoch /\ p.frontier # None
           lostEpoch  == preserve /\ p.epoch # None /\ e # p.epoch
           here       == IF e = p.epoch THEN p ELSE Reset(p, e)
           stated     == IF lostEpoch THEN Truncated(here) ELSE here
           moves      == ~continuing /\ (stated.frontier = None \/ cursor > stated.frontier)
           placed     == IF moves THEN [stated EXCEPT !.frontier = cursor] ELSE stated
           r          == Placed(p, e, cursor, preserve)
<1>1. r = [placed EXCEPT !.wantHistory = TRUE]
  BY DEF Placed
<1>2. p \in Pages /\ e # None /\ cursor # None
  BY Numbers DEF Sane
<1>3. /\ Sane(here) /\ here.epoch = e /\ here.screen = p.screen /\ here.asked \subseteq p.asked
      /\ Held(here) \subseteq Held(p) /\ (p.epoch # e => Held(here) = {})
      /\ here.frontier = (IF p.epoch = e THEN p.frontier ELSE None)
      /\ SameFlags(p, here)
  <2>1. CASE e = p.epoch
    BY <2>1 DEF SameFlags
  <2>2. CASE e # p.epoch
    <3>1. LET t == Reset(p, e)
          IN  /\ Sane(t) /\ t.epoch = e /\ t.frontier = None /\ Held(t) = {}
              /\ t.asked = {} /\ t.screen = p.screen /\ SameFlags(p, t)
      BY ResetSane
    <3>2. here = Reset(p, e)
      BY <2>2
    <3> HIDE DEF here
    <3> QED
      BY <2>2, <3>1, <3>2
  <2> QED
    BY <2>1, <2>2
<1> HIDE DEF here
<1>4. /\ Sane(stated) /\ stated.epoch = e /\ stated.screen = p.screen
      /\ stated.asked \subseteq p.asked
      /\ Held(stated) = Held(here) /\ stated.frontier = here.frontier
      /\ IF lostEpoch THEN Owned(stated) ELSE SameFlags(p, stated)
  <2>1. LET t == Truncated(here)
        IN  /\ Sane(t) /\ Owned(t) /\ Keeps(here, t, cursor)
            /\ t.frontier = here.frontier /\ t.pending = here.pending /\ t.screen = here.screen
            /\ t.asked = here.asked
    BY <1>3, TruncatedSane
  <2>2. CASE lostEpoch
    <3>1. stated = Truncated(here)
      BY <2>2
    <3> HIDE DEF stated
    <3> QED
      BY <1>3, <2>1, <2>2, <3>1 DEF Held, Keeps
  <2>3. CASE ~lostEpoch
    <3>1. stated = here
      BY <2>3
    <3> HIDE DEF stated
    <3> QED
      BY <1>3, <2>3, <3>1
  <2> QED
    BY <2>2, <2>3
<1> HIDE DEF stated
<1>5. stated \in Pages
  BY <1>4 DEF Sane
<1>6. /\ placed \in Pages /\ placed.epoch = e /\ placed.screen = p.screen
      /\ placed.asked = stated.asked /\ placed.pending = stated.pending
      /\ placed.overtaken = stated.overtaken /\ placed.inFlight = stated.inFlight
      /\ SameFlags(stated, placed)
      /\ placed.frontier = (IF moves THEN cursor ELSE stated.frontier)
  BY <1>4, <1>5 DEF Pages, SameFlags
<1> HIDE DEF moves, placed, r
<1>7. /\ r \in Pages /\ r.epoch = e /\ r.screen = p.screen
      /\ r.asked = stated.asked /\ r.pending = stated.pending
      /\ r.overtaken = stated.overtaken /\ r.inFlight = stated.inFlight
      /\ SameFlags(stated, r)
      /\ r.frontier = (IF moves THEN cursor ELSE stated.frontier)
  BY <1>1, <1>6 DEF Pages, SameFlags
<1>8. stated.frontier # None => stated.frontier \in Nat /\ r.frontier \in Nat
                                  /\ stated.frontier <= r.frontier
  BY <1>5, <1>7 DEF moves, Pages
<1>9. Told(r)
  <2> SUFFICES ASSUME NEW n \in stated.overtaken,
                      ~ (n \in Held(stated) /\ stated.pending[n].superseded)
               PROVE  r.frontier # None /\ n <= r.frontier
    BY <1>7 DEF Told, Held
  <2>1. stated.frontier # None /\ n <= stated.frontier
    BY <1>4 DEF Sane, Told
  <2>2. n \in Nat
    BY <1>5, Numbers DEF Pages
  <2> QED
    BY <1>8, <2>1, <2>2, Numbers
<1>10. Sane(r)
  BY <1>2, <1>4, <1>7, <1>9 DEF Sane, Asks, Held
<1>11. r.frontier = IF p.epoch = e /\ p.frontier # None /\ (preserve \/ cursor <= p.frontier)
                    THEN p.frontier ELSE cursor
  <2>1. CASE p.epoch = e /\ p.frontier # None
    <3>1. stated.frontier = p.frontier /\ p.frontier \in Nat
      BY <1>2, <1>3, <1>4, <2>1 DEF Pages
    <3>2. moves <=> ~preserve /\ cursor > p.frontier
      BY <1>2, <2>1, <3>1, Numbers DEF moves
    <3> QED
      BY <1>7, <2>1, <3>1, <3>2
  <2>2. CASE ~ (p.epoch = e /\ p.frontier # None)
    <3>1. stated.frontier = None
      BY <1>3, <1>4, <2>2
    <3>2. moves
      BY <2>2, <3>1 DEF moves
    <3> QED
      BY <1>7, <2>2, <3>2
  <2> QED
    BY <2>1, <2>2
<1>12. Held(r) = Held(stated)
  BY <1>7 DEF Held
<1>13. IF lostEpoch THEN Owned(r) ELSE SameFlags(p, r)
  BY <1>4, <1>7 DEF SameFlags, Owned
<1> QED
  BY <1>3, <1>4, <1>7, <1>10, <1>11, <1>12, <1>13 DEF r

\* A page takes the answer of an attach.
LEMMA SeedSane ==
    ASSUME NEW p, Sane(p), NEW e \in Epochs, NEW cursor \in Nat, NEW preserve \in BOOLEAN,
           NEW c \in Nat
    PROVE  LET q == Seed(p, e, cursor, preserve)
           IN  /\ Sane(q) /\ Ahead(q) /\ Explained(q) /\ Rested(q)
               /\ Keeps(Placed(p, e, cursor, preserve), q, c)
               /\ q.epoch = e /\ q.frontier # None
<1> DEFINE r == Placed(p, e, cursor, preserve)
           d == Drain(r)
           q == Seed(p, e, cursor, preserve)
<1>1. q = Recover(d)
  BY DEF Seed, Placed
<1>2. /\ Sane(r) /\ r.epoch = e
      /\ r.frontier = IF p.epoch = e /\ p.frontier # None
                                    /\ (preserve \/ cursor <= p.frontier)
                               THEN p.frontier ELSE cursor
  BY PlacedSane
<1> HIDE DEF r, q
<1>3. r.frontier # None
  BY <1>2, Numbers
<1>4. Sane(d) /\ Ahead(d) /\ Keeps(r, d, c)
  BY <1>2, DrainSane
<1> HIDE DEF d
<1>5. Sane(q) /\ Ahead(q) /\ Keeps(d, q, c) /\ Explained(q) /\ Rested(q)
  BY <1>1, <1>4, RecoverSane
<1>6. Keeps(r, q, c)
  <2>1. r \in Pages /\ d \in Pages /\ q \in Pages
    BY <1>2, <1>4, <1>5 DEF Sane
  <2> QED
    BY <1>4, <1>5, <2>1, KeepsTwice
<1>7. q.epoch = e /\ q.frontier # None
  BY <1>2, <1>3, <1>6 DEF Keeps
<1> QED
  BY <1>5, <1>6, <1>7 DEF q, r

-----------------------------------------------------------------------------
(* What always holds.                                                      *)

\* What is known of epochs up to e and of epoch e up to position c.
Known(p, e, c) ==
    /\ p.epoch # None => p.epoch <= e
    /\ p.screen.epoch # None => p.screen.epoch <= e
    /\ p.screen.epoch = e => p.screen.last <= c
    /\ p.epoch = e => Within(p, c)

\* What the ring answered of its epoch is whole, or states where the ring begins.
AnswerOK(f, s) ==
    /\ f.answer.match <=> f.epoch = s.epoch
    /\ f.answer.match =>
          /\ f.answer.from # 0 /\ f.answer.upto <= s.cursor
          /\ \/ f.answer.complete
             \/ f.answer.floor \in Nat \ {0} /\ f.answer.floor - 1 <= s.cursor

Messages == [kind : {"event", "level"} \cup Snapshots, epoch : Epochs, seq : Nat]

\* The wire carries what the Agent recorded.
Carried(s) ==
    {m \in Messages : /\ m.epoch = s.epoch /\ m.seq <= s.cursor
                      /\ m.kind = "event" => m.seq \in Positions}

StreamInv ==
    /\ stream \in [epoch : Epochs, cursor : Nat, floor : Nat \ {0}]
    /\ stream.cursor <= Len(Script) /\ stream.floor <= stream.cursor + 1

WireInv == live \in Seq(Carried(stream)) /\ (~Subscribed => live = <<>>)

AttachInv ==
    /\ phase \in {"idle", "attaching", "attached", "lost"}
    /\ seeded \in BOOLEAN
    /\ phase # "attaching" => attach = None
    /\ phase = "attaching" =>
          /\ attach \in Attaches
          /\ attach.served => attach.epoch = stream.epoch /\ attach.cursor <= stream.cursor

PageInv ==
    /\ Sane(page) /\ Ahead(page) /\ Lone(page) /\ Rested(page)
    /\ phase = "attached" => Explained(page)
    /\ phase = "attached" => page.epoch = stream.epoch /\ page.frontier # None
    /\ Known(page, stream.epoch, stream.cursor)

HeardInv ==
    /\ ~Subscribed => Heard(page) = {}
    /\ \A f \in Heard(page) : AnswerOK(f, stream)

Inv == StreamInv /\ WireInv /\ AttachInv /\ PageInv /\ HeardInv

LEMMA KnownKept ==
    ASSUME NEW p \in Pages, NEW q \in Pages, NEW e \in Epochs, NEW c \in Nat,
           Keeps(p, q, c), Known(p, e, c)
    PROVE  Known(q, e, c)
<1>1. q.epoch # None => q.epoch <= e
  BY DEF Keeps, Known
<1>2. q.screen.epoch # None => q.screen.epoch <= e
  BY DEF Keeps, Known
<1>3. q.epoch = e => Within(q, c)
  BY DEF Keeps, Known
<1>4. q.screen.epoch = e => q.screen.last <= c
  <2>1. CASE q.epoch = e
    BY <1>3, <2>1 DEF Within
  <2>2. CASE q.epoch # e
    BY <2>2 DEF Keeps, Known
  <2> QED
    BY <2>1, <2>2
<1> QED
  BY <1>1, <1>2, <1>3, <1>4 DEF Known

\* What is known stays known while positions are added.
LEMMA KnownGrows ==
    ASSUME NEW p \in Pages, NEW e, NEW c \in Nat, NEW d \in Nat, c <= d, Known(p, e, c)
    PROVE  Known(p, e, d)
<1>1. p.screen.last \in Nat /\ p.frontier \in Nat \cup {None} /\ Held(p) \subseteq Nat
  BY Numbers, OnBoard DEF Pages, Screens, Held
<1>2. ASSUME Within(p, c) PROVE Within(p, d)
  BY <1>1, <1>2 DEF Within
<1> QED
  BY <1>1, <1>2 DEF Known

LEMMA HeardKept ==
    ASSUME NEW p, NEW q, \A f \in q.asked : f \in p.asked \/ f.answer = None
    PROVE  Heard(q) \subseteq Heard(p)
BY DEF Heard

\* What the wire carries.
LEMMA OnTheWire ==
    ASSUME NEW s, NEW w \in Seq(Carried(s)), w # <<>>
    PROVE  /\ Tail(w) \in Seq(Carried(s)) /\ Head(w) \in Carried(s)
<1> DEFINE C == Carried(s)
<1> HIDE DEF C
<1>1. w \in Seq(C)
  BY DEF C
<1>2. Tail(w) \in Seq(C) /\ Head(w) \in C
  BY <1>1
<1> QED
  BY <1>2 DEF C

LEMMA WireGrows ==
    ASSUME NEW S, NEW T, S \subseteq T, NEW w \in Seq(S)
    PROVE  w \in Seq(T)
OBVIOUS

LEMMA InitInv ==
    ASSUME Init
    PROVE  Inv
<1>1. /\ stream = [epoch |-> 1, cursor |-> 0, floor |-> 1] /\ live = <<>> /\ attach = None
      /\ phase = "idle" /\ seeded = FALSE /\ page = Blank
  BY DEF Init
<1>2. /\ Blank.epoch = None /\ Blank.frontier = None /\ Blank.pending = <<>>
      /\ Blank.asked = {} /\ Blank.overtaken = {} /\ Blank.inFlight = 0
      /\ Blank.screen.epoch = None /\ Blank.screen.last = 0 /\ Blank.screen.size = 0
  BY DEF Blank, EmptyScreen
<1>3. <<>> \in Boards /\ DOMAIN <<>> = {}
  <2>1. <<>> \in [{} -> Frames] /\ DOMAIN <<>> = {}
    OBVIOUS
  <2> QED
    BY <2>1, ABoard
<1>4. Blank \in Pages
  <2>1. EmptyScreen \in Screens
    BY DEF EmptyScreen, Screens
  <2> HIDE DEF EmptyScreen
  <2> QED
    BY <1>3, <2>1 DEF Blank, Pages
<1>5. Held(Blank) = {}
  BY <1>2, <1>3 DEF Held
<1>6. 1 \in Epochs /\ None # 1
  BY Numbers DEF Epochs
<1> HIDE DEF Blank
<1>7. Sane(Blank)
  <2>1. Cardinality(Held(Blank)) <= MaxFrames
    BY <1>5, FS_EmptySet, Numbers
  <2> QED
    BY <1>2, <1>4, <1>5, <2>1, FS_EmptySet DEF Sane, Told, Asks
<1>8. StreamInv
  BY <1>1, <1>6, Numbers DEF StreamInv
<1>9. WireInv /\ AttachInv
  <2>1. live \in Seq(Carried(stream))
    <3>1. \A S : <<>> \in Seq(S)
      OBVIOUS
    <3> QED
      BY <1>1, <3>1
  <2> QED
    BY <1>1, <2>1 DEF WireInv, AttachInv, Subscribed
<1>10. PageInv
  BY <1>1, <1>2, <1>5, <1>6, <1>7
  DEF PageInv, Ahead, Lone, Rested, Explained, Known, Within
<1>11. HeardInv
  BY <1>1, <1>2 DEF HeardInv, Heard
<1> QED
  BY <1>8, <1>9, <1>10, <1>11 DEF Inv

\* The Agent.
LEMMA RecordInv ==
    ASSUME Inv, Record
    PROVE  Inv'
<1> DEFINE n == stream.cursor + 1
<1>1. /\ n \in Positions
      /\ stream' = [stream EXCEPT !.cursor = n, !.floor = FloorAfter(n)]
      /\ live' = IF Subscribed
                 THEN Append(live, [kind |-> "event", epoch |-> stream.epoch, seq |-> n])
                 ELSE live
      /\ UNCHANGED <<attach, attaches, phase, seeded, adopted, parsing, parsed, page>>
  BY DEF Record, runtimeVars
<1>2. /\ stream.epoch \in Epochs /\ stream.cursor \in Nat /\ stream.floor \in Nat \ {0}
      /\ stream.floor <= stream.cursor + 1
  BY DEF Inv, StreamInv
<1>3. FloorAfter(n) \in Nat \ {0} /\ FloorAfter(n) <= n + 1
  BY <1>2 DEF FloorAfter
<1>n. n \in Nat
  BY <1>2
<1>4. /\ stream'.epoch = stream.epoch /\ stream'.cursor = n /\ stream'.floor = FloorAfter(n)
      /\ stream' \in [epoch : Epochs, cursor : Nat, floor : Nat \ {0}]
  <2>1. stream \in [epoch : Epochs, cursor : Nat, floor : Nat \ {0}]
    BY DEF Inv, StreamInv
  <2> HIDE DEF n
  <2> QED
    BY <1>1, <1>3, <1>n, <2>1
<1>5. StreamInv'
  <2>1. n <= Len(Script)
    BY <1>1, Numbers DEF Positions
  <2> QED
    BY <1>3, <1>4, <2>1 DEF StreamInv
<1>6. WireInv'
  <2> DEFINE m == [kind |-> "event", epoch |-> stream.epoch, seq |-> n]
             C == Carried(stream')
  <2>1. m \in C
    BY <1>1, <1>2, <1>4 DEF Carried, Messages
  <2>2. Carried(stream) \subseteq C
    BY <1>2, <1>4 DEF Carried, Messages
  <2>3. live \in Seq(C)
    BY <2>2, WireGrows DEF Inv, WireInv
  <2> HIDE DEF m, C
  <2>4. Append(live, m) \in Seq(C)
    BY <2>1, <2>3
  <2>5. Subscribed' = Subscribed
    BY <1>1 DEF Subscribed
  <2>6. live' \in Seq(C)
    BY <1>1, <2>3, <2>4 DEF m
  <2> QED
    BY <1>1, <2>5, <2>6 DEF WireInv, Inv, C
<1>7. AttachInv'
  BY <1>1, <1>2, <1>4 DEF Inv, AttachInv, Attaches
<1>8. PageInv'
  <2>1. Known(page, stream.epoch, n)
    <3>1. page \in Pages /\ stream.cursor <= n /\ n \in Nat
      BY <1>2 DEF Inv, PageInv, Sane
    <3> QED
      BY <1>2, <3>1, KnownGrows DEF Inv, PageInv
  <2> QED
    BY <1>1, <1>4, <2>1 DEF Inv, PageInv
<1>9. HeardInv'
  <2>1. Subscribed' = Subscribed
    BY <1>1 DEF Subscribed
  <2>2. ASSUME NEW f \in Heard(page) PROVE AnswerOK(f, stream')
    <3>1. AnswerOK(f, stream) /\ f.answer \in Answers
      BY DEF Inv, HeardInv, PageInv, Sane, Pages, Requests, Heard
    <3> QED
      BY <1>2, <1>4, <3>1 DEF AnswerOK, Answers
  <2> QED
    BY <1>1, <2>1, <2>2 DEF Inv, HeardInv
<1> QED
  BY <1>5, <1>6, <1>7, <1>8, <1>9 DEF Inv

LEMMA EvictInv ==
    ASSUME Inv, Evict
    PROVE  Inv'
<1>1. /\ stream.floor <= stream.cursor /\ stream' = [stream EXCEPT !.floor = @ + 1]
      /\ UNCHANGED <<live, attach, attaches, phase, seeded, adopted, parsing, parsed, page>>
  BY DEF Evict, runtimeVars
<1>2. /\ stream.epoch \in Epochs /\ stream.cursor \in Nat /\ stream.floor \in Nat \ {0}
      /\ stream.floor <= stream.cursor + 1
  BY DEF Inv, StreamInv
<1>4. /\ stream'.epoch = stream.epoch /\ stream'.cursor = stream.cursor
      /\ stream'.floor = stream.floor + 1
      /\ stream' \in [epoch : Epochs, cursor : Nat, floor : Nat \ {0}]
  BY <1>1, <1>2 DEF Inv, StreamInv
<1>5. StreamInv'
  BY <1>1, <1>2, <1>4 DEF Inv, StreamInv
<1>6. WireInv'
  BY <1>1, <1>4 DEF Inv, WireInv, Carried, Subscribed
<1>7. AttachInv'
  BY <1>1, <1>4 DEF Inv, AttachInv
<1>8. PageInv'
  BY <1>1, <1>4 DEF Inv, PageInv
<1>9. HeardInv'
  BY <1>1, <1>4 DEF Inv, HeardInv, AnswerOK, Subscribed
<1> QED
  BY <1>5, <1>6, <1>7, <1>8, <1>9 DEF Inv

LEMMA LevelInv ==
    ASSUME Inv, Level
    PROVE  Inv'
<1>1. /\ Subscribed
      /\ live' = Append(live, [kind |-> "level", epoch |-> stream.epoch, seq |-> 0])
      /\ UNCHANGED <<stream, attach, attaches, phase, seeded, adopted, parsing, parsed, page>>
  BY DEF Level, runtimeVars, agentVars
<1>2. WireInv'
  <2> DEFINE m == [kind |-> "level", epoch |-> stream.epoch, seq |-> 0]
             C == Carried(stream)
  <2>1. m \in C
    BY <1>1 DEF Carried, Messages, Inv, StreamInv
  <2>3. live \in Seq(C)
    BY DEF Inv, WireInv
  <2> HIDE DEF m, C
  <2>4. Append(live, m) \in Seq(C)
    BY <2>1, <2>3
  <2>5. Subscribed'
    BY <1>1 DEF Subscribed
  <2>6. live' \in Seq(C)
    BY <1>1, <2>3, <2>4 DEF m
  <2> QED
    BY <1>1, <2>5, <2>6 DEF WireInv, Inv, C
<1>3. StreamInv' /\ AttachInv' /\ PageInv'
  BY <1>1 DEF Inv, StreamInv, AttachInv, PageInv
<1>4. HeardInv'
  BY <1>1 DEF Inv, HeardInv, Subscribed
<1> QED
  BY <1>2, <1>3, <1>4 DEF Inv

\* The answer to an attach, with the snapshot ahead of it.
LEMMA ServeAttachInv ==
    ASSUME Inv, NEW snapshot, ServeAttach(snapshot)
    PROVE  Inv'
<1>1. /\ phase = "attaching" /\ ~attach.served
      /\ snapshot \in Snapshots \cup {"none"}
      /\ attach' = [attach EXCEPT !.served = TRUE, !.epoch = stream.epoch,
                                  !.cursor = stream.cursor]
      /\ live' = IF snapshot = "none" THEN <<>>
                 ELSE <<[kind |-> snapshot, epoch |-> stream.epoch, seq |-> stream.cursor]>>
      /\ UNCHANGED <<stream, attaches, phase, seeded, adopted, parsing, parsed, page>>
  <2>1. Obtainable \subseteq Snapshots
    BY DEF Obtainable, Snapshots
  <2> QED
    BY <2>1 DEF ServeAttach, agentVars
<1>2. stream.epoch \in Epochs /\ stream.cursor \in Nat
  BY DEF Inv, StreamInv
<1>3. /\ attach' \in Attaches /\ attach'.served /\ attach'.epoch = stream.epoch
      /\ attach'.cursor = stream.cursor
  BY <1>1, <1>2 DEF Inv, AttachInv, Attaches
<1>4. WireInv'
  <2> DEFINE m == [kind |-> snapshot, epoch |-> stream.epoch, seq |-> stream.cursor]
             C == Carried(stream)
  <2>1. snapshot # "none" => m \in C
    BY <1>1, <1>2 DEF Carried, Messages, Snapshots
  <2>2. Subscribed'
    BY <1>1, <1>3 DEF Subscribed
  <2> HIDE DEF m, C
  <2>3. <<>> \in Seq(C) /\ (snapshot # "none" => <<m>> \in Seq(C))
    BY <2>1
  <2>4. live' = IF snapshot = "none" THEN <<>> ELSE <<m>>
    BY <1>1 DEF m
  <2>5. live' \in Seq(C)
    BY <2>3, <2>4
  <2> QED
    BY <1>1, <2>2, <2>5 DEF C, WireInv
<1>5. AttachInv'
  BY <1>1, <1>2, <1>3 DEF Inv, AttachInv
<1>6. StreamInv' /\ PageInv'
  BY <1>1 DEF Inv, StreamInv, PageInv
<1>7. HeardInv'
  BY <1>1, <1>3 DEF Inv, HeardInv, Subscribed
<1> QED
  BY <1>4, <1>5, <1>6, <1>7 DEF Inv

\* What the ring answers.
LEMMA ReplySinceIs ==
    ASSUME Inv, NEW f \in Requests, NEW g, g.epoch = f.epoch,
           g.answer = ReplaySince(f.epoch, f.after)
    PROVE  g.answer \in Answers /\ AnswerOK(g, stream)
<1>1. /\ stream.epoch \in Epochs /\ stream.cursor \in Nat /\ stream.floor \in Nat \ {0}
      /\ stream.floor <= stream.cursor + 1 /\ f.epoch \in Epochs /\ f.after \in Nat
  BY DEF Inv, StreamInv, Requests
<1> DEFINE a == f.after + 1
           from == Max({a, stream.floor})
<1>2. from \in Nat \ {0}
  <2>1. a \in Nat \ {0}
    BY <1>1
  <2> HIDE DEF a
  <2>2. from = IF a >= stream.floor THEN a ELSE stream.floor
    BY <1>1, <2>1, OfTwo
  <2> QED
    BY <1>1, <2>1, <2>2
<1> HIDE DEF from
<1>3. CASE f.epoch # stream.epoch
  BY <1>1, <1>3 DEF ReplaySince, Answers, AnswerOK
<1>4. CASE f.epoch = stream.epoch
  <2>1. g.answer =
         [match |-> TRUE, epoch |-> f.epoch,
          complete |-> f.after <= stream.cursor /\ f.after + 1 >= stream.floor,
          floor |-> stream.floor,
          from |-> from,
          upto |-> IF f.after > stream.cursor THEN 0 ELSE stream.cursor]
    BY <1>4 DEF ReplaySince, from
  <2>2. stream.floor - 1 <= stream.cursor /\ stream.cursor <= stream.cursor /\ 0 <= stream.cursor
    BY <1>1
  <2>3. g.answer \in Answers
    BY <1>1, <1>2, <2>1 DEF Answers
  <2>4. AnswerOK(g, stream)
    BY <1>1, <1>2, <1>4, <2>1, <2>2 DEF AnswerOK
  <2> QED
    BY <2>3, <2>4
<1> QED
  BY <1>3, <1>4

LEMMA AnswerInv ==
    ASSUME Inv, NEW f \in page.asked, Answer(f)
    PROVE  Inv'
<1> DEFINE g == [f EXCEPT !.answer = ReplaySince(f.epoch, f.after)]
<1>1. /\ Subscribed /\ page' = [page EXCEPT !.asked = (page.asked \ {f}) \cup {g}]
      /\ UNCHANGED <<stream, live, attach, attaches, phase, seeded, adopted, parsing, parsed>>
  BY DEF Answer, agentVars, runtimeVars
<1>2. Sane(page) /\ page \in Pages /\ f \in Requests /\ page.asked \subseteq Requests
  BY DEF Inv, PageInv, Sane, Pages
<1>3. /\ g.id = f.id /\ g.epoch = f.epoch /\ g.after = f.after
      /\ g.answer = ReplaySince(f.epoch, f.after)
  BY <1>2 DEF Requests
<1>4. g.answer \in Answers /\ AnswerOK(g, stream)
  BY <1>2, <1>3, ReplySinceIs
<1>5. g \in Requests
  BY <1>2, <1>4 DEF Requests
<1> HIDE DEF g
<1>6. /\ page' \in Pages /\ page'.epoch = page.epoch /\ page'.frontier = page.frontier
      /\ page'.pending = page.pending /\ page'.screen = page.screen
      /\ page'.asked = (page.asked \ {f}) \cup {g} /\ page'.overtaken = page.overtaken
      /\ page'.inFlight = page.inFlight /\ page'.attempts = page.attempts
      /\ SameFlags(page, page')
  BY <1>1, <1>2, <1>5 DEF Pages, SameFlags
<1>7. Asks(page')
  <2>1. IsFiniteSet(page.asked) /\ \A h \in page.asked : h.epoch = page.epoch
    BY <1>2 DEF Sane, Asks
  <2>2. IsFiniteSet((page.asked \ {f}) \cup {g})
    <3>1. IsFiniteSet(page.asked \ {f})
      BY <2>1, FS_Subset
    <3> QED
      BY <3>1, FS_AddElement, Zenon
  <2>3. page.inFlight # 0 => \E h \in page.asked : h.id = page.inFlight
    BY <1>2 DEF Sane, Asks
  <2>4. page'.inFlight # 0 => \E h \in page'.asked : h.id = page'.inFlight
    BY <1>3, <1>6, <2>3
  <2> QED
    BY <1>3, <1>6, <2>1, <2>2, <2>4 DEF Asks
<1>8. Sane(page')
  BY <1>2, <1>6, <1>7 DEF Sane, Told, Held
<1>9. PageInv'
  BY <1>1, <1>6, <1>8
  DEF Inv, PageInv, Ahead, Lone, Rested, Explained, Owned, SameFlags, Known, Within, Held
<1>10. HeardInv'
  <2>1. Heard(page') \subseteq Heard(page) \cup {g}
    BY <1>6 DEF Heard
  <2> QED
    BY <1>1, <1>4, <2>1 DEF Inv, HeardInv, Subscribed
<1>11. StreamInv' /\ WireInv' /\ AttachInv'
  BY <1>1 DEF Inv, StreamInv, WireInv, AttachInv, Subscribed
<1> QED
  BY <1>9, <1>10, <1>11 DEF Inv

\* What the operators of the page leave of the invariant.
LEMMA PageStep ==
    ASSUME Inv, phase' = phase, stream' = stream, attach' = attach, seeded' = seeded,
           Sane(page'), Ahead(page'), Lone(page'), Rested(page'),
           phase = "attached" => Explained(page'),
           phase = "attached" => page'.epoch = stream.epoch /\ page'.frontier # None,
           Known(page', stream.epoch, stream.cursor),
           Heard(page') \subseteq Heard(page),
           live' \in Seq(Carried(stream)), ~Subscribed => live' = <<>>
    PROVE  Inv'
<1>1. StreamInv' /\ AttachInv' /\ PageInv'
  BY DEF Inv, StreamInv, AttachInv, PageInv
<1>2. Subscribed' = Subscribed
  BY DEF Subscribed
<1>3. WireInv' /\ HeardInv'
  BY <1>2 DEF Inv, WireInv, HeardInv
<1> QED
  BY <1>1, <1>3 DEF Inv

\* What the page is when a step begins.
LEMMA PageNow ==
    ASSUME Inv
    PROVE  /\ page \in Pages /\ Sane(page) /\ Ahead(page) /\ Lone(page) /\ Rested(page)
           /\ phase = "attached" => Explained(page)
           /\ phase = "attached" => page.epoch = stream.epoch /\ page.frontier # None
           /\ Known(page, stream.epoch, stream.cursor)
           /\ stream.epoch \in Epochs /\ stream.cursor \in Nat /\ stream.epoch # None
           /\ stream.cursor <= Len(Script) /\ stream.epoch \in Nat
BY Numbers DEF Inv, PageInv, StreamInv, Sane

LEMMA DeliverEventInv ==
    ASSUME Inv, DeliverEvent
    PROVE  Inv'
<1> DEFINE m == Head(live)
           e == stream.epoch
           c == stream.cursor
           q == Accept(page, e, m.seq)
<1>1. /\ live # <<>> /\ m.kind = "event" /\ live' = Tail(live)
      /\ page' = Accept(page, m.epoch, m.seq)
      /\ UNCHANGED <<stream, attach, attaches, phase, seeded, adopted, parsing, parsed>>
  BY DEF DeliverEvent, agentVars, runtimeVars
<1>2. Tail(live) \in Seq(Carried(stream)) /\ m \in Carried(stream)
  BY <1>1, OnTheWire DEF Inv, WireInv
<1>3. m.epoch = e /\ m.seq \in Positions /\ m.seq <= c
  BY <1>1, <1>2 DEF Carried
<1>4. Subscribed
  BY <1>1 DEF Inv, WireInv
<1>5. page' = q
  BY <1>1, <1>3
<1>6. /\ Sane(q) /\ Ahead(q) /\ q.epoch = e
      /\ SameFlags(page, q) \/ Owned(q)
      /\ Explained(page) => Explained(q)
      /\ Rested(page) => Rested(q)
      /\ \A f \in q.asked : f \in page.asked \/ f.answer = None
      /\ page.epoch = e /\ page.frontier # None => Keeps(page, q, c)
      /\ ~ (page.epoch = e /\ page.frontier # None) => Held(q) \subseteq {m.seq}
      /\ \/ q.screen.epoch = e
         \/ q.screen.epoch = page.screen.epoch /\ q.screen.last = page.screen.last
      /\ (page.screen.epoch = e => page.screen.last <= c) /\ (page.epoch = e => Within(page, c))
            => Within(q, c)
  BY <1>3, PageNow, AcceptSane
<1> HIDE DEF m, q
<1>7. Lone(q)
  BY <1>6 DEF Lone, Keeps
<1>8. Known(q, e, c)
  <2>1. Within(q, c)
    BY <1>6, PageNow DEF Known
  <2>2. e \in Nat
    BY PageNow
  <2>3. e <= e
    BY <2>2
  <2>4. q.screen.epoch # None => q.screen.epoch <= e
    BY <1>6, <2>3, PageNow DEF Known
  <2> QED
    BY <1>6, <2>1, <2>3, <2>4 DEF Known, Within
<1>9. phase = "attached" => q.frontier # None
  BY <1>6, PageNow DEF Keeps
<1>10. Heard(q) \subseteq Heard(page)
  BY <1>6, HeardKept
<1> QED
  BY <1>1, <1>2, <1>4, <1>5, <1>6, <1>7, <1>8, <1>9, <1>10, PageNow, PageStep

LEMMA DeliverLevelInv ==
    ASSUME Inv, DeliverLevel
    PROVE  Inv'
<1> DEFINE q == AcceptLevel(page)
           c == stream.cursor
<1>1. /\ live # <<>> /\ live' = Tail(live) /\ page' = q
      /\ UNCHANGED <<stream, attach, attaches, phase, seeded, adopted, parsing, parsed>>
  BY DEF DeliverLevel, agentVars, runtimeVars
<1>2. Tail(live) \in Seq(Carried(stream)) /\ Subscribed
  BY <1>1, OnTheWire DEF Inv, WireInv
<1>3. /\ Sane(q) /\ (Ahead(page) => Ahead(q)) /\ SameRest(page, q) /\ Keeps(page, q, c)
      /\ Held(q) = Held(page) /\ q.frontier = page.frontier
  BY PageNow, AcceptLevelSane
<1> HIDE DEF q
<1>4. Known(q, stream.epoch, c)
  <2>1. q \in Pages
    BY <1>3 DEF Sane
  <2> QED
    BY <1>3, <2>1, PageNow, KnownKept
<1>5. Lone(q) /\ Rested(q) /\ (phase = "attached" => Explained(q)) /\ q.epoch = page.epoch
  BY <1>3, PageNow DEF Lone, Rested, Explained, SameRest, Owned
<1>6. Heard(q) \subseteq Heard(page)
  BY <1>3 DEF Heard, SameRest
<1> QED
  BY <1>1, <1>2, <1>3, <1>4, <1>5, <1>6, PageNow, PageStep

\* The page.
LEMMA DeliverSnapshotInv ==
    ASSUME Inv, DeliverSnapshot
    PROVE  Inv'
<1> DEFINE m == Head(live)
           s == [page.screen EXCEPT !.epoch = m.epoch, !.last = m.seq,
                                    !.whole = m.kind \in Replacing]
           q == [page EXCEPT !.screen = s]
           e == stream.epoch
           c == stream.cursor
<1>1. /\ live # <<>> /\ live' = Tail(live)
      /\ UNCHANGED <<stream, attach, attaches, phase, seeded, adopted, parsed>>
  BY DEF DeliverSnapshot, agentVars
<1>2. /\ Tail(live) \in Seq(Carried(stream)) /\ m \in Carried(stream) /\ Subscribed
  BY <1>1, OnTheWire DEF Inv, WireInv
<1>3. m.epoch = e /\ m.seq \in Nat /\ m.seq <= c
  BY <1>2 DEF Carried, Messages
<1>4. page \in Pages /\ page.screen \in Screens
  BY PageNow DEF Pages
<1>5. page' = q
  BY <1>4 DEF DeliverSnapshot, Pages
<1>6. /\ s \in Screens /\ s.epoch = e /\ s.last = m.seq /\ s.size = page.screen.size
  <2> DEFINE w == m.kind \in Replacing
  <2>1. w \in BOOLEAN
    OBVIOUS
  <2>2. s = [page.screen EXCEPT !.epoch = m.epoch, !.last = m.seq, !.whole = w]
    OBVIOUS
  <2> HIDE DEF w, s, m
  <2>3. m.epoch \in Epochs \cup {None}
    BY <1>3, PageNow
  <2> QED
    BY <1>3, <1>4, <2>1, <2>2, <2>3 DEF Screens
<1> HIDE DEF m
<1> HIDE DEF s
<1>7. /\ q \in Pages /\ q.epoch = page.epoch /\ q.frontier = page.frontier
      /\ q.pending = page.pending /\ q.screen = s /\ q.asked = page.asked
      /\ q.overtaken = page.overtaken /\ q.inFlight = page.inFlight
      /\ q.attempts = page.attempts /\ SameFlags(page, q)
  BY <1>4, <1>6 DEF Pages, SameFlags
<1> HIDE DEF q
<1>8. Sane(q)
  BY <1>6, <1>7, PageNow DEF Sane, Told, Asks, Held
<1>9. /\ Ahead(q) /\ Lone(q) /\ Rested(q) /\ (phase = "attached" => Explained(q))
      /\ Heard(q) = Heard(page)
  BY <1>7, PageNow DEF Ahead, Lone, Rested, Explained, Owned, SameFlags, Held, Heard
<1>10. Known(q, e, c)
  <2>1. e \in Nat
    BY PageNow
  <2>2. e <= e
    BY <2>1
  <2> QED
    BY <1>3, <1>6, <1>7, <2>2, PageNow DEF Known, Within, Held
<1> QED
  BY <1>1, <1>2, <1>5, <1>7, <1>8, <1>9, <1>10, PageNow, PageStep

LEMMA ParseInv ==
    ASSUME Inv, Parse
    PROVE  Inv'
<1>1. /\ page' = IF page.repairPending /\ parsing.kind = "capture"
                 THEN [page EXCEPT !.repairPending = FALSE, !.mayHaveGap = FALSE]
                 ELSE page
      /\ UNCHANGED <<stream, live, attach, attaches, phase, seeded>>
  BY DEF Parse, agentVars
<1>2. page \in Pages
  BY PageNow
<1>3. /\ page' \in Pages /\ page'.epoch = page.epoch /\ page'.frontier = page.frontier
      /\ page'.pending = page.pending /\ page'.screen = page.screen
      /\ page'.asked = page.asked /\ page'.overtaken = page.overtaken
      /\ page'.inFlight = page.inFlight /\ page'.attempts = page.attempts
      /\ SameFlags(page, page') \/ page.repairPending
  BY <1>1, <1>2 DEF Pages, SameFlags
<1>4. Sane(page')
  BY <1>3, PageNow DEF Sane, Told, Asks, Held
<1>5. /\ Ahead(page') /\ Lone(page') /\ Rested(page') /\ Known(page', stream.epoch, stream.cursor)
      /\ phase = "attached" => Explained(page')
      /\ Heard(page') = Heard(page)
  BY <1>3, PageNow
  DEF Ahead, Lone, Rested, Explained, Owned, SameFlags, Held, Heard, Known, Within
<1>6. live' \in Seq(Carried(stream)) /\ (~Subscribed => live' = <<>>)
  BY <1>1 DEF Inv, WireInv
<1> QED
  BY <1>1, <1>3, <1>4, <1>5, <1>6, PageNow, PageStep

LEMMA ReplyInv ==
    ASSUME Inv, NEW f \in page.asked, Reply(f)
    PROVE  Inv'
<1> DEFINE q == OnReply(Settle(page, f), f)
           c == stream.cursor
<1>1. /\ phase = "attached" /\ f.answer # None /\ page' = q
      /\ UNCHANGED <<stream, live, attach, attaches, phase, seeded, adopted, parsing, parsed>>
  BY DEF Reply, agentVars, runtimeVars
<1>2. page.epoch = stream.epoch /\ page.frontier # None /\ page.epoch # None
  BY <1>1, PageNow
<1>3. f \in Requests /\ f.answer \in Answers /\ f.epoch = page.epoch
  BY <1>1, PageNow DEF Pages, Requests, Sane, Asks
<1>4. AnswerOK(f, stream)
  BY <1>1 DEF Inv, HeardInv, Heard
<1>5. /\ Sane(q) /\ Ahead(q) /\ Keeps(page, q, c) /\ Explained(q) /\ Rested(q)
  BY <1>2, <1>3, <1>4, PageNow, OnReplySane DEF AnswerOK
<1> HIDE DEF q
<1>6. Known(q, stream.epoch, c)
  <2>1. q \in Pages
    BY <1>5 DEF Sane
  <2> QED
    BY <1>5, <2>1, PageNow, KnownKept
<1>7. q.epoch = stream.epoch /\ q.frontier # None /\ Lone(q)
  BY <1>2, <1>5 DEF Keeps, Lone
<1>8. Heard(q) \subseteq Heard(page)
  BY <1>5, HeardKept DEF Keeps
<1>9. live' \in Seq(Carried(stream)) /\ (~Subscribed => live' = <<>>)
  BY <1>1 DEF Inv, WireInv
<1> QED
  BY <1>1, <1>5, <1>6, <1>7, <1>8, <1>9, PageNow, PageStep

LEMMA FailInv ==
    ASSUME Inv, NEW f \in page.asked, Fail(f)
    PROVE  Inv'
<1> DEFINE q == OnReplyFailed(Settle(page, f), f)
           c == stream.cursor
<1>1. /\ phase = "attached" /\ page' = q
      /\ UNCHANGED <<stream, live, attach, attaches, phase, seeded, adopted, parsing, parsed>>
  BY DEF Fail, agentVars, runtimeVars
<1>2. /\ Sane(q) /\ Ahead(q) /\ Lone(q) /\ Keeps(page, q, c)
      /\ Explained(q) /\ Rested(q) /\ Heard(q) \subseteq Heard(page) \ {f}
  BY PageNow, OnReplyFailedSane
<1> HIDE DEF q
<1>3. Known(q, stream.epoch, c)
  <2>1. q \in Pages
    BY <1>2 DEF Sane
  <2> QED
    BY <1>2, <2>1, PageNow, KnownKept
<1>4. q.epoch = stream.epoch /\ q.frontier # None
  BY <1>1, <1>2, PageNow DEF Keeps
<1>5. live' \in Seq(Carried(stream)) /\ (~Subscribed => live' = <<>>)
  BY <1>1 DEF Inv, WireInv
<1> QED
  BY <1>1, <1>2, <1>3, <1>4, <1>5, PageNow, PageStep

\* A page whose request expired.
LEMMA ExpiredSane ==
    ASSUME NEW p, Sane(p), Ahead(p), NEW c \in Nat
    PROVE  LET q == Abandon([p EXCEPT !.inFlight = 0])
           IN  /\ Sane(q) /\ Ahead(q) /\ Keeps(p, q, c) /\ Explained(q) /\ Rested(q)
               /\ Held(q) \subseteq Held(p) /\ q.asked = p.asked
               /\ Owned(q) \/ Stays(p, q)
               /\ q.frontier = None => Held(p) = {}
<1> DEFINE r == [p EXCEPT !.inFlight = 0]
           q == Abandon(r)
<1>1. p \in Pages
  BY DEF Sane
<1>2. /\ r \in Pages /\ r.epoch = p.epoch /\ r.frontier = p.frontier
      /\ r.pending = p.pending /\ r.screen = p.screen
      /\ r.asked = p.asked /\ r.overtaken = p.overtaken
      /\ r.inFlight = 0 /\ SameFlags(p, r)
  BY <1>1 DEF Pages, SameFlags
<1> HIDE DEF r
<1>3. Sane(r) /\ Ahead(r) /\ Held(r) = Held(p)
  BY <1>2 DEF Sane, Told, Asks, Held, Ahead
<1>4. Keeps(p, r, c)
  BY <1>1, <1>2, KeepsSame
<1>5. /\ Sane(q) /\ Keeps(r, q, c) /\ Ahead(q) /\ q.asked = r.asked
      /\ q.attempts = 0 /\ Held(q) \subseteq Held(r)
      /\ Owned(q) \/ Stays(r, q)
      /\ Held(r) # {} => Owned(q) /\ q.frontier # None
  BY <1>3, AbandonSane DEF Stays
<1> HIDE DEF q
<1>6. Keeps(p, q, c)
  <2>1. q \in Pages
    BY <1>5 DEF Sane
  <2> QED
    BY <1>1, <1>2, <1>4, <1>5, <2>1, KeepsTwice
<1>7. Explained(q) /\ Rested(q)
  BY <1>5 DEF Explained, Rested
<1>8. Owned(q) \/ Stays(p, q)
  BY <1>2, <1>5 DEF Stays, SameFlags
<1> QED
  BY <1>2, <1>3, <1>5, <1>6, <1>7, <1>8 DEF q, r

LEMMA ExpireInv ==
    ASSUME Inv, Expire
    PROVE  Inv'
<1> DEFINE q == Abandon([page EXCEPT !.inFlight = 0])
           c == stream.cursor
<1>1. /\ page' = q
      /\ UNCHANGED <<stream, live, attach, attaches, phase, seeded, adopted, parsing, parsed>>
  BY DEF Expire, agentVars, runtimeVars
<1>2. /\ Sane(q) /\ Ahead(q) /\ Keeps(page, q, c) /\ Explained(q) /\ Rested(q)
      /\ Held(q) \subseteq Held(page) /\ q.asked = page.asked
  BY PageNow, ExpiredSane
<1> HIDE DEF q
<1>3. Known(q, stream.epoch, c)
  <2>1. q \in Pages
    BY <1>2 DEF Sane
  <2> QED
    BY <1>2, <2>1, PageNow, KnownKept
<1>4. Lone(q)
  BY <1>2, PageNow, LoneKept
<1>5. phase = "attached" => q.epoch = stream.epoch /\ q.frontier # None
  BY <1>2, PageNow DEF Keeps
<1>6. live' \in Seq(Carried(stream)) /\ (~Subscribed => live' = <<>>)
  BY <1>1 DEF Inv, WireInv
<1>7. Heard(q) \subseteq Heard(page)
  BY <1>2 DEF Heard
<1> QED
  BY <1>1, <1>2, <1>3, <1>4, <1>5, <1>6, <1>7, PageNow, PageStep

\* The runtime.
LEMMA StartAttachInv ==
    ASSUME Inv, StartAttach
    PROVE  Inv'
<1> DEFINE needs == NeedsBootstrap
           a == [needs |-> needs, preserve |-> ~needs /\ seeded,
                 served |-> FALSE, epoch |-> None, cursor |-> 0]
<1>1. /\ phase \in {"idle", "lost"} /\ phase' = "attaching" /\ attach' = a
      /\ page' = IF needs
                 THEN [page EXCEPT !.mayHaveGap = TRUE, !.repairPending = TRUE]
                 ELSE page
      /\ UNCHANGED <<stream, live, seeded, adopted, parsing, parsed>>
  BY DEF StartAttach, agentVars
<1>2. page \in Pages /\ seeded \in BOOLEAN
  BY PageNow DEF Inv, AttachInv
<1>3. needs \in BOOLEAN
  BY <1>2 DEF NeedsBootstrap, Pages
<1>4. attach' \in Attaches /\ ~attach'.served
  <2> DEFINE v == ~needs /\ seeded
  <2>1. v \in BOOLEAN
    OBVIOUS
  <2>2. a = [needs |-> needs, preserve |-> v, served |-> FALSE, epoch |-> None, cursor |-> 0]
    OBVIOUS
  <2> HIDE DEF v, needs, a
  <2> QED
    BY <1>1, <1>3, <2>1, <2>2 DEF Attaches
<1> HIDE DEF needs, a
<1>5. /\ page' \in Pages /\ page'.epoch = page.epoch /\ page'.frontier = page.frontier
      /\ page'.pending = page.pending /\ page'.screen = page.screen
      /\ page'.asked = page.asked /\ page'.overtaken = page.overtaken
      /\ page'.inFlight = page.inFlight /\ page'.attempts = page.attempts
  BY <1>1, <1>2 DEF Pages
<1>6. Sane(page')
  BY <1>5, PageNow DEF Sane, Told, Asks, Held
<1>7. /\ Ahead(page') /\ Lone(page') /\ Rested(page') /\ Known(page', stream.epoch, stream.cursor)
      /\ Heard(page') = Heard(page)
  BY <1>5, PageNow DEF Ahead, Lone, Rested, Held, Heard, Known, Within
<1>8. ~Subscribed /\ ~Subscribed'
  BY <1>1, <1>4 DEF Subscribed
<1>9. StreamInv' /\ WireInv' /\ AttachInv'
  BY <1>1, <1>4, <1>8 DEF Inv, StreamInv, WireInv, AttachInv
<1>10. PageInv'
  BY <1>1, <1>6, <1>7 DEF PageInv
<1>11. HeardInv'
  BY <1>1, <1>7, <1>8 DEF Inv, HeardInv
<1> QED
  BY <1>9, <1>10, <1>11 DEF Inv

\* A page takes the answer of its attach: what it was is the page but for the flag.
Flagged(p, gap) == [p EXCEPT !.mayHaveGap = gap]

LEMMA FlaggedIs ==
    ASSUME NEW p, Sane(p), NEW gap \in BOOLEAN
    PROVE  LET q == Flagged(p, gap)
           IN  /\ Sane(q) /\ q.epoch = p.epoch /\ q.frontier = p.frontier
               /\ q.pending = p.pending /\ q.screen = p.screen /\ q.asked = p.asked
               /\ q.mayHaveGap = gap /\ q.repairPending = p.repairPending
<1> DEFINE q == Flagged(p, gap)
<1>1. p \in Pages
  BY DEF Sane
<1>2. /\ q \in Pages /\ q.epoch = p.epoch /\ q.frontier = p.frontier
      /\ q.pending = p.pending /\ q.screen = p.screen /\ q.asked = p.asked
      /\ q.mayHaveGap = gap /\ q.repairPending = p.repairPending
      /\ q.overtaken = p.overtaken /\ q.inFlight = p.inFlight
  BY <1>1 DEF Flagged, Pages
<1> HIDE DEF q
<1>3. Sane(q)
  BY <1>2 DEF Sane, Told, Asks, Held
<1> QED
  BY <1>2, <1>3 DEF q

\* The page when the answer of an attach is taken.
Before == Flagged(page, page.mayHaveGap \/ adopted \notin {None, attach.epoch})

LEMMA AttachedIs ==
    ASSUME Inv, ReceiveAttached
    PROVE  /\ phase = "attaching" /\ attach.served /\ phase' = "attached" /\ attach' = None
           /\ attach.epoch = stream.epoch /\ attach.cursor \in Nat
           /\ attach.cursor <= stream.cursor /\ attach.preserve \in BOOLEAN
           /\ seeded' = TRUE /\ UNCHANGED <<stream, live, parsing, parsed>>
           /\ adopted' = stream.epoch
           /\ Sane(Before) /\ Before.epoch = page.epoch /\ Before.frontier = page.frontier
           /\ Before.pending = page.pending /\ Before.screen = page.screen
           /\ Before.asked = page.asked /\ Before.repairPending = page.repairPending
           /\ Before.mayHaveGap = (page.mayHaveGap \/ adopted \notin {None, stream.epoch})
           /\ page' = Seed(Before, stream.epoch, attach.cursor, attach.preserve)
<1>1. /\ phase = "attaching" /\ attach.served /\ phase' = "attached" /\ attach' = None
      /\ seeded' = TRUE /\ UNCHANGED <<stream, live, parsing, parsed>>
      /\ adopted' = attach.epoch
      /\ page' = Seed(Before, attach.epoch, attach.cursor, attach.preserve)
  BY DEF ReceiveAttached, MayAttach, agentVars, Before, Flagged
<1>2. /\ attach.epoch = stream.epoch /\ attach.cursor \in Nat
      /\ attach.cursor <= stream.cursor /\ attach.preserve \in BOOLEAN
  BY <1>1 DEF Inv, AttachInv, Attaches
<1> DEFINE gap == page.mayHaveGap \/ adopted \notin {None, attach.epoch}
<1>3. gap \in BOOLEAN
  BY PageNow DEF Pages
<1>4. Before = Flagged(page, gap)
  BY DEF Before
<1> HIDE DEF gap
<1>5. /\ Sane(Before) /\ Before.epoch = page.epoch /\ Before.frontier = page.frontier
      /\ Before.pending = page.pending /\ Before.screen = page.screen
      /\ Before.asked = page.asked /\ Before.repairPending = page.repairPending
      /\ Before.mayHaveGap = gap
  BY <1>3, <1>4, PageNow, FlaggedIs
<1> QED
  BY <1>1, <1>2, <1>5 DEF gap

LEMMA ReceiveAttachedInv ==
    ASSUME Inv, ReceiveAttached
    PROVE  Inv'
<1> DEFINE e == stream.epoch
           c == stream.cursor
           r == Placed(Before, e, attach.cursor, attach.preserve)
           q == Seed(Before, e, attach.cursor, attach.preserve)
<1>1. /\ phase = "attaching" /\ attach.served /\ phase' = "attached" /\ attach' = None
      /\ attach.cursor \in Nat
      /\ attach.cursor <= stream.cursor /\ attach.preserve \in BOOLEAN
      /\ seeded' = TRUE /\ UNCHANGED <<stream, live>>
      /\ Sane(Before) /\ Before.epoch = page.epoch /\ Before.frontier = page.frontier
      /\ Before.pending = page.pending /\ Before.screen = page.screen
      /\ Before.asked = page.asked
      /\ page' = q
  BY AttachedIs
<1>2. /\ Sane(r) /\ r.epoch = e /\ r.screen = Before.screen /\ r.asked \subseteq Before.asked
      /\ Held(r) \subseteq Held(Before) /\ (Before.epoch # e => Held(r) = {})
      /\ r.frontier = IF Before.epoch = e /\ Before.frontier # None
                           /\ (attach.preserve \/ attach.cursor <= Before.frontier)
                      THEN Before.frontier ELSE attach.cursor
  BY <1>1, PageNow, PlacedSane
<1>3. /\ Sane(q) /\ Ahead(q) /\ Explained(q) /\ Rested(q) /\ Keeps(r, q, c)
      /\ q.epoch = e /\ q.frontier # None
  BY <1>1, PageNow, SeedSane
<1> HIDE DEF r, q
<1>4. Known(r, e, c)
  <2>1. e \in Nat
    BY PageNow
  <2>2. e <= e
    BY <2>1
  <2>3. Within(r, c)
    BY <1>1, <1>2, PageNow DEF Known, Within, Held
  <2> QED
    BY <1>1, <1>2, <2>2, <2>3, PageNow DEF Known
<1>5. Known(q, e, c)
  <2>1. r \in Pages /\ q \in Pages
    BY <1>2, <1>3 DEF Sane
  <2> QED
    BY <1>3, <1>4, <2>1, PageNow, KnownKept
<1>6. Heard(q) \subseteq Heard(page)
  <2>1. Heard(q) \subseteq Heard(r)
    BY <1>3, HeardKept DEF Keeps
  <2> QED
    BY <1>1, <1>2, <2>1 DEF Heard
<1>7. PageInv'
  BY <1>1, <1>3, <1>5 DEF PageInv, Lone
<1>8. Subscribed /\ Subscribed'
  BY <1>1 DEF Subscribed
<1>9. StreamInv' /\ WireInv' /\ AttachInv' /\ HeardInv'
  BY <1>1, <1>6, <1>8 DEF Inv, StreamInv, WireInv, AttachInv, HeardInv
<1> QED
  BY <1>7, <1>9 DEF Inv

\* What is left of the page when its connection is lost.
LEMMA LostPage ==
    ASSUME Inv, page' = Rejected(page)
    PROVE  /\ Sane(page') /\ Ahead(page') /\ Lone(page') /\ Rested(page') /\ page' \in Pages
           /\ Explained(page) => Explained(page')
           /\ Keeps(page, page', stream.cursor)
           /\ Known(page', stream.epoch, stream.cursor) /\ Heard(page') = {}
<1> DEFINE q == Rejected(page)
<1>1. /\ Sane(q) /\ Ahead(q) /\ Lone(q) /\ Keeps(page, q, stream.cursor)
      /\ (Explained(page) => Explained(q)) /\ (Rested(page) => Rested(q))
      /\ Heard(q) = {}
  BY PageNow, RejectedSane
<1> HIDE DEF q
<1>2. q \in Pages
  BY <1>1 DEF Sane
<1>3. Known(q, stream.epoch, stream.cursor)
  BY <1>1, <1>2, PageNow, KnownKept
<1>4. page' = q
  BY DEF q
<1> QED
  BY <1>1, <1>2, <1>3, <1>4, PageNow

\* What is known of a page stays known when an epoch begins.
LEMMA KnownAnew ==
    ASSUME NEW p \in Pages, NEW e \in Epochs, NEW c, Known(p, e, c)
    PROVE  Known(p, e + 1, 0)
<1>1. e \in Nat /\ e + 1 # e /\ ~(e + 1 <= e)
  BY DEF Epochs
<1>2. /\ p.epoch \in Epochs \cup {None} /\ p.screen.epoch \in Epochs \cup {None}
      /\ Epochs \subseteq Nat
  BY DEF Pages, Screens, Epochs
<1>3. e + 1 # None
  BY <1>1, Numbers
<1>4. ASSUME NEW x \in Epochs \cup {None}, x # None => x <= e
      PROVE  x # e + 1 /\ (x # None => x <= e + 1)
  <2>1. CASE x = None
    BY <1>3, <2>1
  <2>2. CASE x # None
    BY <1>1, <1>2, <1>4, <2>2
  <2> QED
    BY <2>1, <2>2
<1>5. /\ p.epoch # e + 1 /\ (p.epoch # None => p.epoch <= e + 1)
      /\ p.screen.epoch # e + 1 /\ (p.screen.epoch # None => p.screen.epoch <= e + 1)
  BY <1>2, <1>4 DEF Known
<1> QED
  BY <1>5 DEF Known

\* A connection is gone, whatever stream there is now.
LEMMA LostInv ==
    ASSUME Inv, LoseConnection, StreamInv', Known(page', stream'.epoch, stream'.cursor)
    PROVE  Inv'
<1>1. /\ phase' = "lost" /\ attach' = None /\ live' = <<>> /\ page' = Rejected(page)
      /\ seeded' = seeded
  BY DEF LoseConnection
<1>2. /\ Sane(page') /\ Ahead(page') /\ Lone(page') /\ Rested(page') /\ Heard(page') = {}
  BY <1>1, LostPage
<1>3. WireInv'
  <2>1. \A S : <<>> \in Seq(S)
    OBVIOUS
  <2>2. live' \in Seq(Carried(stream'))
    BY <1>1, <2>1
  <2> QED
    BY <1>1, <2>2 DEF WireInv
<1>4. AttachInv'
  BY <1>1 DEF Inv, AttachInv
<1>5. PageInv'
  BY <1>1, <1>2 DEF PageInv
<1>6. HeardInv'
  BY <1>2 DEF HeardInv
<1> QED
  BY <1>3, <1>4, <1>5, <1>6 DEF Inv

LEMMA LoseInv ==
    ASSUME Inv, Lose
    PROVE  Inv'
<1>1. LoseConnection /\ stream' = stream
  BY DEF Lose, agentVars
<1>2. StreamInv'
  BY <1>1 DEF Inv, StreamInv
<1>3. Known(page', stream.epoch, stream.cursor)
  BY <1>1, LostPage DEF LoseConnection
<1> QED
  BY <1>1, <1>2, <1>3, LostInv

LEMMA RestartInv ==
    ASSUME Inv, Restart
    PROVE  Inv'
<1> DEFINE e == stream.epoch + 1
<1>1. /\ stream.epoch < MaxEpochs
      /\ stream' = [epoch |-> e, cursor |-> 0, floor |-> 1]
      /\ IF phase \in {"idle", "lost"}
         THEN UNCHANGED <<live, attach, attaches, phase, seeded, adopted, parsing, parsed, page>>
         ELSE LoseConnection
  BY DEF Restart, runtimeVars
<1>2. e \in Epochs
  BY <1>1, PageNow, Numbers DEF Epochs
<1>3. stream'.epoch = e /\ stream'.cursor = 0 /\ stream'.floor = 1
  BY <1>1
<1> HIDE DEF e
<1>4. StreamInv'
  BY <1>1, <1>2, Numbers DEF StreamInv
<1>5. ASSUME page' \in Pages, Known(page', stream.epoch, stream.cursor)
      PROVE  Known(page', e, 0)
  BY <1>5, PageNow, KnownAnew DEF e
<1>6. CASE phase \in {"idle", "lost"}
  <2>1. UNCHANGED <<live, attach, phase, seeded, page>>
    BY <1>1, <1>6
  <2>2. ~Subscribed /\ ~Subscribed' /\ phase # "attached" /\ phase # "attaching"
    BY <1>6, <2>1 DEF Subscribed
  <2>3. WireInv'
    <3>1. \A S : <<>> \in Seq(S)
      OBVIOUS
    <3>2. live' = <<>>
      BY <2>1, <2>2 DEF Inv, WireInv
    <3>3. live' \in Seq(Carried(stream'))
      BY <3>1, <3>2
    <3> QED
      BY <3>2, <3>3 DEF WireInv
  <2>4. AttachInv'
    BY <2>1, <2>2 DEF Inv, AttachInv
  <2>5. Known(page', stream'.epoch, stream'.cursor)
    BY <1>3, <1>5, <2>1, PageNow
  <2>6. PageInv'
    BY <2>1, <2>2, <2>5, PageNow DEF PageInv
  <2>7. HeardInv'
    BY <2>1, <2>2 DEF Inv, HeardInv
  <2> QED
    BY <1>4, <2>3, <2>4, <2>6, <2>7 DEF Inv
<1>7. CASE phase \notin {"idle", "lost"}
  <2>1. LoseConnection
    BY <1>1, <1>7
  <2>2. page' \in Pages /\ Known(page', stream.epoch, stream.cursor)
    BY <2>1, LostPage DEF LoseConnection
  <2> QED
    BY <1>3, <1>4, <1>5, <2>1, <2>2, LostInv
<1> QED
  BY <1>6, <1>7

LEMMA SwapInv ==
    ASSUME Inv, Swap
    PROVE  Inv'
<1> DEFINE q == Reset(page, None)
<1>1. /\ phase = "lost" /\ page' = q /\ live' = <<>>
      /\ UNCHANGED <<stream, attach, phase, seeded>>
  BY DEF Swap, agentVars
<1>2. /\ Sane(q) /\ q.epoch = None /\ q.frontier = None /\ q.screen = page.screen
      /\ q.asked = {} /\ Held(q) = {}
  BY PageNow, ResetSane
<1> HIDE DEF q
<1>3. Known(page', stream.epoch, stream.cursor)
  BY <1>1, <1>2, PageNow DEF Known
<1>4. Ahead(q) /\ Lone(q) /\ Rested(q) /\ Heard(q) = {}
  BY <1>2 DEF Ahead, Lone, Rested, Heard
<1>5. live' \in Seq(Carried(stream))
  <2>1. \A S : <<>> \in Seq(S)
    OBVIOUS
  <2> QED
    BY <1>1, <2>1
<1> QED
  BY <1>1, <1>2, <1>3, <1>4, <1>5, PageStep

\* Every step keeps the invariant.
LEMMA NextInv ==
    ASSUME Inv, [Next]_vars
    PROVE  Inv'
<1>1. ASSUME NEW snapshot \in Snapshots \cup {"none"}, ServeAttach(snapshot) PROVE Inv'
  BY <1>1, ServeAttachInv
<1>2. ASSUME NEW f \in page.asked, Answer(f) \/ Reply(f) \/ Fail(f) PROVE Inv'
  BY <1>2, AnswerInv, ReplyInv, FailInv
<1>3. CASE Record \/ Evict \/ Level
  BY <1>3, RecordInv, EvictInv, LevelInv
<1>4. CASE DeliverEvent \/ DeliverLevel \/ DeliverSnapshot
  BY <1>4, DeliverEventInv, DeliverLevelInv, DeliverSnapshotInv
<1>5. CASE Parse \/ Expire \/ StartAttach \/ ReceiveAttached
  BY <1>5, ParseInv, ExpireInv, StartAttachInv, ReceiveAttachedInv
<1>6. CASE Lose \/ Restart \/ Swap
  BY <1>6, LoseInv, RestartInv, SwapInv
<1>7. CASE UNCHANGED vars
  <2>1. UNCHANGED <<stream, live, attach, phase, seeded, page>>
    BY <1>7 DEF vars
  <2>2. Subscribed' = Subscribed
    BY <2>1 DEF Subscribed
  <2> QED
    BY <2>1, <2>2 DEF Inv, StreamInv, WireInv, AttachInv, PageInv, HeardInv
<1> QED
  BY <1>1, <1>2, <1>3, <1>4, <1>5, <1>6, <1>7 DEF Next

LEMMA InvTypeOK ==
    ASSUME Inv
    PROVE  TypeOK
<1>1. page \in Pages /\ Sane(page)
  BY PageNow
<1>2. live \in Seq([kind : {"event", "level"} \cup Snapshots, epoch : Epochs, seq : Nat])
  <2>1. Carried(stream) \subseteq Messages
    BY DEF Carried
  <2>2. live \in Seq(Messages)
    BY <2>1, WireGrows DEF Inv, WireInv
  <2> QED
    BY <2>2 DEF Messages
<1>3. (attach # None) = (phase = "attaching")
  BY Numbers DEF Inv, AttachInv
<1>4. /\ page.epoch \in Epochs \cup {None} /\ page.frontier \in Nat \cup {None}
      /\ page.attempts \in Nat /\ DOMAIN page.pending \subseteq Positions
  BY <1>1, OnBoard DEF Pages
<1>5. /\ Cardinality(DOMAIN page.pending) <= MaxFrames
      /\ page.inFlight # 0 => \E f \in page.asked : f.id = page.inFlight
  BY <1>1 DEF Sane, Held, Asks
<1> QED
  BY <1>2, <1>3, <1>4, <1>5 DEF TypeOK, Inv, StreamInv, AttachInv

LEMMA InvExplains ==
    ASSUME Inv
    PROVE  HeldIsBehindAHole
<1> SUFFICES ASSUME page.pending # <<>>
             PROVE  /\ phase = "attached" =>
                         page.inFlight # 0 \/ (page.mayHaveGap /\ ~page.repairPending)
                    /\ page.frontier # None => Lowest(page) > page.frontier + 1
  BY DEF HeldIsBehindAHole
<1>1. page \in Pages /\ Ahead(page) /\ (phase = "attached" => Explained(page))
  BY PageNow
<1>2. Held(page) # {} /\ Lowest(page) \in Held(page) /\ Held(page) \subseteq Nat
  <2>1. Held(page) # {}
    BY <1>1, EmptyBoard DEF Pages, Held
  <2>2. Lowest(page) \in Held(page)
    BY <1>1, <2>1, LowestIs
  <2>3. Held(page) \subseteq Nat
    BY <1>1, OnBoard, Numbers DEF Pages, Held
  <2> QED
    BY <2>1, <2>2, <2>3
<1>3. page.frontier # None => page.frontier \in Nat
  BY <1>1 DEF Pages
<1> QED
  BY <1>1, <1>2, <1>3 DEF Explained, Owned, Ahead

\* Type correctness of the stream, the wire, the attach and the page; no buffer holds
\* more frames than its limit, and what a page waits for is asked.
THEOREM TypeOKAlways == Spec => []TypeOK
<1>1. Init => Inv
  BY InitInv
<1>2. Inv /\ [Next]_vars => Inv'
  BY NextInv
<1>3. Inv => TypeOK
  BY InvTypeOK
<1> QED
  BY <1>1, <1>2, <1>3, PTL DEF Spec

\* A size that tmux reports outside the stream beats the resizes that are held when it
\* comes (acceptLevelResize): none of them is applied later, not even when it is brought
\* again by an answer to a history request.
THEOREM LevelWinsAlways == Spec => []LevelWins
<1>1. Init => Inv
  BY InitInv
<1>2. Inv /\ [Next]_vars => Inv'
  BY NextInv
<1>3. Inv => LevelWins
  BY PageNow DEF Sane, LevelWins
<1> QED
  BY <1>1, <1>2, <1>3, PTL DEF Spec

\* A frame is held behind a hole only, and while the page is attached the hole is asked
\* about or its loss is stated: the reconciler never rests on frames that nothing will
\* release.
THEOREM HeldIsBehindAHoleAlways == Spec => []HeldIsBehindAHole
<1>1. Init => Inv
  BY InitInv
<1>2. Inv /\ [Next]_vars => Inv'
  BY NextInv
<1>3. Inv => HeldIsBehindAHole
  BY InvExplains
<1> QED
  BY <1>1, <1>2, <1>3, PTL DEF Spec

-----------------------------------------------------------------------------
(* While answers are in time and an attach that was served is not lost,    *)
(* nothing is shown twice.                                                 *)

\* No request misses its deadline, and no connection is lost between the snapshot and
\* the answer of an attach.
InTime == Events \cap {"slow", "early"} = {}

\* A hole is skipped up to frames that what is shown has not reached.
LEMMA SkipHoleClear ==
    ASSUME NEW p, Sane(p), Ahead(p), p.frontier # None, Held(p) # {},
           \A n \in Held(p) : p.screen.last < n
    PROVE  LET q == SkipHole(p, Lowest(p))
           IN  Behind(q) /\ q.screen.twice = p.screen.twice
<1> DEFINE e == Lowest(p)
           a == e - 1
           r == [p EXCEPT !.frontier = a]
           q == Drain(r)
<1>1. /\ p \in Pages /\ p.pending \in Boards /\ p.frontier \in Nat /\ p.screen.last \in Nat
      /\ p.overtaken \subseteq Nat
  BY Numbers DEF Sane, Pages, Screens
<1>2. p.pending # <<>>
  BY <1>1, EmptyBoard DEF Held
<1>3. e \in Held(p) /\ e \in Nat /\ a \in Nat /\ e # 0
  BY <1>1, LowestIs
<1>4. p.frontier + 1 < e /\ p.screen.last < e
  BY <1>3 DEF Ahead
<1> HIDE DEF e
<1>5. p.frontier < a /\ p.screen.last <= a
  BY <1>1, <1>3, <1>4
<1>6. SkipHole(p, e) = q
  <2>1. Min({e, e}) = e
    BY <1>3, OfTwo
  <2>2. Lowest(p) = e
    BY DEF e
  <2> QED
    BY <1>2, <1>5, <2>1, <2>2 DEF SkipHole
<1> HIDE DEF a
<1>7. /\ r \in Pages /\ r.frontier = a /\ SameRest(p, r) /\ r.screen = p.screen
      /\ r.pending = p.pending /\ r.overtaken = p.overtaken
  BY <1>1, <1>3 DEF Pages, SameRest
<1> HIDE DEF r
<1>8. a # None
  BY <1>3, Numbers DEF a
<1>9. Told(r)
  <2> SUFFICES ASSUME NEW n \in p.overtaken, ~ (n \in Held(p) /\ p.pending[n].superseded)
               PROVE  n <= a
    BY <1>7, <1>8 DEF Told, Held
  <2>1. n <= p.frontier /\ n \in Nat
    BY <1>1 DEF Sane, Told
  <2> QED
    BY <1>1, <1>3, <1>5, <2>1 DEF a
<1>10. Sane(r)
  BY <1>7, <1>9 DEF Sane, Asks, Held, SameRest
<1>11. Behind(r)
  BY <1>5, <1>7, <1>8 DEF Behind
<1>12. Keeps(r, q, 0)
  BY <1>10, DrainSane
<1> HIDE DEF q
<1>13. Behind(q) /\ q.screen.twice = p.screen.twice
  BY <1>7, <1>11, <1>12 DEF Keeps
<1> QED
  BY <1>6, <1>13 DEF e

LEMMA RecoverClear ==
    ASSUME NEW p, Sane(p), Ahead(p), p.frontier # None,
           \A n \in Held(p) : p.screen.last < n
    PROVE  LET q == Recover(p)
           IN  /\ q.screen.twice = p.screen.twice
               /\ q.screen = p.screen \/ Behind(q)
<1> DEFINE id == Min(1..(Cardinality(p.asked) + 1) \ {f.id : f \in p.asked})
           new == [id |-> id, epoch |-> p.epoch, after |-> Frontier(p), answer |-> None]
           r == [p EXCEPT !.inFlight = id, !.asked = p.asked \cup {new}]
           b == [p EXCEPT !.attemptsFor = None, !.attempts = 0, !.wantHistory = FALSE]
           q == Recover(p)
<1>1. p \in Pages /\ p.pending \in Boards
  BY DEF Sane, Pages
<1>2. q = p \/ q = r \/ q = Abandon(p)
  BY DEF Recover
<1>3. r.screen = p.screen
  BY <1>1 DEF Pages
<1>4. /\ b \in Pages /\ b.epoch = p.epoch /\ b.frontier = p.frontier /\ b.pending = p.pending
      /\ b.screen = p.screen /\ b.overtaken = p.overtaken /\ b.asked = p.asked
      /\ b.inFlight = p.inFlight
  BY <1>1 DEF Pages
<1>5. Abandon(p) = IF b.pending = <<>> THEN b ELSE SkipHole(Truncated(b), Lowest(b))
  BY DEF Abandon
<1> HIDE DEF b, q, r
<1>6. Sane(b) /\ Held(b) = Held(p)
  BY <1>4 DEF Sane, Told, Asks, Held
<1>7. ASSUME b.pending # <<>>
      PROVE  LET d == SkipHole(Truncated(b), Lowest(b))
             IN  Behind(d) /\ d.screen.twice = p.screen.twice
  <2> DEFINE t == Truncated(b)
  <2>1. Sane(t) /\ t.pending = b.pending
    BY <1>6, TruncatedSane
  <2>2. t.screen = b.screen /\ t.frontier = b.frontier
    BY <1>4 DEF Truncated, Pages
  <2> HIDE DEF t
  <2>3. /\ Held(t) = Held(p) /\ Held(t) # {} /\ Lowest(t) = Lowest(b) /\ Ahead(t)
        /\ t.frontier # None /\ \A n \in Held(t) : t.screen.last < n
    BY <1>1, <1>4, <1>6, <1>7, <2>1, <2>2, EmptyBoard DEF Held, Lowest, Ahead
  <2>4. LET d == SkipHole(t, Lowest(t)) IN Behind(d) /\ d.screen.twice = t.screen.twice
    BY <2>1, <2>3, SkipHoleClear
  <2> QED
    BY <1>4, <2>2, <2>3, <2>4 DEF t
<1>8. CASE q = p \/ q = r
  BY <1>3, <1>8 DEF q
<1>9. CASE q = Abandon(p)
  BY <1>4, <1>5, <1>7, <1>9 DEF q
<1> QED
  BY <1>2, <1>8, <1>9

\* What is shown of epoch e, while the answer of an attach with cursor c is due: the page
\* comes after it already, or the answer will put it there.
Due(p, e, c, needs) ==
    p.screen.epoch = e =>
        \/ p.epoch = e /\ p.frontier # None /\ p.screen.last <= p.frontier
        \/ p.screen.last <= c /\ (needs \/ p.epoch # e \/ p.frontier = None)

\* A page that does not know what comes next takes a frame that is new to it.
LEMMA AcceptFirst ==
    ASSUME NEW p, Sane(p), NEW e \in Epochs, NEW n \in Positions,
           ~ (p.epoch = e /\ p.frontier # None),
           p.screen.epoch = e => p.screen.last < n
    PROVE  LET q == Accept(p, e, n)
           IN  /\ q.screen.twice = p.screen.twice /\ Behind(q) /\ q.epoch = e
               /\ q.frontier = None => q.screen = p.screen
<1> DEFINE anchors == p.epoch = None \/ p.frontier = None
           changed == p.epoch # None /\ e # p.epoch
           r == Reset(p, e)
           kept == KeepFrame(r, n, Frame(n))
           late == IF anchors THEN Anchor(kept) ELSE kept
           t == Drain(late)
           s == Shown(r, n)
           q == Accept(p, e, n)
<1>1. /\ Sane(r) /\ r.epoch = e /\ r.frontier = None /\ Held(r) = {} /\ r.screen = p.screen
      /\ r.attempts = 0 /\ r.pending = <<>>
  BY ResetSane
<1>2. anchors \/ changed
  BY Numbers DEF Sane
<1>3. ~Passed(r, n)
  BY <1>1 DEF Passed
<1>4. q = IF ~changed THEN Recover(s) ELSE Recover(t)
  BY <1>1, <1>2, <1>3 DEF Accept, Shown
<1>5. e # None /\ n \in Nat /\ n # None /\ r \in Pages
  BY <1>1, Numbers DEF Sane
<1>6. r.screen.twice \in BOOLEAN /\ r.screen.last \in Nat /\ p.screen \in Screens
  BY <1>5 DEF Sane, Pages, Screens
<1> HIDE DEF r, q, anchors, changed
<1>7. ASSUME NEW k, Sane(k), Ahead(k), Behind(k), k.screen.twice = p.screen.twice,
             k.epoch = e, k.frontier = None => k.screen = p.screen /\ k.attempts = 0,
             q = Recover(k)
      PROVE  /\ q.screen.twice = p.screen.twice /\ Behind(q) /\ q.epoch = e
             /\ q.frontier = None => q.screen = p.screen
  <2>1. Keeps(k, q, 0) /\ (k.attempts = 0 => q.screen = k.screen)
    BY <1>7, RecoverSane
  <2> QED
    BY <1>7, <2>1 DEF Keeps
<1>8. CASE ~changed
  <2>1. /\ Sane(s) /\ Ahead(s) /\ s.frontier = n /\ s.screen.epoch = r.epoch
        /\ s.screen.last = n /\ SameRest(r, s)
        /\ s.screen.twice = (r.screen.twice
                               \/ (r.screen.epoch = r.epoch /\ n <= r.screen.last))
    <3>1. n <= n
      BY <1>5
    <3> QED
      BY <1>1, <1>5, <3>1, NextSane
  <2> HIDE DEF s
  <2>2. s.screen.twice = p.screen.twice
    <3>1. ~ (r.screen.epoch = r.epoch /\ n <= r.screen.last)
      BY <1>1, <1>5, <1>6
    <3> QED
      BY <1>1, <1>6, <2>1, <3>1
  <2>3. Behind(s) /\ s.epoch = e /\ s.frontier # None
    BY <1>1, <1>5, <2>1 DEF Behind, SameRest
  <2>4. q = Recover(s)
    BY <1>4, <1>8
  <2> QED
    BY <1>7, <2>1, <2>2, <2>3, <2>4 DEF q
<1>9. CASE changed
  <2>1. /\ Sane(kept) /\ kept.epoch = e /\ Held(kept) \subseteq {n}
        /\ \/ /\ kept.frontier = None /\ kept.screen = p.screen /\ kept.attempts = 0
           \/ Behind(kept) /\ kept.frontier # None /\ kept.screen.twice = p.screen.twice
    <3>1. n <= n
      BY <1>5
    <3>2. n - 1 # None
      <4>1. n \in Nat \ {0}
        BY Numbers
      <4>2. n - 1 \in Nat
        BY <4>1
      <4> QED
        BY <4>2, Numbers
    <3>3. r.screen.epoch = r.epoch => r.screen.last < n
      BY <1>1
    <3> QED
      BY <1>1, <1>5, <3>1, <3>2, <3>3, KeepFrameSane
  <2> HIDE DEF kept
  <2>2. Behind(kept) /\ kept.screen.twice = p.screen.twice
    BY <1>1, <2>1 DEF Behind
  <2>3. /\ Sane(late) /\ Keeps(kept, late, 0) /\ late.screen = kept.screen
        /\ SameRest(kept, late)
    <3>1. Keeps(kept, kept, 0)
      BY <2>1, KeepsSame DEF Sane, SameFlags
    <3>2. /\ Sane(Anchor(kept)) /\ Keeps(kept, Anchor(kept), 0)
          /\ Anchor(kept).screen = kept.screen /\ SameRest(kept, Anchor(kept))
      BY <2>1, AnchorSane
    <3> QED
      BY <2>1, <3>1, <3>2 DEF SameRest
  <2> HIDE DEF late
  <2>4. /\ Sane(t) /\ Ahead(t) /\ Keeps(late, t, 0) /\ SameRest(late, t)
        /\ late.frontier = None => t = late
        /\ late.frontier # None => t.frontier # None
    BY <2>3, DrainSane
  <2> HIDE DEF t
  <2>5. Behind(t) /\ t.screen.twice = p.screen.twice /\ t.epoch = e
    BY <2>1, <2>2, <2>3, <2>4 DEF Keeps
  <2>6. t.frontier = None => t.screen = p.screen /\ t.attempts = 0
    BY <2>1, <2>3, <2>4 DEF Keeps, SameRest
  <2>7. q = Recover(t)
    BY <1>4, <1>9
  <2> QED
    BY <1>7, <2>4, <2>5, <2>6, <2>7 DEF q
<1> QED
  BY <1>8, <1>9

\* A page that waits for the answer of an attach takes a frame behind its cursor.
LEMMA AcceptServed ==
    ASSUME NEW p, Sane(p), Ahead(p), Rested(p), NEW e \in Epochs, NEW n \in Positions,
           NEW c \in Nat, c < n, NEW needs, Due(p, e, c, needs)
    PROVE  LET q == Accept(p, e, n)
           IN  q.screen.twice = p.screen.twice /\ Due(q, e, c, needs)
<1> DEFINE kept == KeepFrame(p, n, Frame(n))
           t == Drain(kept)
           q == Accept(p, e, n)
<1>1. /\ p \in Pages /\ n \in Nat /\ n <= n /\ e # None
      /\ p.screen.last \in Nat /\ p.frontier \in Nat \cup {None}
  BY Numbers DEF Sane, Pages, Screens
<1>2. CASE ~ (p.epoch = e /\ p.frontier # None)
  <2>1. /\ q.screen.twice = p.screen.twice /\ Behind(q) /\ q.epoch = e
        /\ q.frontier = None => q.screen = p.screen
    <3>1. p.screen.epoch = e => p.screen.last < n
      BY <1>1, <1>2 DEF Due
    <3> QED
      BY <1>2, <3>1, AcceptFirst
  <2> HIDE DEF q
  <2>2. CASE q.frontier # None
    BY <2>1, <2>2 DEF Due, Behind, q
  <2>3. CASE q.frontier = None
    BY <1>2, <2>1, <2>3 DEF Due, q
  <2> QED
    BY <2>2, <2>3
<1>3. CASE p.epoch = e /\ p.frontier # None /\ Behind(p)
  <2>1. Keeps(p, q, n) /\ q.epoch = e
    BY <1>1, <1>3, AcceptSane
  <2> HIDE DEF q
  <2>2. Behind(q) /\ q.screen.twice = p.screen.twice /\ q.frontier # None
    BY <1>3, <2>1 DEF Keeps
  <2> QED
    BY <2>1, <2>2 DEF Due, Behind, q
<1>4. CASE p.epoch = e /\ p.frontier # None /\ ~Behind(p)
  <2>1. p.screen.epoch = e /\ p.frontier < p.screen.last /\ p.screen.last <= c /\ needs
    BY <1>1, <1>4 DEF Due, Behind
  <2>a. p.screen.last < n
    BY <1>1, <2>1
  <2>2. p.frontier + 1 < n /\ ~Passed(p, n) /\ n # p.frontier + 1
    BY <1>1, <1>4, <2>1 DEF Passed
  <2>3. q = Recover(t)
    BY <1>1, <1>4, <2>2 DEF Accept
  <2> HIDE DEF q
  <2>4. /\ Sane(kept) /\ kept.epoch = e /\ kept.frontier # None
        /\ \/ /\ kept.inFlight = p.inFlight /\ kept.attempts = p.attempts
              /\ kept.frontier = p.frontier /\ kept.screen = p.screen
              /\ Held(kept) \subseteq Held(p) \cup {n}
           \/ Behind(kept) /\ kept.screen.twice = p.screen.twice
    <3>1. Sane(kept) /\ kept.epoch = e /\ Keeps(p, kept, n)
          /\ Held(kept) \subseteq Held(p) \cup {n}
      BY <1>1, <1>4, KeepFrameSane
    <3>2. \/ /\ kept.inFlight = p.inFlight /\ kept.attempts = p.attempts
             /\ kept.frontier = p.frontier /\ kept.screen = p.screen
          \/ Behind(kept) /\ kept.screen.twice = p.screen.twice
      BY <1>1, <1>4, <2>a, KeepFrameSane
    <3> QED
      BY <1>4, <3>1, <3>2 DEF Keeps
  <2> HIDE DEF kept
  <2>5. CASE Behind(kept) /\ kept.screen.twice = p.screen.twice
    <3>1. Sane(t) /\ Ahead(t) /\ Keeps(kept, t, 0)
      BY <2>4, DrainSane
    <3> HIDE DEF t
    <3>2. Keeps(t, q, 0)
      BY <2>3, <3>1, RecoverSane
    <3>3. /\ Behind(q) /\ q.screen.twice = p.screen.twice /\ q.epoch = e
          /\ q.frontier # None
      BY <2>4, <2>5, <3>1, <3>2 DEF Keeps
    <3> QED
      BY <3>3 DEF Due, Behind, q
  <2>6. CASE /\ kept.inFlight = p.inFlight /\ kept.attempts = p.attempts
             /\ kept.frontier = p.frontier /\ kept.screen = p.screen
             /\ Held(kept) \subseteq Held(p) \cup {n}
    <3>1. Ahead(kept)
      BY <2>2, <2>6 DEF Ahead
    <3>2. /\ Sane(t) /\ Ahead(t) /\ SameRest(kept, t) /\ Keeps(kept, t, 0)
          /\ t.screen = p.screen /\ t.frontier = p.frontier /\ Held(t) = Held(kept)
      BY <2>4, <2>6, <3>1, DrainSane, DrainRests
    <3> HIDE DEF t
    <3>3. t.inFlight = p.inFlight /\ t.attempts = p.attempts /\ t.epoch = e
      BY <2>4, <2>6, <3>2 DEF SameRest
    <3>4. /\ Keeps(t, q, 0)
          /\ t.inFlight # 0 => q = t
          /\ t.attempts = 0 => q.screen = t.screen
      BY <2>3, <3>2, RecoverSane
    <3>5. q.frontier # None /\ q.epoch = e
      BY <1>4, <3>2, <3>3, <3>4 DEF Keeps
    <3>6. \/ q.screen = p.screen
          \/ Behind(q) /\ q.screen.twice = p.screen.twice
      <4>1. CASE t.inFlight # 0 \/ t.attempts = 0
        BY <3>2, <3>4, <4>1
      <4>2. CASE ~ (t.inFlight # 0 \/ t.attempts = 0)
        <5>1. Held(p) = {}
          BY <3>3, <4>2 DEF Rested
        <5>2. \A m \in Held(t) : t.screen.last < m
          BY <2>a, <2>6, <3>2, <5>1
        <5>3. q.screen.twice = t.screen.twice /\ (q.screen = t.screen \/ Behind(q))
          BY <1>4, <2>3, <3>2, <5>2, RecoverClear
        <5> QED
          BY <3>2, <5>3
      <4> QED
        BY <4>1, <4>2
    <3>7. CASE q.screen = p.screen
      BY <2>1, <3>7 DEF Due, q
    <3>8. CASE Behind(q) /\ q.screen.twice = p.screen.twice
      BY <3>5, <3>8 DEF Due, Behind, q
    <3> QED
      BY <3>6, <3>7, <3>8
  <2> QED
    BY <2>4, <2>5, <2>6
<1> QED
  BY <1>2, <1>3, <1>4

\* The Agent served the attach in progress: its snapshot and the frames of the new
\* subscription are on the wire, or were taken.
Served == phase = "attaching" /\ attach.served

\* What the wire carries behind an attach a that was served, and at any other time.
Owed(a) ==
    {m \in Messages : /\ m.kind = "event" => a.cursor < m.seq
                      /\ m.kind \in Snapshots => a.needs /\ m.seq = a.cursor}
Ordinary == {m \in Messages : m.kind \notin Snapshots}

\* The snapshot goes ahead of everything else; behind it are the frames after the cursor.
Wired ==
    /\ phase = "attaching" => (attach.needs => ~attach.preserve)
    /\ Served => live \in Seq(Owed(attach))
    /\ ~Served => live \in Seq(Ordinary)
    /\ \A i \in 2..Len(live) : live[i].kind \notin Snapshots

\* What leaves the wire leaves it at the front.
LEMMA WiredStep ==
    ASSUME Inv, Wired, phase' = phase, attach' = attach,
           live' = live \/ (live # <<>> /\ live' = Tail(live))
    PROVE  Wired'
<1>1. Served' = Served
  BY DEF Served
<1>2. ASSUME NEW S, live \in Seq(S) PROVE live' \in Seq(S)
  BY <1>2
<1>3. ASSUME NEW i \in 2..Len(live') PROVE live'[i].kind \notin Snapshots
  <2>1. CASE live' = live
    BY <1>3, <2>1 DEF Wired
  <2>2. CASE live # <<>> /\ live' = Tail(live)
    <3>1. live \in Seq(Carried(stream))
      BY DEF Inv, WireInv
    <3>2. Len(live') = Len(live) - 1 /\ i + 1 \in 2..Len(live) /\ live'[i] = live[i + 1]
      BY <1>3, <2>2, <3>1
    <3> QED
      BY <3>2 DEF Wired
  <2> QED
    BY <2>1, <2>2
<1> QED
  BY <1>1, <1>2, <1>3 DEF Wired

LEMMA WiredEmpty ==
    ASSUME Wired, live' = <<>>, ~Served', phase' = "attaching" => FALSE
    PROVE  Wired'
<1>1. live' \in Seq(Ordinary)
  <2>1. \A S : <<>> \in Seq(S)
    OBVIOUS
  <2> QED
    BY <2>1
<1>2. 2..Len(live') = {}
  OBVIOUS
<1> QED
  BY <1>1, <1>2 DEF Wired

\* What the Agent adds to the wire is no snapshot.
LEMMA WiredGrows ==
    ASSUME Inv, Wired, phase' = phase, attach' = attach,
           NEW m, m \in Messages, m.kind \notin Snapshots, live' = Append(live, m),
           Served /\ m.kind = "event" => attach.cursor < m.seq
    PROVE  Wired'
<1>1. Served' = Served
  BY DEF Served
<1>2. ASSUME NEW S, live \in Seq(S), m \in S PROVE live' \in Seq(S)
  BY <1>2
<1>3. Served => m \in Owed(attach)
  BY DEF Owed
<1>4. m \in Ordinary
  BY DEF Ordinary
<1>5. ASSUME NEW i \in 2..Len(live') PROVE live'[i].kind \notin Snapshots
  <2>1. live \in Seq(Carried(stream))
    BY DEF Inv, WireInv
  <2>2. /\ Len(live') = Len(live) + 1 /\ Len(live) \in Nat
        /\ live'[i] = IF i = Len(live) + 1 THEN m ELSE live[i]
    BY <1>5, <2>1
  <2>3. i # Len(live) + 1 => i \in 2..Len(live)
    BY <1>5, <2>2
  <2> QED
    BY <2>2, <2>3 DEF Wired
<1> QED
  BY <1>1, <1>2, <1>3, <1>4, <1>5 DEF Wired

LEMMA InitWired ==
    ASSUME Init
    PROVE  Wired
<1>1. \A S : <<>> \in Seq(S)
  OBVIOUS
<1>2. live = <<>> /\ phase = "idle"
  BY DEF Init
<1>3. 2..Len(live) = {}
  BY <1>2
<1> QED
  BY <1>1, <1>2, <1>3 DEF Wired, Served

\* A frame that is recorded while the page is served is after the cursor.
LEMMA RecordIs ==
    ASSUME Inv, Record
    PROVE  LET n == stream.cursor + 1
               m == [kind |-> "event", epoch |-> stream.epoch, seq |-> n]
           IN  /\ stream'.epoch = stream.epoch /\ stream'.cursor = n
               /\ m \in Messages /\ m.kind = "event" /\ m.seq = n /\ m.kind \notin Snapshots
               /\ live' = IF Subscribed THEN Append(live, m) ELSE live
               /\ Served => attach.cursor < n
               /\ UNCHANGED <<attach, attaches, phase, seeded, adopted, parsing, parsed, page>>
<1> DEFINE n == stream.cursor + 1
           m == [kind |-> "event", epoch |-> stream.epoch, seq |-> n]
<1>1. /\ stream' = [stream EXCEPT !.cursor = n, !.floor = FloorAfter(n)]
      /\ live' = IF Subscribed THEN Append(live, m) ELSE live
      /\ UNCHANGED <<attach, attaches, phase, seeded, adopted, parsing, parsed, page>>
  BY DEF Record, runtimeVars
<1>2. stream \in [epoch : Epochs, cursor : Nat, floor : Nat \ {0}]
  BY DEF Inv, StreamInv
<1>3. stream'.epoch = stream.epoch /\ stream'.cursor = n
  BY <1>1, <1>2
<1>4. m \in Messages /\ m.kind = "event" /\ m.seq = n /\ "event" \notin Snapshots
  BY <1>2 DEF Messages, Snapshots
<1>5. Served => attach.cursor < n
  BY <1>2 DEF Served, Inv, AttachInv, Attaches
<1> QED
  BY <1>1, <1>3, <1>4, <1>5

\* The answer of an attach finds no snapshot on the wire.
LEMMA OrdinaryAtLast ==
    ASSUME Inv, MayAttach
    PROVE  live \in Seq(Ordinary)
<1>1. /\ live \in Seq(Messages)
      /\ \A i \in DOMAIN live : live[i].kind \notin Snapshots
  <2>1. Carried(stream) \subseteq Messages
    BY DEF Carried
  <2> QED
    BY <2>1, WireGrows DEF Inv, WireInv, MayAttach
<1>2. \A i \in 1..Len(live) : live[i] \in Ordinary
  <2> TAKE i \in 1..Len(live)
  <2>1. live[i] \in Messages /\ live[i].kind \notin Snapshots
    BY <1>1
  <2> QED
    BY <2>1 DEF Ordinary
<1> QED
  BY <1>1, <1>2

LEMMA ServeAttachWired ==
    ASSUME Inv, Wired, NEW snapshot, ServeAttach(snapshot)
    PROVE  Wired'
<1> DEFINE m == [kind |-> snapshot, epoch |-> stream.epoch, seq |-> stream.cursor]
<1>1. /\ phase = "attaching" /\ ~attach.served
      /\ snapshot \in (IF attach.needs THEN Obtainable ELSE {}) \cup {"none"}
      /\ attach' = [attach EXCEPT !.served = TRUE, !.epoch = stream.epoch,
                                  !.cursor = stream.cursor]
      /\ live' = IF snapshot = "none" THEN <<>> ELSE <<m>>
      /\ phase' = phase
  BY DEF ServeAttach
<1>2. attach \in Attaches
  BY <1>1 DEF Inv, AttachInv
<1>3. /\ attach'.served /\ attach'.cursor = stream.cursor
      /\ attach'.needs = attach.needs /\ attach'.preserve = attach.preserve
  BY <1>1, <1>2 DEF Attaches
<1>4. Served'
  BY <1>1, <1>3 DEF Served
<1>5. live' \in Seq(Owed(attach'))
  <2> DEFINE O == Owed(attach')
  <2>1. ASSUME snapshot # "none" PROVE m \in O
    <3>1. attach.needs /\ snapshot \in Snapshots
      BY <1>1, <2>1 DEF Obtainable, Snapshots
    <3>2. m \in Messages /\ m.kind = snapshot /\ m.seq = stream.cursor
      BY <3>1, PageNow DEF Messages
    <3>3. snapshot # "event"
      BY <3>1 DEF Snapshots
    <3> HIDE DEF m
    <3> QED
      BY <1>3, <3>1, <3>2, <3>3 DEF Owed
  <2>2. \A S : <<>> \in Seq(S)
    OBVIOUS
  <2>3. \A S : m \in S => <<m>> \in Seq(S)
    OBVIOUS
  <2> HIDE DEF O, m
  <2>4. live' \in Seq(O)
    BY <1>1, <2>1, <2>2, <2>3
  <2> QED
    BY <2>4 DEF O
<1>6. 2..Len(live') = {}
  <2>1. Len(live') \in {0, 1}
    <3>1. Len(<<>>) = 0 /\ \A x : Len(<<x>>) = 1
      OBVIOUS
    <3> HIDE DEF m
    <3> QED
      BY <1>1, <3>1
  <2>2. 2..0 = {} /\ 2..1 = {}
    OBVIOUS
  <2> QED
    BY <2>1, <2>2
<1> QED
  BY <1>1, <1>3, <1>4, <1>5, <1>6 DEF Wired

LEMMA NextWired ==
    ASSUME Inv, Wired, [Next]_vars
    PROVE  Wired'
<1>1. CASE Record
  <2>1. CASE Subscribed
    BY <1>1, <2>1, RecordIs, WiredGrows
  <2>2. CASE ~Subscribed
    BY <1>1, <2>2, RecordIs, WiredStep
  <2> QED
    BY <2>1, <2>2
<1>2. CASE Level
  <2> DEFINE m == [kind |-> "level", epoch |-> stream.epoch, seq |-> 0]
  <2>1. live' = Append(live, m) /\ UNCHANGED <<attach, phase>>
    BY <1>2 DEF Level, runtimeVars
  <2>2. m \in Messages /\ m.kind = "level" /\ "level" \notin Snapshots
    BY PageNow DEF Messages, Snapshots
  <2> HIDE DEF m
  <2> QED
    BY <2>1, <2>2, WiredGrows
<1>3. CASE Evict \/ Parse \/ Expire \/ \E f \in page.asked : Answer(f) \/ Reply(f) \/ Fail(f)
  <2>1. UNCHANGED <<live, attach, phase>>
    BY <1>3 DEF Evict, Parse, Expire, Answer, Reply, Fail, runtimeVars
  <2> QED
    BY <2>1, WiredStep
<1>4. CASE DeliverEvent \/ DeliverLevel \/ DeliverSnapshot
  <2>1. live # <<>> /\ live' = Tail(live) /\ UNCHANGED <<attach, phase>>
    BY <1>4 DEF DeliverEvent, DeliverLevel, DeliverSnapshot, runtimeVars
  <2> QED
    BY <2>1, WiredStep
<1>5. ASSUME NEW snapshot \in Snapshots \cup {"none"}, ServeAttach(snapshot) PROVE Wired'
  BY <1>5, ServeAttachWired
<1>6. CASE StartAttach
  <2>1. /\ phase \in {"idle", "lost"} /\ phase' = "attaching" /\ live' = live
        /\ attach' = [needs |-> NeedsBootstrap, preserve |-> ~NeedsBootstrap /\ seeded,
                      served |-> FALSE, epoch |-> None, cursor |-> 0]
    BY <1>6 DEF StartAttach
  <2>2. ~attach'.served /\ (attach'.needs => ~attach'.preserve)
    BY <2>1
  <2>3. ~Served /\ ~Served'
    BY <2>1, <2>2 DEF Served
  <2> QED
    BY <2>1, <2>2, <2>3 DEF Wired
<1>7. CASE ReceiveAttached
  <2>1. live' = live /\ phase' = "attached" /\ live \in Seq(Ordinary)
    BY <1>7, OrdinaryAtLast DEF ReceiveAttached
  <2>2. ~Served'
    BY <2>1 DEF Served
  <2> QED
    BY <2>1, <2>2 DEF Wired
<1>8. CASE Lose \/ Restart \/ Swap
  <2>1. CASE phase' = "lost" /\ live' = <<>>
    BY <2>1, WiredEmpty DEF Served
  <2>2. CASE UNCHANGED <<live, attach, phase>>
    BY <2>2, WiredStep
  <2> QED
    BY <1>8, <2>1, <2>2 DEF Lose, Restart, Swap, LoseConnection, runtimeVars
<1>9. CASE UNCHANGED vars
  BY <1>9, WiredStep DEF vars
<1> QED
  BY <1>1, <1>2, <1>3, <1>4, <1>5, <1>6, <1>7, <1>8, <1>9 DEF Next

\* Nothing was shown twice, and nothing will be.
Seen ==
    /\ ~page.screen.twice
    /\ IF Served THEN Due(page, stream.epoch, attach.cursor, attach.needs) ELSE Behind(page)

\* Two pages that show the same and hold the same.
Sight(p, q) ==
    /\ q.epoch = p.epoch /\ q.frontier = p.frontier /\ Held(q) = Held(p)
    /\ q.screen.epoch = p.screen.epoch /\ q.screen.last = p.screen.last
    /\ q.screen.twice = p.screen.twice

LEMMA SightKept ==
    ASSUME NEW p, NEW q, Sight(p, q), NEW e, NEW c, NEW needs
    PROVE  /\ Behind(p) => Behind(q)
           /\ Due(p, e, c, needs) => Due(q, e, c, needs)
BY DEF Sight, Behind, Due

LEMMA SeenStep ==
    ASSUME Seen, phase' = phase, attach' = attach, stream'.epoch = stream.epoch,
           Sight(page, page')
    PROVE  Seen'
<1>1. Served' = Served /\ ~page'.screen.twice
  BY DEF Served, Seen, Sight
<1>2. ASSUME Served PROVE Due(page', stream'.epoch, attach'.cursor, attach'.needs)
  BY <1>2, SightKept DEF Seen
<1>3. ASSUME ~Served PROVE Behind(page')
  BY <1>3, SightKept DEF Seen
<1> QED
  BY <1>1, <1>2, <1>3 DEF Seen

\* While no attach is served, operators that keep a page keep it seen.
LEMMA SeenKept ==
    ASSUME Seen, ~Served, ~Served', NEW c, Keeps(page, page', c)
    PROVE  Seen'
<1>1. Behind(page') /\ ~page'.screen.twice
  BY DEF Seen, Keeps
<1> QED
  BY <1>1 DEF Seen

LEMMA InitSeen ==
    ASSUME Init
    PROVE  Seen
<1>1. page = Blank /\ phase = "idle"
  BY DEF Init
<1>2. Behind(Blank) /\ ~Blank.screen.twice
  BY DEF Blank, EmptyScreen, Behind, Held
<1> QED
  BY <1>1, <1>2 DEF Seen, Served

\* The Agent.
LEMMA ServeAttachSeen ==
    ASSUME Inv, Seen, NEW snapshot, ServeAttach(snapshot)
    PROVE  Seen'
<1>1. /\ phase = "attaching" /\ ~attach.served
      /\ attach' = [attach EXCEPT !.served = TRUE, !.epoch = stream.epoch,
                                  !.cursor = stream.cursor]
      /\ UNCHANGED <<stream, phase, page>>
  BY DEF ServeAttach, agentVars
<1>2. attach \in Attaches
  BY <1>1 DEF Inv, AttachInv
<1>3. attach'.served /\ attach'.cursor = stream.cursor /\ attach'.needs = attach.needs
  BY <1>1, <1>2 DEF Attaches
<1>4. Served' /\ ~Served
  BY <1>1, <1>3 DEF Served
<1>5. Due(page, stream.epoch, stream.cursor, attach.needs)
  <2>1. Behind(page) /\ Known(page, stream.epoch, stream.cursor)
    BY <1>4, PageNow DEF Seen
  <2> QED
    BY <2>1 DEF Behind, Known, Due
<1> QED
  BY <1>1, <1>3, <1>4, <1>5 DEF Seen

\* The page.
LEMMA QuietSeen ==
    ASSUME Inv, Seen, (\E f \in page.asked : Answer(f)) \/ DeliverLevel \/ Parse
    PROVE  Seen'
<1>1. page \in Pages /\ Sane(page)
  BY PageNow
<1>2. UNCHANGED <<stream, attach, phase>>
  BY DEF Answer, DeliverLevel, Parse, agentVars, runtimeVars
<1>3. CASE \E f \in page.asked : Answer(f)
  <2>1. PICK f \in page.asked : Answer(f)
    BY <1>3
  <2> DEFINE S == (page.asked \ {f}) \cup {[f EXCEPT !.answer = ReplaySince(f.epoch, f.after)]}
  <2>2. page' = [page EXCEPT !.asked = S]
    BY <2>1 DEF Answer
  <2> HIDE DEF S
  <2>3. Sight(page, page')
    BY <1>1, <2>2 DEF Sight, Pages, Held
  <2> QED
    BY <1>2, <2>2, <2>3, SeenStep
<1>4. CASE DeliverLevel
  <2> DEFINE q == AcceptLevel(page)
  <2>1. page' = q
    BY <1>4 DEF DeliverLevel
  <2>2. /\ Held(q) = Held(page) /\ q.frontier = page.frontier /\ SameRest(page, q)
    BY <1>1, AcceptLevelSane
  <2>3. /\ q.screen.epoch = page.screen.epoch /\ q.screen.last = page.screen.last
        /\ q.screen.twice = page.screen.twice
    BY <1>1, AcceptLevelSane
  <2> HIDE DEF q
  <2>4. Sight(page, page')
    BY <2>1, <2>2, <2>3 DEF Sight, SameRest
  <2> QED
    BY <1>2, <2>4, SeenStep
<1>5. CASE Parse
  <2>1. /\ page' = IF page.repairPending /\ parsing.kind = "capture"
                   THEN [page EXCEPT !.repairPending = FALSE, !.mayHaveGap = FALSE]
                   ELSE page
    BY <1>5 DEF Parse
  <2>2. Sight(page, page')
    BY <1>1, <2>1 DEF Sight, Pages, Held
  <2> QED
    BY <1>2, <2>1, <2>2, SeenStep
<1> QED
  BY <1>3, <1>4, <1>5

LEMMA DeliverEventSeen ==
    ASSUME Inv, Wired, Seen, DeliverEvent
    PROVE  Seen'
<1> DEFINE m == Head(live)
           e == stream.epoch
           q == Accept(page, e, m.seq)
<1>1. /\ live # <<>> /\ m.kind = "event" /\ live' = Tail(live)
      /\ page' = Accept(page, m.epoch, m.seq)
      /\ UNCHANGED <<stream, attach, phase>>
  BY DEF DeliverEvent, agentVars, runtimeVars
<1>2. m \in Carried(stream)
  BY <1>1, OnTheWire DEF Inv, WireInv
<1>3. m.epoch = e /\ m.seq \in Positions /\ m.seq \in Nat /\ m.seq <= stream.cursor
  BY <1>1, <1>2, Numbers DEF Carried
<1>4. Subscribed /\ page' = q
  BY <1>1, <1>3 DEF Inv, WireInv
<1>5. \A S : live \in Seq(S) => m \in S
  BY <1>1
<1>6. Served' = Served
  BY <1>1 DEF Served
<1>7. CASE Served
  <2>1. m \in Owed(attach)
    BY <1>5, <1>7 DEF Wired
  <2>2. attach.cursor < m.seq /\ attach.cursor \in Nat
    BY <1>1, <1>7, <2>1 DEF Owed, Served, Inv, AttachInv, Attaches
  <2> HIDE DEF m
  <2>3. /\ q.screen.twice = page.screen.twice
        /\ Due(q, e, attach.cursor, attach.needs)
    BY <1>3, <1>7, <2>2, PageNow, AcceptServed DEF Seen
  <2> HIDE DEF q
  <2> QED
    BY <1>1, <1>4, <1>6, <1>7, <2>1, <2>3 DEF Seen
<1>8. CASE ~Served
  <2>1. phase = "attached"
    BY <1>4, <1>8 DEF Subscribed, Served
  <2> HIDE DEF m
  <2>2. Keeps(page, q, stream.cursor)
    BY <1>3, <2>1, PageNow, AcceptSane
  <2> HIDE DEF q
  <2> QED
    BY <1>1, <1>4, <1>6, <1>8, <2>1, <2>2, SeenKept
<1> QED
  BY <1>7, <1>8

LEMMA DeliverSnapshotSeen ==
    ASSUME Inv, Wired, Seen, DeliverSnapshot
    PROVE  Seen'
<1> DEFINE m == Head(live)
           w == m.kind \in Replacing
           e == m.epoch
           n == m.seq
<1>1. /\ live # <<>> /\ m.kind \in Snapshots
      /\ page' = [page EXCEPT !.screen.epoch = e, !.screen.last = n, !.screen.whole = w]
      /\ UNCHANGED <<stream, attach, phase>>
  BY DEF DeliverSnapshot, agentVars
<1>2. \A S : live \in Seq(S) => m \in S
  BY <1>1
<1>3. m \in Carried(stream)
  BY <1>1, OnTheWire DEF Inv, WireInv
<1>4. Served
  <2>1. CASE ~Served
    <3>1. m \in Ordinary
      BY <1>2, <2>1 DEF Wired
    <3> QED
      BY <1>1, <3>1 DEF Ordinary
  <2> QED
    BY <2>1
<1>5. m \in Owed(attach)
  BY <1>2, <1>4 DEF Wired
<1>6. n = attach.cursor /\ attach.needs /\ n \in Nat /\ e = stream.epoch
  BY <1>1, <1>3, <1>5 DEF Owed, Messages, Carried
<1>7. page \in Pages
  BY PageNow
<1> HIDE DEF m, w, e, n
<1>8. page'.screen.last = n /\ page'.screen.twice = page.screen.twice
  BY <1>1, <1>7 DEF Pages, Screens
<1>9. Due(page', stream.epoch, attach.cursor, attach.needs)
  BY <1>6, <1>8 DEF Due
<1> QED
  BY <1>1, <1>4, <1>8, <1>9 DEF Seen, Served

\* An answer or a refusal keeps an attached page.
LEMMA RequestKeeps ==
    ASSUME Inv, NEW f \in page.asked, Reply(f) \/ Fail(f)
    PROVE  Keeps(page, page', stream.cursor)
<1>1. phase = "attached"
  BY DEF Reply, Fail
<1>2. CASE Reply(f)
  <2>1. f.answer # None /\ page' = OnReply(Settle(page, f), f)
    BY <1>2 DEF Reply
  <2>2. page.epoch = stream.epoch /\ page.frontier # None /\ page.epoch # None
    BY <1>1, PageNow
  <2>3. f \in Requests /\ f.answer \in Answers /\ f.epoch = page.epoch
    BY <2>1, PageNow DEF Pages, Requests, Sane, Asks
  <2>4. AnswerOK(f, stream)
    BY <2>1 DEF Inv, HeardInv, Heard
  <2> QED
    BY <2>1, <2>2, <2>3, <2>4, PageNow, OnReplySane DEF AnswerOK
<1>3. CASE Fail(f)
  <2>1. page' = OnReplyFailed(Settle(page, f), f)
    BY <1>3 DEF Fail
  <2> QED
    BY <2>1, PageNow, OnReplyFailedSane
<1> QED
  BY <1>2, <1>3

LEMMA RequestSeen ==
    ASSUME Inv, Seen, NEW f \in page.asked, Reply(f) \/ Fail(f)
    PROVE  Seen'
<1>1. /\ phase = "attached" /\ UNCHANGED <<stream, live, attach, phase>>
  BY DEF Reply, Fail, agentVars, runtimeVars
<1>2. ~Served /\ ~Served'
  BY <1>1 DEF Served
<1>3. Keeps(page, page', stream.cursor)
  BY RequestKeeps
<1> QED
  BY <1>2, <1>3, SeenKept

\* The runtime.
LEMMA StartAttachSeen ==
    ASSUME Inv, Seen, StartAttach
    PROVE  Seen'
<1>1. /\ phase \in {"idle", "lost"} /\ phase' = "attaching"
      /\ attach' = [needs |-> NeedsBootstrap, preserve |-> ~NeedsBootstrap /\ seeded,
                    served |-> FALSE, epoch |-> None, cursor |-> 0]
      /\ page' = IF NeedsBootstrap
                 THEN [page EXCEPT !.mayHaveGap = TRUE, !.repairPending = TRUE]
                 ELSE page
  BY DEF StartAttach
<1>2. page \in Pages
  BY PageNow
<1>3. Sight(page, page')
  BY <1>1, <1>2 DEF Sight, Pages, Held
<1>4. ~attach'.served
  BY <1>1
<1>5. ~Served /\ ~Served'
  BY <1>1, <1>4 DEF Served
<1>6. Behind(page') /\ ~page'.screen.twice
  BY <1>3, <1>5, SightKept DEF Seen, Sight
<1> QED
  BY <1>5, <1>6 DEF Seen

LEMMA ReceiveAttachedSeen ==
    ASSUME Inv, Wired, Seen, ReceiveAttached
    PROVE  Seen'
<1> DEFINE e == stream.epoch
           r == Placed(Before, e, attach.cursor, attach.preserve)
           q == Seed(Before, e, attach.cursor, attach.preserve)
<1>1. /\ phase = "attaching" /\ attach.served /\ phase' = "attached"
      /\ attach.cursor \in Nat /\ attach.preserve \in BOOLEAN /\ live' = live
      /\ Sane(Before) /\ Before.epoch = page.epoch /\ Before.frontier = page.frontier
      /\ Before.screen = page.screen
      /\ page' = q
  BY AttachedIs
<1>2. /\ Sane(r) /\ r.epoch = e /\ r.screen = page.screen
      /\ r.frontier = IF page.epoch = e /\ page.frontier # None
                           /\ (attach.preserve \/ attach.cursor <= page.frontier)
                      THEN page.frontier ELSE attach.cursor
  BY <1>1, PageNow, PlacedSane
<1>3. Keeps(r, q, 0)
  BY <1>1, PageNow, SeedSane
<1> HIDE DEF r, q
<1>4. Behind(r)
  <2> SUFFICES ASSUME page.screen.epoch = e PROVE r.frontier # None /\ page.screen.last <= r.frontier
    BY <1>2 DEF Behind
  <2>1. /\ attach.needs => ~attach.preserve
        /\ \/ page.epoch = e /\ page.frontier # None /\ page.screen.last <= page.frontier
           \/ /\ page.screen.last <= attach.cursor
              /\ attach.needs \/ page.epoch # e \/ page.frontier = None
    BY <1>1 DEF Wired, Seen, Served, Due
  <2>2. /\ page.screen.last \in Nat /\ page.frontier \in Nat \cup {None}
        /\ None \notin Nat
    BY PageNow, Numbers DEF Pages, Screens
  <2> QED
    BY <1>1, <1>2, <2>1, <2>2
<1>5. Behind(page') /\ ~page'.screen.twice
  BY <1>1, <1>2, <1>3, <1>4 DEF Keeps, Seen
<1>6. ~Served'
  BY <1>1 DEF Served
<1> QED
  BY <1>5, <1>6 DEF Seen

LEMMA LostSeen ==
    ASSUME Inv, Seen, ~Served, LoseConnection
    PROVE  Seen'
<1>1. phase' = "lost" /\ Keeps(page, page', stream.cursor)
  BY LostPage DEF LoseConnection
<1>2. ~Served'
  BY <1>1 DEF Served
<1> QED
  BY <1>1, <1>2, SeenKept

LEMMA LoseSeen ==
    ASSUME Inv, Seen, InTime, Lose \/ Restart
    PROVE  Seen'
<1>1. MayLose /\ (LoseConnection \/ UNCHANGED <<live, attach, phase, page>>)
  BY DEF Lose, Restart, runtimeVars
<1>2. ~Served
  BY <1>1 DEF MayLose, InTime, Served
<1>3. CASE LoseConnection
  BY <1>2, <1>3, LostSeen
<1>4. CASE UNCHANGED <<live, attach, phase, page>>
  BY <1>2, <1>4 DEF Seen, Served
<1> QED
  BY <1>1, <1>3, <1>4

LEMMA SwapSeen ==
    ASSUME Inv, Seen, Swap
    PROVE  Seen'
<1> DEFINE q == Reset(page, None)
<1>1. phase = "lost" /\ phase' = "lost" /\ page' = q
  BY DEF Swap, agentVars
<1>2. Behind(q) /\ q.screen = page.screen
  BY PageNow, ResetSane
<1> HIDE DEF q
<1> QED
  BY <1>1, <1>2 DEF Seen, Served

LEMMA NextSeen ==
    ASSUME InTime, Inv, Wired, Seen, [Next]_vars
    PROVE  Seen'
<1>1. ASSUME NEW snapshot \in Snapshots \cup {"none"}, ServeAttach(snapshot) PROVE Seen'
  BY <1>1, ServeAttachSeen
<1>2. ASSUME NEW f \in page.asked, Answer(f) \/ Reply(f) \/ Fail(f) PROVE Seen'
  BY <1>2, QuietSeen, RequestSeen
<1>3. CASE Record \/ Level
  <2>1. stream'.epoch = stream.epoch /\ UNCHANGED <<attach, phase, page>>
    BY <1>3, RecordIs DEF Level, agentVars, runtimeVars
  <2> QED
    BY <2>1 DEF Seen, Served
<1>4. CASE Evict
  <2>1. stream' = [stream EXCEPT !.floor = stream.floor + 1]
    BY <1>4 DEF Evict
  <2>2. stream \in [epoch : Epochs, cursor : Nat, floor : Nat \ {0}]
    BY DEF Inv, StreamInv
  <2>3. stream'.epoch = stream.epoch
    BY <2>1, <2>2
  <2>4. UNCHANGED <<attach, phase, page>>
    BY <1>4 DEF Evict, runtimeVars
  <2> QED
    BY <2>3, <2>4 DEF Seen, Served
<1>5. CASE DeliverEvent \/ DeliverLevel \/ DeliverSnapshot
  BY <1>5, DeliverEventSeen, QuietSeen, DeliverSnapshotSeen
<1>6. CASE Parse \/ StartAttach \/ ReceiveAttached
  BY <1>6, QuietSeen, StartAttachSeen, ReceiveAttachedSeen
<1>7. CASE Expire
  BY <1>7 DEF Expire, InTime
<1>8. CASE Lose \/ Restart \/ Swap
  BY <1>8, LoseSeen, SwapSeen
<1>9. CASE UNCHANGED vars
  BY <1>9 DEF vars, Seen, Served
<1> QED
  BY <1>1, <1>2, <1>3, <1>4, <1>5, <1>6, <1>7, <1>8, <1>9 DEF Next

\* While no request misses its deadline and no connection is lost between the snapshot and
\* the answer of an attach, no position is written to the renderer again, and none after a
\* later one: not by an answer that overlaps live frames, a replay after a reconnect, a new
\* epoch or a buffer that was given up (StreamReconciler).
THEOREM ShownOnceAlways ==
    ASSUME InTime
    PROVE  Spec => []ShownOnce
<1>1. Init => Inv /\ Wired /\ Seen
  BY InitInv, InitWired, InitSeen
<1>2. Inv /\ Wired /\ Seen /\ [Next]_vars => Inv' /\ Wired' /\ Seen'
  BY NextInv, NextWired, NextSeen
<1>3. Seen => ShownOnce
  BY DEF Seen, ShownOnce
<1> QED
  BY <1>1, <1>2, <1>3, PTL DEF Spec

-----------------------------------------------------------------------------
(* While no connection is lost before the answer of an attach or while xterm *)
(* parses a snapshot, no transport is swapped under a buffer that is trusted *)
(* and no second frame comes ahead of an answer that settles the epoch, an   *)
(* attached page shows everything or states what it does not.                *)

Calm == Events \cap {"early", "lag", "swap", "burst"} = {}

\* What is shown is relied on: no loss is stated, or the capture that is being parsed
\* is about to take the statement back.
Relied(p, w) ==
    ~p.mayHaveGap \/ (p.repairPending /\ w # None /\ w.kind = "capture")

LEMMA OwnedIsNotRelied ==
    ASSUME NEW p, NEW q, SameFlags(p, q) \/ Owned(q), NEW w
    PROVE  /\ Owned(q) => ~Relied(q, w) /\ q.mayHaveGap
           /\ Relied(q, w) => Relied(p, w) /\ SameFlags(p, q) /\ ~Owned(q)
BY DEF Owned, Relied, SameFlags

\* A snapshot of epoch e up to position c is on the screen, and what the page showed
\* since: it is in step, or will be when the answer of the attach puts it at c.
Ready(p, e, c) ==
    /\ p.screen.whole /\ p.screen.epoch = e
    /\ IF p.epoch = e /\ p.frontier # None /\ c <= p.frontier
       THEN p.screen.last = p.frontier
       ELSE p.screen.last = c

LEMMA RecoverReady ==
    ASSUME NEW p, Sane(p), Ahead(p), NEW e, NEW c, Ready(p, e, c) \/ Owned(p)
    PROVE  LET q == Recover(p)
           IN  Ready(q, e, c) \/ Owned(q)
<1> DEFINE q == Recover(p)
<1>1. Keeps(p, q, 0) /\ (Owned(q) \/ Stays(p, q))
  BY RecoverSane
<1> HIDE DEF q
<1>2. q.epoch = p.epoch /\ (Owned(p) => Owned(q))
  BY <1>1 DEF Keeps, SameFlags, Owned
<1>3. Ready(q, e, c) \/ Owned(q)
  BY <1>1, <1>2 DEF Stays, Ready
<1> QED
  BY <1>3 DEF q

\* A page in step stays so until the frames that come next are shown.
LEMMA DrainReady ==
    ASSUME NEW p, Sane(p), NEW e, NEW c \in Nat, p.epoch = e,
           Owned(p) \/ (Ready(p, e, c) /\ (p.frontier = None \/ c <= p.frontier \/ Ahead(p)))
    PROVE  LET q == Drain(p)
           IN  Ready(q, e, c) \/ Owned(q)
<1> DEFINE q == Drain(p)
<1>1. /\ Keeps(p, q, 0) /\ SameRest(p, q) /\ Sane(q)
      /\ p.frontier = None => q = p
  BY DrainSane
<1>2. Ahead(p) => q.screen = p.screen /\ q.frontier = p.frontier
  BY DrainRests
<1> HIDE DEF q
<1>3. Owned(p) => Owned(q)
  BY <1>1 DEF SameRest, Owned
<1>4. p \in Pages /\ q \in Pages /\ None \notin Nat
  BY <1>1, Numbers DEF Sane
<1>5. ASSUME Ready(p, e, c), p.frontier # None, c <= p.frontier
      PROVE  Ready(q, e, c) \/ Owned(q)
  <2>1. InStep(p)
    BY <1>5 DEF Ready, InStep
  <2>2. (InStep(q) \/ Owned(q)) /\ q.frontier # None /\ p.frontier <= q.frontier /\ q.epoch = e
    BY <1>1, <1>5, <2>1 DEF Keeps
  <2>3. p.frontier \in Nat /\ q.frontier \in Nat
    BY <1>4, <1>5, <2>2 DEF Pages
  <2>4. c <= q.frontier
    BY <1>5, <2>2, <2>3
  <2> QED
    BY <2>2, <2>4 DEF InStep, Ready
<1>6. ASSUME Ready(p, e, c), Ahead(p) PROVE Ready(q, e, c)
  BY <1>1, <1>2, <1>6 DEF SameRest, Ready
<1>7. Ready(q, e, c) \/ Owned(q)
  BY <1>1, <1>3, <1>5, <1>6
<1> QED
  BY <1>7 DEF q

\* A page that shows a snapshot takes a frame behind it; if it does not know what comes
\* next, the first.
LEMMA AcceptReady ==
    ASSUME NEW p, Sane(p), Ahead(p), NEW e \in Epochs, NEW n \in Positions,
           NEW c \in Nat, c < n, Ready(p, e, c), p.frontier = None => n = c + 1
    PROVE  LET q == Accept(p, e, n)
           IN  Ready(q, e, c) \/ Owned(q)
<1> DEFINE q == Accept(p, e, n)
<1>1. /\ p \in Pages /\ n \in Nat /\ n # 0 /\ n <= n /\ e # None
      /\ p.screen.last \in Nat /\ p.frontier \in Nat \cup {None} /\ None \notin Nat
      /\ p.pending \in Boards
  BY Numbers DEF Sane, Pages, Screens
<1>2. CASE p.epoch = e /\ p.frontier # None /\ c <= p.frontier
  <2>1. InStep(p)
    BY <1>2 DEF Ready, InStep
  <2>2. Keeps(p, q, n) /\ q.epoch = e /\ Sane(q)
    BY <1>1, <1>2, AcceptSane
  <2> HIDE DEF q
  <2>3. (InStep(q) \/ Owned(q)) /\ q.frontier # None /\ p.frontier <= q.frontier
    BY <1>2, <2>1, <2>2 DEF Keeps
  <2>4. q.frontier \in Nat
    BY <2>2, <2>3 DEF Sane, Pages
  <2>5. c <= q.frontier
    BY <1>1, <1>2, <2>3, <2>4
  <2>6. Ready(q, e, c) \/ Owned(q)
    BY <2>2, <2>3, <2>5 DEF InStep, Ready
  <2> QED
    BY <2>6 DEF q
<1>3. CASE p.epoch = e /\ p.frontier # None /\ ~ (c <= p.frontier)
  <2> DEFINE kept == KeepFrame(p, n, Frame(n))
             t == Drain(kept)
  <2>1. p.frontier + 1 < n /\ ~Passed(p, n) /\ n # p.frontier + 1
    BY <1>1, <1>3 DEF Passed
  <2>2. q = Recover(t)
    BY <1>1, <1>3, <2>1 DEF Accept
  <2> HIDE DEF q
  <2>3. /\ Sane(kept) /\ kept.epoch = e /\ kept.frontier # None
        /\ Held(kept) \subseteq Held(p) \cup {n}
        /\ Owned(kept) \/ (kept.frontier = p.frontier /\ kept.screen = p.screen)
    <3>1. Sane(kept) /\ kept.epoch = e /\ Keeps(p, kept, n)
          /\ Held(kept) \subseteq Held(p) \cup {n}
      BY <1>1, <1>3, KeepFrameSane
    <3>2. Owned(kept) \/ (kept.frontier = p.frontier /\ kept.screen = p.screen)
      BY <1>1, <1>3, KeepFrameSane
    <3> QED
      BY <1>3, <3>1, <3>2 DEF Keeps
  <2> HIDE DEF kept
  <2>4. Owned(kept) \/ (Ready(kept, e, c) /\ Ahead(kept))
    BY <1>1, <1>3, <2>1, <2>3 DEF Ready, Ahead
  <2>5. Ready(t, e, c) \/ Owned(t)
    BY <2>3, <2>4, DrainReady
  <2>6. Sane(t) /\ Ahead(t)
    BY <2>3, DrainSane
  <2> HIDE DEF t
  <2>7. Ready(q, e, c) \/ Owned(q)
    BY <2>2, <2>5, <2>6, RecoverReady
  <2> QED
    BY <2>7 DEF q
<1>4. CASE ~ (p.epoch = e /\ p.frontier # None)
  <2> DEFINE anchors == p.epoch = None \/ p.frontier = None
             changed == p.epoch # None /\ e # p.epoch
             r == Reset(p, e)
             kept == KeepFrame(r, n, Frame(n))
             late == IF anchors THEN Anchor(kept) ELSE kept
             t == Drain(late)
             s == Shown(r, n)
  <2>1. /\ Sane(r) /\ Ahead(r) /\ r.epoch = e /\ r.frontier = None /\ Held(r) = {}
        /\ r.screen = p.screen /\ r.pending = <<>>
    BY ResetSane
  <2>2. anchors \/ changed
    BY <1>4, Numbers DEF Sane
  <2>3. ~Passed(r, n)
    BY <2>1 DEF Passed
  <2>4. q = IF ~changed THEN Recover(s) ELSE Recover(t)
    BY <2>1, <2>2, <2>3 DEF Accept, Shown
  <2>a. anchors => n = c + 1
    BY DEF Sane
  <2>b. p.screen.whole /\ p.screen.epoch = e /\ p.screen.last = c
    BY <1>4 DEF Ready
  <2>c. r \in Pages
    BY <2>1 DEF Sane
  <2> HIDE DEF r, q, anchors, changed
  <2>5. CASE ~changed
    <3>1. /\ Sane(s) /\ Ahead(s) /\ s.frontier = n /\ SameRest(r, s)
      BY <1>1, <2>1, NextSane
    <3>2. /\ s.screen = ShowOne(r, n)
      BY <2>c DEF Shown, Pages
    <3> HIDE DEF s
    <3>3. s.screen.whole /\ s.screen.epoch = e /\ s.screen.last = n
      <4>1. /\ s.screen.epoch = r.epoch /\ s.screen.last = n
            /\ s.screen.whole = (r.screen.whole /\ r.screen.epoch = r.epoch
                                   /\ n = r.screen.last + 1)
        BY <2>c, <3>2, ShowOneIs
      <4>2. n = r.screen.last + 1
        BY <2>1, <2>2, <2>5, <2>a, <2>b
      <4> QED
        BY <2>1, <2>b, <4>1, <4>2
    <3>4. Ready(s, e, c)
      BY <1>1, <2>1, <3>1, <3>3 DEF Ready, SameRest
    <3>5. Ready(q, e, c) \/ Owned(q)
      BY <2>4, <2>5, <3>1, <3>4, RecoverReady
    <3> QED
      BY <3>5 DEF q
  <2>6. CASE changed
    <3>1. /\ Sane(kept) /\ kept.epoch = e /\ Held(kept) \subseteq {n}
          /\ \/ Owned(kept)
             \/ kept.frontier = None /\ kept.screen = p.screen /\ Held(kept) = {n}
      <4>1. Sane(kept) /\ kept.epoch = e /\ Held(kept) \subseteq Held(r) \cup {n}
        BY <1>1, <2>1, KeepFrameSane
      <4>2. \/ Owned(kept)
            \/ /\ kept.frontier = r.frontier /\ kept.screen = r.screen
               /\ (Passed(r, n) \/ n \in Held(kept))
        BY <1>1, <2>1, KeepFrameSane
      <4> QED
        BY <2>1, <2>3, <4>1, <4>2
    <3> HIDE DEF kept
    <3>2. /\ Sane(late) /\ late.epoch = e
          /\ Owned(late) \/ (Ready(late, e, c) /\ (late.frontier = None \/ c <= late.frontier))
      <4>1. CASE ~anchors
        BY <2>b, <3>1, <4>1 DEF Ready
      <4>2. CASE anchors
        <5> DEFINE k == Anchor(kept)
        <5>1. /\ Sane(k) /\ SameRest(kept, k) /\ k.screen = kept.screen
              /\ kept.frontier = None /\ Held(kept) # {} => k.frontier = Lowest(kept) - 1
          BY <3>1, AnchorSane
        <5> HIDE DEF k
        <5>2. ASSUME kept.frontier = None, kept.screen = p.screen, Held(kept) = {n}
              PROVE  Ready(k, e, c) /\ c <= k.frontier
          <6>1. Lowest(kept) = n
            BY <3>1, <5>2, LowestIs DEF Sane
          <6>2. k.frontier = c
            BY <1>1, <2>a, <4>2, <5>1, <5>2, <6>1
          <6> QED
            BY <1>1, <2>b, <5>1, <5>2, <6>2 DEF Ready
        <5>3. Owned(kept) => Owned(k)
          BY <5>1 DEF SameRest, Owned
        <5>4. late = k
          BY <4>2 DEF k
        <5> QED
          BY <3>1, <5>1, <5>2, <5>3, <5>4 DEF SameRest
      <4> QED
        BY <4>1, <4>2
    <3> HIDE DEF late
    <3>3. Ready(t, e, c) \/ Owned(t)
      BY <3>2, DrainReady
    <3>4. Sane(t) /\ Ahead(t)
      BY <3>2, DrainSane
    <3> HIDE DEF t
    <3>5. Ready(q, e, c) \/ Owned(q)
      BY <2>4, <2>6, <3>3, <3>4, RecoverReady
    <3> QED
      BY <3>5 DEF q
  <2> QED
    BY <2>5, <2>6
<1> QED
  BY <1>2, <1>3, <1>4

\* A snapshot is on the wire.
Coming == \E i \in DOMAIN live : live[i].kind \in Snapshots

\* Nothing behind position c was taken from wire w of a stream at position d: the first
\* frame is the one after c.
Untaken(w, d, c) ==
    /\ (\A i \in DOMAIN w : w[i].kind # "event") => d = c
    /\ \A i \in DOMAIN w :
          w[i].kind = "event" /\ (\A j \in 1..(i - 1) : w[j].kind # "event")
              => w[i].seq = c + 1

\* The page and the runtime while an attach is on its way.
OnItsWay ==
    /\ Coming => /\ parsing = None /\ page.mayHaveGap
                 /\ Known(page, stream.epoch, attach.cursor)
    /\ parsing # None => attach.needs /\ parsing.epoch = stream.epoch
    /\ page.frontier = None /\ Held(page) = {} => Untaken(live, stream.cursor, attach.cursor)
    /\ ~page.mayHaveGap => parsed
    /\ Relied(page, parsing) =>
          IF attach.needs THEN Ready(page, stream.epoch, attach.cursor)
          ELSE /\ seeded
               /\ \/ adopted = page.epoch /\ InStep(page)
                  \/ adopted \notin {None, stream.epoch}

\* Between attaches a page that is relied on is in step, and its epoch is the one the
\* runtime would miss if the next attach answered with another.
AtRest ==
    /\ parsing = None
    /\ Relied(page, None) => InStep(page) /\ adopted = page.epoch /\ seeded /\ parsed

\* What is relied on is in step, or will be with the answer of the attach.
Honest ==
    /\ page.repairPending => page.mayHaveGap
    /\ phase = "idle" => page.epoch = None /\ page.screen.epoch = None /\ parsing = None
    /\ phase = "attaching" /\ ~attach.needs => attach.preserve
    /\ phase = "lost" => AtRest
    /\ phase = "attaching" /\ ~attach.served =>
          AtRest /\ (Relied(page, None) => ~attach.needs)
    /\ Served => OnItsWay
    /\ phase = "attached" =>
          /\ adopted = stream.epoch /\ seeded
          /\ parsing # None => parsing.epoch = stream.epoch
          /\ ~page.mayHaveGap => parsed
          /\ Relied(page, parsing) => InStep(page)

\* A step of the Agent, of the wire or of the page that starts no attach and ends none.
LEMMA HonestStep ==
    ASSUME Inv, Honest, phase' = phase, attach' = attach, stream'.epoch = stream.epoch,
           UNCHANGED <<seeded, adopted, parsing, parsed>>,
           SameFlags(page, page') \/ Owned(page'),
           phase = "idle" => page'.epoch = None /\ page'.screen.epoch = None,
           ~Served => page'.epoch = page.epoch /\ (InStep(page) => InStep(page') \/ Owned(page')),
           Served /\ Coming' =>
              Coming /\ (Known(page, stream.epoch, attach.cursor)
                            => Known(page', stream.epoch, attach.cursor)),
           Served /\ page'.frontier = None /\ Held(page') = {} =>
              Untaken(live', stream'.cursor, attach.cursor),
           Served /\ Ready(page, stream.epoch, attach.cursor) =>
              Ready(page', stream.epoch, attach.cursor) \/ Owned(page'),
           Served /\ adopted = page.epoch /\ InStep(page) =>
              \/ Owned(page')
              \/ page'.epoch = page.epoch /\ InStep(page')
              \/ adopted \notin {None, stream.epoch}
    PROVE  Honest'
<1>1. Served' = Served
  BY DEF Served
<1>2. ASSUME NEW w, Relied(page', w) PROVE Relied(page, w) /\ ~Owned(page')
  BY <1>2, OwnedIsNotRelied
<1>3. /\ page.mayHaveGap => page'.mayHaveGap
      /\ page'.repairPending => page'.mayHaveGap
  BY DEF SameFlags, Owned, Honest
<1>4. ASSUME phase = "lost" \/ (phase = "attaching" /\ ~attach.served)
      PROVE  AtRest'
  <2>1. AtRest /\ ~Served
    BY <1>4 DEF Honest, Served
  <2> QED
    BY <1>2, <2>1 DEF AtRest
<1>5. ASSUME Served PROVE OnItsWay'
  <2>1. OnItsWay
    BY <1>5 DEF Honest
  <2>2. Coming' => /\ parsing' = None /\ page'.mayHaveGap
                   /\ Known(page', stream'.epoch, attach'.cursor)
    BY <1>3, <1>5, <2>1 DEF OnItsWay
  <2>3. parsing' # None => attach'.needs /\ parsing'.epoch = stream'.epoch
    BY <2>1 DEF OnItsWay
  <2>4. ~page'.mayHaveGap => parsed'
    BY <1>3, <2>1 DEF OnItsWay
  <2>5. Relied(page', parsing') =>
          IF attach'.needs THEN Ready(page', stream'.epoch, attach'.cursor)
          ELSE /\ seeded'
               /\ \/ adopted' = page'.epoch /\ InStep(page')
                  \/ adopted' \notin {None, stream'.epoch}
    BY <1>2, <1>5, <2>1 DEF OnItsWay
  <2>6. page'.frontier = None /\ Held(page') = {} =>
          Untaken(live', stream'.cursor, attach'.cursor)
    BY <1>5
  <2> QED
    BY <2>2, <2>3, <2>4, <2>5, <2>6 DEF OnItsWay
<1>6. ASSUME phase = "attached"
      PROVE  /\ adopted' = stream'.epoch /\ seeded'
             /\ parsing' # None => parsing'.epoch = stream'.epoch
             /\ ~page'.mayHaveGap => parsed'
             /\ Relied(page', parsing') => InStep(page')
  <2>1. ~Served
    BY <1>6 DEF Served
  <2> QED
    BY <1>2, <1>3, <1>6, <2>1 DEF Honest
<1>7. phase = "idle" => parsing' = None
  BY DEF Honest
<1>8. phase' = "attaching" /\ ~attach'.needs => attach'.preserve
  BY DEF Honest
<1>9. ASSUME phase = "attaching", ~attach.served PROVE Relied(page', None) => ~attach.needs
  BY <1>2, <1>9 DEF Honest
<1> QED
  BY <1>1, <1>3, <1>4, <1>5, <1>6, <1>7, <1>8, <1>9 DEF Honest

LEMMA UntakenFirst ==
    ASSUME NEW S, NEW w \in Seq(S), w # <<>>, NEW d, NEW c, Untaken(w, d, c),
           Head(w).kind = "event"
    PROVE  Head(w).seq = c + 1
<1>1. 1 \in DOMAIN w /\ Head(w) = w[1] /\ 1..(1 - 1) = {}
  OBVIOUS
<1> QED
  BY <1>1 DEF Untaken

LEMMA UntakenTail ==
    ASSUME NEW S, NEW w \in Seq(S), w # <<>>, NEW d, NEW c, Untaken(w, d, c),
           Head(w).kind # "event"
    PROVE  Untaken(Tail(w), d, c)
<1> DEFINE v == Tail(w)
<1>1. /\ Len(v) = Len(w) - 1 /\ Len(w) \in Nat /\ DOMAIN v = 1..Len(v) /\ DOMAIN w = 1..Len(w)
      /\ \A i \in 1..Len(v) : v[i] = w[i + 1]
      /\ w[1] = Head(w)
  OBVIOUS
<1> HIDE DEF v
<1>2. ASSUME \A i \in DOMAIN v : v[i].kind # "event" PROVE d = c
  <2>1. ASSUME NEW i \in DOMAIN w PROVE w[i].kind # "event"
    <3>1. i = 1 \/ (i - 1 \in DOMAIN v /\ v[i - 1] = w[i])
      BY <1>1, <2>1
    <3> QED
      BY <1>1, <1>2, <3>1
  <2> QED
    BY <2>1 DEF Untaken
<1>3. ASSUME NEW i \in DOMAIN v, v[i].kind = "event", \A j \in 1..(i - 1) : v[j].kind # "event"
      PROVE  v[i].seq = c + 1
  <2>1. i + 1 \in DOMAIN w /\ w[i + 1] = v[i] /\ i \in Nat
    BY <1>1, <1>3
  <2>2. ASSUME NEW j \in 1..((i + 1) - 1) PROVE w[j].kind # "event"
    <3>1. j = 1 \/ (j - 1 \in 1..(i - 1) /\ v[j - 1] = w[j])
      BY <1>1, <1>3, <2>2
    <3> QED
      BY <1>1, <1>3, <3>1
  <2> QED
    BY <1>3, <2>1, <2>2 DEF Untaken
<1> QED
  BY <1>2, <1>3 DEF Untaken, v

LEMMA UntakenGrows ==
    ASSUME NEW S, NEW w \in Seq(S), NEW d, NEW c, NEW m, Untaken(w, d, c),
           m.kind = "event" => m.seq = d + 1
    PROVE  Untaken(Append(w, m), IF m.kind = "event" THEN d + 1 ELSE d, c)
<1> DEFINE v == Append(w, m)
<1>1. /\ Len(w) \in Nat /\ DOMAIN v = 1..(Len(w) + 1) /\ DOMAIN w = 1..Len(w)
      /\ v[Len(w) + 1] = m /\ \A i \in 1..Len(w) : v[i] = w[i]
  OBVIOUS
<1> HIDE DEF v
<1>2. ASSUME \A i \in DOMAIN v : v[i].kind # "event" PROVE m.kind # "event" /\ d = c
  <2>1. \A i \in DOMAIN w : w[i].kind # "event"
    BY <1>1, <1>2
  <2> QED
    BY <1>1, <1>2, <2>1 DEF Untaken
<1>3. ASSUME NEW i \in DOMAIN v, v[i].kind = "event", \A j \in 1..(i - 1) : v[j].kind # "event"
      PROVE  v[i].seq = c + 1
  <2>1. CASE i \in 1..Len(w)
    <3>1. \A j \in 1..(i - 1) : w[j].kind # "event"
      BY <1>1, <1>3, <2>1
    <3> QED
      BY <1>1, <1>3, <2>1, <3>1 DEF Untaken
  <2>2. CASE i = Len(w) + 1
    <3>1. \A j \in DOMAIN w : w[j].kind # "event"
      BY <1>1, <1>3, <2>2
    <3> QED
      BY <1>1, <1>3, <2>2, <3>1 DEF Untaken
  <2> QED
    BY <1>1, <1>3, <2>1, <2>2
<1> QED
  BY <1>2, <1>3 DEF Untaken, v

\* When the front of the wire is taken, no snapshot is left.
LEMMA NoneComing ==
    ASSUME Inv, Wired, live # <<>>, live' = Tail(live)
    PROVE  ~Coming'
<1>1. live \in Seq(Carried(stream))
  BY DEF Inv, WireInv
<1>2. ASSUME NEW i \in DOMAIN live' PROVE live'[i].kind \notin Snapshots
  <2>1. i + 1 \in 2..Len(live) /\ live'[i] = live[i + 1]
    BY <1>1, <1>2
  <2> QED
    BY <2>1 DEF Wired
<1> QED
  BY <1>2 DEF Coming

LEMMA ComingGrows ==
    ASSUME Inv, NEW m, m.kind \notin Snapshots, live' = Append(live, m)
    PROVE  Coming' => Coming
<1>1. live \in Seq(Carried(stream))
  BY DEF Inv, WireInv
<1>2. ASSUME NEW i \in DOMAIN live', live'[i].kind \in Snapshots
      PROVE  i \in DOMAIN live /\ live[i].kind \in Snapshots
  <2>1. /\ i \in 1..(Len(live) + 1) /\ Len(live) \in Nat /\ DOMAIN live = 1..Len(live)
        /\ live'[i] = IF i = Len(live) + 1 THEN m ELSE live[i]
    BY <1>1, <1>2
  <2> QED
    BY <1>2, <2>1
<1> QED
  BY <1>2 DEF Coming

\* Two pages that rely on the same.
View(p, q) ==
    /\ SameFlags(p, q) /\ q.frontier = p.frontier
    /\ q.screen.epoch = p.screen.epoch /\ q.screen.last = p.screen.last
    /\ q.screen.whole = p.screen.whole

\* The page stays as it is, or states a loss.
LEMMA HonestStill ==
    ASSUME Inv, Honest, phase' = phase, attach' = attach, stream'.epoch = stream.epoch,
           UNCHANGED <<seeded, adopted, parsing, parsed>>,
           Owned(page') \/ View(page, page'), page'.epoch = page.epoch,
           page'.screen.epoch \in {page.epoch, page.screen.epoch},
           \A c \in Nat : Known(page, stream.epoch, c) => Known(page', stream.epoch, c),
           Coming' => Coming,
           page'.frontier = None /\ Held(page') = {} => page.frontier = None /\ Held(page) = {},
           Served /\ Untaken(live, stream.cursor, attach.cursor)
              => Untaken(live', stream'.cursor, attach.cursor)
    PROVE  Honest'
<1>1. SameFlags(page, page') \/ Owned(page')
  BY DEF View
<1>2. phase = "idle" => page'.epoch = None /\ page'.screen.epoch = None
  BY DEF Honest
<1>3. InStep(page) => InStep(page') \/ Owned(page')
  BY DEF View, InStep
<1>4. Served => attach.cursor \in Nat
  BY DEF Served, Inv, AttachInv, Attaches
<1>5. Ready(page, stream.epoch, attach.cursor) =>
         Ready(page', stream.epoch, attach.cursor) \/ Owned(page')
  BY DEF View, Ready
<1>6. Served => OnItsWay
  BY DEF Honest
<1>7. Served /\ page'.frontier = None /\ Held(page') = {} =>
         Untaken(live', stream'.cursor, attach.cursor)
  BY <1>6 DEF OnItsWay
<1> QED
  BY <1>1, <1>2, <1>3, <1>4, <1>5, <1>7, HonestStep

LEMMA HonestSight ==
    ASSUME Inv, Honest, phase' = phase, attach' = attach, stream'.epoch = stream.epoch,
           UNCHANGED <<seeded, adopted, parsing, parsed>>,
           View(page, page'), page'.epoch = page.epoch, Held(page') = Held(page),
           Coming' => Coming,
           Served /\ Untaken(live, stream.cursor, attach.cursor)
              => Untaken(live', stream'.cursor, attach.cursor)
    PROVE  Honest'
<1>1. \A c \in Nat : Known(page, stream.epoch, c) => Known(page', stream.epoch, c)
  BY DEF Known, Within, View
<1> QED
  BY <1>1, HonestStill DEF View

\* A frame that was taken is shown or held.
LEMMA AcceptTakes ==
    ASSUME NEW p, Sane(p), Ahead(p), NEW e \in Epochs, NEW n \in Positions
    PROVE  LET q == Accept(p, e, n)
           IN  q.frontier # None \/ Held(q) # {}
<1> DEFINE q == Accept(p, e, n)
<1>1. n \in Nat /\ n # None /\ n <= n /\ n - 1 \in Nat /\ None \notin Nat
  <2>1. n \in Nat \ {0}
    BY Numbers
  <2> QED
    BY <2>1, Numbers
<1>2. CASE p.epoch = e /\ p.frontier # None
  <2>1. Keeps(p, q, n)
    BY <1>1, <1>2, AcceptSane
  <2> QED
    BY <1>2, <2>1 DEF Keeps
<1>3. CASE ~ (p.epoch = e /\ p.frontier # None)
  <2> DEFINE anchors == p.epoch = None \/ p.frontier = None
             changed == p.epoch # None /\ e # p.epoch
             r == Reset(p, e)
             kept == KeepFrame(r, n, Frame(n))
             late == IF anchors THEN Anchor(kept) ELSE kept
             t == Drain(late)
             s == Shown(r, n)
  <2>1. /\ Sane(r) /\ Ahead(r) /\ r.epoch = e /\ r.frontier = None /\ Held(r) = {}
        /\ r.pending = <<>> /\ r.attempts = 0 /\ e # None
    BY ResetSane, Numbers
  <2>2. anchors \/ changed
    BY <1>3, Numbers DEF Sane
  <2>3. ~Passed(r, n)
    BY <2>1 DEF Passed
  <2>4. q = IF ~changed THEN Recover(s) ELSE Recover(t)
    BY <2>1, <2>2, <2>3 DEF Accept, Shown
  <2> HIDE DEF r, q, anchors, changed
  <2>5. CASE ~changed
    <3>1. Sane(s) /\ Ahead(s) /\ s.frontier = n
      BY <1>1, <2>1, NextSane
    <3> HIDE DEF s
    <3>2. Keeps(s, q, 0)
      BY <2>4, <2>5, <3>1, RecoverSane
    <3> QED
      BY <1>1, <3>1, <3>2 DEF Keeps, q
  <2>6. CASE changed
    <3>1. kept.frontier # None \/ (n \in Held(kept) /\ kept.attempts = 0)
      BY <1>1, <2>1, <2>3, KeepFrameSane
    <3>2. Sane(kept)
      BY <1>1, <2>1, KeepFrameSane
    <3> HIDE DEF kept
    <3>3. /\ Sane(late) /\ Held(late) = Held(kept) /\ late.attempts = kept.attempts
          /\ kept.frontier # None => late.frontier # None
      BY <3>2, AnchorSane DEF SameRest, Held
    <3> HIDE DEF late
    <3>4. /\ late.frontier = None => t = late
          /\ late.frontier # None => t.frontier # None
      BY <3>3, DrainSane
    <3>5. Sane(t) /\ Ahead(t)
      BY <3>3, DrainSane
    <3> HIDE DEF t
    <3>6. /\ Keeps(t, q, 0)
          /\ t.attempts = 0 => q.pending = t.pending
      BY <2>4, <2>6, <3>5, RecoverSane
    <3> QED
      BY <3>1, <3>3, <3>4, <3>6 DEF Keeps, Held, q
  <2> QED
    BY <2>5, <2>6
<1> QED
  BY <1>2, <1>3

LEMMA InitHonest ==
    ASSUME Init
    PROVE  Honest
<1>1. page = Blank /\ phase = "idle" /\ parsing = None
  BY DEF Init
<1> QED
  BY <1>1 DEF Blank, EmptyScreen, Honest, Served

\* The Agent.
LEMMA RecordHonest ==
    ASSUME Inv, Honest, Record
    PROVE  Honest'
<1> DEFINE n == stream.cursor + 1
           m == [kind |-> "event", epoch |-> stream.epoch, seq |-> n]
<1>1. /\ stream'.epoch = stream.epoch /\ stream'.cursor = n
      /\ m.kind = "event" /\ m.seq = n /\ m.kind \notin Snapshots
      /\ live' = IF Subscribed THEN Append(live, m) ELSE live
      /\ UNCHANGED <<attach, attaches, phase, seeded, adopted, parsing, parsed, page>>
  BY RecordIs
<1> HIDE DEF m
<1>2. Coming' => Coming
  BY <1>1, ComingGrows DEF Coming
<1>3. ASSUME Served, Untaken(live, stream.cursor, attach.cursor)
      PROVE  Untaken(live', stream'.cursor, attach.cursor)
  <2>1. live' = Append(live, m) /\ live \in Seq(Carried(stream))
    BY <1>1, <1>3 DEF Served, Subscribed, Inv, WireInv
  <2> QED
    BY <1>1, <1>3, <2>1, UntakenGrows
<1>4. View(page, page') /\ Held(page') = Held(page)
  BY <1>1 DEF View, SameFlags
<1> QED
  BY <1>1, <1>2, <1>3, <1>4, HonestSight

LEMMA LevelHonest ==
    ASSUME Inv, Honest, Level
    PROVE  Honest'
<1> DEFINE m == [kind |-> "level", epoch |-> stream.epoch, seq |-> 0]
<1>1. /\ live' = Append(live, m) /\ m.kind = "level"
      /\ UNCHANGED <<stream, attach, attaches, phase, seeded, adopted, parsing, parsed, page>>
  BY DEF Level, agentVars, runtimeVars
<1> HIDE DEF m
<1>2. Coming' => Coming
  BY <1>1, ComingGrows DEF Snapshots
<1>3. ASSUME Untaken(live, stream.cursor, attach.cursor)
      PROVE  Untaken(live', stream'.cursor, attach.cursor)
  <2>1. live \in Seq(Carried(stream))
    BY DEF Inv, WireInv
  <2> QED
    BY <1>1, <1>3, <2>1, UntakenGrows
<1>4. View(page, page') /\ Held(page') = Held(page)
  BY <1>1 DEF View, SameFlags
<1> QED
  BY <1>1, <1>2, <1>3, <1>4, HonestSight

LEMMA EvictHonest ==
    ASSUME Inv, Honest, Evict
    PROVE  Honest'
<1>1. /\ stream' = [stream EXCEPT !.floor = stream.floor + 1]
      /\ UNCHANGED <<live, attach, attaches, phase, seeded, adopted, parsing, parsed, page>>
  BY DEF Evict, runtimeVars
<1>2. stream \in [epoch : Epochs, cursor : Nat, floor : Nat \ {0}]
  BY DEF Inv, StreamInv
<1>3. stream'.epoch = stream.epoch /\ stream'.cursor = stream.cursor
  BY <1>1, <1>2
<1>4. View(page, page') /\ Held(page') = Held(page) /\ (Coming' => Coming)
  BY <1>1 DEF View, SameFlags, Coming
<1> QED
  BY <1>1, <1>3, <1>4, HonestSight

LEMMA AnswerHonest ==
    ASSUME Inv, Honest, NEW f \in page.asked, Answer(f)
    PROVE  Honest'
<1> DEFINE S == (page.asked \ {f}) \cup {[f EXCEPT !.answer = ReplaySince(f.epoch, f.after)]}
<1>1. /\ page' = [page EXCEPT !.asked = S]
      /\ UNCHANGED <<stream, live, attach, attaches, phase, seeded, adopted, parsing, parsed>>
  BY DEF Answer, agentVars, runtimeVars
<1>2. page \in Pages
  BY PageNow
<1> HIDE DEF S
<1>3. View(page, page') /\ page'.epoch = page.epoch /\ Held(page') = Held(page)
  BY <1>1, <1>2 DEF Pages, View, SameFlags, Held
<1>4. Coming' => Coming
  BY <1>1 DEF Coming
<1> QED
  BY <1>1, <1>3, <1>4, HonestSight

\* The page.
LEMMA DeliverLevelHonest ==
    ASSUME Inv, Wired, Honest, DeliverLevel
    PROVE  Honest'
<1> DEFINE q == AcceptLevel(page)
<1>1. /\ live # <<>> /\ Head(live).kind = "level" /\ live' = Tail(live) /\ page' = q
      /\ UNCHANGED <<stream, attach, attaches, phase, seeded, adopted, parsing, parsed>>
  BY DEF DeliverLevel, agentVars, runtimeVars
<1>2. /\ SameRest(page, q) /\ Held(q) = Held(page) /\ q.frontier = page.frontier
      /\ q.screen.epoch = page.screen.epoch /\ q.screen.last = page.screen.last
      /\ q.screen.whole = page.screen.whole
  BY PageNow, AcceptLevelSane
<1> HIDE DEF q
<1>3. View(page, page') /\ page'.epoch = page.epoch /\ Held(page') = Held(page)
  BY <1>1, <1>2 DEF View, SameFlags, SameRest
<1>4. Coming' => Coming
  BY <1>1, NoneComing
<1>5. Untaken(live, stream.cursor, attach.cursor)
         => Untaken(live', stream'.cursor, attach.cursor)
  <2>1. live \in Seq(Carried(stream))
    BY DEF Inv, WireInv
  <2> QED
    BY <1>1, <2>1, UntakenTail
<1> QED
  BY <1>1, <1>3, <1>4, <1>5, HonestSight

LEMMA ExpireHonest ==
    ASSUME Inv, Honest, Expire
    PROVE  Honest'
<1> DEFINE q == Abandon([page EXCEPT !.inFlight = 0])
<1>1. /\ page' = q
      /\ UNCHANGED <<stream, live, attach, attaches, phase, seeded, adopted, parsing, parsed>>
  BY DEF Expire, agentVars, runtimeVars
<1>2. /\ Owned(q) \/ Stays(page, q)
      /\ q.frontier = None => Held(page) = {}
      /\ \A c \in Nat : Keeps(page, q, c)
  BY PageNow, ExpiredSane
<1>3. Sane(q)
  BY PageNow, ExpiredSane
<1> HIDE DEF q
<1>4. q.epoch = page.epoch /\ q.screen.epoch \in {page.epoch, page.screen.epoch}
      /\ (q.frontier = None => page.frontier = None)
  BY <1>2 DEF Keeps
<1>5. \A c \in Nat : Known(page, stream.epoch, c) => Known(q, stream.epoch, c)
  BY <1>2, <1>3, PageNow, KnownKept DEF Sane
<1>6. Owned(q) \/ View(page, q)
  BY <1>2 DEF Stays, View
<1>7. Coming' => Coming
  BY <1>1 DEF Coming
<1> QED
  BY <1>1, <1>2, <1>4, <1>5, <1>6, <1>7, HonestStill

LEMMA RequestHonest ==
    ASSUME Inv, Honest, NEW f \in page.asked, Reply(f) \/ Fail(f)
    PROVE  Honest'
<1>1. /\ phase = "attached"
      /\ UNCHANGED <<stream, live, attach, attaches, phase, seeded, adopted, parsing, parsed>>
  BY DEF Reply, Fail, agentVars, runtimeVars
<1>2. Keeps(page, page', stream.cursor) /\ ~Served
  BY <1>1, RequestKeeps DEF Served
<1> QED
  BY <1>1, <1>2, HonestStep DEF Keeps

LEMMA DeliverEventHonest ==
    ASSUME Inv, Wired, Calm, Honest, DeliverEvent
    PROVE  Honest'
<1> DEFINE m == Head(live)
           e == stream.epoch
           c == attach.cursor
           q == Accept(page, e, m.seq)
<1>1. /\ live # <<>> /\ m.kind = "event" /\ live' = Tail(live)
      /\ page.frontier = None => page.pending = <<>>
      /\ page' = Accept(page, m.epoch, m.seq)
      /\ UNCHANGED <<stream, attach, attaches, phase, seeded, adopted, parsing, parsed>>
  BY DEF DeliverEvent, agentVars, runtimeVars, Calm
<1>2. m \in Carried(stream) /\ live \in Seq(Carried(stream))
  BY <1>1, OnTheWire DEF Inv, WireInv
<1>3. m.epoch = e /\ m.seq \in Positions /\ m.seq \in Nat /\ m.seq <= stream.cursor
  BY <1>1, <1>2, Numbers DEF Carried
<1>4. Subscribed /\ page' = q
  BY <1>1, <1>3 DEF Inv, WireInv
<1>5. ~Coming'
  BY <1>1, NoneComing
<1>6. /\ Sane(q) /\ q.epoch = e
      /\ SameFlags(page, q) \/ Owned(q)
      /\ page.epoch = e /\ page.frontier # None => Keeps(page, q, stream.cursor)
  BY <1>3, PageNow, AcceptSane
<1>7. CASE ~Served
  <2>1. phase = "attached" /\ page.epoch = e /\ page.frontier # None
    BY <1>4, <1>7, PageNow DEF Subscribed, Served
  <2> HIDE DEF m, q
  <2> QED
    BY <1>1, <1>4, <1>6, <1>7, <2>1, HonestStep DEF Keeps
<1>8. CASE Served
  <2>1. m \in Owed(attach)
    BY <1>1, <1>8 DEF Wired
  <2>2. phase = "attaching" /\ c < m.seq /\ c \in Nat
    BY <1>1, <1>8, <2>1 DEF Owed, Served, Inv, AttachInv, Attaches
  <2>3. OnItsWay
    BY <1>8 DEF Honest
  <2>4. page.frontier = None => m.seq = c + 1
    <3>1. ASSUME page.frontier = None PROVE Untaken(live, stream.cursor, c)
      <4>1. Held(page) = {}
        BY <1>1, <3>1 DEF Held
      <4> QED
        BY <2>3, <3>1, <4>1 DEF OnItsWay
    <3> QED
      BY <1>1, <1>2, <3>1, UntakenFirst
  <2> HIDE DEF m
  <2>5. Ready(page, e, c) => Ready(q, e, c) \/ Owned(q)
    BY <1>3, <2>2, <2>4, PageNow, AcceptReady
  <2>6. q.frontier # None \/ Held(q) # {}
    BY <1>3, PageNow, AcceptTakes
  <2>7. adopted = page.epoch /\ InStep(page) =>
           \/ Owned(q)
           \/ q.epoch = page.epoch /\ InStep(q)
           \/ adopted \notin {None, e}
    <3>1. CASE page.epoch = e
      BY <1>6, <3>1 DEF Keeps, InStep
    <3>2. CASE page.epoch # e
      BY <3>2, PageNow DEF InStep, Sane
    <3> QED
      BY <3>1, <3>2
  <2> HIDE DEF q
  <2> QED
    BY <1>1, <1>4, <1>5, <1>6, <1>8, <2>2, <2>5, <2>6, <2>7, HonestStep
<1> QED
  BY <1>7, <1>8

LEMMA DeliverSnapshotHonest ==
    ASSUME Inv, Wired, Honest, DeliverSnapshot
    PROVE  Honest'
<1> DEFINE m == Head(live)
           w == m.kind \in Replacing
           e == m.epoch
           n == m.seq
<1>1. /\ live # <<>> /\ m.kind \in Snapshots /\ live' = Tail(live)
      /\ page' = [page EXCEPT !.screen.epoch = e, !.screen.last = n, !.screen.whole = w]
      /\ parsing' = [epoch |-> e, kind |-> m.kind]
      /\ UNCHANGED <<stream, attach, phase, seeded, adopted, parsed>>
  BY DEF DeliverSnapshot, agentVars
<1>2. (\A S : live \in Seq(S) => m \in S) /\ 1 \in DOMAIN live /\ m = live[1]
  BY <1>1, OnTheWire DEF Inv, WireInv
<1>3. m \in Carried(stream) /\ live \in Seq(Carried(stream))
  BY <1>1, OnTheWire DEF Inv, WireInv
<1>4. Served
  <2>1. CASE ~Served
    <3>1. m \in Ordinary
      BY <1>2, <2>1 DEF Wired
    <3> QED
      BY <1>1, <3>1 DEF Ordinary
  <2> QED
    BY <2>1
<1>5. m \in Owed(attach)
  BY <1>2, <1>4 DEF Wired
<1>6. n = attach.cursor /\ attach.needs /\ n \in Nat /\ e = stream.epoch
  BY <1>1, <1>3, <1>5 DEF Owed, Messages, Carried
<1>7. m.kind # "event" /\ (m.kind = "capture" => w = TRUE) /\ w \in BOOLEAN
  BY <1>1 DEF Snapshots, Replacing
<1>8. page.mayHaveGap /\ Known(page, stream.epoch, attach.cursor)
  <2>1. Coming
    BY <1>1, <1>2 DEF Coming
  <2> QED
    BY <1>4, <2>1 DEF Honest, OnItsWay
<1>9. ~Coming'
  BY <1>1, NoneComing
<1>10. Untaken(live, stream.cursor, attach.cursor)
         => Untaken(live', stream.cursor, attach.cursor)
  BY <1>1, <1>3, <1>7, UntakenTail
<1>11. page \in Pages
  BY PageNow
<1> DEFINE kind == m.kind
<1>12. parsing' # None => parsing'.kind = kind /\ parsing'.epoch = e
  BY <1>1
<1>13. kind = "capture" => w = TRUE
  BY <1>7
<1> HIDE DEF m, w, e, n, kind
<1>14. /\ page'.epoch = page.epoch /\ page'.frontier = page.frontier /\ Held(page') = Held(page)
       /\ SameFlags(page, page')
  BY <1>1, <1>11 DEF Pages, Held, SameFlags
<1>15. page'.screen.epoch = e /\ page'.screen.last = n /\ page'.screen.whole = w
  BY <1>1, <1>11 DEF Pages, Screens
<1>16. ASSUME Relied(page', parsing') PROVE Ready(page', stream.epoch, attach.cursor)
  <2>1. w = TRUE
    BY <1>8, <1>12, <1>13, <1>14, <1>16 DEF Relied, SameFlags
  <2>2. page.epoch = stream.epoch /\ page.frontier # None => page.frontier <= n
    BY <1>6, <1>8 DEF Known, Within
  <2>3. page.frontier \in Nat \cup {None}
    BY <1>11 DEF Pages
  <2>4. page.epoch = stream.epoch /\ page.frontier # None /\ n <= page.frontier => page.frontier = n
    BY <1>6, <2>2, <2>3
  <2> QED
    BY <1>6, <1>14, <1>15, <2>1, <2>4 DEF Ready
<1>17. OnItsWay
  BY <1>4 DEF Honest
<1>18. OnItsWay'
  BY <1>1, <1>6, <1>8, <1>9, <1>10, <1>12, <1>14, <1>16, <1>17 DEF OnItsWay, SameFlags
<1>19. phase' = "attaching" /\ attach'.served /\ attach'.needs
  BY <1>1, <1>4, <1>6 DEF Served
<1>20. page'.repairPending => page'.mayHaveGap
  BY <1>14 DEF Honest, SameFlags
<1> QED
  BY <1>18, <1>19, <1>20 DEF Honest

LEMMA ParseHonest ==
    ASSUME Inv, Honest, Parse
    PROVE  Honest'
<1> DEFINE repairs == page.repairPending /\ parsing.kind = "capture"
<1>1. /\ parsing # None /\ parsing' = None /\ parsed' = TRUE
      /\ adopted' \in {adopted, parsing.epoch}
      /\ page' = IF repairs
                 THEN [page EXCEPT !.repairPending = FALSE, !.mayHaveGap = FALSE]
                 ELSE page
      /\ UNCHANGED <<stream, live, attach, phase, seeded>>
  BY DEF Parse, agentVars
<1>2. page \in Pages
  BY PageNow
<1>3. /\ page'.epoch = page.epoch /\ page'.frontier = page.frontier
      /\ page'.screen = page.screen /\ Held(page') = Held(page)
      /\ IF repairs THEN ~page'.mayHaveGap /\ ~page'.repairPending ELSE SameFlags(page, page')
  BY <1>1, <1>2 DEF Pages, Held, SameFlags
<1>4. Relied(page', parsing') => Relied(page, parsing)
  BY <1>1, <1>3 DEF Relied, SameFlags
<1>5. page'.repairPending => page'.mayHaveGap
  BY <1>3 DEF Honest, SameFlags
<1> HIDE DEF repairs
<1>6. Served \/ phase = "attached"
  BY <1>1 DEF Inv, AttachInv, Honest, AtRest, Served
<1>7. CASE Served
  <2>1. OnItsWay /\ Served'
    BY <1>1, <1>7 DEF Honest, Served
  <2>2. ~Coming'
    BY <1>1, <2>1 DEF OnItsWay, Coming
  <2>3. attach.needs
    BY <1>1, <2>1 DEF OnItsWay
  <2>4. Relied(page', parsing') => Ready(page', stream.epoch, attach.cursor)
    BY <1>3, <1>4, <2>1, <2>3 DEF OnItsWay, Ready
  <2>5. OnItsWay'
    BY <1>1, <1>3, <2>1, <2>2, <2>3, <2>4 DEF OnItsWay
  <2> QED
    BY <1>1, <1>5, <2>1, <2>3, <2>5 DEF Honest, Served
<1>8. CASE phase = "attached"
  <2>1. adopted' = stream.epoch /\ seeded
    BY <1>1, <1>8 DEF Honest
  <2>2. Relied(page', parsing') => InStep(page')
    BY <1>3, <1>4, <1>8 DEF Honest, InStep
  <2> QED
    BY <1>1, <1>5, <1>8, <2>1, <2>2 DEF Honest, Served
<1> QED
  BY <1>6, <1>7, <1>8

\* The runtime.
LEMMA ServeAttachHonest ==
    ASSUME Inv, Honest, NEW snapshot, ServeAttach(snapshot)
    PROVE  Honest'
<1> DEFINE m == [kind |-> snapshot, epoch |-> stream.epoch, seq |-> stream.cursor]
<1>1. /\ phase = "attaching" /\ ~attach.served
      /\ snapshot \in (IF attach.needs THEN Obtainable ELSE {}) \cup {"none"}
      /\ attach' = [attach EXCEPT !.served = TRUE, !.epoch = stream.epoch,
                                  !.cursor = stream.cursor]
      /\ live' = IF snapshot = "none" THEN <<>> ELSE <<m>>
      /\ UNCHANGED <<stream, phase, seeded, adopted, parsing, parsed, page>>
  BY DEF ServeAttach, agentVars
<1>2. attach \in Attaches
  BY <1>1 DEF Inv, AttachInv
<1>3. /\ attach'.served /\ attach'.cursor = stream.cursor
      /\ attach'.needs = attach.needs /\ attach'.preserve = attach.preserve
  BY <1>1, <1>2 DEF Attaches
<1>4. AtRest /\ (Relied(page, None) => ~attach.needs) /\ (page.repairPending => page.mayHaveGap)
      /\ (~attach.needs => attach.preserve)
  BY <1>1 DEF Honest
<1>5. /\ Coming' => attach.needs
      /\ Untaken(live', stream.cursor, stream.cursor)
  <2>1. CASE snapshot = "none"
    <3>1. live' = <<>> /\ DOMAIN live' = {}
      BY <1>1, <2>1
    <3> QED
      BY <3>1 DEF Coming, Untaken
  <2>2. CASE snapshot # "none"
    <3>1. attach.needs /\ snapshot # "event"
      BY <1>1, <2>2 DEF Obtainable
    <3>2. m.kind = snapshot
      OBVIOUS
    <3> HIDE DEF m
    <3>3. live' = <<m>>
      BY <1>1, <2>2
    <3>4. \A i \in DOMAIN live' : live'[i] = m
      BY <3>3
    <3> QED
      BY <3>1, <3>2, <3>4 DEF Untaken
  <2> QED
    BY <2>1, <2>2
<1> HIDE DEF m
<1>6. Known(page, stream.epoch, stream.cursor)
  BY PageNow
<1>7. ~page.mayHaveGap => Relied(page, None)
  BY DEF Relied
<1>8. /\ Coming' => page.mayHaveGap
      /\ ~page.mayHaveGap => parsed
      /\ Relied(page, None) => ~attach.needs /\ seeded /\ adopted = page.epoch /\ InStep(page)
  BY <1>4, <1>5, <1>7 DEF AtRest
<1>9. parsing = None
  BY <1>4 DEF AtRest
<1>10. OnItsWay'
  BY <1>1, <1>3, <1>5, <1>6, <1>8, <1>9 DEF OnItsWay
<1> QED
  BY <1>1, <1>3, <1>4, <1>10 DEF Honest

LEMMA StartAttachHonest ==
    ASSUME Inv, Honest, StartAttach
    PROVE  Honest'
<1> DEFINE needs == NeedsBootstrap
           v == ~needs /\ seeded
<1>1. /\ phase \in {"idle", "lost"} /\ phase' = "attaching"
      /\ attach' = [needs |-> needs, preserve |-> v, served |-> FALSE, epoch |-> None,
                    cursor |-> 0]
      /\ page' = IF needs
                 THEN [page EXCEPT !.mayHaveGap = TRUE, !.repairPending = TRUE]
                 ELSE page
      /\ UNCHANGED <<stream, live, seeded, adopted, parsing, parsed>>
  BY DEF StartAttach, agentVars
<1>2. page \in Pages /\ needs \in BOOLEAN /\ v \in BOOLEAN
  BY PageNow DEF Pages, NeedsBootstrap
<1>3. ~needs => /\ phase = "lost" /\ ~page.mayHaveGap
  BY <1>1 DEF NeedsBootstrap, Honest
<1>4. ~needs => /\ InStep(page) /\ adopted = page.epoch /\ seeded /\ parsed
  BY <1>3 DEF Honest, AtRest, Relied
<1>5. ~needs => v
  BY <1>4
<1>6. parsing = None
  BY <1>1 DEF Honest, AtRest
<1> HIDE DEF needs, v
<1>7. attach'.needs = needs /\ attach'.preserve = v /\ ~attach'.served
  BY <1>1
<1>8. needs => page'.mayHaveGap /\ page'.repairPending
  BY <1>1, <1>2 DEF Pages
<1>9. needs => ~Relied(page', None)
  BY <1>8 DEF Relied
<1>10. ~needs => page' = page
  BY <1>1
<1>11. AtRest'
  BY <1>1, <1>4, <1>6, <1>9, <1>10 DEF AtRest
<1>12. page'.repairPending => page'.mayHaveGap
  BY <1>8, <1>10 DEF Honest
<1> QED
  BY <1>1, <1>5, <1>7, <1>9, <1>11, <1>12 DEF Honest, Served

LEMMA ReceiveAttachedHonest ==
    ASSUME Inv, Wired, Honest, ReceiveAttached
    PROVE  Honest'
<1> DEFINE e == stream.epoch
           c == attach.cursor
           r == Placed(Before, e, c, attach.preserve)
           q == Seed(Before, e, c, attach.preserve)
<1>1. /\ phase = "attaching" /\ attach.served /\ phase' = "attached"
      /\ c \in Nat /\ attach.preserve \in BOOLEAN
      /\ seeded' = TRUE /\ UNCHANGED <<stream, live, parsing, parsed>> /\ adopted' = e
      /\ Sane(Before) /\ Before.epoch = page.epoch /\ Before.frontier = page.frontier
      /\ Before.screen = page.screen /\ Before.repairPending = page.repairPending
      /\ Before.mayHaveGap = (page.mayHaveGap \/ adopted \notin {None, e})
      /\ page' = q
  BY AttachedIs
<1>2. /\ Sane(r) /\ r.epoch = e /\ r.screen = page.screen
      /\ r.frontier = IF page.epoch = e /\ page.frontier # None
                           /\ (attach.preserve \/ c <= page.frontier)
                      THEN page.frontier ELSE c
      /\ IF attach.preserve /\ page.epoch # None /\ page.epoch # e
         THEN Owned(r) ELSE SameFlags(Before, r)
  BY <1>1, PageNow, PlacedSane
<1>3. Keeps(r, q, 0)
  BY <1>1, PageNow, SeedSane
<1> HIDE DEF r, q
<1>4. Served /\ OnItsWay
  BY <1>1 DEF Honest, Served
<1>5. /\ SameFlags(r, q) \/ Owned(q)
      /\ InStep(r) => InStep(q) \/ Owned(q)
  BY <1>3 DEF Keeps
<1>6. /\ page'.repairPending => page'.mayHaveGap
      /\ ~page'.mayHaveGap => ~page.mayHaveGap
  BY <1>1, <1>2, <1>5 DEF Honest, SameFlags, Owned
<1>7. ASSUME Relied(q, parsing)
      PROVE  Relied(Before, parsing) /\ Relied(page, parsing) /\ ~Owned(q)
  <2>1. Relied(r, parsing) /\ ~Owned(q)
    BY <1>5, <1>7, OwnedIsNotRelied
  <2>2. Relied(Before, parsing)
    BY <1>2, <2>1, OwnedIsNotRelied
  <2> QED
    BY <1>1, <2>1, <2>2 DEF Relied
<1>8. ASSUME Relied(q, parsing), attach.needs PROVE InStep(r)
  <2>1. Ready(page, e, c) /\ ~attach.preserve
    BY <1>1, <1>4, <1>7, <1>8 DEF OnItsWay, Wired
  <2> QED
    BY <1>1, <1>2, <2>1, Numbers DEF Ready, InStep
<1>9. ASSUME Relied(q, parsing), ~attach.needs PROVE InStep(r)
  <2>1. attach.preserve /\ parsing = None
    BY <1>1, <1>4, <1>9 DEF Honest, OnItsWay
  <2>2. adopted \in {None, e}
    BY <1>1, <1>7, <1>9, <2>1 DEF Relied
  <2>3. adopted = page.epoch /\ InStep(page)
    BY <1>4, <1>7, <1>9, <2>2 DEF OnItsWay
  <2>4. page.epoch = e /\ page.frontier # None
    BY <2>2, <2>3, PageNow DEF InStep, Sane
  <2> QED
    BY <1>2, <2>1, <2>3, <2>4 DEF InStep
<1>10. Relied(page', parsing') => InStep(page')
  BY <1>1, <1>5, <1>7, <1>8, <1>9
<1>11. ~page'.mayHaveGap => parsed'
  BY <1>1, <1>4, <1>6 DEF OnItsWay
<1>12. parsing' # None => parsing'.epoch = stream'.epoch
  BY <1>1, <1>4 DEF OnItsWay
<1>13. adopted' = stream'.epoch /\ seeded'
  BY <1>1
<1> QED
  BY <1>1, <1>6, <1>10, <1>11, <1>12, <1>13 DEF Honest, Served

LEMMA LostHonest ==
    ASSUME Inv, Calm, Honest, MayLose, phase \in {"attaching", "attached"}, LoseConnection
    PROVE  Honest'
<1>1. /\ phase' = "lost" /\ page' = Rejected(page)
      /\ UNCHANGED <<seeded, adopted, parsing, parsed>>
  BY DEF LoseConnection
<1>2. Keeps(page, page', stream.cursor)
  BY <1>1, LostPage
<1>3. ~Served /\ parsing = None
  BY DEF MayLose, Calm, Served
<1>4. Relied(page, None) => InStep(page) /\ adopted = page.epoch /\ seeded /\ parsed
  <2>1. CASE phase = "attached"
    BY <1>3, <2>1, PageNow DEF Honest, Relied
  <2>2. CASE phase = "attaching"
    BY <1>3, <2>2 DEF Honest, AtRest, Served
  <2> QED
    BY <2>1, <2>2
<1>5. Relied(page', None) => Relied(page, None) /\ ~Owned(page')
  BY <1>2, OwnedIsNotRelied DEF Keeps
<1>6. AtRest'
  BY <1>1, <1>2, <1>3, <1>4, <1>5 DEF AtRest, Keeps
<1>7. page'.repairPending => page'.mayHaveGap
  BY <1>2 DEF Keeps, SameFlags, Owned, Honest
<1> QED
  BY <1>1, <1>6, <1>7 DEF Honest, Served

LEMMA LoseHonest ==
    ASSUME Inv, Calm, Honest, Lose \/ Restart
    PROVE  Honest'
<1>1. CASE Lose
  BY <1>1, LostHonest DEF Lose
<1>2. CASE Restart /\ phase \notin {"idle", "lost"}
  BY <1>2, LostHonest DEF Restart, Inv, AttachInv
<1>3. CASE Restart /\ phase \in {"idle", "lost"}
  <2>1. UNCHANGED <<attach, phase, seeded, adopted, parsing, parsed, page>>
    BY <1>3 DEF Restart, runtimeVars
  <2> QED
    BY <1>3, <2>1 DEF Honest, AtRest, Served
<1> QED
  BY <1>1, <1>2, <1>3

LEMMA SwapHonest ==
    ASSUME Inv, Calm, Honest, Swap
    PROVE  Honest'
<1> DEFINE q == Reset(page, None)
<1>1. /\ phase = "lost" /\ phase' = "lost" /\ page' = q /\ parsing' = None
      /\ NeedsBootstrap
  BY DEF Swap, Calm
<1>2. SameFlags(page, q)
  BY PageNow, ResetSane
<1> HIDE DEF q
<1>3. ~Relied(page, None)
  <2>1. SUFFICES ASSUME Relied(page, None) PROVE FALSE
    OBVIOUS
  <2>2. InStep(page) /\ parsed /\ ~page.mayHaveGap
    BY <1>1, <2>1 DEF Honest, AtRest, Relied
  <2>3. page.screen.epoch # None
    BY <2>2, PageNow DEF InStep, Sane
  <2> QED
    BY <1>1, <2>2, <2>3 DEF NeedsBootstrap
<1>4. AtRest'
  BY <1>1, <1>2, <1>3 DEF AtRest, Relied, SameFlags
<1>5. page'.repairPending => page'.mayHaveGap
  BY <1>1, <1>2 DEF Honest, SameFlags
<1> QED
  BY <1>1, <1>4, <1>5 DEF Honest, Served

LEMMA NextHonest ==
    ASSUME Calm, Inv, Wired, Honest, [Next]_vars
    PROVE  Honest'
<1>1. ASSUME NEW snapshot \in Snapshots \cup {"none"}, ServeAttach(snapshot) PROVE Honest'
  BY <1>1, ServeAttachHonest
<1>2. ASSUME NEW f \in page.asked, Answer(f) \/ Reply(f) \/ Fail(f) PROVE Honest'
  BY <1>2, AnswerHonest, RequestHonest
<1>3. CASE Record \/ Evict \/ Level
  BY <1>3, RecordHonest, EvictHonest, LevelHonest
<1>4. CASE DeliverEvent \/ DeliverLevel \/ DeliverSnapshot
  BY <1>4, DeliverEventHonest, DeliverLevelHonest, DeliverSnapshotHonest
<1>5. CASE Parse \/ Expire \/ StartAttach \/ ReceiveAttached
  BY <1>5, ParseHonest, ExpireHonest, StartAttachHonest, ReceiveAttachedHonest
<1>6. CASE Lose \/ Restart \/ Swap
  BY <1>6, LoseHonest, SwapHonest
<1>7. CASE UNCHANGED vars
  <2>1. View(page, page') /\ Held(page') = Held(page) /\ (Coming' => Coming)
    BY <1>7 DEF vars, View, SameFlags, Coming
  <2> QED
    BY <1>7, <2>1, HonestSight DEF vars
<1> QED
  BY <1>1, <1>2, <1>3, <1>4, <1>5, <1>6, <1>7 DEF Next

\* While no connection is lost between the snapshot and the answer of an attach or before
\* xterm has parsed the snapshot, no transport is built anew under a buffer that is taken
\* for whole, and no second frame comes ahead of the answer a new epoch waits for: an
\* attached page shows everything since its snapshot or states that it may not
\* (SessionRuntime's mayHaveGap).
THEOREM BufferHonestAlways ==
    ASSUME Calm
    PROVE  Spec => []BufferHonest
<1>1. Init => Inv /\ Wired /\ Honest
  BY InitInv, InitWired, InitHonest
<1>2. Inv /\ Wired /\ Honest /\ [Next]_vars => Inv' /\ Wired' /\ Honest'
  BY NextInv, NextWired, NextHonest
<1>3. Honest => BufferHonest
  BY DEF Honest, Relied, InStep, BufferHonest
<1> QED
  BY <1>1, <1>2, <1>3, PTL DEF Spec
=============================================================================
