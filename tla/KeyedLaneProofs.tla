--------------------------- MODULE KeyedLaneProofs ---------------------------
(***************************************************************************)
(* What holds of KeyedLane for every number of connections, resources and  *)
(* frames, every depth and every bound, whatever fails.                    *)
(***************************************************************************)
EXTENDS KeyedLane, FiniteSetTheorems, SequenceTheorems, TLAPS

In(k) == ToSet(pending[k])

\* A mutation is in the hand of its reader until it is queued.
Hand == {"slot", "look", "full", "parked"}

\* From its look at the lane on it holds its slot.
Waits == {"look", "full", "parked"}

Readers == [Conns -> [at : Stages, work : Works \cup {NoWork}]]
Workers == [Works -> [at : {"absent", "pop", "signal", "run"}, next : Works \cup {NoWork}]]

\* b has the worker of its resource: one that found nothing more is none.
Active(b) ==
    worker[b].at \in {"pop", "run"} \/ (worker[b].at = "signal" /\ worker[b].next # NoWork)

\* Types, and what the step of an actor says of the mutation it carries.
Shape ==
    /\ reader \in Readers
    /\ read \in [Conns -> 0..MaxFrames]
    /\ heard \in [Conns -> BOOLEAN] /\ ended \in [Conns -> BOOLEAN]
    /\ flag \in [Keys -> BOOLEAN]
    /\ worker \in Workers
    /\ pending \in [Keys -> Seq(Works)] /\ holding \subseteq Works
    /\ \A c \in Conns : reader[c].at \in Hand \cup {"spawn"} =>
          /\ reader[c].work \in Works
          /\ reader[c].work.conn = c /\ reader[c].work.n = read[c]
    /\ \A b \in Works :
          /\ worker[b].at \in {"absent", "pop"} => worker[b].next = NoWork
          /\ worker[b].at = "run" => worker[b].next # NoWork

\* What a connection dispatched holds its slot until it was run.  A mutation
\* is numbered below the one its reader has in hand, and is in one place.
Before(w) ==
    /\ w.n <= read[w.conn]
    /\ reader[w.conn].at \in Hand => w.n < read[w.conn]

HandHolds == \A c \in Conns : reader[c].at \in Waits => reader[c].work \in holding

QueueHolds ==
    \A k \in Keys : \A w \in In(k) : w \in Works /\ w.key = k /\ w \in holding /\ Before(w)

CarriedHolds ==
    \A b \in Works : worker[b].next # NoWork =>
        LET w == worker[b].next
        IN  w.key = b.key /\ w \in holding /\ w \notin In(b.key) /\ Before(w)

SpawnedBefore ==
    \A b \in Works : worker[b].at # "absent" =>
        Before(b) /\ (reader[b.conn].at = "spawn" => b.n < read[b.conn])

Distinct == \A k \in Keys : IsInjective(pending[k])

Accounted == HandHolds /\ QueueHolds /\ CarriedHolds /\ SpawnedBefore /\ Distinct

\* The flag of a resource stands for one worker, or for one reader about to
\* spawn it.
Single ==
    /\ \A b \in Works : Active(b) => flag[b.key]
    /\ \A a, b \in Works : Active(a) /\ Active(b) /\ a.key = b.key => a = b
    /\ \A c \in Conns : At(c, "spawn") =>
          /\ flag[reader[c].work.key]
          /\ \A b \in Works : b.key = reader[c].work.key => ~Active(b)
          /\ \A d \in Conns : At(d, "spawn") /\ reader[d].work.key = reader[c].work.key => d = c

\* Once the barrier let a reader pass, nothing of its connection is left.
Behind ==
    \A c \in Conns : At(c, "ordered") =>
        /\ \A k \in Keys : \A w \in In(k) : w.conn # c
        /\ \A b \in Works : worker[b].next # NoWork => worker[b].next.conn # c

\* The inductive invariant.
IInv == Shape /\ Accounted /\ Single /\ Behind
-----------------------------------------------------------------------------
(* Queues.                                                                 *)

\* A mutation that is in no queue is queued at the end of one.
LEMMA Appended ==
    ASSUME NEW S, NEW s \in Seq(S), NEW e \in S, IsInjective(s), e \notin ToSet(s)
    PROVE  /\ Append(s, e) \in Seq(S)
           /\ ToSet(Append(s, e)) = ToSet(s) \cup {e}
           /\ IsInjective(Append(s, e))
  BY DEF ToSet, IsInjective

\* The head of a queue is in it once.
LEMMA Popped ==
    ASSUME NEW S, NEW s \in Seq(S), s # <<>>, IsInjective(s)
    PROVE  /\ Tail(s) \in Seq(S) /\ Head(s) \in S
           /\ ToSet(s) = ToSet(Tail(s)) \cup {Head(s)}
           /\ Head(s) \notin ToSet(Tail(s))
           /\ IsInjective(Tail(s))
<1>1. /\ Tail(s) \in Seq(S) /\ Head(s) \in S /\ Head(s) = s[1] /\ Len(s) \in Nat \ {0}
      /\ DOMAIN s = 1..Len(s) /\ DOMAIN Tail(s) = 1..Len(s) - 1
      /\ \A i \in 1..Len(s) - 1 : Tail(s)[i] = s[i + 1]
  OBVIOUS
<1>2. \A i \in 1..Len(s) : i = 1 \/ (i - 1 \in 1..Len(s) - 1 /\ Tail(s)[i - 1] = s[i])
  BY <1>1
<1>4. \A i \in 1..Len(s) - 1 : i + 1 \in 1..Len(s) /\ i + 1 # 1
  BY <1>1
<1>3. ToSet(s) = ToSet(Tail(s)) \cup {Head(s)}
  <2>1. ASSUME NEW x \in ToSet(s) PROVE x \in ToSet(Tail(s)) \cup {Head(s)}
    <3>1. PICK i \in 1..Len(s) : x = s[i]
      BY <1>1 DEF ToSet
    <3> QED
      BY <1>1, <1>2, <3>1 DEF ToSet
  <2>2. ToSet(Tail(s)) \subseteq ToSet(s) /\ Head(s) \in ToSet(s)
    BY <1>1, <1>4 DEF ToSet
  <2> QED
    BY <2>1, <2>2
<1>5. Head(s) \notin ToSet(Tail(s))
  BY <1>1, <1>4 DEF ToSet, IsInjective
<1>6. IsInjective(Tail(s))
  BY <1>1, <1>4 DEF IsInjective
<1> QED
  BY <1>1, <1>3, <1>5, <1>6

\* Nothing is queued at first.
LEMMA EmptyQueue ==
    /\ ToSet(<<>>) = {} /\ IsInjective(<<>>)
  BY DEF ToSet, IsInjective
-----------------------------------------------------------------------------
\* The lane starts empty, and every reader idle.
LEMMA InitInv == Init => IInv
<1> SUFFICES ASSUME Init PROVE IInv
  OBVIOUS
<1> USE LaneAssumption DEF Init, Idle, Absent
<1>1. Shape
  BY DEF Shape, Readers, Workers, Stages, Hand
<1>2. \A k \in Keys : In(k) = {} /\ IsInjective(pending[k])
  BY EmptyQueue DEF In
<1>3. Accounted
  BY <1>2 DEF Accounted, HandHolds, QueueHolds, CarriedHolds, SpawnedBefore, Distinct, Waits
<1>4. Single
  BY DEF Single, Active, At
<1>5. Behind
  BY DEF Behind, At
<1> QED
  BY <1>1, <1>3, <1>4, <1>5 DEF IInv
-----------------------------------------------------------------------------
(* The reader's steps that leave the lane alone.                           *)

\* A step of the read loop moves one reader.
LEMMA GoesTo ==
    ASSUME Shape, NEW c \in Conns, NEW s \in Stages, Goes(c, s)
    PROVE  /\ reader' \in Readers
           /\ reader'[c].at = s /\ reader'[c].work = reader[c].work
           /\ \A d \in Conns : d # c => reader'[d] = reader[d]
<1>1. reader \in Readers
  BY DEF Shape
<1>2. [reader[c] EXCEPT !.at = s] = [at |-> s, work |-> reader[c].work]
  BY <1>1 DEF Readers
<1>3. reader' = [reader EXCEPT ![c] = [at |-> s, work |-> reader[c].work]]
  BY <1>2 DEF Goes
<1> QED
  BY <1>1, <1>3 DEF Readers

\* So does one that takes or drops the mutation in hand.
LEMMA Puts ==
    ASSUME Shape, NEW c \in Conns, NEW s \in Stages, NEW w \in Works \cup {NoWork},
           reader' = [reader EXCEPT ![c] = [at |-> s, work |-> w]]
    PROVE  /\ reader' \in Readers
           /\ reader'[c].at = s /\ reader'[c].work = w
           /\ \A d \in Conns : d # c => reader'[d] = reader[d]
  BY DEF Shape, Readers

\* What a reader may do without touching a queue, a flag or a worker.
LEMMA Moves ==
    ASSUME IInv, NEW c \in Conns,
           UNCHANGED <<pending, flag, worker>>,
           holding' \subseteq Works,
           \A w \in holding \ holding' :
               w.conn = c /\ w.n = read[c] /\ reader[c].at \in Hand,
           heard' \in [Conns -> BOOLEAN], ended' \in [Conns -> BOOLEAN],
           reader' \in Readers, \A d \in Conns : d # c => reader'[d] = reader[d],
           read' \in [Conns -> 0..MaxFrames], read'[c] >= read[c],
           \A d \in Conns : d # c => read'[d] = read[d],
           reader'[c].at # "spawn",
           reader'[c].at \in Hand =>
               /\ reader'[c].work \in Works
               /\ reader'[c].work.conn = c /\ reader'[c].work.n = read'[c],
           reader'[c].at \in Hand => reader[c].at \in Hand \/ read'[c] > read[c],
           reader'[c].at \in Waits => reader'[c].work \in holding',
           reader'[c].at = "ordered" => Held(c) = {}
    PROVE  IInv'
<1>1. Shape /\ Accounted /\ Single /\ Behind
  BY DEF IInv
<1>2. \A d \in Conns : read[d] \in Nat /\ read'[d] \in Nat /\ read'[d] >= read[d]
                     /\ (reader'[d].at \in Hand => reader[d].at \in Hand \/ read'[d] > read[d])
  <2> SUFFICES ASSUME NEW d \in Conns
      PROVE  read[d] \in Nat /\ read'[d] \in Nat /\ read'[d] >= read[d]
             /\ (reader'[d].at \in Hand => reader[d].at \in Hand \/ read'[d] > read[d])
    OBVIOUS
  <2>1. read[d] \in 0..MaxFrames /\ read'[d] \in 0..MaxFrames
    BY <1>1 DEF Shape
  <2> QED
    BY <2>1, LaneAssumption
<1>3. \A w \in Works : w.conn \in Conns /\ w.n \in Nat /\ w.key \in Keys
  BY LaneAssumption DEF Works
<1>4. \A w \in Works :
          /\ w.n <= read[w.conn] => w.n <= read'[w.conn]
          /\ w.n <= read[w.conn] /\ (reader[w.conn].at \in Hand => w.n < read[w.conn])
               => (reader'[w.conn].at \in Hand => w.n < read'[w.conn])
  <2> SUFFICES ASSUME NEW w \in Works, w.n <= read[w.conn]
      PROVE  /\ w.n <= read'[w.conn]
             /\ (reader[w.conn].at \in Hand => w.n < read[w.conn])
                   => (reader'[w.conn].at \in Hand => w.n < read'[w.conn])
    OBVIOUS
  <2> DEFINE d == w.conn  n == w.n
  <2>1. d \in Conns /\ n \in Nat /\ n <= read[d]
    BY <1>3
  <2> HIDE DEF d, n
  <2>2. /\ n <= read'[d]
        /\ (reader[d].at \in Hand => n < read[d]) => (reader'[d].at \in Hand => n < read'[d])
    BY <1>2, <2>1
  <2> QED
    BY <2>2 DEF d, n
<1>5. \A w \in holding :
         (w.n <= read[w.conn] /\ (reader[w.conn].at \in Hand => w.n < read[w.conn]))
             => w \in holding'
  <2>1. \A w \in holding : w \in Works
    BY <1>1 DEF Shape
  <2> QED
    BY <1>2, <1>3, <2>1
<1>6. Shape'
  BY <1>1 DEF Shape
<1>7. Accounted'
  <2>1. HandHolds'
    <3>1. \A d \in Conns : d # c /\ reader[d].at \in Waits => reader[d].work.conn # c
      BY <1>1 DEF Shape, Hand, Waits
    <3> QED
      BY <1>1, <3>1 DEF Accounted, HandHolds
  <2>2. QueueHolds'
    BY <1>1, <1>4, <1>5 DEF Accounted, QueueHolds, Before, In
  <2>3. CarriedHolds'
    <3> SUFFICES ASSUME NEW b \in Works, worker[b].next # NoWork
        PROVE  LET w == worker[b].next
          IN  /\ w.key = b.key /\ w \in holding' /\ w \notin In(b.key)
              /\ w.n <= read'[w.conn]
              /\ reader'[w.conn].at \in Hand => w.n < read'[w.conn]
      BY DEF In, CarriedHolds, Before
    <3>1. worker[b].next \in Works
      BY <1>1 DEF Shape, Workers
    <3> QED
      BY <1>1, <1>4, <1>5, <3>1 DEF Accounted, CarriedHolds, Before
  <2>4. SpawnedBefore'
    BY <1>1, <1>4, <1>3 DEF Accounted, SpawnedBefore, Before
  <2>5. Distinct'
    BY <1>1 DEF Accounted, Distinct
  <2> QED
    BY <2>1, <2>2, <2>3, <2>4, <2>5 DEF Accounted
<1>8. Single'
  <2>1. \A d \in Conns : reader'[d].at = "spawn" => reader[d].at = "spawn" /\ reader'[d] = reader[d]
    OBVIOUS
  <2> QED
    BY <1>1, <2>1 DEF Single, Active, At
<1>9. Behind'
  <2>1. ASSUME NEW d \in Conns, reader'[d].at = "ordered"
        PROVE  /\ \A k \in Keys : \A w \in In(k) : w.conn # d
               /\ \A b \in Works : worker[b].next # NoWork => worker[b].next.conn # d
    <3>1. CASE d = c
      BY <1>1, <2>1, <3>1 DEF Shape, Accounted, QueueHolds, CarriedHolds, Held
    <3>2. CASE d # c
      BY <1>1, <2>1, <3>2 DEF Behind, At
    <3> QED
      BY <3>1, <3>2
  <2> QED
    BY <2>1 DEF Behind, At, In
<1> QED
  BY <1>6, <1>7, <1>8, <1>9 DEF IInv

\* The next frame has a number no mutation of its connection has.
LEMMA ReadInv == ASSUME IInv, NEW c \in Conns, Read(c) PROVE IInv'
<1>1. Shape
  BY DEF IInv
<1>2. UNCHANGED <<heard, ended, holding, pending, flag, worker>>
  BY DEF Read, laneVars
<1>3. /\ read[c] \in Nat /\ read[c] + 1 <= MaxFrames
      /\ read' = [read EXCEPT ![c] = read[c] + 1]
  BY <1>1, LaneAssumption DEF Read, Shape
<1>4. /\ read' \in [Conns -> 0..MaxFrames] /\ read'[c] = read[c] + 1
      /\ \A d \in Conns : d # c => read'[d] = read[d]
  BY <1>1, <1>3, LaneAssumption DEF Shape
<1>5. heard' \in [Conns -> BOOLEAN] /\ ended' \in [Conns -> BOOLEAN] /\ holding' \subseteq Works
  BY <1>1, <1>2 DEF Shape
<1>6. CASE Goes(c, "barrier")
  <2>1. /\ reader' \in Readers /\ reader'[c].at = "barrier"
        /\ \A d \in Conns : d # c => reader'[d] = reader[d]
    BY <1>1, <1>6, GoesTo DEF Stages
  <2> QED
    BY <1>2, <1>3, <1>4, <1>5, <2>1, Moves DEF Hand, Waits
<1>7. CASE \E k \in Keys : reader' = [reader EXCEPT ![c] =
               [at |-> "slot", work |-> [conn |-> c, n |-> read[c] + 1, key |-> k]]]
  <2>1. PICK k \in Keys : reader' = [reader EXCEPT ![c] =
               [at |-> "slot", work |-> [conn |-> c, n |-> read[c] + 1, key |-> k]]]
    BY <1>7
  <2> DEFINE w == [conn |-> c, n |-> read[c] + 1, key |-> k]
  <2>2. w \in Works /\ w.conn = c /\ w.n = read'[c]
    BY <1>3, <1>4, LaneAssumption DEF Works
  <2> HIDE DEF w
  <2>3. /\ reader' \in Readers /\ reader'[c].at = "slot" /\ reader'[c].work = w
        /\ \A d \in Conns : d # c => reader'[d] = reader[d]
    <3>1. "slot" \in Stages /\ w \in Works \cup {NoWork}
      BY <2>2 DEF Stages
    <3>2. reader' = [reader EXCEPT ![c] = [at |-> "slot", work |-> w]]
      BY <2>1 DEF w
    <3> QED
      BY <1>1, <3>1, <3>2 DEF Shape, Readers
  <2> QED
    BY <1>2, <1>3, <1>4, <1>5, <2>2, <2>3, Moves DEF Waits
<1> QED
  BY <1>6, <1>7 DEF Read

\* The steps that take a frame and a place nowhere.
Steps == {<<"look", "full">>, <<"full", "parked">>, <<"parked", "look">>, <<"barrier", "ordered">>,
          <<"ordered", "reading">>, <<"reading", "ending">>, <<"ordered", "ending">>,
          <<"ending", "gone">>}

\* A step of the table keeps the invariant.
LEMMA StepInv ==
    ASSUME IInv, NEW c \in Conns, NEW from \in Stages, NEW to \in Stages,
           <<from, to>> \in Steps, At(c, from), Goes(c, to),
           UNCHANGED <<read, laneVars>>,
           heard' \in [Conns -> BOOLEAN], ended' \in [Conns -> BOOLEAN],
           to = "ordered" => Held(c) = {}
    PROVE  IInv'
<1>1. Shape
  BY DEF IInv
<1>2. UNCHANGED <<holding, pending, flag, worker>>
  BY DEF laneVars
<1>3. /\ reader' \in Readers /\ reader'[c].at = to /\ reader'[c].work = reader[c].work
      /\ \A d \in Conns : d # c => reader'[d] = reader[d]
  BY <1>1, GoesTo
<1>4. read' \in [Conns -> 0..MaxFrames] /\ read'[c] = read[c] /\ read[c] \in Nat
  BY <1>1, LaneAssumption DEF Shape
<1>5. holding \subseteq Works /\ (reader[c].at \in Waits => reader[c].work \in holding)
  BY DEF IInv, Shape, Accounted, HandHolds
<1>6. /\ to # "spawn"
      /\ to \in Hand => from \in Waits /\ to \in Waits
      /\ to \in Waits => from \in Waits
  BY DEF Steps, Hand, Waits
<1>7. reader[c].at \in Waits =>
         reader[c].work \in Works /\ reader[c].work.conn = c /\ reader[c].work.n = read[c]
  BY <1>1 DEF Shape, Waits, Hand
<1>8. Waits \subseteq Hand
  BY DEF Waits, Hand
<1> QED
  BY <1>2, <1>3, <1>4, <1>6, <1>7, <1>8, <1>5, Moves DEF At

\* The waits, the barrier and the end of the loop are such steps.
LEMMA QuietInv ==
    ASSUME IInv, NEW c \in Conns,
           Park(c) \/ Wake(c) \/ PassBarrier(c) \/ ServeOrdered(c) \/ EndLoop(c) \/ Leave(c)
    PROVE  IInv'
<1>1. Shape
  BY DEF IInv
<1>2. CASE Park(c)
  BY <1>1, <1>2, StepInv DEF Park, Steps, Stages, Shape
<1>3. CASE Wake(c)
  BY <1>1, <1>3, StepInv DEF Wake, Steps, Stages, Shape
<1>4. CASE PassBarrier(c)
  BY <1>1, <1>4, StepInv DEF PassBarrier, Steps, Stages, Shape
<1>5. CASE ServeOrdered(c)
  BY <1>1, <1>5, StepInv DEF ServeOrdered, Steps, Stages, Shape
<1>6. CASE EndLoop(c)
  BY <1>1, <1>6, StepInv DEF EndLoop, Steps, Stages, Shape, At, laneVars
<1>7. CASE Leave(c)
  BY <1>1, <1>7, StepInv DEF Leave, Steps, Stages, Shape
<1> QED
  BY <1>2, <1>3, <1>4, <1>5, <1>6, <1>7

\* A mutation holds its slot before it can be queued.
LEMMA AcquireSlotInv == ASSUME IInv, NEW c \in Conns, AcquireSlot(c) PROVE IInv'
<1>1. Shape /\ reader[c].at = "slot"
  BY DEF IInv, AcquireSlot, At
<1>2. reader[c].work \in Works /\ reader[c].work.conn = c /\ reader[c].work.n = read[c]
  BY <1>1 DEF Shape, Hand
<1>3. /\ reader' \in Readers /\ reader'[c].at = "look" /\ reader'[c].work = reader[c].work
      /\ \A d \in Conns : d # c => reader'[d] = reader[d]
  BY <1>1, GoesTo DEF AcquireSlot, Stages
<1>4. /\ UNCHANGED <<read, ended, pending, flag, worker>>
      /\ holding' = holding \cup {reader[c].work} /\ holding' \subseteq Works
      /\ heard' \in [Conns -> BOOLEAN] /\ ended' \in [Conns -> BOOLEAN]
      /\ read \in [Conns -> 0..MaxFrames] /\ read[c] \in Nat
  BY <1>1, <1>2, LaneAssumption DEF AcquireSlot, Shape
<1> QED
  BY <1>1, <1>2, <1>3, <1>4, Moves DEF Hand

\* An aborted reader gives back the slot of a mutation it has not queued.
LEMMA AbortInv == ASSUME IInv, NEW c \in Conns, Abort(c) PROVE IInv'
<1>1. Shape
  BY DEF IInv
<1>2. /\ reader' \in Readers /\ reader'[c].at = "gone"
      /\ \A d \in Conns : d # c => reader'[d] = reader[d]
  BY <1>1, Puts DEF Abort, Stages
<1>3. /\ UNCHANGED <<read, heard, ended, pending, flag, worker>>
      /\ holding' \subseteq Works
      /\ heard' \in [Conns -> BOOLEAN] /\ ended' \in [Conns -> BOOLEAN]
      /\ read \in [Conns -> 0..MaxFrames] /\ read[c] \in Nat
  BY <1>1, LaneAssumption DEF Abort, Shape
<1>4. \A w \in holding \ holding' : w.conn = c /\ w.n = read[c] /\ reader[c].at \in Hand
  BY <1>1 DEF Abort, Shape, Hand
<1> QED
  BY <1>2, <1>3, <1>4, Moves DEF Hand, Waits
-----------------------------------------------------------------------------
(* The reader's steps that change the lane.                                *)

\* The reader that finds room queues, and spawns if it set the flag.
LEMMA EnqueueInv ==
    ASSUME IInv, NEW c \in Conns, reader[c].at = "look",
           NEW w, w = reader[c].work,
           pending' = [pending EXCEPT ![w.key] = Append(@, w)],
           flag' = [flag EXCEPT ![w.key] = TRUE],
           reader' = [reader EXCEPT ![c] =
               IF flag[w.key] THEN Idle ELSE [@ EXCEPT !.at = "spawn"]],
           UNCHANGED <<read, heard, ended, holding, worker>>
    PROVE  IInv'
<1>1. Shape /\ Accounted /\ Single /\ Behind
  BY DEF IInv
<1>2. /\ w \in Works /\ w.conn = c /\ w.n = read[c] /\ w.key \in Keys /\ w \in holding
      /\ reader[c].at \in Hand /\ read[c] \in Nat
  BY <1>1, LaneAssumption DEF Shape, Accounted, HandHolds, Waits, Hand, Works
<1>3. \A v \in Works : v.conn \in Conns /\ v.n \in Nat /\ v.key \in Keys
  BY LaneAssumption DEF Works
<1> DEFINE k == w.key
<1>4. w \notin ToSet(pending[k]) /\ \A b \in Works : worker[b].next # w
  BY <1>1, <1>2, LaneAssumption DEF Accounted, QueueHolds, CarriedHolds, Before, In
<1>5. /\ pending' \in [Keys -> Seq(Works)]
      /\ ToSet(pending'[k]) = ToSet(pending[k]) \cup {w} /\ IsInjective(pending'[k])
      /\ \A j \in Keys : j # k => pending'[j] = pending[j]
  <2>1. pending \in [Keys -> Seq(Works)] /\ pending[k] \in Seq(Works) /\ IsInjective(pending[k])
    BY <1>1, <1>2 DEF Shape, Accounted, Distinct
  <2>2. pending'[k] = Append(pending[k], w)
    BY <2>1, <1>2
  <2>3. /\ Append(pending[k], w) \in Seq(Works)
        /\ ToSet(Append(pending[k], w)) = ToSet(pending[k]) \cup {w}
        /\ IsInjective(Append(pending[k], w))
    BY <2>1, <1>2, <1>4, Appended
  <2> QED
    BY <1>2, <2>1, <2>2, <2>3
<1>6. /\ flag' \in [Keys -> BOOLEAN] /\ flag'[k]
      /\ \A j \in Keys : flag[j] => flag'[j]
  BY <1>1, <1>2 DEF Shape
<1>7. /\ reader' \in Readers
      /\ \A d \in Conns : d # c => reader'[d] = reader[d]
      /\ reader'[c].at \in {"reading", "spawn"}
      /\ reader'[c].at = "spawn" => reader'[c].work = w /\ ~flag[k]
  <2>1. CASE flag[k]
    BY <1>1, <2>1, Puts DEF Idle, Stages
  <2>2. CASE ~flag[k]
    <3>1. Goes(c, "spawn")
      BY <2>2 DEF Goes
    <3> QED
      BY <1>1, <2>2, <3>1, GoesTo DEF Stages
  <2> QED
    BY <2>1, <2>2
<1>8. Shape'
  BY <1>1, <1>2, <1>5, <1>6, <1>7 DEF Shape, Hand
<1>9. Accounted'
  <2>1. HandHolds'
    BY <1>1, <1>7 DEF Accounted, HandHolds, Waits
  <2>2. QueueHolds'
    <3> SUFFICES ASSUME NEW j \in Keys, NEW v \in ToSet(pending'[j])
        PROVE  /\ v \in Works /\ v.key = j /\ v \in holding
               /\ v.n <= read[v.conn]
               /\ reader'[v.conn].at \in Hand => v.n < read[v.conn]
      BY DEF In, QueueHolds, Before
    <3>1. CASE v \in ToSet(pending[j])
      BY <1>1, <1>3, <1>7, <3>1 DEF Accounted, QueueHolds, Before, In, Hand
    <3>2. CASE v \notin ToSet(pending[j])
      <4>1. v = w /\ j = k
        BY <1>5, <3>2
      <4> QED
        BY <1>2, <1>7, <4>1 DEF Hand
    <3> QED
      BY <3>1, <3>2
  <2>3. CarriedHolds'
    <3> SUFFICES ASSUME NEW b \in Works, worker[b].next # NoWork
        PROVE  LET v == worker[b].next
               IN  /\ v.key = b.key /\ v \in holding /\ v \notin ToSet(pending'[b.key])
                   /\ v.n <= read[v.conn]
                   /\ reader'[v.conn].at \in Hand => v.n < read[v.conn]
      BY DEF In, CarriedHolds, Before
    <3>1. worker[b].next \in Works
      BY <1>1 DEF Shape, Workers
    <3>2. worker[b].next \notin ToSet(pending'[b.key])
      BY <1>1, <1>3, <1>4, <1>5 DEF Accounted, CarriedHolds, In
    <3> QED
      BY <1>1, <1>3, <1>7, <3>1, <3>2 DEF Accounted, CarriedHolds, Before, Hand
  <2>4. SpawnedBefore'
    BY <1>1, <1>2, <1>3, <1>7 DEF Accounted, SpawnedBefore, Before
  <2>5. Distinct'
    BY <1>1, <1>5 DEF Accounted, Distinct
  <2> QED
    BY <2>1, <2>2, <2>3, <2>4, <2>5 DEF Accounted
<1>10. Single'
  <2>1. (\A b \in Works : Active(b) => flag[b.key])'
    BY <1>1, <1>3, <1>6 DEF Single, Active
  <2>2. (\A a, b \in Works : Active(a) /\ Active(b) /\ a.key = b.key => a = b)'
    BY <1>1 DEF Single, Active
  <2>3. ASSUME NEW d \in Conns, reader'[d].at = "spawn"
        PROVE  /\ flag'[reader'[d].work.key]
               /\ \A b \in Works : b.key = reader'[d].work.key => ~Active(b)
               /\ \A e \in Conns : reader'[e].at = "spawn" /\ reader'[e].work.key = reader'[d].work.key
                                      => e = d
    <3>1. \A e \in Conns : e # c /\ reader'[e].at = "spawn" =>
              /\ reader[e].at = "spawn" /\ reader'[e].work = reader[e].work
              /\ reader[e].work.key \in Keys /\ flag[reader[e].work.key]
              /\ \A b \in Works : b.key = reader[e].work.key => ~Active(b)
      BY <1>1, <1>3, <1>7 DEF Single, Shape, At
    <3>2. CASE d = c
      BY <1>1, <1>6, <1>7, <2>3, <3>1, <3>2 DEF Single
    <3>3. CASE d # c
      BY <1>1, <1>6, <1>7, <2>3, <3>1, <3>3 DEF Single, At
    <3> QED
      BY <3>2, <3>3
  <2> QED
    BY <2>1, <2>2, <2>3 DEF Single, At, Active
<1>11. Behind'
  <2>1. ASSUME NEW d \in Conns, reader'[d].at = "ordered"
        PROVE  /\ \A j \in Keys : \A v \in ToSet(pending'[j]) : v.conn # d
               /\ \A b \in Works : worker[b].next # NoWork => worker[b].next.conn # d
    BY <1>1, <1>2, <1>5, <1>7, <2>1 DEF Behind, At, In
  <2> QED
    BY <2>1 DEF Behind, At, In
<1> QED
  BY <1>8, <1>9, <1>10, <1>11 DEF IInv

\* Under the lock a reader queues or learns that there is no room.
LEMMA LookInv == ASSUME IInv, NEW c \in Conns, Look(c) PROVE IInv'
<1>1. CASE Len(pending[reader[c].work.key]) < Depth
  <2>1. /\ reader[c].at = "look"
        /\ pending' = [pending EXCEPT ![reader[c].work.key] = Append(@, reader[c].work)]
        /\ flag' = [flag EXCEPT ![reader[c].work.key] = TRUE]
        /\ reader' = [reader EXCEPT ![c] =
               IF flag[reader[c].work.key] THEN Idle ELSE [@ EXCEPT !.at = "spawn"]]
        /\ UNCHANGED <<read, heard, ended, holding, worker>>
    <3>1. Len(pending[reader[c].work.key]) \in Nat
      BY LaneAssumption DEF IInv, Shape, Look, At, Works
    <3> QED
      BY <1>1, <3>1, LaneAssumption DEF Look, At
  <2> QED
    BY <2>1, EnqueueInv
<1>2. CASE ~(Len(pending[reader[c].work.key]) < Depth)
  BY <1>2, StepInv DEF Look, IInv, Shape, Steps, Stages, laneVars
<1> QED
  BY <1>1, <1>2

\* No worker of a resource is there when its reader spawns one.
LEMMA SpawnInv == ASSUME IInv, NEW c \in Conns, Spawn(c) PROVE IInv'
<1>1. Shape /\ Accounted /\ Single /\ Behind /\ reader[c].at = "spawn"
  BY DEF IInv, Spawn, At
<1> DEFINE w == reader[c].work
<1>2. /\ w \in Works /\ w.conn = c /\ w.n = read[c] /\ read[c] \in Nat
      /\ UNCHANGED <<read, heard, ended, holding, pending, flag>>
  BY <1>1, LaneAssumption DEF Shape, Spawn
<1>3. \A v \in Works : v.conn \in Conns /\ v.n \in Nat /\ v.key \in Keys
  BY LaneAssumption DEF Works
<1>4. worker[w] = Absent
  <2>1. worker[w].at = "absent" /\ worker[w].next = NoWork
    BY <1>1, <1>2 DEF Accounted, SpawnedBefore, Shape, Readers
  <2> QED
    BY <1>1, <1>2, <2>1 DEF Shape, Workers, Absent
<1>5. /\ worker' \in Workers
      /\ worker'[w].at = "pop" /\ worker'[w].next = NoWork
      /\ \A b \in Works : worker'[b].next = worker[b].next
      /\ \A b \in Works : b # w => worker'[b] = worker[b]
  <2>1. worker' = [worker EXCEPT ![w] = [at |-> "pop", next |-> NoWork]]
    <3>1. [worker[w] EXCEPT !.at = "pop"] = [at |-> "pop", next |-> NoWork]
      BY <1>4 DEF Absent
    <3>2. worker' = [worker EXCEPT ![w] = [worker[w] EXCEPT !.at = "pop"]]
      BY DEF Spawn
    <3> QED
      BY <3>1, <3>2
  <2> HIDE DEF w
  <2> QED
    BY <1>1, <1>2, <1>4, <2>1 DEF Shape, Workers, Absent
<1>6. /\ reader' \in Readers /\ reader'[c].at = "reading"
      /\ \A d \in Conns : d # c => reader'[d] = reader[d]
  BY <1>1, Puts DEF Spawn, Idle, Stages
<1> HIDE DEF w
<1>7. Shape'
  <2>1. \A b \in Works :
            /\ worker'[b].at \in {"absent", "pop"} => worker'[b].next = NoWork
            /\ worker'[b].at = "run" => worker'[b].next # NoWork
    BY <1>1, <1>5 DEF Shape
  <2>2. \A d \in Conns : reader'[d].at \in Hand \cup {"spawn"} =>
            /\ reader'[d].work \in Works
            /\ reader'[d].work.conn = d /\ reader'[d].work.n = read[d]
    BY <1>1, <1>6 DEF Shape, Hand
  <2> QED
    BY <1>1, <1>2, <1>5, <1>6, <2>1, <2>2 DEF Shape
<1>8. Accounted'
  <2>1. HandHolds'
    BY <1>1, <1>2, <1>6 DEF Accounted, HandHolds, Waits
  <2>2. QueueHolds'
    BY <1>1, <1>2, <1>3, <1>6 DEF Accounted, QueueHolds, Before, In, Hand
  <2>3. CarriedHolds'
    <3> SUFFICES ASSUME NEW b \in Works, worker[b].next # NoWork
        PROVE  LET v == worker[b].next
               IN  /\ v.key = b.key /\ v \in holding /\ v \notin In(b.key)
                   /\ v.n <= read[v.conn]
                   /\ reader'[v.conn].at \in Hand => v.n < read[v.conn]
      BY <1>2, <1>5 DEF In, CarriedHolds, Before
    <3>1. worker[b].next \in Works
      BY <1>1 DEF Shape, Workers
    <3> QED
      BY <1>1, <1>3, <1>6, <3>1 DEF Accounted, CarriedHolds, Before, Hand
  <2>4. SpawnedBefore'
    <3> SUFFICES ASSUME NEW b \in Works, worker'[b].at # "absent"
        PROVE  /\ b.n <= read[b.conn]
               /\ reader'[b.conn].at \in Hand \cup {"spawn"} => b.n < read[b.conn]
      BY <1>2 DEF SpawnedBefore, Before
    <3>1. CASE b = w
      BY <1>2, <1>6, <3>1 DEF Hand
    <3>2. CASE b # w
      BY <1>1, <1>3, <1>5, <1>6, <3>2 DEF Accounted, SpawnedBefore, Before
    <3> QED
      BY <3>1, <3>2
  <2>5. Distinct'
    BY <1>1, <1>2 DEF Accounted, Distinct
  <2> QED
    BY <2>1, <2>2, <2>3, <2>4, <2>5 DEF Accounted
<1>9. Single'
  <2>1. flag[w.key] /\ \A b \in Works : b.key = w.key => ~Active(b)
    BY <1>1 DEF Single, At, w
  <2>2. \A b \in Works : Active(b)' => b = w \/ Active(b)
    BY <1>5 DEF Active
  <2>3. (\A b \in Works : Active(b) => flag[b.key])'
    BY <1>1, <1>2, <2>1, <2>2 DEF Single
  <2>4. (\A a, b \in Works : Active(a) /\ Active(b) /\ a.key = b.key => a = b)'
    BY <1>1, <2>1, <2>2 DEF Single
  <2>5. ASSUME NEW d \in Conns, reader'[d].at = "spawn"
        PROVE  /\ flag[reader'[d].work.key]
               /\ \A b \in Works : b.key = reader'[d].work.key => ~Active(b)'
               /\ \A e \in Conns : reader'[e].at = "spawn" /\ reader'[e].work.key = reader'[d].work.key
                                      => e = d
    <3>1. d # c /\ reader'[d] = reader[d] /\ reader[d].work.key # w.key
      BY <1>1, <1>6, <2>5 DEF Single, At, w
    <3> QED
      BY <1>1, <1>6, <2>2, <2>5, <3>1 DEF Single, At
  <2> QED
    BY <1>2, <2>3, <2>4, <2>5 DEF Single, At
<1>10. Behind'
  BY <1>1, <1>2, <1>5, <1>6 DEF Behind, At, In
<1> QED
  BY <1>7, <1>8, <1>9, <1>10 DEF IInv
-----------------------------------------------------------------------------
(* The worker's steps.                                                     *)

\* A worker starts what it carries, or lets go of it and of its slot.
LEMMA Turns ==
    ASSUME IInv, NEW b \in Works, worker[b].at \in {"signal", "run"},
           NEW s \in {"absent", "pop", "run"}, NEW v \in {NoWork, worker[b].next},
           worker' = [worker EXCEPT ![b] = [at |-> s, next |-> v]],
           s = "run" <=> v # NoWork,
           s = "pop" => worker[b].next # NoWork,
           holding' = IF v = worker[b].next THEN holding ELSE holding \ {worker[b].next},
           heard' \in [Conns -> BOOLEAN],
           UNCHANGED <<reader, read, ended, pending, flag>>
    PROVE  IInv'
<1>1. Shape /\ Accounted /\ Single /\ Behind
  BY DEF IInv
<1>2. worker[b].next \in Works \cup {NoWork} /\ v \in Works \cup {NoWork}
  BY <1>1 DEF Shape, Workers
<1>3. /\ worker' \in Workers /\ worker'[b].at = s /\ worker'[b].next = v
      /\ \A a \in Works : a # b => worker'[a] = worker[a]
  BY <1>1, <1>2 DEF Shape, Workers
<1>4. \A a \in Works : Active(a)' => Active(a)
  BY <1>1, <1>3 DEF Shape, Active
<1>5. \A a \in Works : worker'[a].next # NoWork => worker'[a].next = worker[a].next
  BY <1>3
<1>6. CASE holding' = holding
  <2>1. Shape'
    BY <1>1, <1>3, <1>6 DEF Shape
  <2>2. Accounted'
    BY <1>1, <1>3, <1>5, <1>6 DEF Accounted, HandHolds, QueueHolds, CarriedHolds,
       SpawnedBefore, Distinct, Before, In
  <2>3. Single'
    BY <1>1, <1>4 DEF Single, At
  <2>4. Behind'
    BY <1>1, <1>5 DEF Behind, At, In
  <2> QED
    BY <2>1, <2>2, <2>3, <2>4 DEF IInv
<1>7. CASE worker[b].next # NoWork /\ v = NoWork /\ holding' = holding \ {worker[b].next}
  <2> DEFINE w == worker[b].next
  <2>1. Active(b) /\ w \in Works /\ w.key = b.key /\ w \notin ToSet(pending[w.key])
    BY <1>1, <1>2, <1>7 DEF Active, Accounted, CarriedHolds, In
  <2>2. \A a \in Works : worker'[a].next # NoWork => worker'[a].next # w
    <3> SUFFICES ASSUME NEW a \in Works, worker'[a].next # NoWork, worker'[a].next = w PROVE FALSE
      OBVIOUS
    <3>1. a # b /\ worker[a].next = w
      BY <1>3, <1>7
    <3>2. Active(a) /\ a.key = b.key
      BY <1>1, <2>1, <3>1, <1>7 DEF Shape, Workers, Active, Accounted, CarriedHolds
    <3> QED
      BY <1>1, <2>1, <3>1, <3>2 DEF Single
  <2>3. \A k \in Keys : w \notin ToSet(pending[k])
    BY <1>1, <2>1 DEF Accounted, QueueHolds, In
  <2>4. \A c \in Conns : reader[c].at \in Hand => reader[c].work # w
    <3> SUFFICES ASSUME NEW c \in Conns, reader[c].at \in Hand, reader[c].work = w PROVE FALSE
      OBVIOUS
    <3>1. w.conn = c /\ w.n = read[c]
      BY <1>1 DEF Shape
    <3>2. w.n < read[w.conn] /\ w.n \in Nat
      BY <1>1, <1>7, <2>1, <3>1, LaneAssumption DEF Accounted, CarriedHolds, Before, Works
    <3> QED
      BY <3>1, <3>2
  <2> HIDE DEF w
  <2>5. holding' = holding \ {w}
    BY <1>7 DEF w
  <2>6. Shape'
    BY <1>1, <1>3, <2>5 DEF Shape
  <2>7. Accounted'
    <3>1. HandHolds'
      BY <1>1, <2>4, <2>5 DEF Accounted, HandHolds, Waits, Hand
    <3>2. QueueHolds'
      BY <1>1, <2>3, <2>5 DEF Accounted, QueueHolds, CarriedHolds, Before, In
    <3>3. CarriedHolds'
      BY <1>1, <1>5, <2>2, <2>5 DEF Accounted, CarriedHolds, Before, In
    <3>4. SpawnedBefore'
      BY <1>1, <1>3 DEF Accounted, SpawnedBefore, Before
    <3>5. Distinct'
      BY <1>1 DEF Accounted, Distinct
    <3> QED
      BY <3>1, <3>2, <3>3, <3>4, <3>5 DEF Accounted
  <2>8. Single'
    BY <1>1, <1>4 DEF Single, At
  <2>9. Behind'
    BY <1>1, <1>5 DEF Behind, At, In
  <2> QED
    BY <2>6, <2>7, <2>8, <2>9 DEF IInv
<1> QED
  BY <1>6, <1>7

\* Signalling, finishing and panicking are such turns.
LEMMA WorkerInv ==
    ASSUME IInv, NEW b \in Works, Signal(b) \/ Finish(b) \/ Panic(b) PROVE IInv'
<1>1. Shape /\ worker[b] \in [at : {"absent", "pop", "signal", "run"}, next : Works \cup {NoWork}]
  BY DEF IInv, Shape, Workers
<1>2. CASE Finish(b)
  BY <1>1, <1>2, Turns DEF Finish, Shape, readerVars
<1>3. CASE Panic(b)
  BY <1>1, <1>3, Turns DEF Panic, Shape, readerVars, Absent
<1>4. CASE Signal(b)
  <2>1. /\ worker[b].at = "signal" /\ heard' \in [Conns -> BOOLEAN]
        /\ UNCHANGED <<reader, read, ended, pending, flag>>
    BY <1>1, <1>4 DEF Signal, Shape
  <2>2. CASE worker[b].next = NoWork
    BY <1>1, <1>4, <2>1, <2>2, Turns DEF Signal, Absent
  <2>3. CASE worker[b].next # NoWork /\ ended[worker[b].next.conn]
    BY <1>1, <1>4, <2>1, <2>3, Turns DEF Signal
  <2>4. CASE worker[b].next # NoWork /\ ~ended[worker[b].next.conn]
    <3>1. [worker[b] EXCEPT !.at = "run"] = [at |-> "run", next |-> worker[b].next]
      BY <1>1
    <3>2. worker' = [worker EXCEPT ![b] = [at |-> "run", next |-> worker[b].next]]
          /\ holding' = holding
      BY <1>4, <2>4, <3>1 DEF Signal
    <3> QED
      BY <2>1, <2>4, <3>2, Turns
  <2> QED
    BY <2>2, <2>3, <2>4
<1> QED
  BY <1>2, <1>3, <1>4

\* A worker takes the next mutation, or clears the flag under the same lock.
LEMMA PopInv == ASSUME IInv, NEW b \in Works, Pop(b) PROVE IInv'
<1>1. Shape /\ Accounted /\ Single /\ Behind
  BY DEF IInv
<1> DEFINE k == b.key
<1>2. /\ worker[b].at = "pop" /\ worker[b].next = NoWork /\ Active(b) /\ k \in Keys
      /\ UNCHANGED <<reader, read, heard, ended, holding>>
  BY <1>1 DEF Pop, readerVars, Active, Shape, Works
<1>3. CASE pending[k] = <<>>
  <2>1. /\ flag' = [flag EXCEPT ![k] = FALSE] /\ pending' = pending
        /\ worker' = [worker EXCEPT ![b] = [at |-> "signal", next |-> NoWork]]
    BY <1>3 DEF Pop
  <2>2. /\ worker' \in Workers /\ worker'[b].at = "signal" /\ worker'[b].next = NoWork
        /\ \A a \in Works : a # b => worker'[a] = worker[a]
    BY <1>1, <2>1 DEF Shape, Workers
  <2>3. \A a \in Works : worker'[a].next = worker[a].next
    BY <1>2, <2>2
  <2>4. \A a \in Works : Active(a)' => Active(a) /\ a # b
    BY <2>2 DEF Active
  <2>5. /\ flag' \in [Keys -> BOOLEAN] /\ \A j \in Keys : j # k => flag'[j] = flag[j]
    BY <1>1, <2>1 DEF Shape
  <2>6. Shape'
    BY <1>1, <1>2, <2>1, <2>2, <2>3, <2>5 DEF Shape
  <2>7. Accounted'
    BY <1>1, <1>2, <2>1, <2>2, <2>3 DEF Accounted, HandHolds, QueueHolds, CarriedHolds,
       SpawnedBefore, Distinct, Before, In
  <2>8. Single'
    <3>1. \A a \in Works : Active(a)' => a.key \in Keys /\ a.key # k /\ flag'[a.key]
      BY <1>1, <1>2, <2>4, <2>5 DEF Single, Works
    <3>2. ASSUME NEW c \in Conns, reader[c].at = "spawn"
          PROVE  /\ flag'[reader[c].work.key]
                 /\ \A a \in Works : a.key = reader[c].work.key => ~Active(a)'
      <4>1. reader[c].work.key \in Keys /\ reader[c].work.key # k
        BY <1>1, <1>2, <3>2 DEF Single, Shape, At, Works
      <4> QED
        BY <1>1, <2>4, <2>5, <3>2, <4>1 DEF Single, At
    <3>3. \A a, d \in Works : Active(a)' /\ Active(d)' /\ a.key = d.key => a = d
      BY <1>1, <2>4 DEF Single
    <3> QED
      BY <1>1, <1>2, <3>1, <3>2, <3>3 DEF Single, At
  <2>9. Behind'
    BY <1>1, <1>2, <2>1, <2>3 DEF Behind, At, In
  <2> QED
    BY <2>6, <2>7, <2>8, <2>9 DEF IInv
<1>4. CASE pending[k] # <<>>
  <2> DEFINE w == Head(pending[k])
  <2>1. /\ pending' = [pending EXCEPT ![k] = Tail(pending[k])] /\ flag' = flag
        /\ worker' = [worker EXCEPT ![b] = [at |-> "signal", next |-> w]]
    BY <1>4 DEF Pop
  <2>2. /\ w \in Works /\ Tail(pending[k]) \in Seq(Works)
        /\ In(k) = ToSet(Tail(pending[k])) \cup {w}
        /\ w \notin ToSet(Tail(pending[k])) /\ IsInjective(Tail(pending[k]))
    <3>1. pending[k] \in Seq(Works) /\ IsInjective(pending[k])
      BY <1>1, <1>2 DEF Shape, Accounted, Distinct
    <3> QED
      BY <1>4, <3>1, Popped DEF In
  <2>3. w # NoWork /\ w \in In(k) /\ w.key = k
    BY <1>1, <1>2, <2>2, LaneAssumption DEF Accounted, QueueHolds
  <2>4. /\ w \in holding /\ w.n <= read[w.conn]
        /\ reader[w.conn].at \in Hand => w.n < read[w.conn]
    BY <1>1, <1>2, <2>3 DEF Accounted, QueueHolds, Before
  <2>5. \A c \in Conns : At(c, "ordered") => w.conn # c
    BY <1>1, <1>2, <2>3 DEF Behind
  <2> HIDE DEF w
  <2>6. /\ worker' \in Workers /\ worker'[b].at = "signal" /\ worker'[b].next = w
        /\ \A a \in Works : a # b => worker'[a] = worker[a]
    BY <1>1, <2>1, <2>2 DEF Shape, Workers
  <2>7. /\ pending' \in [Keys -> Seq(Works)] /\ pending'[k] = Tail(pending[k])
        /\ \A j \in Keys : j # k => pending'[j] = pending[j]
        /\ \A j \in Keys : ToSet(pending'[j]) \subseteq In(j)
        /\ w \notin ToSet(pending'[k])
    BY <1>1, <1>2, <2>1, <2>2 DEF Shape, In
  <2>8. \A a \in Works : Active(a)' <=> Active(a)
    BY <1>2, <2>3, <2>6 DEF Active
  <2>9. Shape'
    BY <1>1, <1>2, <2>1, <2>3, <2>6, <2>7 DEF Shape
  <2>10. Accounted'
    <3>1. HandHolds'
      BY <1>1, <1>2 DEF Accounted, HandHolds
    <3>2. QueueHolds'
      <4> SUFFICES ASSUME NEW j \in Keys, NEW u \in ToSet(pending'[j])
          PROVE  /\ u \in Works /\ u.key = j /\ u \in holding
                 /\ u.n <= read[u.conn]
                 /\ reader[u.conn].at \in Hand => u.n < read[u.conn]
        BY <1>2 DEF In, QueueHolds, Before
      <4> QED
        BY <1>1, <2>7 DEF Accounted, QueueHolds, Before
    <3>3. ASSUME NEW a \in Works, worker'[a].next # NoWork
          PROVE  LET u == worker'[a].next
                 IN  /\ u.key = a.key /\ u \in holding /\ u \notin ToSet(pending'[a.key])
                     /\ u.n <= read[u.conn]
                     /\ reader[u.conn].at \in Hand => u.n < read[u.conn]
      <4>1. CASE a = b
        BY <2>3, <2>4, <2>6, <2>7, <4>1
      <4>2. CASE a # b
        <5>1. a.key \in Keys /\ worker'[a] = worker[a]
          BY <2>6, <4>2 DEF Works
        <5> QED
          BY <1>1, <2>7, <3>3, <5>1 DEF Accounted, CarriedHolds, Before
      <4> QED
        BY <4>1, <4>2
    <3>4. SpawnedBefore'
      BY <1>1, <1>2, <2>6 DEF Accounted, SpawnedBefore, Before
    <3>5. Distinct'
      BY <1>1, <2>2, <2>7 DEF Accounted, Distinct
    <3> QED
      BY <1>2, <3>1, <3>2, <3>3, <3>4, <3>5 DEF Accounted, CarriedHolds, Before, In
  <2>11. Single'
    BY <1>1, <1>2, <2>1, <2>8 DEF Single, At
  <2>12. Behind'
    <3>1. ASSUME NEW c \in Conns, At(c, "ordered")
          PROVE  /\ \A j \in Keys : \A u \in ToSet(pending'[j]) : u.conn # c
                 /\ \A a \in Works : worker'[a].next # NoWork => worker'[a].next.conn # c
      BY <1>1, <2>5, <2>6, <2>7, <3>1 DEF Behind
    <3> QED
      BY <1>2, <3>1 DEF Behind, At, In
  <2> QED
    BY <2>9, <2>10, <2>11, <2>12 DEF IInv
<1> QED
  BY <1>3, <1>4

\* Nothing moves where nothing changes.
LEMMA StutterInv == ASSUME IInv, UNCHANGED vars PROVE IInv'
<1>1. UNCHANGED <<reader, read, heard, ended, holding, pending, flag, worker>>
  BY DEF vars, readerVars, laneVars
<1> QED
  BY <1>1 DEF IInv, Shape, Accounted, HandHolds, QueueHolds, CarriedHolds, SpawnedBefore,
     Distinct, Before, Single, Behind, In, Active, At

\* The invariant the rest rests on, for every step.
THEOREM Inductive == Spec => []IInv
<1>1. ASSUME IInv, [Next]_vars PROVE IInv'
  <2>1. ASSUME NEW c \in Conns, Read(c) \/ Dispatch(c) \/ EndLoop(c) \/ Abort(c) PROVE IInv'
    BY <1>1, <2>1, ReadInv, AcquireSlotInv, LookInv, SpawnInv, QuietInv, AbortInv DEF Dispatch
  <2>2. ASSUME NEW b \in Works, Turn(b) \/ Panic(b) PROVE IInv'
    BY <1>1, <2>2, PopInv, WorkerInv DEF Turn
  <2> QED
    BY <1>1, <2>1, <2>2, StutterInv DEF Next
<1> QED
  BY <1>1, InitInv, PTL DEF Spec
-----------------------------------------------------------------------------
(* What follows.                                                           *)

\* A frame behind the barrier is served when nothing its connection dispatched
\* is queued or running, whatever panics, hangs or is aborted.
THEOREM BarrierKept == Spec => []BarrierHolds
<1>1. IInv => BarrierHolds
  BY DEF IInv, Behind, BarrierHolds, Queued, Running, In
<1> QED
  BY <1>1, Inductive, PTL

\* The bounds the lane is built with.
Bounded ==
    /\ \A k \in Keys : Len(pending[k]) <= Depth
    /\ \A c \in Conns : IsFiniteSet(Held(c)) /\ Cardinality(Held(c)) <= Slots

\* Empty queues and free slots are within the bounds.
LEMMA InitBounded == Init => Bounded
<1> SUFFICES ASSUME Init PROVE Bounded
  OBVIOUS
<1>1. \A c \in Conns : Held(c) = {}
  BY DEF Init, Held
<1>2. \A k \in Keys : Len(pending[k]) = 0
  BY DEF Init
<1>3. Depth \in Nat /\ Slots \in Nat
  BY LaneAssumption
<1>4. IsFiniteSet({}) /\ Cardinality({}) = 0
  BY FS_EmptySet
<1>5. \A c \in Conns : IsFiniteSet(Held(c)) /\ Cardinality(Held(c)) <= Slots
  <2> TAKE c \in Conns
  <2>1. Cardinality(Held(c)) = 0 /\ IsFiniteSet(Held(c))
    BY <1>1, <1>4
  <2> QED
    BY <1>3, <2>1
<1>6. \A k \in Keys : Len(pending[k]) <= Depth
  BY <1>2, <1>3
<1> QED
  BY <1>5, <1>6 DEF Bounded

\* What one step does to a queue.
Grows(k) ==
    \/ pending'[k] = pending[k]
    \/ pending'[k] = Tail(pending[k]) /\ pending[k] # <<>>
    \/ \E w : pending'[k] = Append(pending[k], w) /\ Len(pending[k]) < Depth

\* Only a reader that found a slot adds to what its connection holds, and only
\* one that found room to a queue.
LEMMA StepBounded == ASSUME IInv, IInv', Bounded, [Next]_vars PROVE Bounded'
<1>1. Depth \in Nat /\ Slots \in Nat
  BY LaneAssumption
<1>2. ASSUME NEW k \in Keys PROVE Len(pending'[k]) <= Depth
  <2>1. pending[k] \in Seq(Works) /\ Len(pending[k]) \in Nat /\ Len(pending[k]) <= Depth
    BY DEF IInv, Shape, Bounded
  <2>2. CASE pending'[k] = pending[k]
    BY <2>1, <2>2
  <2>3. CASE pending'[k] = Tail(pending[k]) /\ pending[k] # <<>>
    BY <1>1, <2>1, <2>3
  <2>4. CASE \E w : pending'[k] = Append(pending[k], w) /\ Len(pending[k]) < Depth
    BY <1>1, <2>1, <2>4
  <2>5. Grows(k)
    <3>1. CASE pending' = pending
      BY <3>1 DEF Grows
    <3>2. ASSUME NEW c \in Conns, Look(c) PROVE Grows(k)
      <4> DEFINE w == reader[c].work
      <4>1. \/ pending' = pending
            \/ /\ pending' = [pending EXCEPT ![w.key] = Append(pending[w.key], w)]
               /\ Len(pending[w.key]) < Depth
        BY <3>2 DEF Look
      <4> HIDE DEF w
      <4>2. CASE w.key = k
        BY <4>1, <4>2 DEF IInv, Shape, Grows
      <4>3. CASE w.key # k
        BY <4>1, <4>3 DEF IInv, Shape, Grows
      <4> QED
        BY <4>2, <4>3
    <3>3. ASSUME NEW b \in Works, Pop(b) PROVE Grows(k)
      <4>1. \/ pending' = pending
            \/ /\ pending' = [pending EXCEPT ![b.key] = Tail(pending[b.key])]
               /\ pending[b.key] # <<>>
        BY <3>3 DEF Pop
      <4>2. CASE b.key = k
        BY <4>1, <4>2 DEF IInv, Shape, Grows
      <4>3. CASE b.key # k
        BY <4>1, <4>3 DEF IInv, Shape, Grows
      <4> QED
        BY <4>2, <4>3
    <3> QED
      BY <3>1, <3>2, <3>3 DEF Next, Dispatch, Turn, vars, laneVars, Read, AcquireSlot, Spawn,
         Park, Wake, PassBarrier, ServeOrdered, EndLoop, Leave, Abort, Signal, Finish, Panic
  <2> QED
    BY <2>2, <2>3, <2>4, <2>5 DEF Grows
<1>3. ASSUME NEW c \in Conns
      PROVE  /\ IsFiniteSet({w \in holding' : w.conn = c})
             /\ Cardinality({w \in holding' : w.conn = c}) <= Slots
  <2> DEFINE H == Held(c)  G == {w \in holding' : w.conn = c}
  <2>1. IsFiniteSet(H) /\ Cardinality(H) <= Slots /\ Cardinality(H) \in Nat
    BY FS_CardinalityType DEF Bounded
  <2>2. CASE holding' \subseteq holding
    <3>1. G \subseteq H
      BY <2>2 DEF Held
    <3> HIDE DEF G, H
    <3>2. IsFiniteSet(G) /\ Cardinality(G) <= Cardinality(H) /\ Cardinality(G) \in Nat
      BY <2>1, <3>1, FS_Subset, FS_CardinalityType
    <3>3. IsFiniteSet(G) /\ Cardinality(G) <= Slots
      BY <1>1, <2>1, <3>2
    <3> QED
      BY <3>3 DEF G
  <2>3. ASSUME NEW d \in Conns, AcquireSlot(d)
        PROVE  IsFiniteSet(G) /\ Cardinality(G) <= Slots
    <3>1. /\ reader[d].work.conn = d /\ holding' = holding \cup {reader[d].work}
          /\ Cardinality(Held(d)) < Slots
      BY <2>3 DEF AcquireSlot, At, IInv, Shape, Hand
    <3>2. CASE d = c
      <4>1. G = H \cup {reader[d].work}
        BY <3>1, <3>2 DEF Held
      <4>2. Cardinality(H) < Slots
        BY <3>1, <3>2
      <4> HIDE DEF G, H
      <4>3. IsFiniteSet(G) /\ Cardinality(G) \in {Cardinality(H), Cardinality(H) + 1}
        BY <2>1, <4>1, FS_AddElement
      <4> QED
        BY <1>1, <2>1, <4>2, <4>3
    <3>3. CASE d # c
      <4>1. G = H
        BY <3>1, <3>3 DEF Held
      <4> QED
        BY <2>1, <4>1
    <3> QED
      BY <3>2, <3>3
  <2>4. holding' \subseteq holding \/ \E d \in Conns : AcquireSlot(d)
    BY DEF Next, Dispatch, Turn, vars, laneVars, readerVars, Read, Look, Spawn, Pop,
       Park, Wake, PassBarrier, ServeOrdered, EndLoop, Leave, Abort, Signal, Finish, Panic
  <2> QED
    BY <2>2, <2>3, <2>4
<1> QED
  BY <1>2, <1>3 DEF Bounded, Held

\* The types, and the two bounds: no queue outgrows its depth, and no
\* connection its slots.
THEOREM LaneTypeCorrect == Spec => []TypeOK
<1>1. ASSUME IInv, Bounded PROVE TypeOK
  BY <1>1 DEF IInv, Shape, Readers, Workers, Bounded, TypeOK
<1> QED
  BY <1>1, Inductive, InitBounded, StepBounded, PTL DEF Spec

\* An empty lane is an empty order.
LEMMA InitOrder == Init => Order!Init
  BY DEF Init, Order!Init, Running, Absent

\* Only the worker of a mutation's resource carries it.
LEMMA Carried ==
    ASSUME IInv, NEW b \in Works, worker[b].at \in {"pop", "signal", "run"},
           worker[b].at = "pop" \/ worker[b].next # NoWork
    PROVE  \A a \in Works : worker[a].next # NoWork /\ worker[a].next.key = b.key => a = b
<1> SUFFICES ASSUME NEW a \in Works, worker[a].next # NoWork, worker[a].next.key = b.key
    PROVE  a = b
  OBVIOUS
<1>1. Active(a) /\ Active(b) /\ a.key = b.key
  BY DEF IInv, Shape, Workers, Accounted, CarriedHolds, Active
<1> QED
  BY <1>1 DEF IInv, Single

\* Queueing admits, popping starts, and letting go ends; every other step stutters.
LEMMA StepOrder == IInv /\ [Next]_vars => [Order!Next]_(Order!vars)
<1> SUFFICES ASSUME IInv, [Next]_vars PROVE [Order!Next]_(Order!vars)
  OBVIOUS
<1>1. Shape /\ Accounted
  BY DEF IInv
<1>2. ASSUME UNCHANGED pending, \A b \in Works : worker'[b].next = worker[b].next
      PROVE  UNCHANGED Order!vars
  BY <1>2 DEF Order!vars, Running
<1>3. ASSUME NEW c \in Conns, Look(c) PROVE [Order!Next]_(Order!vars)
  <2> DEFINE w == reader[c].work
  <2>1. /\ w \in Works /\ w.conn = c /\ w.n = read[c] /\ w.key \in Keys /\ reader[c].at \in Hand
        /\ worker' = worker
    BY <1>1, <1>3 DEF Look, At, Shape, Hand, Works
  <2>2. CASE pending' = pending
    BY <1>2, <2>1, <2>2
  <2>3. CASE pending' = [pending EXCEPT ![w.key] = Append(pending[w.key], w)]
    <3>1. \A v \in ToSet(pending[w.key]) \cup {u \in Running : u.key = w.key} :
              v.conn = w.conn => v.n < w.n
      BY <1>1, <2>1 DEF Accounted, QueueHolds, CarriedHolds, Before, Shape, Running, In
    <3>2. UNCHANGED Running
      BY <2>1 DEF Running
    <3> HIDE DEF w
    <3>3. Order!Admit(w)
      BY <2>3, <3>1, <3>2 DEF Order!Admit, Order!Unfinished, Order!ToSet, ToSet
    <3> QED
      BY <2>1, <3>3 DEF Order!Next
  <2> QED
    BY <1>3, <2>2, <2>3 DEF Look
<1>4. ASSUME NEW b \in Works, Pop(b) PROVE [Order!Next]_(Order!vars)
  <2> DEFINE k == b.key
  <2>1. worker[b].at = "pop" /\ worker[b].next = NoWork /\ k \in Keys
    BY <1>1, <1>4 DEF Pop, Shape, Works
  <2>2. CASE pending[k] = <<>>
    <3>1. worker' = [worker EXCEPT ![b] = [at |-> "signal", next |-> NoWork]] /\ pending' = pending
      BY <1>4, <2>2 DEF Pop
    <3> QED
      BY <1>1, <1>2, <2>1, <3>1 DEF Shape
  <2>3. CASE pending[k] # <<>>
    <3> DEFINE w == Head(pending[k])
    <3>1. /\ pending' = [pending EXCEPT ![k] = Tail(pending[k])]
          /\ worker' = [worker EXCEPT ![b] = [at |-> "signal", next |-> w]]
      BY <1>4, <2>3 DEF Pop
    <3>2. w \in Works /\ w # NoWork
      <4>1. pending[k] \in Seq(Works)
        BY <1>1, <2>1 DEF Shape
      <4> QED
        BY <2>3, <4>1, LaneAssumption
    <3>3. \A u \in Running : u.key # k
      <4>1. \A a \in Works : worker[a].next # NoWork /\ worker[a].next.key = b.key => a = b
        BY <2>1, Carried
      <4> QED
        BY <2>1, <4>1 DEF Running
    <3> HIDE DEF w
    <3>4. worker'[b].next = w /\ \A a \in Works : a # b => worker'[a].next = worker[a].next
      BY <1>1, <3>1 DEF Shape, Workers
    <3>5. Running' = Running \cup {w}
      BY <2>1, <3>2, <3>4 DEF Running
    <3>6. Order!Start(k)
      BY <2>3, <3>1, <3>3, <3>5 DEF Order!Start, w
    <3> QED
      BY <2>1, <3>6 DEF Order!Next
  <2> QED
    BY <2>2, <2>3
<1>5. ASSUME NEW b \in Works, worker[b].at \in {"signal", "run"}, worker[b].next # NoWork,
             NEW s, worker' = [worker EXCEPT ![b] = [at |-> s, next |-> NoWork]],
             UNCHANGED pending
      PROVE  [Order!Next]_(Order!vars)
  <2> DEFINE w == worker[b].next
  <2>1. w \in Running /\ w.key = b.key /\ w # NoWork
    BY <1>1, <1>5 DEF Running, Accounted, CarriedHolds
  <2>2. \A a \in Works : worker[a].next # NoWork /\ worker[a].next.key = b.key => a = b
    BY <1>5, Carried
  <2>3. worker'[b].next = NoWork /\ \A a \in Works : a # b => worker'[a].next = worker[a].next
    BY <1>1, <1>5 DEF Shape, Workers
  <2>4. \A a \in Works : a # b => worker[a].next # w
    BY <2>1, <2>2
  <2>5. Running' = Running \ {w}
    BY <2>3, <2>4 DEF Running
  <2> HIDE DEF w
  <2>6. Order!End(w)
    BY <1>5, <2>5 DEF Order!End
  <2> QED
    BY <2>1, <2>6 DEF Order!Next
<1>6. ASSUME NEW b \in Works, Signal(b) \/ Finish(b) \/ Panic(b) PROVE [Order!Next]_(Order!vars)
  <2>1. CASE Finish(b)
    BY <1>1, <1>5, <2>1 DEF Finish, Shape
  <2>2. CASE Panic(b)
    BY <1>1, <1>5, <2>2 DEF Panic, Shape, Absent
  <2>3. CASE Signal(b) /\ worker[b].next # NoWork /\ ended[worker[b].next.conn]
    BY <1>5, <2>3 DEF Signal
  <2>4. CASE Signal(b) /\ worker[b].next # NoWork /\ ~ended[worker[b].next.conn]
    <3>1. worker' = [worker EXCEPT ![b].at = "run"] /\ pending' = pending
      BY <2>4 DEF Signal
    <3> QED
      BY <1>1, <1>2, <3>1 DEF Shape
  <2>5. CASE Signal(b) /\ worker[b].next = NoWork
    <3>1. worker' = [worker EXCEPT ![b] = Absent] /\ pending' = pending
      BY <2>5 DEF Signal
    <3> QED
      BY <1>1, <1>2, <2>5, <3>1 DEF Shape, Absent
  <2> QED
    BY <1>6, <2>1, <2>2, <2>3, <2>4, <2>5
<1>7. ASSUME NEW c \in Conns, Spawn(c) PROVE [Order!Next]_(Order!vars)
  <2>1. /\ worker' = [worker EXCEPT ![reader[c].work].at = "pop"] /\ pending' = pending
        /\ reader[c].work \in Works
    BY <1>1, <1>7 DEF Spawn, At, Shape
  <2> QED
    BY <1>1, <1>2, <2>1 DEF Shape
<1>8. CASE UNCHANGED <<pending, worker>>
  BY <1>2, <1>8
<1> QED
  BY <1>3, <1>4, <1>6, <1>7, <1>8 DEF Next, Dispatch, Turn, vars, laneVars, Read, AcquireSlot,
     Park, Wake, PassBarrier, ServeOrdered, EndLoop, Leave, Abort

\* One mutation of a resource at a time, in the order of its admission, and a
\* connection's in the order it read them, whatever fails.
THEOREM KeyOrderImplemented == Spec => ImplementsKeyOrder
  BY Inductive, InitOrder, StepOrder, PTL DEF Spec, ImplementsKeyOrder, Order!Spec

\* A connection that leaves by its shutdown announced its end.
Announced ==
    \A c \in Conns :
        reader[c].at \in {"ending", "gone"} => ended[c] \/ c \in failed

\* What a connection that left by its shutdown queued and did not start never
\* starts, whatever fails around it.
THEOREM LeftStartsNothing == Spec => LeftNeverStarts
<1>1. Init => Announced
  BY DEF Init, Announced, Idle
<1>2. ASSUME IInv, Announced, [Next]_vars PROVE Announced'
  <2>1. Shape
    BY <1>2 DEF IInv
  <2>2. ASSUME NEW c \in Conns, ended' = ended, failed' = failed,
               \E s \in {"slot", "barrier", "look", "spawn", "full", "parked", "ordered", "reading"} :
                   \/ Goes(c, s)
                   \/ \E w : reader' = [reader EXCEPT ![c] = [at |-> s, work |-> w]]
        PROVE  Announced'
    <3>1. \A d \in Conns : \/ reader'[d].at = reader[d].at
                           \/ reader'[d].at \notin {"ending", "gone"}
      <4>1. PICK s \in {"slot", "barrier", "look", "spawn", "full", "parked", "ordered", "reading"} :
                \/ Goes(c, s)
                \/ \E w : reader' = [reader EXCEPT ![c] = [at |-> s, work |-> w]]
        BY <2>2
      <4>2. CASE Goes(c, s)
        BY <2>1, <4>2, GoesTo DEF Stages
      <4>3. CASE \E w : reader' = [reader EXCEPT ![c] = [at |-> s, work |-> w]]
        <5>1. PICK w : reader' = [reader EXCEPT ![c] = [at |-> s, work |-> w]]
          BY <4>3
        <5>2. reader \in Readers
          BY <2>1 DEF Shape
        <5> QED
          BY <5>1, <5>2 DEF Readers
      <4> QED
        BY <4>1, <4>2, <4>3
    <3> QED
      BY <1>2, <2>2, <3>1 DEF Announced
  <2>3. ASSUME NEW c \in Conns, Read(c) \/ Dispatch(c), ~Leave(c) PROVE Announced'
    <3>1. CASE Read(c)
      BY <2>2, <3>1 DEF Read, laneVars
    <3>2. CASE AcquireSlot(c) \/ Park(c) \/ Wake(c) \/ PassBarrier(c) \/ ServeOrdered(c)
      BY <2>2, <3>2 DEF AcquireSlot, Park, Wake, PassBarrier, ServeOrdered, laneVars
    <3>3. CASE Spawn(c)
      BY <2>2, <3>3 DEF Spawn, Idle
    <3>4. CASE Look(c)
      <4>1. CASE Goes(c, "full")
        BY <2>2, <3>4, <4>1 DEF Look
      <4>2. CASE reader' = [reader EXCEPT ![c] = Idle]
        BY <2>2, <3>4, <4>2 DEF Look, Idle
      <4>3. CASE reader' = [reader EXCEPT ![c] = [reader[c] EXCEPT !.at = "spawn"]]
        BY <2>2, <3>4, <4>3 DEF Look, Goes
      <4> QED
        BY <3>4, <4>1, <4>2, <4>3 DEF Look
    <3> QED
      BY <2>3, <3>1, <3>2, <3>3, <3>4 DEF Dispatch
  <2>4. ASSUME NEW c \in Conns, Leave(c) PROVE Announced'
    BY <1>2, <2>1, <2>4 DEF Leave, At, Goes, Announced, Shape, laneVars
  <2>5. ASSUME NEW c \in Conns, EndLoop(c) PROVE Announced'
    BY <1>2, <2>1, <2>5 DEF EndLoop, Goes, Announced, Shape, laneVars
  <2>6. CASE UNCHANGED <<reader, ended>> /\ failed \subseteq failed'
    BY <1>2, <2>6 DEF Announced
  <2>7. ASSUME NEW c \in Conns, Abort(c) PROVE Announced'
    <3>1. c \in failed' /\ failed \subseteq failed' /\ ended' = ended
      BY <2>7 DEF Abort
    <3>2. \A d \in Conns : d # c => reader'[d] = reader[d]
      BY <2>1, <2>7 DEF Abort, Shape
    <3> QED
      BY <1>2, <3>1, <3>2 DEF Announced
  <2>8. ASSUME NEW b \in Works, Turn(b) \/ Panic(b) PROVE Announced'
    BY <2>6, <2>8 DEF Turn, Panic, Pop, Signal, Finish, readerVars
  <2>9. CASE UNCHANGED vars
    BY <2>6, <2>9 DEF vars, readerVars, laneVars
  <2> QED
    BY <1>2, <2>3, <2>4, <2>5, <2>7, <2>8, <2>9 DEF Next, Dispatch
<1>3. ASSUME IInv, Announced, [Next]_vars, NEW b \in Works,
             worker[b].at = "signal", worker'[b].at = "run"
      PROVE  At(worker[b].next.conn, "gone") => worker[b].next.conn \in failed
  <2>1. worker \in Workers /\ \A w \in Works : w.conn \in Conns
    BY <1>3, LaneAssumption DEF IInv, Shape, Works
  <2>2. CASE Signal(b)
    <3>1. worker[b].next \in Works /\ ~ended[worker[b].next.conn]
      BY <2>1, <1>3, <2>2 DEF Signal, Workers, Absent
    <3> QED
      BY <1>3, <2>1, <3>1 DEF Announced, At
  <2>3. ASSUME NEW a \in Works, a # b, Signal(a) PROVE FALSE
    BY <1>3, <2>1, <2>3 DEF Signal, Workers
  <2>4. ASSUME NEW a \in Works, Pop(a) \/ Finish(a) \/ Panic(a) PROVE FALSE
    BY <1>3, <2>1, <2>4 DEF Pop, Finish, Panic, Workers, Absent
  <2>5. ASSUME NEW c \in Conns, Spawn(c) PROVE FALSE
    BY <1>3, <2>1, <2>5 DEF Spawn
  <2>6. CASE worker' = worker
    BY <1>3, <2>6
  <2> QED
    BY <1>3, <2>2, <2>3, <2>4, <2>5, <2>6 DEF Next, Dispatch, Turn, vars, laneVars, Read, AcquireSlot,
       Look, Park, Wake, PassBarrier, ServeOrdered, EndLoop, Leave, Abort
<1>4. IInv /\ Announced /\ [Next]_vars =>
         [\A w \in Works : Starts(w) /\ At(w.conn, "gone") => w.conn \in failed]_vars
  BY <1>3 DEF Starts
<1> QED
  BY <1>1, <1>2, <1>4, Inductive, PTL DEF Spec, LeftNeverStarts
=============================================================================
