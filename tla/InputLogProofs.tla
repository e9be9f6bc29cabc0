---------------------------- MODULE InputLogProofs ----------------------------
(***************************************************************************)
(* Sequenced input loses nothing silently, gives every position to one     *)
(* chunk and, while every write completes, implements InputLog: for every  *)
(* number of pages, connections, epochs and generations.                   *)
(***************************************************************************)
EXTENDS TerminalInputProofs

\* The queue of a page outlives its connections: the page types once it was
\* attached, keeps its transport, and no chunk outlives maxAgeMs.
QueueSurvives == Events \cap {"early", "age", "swap"} = {}

-----------------------------------------------------------------------------
(* A page: its queue q, its copy of the lease l, its phase ph and what is  *)
(* on its way to it, D; the Session s it may be subscribed to.             *)

\* The positions a queue holds, the last of them, and the chunk at one.
End(q)     == q.cursor + Len(q.chunks)
Open(q, p) == p \in Nat /\ q.cursor < p /\ p <= End(q)
At(q, p)   == q.chunks[p - q.cursor]

\* What the agent says of its cursor, and what makes page c a controller.
States(m)    == m.kind # "control"
Claims(c, m) ==
    \/ m.kind = "control" /\ m.holder = c
    \/ m.kind = "attached" /\ m.role = "controller"

\* Epoch e and generation g are those of the Session.
Current(s, e, g) == e # 0 /\ s.epoch = e /\ s.gen = g

\* The epoch of everything on its way to a page.
EpochOf(q, ph, D) == IF ph = "attached" THEN q.epoch ELSE D[1].epoch

\* Once the first i messages are read, the queue of epoch e and generation g
\* ends no sooner than position t.
Reaches(q, ph, D, e, g, i, t) ==
    \/ q.epoch = e /\ q.gen = g /\ t <= End(q)
    \/ ph = "attached" /\ t <= q.cursor
    \/ \E k \in 1..i : States(D[k]) /\ t <= D[k].through

Mine(q, m) == States(m) /\ m.epoch = q.epoch /\ m.gen = q.gen

\* The queue is bound to the generation of the lease, and to an epoch before
\* anything is typed.
QueueBound(q, l, ph) ==
    /\ q.epoch # 0 => l.gen = q.gen
    /\ ph = "attached" => q.epoch # 0
    /\ q.epoch = 0 => q.chunks = <<>> /\ q.cursor = 0

QueueBehind(q, s, N) ==
    /\ q.epoch <= N
    /\ q.epoch # 0 /\ q.epoch = s.epoch => q.gen <= s.gen /\ q.cursor <= s.applied

\* Whose queue is current and not empty, or who takes itself for the
\* controller of the current generation, has had the lease.
QueueOwner(c, q, l, s) ==
    (q.chunks # <<>> \/ l.role = "controller") /\ Current(s, q.epoch, q.gen)
        => s.holder \in {c, NoPage}

QueueReaches(q, l, s) ==
    l.role = "controller" /\ Current(s, q.epoch, q.gen) => s.applied <= End(q)

QueueApplied(q, s, pane) ==
    Current(s, q.epoch, q.gen) =>
        \A p \in Nat : Open(q, p) /\ p <= s.applied => At(q, p) \in pane

InboxShape(ph, D) ==
    /\ ph = "down" => D = <<>>
    /\ \A i \in 1..Len(D) : D[i].kind = "attached" <=> (i = 1 /\ ph = "attaching")

\* One epoch, generations in order, and an acknowledgement in the generation
\* of what precedes it.
InboxOrder(q, ph, D) ==
    \A i \in 1..Len(D) :
        /\ EpochOf(q, ph, D) # 0 /\ q.epoch <= EpochOf(q, ph, D)
        /\ States(D[i]) => D[i].epoch = EpochOf(q, ph, D)
        /\ EpochOf(q, ph, D) = q.epoch => q.gen <= D[i].gen
        /\ \A j \in 1..i : D[j].gen <= D[i].gen
        /\ D[i].kind = "ack" => D[i].gen = (IF i = 1 THEN q.gen ELSE D[i - 1].gen)

InboxBehind(q, ph, D, s, N) ==
    \A i \in 1..Len(D) :
        /\ EpochOf(q, ph, D) <= N
        /\ EpochOf(q, ph, D) = s.epoch =>
               D[i].gen <= s.gen /\ (States(D[i]) => D[i].through <= s.applied)

InboxOwner(c, q, ph, D, s) ==
    \A i \in 1..Len(D) :
        Claims(c, D[i]) /\ Current(s, EpochOf(q, ph, D), D[i].gen) => s.holder \in {c, NoPage}

\* Who becomes the controller of the current generation will know of every
\* position applied before.
InboxReaches(c, q, ph, D, s) ==
    \A i \in 1..Len(D) :
        Claims(c, D[i]) /\ Current(s, EpochOf(q, ph, D), D[i].gen)
            => Reaches(q, ph, D, EpochOf(q, ph, D), D[i].gen, i, s.applied)

InboxCovers(c, q, ph, D) ==
    \A i, j \in 1..Len(D) :
        i < j /\ Claims(c, D[i]) /\ States(D[j]) /\ D[i].gen = D[j].gen
            => Reaches(q, ph, D, EpochOf(q, ph, D), D[i].gen, i, D[j].through)

InboxShort(q, l, D) ==
    l.role = "controller" =>
        \A j \in 1..Len(D) : Mine(q, D[j]) => D[j].through <= End(q)

\* What an acknowledgement takes from the queue is in the pane.
InboxApplied(q, D, pane) ==
    \A j \in 1..Len(D) : Mine(q, D[j]) =>
        \A p \in Nat : Open(q, p) /\ p <= D[j].through => At(q, p) \in pane

PageInv(c, q, l, ph, D, s, N, pane) ==
    /\ QueueBound(q, l, ph) /\ QueueBehind(q, s, N) /\ QueueOwner(c, q, l, s)
    /\ QueueReaches(q, l, s) /\ QueueApplied(q, s, pane)
    /\ InboxShape(ph, D) /\ InboxOrder(q, ph, D) /\ InboxBehind(q, ph, D, s, N)
    /\ InboxOwner(c, q, ph, D, s) /\ InboxReaches(c, q, ph, D, s) /\ InboxCovers(c, q, ph, D)
    /\ InboxShort(q, l, D) /\ InboxApplied(q, D, pane)

\* A page that is subscribed has been told, or is being told, the epoch, the
\* generation and the cursor of the Session.
ToldEpoch(q, ph, D, s) ==
    /\ D = <<>> => ph = "attached" /\ q.epoch = s.epoch
    /\ D # <<>> => EpochOf(q, ph, D) = s.epoch

ToldLease(q, ph, D, s) ==
    /\ D = <<>> => q.gen = s.gen
    /\ D # <<>> => D[Len(D)].gen = s.gen

ToldCursor(q, ph, D, s) ==
    \/ ph = "attached" /\ s.applied <= q.cursor
    \/ \E k \in 1..Len(D) : States(D[k]) /\ s.applied <= D[k].through

\* What was sent for position p in epoch e under generation g is what the
\* queue holds there, while it holds it.
SentAt(q, e, g, p, x) ==
    /\ e <= q.epoch
    /\ e = q.epoch => g <= q.gen
    /\ e = q.epoch /\ g = q.gen => p <= End(q) /\ (q.cursor < p => x = At(q, p))
-----------------------------------------------------------------------------
(* The invariant.                                                          *)

Inbox(c) == IF conn[c] = 0 THEN <<>> ELSE down[conn[c]]

Pane == ToSet(pty)

Pages0 == \A c \in Pages :
    PageInv(c, queue[c], lease[c], phase[c], Inbox(c), session, epochs, Pane)

Subscribed(c) == conn[c] \in open /\ IsPeer(conn[c])

Told == \A c \in Pages : Subscribed(c) =>
    /\ ToldEpoch(queue[c], phase[c], Inbox(c), session)
    /\ ToldLease(queue[c], phase[c], Inbox(c), session)
    /\ ToldCursor(queue[c], phase[c], Inbox(c), session)

\* Nothing waits for a page on a connection it does not use.
Channels ==
    /\ aged = {}
    /\ \A c \in Pages : conn[c] = 0 <=> phase[c] = "down"
    /\ \A n \in Conns : n \notin DOMAIN owner \/ conn[owner[n]] # n => down[n] = <<>>

\* The frame that attaches a connection is its first.
AttachFirst ==
    \A n \in open : \A i \in 1..Len(up[n]) : up[n][i].kind = "attach" =>
        /\ i = 1 /\ down[n] = <<>>
        /\ ~IsPeer(n)
        /\ work # Idle => n \notin work.peers
        /\ conn[owner[n]] = n => phase[owner[n]] = "attaching"

SentFrames ==
    \A n \in open : \A i \in 1..Len(up[n]) :
        LET f == up[n][i]
        IN  f.kind = "input" => SentAt(queue[owner[n]], f.epoch, f.gen, f.seq, f.chunk)

SentWork ==
    work # Idle => SentAt(queue[owner[work.conn]], work.epoch, work.gen, work.through, work.chunk)

\* The mutation in progress belongs to the Session attached, if there is one,
\* and its command is the last one admitted until it is written.
Writing ==
    work # Idle =>
        /\ session # NoSession =>
               /\ session.epoch = work.epoch
               /\ session.peers \subseteq work.peers /\ work.peers \cap open \subseteq session.peers
        /\ work.peers \subseteq DOMAIN owner
        /\ work.written => work.chunk \in Pane
        /\ ~work.written => writeQ[work.epoch] # <<>> /\ Last(writeQ[work.epoch]) = work.chunk

Numbering ==
    Pages0 /\ Told /\ Channels /\ AttachFirst /\ SentFrames /\ SentWork /\ Writing
-----------------------------------------------------------------------------
(* Positions of a queue.                                                   *)

LEMMA Positions ==
    ASSUME NEW k \in Nat, NEW q \in Queues(k)
    PROVE  /\ q.cursor \in Nat /\ Len(q.chunks) \in Nat /\ End(q) \in Nat
           /\ q.epoch \in Nat /\ q.gen \in Nat /\ q.chunks \in Seq(1..k)
           /\ q.cursor <= End(q)
           /\ \A p : Open(q, p) => p - q.cursor \in 1..Len(q.chunks)
           /\ \A i \in 1..Len(q.chunks) : Open(q, q.cursor + i) /\ At(q, q.cursor + i) = q.chunks[i]
           /\ q.chunks = <<>> <=> End(q) = q.cursor
           /\ \A p : Open(q, p) => q.chunks # <<>>
           /\ \A x : x \in ToSet(q.chunks) <=> \E p \in Nat : Open(q, p) /\ At(q, p) = x
<1>1. /\ q.cursor \in Nat /\ Len(q.chunks) \in Nat /\ q.chunks \in Seq(1..k)
      /\ q.epoch \in Nat /\ q.gen \in Nat
      /\ DOMAIN q.chunks = 1..Len(q.chunks)
  BY QueueFields, LenProperties
<1>2. q.chunks = <<>> <=> Len(q.chunks) = 0
  BY <1>1, EmptySeq
<1>3. \A p : Open(q, p) => p - q.cursor \in 1..Len(q.chunks)
  BY <1>1 DEF Open, End
<1>4. \A i \in 1..Len(q.chunks) : Open(q, q.cursor + i) /\ At(q, q.cursor + i) = q.chunks[i]
  <2> SUFFICES ASSUME NEW i \in 1..Len(q.chunks)
               PROVE  Open(q, q.cursor + i) /\ At(q, q.cursor + i) = q.chunks[i]
    OBVIOUS
  <2>1. (q.cursor + i) - q.cursor = i /\ q.cursor + i \in Nat
        /\ q.cursor < q.cursor + i /\ q.cursor + i <= q.cursor + Len(q.chunks)
    BY <1>1
  <2> QED
    BY <2>1 DEF Open, At, End
<1>5. End(q) \in Nat /\ q.cursor <= End(q) /\ (q.chunks = <<>> <=> End(q) = q.cursor)
  BY <1>1, <1>2 DEF End
<1>6. \A p : Open(q, p) => q.chunks # <<>>
  BY <1>1, <1>2, <1>3
<1>7. ASSUME NEW x PROVE x \in ToSet(q.chunks) <=> \E p \in Nat : Open(q, p) /\ At(q, p) = x
  <2>1. ASSUME x \in ToSet(q.chunks) PROVE \E p \in Nat : Open(q, p) /\ At(q, p) = x
    <3>1. PICK i \in 1..Len(q.chunks) : x = q.chunks[i]
      BY <1>1, <2>1 DEF ToSet
    <3>2. q.cursor + i \in Nat
      BY <1>1
    <3> QED
      BY <1>4, <3>1, <3>2
  <2>2. ASSUME NEW p \in Nat, Open(q, p), At(q, p) = x PROVE x \in ToSet(q.chunks)
    BY <1>1, <1>3, <2>2 DEF At, ToSet
  <2> QED
    BY <2>1, <2>2
<1> QED
  BY <1>1, <1>3, <1>4, <1>5, <1>6, <1>7

\* r is q with chunks taken from the front.
Follows(q, r) ==
    /\ r.epoch = q.epoch /\ r.gen = q.gen /\ r.lost = q.lost
    /\ q.cursor <= r.cursor /\ End(q) <= End(r)
    /\ \A p \in Nat : Open(r, p) => Open(q, p) /\ At(r, p) = At(q, p)

LEMMA AckPositions ==
    ASSUME NEW k \in Nat, NEW q \in Queues(k), NEW e \in Nat, NEW t \in Nat,
           NEW r, r = Acknowledge(q, e, t), q.epoch \in {0, e}
    PROVE  /\ r \in Queues(k) /\ Follows(q, r)
           /\ t <= r.cursor /\ r.cursor \in {q.cursor, t}
           /\ \A p \in Nat : Open(q, p) /\ t < p => Open(r, p) /\ At(r, p) = At(q, p)
           /\ \A p \in Nat : Open(r, p) => t < p
<1>1. Acknowledged(k, q, r, e, t)
  BY AcknowledgeDoes, Zenon
<1>2. /\ q.cursor \in Nat /\ Len(q.chunks) \in Nat /\ q.chunks \in Seq(1..k)
  BY Positions
<1>3. CASE t <= q.cursor
  <2>1. r = q
    BY <1>1, <1>3 DEF Acknowledged
  <2> QED
    BY <1>2, <1>3, <2>1 DEF Follows, Open, End
<1>4. CASE t > q.cursor
  <2>1. /\ r \in Queues(k) /\ r.epoch = q.epoch /\ r.gen = q.gen /\ r.lost = q.lost
        /\ r.cursor = t
        /\ t - q.cursor < Len(q.chunks) =>
               /\ Len(r.chunks) = Len(q.chunks) - (t - q.cursor)
               /\ \A i \in 1..Len(q.chunks) - (t - q.cursor) : r.chunks[i] = q.chunks[i + (t - q.cursor)]
        /\ t - q.cursor >= Len(q.chunks) => r.chunks = <<>>
    BY <1>1, <1>4 DEF Acknowledged
  <2>2. CASE t - q.cursor < Len(q.chunks)
    <3>0. r.cursor = t /\ Len(r.chunks) = Len(q.chunks) - (t - q.cursor)
      BY <2>1, <2>2
    <3>1. End(r) = End(q)
      <4> DEFINE a == q.cursor
                 b == Len(q.chunks)
                 d == Len(r.chunks)
      <4>1. a \in Nat /\ b \in Nat /\ d = b - (t - a)
        BY <1>2, <3>0
      <4>2. End(q) = a + b /\ End(r) = t + d
        BY <3>0 DEF End
      <4> HIDE DEF a, b, d
      <4> QED
        BY <4>1, <4>2
    <3>2. ASSUME NEW p \in Nat, t < p, p <= End(q)
          PROVE  Open(r, p) /\ Open(q, p) /\ At(r, p) = At(q, p)
      <4>1. Open(r, p) /\ Open(q, p)
        BY <1>2, <1>4, <2>1, <3>1, <3>2 DEF Open
      <4>2. p - t \in 1..Len(q.chunks) - (t - q.cursor) /\ (p - t) + (t - q.cursor) = p - q.cursor
        BY <1>2, <1>4, <2>2, <3>2 DEF End
      <4>3. r.chunks[p - t] = q.chunks[p - q.cursor]
        BY <2>1, <2>2, <4>2
      <4> QED
        BY <2>1, <4>1, <4>3 DEF At
    <3>3. \A p \in Nat : Open(r, p) => t < p /\ p <= End(q)
      BY <2>1, <3>1 DEF Open
    <3>4. \A p \in Nat : Open(q, p) => p <= End(q)
      BY DEF Open
    <3>5. End(q) <= End(r) /\ q.cursor <= r.cursor
      BY <1>2, <1>4, <2>1, <3>1 DEF End
    <3> QED
      BY <2>1, <1>2, <1>4, <3>2, <3>3, <3>4, <3>5 DEF Follows
  <2>3. CASE t - q.cursor >= Len(q.chunks)
    <3>1. r.chunks = <<>> /\ End(r) = t
      BY <2>1, <2>3, Positions
    <3>2. End(q) <= t
      BY <1>2, <1>4, <2>3 DEF End
    <3>3. \A p \in Nat : ~Open(r, p)
      BY <2>1, <3>1 DEF Open
    <3>4. \A p \in Nat : Open(q, p) => ~(t < p)
      BY <1>2, <3>2 DEF Open, End
    <3> QED
      BY <1>2, <1>4, <2>1, <3>1, <3>2, <3>3, <3>4 DEF Follows
  <2> QED
    BY <1>2, <1>4, <2>2, <2>3
<1> QED
  BY <1>2, <1>3, <1>4
-----------------------------------------------------------------------------
(* A page reads a message.                                                 *)

\* r is q after message m, in epoch e: the same chunks at the same positions
\* from the cursor the message states, or none of them under another number.
\* What is not held any more was reported or is in the pane.
Took(k, q, r, e, m, pane) ==
    /\ r \in Queues(k) /\ r.epoch = e /\ r.gen = m.gen
    /\ States(m) => m.through <= r.cursor
    /\ q.epoch = e => q.cursor <= r.cursor
    /\ \/ q.epoch = e /\ r.cursor = q.cursor
       \/ States(m) /\ r.cursor = m.through
    /\ q.epoch = e /\ q.gen = m.gen => End(q) <= End(r)
    /\ \A p \in Nat : Open(r, p) =>
           q.epoch = e /\ q.gen = m.gen /\ Open(q, p) /\ At(r, p) = At(q, p)
    /\ q.lost \subseteq r.lost /\ r.lost \subseteq q.lost \cup ToSet(q.chunks)
    /\ ToSet(r.chunks) \subseteq ToSet(q.chunks)
    /\ ToSet(q.chunks) \subseteq ToSet(r.chunks) \cup r.lost \cup pane

\* r holds what q holds at its positions, and whatever else q held is in X.
Keeps(q, r, X) ==
    /\ \A p \in Nat : Open(r, p) => Open(q, p) /\ At(r, p) = At(q, p)
    /\ \A p \in Nat : Open(q, p) => Open(r, p) \/ At(q, p) \in X

LEMMA HeldChunks ==
    ASSUME NEW k \in Nat, NEW q \in Queues(k), NEW r \in Queues(k), NEW X, Keeps(q, r, X)
    PROVE  ToSet(r.chunks) \subseteq ToSet(q.chunks) /\ ToSet(q.chunks) \subseteq ToSet(r.chunks) \cup X
<1>1. \A x : x \in ToSet(q.chunks) <=> \E p \in Nat : Open(q, p) /\ At(q, p) = x
  BY Positions
<1>2. \A x : x \in ToSet(r.chunks) <=> \E p \in Nat : Open(r, p) /\ At(r, p) = x
  BY Positions
<1> QED
  BY <1>1, <1>2 DEF Keeps

LEMMA NoChunks ==
    ASSUME NEW k \in Nat, NEW q \in Queues(k), q.chunks = <<>>
    PROVE  /\ End(q) = q.cursor /\ ToSet(q.chunks) = {}
           /\ \A p \in Nat : ~Open(q, p)
  BY Positions DEF Open, ToSet

\* What the head of an inbox is, and of which epoch.
LEMMA HeadIs ==
    ASSUME NEW D \in Seq(Messages), D # <<>>, NEW q, NEW ph \in Phases,
           InboxShape(ph, D), InboxOrder(q, ph, D)
    PROVE  /\ 1 \in 1..Len(D) /\ D[1] \in Messages
           /\ EpochOf(q, ph, D) # 0
           /\ States(D[1]) => D[1].epoch = EpochOf(q, ph, D)
           /\ D[1].kind = "ack" => D[1].gen = q.gen
           /\ D[1].kind = "attached" => ph = "attaching" /\ EpochOf(q, ph, D) = D[1].epoch
           /\ D[1].kind # "attached" => ph = "attached" /\ EpochOf(q, ph, D) = q.epoch
<1>1. Len(D) \in Nat \ {0} /\ 1 \in 1..Len(D) /\ D[1] \in Messages
  BY EmptySeq, ElementOfSeq
<1>2. ph # "down" /\ (D[1].kind = "attached" <=> ph = "attaching")
  BY <1>1 DEF InboxShape
<1>3. /\ EpochOf(q, ph, D) # 0
      /\ States(D[1]) => D[1].epoch = EpochOf(q, ph, D)
      /\ D[1].kind = "ack" => D[1].gen = q.gen
  BY <1>1 DEF InboxOrder
<1> QED
  BY <1>1, <1>2, <1>3 DEF Phases, EpochOf

LEMMA TakesAck ==
    ASSUME NEW k \in Nat, NEW q \in Queues(k), NEW l, NEW ph \in Phases,
           NEW D \in Seq(Messages), NEW pane, NEW m, NEW r, D # <<>>, m = D[1],
           QueueBound(q, l, ph), InboxShape(ph, D), InboxOrder(q, ph, D), InboxApplied(q, D, pane),
           m.kind = "ack", r = NoteGeneration(Acknowledge(q, m.epoch, m.through), m.gen)
    PROVE  Took(k, q, r, EpochOf(q, ph, D), m, pane)
<1>1. /\ m \in Messages /\ EpochOf(q, ph, D) = q.epoch /\ m.gen = q.gen /\ m.epoch = q.epoch
      /\ 1 \in 1..Len(D) /\ States(m) /\ Mine(q, m)
  BY HeadIs DEF States, Mine
<1>2. m.epoch \in Nat /\ m.through \in Nat /\ m.gen \in Nat
  BY <1>1, MessageFields
<1>3. PICK s : s = Acknowledge(q, m.epoch, m.through)
  OBVIOUS
<1>4. /\ s \in Queues(k) /\ Follows(q, s) /\ m.through <= s.cursor
      /\ s.cursor \in {q.cursor, m.through}
      /\ \A p \in Nat : Open(q, p) /\ m.through < p => Open(s, p) /\ At(s, p) = At(q, p)
  BY <1>1, <1>2, <1>3, AckPositions
<1>5. r = s
  BY <1>1, <1>2, <1>3, <1>4, NoteDoes DEF Follows
<1>6. \A p \in Nat : Open(q, p) /\ p <= m.through => At(q, p) \in pane
  BY <1>1 DEF InboxApplied
<1>7. ToSet(s.chunks) \subseteq ToSet(q.chunks)
      /\ ToSet(q.chunks) \subseteq ToSet(s.chunks) \cup s.lost \cup pane
  <2>1. \A p \in Nat : Open(s, p) => Open(q, p) /\ At(s, p) = At(q, p)
    BY <1>4 DEF Follows
  <2>2. \A p \in Nat : m.through < p \/ p <= m.through
    BY <1>2
  <2>3. \A p \in Nat : Open(q, p) => Open(s, p) \/ At(q, p) \in pane
    BY <1>4, <1>6, <2>2
  <2>4. s \in Queues(k)
    BY <1>4
  <2>5. ToSet(s.chunks) \subseteq ToSet(q.chunks) /\ ToSet(q.chunks) \subseteq ToSet(s.chunks) \cup pane
    <3>1. Keeps(q, s, pane)
      BY <2>1, <2>3 DEF Keeps
    <3> QED
      BY <2>4, <3>1, HeldChunks
  <2> QED
    BY <2>5
<1> QED
  BY <1>1, <1>4, <1>5, <1>7 DEF Took, Follows

LEMMA TakesControl ==
    ASSUME NEW k \in Nat, NEW q \in Queues(k), NEW l, NEW ph \in Phases,
           NEW D \in Seq(Messages), NEW pane, NEW m, NEW r, D # <<>>, m = D[1],
           QueueBound(q, l, ph), InboxShape(ph, D), InboxOrder(q, ph, D),
           m.kind = "control", r = NoteGeneration(q, m.gen)
    PROVE  Took(k, q, r, EpochOf(q, ph, D), m, pane)
<1>1. m \in Messages /\ EpochOf(q, ph, D) = q.epoch /\ q.epoch # 0 /\ ~States(m)
  BY HeadIs DEF States
<1>2. m.gen \in Nat
  BY <1>1, MessageFields
<1>3. /\ q.gen = m.gen => r = q
      /\ q.gen # m.gen => Rebound(k, q, r, q.epoch, m.gen)
  BY <1>1, <1>2, NoteDoes
<1>4. q.cursor \in Nat /\ End(q) \in Nat
  BY Positions
<1>5. CASE q.gen = m.gen
  BY <1>1, <1>3, <1>4, <1>5 DEF Took
<1>6. CASE q.gen # m.gen
  <2>1. /\ r \in Queues(k) /\ r.epoch = q.epoch /\ r.gen = m.gen /\ r.cursor = q.cursor
        /\ r.chunks = <<>> /\ r.lost = q.lost \cup ToSet(q.chunks)
    BY <1>3, <1>6 DEF Rebound
  <2>2. ToSet(r.chunks) = {} /\ \A p \in Nat : ~Open(r, p)
    BY <2>1, NoChunks
  <2> QED
    BY <1>1, <1>4, <1>6, <2>1, <2>2 DEF Took
<1> QED
  BY <1>5, <1>6

\* Bound to the epoch and generation of an attach, a queue holds what it held
\* under them, or nothing.
Attaches(k, q, r, e, g) ==
    /\ r \in Queues(k) /\ r.epoch = e /\ r.gen = g
    /\ q.epoch = e => r.cursor = q.cursor
    /\ q.epoch # e => r.cursor = 0
    /\ q.epoch = e /\ q.gen = g => r.chunks = q.chunks /\ r.lost = q.lost
    /\ ~(q.epoch = e /\ q.gen = g) =>
           r.chunks = <<>> /\ r.lost = q.lost \cup ToSet(q.chunks)

LEMMA BoundTo ==
    ASSUME NEW k \in Nat, NEW q \in Queues(k), NEW e \in Nat, NEW g \in Nat, e # 0,
           q.epoch = 0 => q.chunks = <<>> /\ q.cursor = 0,
           NEW r, r = Rebind(NoteGeneration(q, g), e, g)
    PROVE  Attaches(k, q, r, e, g)
<1>1. PICK n : n = NoteGeneration(q, g)
  OBVIOUS
<1>2. n \in Queues(k)
  BY <1>1, NoteDoes, Zenon
<1>3. Rebound(k, n, r, e, g)
  BY <1>1, <1>2, RebindDoes, Zenon
<1>4. n \in Queues(k)
  BY <1>1, NoteDoes
<1>5. CASE q.epoch = 0
  <2>1. n = q /\ ToSet(q.chunks) = {} /\ q.lost \cup ToSet(q.chunks) = q.lost
    BY <1>1, <1>5, NoteDoes, NoChunks
  <2> QED
    BY <1>3, <1>5, <2>1 DEF Rebound, Attaches
<1>6. CASE q.epoch # 0 /\ q.gen = g
  <2>1. n = q
    BY <1>1, <1>6, NoteDoes
  <2> QED
    BY <1>3, <1>6, <2>1 DEF Rebound, Attaches
<1>7. CASE q.epoch # 0 /\ q.gen # g
  <2>1. /\ n.epoch = q.epoch /\ n.gen = g /\ n.cursor = q.cursor
        /\ n.chunks = <<>> /\ n.lost = q.lost \cup ToSet(q.chunks)
    BY <1>1, <1>7, NoteDoes DEF Rebound
  <2>2. n.lost \cup ToSet(n.chunks) = n.lost
    BY <1>4, <2>1, NoChunks
  <2> QED
    BY <1>3, <1>7, <2>1, <2>2 DEF Rebound, Attaches
<1> QED
  BY <1>5, <1>6, <1>7

LEMMA TakesAttached ==
    ASSUME NEW k \in Nat, NEW q \in Queues(k), NEW l, NEW ph \in Phases,
           NEW D \in Seq(Messages), NEW pane, NEW m, NEW r, D # <<>>, m = D[1],
           QueueBound(q, l, ph), InboxShape(ph, D), InboxOrder(q, ph, D), InboxApplied(q, D, pane),
           m.kind = "attached",
           r = Reconcile(NoteGeneration(q, m.gen), m.epoch, m.gen, m.through)
    PROVE  Took(k, q, r, EpochOf(q, ph, D), m, pane)
<1>1. /\ m \in Messages /\ EpochOf(q, ph, D) = m.epoch /\ m.epoch # 0 /\ States(m)
      /\ 1 \in 1..Len(D)
  BY HeadIs DEF States
<1>2. m.epoch \in Nat /\ m.through \in Nat /\ m.gen \in Nat
  BY <1>1, MessageFields
<1>3. PICK b : b = Rebind(NoteGeneration(q, m.gen), m.epoch, m.gen)
  OBVIOUS
<1>4. Attaches(k, q, b, m.epoch, m.gen)
  <2>1. q.epoch = 0 => q.chunks = <<>> /\ q.cursor = 0
    BY DEF QueueBound
  <2> QED
    BY <1>1, <1>2, <1>3, <2>1, BoundTo
<1>5. r = Acknowledge(b, m.epoch, m.through)
  BY <1>3 DEF Reconcile
<1>6. /\ r \in Queues(k) /\ Follows(b, r)
      /\ m.through <= r.cursor /\ r.cursor \in {b.cursor, m.through}
      /\ \A p \in Nat : Open(b, p) /\ m.through < p => Open(r, p) /\ At(r, p) = At(b, p)
  <2>1. b \in Queues(k) /\ b.epoch = m.epoch
    BY <1>4 DEF Attaches
  <2> QED
    BY <1>2, <1>5, <2>1, AckPositions
<1>7. q.epoch = m.epoch => q.cursor <= r.cursor
  BY <1>4, <1>6 DEF Follows, Attaches
<1>8. \/ q.epoch = m.epoch /\ r.cursor = q.cursor
      \/ r.cursor = m.through
  BY <1>2, <1>4, <1>6 DEF Attaches
<1>9. CASE q.epoch = m.epoch /\ q.gen = m.gen
  <2>1. \A p \in Nat : (Open(b, p) <=> Open(q, p)) /\ At(b, p) = At(q, p)
    BY <1>4, <1>9 DEF Open, At, End, Attaches
  <2>2. End(b) = End(q)
    BY <1>4, <1>9 DEF End, Attaches
  <2>3. \A p \in Nat : Open(r, p) => Open(q, p) /\ At(r, p) = At(q, p)
    BY <1>6, <2>1 DEF Follows
  <2>4. \A p \in Nat : Open(q, p) /\ p <= m.through => At(q, p) \in pane
    BY <1>1, <1>9 DEF InboxApplied, Mine
  <2>5. \A p \in Nat : m.through < p \/ p <= m.through
    BY <1>2
  <2>6. \A p \in Nat : Open(q, p) => Open(r, p) \/ At(q, p) \in pane
    BY <1>6, <2>1, <2>4, <2>5
  <2>9. r \in Queues(k)
    BY <1>6
  <2>7. ToSet(r.chunks) \subseteq ToSet(q.chunks) /\ ToSet(q.chunks) \subseteq ToSet(r.chunks) \cup pane
    <3>1. Keeps(q, r, pane)
      BY <2>3, <2>6 DEF Keeps
    <3> QED
      BY <2>9, <3>1, HeldChunks
  <2>8. r.epoch = m.epoch /\ r.gen = m.gen /\ r.lost = q.lost /\ End(q) <= End(r)
    BY <1>4, <1>6, <1>9, <2>2 DEF Follows, Attaches
  <2> QED
    BY <1>1, <1>6, <1>7, <1>8, <1>9, <2>3, <2>7, <2>8 DEF Took
<1>10. CASE ~(q.epoch = m.epoch /\ q.gen = m.gen)
  <2>1. \A p \in Nat : ~Open(b, p)
    BY <1>4, <1>10, NoChunks DEF Attaches
  <2>2. \A p \in Nat : ~Open(r, p)
    BY <1>6, <2>1 DEF Follows
  <2>3. ToSet(r.chunks) = {}
    BY <1>6, <2>2, Positions
  <2>4. r.epoch = m.epoch /\ r.gen = m.gen /\ r.lost = q.lost \cup ToSet(q.chunks)
    BY <1>4, <1>6, <1>10 DEF Follows, Attaches
  <2> QED
    BY <1>1, <1>6, <1>7, <1>8, <1>10, <2>2, <2>3, <2>4 DEF Took
<1> QED
  BY <1>9, <1>10

\* Reading the first message does not shorten what the others reach.
LEMMA ReachesKept ==
    ASSUME NEW k \in Nat, NEW q \in Queues(k), NEW ph \in Phases,
           NEW D \in Seq(Messages), D # <<>>, NEW pane, NEW r,
           InboxShape(ph, D), InboxOrder(q, ph, D),
           Took(k, q, r, EpochOf(q, ph, D), D[1], pane),
           NEW i \in 1..Len(D), NEW t \in Nat,
           Reaches(q, ph, D, EpochOf(q, ph, D), D[i].gen, i, t)
    PROVE  Reaches(r, "attached", Tail(D), EpochOf(q, ph, D), D[i].gen, i - 1, t)
<1> DEFINE E == EpochOf(q, ph, D)
           T == Tail(D)
<1>1. /\ r \in Queues(k) /\ r.epoch = E /\ r.gen = D[1].gen
      /\ States(D[1]) => D[1].through <= r.cursor
      /\ q.epoch = E => q.cursor <= r.cursor
      /\ q.epoch = E /\ q.gen = D[1].gen => End(q) <= End(r)
  BY DEF Took
<1>2. /\ q.cursor \in Nat /\ r.cursor \in Nat /\ End(q) \in Nat /\ End(r) \in Nat /\ q.gen \in Nat
  BY <1>1, Positions
<1>3. /\ Len(D) \in Nat /\ 1 \in 1..i /\ 1 \in 1..Len(D)
      /\ D[1] \in Messages /\ D[i] \in Messages
      /\ \A j \in 1..Len(D) - 1 : T[j] = D[j + 1]
  BY HeadTailProperties, ElementOfSeq
<1>4. D[1].gen \in Nat /\ D[i].gen \in Nat /\ (States(D[1]) => D[1].through \in Nat)
  BY <1>3, MessageFields DEF States
<1>5. /\ E = q.epoch => q.gen <= D[1].gen
      /\ D[1].gen <= D[i].gen
  BY <1>3 DEF InboxOrder
<1>6. ph = "attached" => E = q.epoch
  BY DEF EpochOf
<1> HIDE DEF E, T
<1>7. CASE q.epoch = E /\ q.gen = D[i].gen /\ t <= End(q)
  <2>1. D[1].gen = D[i].gen
    BY <1>2, <1>4, <1>5, <1>7
  <2>2. r.epoch = E /\ r.gen = D[i].gen /\ t <= End(r)
    BY <1>1, <1>2, <1>7, <2>1
  <2> QED
    BY <2>2 DEF Reaches, E
<1>8. CASE ph = "attached" /\ t <= q.cursor
  <2>1. t <= r.cursor
    BY <1>1, <1>2, <1>6, <1>8
  <2> QED
    BY <2>1 DEF Reaches
<1>9. ASSUME NEW j \in 1..i, States(D[j]), t <= D[j].through
      PROVE  Reaches(r, "attached", T, E, D[i].gen, i - 1, t)
  <2>1. CASE j = 1
    <3>1. t <= r.cursor
      BY <1>1, <1>2, <1>4, <1>9, <2>1
    <3> QED
      BY <3>1 DEF Reaches
  <2>2. CASE j # 1
    <3>1. j - 1 \in 1..i - 1 /\ j - 1 \in 1..Len(D) - 1 /\ (j - 1) + 1 = j
      BY <1>3, <2>2
    <3>2. T[j - 1] = D[j]
      BY <1>3, <3>1
    <3> QED
      BY <1>9, <3>1, <3>2 DEF Reaches
  <2> QED
    BY <2>1, <2>2
<1> QED
  BY <1>7, <1>8, <1>9 DEF Reaches, E, T

\* A page that reads a message keeps its invariant.
LEMMA PageReads ==
    ASSUME NEW k \in Nat, NEW c \in Pages, NEW q \in Queues(k), NEW l \in Leases,
           NEW ph \in Phases, NEW D \in Seq(Messages), D # <<>>,
           NEW s, s = NoSession \/ s \in Sessions, NEW N \in Nat, NEW pane,
           PageInv(c, q, l, ph, D, s, N, pane), NEW r,
           Took(k, q, r, EpochOf(q, ph, D), D[1], pane),
           NEW v \in Leases, v.gen = r.gen,
           v.role = "controller" <=>
               Claims(c, D[1]) \/ (D[1].kind = "ack" /\ l.role = "controller")
    PROVE  PageInv(c, r, v, "attached", Tail(D), s, N, pane)
<1> DEFINE E == EpochOf(q, ph, D)
           T == Tail(D)
<1>1. /\ r \in Queues(k) /\ r.epoch = E /\ r.gen = D[1].gen
      /\ States(D[1]) => D[1].through <= r.cursor
      /\ q.epoch = E => q.cursor <= r.cursor
      /\ (q.epoch = E /\ r.cursor = q.cursor) \/ (States(D[1]) /\ r.cursor = D[1].through)
      /\ q.epoch = E /\ q.gen = D[1].gen => End(q) <= End(r)
      /\ \A p \in Nat : Open(r, p) =>
             q.epoch = E /\ q.gen = D[1].gen /\ Open(q, p) /\ At(r, p) = At(q, p)
  BY DEF Took
<1>2. /\ q.cursor \in Nat /\ r.cursor \in Nat /\ End(q) \in Nat /\ End(r) \in Nat
      /\ q.gen \in Nat /\ q.epoch \in Nat /\ E \in Nat
  BY <1>1, Positions
<1>3. /\ Len(D) \in Nat \ {0} /\ 1 \in 1..Len(D) /\ T \in Seq(Messages) /\ Len(T) = Len(D) - 1
      /\ \A j \in 1..Len(D) : D[j] \in Messages
      /\ \A j \in 1..Len(D) - 1 : T[j] = D[j + 1] /\ j + 1 \in 1..Len(D) /\ j + 1 # 1
  BY HeadTailProperties, ElementOfSeq, EmptySeq
<1>4. \A j \in 1..Len(D) : D[j].gen \in Nat /\ (States(D[j]) => D[j].through \in Nat)
  BY <1>3, MessageFields DEF States
<1>5. /\ E # 0
      /\ D[1].kind = "ack" => D[1].gen = q.gen /\ E = q.epoch
      /\ D[1].kind # "attached" => ph = "attached" /\ E = q.epoch
      /\ D[1].kind = "attached" => ph = "attaching"
  BY HeadIs DEF PageInv
<1>6. /\ QueueBound(q, l, ph) /\ QueueBehind(q, s, N) /\ QueueOwner(c, q, l, s)
      /\ QueueReaches(q, l, s) /\ QueueApplied(q, s, pane)
      /\ InboxShape(ph, D) /\ InboxOrder(q, ph, D) /\ InboxBehind(q, ph, D, s, N)
      /\ InboxOwner(c, q, ph, D, s) /\ InboxReaches(c, q, ph, D, s) /\ InboxCovers(c, q, ph, D)
      /\ InboxShort(q, l, D) /\ InboxApplied(q, D, pane)
  BY DEF PageInv
<1>7. EpochOf(r, "attached", T) = E
  BY <1>1 DEF EpochOf
<1>8. s.epoch = E => s \in Sessions /\ s.applied \in Nat /\ s.gen \in Nat
  BY <1>5, SessionFields DEF NoSession
<1>9. r.chunks # <<>> => q.epoch = E /\ q.gen = D[1].gen /\ q.chunks # <<>>
  <2>1. ASSUME r.chunks # <<>> PROVE \E p \in Nat : Open(r, p)
    <3>1. End(r) # r.cursor /\ r.cursor <= End(r)
      BY <1>1, <2>1, Positions
    <3>2. Open(r, End(r))
      BY <1>2, <3>1 DEF Open
    <3> QED
      BY <1>2, <3>2
  <2>2. \A p : Open(q, p) => q.chunks # <<>>
    BY Positions
  <2> QED
    BY <1>1, <2>1, <2>2
<1>10. ASSUME NEW i \in 1..Len(D), NEW t \in Nat, Reaches(q, ph, D, E, D[i].gen, i, t)
       PROVE  Reaches(r, "attached", T, E, D[i].gen, i - 1, t)
  BY <1>6, <1>10, ReachesKept
<1>11. ASSUME NEW t \in Nat, Reaches(q, ph, D, E, D[1].gen, 1, t)
       PROVE  t <= End(r)
  <2>1. Reaches(r, "attached", T, E, D[1].gen, 1 - 1, t)
    BY <1>3, <1>10, <1>11
  <2>2. t <= End(r) \/ t <= r.cursor
    <3>1. \A j : j \notin 1..1 - 1
      OBVIOUS
    <3> QED
      BY <2>1, <3>1 DEF Reaches
  <2>3. r.cursor <= End(r)
    BY <1>1, Positions
  <2> QED
    BY <1>2, <2>2, <2>3
<1>20. QueueBound(r, v, "attached")
  BY <1>1, <1>5 DEF QueueBound
<1>21. QueueBehind(r, s, N)
  <2>1. E <= N
    BY <1>3, <1>6 DEF InboxBehind
  <2>2. E = s.epoch => D[1].gen <= s.gen /\ (States(D[1]) => D[1].through <= s.applied)
    BY <1>3, <1>6 DEF InboxBehind
  <2>3. E = s.epoch /\ q.epoch = E => q.cursor <= s.applied
    BY <1>5, <1>6 DEF QueueBehind
  <2> QED
    BY <1>1, <2>1, <2>2, <2>3 DEF QueueBehind
<1>22. QueueOwner(c, r, v, s)
  <2>1. ASSUME r.chunks # <<>>, Current(s, r.epoch, r.gen) PROVE s.holder \in {c, NoPage}
    <3>1. q.chunks # <<>> /\ Current(s, q.epoch, q.gen)
      BY <1>1, <1>9, <2>1
    <3> QED
      BY <1>6, <3>1 DEF QueueOwner
  <2>2. ASSUME Claims(c, D[1]), Current(s, r.epoch, r.gen) PROVE s.holder \in {c, NoPage}
    BY <1>1, <1>3, <1>6, <2>2 DEF InboxOwner
  <2>3. ASSUME D[1].kind = "ack", l.role = "controller", Current(s, r.epoch, r.gen)
        PROVE  s.holder \in {c, NoPage}
    <3>1. Current(s, q.epoch, q.gen)
      BY <1>1, <1>5, <2>3
    <3> QED
      BY <1>6, <2>3, <3>1 DEF QueueOwner
  <2> QED
    BY <2>1, <2>2, <2>3 DEF QueueOwner
<1>23. QueueReaches(r, v, s)
  <2> SUFFICES ASSUME v.role = "controller", Current(s, r.epoch, r.gen)
               PROVE  s.applied <= End(r)
    BY DEF QueueReaches
  <2>0. s.applied \in Nat
    BY <1>1, <1>8 DEF Current
  <2>1. CASE Claims(c, D[1])
    <3>1. Reaches(q, ph, D, E, D[1].gen, 1, s.applied)
      BY <1>1, <1>3, <1>6, <2>1 DEF InboxReaches
    <3> QED
      BY <1>11, <2>0, <3>1
  <2>2. CASE D[1].kind = "ack" /\ l.role = "controller"
    <3>1. s.applied <= End(q) /\ End(q) <= End(r)
      BY <1>1, <1>5, <1>6, <2>2 DEF QueueReaches
    <3> QED
      BY <1>2, <2>0, <3>1
  <2> QED
    BY <2>1, <2>2
<1>24. QueueApplied(r, s, pane)
  <2> SUFFICES ASSUME Current(s, r.epoch, r.gen), NEW p \in Nat, Open(r, p), p <= s.applied
               PROVE  At(r, p) \in pane
    BY DEF QueueApplied
  <2>1. Current(s, q.epoch, q.gen) /\ Open(q, p) /\ At(r, p) = At(q, p)
    BY <1>1
  <2> QED
    BY <1>6, <2>1 DEF QueueApplied
<1>25. InboxShape("attached", T)
  BY <1>3, <1>6 DEF InboxShape
<1>26. InboxOrder(r, "attached", T)
  <2> DEFINE Z == EpochOf(r, "attached", T)
  <2> SUFFICES ASSUME NEW i \in 1..Len(T)
               PROVE  /\ Z # 0 /\ r.epoch <= Z
                      /\ States(T[i]) => T[i].epoch = Z
                      /\ Z = r.epoch => r.gen <= T[i].gen
                      /\ \A j \in 1..i : T[j].gen <= T[i].gen
                      /\ T[i].kind = "ack" => T[i].gen = (IF i = 1 THEN r.gen ELSE T[i - 1].gen)
    BY DEF InboxOrder
  <2>0. Z = E /\ Z # 0 /\ r.epoch <= Z
    BY <1>1, <1>2, <1>5, <1>7
  <2>1. i \in 1..Len(D) - 1 /\ T[i] = D[i + 1] /\ i + 1 \in 1..Len(D) /\ i + 1 # 1
    BY <1>3
  <2>2. /\ States(D[i + 1]) => D[i + 1].epoch = E
        /\ \A j \in 1..i + 1 : D[j].gen <= D[i + 1].gen
        /\ D[i + 1].kind = "ack" => D[i + 1].gen = D[(i + 1) - 1].gen
    BY <1>6, <2>1 DEF InboxOrder
  <2>3. r.gen <= T[i].gen
    BY <1>1, <2>1, <2>2
  <2>4. ASSUME NEW j \in 1..i PROVE T[j].gen <= T[i].gen
    <3>1. j \in 1..Len(D) - 1 /\ j + 1 \in 1..i + 1
      BY <1>3, <2>1
    <3> QED
      BY <1>3, <2>1, <2>2, <3>1
  <2>5. ASSUME T[i].kind = "ack" PROVE T[i].gen = (IF i = 1 THEN r.gen ELSE T[i - 1].gen)
    <3>1. (i + 1) - 1 = i
      BY <2>1
    <3>2. T[i].gen = D[i].gen
      BY <2>1, <2>2, <2>5, <3>1
    <3>3. i # 1 => i - 1 \in 1..Len(D) - 1 /\ (i - 1) + 1 = i
      BY <1>3, <2>1
    <3> QED
      BY <1>1, <1>3, <3>2, <3>3
  <2> QED
    BY <2>0, <2>1, <2>2, <2>3, <2>4, <2>5
<1>27. InboxBehind(r, "attached", T, s, N)
  BY <1>3, <1>6, <1>7 DEF InboxBehind
<1>28. InboxOwner(c, r, "attached", T, s)
  BY <1>3, <1>6, <1>7 DEF InboxOwner
<1>29. InboxReaches(c, r, "attached", T, s)
  <2> SUFFICES ASSUME NEW i \in 1..Len(T), Claims(c, T[i]), Current(s, E, T[i].gen)
               PROVE  Reaches(r, "attached", T, E, T[i].gen, i, s.applied)
    BY <1>7 DEF InboxReaches
  <2>1. T[i] = D[i + 1] /\ i + 1 \in 1..Len(D) /\ (i + 1) - 1 = i
    BY <1>3
  <2>2. Reaches(q, ph, D, E, D[i + 1].gen, i + 1, s.applied) /\ s.applied \in Nat
    BY <1>6, <1>8, <2>1 DEF InboxReaches, Current
  <2> QED
    BY <1>10, <2>1, <2>2
<1>30. InboxCovers(c, r, "attached", T)
  <2> SUFFICES ASSUME NEW i \in 1..Len(T), NEW j \in 1..Len(T), i < j,
                      Claims(c, T[i]), States(T[j]), T[i].gen = T[j].gen
               PROVE  Reaches(r, "attached", T, E, T[i].gen, i, T[j].through)
    BY <1>7 DEF InboxCovers
  <2>1. /\ T[i] = D[i + 1] /\ i + 1 \in 1..Len(D) /\ (i + 1) - 1 = i
        /\ T[j] = D[j + 1] /\ j + 1 \in 1..Len(D) /\ i + 1 < j + 1
    BY <1>3
  <2>2. Reaches(q, ph, D, E, D[i + 1].gen, i + 1, D[j + 1].through) /\ D[j + 1].through \in Nat
    BY <1>4, <1>6, <2>1 DEF InboxCovers
  <2> QED
    BY <1>10, <2>1, <2>2
<1>31. InboxShort(r, v, T)
  <2> SUFFICES ASSUME v.role = "controller", NEW j \in 1..Len(T), Mine(r, T[j])
               PROVE  T[j].through <= End(r)
    BY DEF InboxShort
  <2>1. /\ T[j] = D[j + 1] /\ j + 1 \in 1..Len(D) /\ 1 < j + 1
    BY <1>3
  <2>2. States(D[j + 1]) /\ D[j + 1].through \in Nat /\ D[j + 1].gen = D[1].gen /\ D[j + 1].epoch = E
    BY <1>1, <1>4, <2>1 DEF Mine
  <2>3. CASE Claims(c, D[1])
    <3>1. Reaches(q, ph, D, E, D[1].gen, 1, D[j + 1].through)
      BY <1>3, <1>6, <2>1, <2>2, <2>3 DEF InboxCovers
    <3> QED
      BY <1>11, <2>1, <2>2, <3>1
  <2>4. CASE D[1].kind = "ack" /\ l.role = "controller"
    <3>1. D[j + 1].through <= End(q) /\ End(q) <= End(r)
      BY <1>1, <1>5, <1>6, <2>1, <2>2, <2>4 DEF InboxShort, Mine
    <3> QED
      BY <1>2, <2>1, <2>2, <3>1
  <2> QED
    BY <2>3, <2>4
<1>32. InboxApplied(r, T, pane)
  <2> SUFFICES ASSUME NEW j \in 1..Len(T), Mine(r, T[j]), NEW p \in Nat, Open(r, p),
                      p <= T[j].through
               PROVE  At(r, p) \in pane
    BY DEF InboxApplied
  <2>1. T[j] = D[j + 1] /\ j + 1 \in 1..Len(D)
    BY <1>3
  <2>2. q.epoch = E /\ q.gen = D[1].gen /\ Open(q, p) /\ At(r, p) = At(q, p)
    BY <1>1
  <2>3. Mine(q, D[j + 1])
    BY <1>1, <2>1, <2>2 DEF Mine
  <2> QED
    BY <1>6, <2>1, <2>2, <2>3 DEF InboxApplied
<1> HIDE DEF T, E
<1> QED
  BY <1>20, <1>21, <1>22, <1>23, <1>24, <1>25, <1>26, <1>27, <1>28, <1>29, <1>30, <1>31, <1>32
     DEF PageInv, T

\* So does what it was told.
LEMMA ToldReads ==
    ASSUME NEW k \in Nat, NEW q \in Queues(k), NEW ph \in Phases,
           NEW D \in Seq(Messages), D # <<>>, NEW s \in Sessions, NEW pane, NEW r,
           InboxShape(ph, D), InboxOrder(q, ph, D),
           Took(k, q, r, EpochOf(q, ph, D), D[1], pane),
           ToldEpoch(q, ph, D, s), ToldLease(q, ph, D, s), ToldCursor(q, ph, D, s)
    PROVE  /\ ToldEpoch(r, "attached", Tail(D), s)
           /\ ToldLease(r, "attached", Tail(D), s)
           /\ ToldCursor(r, "attached", Tail(D), s)
<1> DEFINE E == EpochOf(q, ph, D)
           T == Tail(D)
<1>1. /\ r \in Queues(k) /\ r.epoch = E /\ r.gen = D[1].gen
      /\ States(D[1]) => D[1].through <= r.cursor
      /\ q.epoch = E => q.cursor <= r.cursor
  BY DEF Took
<1>2. q.cursor \in Nat /\ r.cursor \in Nat /\ s.applied \in Nat
  BY <1>1, Positions, SessionFields
<1>3. /\ Len(D) \in Nat \ {0} /\ T \in Seq(Messages) /\ Len(T) = Len(D) - 1 /\ D[1] \in Messages
      /\ T = <<>> <=> Len(D) = 1
      /\ \A j \in 1..Len(D) - 1 : T[j] = D[j + 1]
  <2>1. Len(D) \in Nat \ {0} /\ D[1] \in Messages
    BY ElementOfSeq, EmptySeq
  <2>2. /\ T \in Seq(Messages) /\ Len(T) = Len(D) - 1
        /\ \A j \in 1..Len(T) : T[j] = D[j + 1]
    BY HeadTailProperties
  <2>3. T = <<>> <=> Len(T) = 0
    BY <2>2, EmptySeq
  <2> QED
    BY <2>1, <2>2, <2>3
<1>4. ToldEpoch(r, "attached", T, s)
  BY <1>1 DEF ToldEpoch, EpochOf
<1>5. ToldLease(r, "attached", T, s)
  <2>1. CASE Len(D) = 1
    BY <1>1, <1>3, <2>1 DEF ToldLease
  <2>2. CASE Len(D) # 1
    <3>1. Len(T) \in 1..Len(D) - 1 /\ Len(T) + 1 = Len(D)
      BY <1>3, <2>2
    <3>2. T[Len(T)] = D[Len(D)]
      BY <1>3, <3>1
    <3> QED
      BY <1>3, <2>2, <3>2 DEF ToldLease
  <2> QED
    BY <2>1, <2>2
<1>6. ToldCursor(r, "attached", T, s)
  <2>1. CASE ph = "attached" /\ s.applied <= q.cursor
    <3>1. E = q.epoch
      BY <2>1 DEF EpochOf
    <3> QED
      BY <1>1, <1>2, <2>1, <3>1 DEF ToldCursor
  <2>2. ASSUME NEW j \in 1..Len(D), States(D[j]), s.applied <= D[j].through
        PROVE  ToldCursor(r, "attached", T, s)
    <3>1. CASE j = 1
      <4>1. D[1].through \in Nat
        BY <1>3, <2>2, <3>1, MessageFields DEF States
      <4> QED
        BY <1>1, <1>2, <2>2, <3>1, <4>1 DEF ToldCursor
    <3>2. CASE j # 1
      <4>1. j - 1 \in 1..Len(T) /\ j - 1 \in 1..Len(D) - 1 /\ (j - 1) + 1 = j
        BY <1>3, <3>2
      <4>2. T[j - 1] = D[j]
        BY <1>3, <4>1
      <4> QED
        BY <2>2, <4>1, <4>2 DEF ToldCursor
    <3> QED
      BY <3>1, <3>2
  <2> QED
    BY <2>1, <2>2 DEF ToldCursor
<1> QED
  BY <1>4, <1>5, <1>6
-----------------------------------------------------------------------------
(* The Session moves under a page.                                         *)

LEMMA PaneGrows ==
    ASSUME NEW c, NEW q, NEW l, NEW ph, NEW D, NEW s, NEW N, NEW pane, NEW pane2,
           pane \subseteq pane2, PageInv(c, q, l, ph, D, s, N, pane)
    PROVE  PageInv(c, q, l, ph, D, s, N, pane2)
  BY DEF PageInv, QueueApplied, InboxApplied

\* Without a Session nothing is current.
LEMMA SessionEnds ==
    ASSUME NEW c, NEW q, NEW l, NEW ph, NEW D, NEW s, NEW N, NEW pane,
           PageInv(c, q, l, ph, D, s, N, pane)
    PROVE  PageInv(c, q, l, ph, D, NoSession, N, pane)
<1>1. NoSession.epoch = 0
  BY DEF NoSession
<1>2. \A e, g : ~Current(NoSession, e, g)
  BY <1>1 DEF Current
<1>3. QueueBehind(q, NoSession, N)
  BY <1>1 DEF PageInv, QueueBehind
<1>4. InboxBehind(q, ph, D, NoSession, N)
  <2>1. InboxOrder(q, ph, D) /\ InboxBehind(q, ph, D, s, N)
    BY DEF PageInv
  <2> QED
    BY <1>1, <2>1 DEF InboxOrder, InboxBehind
<1>5. /\ QueueOwner(c, q, l, NoSession) /\ QueueReaches(q, l, NoSession)
      /\ QueueApplied(q, NoSession, pane)
      /\ InboxOwner(c, q, ph, D, NoSession) /\ InboxReaches(c, q, ph, D, NoSession)
  BY <1>2 DEF QueueOwner, QueueReaches, QueueApplied, InboxOwner, InboxReaches
<1> QED
  BY <1>3, <1>4, <1>5 DEF PageInv

\* The first message of a page that is not attached is the attach.
LEMMA HeadShape ==
    ASSUME NEW ph, NEW D, 1 \in 1..Len(D), InboxShape(ph, D), ph # "attached", ph \in Phases
    PROVE  D[1].kind = "attached"
<1>1. ph # "down"
  BY EmptySeq DEF InboxShape
<1>2. ph = "attaching"
  BY <1>1 DEF Phases
<1> QED
  BY <1>2 DEF InboxShape

\* A new Session is of an epoch nobody has heard of.
LEMMA SessionMinted ==
    ASSUME NEW k \in Nat, NEW c, NEW q \in Queues(k), NEW l, NEW ph \in Phases,
           NEW D \in Seq(Messages), NEW s, NEW N \in Nat, NEW pane, NEW s2 \in Sessions, s2.epoch = N + 1,
           PageInv(c, q, l, ph, D, s, N, pane)
    PROVE  PageInv(c, q, l, ph, D, s2, N + 1, pane)
<1>1. /\ QueueBehind(q, s, N) /\ InboxBehind(q, ph, D, s, N) /\ InboxOrder(q, ph, D)
  BY DEF PageInv
<1>2. q.epoch \in Nat /\ q.epoch <= N
  BY <1>1, QueueFields DEF QueueBehind
<1>3. D # <<>> => EpochOf(q, ph, D) \in Nat /\ EpochOf(q, ph, D) <= N
  <2> SUFFICES ASSUME D # <<>> PROVE EpochOf(q, ph, D) \in Nat /\ EpochOf(q, ph, D) <= N
    OBVIOUS
  <2>1. 1 \in 1..Len(D) /\ D[1] \in Messages
    BY EmptySeq, ElementOfSeq
  <2>2. EpochOf(q, ph, D) <= N /\ q.epoch <= EpochOf(q, ph, D) /\ EpochOf(q, ph, D) # 0
    BY <1>1, <2>1 DEF InboxBehind, InboxOrder
  <2>3. EpochOf(q, ph, D) \in Nat
    <3>1. CASE ph = "attached"
      BY <1>2, <3>1 DEF EpochOf
    <3>2. CASE ph # "attached"
      <4>1. D[1].kind = "attached"
        <5>1. InboxShape(ph, D)
          BY DEF PageInv
        <5> QED
          BY <2>1, <3>2, <5>1, HeadShape
      <4>2. D[1].epoch \in Nat
        BY <2>1, <4>1, MessageFields
      <4> QED
        BY <3>2, <4>2 DEF EpochOf
    <3> QED
      BY <3>1, <3>2
  <2> QED
    BY <2>2, <2>3
<1>4. \A g : ~Current(s2, q.epoch, g)
  BY <1>2 DEF Current
<1>5. D # <<>> => \A g : ~Current(s2, EpochOf(q, ph, D), g)
  BY <1>3 DEF Current
<1>6. \A i \in 1..Len(D) : D # <<>>
  BY EmptySeq
<1>7. QueueBehind(q, s2, N + 1)
  BY <1>2 DEF QueueBehind
<1>8. InboxBehind(q, ph, D, s2, N + 1)
  <2>1. D # <<>> => EpochOf(q, ph, D) <= N + 1 /\ EpochOf(q, ph, D) # s2.epoch
    BY <1>3
  <2> QED
    BY <1>6, <2>1 DEF InboxBehind
<1>9. QueueOwner(c, q, l, s2) /\ QueueReaches(q, l, s2) /\ QueueApplied(q, s2, pane)
  BY <1>4 DEF QueueOwner, QueueReaches, QueueApplied
<1>10. InboxOwner(c, q, ph, D, s2) /\ InboxReaches(c, q, ph, D, s2)
  BY <1>5, <1>6 DEF InboxOwner, InboxReaches
<1> QED
  BY <1>7, <1>8, <1>9, <1>10 DEF PageInv

\* Subscribers come and go, and a lease may be released.
LEMMA SessionReleased ==
    ASSUME NEW c, NEW q, NEW l, NEW ph, NEW D, NEW s, NEW N, NEW pane, NEW s2,
           s2.epoch = s.epoch, s2.gen = s.gen, s2.applied = s.applied,
           s2.holder \in {s.holder, NoPage},
           PageInv(c, q, l, ph, D, s, N, pane)
    PROVE  PageInv(c, q, l, ph, D, s2, N, pane)
<1>1. \A e, g : Current(s2, e, g) <=> Current(s, e, g)
  BY DEF Current
<1>2. QueueBehind(q, s2, N) /\ InboxBehind(q, ph, D, s2, N)
  BY DEF PageInv, QueueBehind, InboxBehind
<1>3. QueueOwner(c, q, l, s2) /\ QueueReaches(q, l, s2) /\ QueueApplied(q, s2, pane)
  BY <1>1 DEF PageInv, QueueOwner, QueueReaches, QueueApplied
<1>4. InboxOwner(c, q, ph, D, s2) /\ InboxReaches(c, q, ph, D, s2)
  BY <1>1 DEF PageInv, InboxOwner, InboxReaches
<1> QED
  BY <1>2, <1>3, <1>4 DEF PageInv

\* A takeover begins a generation nobody has heard of.
LEMMA SessionTaken ==
    ASSUME NEW k \in Nat, NEW c, NEW q \in Queues(k), NEW l, NEW ph, NEW D \in Seq(Messages),
           NEW s \in Sessions, NEW N, NEW pane, NEW s2,
           s2.epoch = s.epoch, s2.gen = s.gen + 1, s2.applied = s.applied,
           PageInv(c, q, l, ph, D, s, N, pane)
    PROVE  PageInv(c, q, l, ph, D, s2, N, pane)
<1>1. QueueBehind(q, s, N) /\ InboxBehind(q, ph, D, s, N)
  BY DEF PageInv
<1>2. s.gen \in Nat /\ q.gen \in Nat /\ \A i \in 1..Len(D) : D[i].gen \in Nat
  <2>1. \A i \in 1..Len(D) : D[i] \in Messages
    BY ElementOfSeq
  <2> QED
    BY <2>1, SessionFields, MessageFields, QueueFields
<1>3. ~Current(s2, q.epoch, q.gen)
  <2>1. q.epoch # 0 /\ q.epoch = s.epoch => q.gen <= s.gen
    BY <1>1 DEF QueueBehind
  <2> QED
    BY <1>2, <2>1 DEF Current
<1>4. \A i \in 1..Len(D) : ~Current(s2, EpochOf(q, ph, D), D[i].gen)
  <2>1. \A i \in 1..Len(D) : EpochOf(q, ph, D) = s.epoch => D[i].gen <= s.gen
    BY <1>1 DEF InboxBehind
  <2>2. \A i \in 1..Len(D) : EpochOf(q, ph, D) = s.epoch => D[i].gen # s.gen + 1
    BY <1>2, <2>1
  <2> QED
    BY <2>2 DEF Current
<1>5. QueueBehind(q, s2, N)
  <2>1. q.epoch # 0 /\ q.epoch = s.epoch => q.gen <= s.gen + 1
    BY <1>1, <1>2 DEF QueueBehind
  <2> QED
    BY <1>1, <2>1 DEF QueueBehind
<1>6. InboxBehind(q, ph, D, s2, N)
  <2>1. \A i \in 1..Len(D) : EpochOf(q, ph, D) = s.epoch => D[i].gen <= s.gen + 1
    BY <1>1, <1>2 DEF InboxBehind
  <2> QED
    BY <1>1, <2>1 DEF InboxBehind
<1>7. QueueOwner(c, q, l, s2) /\ QueueReaches(q, l, s2) /\ QueueApplied(q, s2, pane)
  BY <1>3 DEF QueueOwner, QueueReaches, QueueApplied
<1>8. InboxOwner(c, q, ph, D, s2) /\ InboxReaches(c, q, ph, D, s2)
  BY <1>4 DEF InboxOwner, InboxReaches
<1> QED
  BY <1>5, <1>6, <1>7, <1>8 DEF PageInv

\* The position after the cursor is applied: it is what the page that holds
\* the lease sent for it, and it is in the pane.
LEMMA SessionApplies ==
    ASSUME NEW k \in Nat, NEW c \in Pages, NEW q \in Queues(k), NEW l, NEW ph,
           NEW D \in Seq(Messages), NEW s \in Sessions, NEW N, NEW pane, NEW s2, NEW x \in pane,
           s2.epoch = s.epoch, s2.gen = s.gen, s2.applied = s.applied + 1, s2.holder = s.holder,
           s.holder # NoPage,
           s.holder = c => SentAt(q, s.epoch, s.gen, s.applied + 1, x),
           PageInv(c, q, l, ph, D, s, N, pane)
    PROVE  PageInv(c, q, l, ph, D, s2, N, pane)
<1>1. \A e, g : Current(s2, e, g) <=> Current(s, e, g)
  BY DEF Current
<1>2. /\ QueueBehind(q, s, N) /\ QueueOwner(c, q, l, s) /\ QueueReaches(q, l, s)
      /\ QueueApplied(q, s, pane) /\ InboxOrder(q, ph, D) /\ InboxBehind(q, ph, D, s, N)
      /\ InboxOwner(c, q, ph, D, s) /\ InboxReaches(c, q, ph, D, s)
  BY DEF PageInv
<1>3. /\ s.applied \in Nat /\ q.cursor \in Nat /\ q.epoch \in Nat /\ q.gen \in Nat
      /\ s.epoch \in Nat /\ s.gen \in Nat
      /\ \A i \in 1..Len(D) : D[i].gen \in Nat /\ (States(D[i]) => D[i].through \in Nat)
  <2>1. \A i \in 1..Len(D) : D[i] \in Messages
    BY ElementOfSeq
  <2> QED
    BY <2>1, Positions, SessionFields, MessageFields DEF States
<1>4. ASSUME s.holder = c, Current(s, q.epoch, q.gen)
      PROVE  s.applied + 1 <= End(q) /\ (q.cursor < s.applied + 1 => x = At(q, s.applied + 1))
  BY <1>4 DEF Current, SentAt
<1>5. QueueBehind(q, s2, N)
  BY <1>2, <1>3 DEF QueueBehind
<1>6. QueueOwner(c, q, l, s2)
  BY <1>1, <1>2 DEF QueueOwner
<1>7. QueueReaches(q, l, s2)
  <2> SUFFICES ASSUME l.role = "controller", Current(s, q.epoch, q.gen)
               PROVE  s.applied + 1 <= End(q)
    BY <1>1 DEF QueueReaches
  <2>1. s.holder = c
    BY <1>2 DEF QueueOwner
  <2> QED
    BY <1>4, <2>1
<1>8. QueueApplied(q, s2, pane)
  <2> SUFFICES ASSUME Current(s, q.epoch, q.gen), NEW p \in Nat, Open(q, p), p <= s.applied + 1
               PROVE  At(q, p) \in pane
    BY <1>1 DEF QueueApplied
  <2>1. CASE p <= s.applied
    BY <1>2, <2>1 DEF QueueApplied
  <2>2. CASE p = s.applied + 1
    <3>1. q.chunks # <<>> /\ q.cursor < p
      BY Positions DEF Open
    <3>2. s.holder = c
      BY <1>2, <3>1 DEF QueueOwner
    <3> QED
      BY <1>4, <2>2, <3>1, <3>2
  <2>3. p <= s.applied \/ p = s.applied + 1
    BY <1>3
  <2> QED
    BY <2>1, <2>2, <2>3
<1>9. InboxBehind(q, ph, D, s2, N)
  <2> SUFFICES ASSUME NEW i \in 1..Len(D), EpochOf(q, ph, D) = s.epoch, States(D[i])
               PROVE  D[i].through <= s.applied + 1
    BY <1>2 DEF InboxBehind
  <2>1. D[i].through <= s.applied
    BY <1>2 DEF InboxBehind
  <2> QED
    BY <1>3, <2>1
<1>10. InboxOwner(c, q, ph, D, s2)
  BY <1>1, <1>2 DEF InboxOwner
<1>11. InboxReaches(c, q, ph, D, s2)
  <2> SUFFICES ASSUME NEW i \in 1..Len(D), Claims(c, D[i]), Current(s, EpochOf(q, ph, D), D[i].gen)
               PROVE  Reaches(q, ph, D, EpochOf(q, ph, D), D[i].gen, i, s.applied + 1)
    BY <1>1 DEF InboxReaches
  <2>1. s.holder = c
    BY <1>2 DEF InboxOwner
  <2>2. /\ q.epoch <= EpochOf(q, ph, D) /\ EpochOf(q, ph, D) = s.epoch /\ D[i].gen = s.gen
        /\ EpochOf(q, ph, D) = q.epoch => q.gen <= D[i].gen
    BY <1>2 DEF InboxOrder, Current
  <2>3. s.epoch <= q.epoch /\ (s.epoch = q.epoch => s.gen <= q.gen)
    BY <2>1 DEF SentAt
  <2>4. q.epoch = s.epoch /\ q.gen = s.gen
    BY <1>3, <2>2, <2>3
  <2>5. s.applied + 1 <= End(q)
    BY <2>1, <2>4 DEF SentAt
  <2> QED
    BY <2>2, <2>4, <2>5 DEF Reaches
<1> QED
  BY <1>5, <1>6, <1>7, <1>8, <1>9, <1>10, <1>11 DEF PageInv
-----------------------------------------------------------------------------
(* A page is sent a message.                                               *)

\* What the agent may add to what is on its way to page c, subscribed to s:
\* the attach that binds it, the lease as it is, the cursor as it is.
Says(c, q, ph, D, s, N, m) ==
    /\ m \in Messages /\ m.gen = s.gen
    /\ States(m) => m.epoch = s.epoch /\ m.through = s.applied
    /\ m.kind = "attached" =>
           D = <<>> /\ ph = "attaching" /\ s.epoch = N /\ (m.role = "controller" => s.holder = c)
    /\ m.kind = "control" => m.holder = s.holder /\ ToldEpoch(q, ph, D, s) /\ ToldCursor(q, ph, D, s)
    /\ m.kind = "ack" => ToldEpoch(q, ph, D, s) /\ ToldLease(q, ph, D, s)

LEMMA Appended ==
    ASSUME NEW D \in Seq(Messages), NEW m \in Messages
    PROVE  /\ Append(D, m) \in Seq(Messages) /\ Append(D, m) # <<>>
           /\ Len(D) \in Nat /\ Len(Append(D, m)) = Len(D) + 1
           /\ Append(D, m)[Len(D) + 1] = m
           /\ \A i \in 1..Len(D) : Append(D, m)[i] = D[i] /\ D[i] \in Messages
           /\ \A i \in 1..Len(D) + 1 : i \in 1..Len(D) \/ i = Len(D) + 1
           /\ D = <<>> <=> Len(D) = 0
<1>1. /\ Append(D, m) \in Seq(Messages) /\ Len(D) \in Nat /\ Len(Append(D, m)) = Len(D) + 1
      /\ Append(D, m)[Len(D) + 1] = m
      /\ \A i \in 1..Len(D) : Append(D, m)[i] = D[i] /\ D[i] \in Messages
  BY AppendProperties, LenProperties, ElementOfSeq
<1>2. Append(D, m) # <<>> /\ (D = <<>> <=> Len(D) = 0)
  BY <1>1, EmptySeq
<1>3. \A i \in 1..Len(D) + 1 : i \in 1..Len(D) \/ i = Len(D) + 1
  BY <1>1
<1> QED
  BY <1>1, <1>2, <1>3

\* Everything on its way to a subscriber is of the epoch of the Session.
LEMMA SaysEpoch ==
    ASSUME NEW k \in Nat, NEW c, NEW q \in Queues(k), NEW l, NEW ph \in Phases,
           NEW D \in Seq(Messages), NEW s \in Sessions, NEW N \in Nat, NEW pane,
           PageInv(c, q, l, ph, D, s, N, pane), NEW m, Says(c, q, ph, D, s, N, m)
    PROVE  /\ EpochOf(q, ph, Append(D, m)) = s.epoch
           /\ D # <<>> => EpochOf(q, ph, D) = s.epoch
           /\ q.epoch <= s.epoch /\ s.epoch <= N /\ ph # "down"
           /\ m.kind # "attached" /\ D = <<>> => ph = "attached" /\ q.epoch = s.epoch
<1>1. /\ QueueBehind(q, s, N) /\ InboxShape(ph, D) /\ InboxOrder(q, ph, D)
      /\ InboxBehind(q, ph, D, s, N)
  BY DEF PageInv
<1>2. /\ m \in Messages /\ m.kind \in {"attached", "control", "ack"} /\ q.epoch \in Nat
      /\ s.epoch \in Nat
  BY MessageFields, QueueFields, SessionFields DEF Says
<1>3. CASE m.kind = "attached"
  <2>1. D = <<>> /\ ph = "attaching" /\ s.epoch = N /\ m.epoch = s.epoch
    BY <1>3 DEF Says, States
  <2>2. Append(D, m)[1] = m
    BY <1>2, <2>1, Appended
  <2> QED
    BY <1>1, <1>2, <1>3, <2>1, <2>2 DEF EpochOf, QueueBehind
<1>4. CASE m.kind # "attached" /\ D = <<>>
  <2>1. ph = "attached" /\ q.epoch = s.epoch
    BY <1>2, <1>4 DEF Says, ToldEpoch
  <2> QED
    BY <1>1, <1>2, <1>4, <2>1 DEF EpochOf, QueueBehind
<1>5. CASE m.kind # "attached" /\ D # <<>>
  <2>1. EpochOf(q, ph, D) = s.epoch
    BY <1>2, <1>5 DEF Says, ToldEpoch
  <2>2. 1 \in 1..Len(D) /\ Append(D, m)[1] = D[1]
    BY <1>2, <1>5, Appended
  <2>3. EpochOf(q, ph, Append(D, m)) = s.epoch
    BY <2>1, <2>2 DEF EpochOf
  <2>4. q.epoch <= s.epoch /\ s.epoch <= N /\ ph # "down"
    BY <1>1, <1>5, <2>1, <2>2 DEF InboxOrder, InboxBehind, InboxShape
  <2> QED
    BY <1>5, <2>1, <2>3, <2>4
<1> QED
  BY <1>3, <1>4, <1>5

LEMMA ReachesMore ==
    ASSUME NEW q, NEW ph, NEW D \in Seq(Messages), NEW m \in Messages, NEW e, NEW g,
           NEW i \in 1..Len(D), NEW t, Reaches(q, ph, D, e, g, i, t)
    PROVE  Reaches(q, ph, Append(D, m), e, g, i, t)
<1>1. \A j \in 1..i : j \in 1..Len(D) /\ Append(D, m)[j] = D[j]
  BY Appended
<1> QED
  BY <1>1 DEF Reaches

\* A page that is sent a message keeps its invariant.
LEMMA PageTold ==
    ASSUME NEW k \in Nat, NEW c \in Pages, NEW q \in Queues(k), NEW l, NEW ph \in Phases,
           NEW D \in Seq(Messages), NEW s \in Sessions, NEW N \in Nat, NEW pane,
           PageInv(c, q, l, ph, D, s, N, pane), NEW m, Says(c, q, ph, D, s, N, m)
    PROVE  PageInv(c, q, l, ph, Append(D, m), s, N, pane)
<1> DEFINE A == Append(D, m)
           n == Len(D)
<1>0. /\ m \in Messages /\ m.gen = s.gen
      /\ States(m) => m.epoch = s.epoch /\ m.through = s.applied
  BY DEF Says
<1>1. /\ A \in Seq(Messages) /\ A # <<>> /\ n \in Nat /\ Len(A) = n + 1 /\ A[n + 1] = m
      /\ \A i \in 1..n : A[i] = D[i] /\ D[i] \in Messages
      /\ \A i \in 1..n + 1 : i \in 1..n \/ i = n + 1
      /\ D = <<>> <=> n = 0
  BY <1>0, Appended
<1>2. /\ EpochOf(q, ph, A) = s.epoch /\ (D # <<>> => EpochOf(q, ph, D) = s.epoch)
      /\ q.epoch <= s.epoch /\ s.epoch <= N /\ ph # "down"
      /\ m.kind # "attached" /\ D = <<>> => ph = "attached" /\ q.epoch = s.epoch
  BY SaysEpoch
<1>3. /\ QueueBound(q, l, ph) /\ QueueBehind(q, s, N) /\ QueueOwner(c, q, l, s)
      /\ QueueReaches(q, l, s) /\ QueueApplied(q, s, pane)
      /\ InboxShape(ph, D) /\ InboxOrder(q, ph, D) /\ InboxBehind(q, ph, D, s, N)
      /\ InboxOwner(c, q, ph, D, s) /\ InboxReaches(c, q, ph, D, s) /\ InboxCovers(c, q, ph, D)
      /\ InboxShort(q, l, D) /\ InboxApplied(q, D, pane)
  BY DEF PageInv
<1>4. /\ m.kind \in {"attached", "control", "ack"} /\ s.applied \in Nat /\ s.gen \in Nat
      /\ s.epoch \in Nat \ {0} /\ q.gen \in Nat /\ q.epoch \in Nat
      /\ States(m) <=> m.kind # "control"
  BY <1>0, MessageFields, SessionFields, QueueFields DEF States
<1>5. \A i \in 1..n : D # <<>> /\ EpochOf(q, ph, D) = s.epoch
  BY <1>1, <1>2
<1>6. ASSUME Claims(c, m) PROVE s.holder = c
  BY <1>6 DEF Claims, Says
<1>7. ASSUME Claims(c, m) PROVE Reaches(q, ph, A, s.epoch, m.gen, n + 1, s.applied)
  <2>1. CASE m.kind = "attached"
    <3>1. States(A[n + 1]) /\ s.applied <= A[n + 1].through /\ n + 1 \in 1..n + 1
      BY <1>0, <1>1, <1>4, <2>1
    <3> QED
      BY <3>1 DEF Reaches
  <2>2. CASE m.kind = "control"
    <3>1. ToldCursor(q, ph, D, s)
      BY <2>2 DEF Says
    <3>2. \A j \in 1..n : j \in 1..n + 1 /\ A[j] = D[j]
      BY <1>1
    <3> QED
      BY <3>1, <3>2 DEF ToldCursor, Reaches
  <2> QED
    BY <1>7, <2>1, <2>2 DEF Claims
<1>8. ASSUME Mine(q, m) PROVE Current(s, q.epoch, q.gen) /\ m.through = s.applied
  BY <1>0, <1>4, <1>8 DEF Mine, Current
<1> HIDE DEF A, n
<1>20. InboxShape(ph, A)
  <2>1. \A i \in 1..n : A[i].kind = "attached" <=> (i = 1 /\ ph = "attaching")
    BY <1>1, <1>3 DEF InboxShape, n
  <2>2. m.kind = "attached" <=> (n + 1 = 1 /\ ph = "attaching")
    <3>1. m.kind = "attached" => D = <<>> /\ ph = "attaching"
      BY DEF Says
    <3> QED
      BY <1>1, <1>2, <3>1
  <2> QED
    BY <1>1, <1>2, <2>1, <2>2 DEF InboxShape
<1>21. InboxOrder(q, ph, A)
  <2>1. ASSUME NEW i \in 1..n
        PROVE  /\ States(A[i]) => A[i].epoch = s.epoch
               /\ s.epoch = q.epoch => q.gen <= A[i].gen
               /\ \A j \in 1..i : A[j].gen <= A[i].gen
               /\ A[i].kind = "ack" => A[i].gen = (IF i = 1 THEN q.gen ELSE A[i - 1].gen)
    <3>1. /\ States(D[i]) => D[i].epoch = s.epoch
          /\ s.epoch = q.epoch => q.gen <= D[i].gen
          /\ \A j \in 1..i : D[j].gen <= D[i].gen
          /\ D[i].kind = "ack" => D[i].gen = (IF i = 1 THEN q.gen ELSE D[i - 1].gen)
      BY <1>3, <1>5 DEF InboxOrder, n
    <3>2. \A j \in 1..i : A[j] = D[j]
      BY <1>1
    <3>3. i # 1 => i - 1 \in 1..n
      BY <1>1
    <3> QED
      BY <1>1, <3>1, <3>2, <3>3
  <2>2. /\ States(m) => m.epoch = s.epoch
        /\ s.epoch = q.epoch => q.gen <= m.gen
        /\ \A j \in 1..n + 1 : A[j].gen <= m.gen
        /\ m.kind = "ack" => m.gen = (IF n + 1 = 1 THEN q.gen ELSE A[(n + 1) - 1].gen)
    <3>1. s.epoch = q.epoch => q.gen <= m.gen
      BY <1>0, <1>3, <1>4 DEF QueueBehind
    <3>2. \A j \in 1..n : A[j].gen <= m.gen
      BY <1>0, <1>1, <1>3, <1>5 DEF InboxBehind, n
    <3>3. \A j \in 1..n + 1 : A[j].gen <= m.gen
      BY <1>0, <1>1, <1>4, <3>2
    <3>4. ASSUME m.kind = "ack" PROVE m.gen = (IF n + 1 = 1 THEN q.gen ELSE A[(n + 1) - 1].gen)
      <4>1. ToldLease(q, ph, D, s)
        BY <3>4 DEF Says
      <4>2. CASE n = 0
        BY <1>0, <1>1, <4>1, <4>2 DEF ToldLease
      <4>3. CASE n # 0
        <5>1. (n + 1) - 1 = n /\ n \in 1..n /\ n + 1 # 1
          BY <1>1, <4>3
        <5>2. m.gen = A[n].gen
          BY <1>0, <1>1, <4>1, <4>3, <5>1 DEF ToldLease, n
        <5> QED
          BY <5>1, <5>2
      <4> QED
        BY <4>2, <4>3
    <3> QED
      BY <1>0, <3>1, <3>3, <3>4
  <2> QED
    BY <1>1, <1>2, <1>4, <2>1, <2>2 DEF InboxOrder
<1>22. InboxBehind(q, ph, A, s, N)
  <2>1. \A i \in 1..n : A[i].gen <= s.gen /\ (States(A[i]) => A[i].through <= s.applied)
    BY <1>1, <1>3, <1>5 DEF InboxBehind, n
  <2>2. m.gen <= s.gen /\ (States(m) => m.through <= s.applied)
    BY <1>0, <1>4
  <2> QED
    BY <1>1, <1>2, <2>1, <2>2 DEF InboxBehind
<1>23. InboxOwner(c, q, ph, A, s)
  <2>1. \A i \in 1..n : Claims(c, A[i]) /\ Current(s, s.epoch, A[i].gen) => s.holder \in {c, NoPage}
    BY <1>1, <1>3, <1>5 DEF InboxOwner, n
  <2> QED
    BY <1>1, <1>2, <1>6, <2>1 DEF InboxOwner
<1>24. InboxReaches(c, q, ph, A, s)
  <2>1. ASSUME NEW i \in 1..n, Claims(c, A[i]), Current(s, s.epoch, A[i].gen)
        PROVE  Reaches(q, ph, A, s.epoch, A[i].gen, i, s.applied)
    <3>1. Reaches(q, ph, D, s.epoch, D[i].gen, i, s.applied)
      BY <1>1, <1>3, <1>5, <2>1 DEF InboxReaches, n
    <3> QED
      BY <1>0, <1>1, <3>1, ReachesMore DEF A, n
  <2> QED
    BY <1>1, <1>2, <1>7, <2>1 DEF InboxReaches
<1>25. InboxCovers(c, q, ph, A)
  <2> SUFFICES ASSUME NEW i \in 1..n + 1, NEW j \in 1..n + 1, i < j,
                      Claims(c, A[i]), States(A[j]), A[i].gen = A[j].gen
               PROVE  Reaches(q, ph, A, s.epoch, A[i].gen, i, A[j].through)
    BY <1>1, <1>2 DEF InboxCovers
  <2>1. i \in 1..n /\ A[i] = D[i]
    BY <1>1
  <2>2. CASE j \in 1..n
    <3>1. Reaches(q, ph, D, s.epoch, D[i].gen, i, D[j].through)
      BY <1>1, <1>3, <1>5, <2>1, <2>2 DEF InboxCovers, n
    <3> QED
      BY <1>0, <1>1, <2>1, <2>2, <3>1, ReachesMore DEF A, n
  <2>3. CASE j = n + 1
    <3>1. A[j].through = s.applied /\ Current(s, s.epoch, D[i].gen)
      BY <1>0, <1>1, <1>4, <2>1, <2>3 DEF Current
    <3>2. Reaches(q, ph, D, s.epoch, D[i].gen, i, s.applied)
      BY <1>1, <1>3, <1>5, <2>1, <3>1 DEF InboxReaches, n
    <3> QED
      BY <1>0, <1>1, <2>1, <3>1, <3>2, ReachesMore DEF A, n
  <2> QED
    BY <1>1, <2>2, <2>3
<1>26. InboxShort(q, l, A)
  <2>1. ASSUME l.role = "controller", NEW j \in 1..n, Mine(q, A[j]) PROVE A[j].through <= End(q)
    BY <1>1, <1>3, <2>1 DEF InboxShort, n
  <2>2. ASSUME l.role = "controller", Mine(q, m) PROVE m.through <= End(q)
    BY <1>3, <1>8, <2>2 DEF QueueReaches
  <2> QED
    BY <1>1, <2>1, <2>2 DEF InboxShort
<1>27. InboxApplied(q, A, pane)
  <2>1. ASSUME NEW j \in 1..n, Mine(q, A[j]), NEW p \in Nat, Open(q, p), p <= A[j].through
        PROVE  At(q, p) \in pane
    BY <1>1, <1>3, <2>1 DEF InboxApplied, n
  <2>2. ASSUME Mine(q, m), NEW p \in Nat, Open(q, p), p <= m.through PROVE At(q, p) \in pane
    BY <1>3, <1>8, <2>2 DEF QueueApplied
  <2> QED
    BY <1>1, <2>1, <2>2 DEF InboxApplied
<1> QED
  BY <1>3, <1>20, <1>21, <1>22, <1>23, <1>24, <1>25, <1>26, <1>27 DEF PageInv, A

\* And it has been told.
LEMMA ToldTold ==
    ASSUME NEW k \in Nat, NEW c \in Pages, NEW q \in Queues(k), NEW l, NEW ph \in Phases,
           NEW D \in Seq(Messages), NEW s \in Sessions, NEW N \in Nat, NEW pane,
           PageInv(c, q, l, ph, D, s, N, pane), NEW m, Says(c, q, ph, D, s, N, m)
    PROVE  /\ ToldEpoch(q, ph, Append(D, m), s)
           /\ ToldLease(q, ph, Append(D, m), s)
           /\ ToldCursor(q, ph, Append(D, m), s)
<1> DEFINE A == Append(D, m)
           n == Len(D)
<1>0. /\ m \in Messages /\ m.gen = s.gen /\ s.applied \in Nat
      /\ States(m) => m.epoch = s.epoch /\ m.through = s.applied
  BY SessionFields DEF Says
<1>1. /\ A # <<>> /\ n \in Nat /\ Len(A) = n + 1 /\ A[n + 1] = m
      /\ \A i \in 1..n : A[i] = D[i]
  BY <1>0, Appended
<1>2. EpochOf(q, ph, A) = s.epoch
  BY SaysEpoch
<1>3. ToldEpoch(q, ph, A, s) /\ ToldLease(q, ph, A, s)
  BY <1>0, <1>1, <1>2 DEF ToldEpoch, ToldLease
<1>4. ToldCursor(q, ph, A, s)
  <2>1. CASE States(m)
    <3>1. n + 1 \in 1..n + 1 /\ States(A[n + 1]) /\ s.applied <= A[n + 1].through
      BY <1>0, <1>1, <2>1
    <3> QED
      BY <1>1, <3>1 DEF ToldCursor
  <2>2. CASE ~States(m)
    <3>1. ToldCursor(q, ph, D, s)
      BY <2>2 DEF Says, States
    <3>2. \A j \in 1..n : j \in 1..n + 1 /\ A[j] = D[j]
      BY <1>1
    <3> QED
      BY <1>1, <3>1, <3>2 DEF ToldCursor
  <2> QED
    BY <2>1, <2>2
<1> QED
  BY <1>3, <1>4
-----------------------------------------------------------------------------
(* A page types, connects, loses its connection.                           *)

\* r is q with more at its end.
Extends(q, r) ==
    /\ r.epoch = q.epoch /\ r.gen = q.gen /\ r.cursor = q.cursor /\ End(q) <= End(r)
    /\ \A p \in Nat : Open(r, p) /\ p <= End(q) => Open(q, p) /\ At(r, p) = At(q, p)

\* A queue moves forward: another epoch or generation, or the same positions
\* from a later cursor.
Later(q, r) ==
    /\ q.epoch <= r.epoch
    /\ q.epoch = r.epoch => q.gen <= r.gen
    /\ q.epoch = r.epoch /\ q.gen = r.gen =>
           /\ q.cursor <= r.cursor /\ End(q) <= End(r)
           /\ \A p \in Nat : r.cursor < p /\ p <= End(q) => At(r, p) = At(q, p)

LEMMA SentLater ==
    ASSUME NEW k \in Nat, NEW j \in Nat, NEW q \in Queues(k), NEW r \in Queues(j),
           NEW e \in Nat, NEW g \in Nat, NEW p \in Nat, NEW x, SentAt(q, e, g, p, x), Later(q, r)
    PROVE  SentAt(r, e, g, p, x)
<1>1. /\ q.epoch \in Nat /\ q.gen \in Nat /\ q.cursor \in Nat /\ End(q) \in Nat
      /\ r.epoch \in Nat /\ r.gen \in Nat /\ r.cursor \in Nat /\ End(r) \in Nat
  BY Positions
<1>2. e <= r.epoch /\ (e = r.epoch => g <= r.gen)
  BY <1>1 DEF SentAt, Later
<1>3. ASSUME e = r.epoch, g = r.gen PROVE p <= End(r) /\ (r.cursor < p => x = At(r, p))
  <2>1. q.epoch = e /\ q.gen = g
    BY <1>1, <1>3 DEF SentAt, Later
  <2>2. /\ p <= End(q) /\ (q.cursor < p => x = At(q, p)) /\ q.cursor <= r.cursor /\ End(q) <= End(r)
        /\ r.cursor < p => At(r, p) = At(q, p)
    BY <1>3, <2>1 DEF SentAt, Later
  <2> QED
    BY <1>1, <2>2
<1> QED
  BY <1>2, <1>3 DEF SentAt

LEMMA ExtendsLater ==
    ASSUME NEW k \in Nat, NEW j \in Nat, NEW q \in Queues(k), NEW r \in Queues(j), Extends(q, r)
    PROVE  Later(q, r)
<1>1. /\ q.epoch \in Nat /\ q.gen \in Nat /\ q.cursor \in Nat /\ End(q) \in Nat /\ End(r) \in Nat
      /\ r.epoch = q.epoch /\ r.gen = q.gen /\ r.cursor = q.cursor /\ End(q) <= End(r)
  BY Positions DEF Extends
<1>2. ASSUME NEW p \in Nat, r.cursor < p, p <= End(q) PROVE At(r, p) = At(q, p)
  <2>1. Open(r, p)
    BY <1>1, <1>2 DEF Open
  <2> QED
    BY <1>2, <2>1 DEF Extends
<1> QED
  BY <1>1, <1>2 DEF Later

LEMMA TookLater ==
    ASSUME NEW k \in Nat, NEW q \in Queues(k), NEW ph \in Phases, NEW D \in Seq(Messages), D # <<>>,
           InboxOrder(q, ph, D), NEW pane, NEW r, Took(k, q, r, EpochOf(q, ph, D), D[1], pane)
    PROVE  r \in Queues(k) /\ Later(q, r)
<1>1. /\ r \in Queues(k) /\ r.epoch = EpochOf(q, ph, D) /\ r.gen = D[1].gen
      /\ q.epoch = r.epoch => q.cursor <= r.cursor
      /\ q.epoch = r.epoch /\ q.gen = r.gen => End(q) <= End(r)
      /\ \A p \in Nat : Open(r, p) => At(r, p) = At(q, p)
  BY DEF Took
<1>2. q.epoch <= r.epoch /\ (q.epoch = r.epoch => q.gen <= r.gen)
  <2>1. 1 \in 1..Len(D)
    BY EmptySeq
  <2> QED
    BY <1>1, <2>1 DEF InboxOrder
<1>3. r.cursor \in Nat /\ End(q) \in Nat /\ End(r) \in Nat
  BY <1>1, Positions
<1>4. ASSUME NEW p \in Nat, r.cursor < p, p <= End(q), End(q) <= End(r) PROVE At(r, p) = At(q, p)
  <2>1. Open(r, p)
    BY <1>3, <1>4 DEF Open
  <2> QED
    BY <1>1, <2>1
<1> QED
  BY <1>1, <1>2, <1>4 DEF Later

\* A chunk at the end of a queue, or a chunk refused.
LEMMA AppendExtends ==
    ASSUME NEW k \in Nat, NEW q \in Queues(k), NEW r, NEW x,
           r.epoch = q.epoch, r.gen = q.gen, r.cursor = q.cursor,
           r.chunks = q.chunks \/ r.chunks = Append(q.chunks, x)
    PROVE  Extends(q, r)
<1>1. q.chunks \in Seq(1..k) /\ Len(q.chunks) \in Nat /\ q.cursor \in Nat
  BY QueueFields
<1>2. /\ Len(q.chunks) <= Len(r.chunks) /\ Len(r.chunks) \in Nat
      /\ \A i \in 1..Len(q.chunks) : r.chunks[i] = q.chunks[i]
  <2>1. CASE r.chunks = q.chunks
    BY <1>1, <2>1
  <2>2. CASE r.chunks = Append(q.chunks, x)
    <3>1. q.chunks \in Seq((1..k) \cup {x}) /\ x \in (1..k) \cup {x}
      BY <1>1, SeqMonotonic
    <3> QED
      BY <1>1, <2>2, <3>1, AppendProperties
  <2> QED
    BY <2>1, <2>2
<1>3. End(q) <= End(r) /\ End(q) = q.cursor + Len(q.chunks)
  BY <1>1, <1>2 DEF End
<1>4. ASSUME NEW p \in Nat, Open(r, p), p <= End(q) PROVE Open(q, p) /\ At(r, p) = At(q, p)
  <2>1. q.cursor < p
    BY <1>4 DEF Open
  <2>2. p - q.cursor \in 1..Len(q.chunks)
    BY <1>1, <1>3, <1>4, <2>1
  <2>3. r.chunks[p - q.cursor] = q.chunks[p - q.cursor]
    BY <1>2, <2>2
  <2>4. At(r, p) = At(q, p)
    BY <2>3 DEF At
  <2> QED
    BY <1>4, <2>1, <2>4 DEF Open
<1> QED
  BY <1>3, <1>4 DEF Extends

\* A page that takes itself for the controller types past what was applied.
LEMMA PageTypesOn ==
    ASSUME NEW k \in Nat, NEW j \in Nat, NEW c, NEW q \in Queues(k), NEW r \in Queues(j),
           NEW l, NEW ph \in Phases, NEW D \in Seq(Messages), NEW s, s = NoSession \/ s \in Sessions,
           NEW N, NEW pane, PageInv(c, q, l, ph, D, s, N, pane),
           Extends(q, r), l.role = "controller", q.epoch # 0
    PROVE  PageInv(c, r, l, ph, D, s, N, pane)
<1>1. /\ r.epoch = q.epoch /\ r.gen = q.gen /\ r.cursor = q.cursor /\ End(q) <= End(r)
      /\ \A p \in Nat : Open(r, p) /\ p <= End(q) => Open(q, p) /\ At(r, p) = At(q, p)
  BY DEF Extends
<1>2. End(q) \in Nat /\ End(r) \in Nat /\ \A i \in 1..Len(D) : D[i] \in Messages
  BY Positions, ElementOfSeq
<1>3. /\ QueueBound(q, l, ph) /\ QueueBehind(q, s, N) /\ QueueOwner(c, q, l, s)
      /\ QueueReaches(q, l, s) /\ QueueApplied(q, s, pane)
      /\ InboxShape(ph, D) /\ InboxOrder(q, ph, D) /\ InboxBehind(q, ph, D, s, N)
      /\ InboxOwner(c, q, ph, D, s) /\ InboxReaches(c, q, ph, D, s) /\ InboxCovers(c, q, ph, D)
      /\ InboxShort(q, l, D) /\ InboxApplied(q, D, pane)
  BY DEF PageInv
<1>4. EpochOf(r, ph, D) = EpochOf(q, ph, D)
  BY <1>1 DEF EpochOf
<1>5. ASSUME NEW e, NEW g, NEW i, NEW t \in Nat, Reaches(q, ph, D, e, g, i, t)
      PROVE  Reaches(r, ph, D, e, g, i, t)
  <2>1. t <= End(q) => t <= End(r)
    BY <1>1, <1>2
  <2> QED
    BY <1>1, <1>5, <2>1 DEF Reaches
<1>6. \A e, g : Current(s, e, g) => s.applied \in Nat
  BY SessionFields DEF Current, NoSession
<1>7. \A m : Mine(r, m) <=> Mine(q, m)
  BY <1>1 DEF Mine
<1>20. QueueBound(r, l, ph) /\ QueueBehind(r, s, N) /\ QueueOwner(c, r, l, s)
  BY <1>1, <1>3 DEF QueueBound, QueueBehind, QueueOwner
<1>21. QueueReaches(r, l, s)
  <2> SUFFICES ASSUME Current(s, q.epoch, q.gen) PROVE s.applied <= End(r)
    BY <1>1 DEF QueueReaches
  <2>1. s.applied <= End(q) /\ s.applied \in Nat
    BY <1>3, <1>6 DEF QueueReaches
  <2> QED
    BY <1>1, <1>2, <2>1
<1>22. QueueApplied(r, s, pane)
  <2> SUFFICES ASSUME Current(s, q.epoch, q.gen), NEW p \in Nat, Open(r, p), p <= s.applied
               PROVE  At(r, p) \in pane
    BY <1>1 DEF QueueApplied
  <2>1. s.applied <= End(q) /\ s.applied \in Nat
    BY <1>3, <1>6 DEF QueueReaches
  <2>2. p <= End(q)
    BY <1>2, <2>1
  <2> QED
    BY <1>1, <1>3, <2>2 DEF QueueApplied
<1>23. InboxOrder(r, ph, D) /\ InboxBehind(r, ph, D, s, N) /\ InboxOwner(c, r, ph, D, s)
  BY <1>1, <1>3, <1>4 DEF InboxOrder, InboxBehind, InboxOwner
<1>24. InboxReaches(c, r, ph, D, s)
  <2> SUFFICES ASSUME NEW i \in 1..Len(D), Claims(c, D[i]), Current(s, EpochOf(q, ph, D), D[i].gen)
               PROVE  Reaches(r, ph, D, EpochOf(q, ph, D), D[i].gen, i, s.applied)
    BY <1>4 DEF InboxReaches
  <2>1. Reaches(q, ph, D, EpochOf(q, ph, D), D[i].gen, i, s.applied)
    BY <1>3 DEF InboxReaches
  <2> QED
    BY <1>5, <1>6, <2>1
<1>25. InboxCovers(c, r, ph, D)
  <2> SUFFICES ASSUME NEW i \in 1..Len(D), NEW h \in 1..Len(D), i < h, Claims(c, D[i]), States(D[h]),
                      D[i].gen = D[h].gen
               PROVE  Reaches(r, ph, D, EpochOf(q, ph, D), D[i].gen, i, D[h].through)
    BY <1>4 DEF InboxCovers
  <2>1. Reaches(q, ph, D, EpochOf(q, ph, D), D[i].gen, i, D[h].through)
    BY <1>3 DEF InboxCovers
  <2>2. D[h].through \in Nat
    BY <1>2, MessageFields DEF States
  <2> QED
    BY <1>5, <2>1, <2>2
<1>26. ASSUME NEW h \in 1..Len(D), Mine(q, D[h])
       PROVE  D[h].through <= End(q) /\ D[h].through \in Nat
  BY <1>2, <1>3, <1>26, MessageFields DEF InboxShort, Mine, States
<1>27. InboxShort(r, l, D)
  BY <1>1, <1>2, <1>7, <1>26 DEF InboxShort
<1>28. InboxApplied(r, D, pane)
  <2> SUFFICES ASSUME NEW h \in 1..Len(D), Mine(q, D[h]), NEW p \in Nat, Open(r, p), p <= D[h].through
               PROVE  At(r, p) \in pane
    BY <1>7 DEF InboxApplied
  <2>1. p <= End(q)
    BY <1>2, <1>26
  <2> QED
    BY <1>1, <1>3, <2>1 DEF InboxApplied
<1> QED
  BY <1>3, <1>20, <1>21, <1>22, <1>23, <1>24, <1>25, <1>27, <1>28 DEF PageInv

\* A page without an inbox: its connection is gone, or is not answered yet.
LEMMA PageAlone ==
    ASSUME NEW c, NEW q, NEW l, NEW ph, NEW D, NEW s, NEW N, NEW pane,
           PageInv(c, q, l, ph, D, s, N, pane), NEW d \in {"down", "attaching"}
    PROVE  PageInv(c, q, l, d, <<>>, s, N, pane)
<1>1. \A i : i \notin 1..Len(<<>>)
  OBVIOUS
<1>2. QueueBound(q, l, d)
  BY DEF PageInv, QueueBound
<1>3. /\ InboxShape(d, <<>>) /\ InboxOrder(q, d, <<>>) /\ InboxBehind(q, d, <<>>, s, N)
      /\ InboxOwner(c, q, d, <<>>, s) /\ InboxReaches(c, q, d, <<>>, s) /\ InboxCovers(c, q, d, <<>>)
      /\ InboxShort(q, l, <<>>) /\ InboxApplied(q, <<>>, pane)
  BY <1>1 DEF InboxShape, InboxOrder, InboxBehind, InboxOwner, InboxReaches, InboxCovers,
              InboxShort, InboxApplied
<1> QED
  BY <1>2, <1>3 DEF PageInv
-----------------------------------------------------------------------------
(* What a step of a page does.                                             *)

LEMMA Wires ==
    ASSUME Typing
    PROVE  /\ Len(author) \in Nat /\ epochs \in Nat /\ 0 \notin open
           /\ \A c \in Pages : /\ queue[c] \in Queues(Len(author)) /\ lease[c] \in Leases
                               /\ phase[c] \in Phases /\ Inbox(c) \in Seq(Messages)
           /\ \A c \in Pages : conn[c] # 0 =>
                  conn[c] \in Conns /\ conn[c] \in DOMAIN owner /\ owner[conn[c]] = c
           /\ \A c, d \in Pages : c # d /\ conn[c] # 0 => conn[c] # conn[d]
           /\ session = NoSession \/ session \in Sessions
<1>1. /\ Len(author) \in Nat /\ open \subseteq Conns
  BY Known
<1>2. epochs \in Nat /\ 0 \notin open
  BY <1>1, Bounds DEF Typing, AgentTypes, Conns
<1>3. \A c \in Pages : conn[c] # 0 =>
          conn[c] \in Conns /\ conn[c] \in DOMAIN owner /\ owner[conn[c]] = c
  BY DEF Typing, WireTypes
<1>4. \A c, d \in Pages : c # d /\ conn[c] # 0 => conn[c] # conn[d]
  BY <1>3
<1>5. ASSUME NEW c \in Pages PROVE Inbox(c) \in Seq(Messages)
  BY <1>3, EmptySeq DEF Inbox, Typing, WireTypes
<1> QED
  BY <1>1, <1>2, <1>3, <1>4, <1>5 DEF Typing, PageTypes, AgentTypes

\* The other pages see nothing of what page c does.
OthersStay(c) ==
    \A d \in Pages \ {c} :
        /\ queue'[d] = queue[d] /\ lease'[d] = lease[d] /\ phase'[d] = phase[d]
        /\ conn'[d] = conn[d] /\ Inbox(d)' = Inbox(d)

ToldAll(q, ph, D, s) == ToldEpoch(q, ph, D, s) /\ ToldLease(q, ph, D, s) /\ ToldCursor(q, ph, D, s)

LEMMA OnePage ==
    ASSUME Pages0, Told, NEW c \in Pages, OthersStay(c), UNCHANGED <<session, epochs, pty>>,
           \A d \in Pages \ {c} : Subscribed(d)' => Subscribed(d),
           PageInv(c, queue'[c], lease'[c], phase'[c], Inbox(c)', session, epochs, Pane),
           Subscribed(c)' => ToldAll(queue'[c], phase'[c], Inbox(c)', session)
    PROVE  Pages0' /\ Told'
<1>1. Pane' = Pane /\ session' = session /\ epochs' = epochs
  BY DEF Pane
<1>2. ASSUME NEW d \in Pages
      PROVE  PageInv(d, queue'[d], lease'[d], phase'[d], Inbox(d)', session', epochs', Pane')
  <2>1. CASE d = c
    BY <1>1, <2>1
  <2>2. CASE d # c
    BY <1>1, <2>2 DEF Pages0, OthersStay
  <2> QED
    BY <2>1, <2>2
<1>3. ASSUME NEW d \in Pages, Subscribed(d)'
      PROVE  /\ ToldEpoch(queue'[d], phase'[d], Inbox(d)', session')
             /\ ToldLease(queue'[d], phase'[d], Inbox(d)', session')
             /\ ToldCursor(queue'[d], phase'[d], Inbox(d)', session')
  <2>1. CASE d = c
    BY <1>1, <1>3, <2>1 DEF ToldAll
  <2>2. CASE d # c
    BY <1>1, <1>3, <2>2 DEF Told, OthersStay
  <2> QED
    BY <2>1, <2>2
<1> QED
  BY <1>2, <1>3 DEF Pages0, Told

\* What page c adds to what is on its way to the agent: nothing, or what its
\* queue q holds at the positions it states.
Adds(c, q) ==
    \A n \in Conns : \A i \in 1..Len(up'[n]) :
        \/ i \in 1..Len(up[n]) /\ up'[n][i] = up[n][i]
        \/ /\ up'[n][i].kind # "attach"
           /\ up'[n][i].kind = "input" =>
                  /\ owner[n] = c /\ up'[n][i].chunk \in ToSet(q.chunks)
                  /\ SentAt(q, up'[n][i].epoch, up'[n][i].gen, up'[n][i].seq, up'[n][i].chunk)

\* Element i of a \o b is an element of a, at its place, or one of b.
OneOf(w, i, a, b) ==
    \/ i \in 1..Len(a) /\ w[i] = a[i]
    \/ \E j \in 1..Len(b) : w[i] = b[j]

LEMMA Joined ==
    ASSUME NEW S, NEW a \in Seq(S), NEW b \in Seq(S), NEW w, w = a \o b, NEW i \in 1..Len(w)
    PROVE  OneOf(w, i, a, b)
<1>1. /\ Len(a) \in Nat /\ Len(b) \in Nat /\ Len(w) = Len(a) + Len(b)
      /\ \A j \in 1..Len(a) + Len(b) : w[j] = IF j <= Len(a) THEN a[j] ELSE b[j - Len(a)]
  BY ConcatProperties, LenProperties
<1>2. CASE i <= Len(a)
  <2>1. i \in 1..Len(a) /\ i \in 1..Len(a) + Len(b)
    BY <1>1, <1>2
  <2> QED
    BY <1>1, <1>2, <2>1 DEF OneOf
<1>3. CASE ~(i <= Len(a))
  <2>1. i - Len(a) \in 1..Len(b) /\ i \in 1..Len(a) + Len(b)
    BY <1>1, <1>3
  <2>2. w[i] = b[i - Len(a)]
    BY <1>1, <1>3, <2>1
  <2> QED
    BY <2>1, <2>2 DEF OneOf
<1> QED
  BY <1>1, <1>2, <1>3

LEMMA Flushed ==
    ASSUME NEW k \in Nat, NEW c \in Pages, NEW q \in Queues(k), NEW l \in Leases,
           up \in [Conns -> Seq(Frames(k))], conn[c] \in open => conn[c] \in Conns /\ owner[conn[c]] = c,
           l.gen = q.gen, Flush(c, q, l)
    PROVE  Adds(c, q)
<1>1. CASE UNCHANGED up
  BY <1>1 DEF Adds
<1>2. CASE ~UNCHANGED up
  <2>1. PICK n : n = conn[c]
    OBVIOUS
  <2>2. PICK o : o = Outbound(q, l.gen)
    OBVIOUS
  <2>3. n \in Conns /\ owner[n] = c /\ up' = [up EXCEPT ![n] = up[n] \o o]
    BY <1>2, <2>1, <2>2 DEF Flush
  <2>4. up[n] \in Seq(Frames(k)) /\ q.gen \in Nat /\ q.epoch \in Nat
    BY <2>3, QueueFields
  <2>5. /\ o \in Seq(Frames(k)) /\ Len(o) = Len(q.chunks)
        /\ \A i \in 1..Len(q.chunks) :
               o[i] = [kind |-> "input", epoch |-> q.epoch, seq |-> q.cursor + i,
                       gen |-> q.gen, chunk |-> q.chunks[i]]
    BY <2>2, <2>4, OutboundDoes
  <2>6. ASSUME NEW i \in 1..Len(o)
        PROVE  /\ o[i].kind = "input" /\ o[i].chunk \in ToSet(q.chunks)
               /\ SentAt(q, o[i].epoch, o[i].gen, o[i].seq, o[i].chunk)
    <3>1. PICK p : p = q.cursor + i
      OBVIOUS
    <3>2. /\ o[i].kind = "input" /\ o[i].epoch = q.epoch /\ o[i].gen = q.gen /\ o[i].seq = p
          /\ o[i].chunk = q.chunks[i]
      <4>1. i \in 1..Len(q.chunks)
        BY <2>5
      <4>2. o[i] = [kind |-> "input", epoch |-> q.epoch, seq |-> q.cursor + i,
                    gen |-> q.gen, chunk |-> q.chunks[i]]
        BY <2>5, <4>1
      <4> QED
        BY <3>1, <4>2
    <3>3. Open(q, p) /\ At(q, p) = q.chunks[i]
      BY <2>5, <3>1, Positions
    <3>4. p <= End(q)
      BY <3>3 DEF Open
    <3>5. SentAt(q, q.epoch, q.gen, p, q.chunks[i])
      BY <2>4, <3>3, <3>4 DEF SentAt
    <3>6. q.chunks[i] \in ToSet(q.chunks)
      <4>1. i \in 1..Len(q.chunks)
        BY <2>5
      <4>2. q.chunks \in Seq(1..k) /\ DOMAIN q.chunks = 1..Len(q.chunks)
        BY Positions, LenProperties
      <4> QED
        BY <4>1, <4>2 DEF ToSet
    <3> QED
      BY <3>2, <3>5, <3>6
  <2>7. ASSUME NEW m \in Conns, NEW i \in 1..Len(up'[m])
        PROVE  \/ i \in 1..Len(up[m]) /\ up'[m][i] = up[m][i]
               \/ m = n /\ \E j \in 1..Len(o) : up'[m][i] = o[j]
    <3>1. CASE m # n
      BY <2>3, <3>1
    <3>2. CASE m = n
      <4>1. up'[n] = up[n] \o o
        BY <2>3
      <4>2. OneOf(up'[n], i, up[n], o)
        BY <2>4, <2>5, <3>2, <4>1, Joined
      <4> QED
        BY <3>2, <4>2 DEF OneOf
    <3> QED
      BY <3>1, <3>2
  <2> QED
    BY <2>3, <2>6, <2>7 DEF Adds
<1> QED
  BY <1>1, <1>2

LEMMA AddsFrames ==
    ASSUME Typing, Typing', NEW c \in Pages, Adds(c, queue'[c]), SentFrames, SentWork,
           UNCHANGED <<owner, open, work>>, \A d \in Pages : Later(queue[d], queue'[d])
    PROVE  SentFrames' /\ SentWork'
<1>1. /\ Len(author) \in Nat /\ Len(author') \in Nat
      /\ \A d \in Pages : queue[d] \in Queues(Len(author)) /\ queue'[d] \in Queues(Len(author'))
      /\ open \subseteq Conns /\ open \subseteq DOMAIN owner
      /\ \A n \in DOMAIN owner : owner[n] \in Pages
      /\ \A n \in Conns : up[n] \in Seq(Frames(Len(author)))
  <2>1. Len(author) \in Nat /\ open \subseteq Conns /\ \A n \in DOMAIN owner : owner[n] \in Pages
    BY Known
  <2>2. Len(author') \in Nat
    BY DEF Typing, PageTypes
  <2> QED
    BY <2>1, <2>2 DEF Typing, PageTypes, WireTypes
<1>2. ASSUME NEW n \in open, NEW i \in 1..Len(up'[n]), up'[n][i].kind = "input"
      PROVE  SentAt(queue'[owner[n]], up'[n][i].epoch, up'[n][i].gen, up'[n][i].seq, up'[n][i].chunk)
  <2>1. PICK f : f = up'[n][i]
    OBVIOUS
  <2>2. n \in Conns /\ owner[n] \in Pages
    BY <1>1
  <2>3. CASE i \in 1..Len(up[n]) /\ up'[n][i] = up[n][i]
    <3>1. f = up[n][i] /\ f \in Frames(Len(author)) /\ f.kind = "input"
      BY <1>1, <1>2, <2>1, <2>2, <2>3, ElementOfSeq
    <3>2. f.epoch \in Nat /\ f.gen \in Nat /\ f.seq \in Nat
      BY <1>1, <3>1, FrameFields
    <3>3. SentAt(queue[owner[n]], f.epoch, f.gen, f.seq, f.chunk)
      BY <2>3, <3>1 DEF SentFrames
    <3>4. SentAt(queue'[owner[n]], f.epoch, f.gen, f.seq, f.chunk)
      BY <1>1, <2>2, <3>2, <3>3, SentLater
    <3> QED
      BY <2>1, <3>4
  <2>4. CASE owner[n] = c /\ SentAt(queue'[c], f.epoch, f.gen, f.seq, f.chunk)
    BY <2>1, <2>4
  <2> QED
    BY <1>2, <2>1, <2>2, <2>3, <2>4 DEF Adds
<1>3. ASSUME work # Idle
      PROVE  SentAt(queue'[owner[work.conn]], work.epoch, work.gen, work.through, work.chunk)
  <2>1. IsWork(work, Len(author)) /\ owner[work.conn] \in Pages
    BY <1>1, <1>3 DEF Typing, AgentTypes
  <2>2. work.epoch \in Nat /\ work.gen \in Nat /\ work.through \in Nat
    BY <2>1 DEF IsWork, Epochs
  <2>3. SentAt(queue[owner[work.conn]], work.epoch, work.gen, work.through, work.chunk)
    BY <1>3 DEF SentWork
  <2> QED
    BY <1>1, <2>1, <2>2, <2>3, SentLater
<1> QED
  BY <1>2, <1>3 DEF SentFrames, SentWork

LEMMA AddsAttach ==
    ASSUME Typing, NEW c \in Pages, NEW q, Adds(c, q), AttachFirst,
           UNCHANGED <<owner, open, session, work>>,
           \A n \in Conns : down[n] = <<>> => down'[n] = <<>>,
           \A d \in Pages : \/ conn'[d] = 0
                            \/ conn'[d] = conn[d] /\ phase'[d] = phase[d]
                            \/ conn'[d] = conn[d] /\ down[conn[d]] # <<>>
    PROVE  AttachFirst'
<1> SUFFICES ASSUME NEW n \in open, NEW i \in 1..Len(up'[n]), up'[n][i].kind = "attach"
             PROVE  /\ i = 1 /\ down'[n] = <<>>
                    /\ ~IsPeer(n)'
                    /\ work # Idle => n \notin work.peers
                    /\ conn'[owner[n]] = n => phase'[owner[n]] = "attaching"
  BY DEF AttachFirst
<1>1. n \in Conns /\ n # 0 /\ owner[n] \in Pages
  BY Known, Wires DEF Typing, WireTypes
<1>2. i \in 1..Len(up[n]) /\ up'[n][i] = up[n][i]
  BY <1>1 DEF Adds
<1>3. /\ i = 1 /\ down[n] = <<>> /\ ~IsPeer(n)
      /\ work # Idle => n \notin work.peers
      /\ conn[owner[n]] = n => phase[owner[n]] = "attaching"
  BY <1>2 DEF AttachFirst
<1>4. down'[n] = <<>> /\ ~IsPeer(n)'
  BY <1>1, <1>3 DEF IsPeer
<1>5. conn'[owner[n]] = n => phase'[owner[n]] = "attaching"
  BY <1>1, <1>3
<1> QED
  BY <1>3, <1>4, <1>5
LEMMA LaterSelf ==
    ASSUME NEW k \in Nat, NEW q \in Queues(k)
    PROVE  Later(q, q)
  BY Positions DEF Later

\* The mutation in progress does not depend on the pages.
LEMMA WritingStays ==
    ASSUME Writing, UNCHANGED <<session, work, writeQ, pty>>,
           DOMAIN owner \subseteq DOMAIN owner', open' \cap DOMAIN owner \subseteq open
    PROVE  Writing'
  BY DEF Writing, Pane

\* A page types: the chunk is its last, or is reported.
Typed(c) ==
    /\ queue[c].epoch # 0 /\ lease[c].role = "controller"
    /\ queue'[c] \in Queues(Len(author) + 1) /\ Extends(queue[c], queue'[c])
    /\ \/ /\ queue'[c].chunks = queue[c].chunks
          /\ queue'[c].lost = queue[c].lost \cup {Len(author) + 1}
       \/ /\ queue'[c].chunks = Append(queue[c].chunks, Len(author) + 1)
          /\ queue'[c].lost = queue[c].lost
    /\ \A d \in Pages \ {c} : queue'[d] = queue[d]
    /\ author' = Append(author, c) /\ Len(author) + 1 <= MaxTyped
    /\ UNCHANGED <<lease, phase, conn, aged, owner, open, down, agentVars>>
    /\ Adds(c, queue'[c])

LEMMA TypeDoes ==
    ASSUME Typing, Numbering, QueueSurvives, NEW c \in Pages, Type(c)
    PROVE  Typed(c)
<1> DEFINE k == Len(author) + 1
<1>1. PICK q : q = queue[c]
  OBVIOUS
<1>2. /\ Len(author) \in Nat /\ k \in Nat /\ k \in 1..k /\ q \in Queues(Len(author)) /\ q \in Queues(k)
      /\ lease[c] \in Leases /\ up \in [Conns -> Seq(Frames(k))]
  <2>1. /\ Len(author) \in Nat /\ q \in Queues(Len(author)) /\ lease[c] \in Leases
        /\ up \in [Conns -> Seq(Frames(Len(author)))]
    BY <1>1, Wires DEF Typing, WireTypes
  <2>2. k \in Nat /\ Len(author) <= k /\ k \in 1..k
    BY <2>1
  <2>3. Queues(Len(author)) \subseteq Queues(k) /\ Seq(Frames(Len(author))) \subseteq Seq(Frames(k))
    BY <2>1, <2>2, Widen
  <2> QED
    BY <2>1, <2>2, <2>3
<1>3. Expire(q) = q
  BY DEF Numbering, Channels, Expire
<1>4. /\ q.epoch # 0 /\ lease[c].role = "controller" /\ lease[c].gen = q.gen
  <2>1. q.epoch # 0 /\ lease[c].role # "observer"
    BY <1>1 DEF Type, QueueSurvives
  <2>2. lease[c].role = "controller"
    BY <1>2, <2>1 DEF Leases, Roles
  <2>3. PageInv(c, q, lease[c], phase[c], Inbox(c), session, epochs, Pane)
    BY <1>1 DEF Numbering, Pages0
  <2>4. QueueBound(q, lease[c], phase[c])
    BY <2>3 DEF PageInv
  <2> QED
    BY <2>1, <2>2, <2>4 DEF QueueBound
<1>5. /\ author' = Append(author, c) /\ k <= MaxTyped
      /\ UNCHANGED <<lease, phase, conn, aged, owner, open, down, agentVars>>
      /\ \/ /\ queue' = [queue EXCEPT ![c] = [q EXCEPT !.lost = q.lost \cup {k}]]
            /\ UNCHANGED up
         \/ /\ queue' = [queue EXCEPT ![c] = [q EXCEPT !.chunks = Append(q.chunks, k)]]
            /\ IF phase[c] = "attached" THEN Flush(c, queue'[c], lease[c]) ELSE UNCHANGED up
  BY <1>1, <1>3, Bounds DEF Type, Chunks
<1>6. q.chunks \in Seq(1..k) /\ q.lost \in SUBSET (1..k) /\ q.cursor \in Nat
  BY <1>2, QueueFields
<1>7. Append(q.chunks, k) \in Seq(1..k) /\ q.lost \cup {k} \in SUBSET (1..k)
  BY <1>2, <1>6, AppendProperties
<1>8. queue \in [Pages -> Queues(Len(author))] /\ DOMAIN queue = Pages
  BY DEF Typing, PageTypes
<1> HIDE DEF k
<1>9. CASE queue' = [queue EXCEPT ![c] = [q EXCEPT !.lost = q.lost \cup {k}]] /\ UNCHANGED up
  <2>1. PICK r : r = [q EXCEPT !.lost = q.lost \cup {k}]
    OBVIOUS
  <2>2. Edited(k, q, [q EXCEPT !.lost = q.lost \cup {k}], q.chunks, q.cursor, q.lost \cup {k})
    BY <1>2, <1>6, <1>7, QueueEdits, Zenon
  <2>3. Edited(k, q, r, q.chunks, q.cursor, q.lost \cup {k})
    BY <2>1, <2>2, Zenon
  <2>4. r = queue'[c] /\ \A d \in Pages \ {c} : queue'[d] = queue[d]
    BY <1>8, <1>9, <2>1
  <2>5. Extends(q, r)
    BY <1>2, <2>3, AppendExtends DEF Edited
  <2>6. Adds(c, r)
    BY <1>9 DEF Adds
  <2> QED
    BY <1>1, <1>4, <1>5, <2>3, <2>4, <2>5, <2>6 DEF Edited, Typed, k
<1>10. CASE /\ queue' = [queue EXCEPT ![c] = [q EXCEPT !.chunks = Append(q.chunks, k)]]
            /\ IF phase[c] = "attached" THEN Flush(c, queue'[c], lease[c]) ELSE UNCHANGED up
  <2>1. PICK r : r = [q EXCEPT !.chunks = Append(q.chunks, k)]
    OBVIOUS
  <2>2. Edited(k, q, [q EXCEPT !.chunks = Append(q.chunks, k)], Append(q.chunks, k), q.cursor, q.lost)
    BY <1>2, <1>6, <1>7, QueueEdits, Zenon
  <2>3. Edited(k, q, r, Append(q.chunks, k), q.cursor, q.lost)
    BY <2>1, <2>2, Zenon
  <2>4. r = queue'[c] /\ \A d \in Pages \ {c} : queue'[d] = queue[d]
    BY <1>8, <1>10, <2>1
  <2>5. Extends(q, r) /\ r \in Queues(k) /\ r.gen = q.gen
    BY <1>2, <2>3, AppendExtends DEF Edited
  <2>6. Adds(c, r)
    <3>1. CASE UNCHANGED up
      BY <3>1 DEF Adds
    <3>2. CASE Flush(c, r, lease[c])
      <4>1. conn[c] \in open => conn[c] \in Conns /\ owner[conn[c]] = c
        BY Wires
      <4> QED
        BY <1>2, <1>4, <2>5, <3>2, <4>1, Flushed
    <3> QED
      BY <1>10, <2>4, <3>1, <3>2
  <2> QED
    BY <1>1, <1>4, <1>5, <2>3, <2>4, <2>5, <2>6 DEF Edited, Typed, k
<1> QED
  BY <1>5, <1>9, <1>10

LEMMA TypeNumbering ==
    ASSUME Typing, Typing', Numbering, QueueSurvives, NEW c \in Pages, Type(c)
    PROVE  Numbering'
<1>1. /\ queue[c].epoch # 0 /\ lease[c].role = "controller"
      /\ queue'[c] \in Queues(Len(author) + 1) /\ Extends(queue[c], queue'[c])
      /\ \A d \in Pages \ {c} : queue'[d] = queue[d]
      /\ UNCHANGED <<lease, phase, conn, aged, owner, open, down, agentVars>>
      /\ Adds(c, queue'[c])
  BY TypeDoes DEF Typed
<1>2. UNCHANGED <<session, epochs, work, writeQ, pty>>
  BY <1>1 DEF agentVars
<1>3. /\ Len(author) \in Nat /\ Len(author) + 1 \in Nat
      /\ \A d \in Pages : queue[d] \in Queues(Len(author))
  BY Wires
<1>4. \A d \in Pages : Inbox(d)' = Inbox(d) /\ (Subscribed(d)' <=> Subscribed(d))
  BY <1>1, <1>2 DEF Inbox, Subscribed, IsPeer
<1>5. \A d \in Pages : Later(queue[d], queue'[d])
  BY <1>1, <1>3, LaterSelf, ExtendsLater
<1>6. PageInv(c, queue'[c], lease[c], phase[c], Inbox(c), session, epochs, Pane)
  <2>1. PageInv(c, queue[c], lease[c], phase[c], Inbox(c), session, epochs, Pane)
    BY DEF Numbering, Pages0
  <2>2. /\ phase[c] \in Phases /\ Inbox(c) \in Seq(Messages)
        /\ session = NoSession \/ session \in Sessions
    BY Wires
  <2> QED
    BY <1>1, <1>3, <2>1, <2>2, PageTypesOn
<1>7. Subscribed(c)' => ToldAll(queue'[c], phase'[c], Inbox(c)', session)
  <2>1. queue'[c].epoch = queue[c].epoch /\ queue'[c].gen = queue[c].gen
        /\ queue'[c].cursor = queue[c].cursor
    BY <1>1 DEF Extends
  <2> QED
    BY <1>1, <1>4, <2>1 DEF Numbering, Told, ToldAll, ToldEpoch, ToldLease, ToldCursor, EpochOf
<1>8. Pages0' /\ Told'
  <2>1. OthersStay(c)
    BY <1>1, <1>4 DEF OthersStay
  <2> QED
    BY <1>1, <1>2, <1>4, <1>6, <1>7, <2>1, OnePage DEF Numbering
<1>9. Channels'
  BY <1>1 DEF Numbering, Channels
<1>10. SentFrames' /\ SentWork'
  BY <1>1, <1>2, <1>5, AddsFrames DEF Numbering
<1>11. AttachFirst'
  BY <1>1, <1>2, AddsAttach DEF Numbering
<1>12. Writing'
  BY <1>1, <1>2, WritingStays DEF Numbering
<1> QED
  BY <1>8, <1>9, <1>10, <1>11, <1>12 DEF Numbering

\* What the agent had not received yet is gone from some frame on.
LEMMA LoseTransportAdds ==
    ASSUME Typing, NEW c \in Pages, LoseTransport(c), NEW q
    PROVE  Adds(c, q)
<1>1. PICK n : n = conn[c]
  OBVIOUS
<1>2. PICK t \in 0..Len(up[n]) : up' = [up EXCEPT ![n] = SubSeq(up[n], 1, t)]
  BY <1>1 DEF LoseTransport
<1>3. n \in Conns /\ up \in [Conns -> Seq(Frames(Len(author)))]
  BY <1>1, Wires DEF LoseTransport, Typing, WireTypes
<1>4. up[n] \in Seq(Frames(Len(author)))
  BY <1>3
<1>5. Len(SubSeq(up[n], 1, t)) = t /\ \A i \in 1..t : SubSeq(up[n], 1, t)[i] = up[n][i]
  BY <1>4, Prefix
<1>6. up'[n] = SubSeq(up[n], 1, t) /\ \A m \in Conns : m # n => up'[m] = up[m]
  BY <1>2, <1>3
<1>7. \A i \in 1..t : i \in 1..Len(up[n])
  BY <1>4, LenProperties
<1> QED
  BY <1>5, <1>6, <1>7 DEF Adds

LEMMA LoseTransportNumbering ==
    ASSUME Typing, Typing', Numbering, NEW c \in Pages, LoseTransport(c)
    PROVE  Numbering'
<1>1. PICK n : n = conn[c]
  OBVIOUS
<1>2. /\ n # 0 /\ phase' = [phase EXCEPT ![c] = "down"] /\ conn' = [conn EXCEPT ![c] = 0]
      /\ down' = [down EXCEPT ![n] = <<>>]
      /\ UNCHANGED <<queue, lease, aged, author, owner, open, agentVars>>
  BY <1>1 DEF LoseTransport
<1>4. UNCHANGED <<session, epochs, work, writeQ, pty>>
  BY <1>2 DEF agentVars
<1>5. /\ Len(author) \in Nat /\ n \in Conns /\ owner[n] = c /\ 0 \notin open
      /\ \A d \in Pages : queue[d] \in Queues(Len(author))
      /\ \A d \in Pages : d # c => conn[d] # n
      /\ conn \in [Pages -> Conns \cup {0}] /\ phase \in [Pages -> Phases]
      /\ down \in [Conns -> Seq(Messages)] /\ up \in [Conns -> Seq(Frames(Len(author)))]
  BY <1>1, <1>2, Wires DEF Typing, WireTypes, PageTypes
<1>6. /\ conn'[c] = 0 /\ phase'[c] = "down" /\ Inbox(c)' = <<>>
      /\ \A d \in Pages : d # c => conn'[d] = conn[d] /\ phase'[d] = phase[d]
  BY <1>2, <1>5 DEF Inbox
<1>7. \A d \in Pages : d # c => Inbox(d)' = Inbox(d)
  BY <1>2, <1>5, <1>6 DEF Inbox
<1>8. Adds(c, queue'[c])
  BY LoseTransportAdds
<1>9. Pages0' /\ Told'
  <2>1. OthersStay(c)
    BY <1>2, <1>6, <1>7 DEF OthersStay
  <2>2. PageInv(c, queue[c], lease[c], phase[c], Inbox(c), session, epochs, Pane)
    BY DEF Numbering, Pages0
  <2>3. PageInv(c, queue'[c], lease'[c], phase'[c], Inbox(c)', session, epochs, Pane)
    BY <1>2, <1>6, <2>2, PageAlone
  <2>4. ~Subscribed(c)' /\ \A d \in Pages : d # c => (Subscribed(d)' <=> Subscribed(d))
    BY <1>2, <1>4, <1>5, <1>6 DEF Subscribed, IsPeer
  <2> QED
    BY <1>4, <2>1, <2>3, <2>4, OnePage DEF Numbering
<1>10. Channels'
  <2>1. \A d \in Pages : conn'[d] = 0 <=> phase'[d] = "down"
    BY <1>6 DEF Numbering, Channels
  <2>2. ASSUME NEW m \in Conns, m \notin DOMAIN owner \/ conn'[owner[m]] # m PROVE down'[m] = <<>>
    <3>1. CASE m = n
      BY <1>2, <1>5, <3>1
    <3>2. CASE m # n
      <4>1. m \notin DOMAIN owner \/ conn[owner[m]] # m
        <5>1. m \in DOMAIN owner => owner[m] \in Pages
          BY Known
        <5> QED
          BY <1>1, <1>6, <2>2, <3>2, <5>1
      <4> QED
        BY <1>2, <1>5, <3>2, <4>1 DEF Numbering, Channels
    <3> QED
      BY <3>1, <3>2
  <2> QED
    BY <1>2, <2>1, <2>2 DEF Numbering, Channels
<1>11. SentFrames' /\ SentWork'
  <2>1. \A d \in Pages : Later(queue[d], queue'[d])
    BY <1>2, <1>5, LaterSelf
  <2> QED
    BY <1>2, <1>4, <1>8, <2>1, AddsFrames DEF Numbering
<1>12. AttachFirst'
  <2>1. \A m \in Conns : down[m] = <<>> => down'[m] = <<>>
    BY <1>2, <1>5
  <2> QED
    BY <1>2, <1>4, <1>6, <1>8, <2>1, AddsAttach DEF Numbering
<1>13. Writing'
  BY <1>2, <1>4, WritingStays DEF Numbering
<1> QED
  BY <1>9, <1>10, <1>11, <1>12, <1>13 DEF Numbering

LEMMA ConnectNumbering ==
    ASSUME Typing, Typing', Numbering, NEW c \in Pages, Connect(c)
    PROVE  Numbering'
<1>1. PICK n : n = Len(owner) + 1
  OBVIOUS
<1>2. /\ conn[c] = 0 /\ n \in Conns /\ owner' = Append(owner, c) /\ open' = open \cup {n}
      /\ conn' = [conn EXCEPT ![c] = n] /\ phase' = [phase EXCEPT ![c] = "attaching"]
      /\ up' = [up EXCEPT ![n] = <<[kind |-> "attach"]>>]
      /\ UNCHANGED <<queue, lease, aged, author, down, agentVars>>
  BY <1>1 DEF Connect
<1>3. UNCHANGED <<session, epochs, work, writeQ, pty>>
  BY <1>2 DEF agentVars
<1>4. /\ Len(author) \in Nat /\ n # 0 /\ open \subseteq Conns /\ open \subseteq DOMAIN owner
      /\ \A d \in Pages : queue[d] \in Queues(Len(author))
      /\ conn \in [Pages -> Conns \cup {0}] /\ phase \in [Pages -> Phases]
      /\ \A d \in Pages : conn[d] # 0 => conn[d] \in DOMAIN owner /\ owner[conn[d]] = d
      /\ \A m \in DOMAIN owner : owner[m] \in Pages /\ m \in Conns
      /\ up \in [Conns -> Seq(Frames(Len(author)))]
  <2>1. n # 0
    BY <1>2 DEF Conns
  <2>2. DOMAIN owner \subseteq Conns /\ open \subseteq Conns /\ \A m \in DOMAIN owner : owner[m] \in Pages
    BY Known
  <2>3. Len(author) \in Nat /\ \A d \in Pages : queue[d] \in Queues(Len(author))
    BY Wires
  <2> QED
    BY <2>1, <2>2, <2>3 DEF Typing, WireTypes, PageTypes
<1>5. /\ n \notin DOMAIN owner /\ n \in DOMAIN owner' /\ DOMAIN owner \subseteq DOMAIN owner'
      /\ DOMAIN owner' = DOMAIN owner \cup {n}
      /\ owner'[n] = c /\ \A m \in DOMAIN owner : owner'[m] = owner[m]
  <2>1. owner \in Seq(Pages) /\ Len(owner) \in Nat /\ DOMAIN owner = 1..Len(owner)
    BY Known DEF Typing, WireTypes
  <2>2. /\ owner' \in Seq(Pages) /\ Len(owner') = n /\ owner'[n] = c
        /\ \A m \in 1..Len(owner) : owner'[m] = owner[m]
    BY <1>1, <1>2, <2>1, AppendProperties
  <2>3. DOMAIN owner' = 1..n
    BY <2>2, LenProperties
  <2>4. 1..n = (1..Len(owner)) \cup {n} /\ n \notin 1..Len(owner)
    BY <1>1, <2>1
  <2> QED
    BY <2>1, <2>2, <2>3, <2>4
<1>6. /\ session # NoSession => session.peers \subseteq DOMAIN owner
      /\ work # Idle => work.peers \subseteq DOMAIN owner
      /\ ~IsPeer(n)
  BY <1>5 DEF Typing, AgentTypes, Numbering, Writing, IsPeer
<1>7. /\ conn'[c] = n /\ phase'[c] = "attaching"
      /\ \A d \in Pages : d # c => conn'[d] = conn[d] /\ phase'[d] = phase[d]
  BY <1>2, <1>4
<1>8. down[n] = <<>> /\ Inbox(c)' = <<>>
  <2>1. down[n] = <<>>
    BY <1>2, <1>5 DEF Numbering, Channels
  <2> QED
    BY <1>2, <1>4, <1>7, <2>1 DEF Inbox
<1>9. \A d \in Pages : d # c => Inbox(d)' = Inbox(d)
  BY <1>2, <1>7 DEF Inbox
<1>10. Pages0' /\ Told'
  <2>1. OthersStay(c)
    BY <1>2, <1>7, <1>9 DEF OthersStay
  <2>2. PageInv(c, queue[c], lease[c], phase[c], Inbox(c), session, epochs, Pane)
    BY DEF Numbering, Pages0
  <2>3. PageInv(c, queue'[c], lease'[c], phase'[c], Inbox(c)', session, epochs, Pane)
    BY <1>2, <1>7, <1>8, <2>2, PageAlone
  <2>4. ~Subscribed(c)'
    BY <1>3, <1>6, <1>7 DEF Subscribed, IsPeer
  <2>5. ASSUME NEW d \in Pages, d # c, Subscribed(d)' PROVE Subscribed(d)
    <3>1. conn[d] # n
      BY <1>4, <1>5
    <3> QED
      BY <1>2, <1>3, <1>7, <2>5, <3>1 DEF Subscribed, IsPeer
  <2> QED
    BY <1>3, <2>1, <2>3, <2>4, <2>5, OnePage DEF Numbering
<1>11. Channels'
  <2>1. \A d \in Pages : conn'[d] = 0 <=> phase'[d] = "down"
    BY <1>4, <1>7 DEF Numbering, Channels
  <2>2. ASSUME NEW m \in Conns, m \notin DOMAIN owner' \/ conn'[owner'[m]] # m PROVE down[m] = <<>>
    <3>1. CASE m \notin DOMAIN owner'
      BY <1>5, <3>1 DEF Numbering, Channels
    <3>2. CASE m \in DOMAIN owner'
      <4>1. m # n
        BY <1>5, <1>7, <2>2, <3>2
      <4>2. m \in DOMAIN owner /\ owner'[m] = owner[m] /\ m # 0
        BY <1>5, <3>2, <4>1 DEF Conns
      <4>3. conn[owner[m]] # m
        BY <1>2, <1>4, <1>7, <2>2, <4>2
      <4> QED
        BY <4>3 DEF Numbering, Channels
    <3> QED
      BY <3>1, <3>2
  <2> QED
    BY <1>2, <2>1, <2>2 DEF Numbering, Channels
<1>12. /\ Len(up'[n]) = 1 /\ up'[n][1].kind = "attach"
       /\ \A m \in open : up'[m] = up[m] /\ m # n /\ owner'[m] = owner[m]
  BY <1>2, <1>4, <1>5
<1>13. SentFrames'
  <2>1. ASSUME NEW m \in open', NEW i \in 1..Len(up'[m]), up'[m][i].kind = "input"
        PROVE  SentAt(queue'[owner'[m]], up'[m][i].epoch, up'[m][i].gen, up'[m][i].seq, up'[m][i].chunk)
    <3>1. m # n
      BY <1>12, <2>1
    <3>2. m \in open /\ up'[m] = up[m] /\ owner'[m] = owner[m]
      BY <1>2, <1>12, <3>1
    <3> QED
      BY <1>2, <2>1, <3>2 DEF Numbering, SentFrames
  <2> QED
    BY <2>1 DEF SentFrames
<1>14. SentWork'
  <2>1. work # Idle => work.conn \in DOMAIN owner
    BY <1>4 DEF Typing, AgentTypes
  <2> QED
    BY <1>2, <1>3, <1>5, <2>1 DEF Numbering, SentWork
<1>15. AttachFirst'
  <2> SUFFICES ASSUME NEW m \in open', NEW i \in 1..Len(up'[m]), up'[m][i].kind = "attach"
               PROVE  /\ i = 1 /\ down[m] = <<>>
                      /\ ~IsPeer(m)'
                      /\ work # Idle => m \notin work.peers
                      /\ conn'[owner'[m]] = m => phase'[owner'[m]] = "attaching"
    BY <1>2, <1>3 DEF AttachFirst
  <2>1. CASE m = n
    BY <1>3, <1>5, <1>6, <1>7, <1>8, <1>12, <2>1 DEF IsPeer
  <2>2. CASE m # n
    <3>1. m \in open /\ up'[m] = up[m] /\ owner'[m] = owner[m] /\ owner[m] \in Pages
      BY <1>2, <1>4, <1>12, <2>2
    <3>2. /\ i = 1 /\ down[m] = <<>> /\ ~IsPeer(m)
          /\ work # Idle => m \notin work.peers
          /\ conn[owner[m]] = m => phase[owner[m]] = "attaching"
      BY <3>1 DEF Numbering, AttachFirst
    <3>3. conn'[owner'[m]] = m => phase'[owner'[m]] = "attaching"
      BY <1>7, <2>2, <3>1, <3>2
    <3> QED
      BY <1>3, <3>2, <3>3 DEF IsPeer
  <2> QED
    BY <2>1, <2>2
<1>16. Writing'
  BY <1>2, <1>3, <1>4, <1>5, WritingStays DEF Numbering
<1> QED
  BY <1>10, <1>11, <1>13, <1>14, <1>15, <1>16 DEF Numbering

LEMMA RequestControlAdds ==
    ASSUME Typing, NEW c \in Pages, RequestControl(c), NEW q
    PROVE  Adds(c, q)
<1>1. PICK n : n = conn[c]
  OBVIOUS
<1>2. n \in open /\ up' = [up EXCEPT ![n] = Append(up[n], [kind |-> "acquire"])]
  BY <1>1 DEF RequestControl
<1>3. /\ n \in Conns /\ up \in [Conns -> Seq(Frames(Len(author)))]
      /\ up[n] \in Seq(Frames(Len(author))) /\ [kind |-> "acquire"] \in Frames(Len(author))
  BY <1>2, Known, FrameFields DEF Typing, WireTypes
<1>4. /\ Len(up'[n]) = Len(up[n]) + 1 /\ Len(up[n]) \in Nat
      /\ up'[n][Len(up[n]) + 1].kind = "acquire"
      /\ \A i \in 1..Len(up[n]) : up'[n][i] = up[n][i]
  BY <1>2, <1>3, AppendProperties, LenProperties
<1>5. \A i \in 1..Len(up[n]) + 1 : i \in 1..Len(up[n]) \/ i = Len(up[n]) + 1
  BY <1>4
<1>6. \A m \in Conns : m # n => up'[m] = up[m]
  BY <1>2, <1>3
<1> QED
  BY <1>4, <1>5, <1>6 DEF Adds

LEMMA RequestControlNumbering ==
    ASSUME Typing, Typing', Numbering, NEW c \in Pages, RequestControl(c)
    PROVE  Numbering'
<1>1. PICK n : n = conn[c]
  OBVIOUS
<1>2. /\ n \in open /\ up' = [up EXCEPT ![n] = Append(up[n], [kind |-> "acquire"])]
      /\ UNCHANGED <<pageVars, owner, open, down, agentVars>>
  BY <1>1 DEF RequestControl
<1>3. UNCHANGED <<queue, lease, phase, conn, aged, author, session, epochs, work, writeQ, pty>>
  BY <1>2 DEF pageVars, agentVars
<1>4. /\ Len(author) \in Nat /\ n \in Conns /\ up \in [Conns -> Seq(Frames(Len(author)))]
      /\ \A d \in Pages : queue[d] \in Queues(Len(author))
  BY <1>2, Wires, Known DEF Typing, WireTypes
<1>5. Adds(c, queue'[c])
  BY RequestControlAdds
<1>6. \A d \in Pages : Inbox(d)' = Inbox(d)
  BY <1>2, <1>3 DEF Inbox
<1>7. Pages0' /\ Told'
  BY <1>2, <1>3, <1>6 DEF Numbering, Pages0, Told, Pane, Subscribed, IsPeer
<1>8. Channels'
  BY <1>2, <1>3 DEF Numbering, Channels
<1>9. SentFrames' /\ SentWork'
  <2>1. \A d \in Pages : Later(queue[d], queue'[d])
    BY <1>3, <1>4, LaterSelf
  <2> QED
    BY <1>2, <1>3, <1>5, <2>1, AddsFrames DEF Numbering
<1>10. AttachFirst'
  BY <1>2, <1>3, <1>5, AddsAttach DEF Numbering
<1>11. Writing'
  BY <1>2, <1>3, WritingStays DEF Numbering
<1> QED
  BY <1>7, <1>8, <1>9, <1>10, <1>11 DEF Numbering

\* A page reads the first message of its inbox.
Read(c) ==
    /\ conn[c] # 0 /\ Inbox(c) # <<>>
    /\ Took(Len(author), queue[c], queue'[c], EpochOf(queue[c], phase[c], Inbox(c)), Inbox(c)[1], Pane)
    /\ lease'[c] \in Leases /\ lease'[c].gen = queue'[c].gen
    /\ lease'[c].role = "controller" <=>
           \/ Claims(c, Inbox(c)[1])
           \/ Inbox(c)[1].kind = "ack" /\ lease[c].role = "controller"
    /\ phase'[c] = "attached" /\ Inbox(c)' = Tail(Inbox(c))
    /\ OthersStay(c) /\ down' = [down EXCEPT ![conn[c]] = Tail(@)]
    /\ UNCHANGED <<conn, aged, author, owner, open, agentVars>>
    /\ Adds(c, queue'[c])

LEMMA ReceiveDoes ==
    ASSUME Typing, Typing', Numbering, NEW c \in Pages, Receive(c)
    PROVE  Read(c)
<1> DEFINE k == Len(author)
<1>1. PICK n, q, l, ph, D : n = conn[c] /\ q = queue[c] /\ l = lease[c] /\ ph = phase[c] /\ D = down[n]
  OBVIOUS
<1>2. PICK m : m = Head(D)
  OBVIOUS
<1>3. /\ n # 0 /\ D # <<>> /\ down' = [down EXCEPT ![n] = Tail(D)]
      /\ ReceiveAttached(c, m) \/ ReceiveControl(c, m) \/ ReceiveAck(c, m)
      /\ UNCHANGED <<conn, aged, author, owner, open, agentVars>>
  BY <1>1, <1>2 DEF Receive
<1>4. /\ k \in Nat /\ q \in Queues(k) /\ l \in Leases /\ ph \in Phases /\ Inbox(c) = D
      /\ n \in Conns /\ owner[n] = c /\ \A d \in Pages : d # c => conn[d] # n
      /\ D \in Seq(Messages)
  BY <1>1, <1>3, Wires DEF Inbox
<1>5. /\ queue \in [Pages -> Queues(k)] /\ lease \in [Pages -> Leases] /\ phase \in [Pages -> Phases]
      /\ down \in [Conns -> Seq(Messages)] /\ up \in [Conns -> Seq(Frames(k))]
      /\ lease'[c] \in Leases
  BY DEF Typing, PageTypes, WireTypes
<1>6. m = D[1] /\ m \in Messages
  BY <1>2, <1>3, <1>4, HeadTailProperties
<1>7. /\ QueueBound(q, l, ph) /\ InboxShape(ph, D) /\ InboxOrder(q, ph, D) /\ InboxApplied(q, D, Pane)
  <2>1. PageInv(c, q, l, ph, D, session, epochs, Pane)
    BY <1>1, <1>4 DEF Numbering, Pages0
  <2> QED
    BY <2>1 DEF PageInv
<1>8. /\ m.kind = "ack" => m.gen = q.gen
      /\ m.kind # "attached" => ph = "attached"
      /\ m.gen \in Nat
  BY <1>3, <1>4, <1>6, <1>7, HeadIs, MessageFields
<1>9. PICK r, v : r = queue'[c] /\ v = lease'[c]
  OBVIOUS
<1> HIDE DEF k
<1>10. /\ Took(k, q, r, EpochOf(q, ph, D), m, Pane) /\ v.gen = r.gen
       /\ v.role = "controller" <=> Claims(c, m) \/ (m.kind = "ack" /\ l.role = "controller")
       /\ phase'[c] = "attached"
       /\ UNCHANGED up \/ Flush(c, r, v)
       /\ \A d \in Pages \ {c} : queue'[d] = queue[d] /\ lease'[d] = lease[d] /\ phase'[d] = phase[d]
  <2>1. CASE ReceiveAttached(c, m)
    <3>1. /\ m.kind = "attached" /\ lease' = [lease EXCEPT ![c] = [role |-> m.role, gen |-> m.gen]]
          /\ queue' = [queue EXCEPT ![c] = Reconcile(NoteGeneration(q, m.gen), m.epoch, m.gen, m.through)]
          /\ phase' = [phase EXCEPT ![c] = "attached"]
          /\ Flush(c, Reconcile(NoteGeneration(q, m.gen), m.epoch, m.gen, m.through),
                   [role |-> m.role, gen |-> m.gen])
      BY <1>1, <2>1 DEF ReceiveAttached
    <3>2. r = Reconcile(NoteGeneration(q, m.gen), m.epoch, m.gen, m.through)
      BY <1>5, <1>9, <3>1
    <3>3. v = [role |-> m.role, gen |-> m.gen]
      BY <1>5, <1>9, <3>1
    <3>4. Took(k, q, r, EpochOf(q, ph, D), m, Pane)
      BY <1>3, <1>4, <1>6, <1>7, <3>1, <3>2, TakesAttached
    <3>5. v.gen = r.gen /\ (v.role = "controller" <=> Claims(c, m))
      BY <3>1, <3>3, <3>4 DEF Took, Claims
    <3>6. Flush(c, r, v)
      BY <3>1, <3>2, <3>3
    <3> QED
      BY <1>5, <3>1, <3>4, <3>5, <3>6
  <2>2. CASE ReceiveControl(c, m)
    <3> DEFINE w == [role |-> IF m.holder = c THEN "controller" ELSE "observer", gen |-> m.gen]
    <3>1. /\ m.kind = "control" /\ lease' = [lease EXCEPT ![c] = w]
          /\ queue' = [queue EXCEPT ![c] = NoteGeneration(q, m.gen)]
          /\ UNCHANGED <<phase, up>>
      BY <1>1, <2>2 DEF ReceiveControl
    <3>2. r = NoteGeneration(q, m.gen) /\ v = w
      BY <1>5, <1>9, <3>1
    <3>3. Took(k, q, r, EpochOf(q, ph, D), m, Pane)
      BY <1>3, <1>4, <1>6, <1>7, <3>1, <3>2, TakesControl
    <3>4. v.gen = r.gen /\ (v.role = "controller" <=> Claims(c, m))
      BY <3>1, <3>2, <3>3 DEF Took, Claims
    <3> QED
      BY <1>1, <1>5, <1>8, <3>1, <3>3, <3>4
  <2>3. CASE ReceiveAck(c, m)
    <3>1. /\ m.kind = "ack" /\ UNCHANGED <<lease, phase, up>>
          /\ queue' = [queue EXCEPT ![c] = NoteGeneration(Acknowledge(q, m.epoch, m.through), m.gen)]
      BY <1>1, <2>3 DEF ReceiveAck
    <3>2. r = NoteGeneration(Acknowledge(q, m.epoch, m.through), m.gen) /\ v = l
      BY <1>1, <1>5, <1>9, <3>1
    <3>3. Took(k, q, r, EpochOf(q, ph, D), m, Pane)
      BY <1>3, <1>4, <1>6, <1>7, <3>1, <3>2, TakesAck
    <3>4. v.gen = r.gen
      BY <1>7, <1>8, <3>1, <3>2, <3>3 DEF Took, QueueBound
    <3>5. ~Claims(c, m)
      BY <3>1 DEF Claims
    <3> QED
      BY <1>1, <1>5, <1>8, <3>1, <3>2, <3>3, <3>4, <3>5
  <2> QED
    BY <1>3, <2>1, <2>2, <2>3
<1>11. OthersStay(c) /\ Inbox(c)' = Tail(D)
  <2>1. Inbox(c)' = Tail(D)
    BY <1>1, <1>3, <1>4, <1>5 DEF Inbox
  <2>2. ASSUME NEW d \in Pages \ {c} PROVE Inbox(d)' = Inbox(d)
    BY <1>3, <1>4, <1>5 DEF Inbox
  <2> QED
    BY <1>3, <1>10, <2>1, <2>2 DEF OthersStay
<1>12. Adds(c, queue'[c])
  <2>1. CASE UNCHANGED up
    BY <2>1 DEF Adds
  <2>2. CASE Flush(c, r, v)
    <3>1. r \in Queues(k) /\ v \in Leases /\ v.gen = r.gen
      BY <1>5, <1>9, <1>10 DEF Took
    <3>2. conn[c] \in open => conn[c] \in Conns /\ owner[conn[c]] = c
      BY <1>1, <1>4
    <3>3. Adds(c, r)
      BY <1>4, <1>5, <2>2, <3>1, <3>2, Flushed
    <3> QED
      BY <1>9, <3>3
  <2> QED
    BY <1>10, <2>1, <2>2
<1>13. down' = [down EXCEPT ![conn[c]] = Tail(@)]
  BY <1>1, <1>3
<1> QED
  BY <1>1, <1>3, <1>4, <1>5, <1>6, <1>9, <1>10, <1>11, <1>12, <1>13 DEF Read, k

LEMMA ReceiveNumbering ==
    ASSUME Typing, Typing', Numbering, NEW c \in Pages, Receive(c)
    PROVE  Numbering'
<1> DEFINE k == Len(author)
<1>1. Read(c)
  BY ReceiveDoes
<1>2. /\ conn[c] # 0 /\ Inbox(c) # <<>>
      /\ Took(k, queue[c], queue'[c], EpochOf(queue[c], phase[c], Inbox(c)), Inbox(c)[1], Pane)
      /\ lease'[c] \in Leases /\ lease'[c].gen = queue'[c].gen
      /\ lease'[c].role = "controller" <=>
             Claims(c, Inbox(c)[1]) \/ (Inbox(c)[1].kind = "ack" /\ lease[c].role = "controller")
      /\ phase'[c] = "attached" /\ Inbox(c)' = Tail(Inbox(c))
      /\ OthersStay(c) /\ down' = [down EXCEPT ![conn[c]] = Tail(@)]
      /\ UNCHANGED <<conn, aged, author, owner, open, agentVars>>
      /\ Adds(c, queue'[c])
  BY <1>1 DEF Read
<1> HIDE DEF k
<1>3. UNCHANGED <<session, epochs, work, writeQ, pty>>
  BY <1>2 DEF agentVars
<1>4. /\ k \in Nat /\ \A d \in Pages : queue[d] \in Queues(k)
      /\ lease[c] \in Leases /\ phase[c] \in Phases /\ Inbox(c) \in Seq(Messages) /\ epochs \in Nat
      /\ session = NoSession \/ session \in Sessions
      /\ conn[c] \in Conns /\ Inbox(c) = down[conn[c]]
  BY <1>2, Wires DEF k, Inbox
<1>5. PageInv(c, queue[c], lease[c], phase[c], Inbox(c), session, epochs, Pane)
  BY DEF Numbering, Pages0
<1>6. InboxShape(phase[c], Inbox(c)) /\ InboxOrder(queue[c], phase[c], Inbox(c))
  BY <1>5 DEF PageInv
<1>7. PageInv(c, queue'[c], lease'[c], "attached", Tail(Inbox(c)), session, epochs, Pane)
  BY <1>2, <1>4, <1>5, PageReads
<1>8. Subscribed(c)' => ToldAll(queue'[c], phase'[c], Inbox(c)', session)
  <2> SUFFICES ASSUME Subscribed(c)' PROVE ToldAll(queue'[c], "attached", Tail(Inbox(c)), session)
    BY <1>2
  <2>1. Subscribed(c) /\ session # NoSession
    BY <1>2, <1>3 DEF Subscribed, IsPeer
  <2>2. /\ ToldEpoch(queue[c], phase[c], Inbox(c), session)
        /\ ToldLease(queue[c], phase[c], Inbox(c), session)
        /\ ToldCursor(queue[c], phase[c], Inbox(c), session)
    BY <2>1 DEF Numbering, Told
  <2> QED
    BY <1>2, <1>4, <1>6, <2>1, <2>2, ToldReads DEF ToldAll
<1>9. Pages0' /\ Told'
  <2>1. \A d \in Pages \ {c} : Subscribed(d)' => Subscribed(d)
    BY <1>2, <1>3 DEF Subscribed, IsPeer
  <2> QED
    BY <1>2, <1>3, <1>7, <1>8, <2>1, OnePage DEF Numbering
<1>10. down \in [Conns -> Seq(Messages)] /\ \A m \in Conns : m # conn[c] => down'[m] = down[m]
  BY <1>2 DEF Typing, WireTypes
<1>11. Channels'
  <2>1. phase[c] # "down"
    BY <1>2 DEF Numbering, Channels
  <2>2. \A d \in Pages : conn'[d] = 0 <=> phase'[d] = "down"
    BY <1>2, <2>1 DEF Numbering, Channels, OthersStay
  <2>3. owner[conn[c]] = c /\ conn[c] \in DOMAIN owner
    BY <1>2, Wires
  <2>4. ASSUME NEW m \in Conns, m \notin DOMAIN owner \/ conn[owner[m]] # m PROVE down'[m] = <<>>
    <3>1. m # conn[c]
      BY <2>3, <2>4
    <3> QED
      BY <1>10, <2>4, <3>1 DEF Numbering, Channels
  <2> QED
    BY <1>2, <2>2, <2>4 DEF Numbering, Channels
<1>12. SentFrames' /\ SentWork'
  <2>1. ASSUME NEW d \in Pages PROVE Later(queue[d], queue'[d])
    <3>1. CASE d = c
      BY <1>2, <1>4, <1>6, <3>1, TookLater
    <3>2. CASE d # c
      BY <1>2, <1>4, <3>2, LaterSelf DEF OthersStay
    <3> QED
      BY <3>1, <3>2
  <2> QED
    BY <1>2, <1>3, <2>1, AddsFrames DEF Numbering
<1>13. AttachFirst'
  <2>1. \A m \in Conns : down[m] = <<>> => down'[m] = <<>>
    BY <1>2, <1>4, <1>10
  <2>2. ASSUME NEW d \in Pages
        PROVE  \/ conn'[d] = conn[d] /\ phase'[d] = phase[d]
               \/ conn'[d] = conn[d] /\ down[conn[d]] # <<>>
    BY <1>2, <1>4 DEF OthersStay
  <2> QED
    BY <1>2, <1>3, <2>1, <2>2, AddsAttach DEF Numbering
<1>14. Writing'
  BY <1>2, <1>3, WritingStays DEF Numbering
<1> QED
  BY <1>9, <1>11, <1>12, <1>13, <1>14 DEF Numbering

\* Whatever a page does, while its queue survives.
LEMMA PageNumbering ==
    ASSUME Typing, Typing', Numbering, QueueSurvives, PageNext
    PROVE  Numbering'
<1>1. PICK c \in Pages : \/ Type(c) \/ GrowOld(c) \/ LoseTransport(c) \/ SwapTransport(c)
                         \/ Connect(c) \/ RequestControl(c) \/ Receive(c)
  BY DEF PageNext
<1>2. ~GrowOld(c) /\ ~SwapTransport(c)
  BY DEF QueueSurvives, GrowOld, SwapTransport
<1> QED
  BY <1>1, <1>2, TypeNumbering, LoseTransportNumbering, ConnectNumbering,
     RequestControlNumbering, ReceiveNumbering
-----------------------------------------------------------------------------
(* What a step of the agent does.                                          *)

\* Frames leave a connection from the front, or with it.
Drops ==
    \A n \in open' : n \in open /\ \A i \in 1..Len(up'[n]) :
        /\ \E j \in 1..Len(up[n]) : up'[n][i] = up[n][j]
        /\ up'[n][i].kind = "attach" => i \in 1..Len(up[n]) /\ up'[n][i] = up[n][i]

LEMMA ServeDrops ==
    ASSUME Typing, AttachFirst, NEW n \in Conns, NEW x, Serve(n, x), UNCHANGED open
    PROVE  Drops /\ \A i \in 1..Len(up'[n]) : up'[n][i].kind # "attach"
<1>1. /\ n \in open /\ up[n] # <<>> /\ up' = [up EXCEPT ![n] = Tail(up[n])]
      /\ up \in [Conns -> Seq(Frames(Len(author)))] /\ open \subseteq Conns
  BY Known DEF Serve, Typing, WireTypes
<1>2. up'[n] = Tail(up[n]) /\ \A m \in Conns : m # n => up'[m] = up[m]
  BY <1>1
<1>3. /\ Len(up[n]) \in Nat \ {0} /\ Len(up'[n]) = Len(up[n]) - 1
      /\ \A i \in 1..Len(up[n]) - 1 : up'[n][i] = up[n][i + 1]
  <2>1. up[n] \in Seq(Frames(Len(author)))
    BY <1>1
  <2>2. Len(up[n]) \in Nat \ {0}
    BY <1>1, <2>1, EmptySeq
  <2>3. /\ Len(Tail(up[n])) = Len(up[n]) - 1
        /\ \A i \in 1..Len(Tail(up[n])) : Tail(up[n])[i] = up[n][i + 1]
    BY <1>1, <2>1, HeadTailProperties
  <2> QED
    BY <1>2, <2>2, <2>3
<1>4. \A i \in 1..Len(up'[n]) : i + 1 \in 1..Len(up[n]) /\ i + 1 # 1 /\ up'[n][i] = up[n][i + 1]
  BY <1>3
<1>5. \A i \in 1..Len(up'[n]) : up'[n][i].kind # "attach"
  BY <1>1, <1>4 DEF AttachFirst
<1>6. ASSUME NEW m \in open, NEW i \in 1..Len(up'[m])
      PROVE  /\ \E j \in 1..Len(up[m]) : up'[m][i] = up[m][j]
             /\ up'[m][i].kind = "attach" => i \in 1..Len(up[m]) /\ up'[m][i] = up[m][i]
  <2>1. CASE m = n
    BY <1>4, <1>5, <2>1
  <2>2. CASE m # n
    BY <1>1, <1>2, <2>2
  <2> QED
    BY <2>1, <2>2
<1> QED
  BY <1>5, <1>6 DEF Drops

LEMMA DropsSent ==
    ASSUME SentFrames, Drops, UNCHANGED <<queue, owner>>
    PROVE  SentFrames'
<1> SUFFICES ASSUME NEW n \in open', NEW i \in 1..Len(up'[n]), up'[n][i].kind = "input"
             PROVE  SentAt(queue[owner[n]], up'[n][i].epoch, up'[n][i].gen, up'[n][i].seq, up'[n][i].chunk)
  BY DEF SentFrames
<1>1. n \in open /\ \E j \in 1..Len(up[n]) : up'[n][i] = up[n][j]
  BY DEF Drops
<1>2. PICK j \in 1..Len(up[n]) : up'[n][i] = up[n][j]
  BY <1>1
<1> QED
  BY <1>1, <1>2 DEF SentFrames

\* Nothing concerns a connection before it attaches.
Unattached(n) == down[n] = <<>> /\ ~IsPeer(n) /\ (work # Idle => n \notin work.peers)

LEMMA DropsAttach ==
    ASSUME AttachFirst, Drops, UNCHANGED <<pageVars, owner>>,
           \A n \in open' : Unattached(n) /\ (\E i \in 1..Len(up'[n]) : up'[n][i].kind = "attach")
                                => Unattached(n)'
    PROVE  AttachFirst'
<1> SUFFICES ASSUME NEW n \in open', NEW i \in 1..Len(up'[n]), up'[n][i].kind = "attach"
             PROVE  /\ i = 1 /\ down'[n] = <<>> /\ ~IsPeer(n)'
                    /\ work' # Idle => n \notin work'.peers
                    /\ conn'[owner'[n]] = n => phase'[owner'[n]] = "attaching"
  BY DEF AttachFirst
<1>1. n \in open /\ i \in 1..Len(up[n]) /\ up[n][i].kind = "attach"
  BY DEF Drops
<1>2. /\ i = 1 /\ Unattached(n)
      /\ conn[owner[n]] = n => phase[owner[n]] = "attaching"
  BY <1>1 DEF AttachFirst, Unattached
<1>3. Unattached(n)'
  BY <1>2
<1> QED
  BY <1>2, <1>3 DEF Unattached, pageVars

LEMMA NotifyDoes ==
    ASSUME Typing, NEW P, NEW m, down' = Notify(P, m), UNCHANGED <<pageVars, owner>>
    PROVE  /\ \A c \in Pages : /\ conn[c] \in P \cap open => Inbox(c)' = Append(Inbox(c), m)
                               /\ conn[c] \notin P \cap open => Inbox(c)' = Inbox(c)
           /\ \A n \in Conns : n \notin P \cap open \/ conn[owner[n]] # n => down'[n] = down[n]
<1>1. \A n \in Conns : down'[n] = IF n \in P \cap open /\ conn[owner[n]] = n
                                  THEN Append(down[n], m) ELSE down[n]
  BY DEF Notify
<1>2. \A n \in Conns : n \notin P \cap open \/ conn[owner[n]] # n => down'[n] = down[n]
  BY <1>1
<1>3. ASSUME NEW c \in Pages
      PROVE  /\ conn[c] \in P \cap open => Inbox(c)' = Append(Inbox(c), m)
             /\ conn[c] \notin P \cap open => Inbox(c)' = Inbox(c)
  <2>1. conn'[c] = conn[c] /\ 0 \notin open
    BY Wires DEF pageVars
  <2>2. conn[c] # 0 => conn[c] \in Conns /\ owner[conn[c]] = c
    BY Wires
  <2> QED
    BY <1>1, <2>1, <2>2 DEF Inbox
<1> QED
  BY <1>2, <1>3

LEMMA NotifyChannels ==
    ASSUME Typing, Channels, NEW P, NEW m, down' = Notify(P, m), UNCHANGED <<pageVars, owner>>
    PROVE  Channels'
<1>1. \A n \in Conns : n \notin P \cap open \/ conn[owner[n]] # n => down'[n] = down[n]
  BY NotifyDoes
<1>2. open \subseteq DOMAIN owner
  BY DEF Typing, WireTypes
<1>3. UNCHANGED <<aged, conn, phase, owner>>
  BY DEF pageVars
<1>4. ASSUME NEW n \in Conns, n \notin DOMAIN owner \/ conn[owner[n]] # n PROVE down'[n] = <<>>
  BY <1>1, <1>2, <1>4 DEF Channels
<1> QED
  BY <1>3, <1>4 DEF Channels

\* The Session moves, and some of its subscribers are told.
LEMMA AgentTells ==
    ASSUME Typing, Typing', UNCHANGED <<pageVars, owner>>, session' \in Sessions,
           NEW P, NEW m, down' = Notify(P, m),
           \A c \in Pages : PageInv(c, queue[c], lease[c], phase[c], Inbox(c), session', epochs', Pane'),
           \A c \in Pages : conn[c] \in P \cap open =>
               Says(c, queue[c], phase[c], Inbox(c), session', epochs', m),
           \A c \in Pages : Subscribed(c)' /\ conn[c] \notin P \cap open =>
               ToldAll(queue[c], phase[c], Inbox(c), session')
    PROVE  Pages0' /\ Told'
<1>1. UNCHANGED <<queue, lease, phase, conn, author>>
  BY DEF pageVars
<1>2. epochs' \in Nat /\ Len(author) \in Nat
      /\ \A c \in Pages : /\ queue[c] \in Queues(Len(author)) /\ phase[c] \in Phases
                          /\ Inbox(c) \in Seq(Messages)
  <2>1. epochs' \in Nat
    BY Bounds DEF Typing, AgentTypes
  <2> QED
    BY <2>1, Wires
<1>3. ASSUME NEW c \in Pages
      PROVE  PageInv(c, queue'[c], lease'[c], phase'[c], Inbox(c)', session', epochs', Pane')
  <2>0. PageInv(c, queue[c], lease[c], phase[c], Inbox(c), session', epochs', Pane')
    OBVIOUS
  <2>1. CASE conn[c] \in P \cap open
    <3>1. Inbox(c)' = Append(Inbox(c), m)
      BY <2>1, NotifyDoes
    <3>2. Says(c, queue[c], phase[c], Inbox(c), session', epochs', m)
      BY <2>1
    <3>3. PageInv(c, queue[c], lease[c], phase[c], Append(Inbox(c), m), session', epochs', Pane')
      BY <1>2, <2>0, <3>2, PageTold
    <3> QED
      BY <1>1, <3>1, <3>3
  <2>2. CASE conn[c] \notin P \cap open
    <3>1. Inbox(c)' = Inbox(c)
      BY <2>2, NotifyDoes
    <3> QED
      BY <1>1, <2>0, <3>1
  <2> QED
    BY <2>1, <2>2
<1>4. ASSUME NEW c \in Pages, Subscribed(c)'
      PROVE  /\ ToldEpoch(queue'[c], phase'[c], Inbox(c)', session')
             /\ ToldLease(queue'[c], phase'[c], Inbox(c)', session')
             /\ ToldCursor(queue'[c], phase'[c], Inbox(c)', session')
  <2>0. PageInv(c, queue[c], lease[c], phase[c], Inbox(c), session', epochs', Pane')
    OBVIOUS
  <2>1. CASE conn[c] \in P \cap open
    <3>1. Inbox(c)' = Append(Inbox(c), m)
      BY <2>1, NotifyDoes
    <3>2. Says(c, queue[c], phase[c], Inbox(c), session', epochs', m)
      BY <2>1
    <3>3. /\ ToldEpoch(queue[c], phase[c], Append(Inbox(c), m), session')
          /\ ToldLease(queue[c], phase[c], Append(Inbox(c), m), session')
          /\ ToldCursor(queue[c], phase[c], Append(Inbox(c), m), session')
      BY <1>2, <2>0, <3>2, ToldTold
    <3> QED
      BY <1>1, <3>1, <3>3
  <2>2. CASE conn[c] \notin P \cap open
    <3>1. Inbox(c)' = Inbox(c)
      BY <2>2, NotifyDoes
    <3>2. ToldAll(queue[c], phase[c], Inbox(c), session')
      BY <1>4, <2>2
    <3> QED
      BY <1>1, <3>1, <3>2 DEF ToldAll
  <2> QED
    BY <2>1, <2>2
<1> QED
  BY <1>3, <1>4 DEF Pages0, Told

\* The Session moves, and nobody is told.
LEMMA AgentQuiet ==
    ASSUME UNCHANGED <<pageVars, down>>,
           \A c \in Pages : PageInv(c, queue[c], lease[c], phase[c], Inbox(c), session', epochs', Pane'),
           \A c \in Pages : Subscribed(c)' => ToldAll(queue[c], phase[c], Inbox(c), session')
    PROVE  Pages0' /\ Told'
<1>1. UNCHANGED <<queue, lease, phase, conn>> /\ \A c \in Pages : Inbox(c)' = Inbox(c)
  BY DEF pageVars, Inbox
<1> QED
  BY <1>1 DEF Pages0, Told, ToldAll

LEMMA QuietChannels ==
    ASSUME Channels, UNCHANGED <<pageVars, owner, down>>
    PROVE  Channels'
  BY DEF Channels, pageVars

\* What a subscriber was told of a Session is told of one of the same epoch,
\* generation and cursor.
LEMMA ToldSame ==
    ASSUME Told, NEW c \in Pages, Subscribed(c), NEW s,
           s.epoch = session.epoch, s.gen = session.gen, s.applied = session.applied
    PROVE  ToldAll(queue[c], phase[c], Inbox(c), s)
  BY DEF Told, ToldAll, ToldEpoch, ToldLease, ToldCursor

\* A step that leaves the Session, the pages and the wire down alone.
LEMMA SameSession ==
    ASSUME Numbering, UNCHANGED <<pageVars, down, session, epochs, pty>>, open' \subseteq open
    PROVE  Pages0' /\ Told'
<1>1. Pane' = Pane
  BY DEF Pane
<1>2. \A c \in Pages : PageInv(c, queue[c], lease[c], phase[c], Inbox(c), session', epochs', Pane')
  BY <1>1 DEF Numbering, Pages0
<1>3. ASSUME NEW c \in Pages, Subscribed(c)' PROVE ToldAll(queue[c], phase[c], Inbox(c), session')
  <2>1. Subscribed(c)
    BY <1>3 DEF Subscribed, IsPeer, pageVars
  <2> QED
    BY <2>1, ToldSame DEF Numbering
<1> QED
  BY <1>2, <1>3, AgentQuiet

\* A frame is served: what is left was there before.
LEMMA ServeLeaves ==
    ASSUME Typing, Numbering, NEW n \in Conns, NEW x, Serve(n, x),
           UNCHANGED <<pageVars, owner, open>>,
           \A m \in open \ {n} : Unattached(m) => Unattached(m)'
    PROVE  SentFrames' /\ AttachFirst'
<1>1. Drops /\ \A i \in 1..Len(up'[n]) : up'[n][i].kind # "attach"
  BY ServeDrops DEF Numbering
<1>2. SentFrames'
  BY <1>1, DropsSent DEF Numbering, pageVars
<1>3. \A m \in open' : Unattached(m) /\ (\E i \in 1..Len(up'[m]) : up'[m][i].kind = "attach")
                           => Unattached(m)'
  BY <1>1
<1>4. AttachFirst'
  BY <1>1, <1>3, DropsAttach DEF Numbering
<1> QED
  BY <1>2, <1>4

LEMMA SaysAck ==
    ASSUME NEW c, NEW q, NEW ph, NEW D, NEW s \in Sessions, NEW N,
           ToldEpoch(q, ph, D, s), ToldLease(q, ph, D, s)
    PROVE  Says(c, q, ph, D, s, N, Ack(s.epoch, s.applied, s.gen))
<1> DEFINE m == Ack(s.epoch, s.applied, s.gen)
<1>1. m.kind = "ack" /\ m.gen = s.gen /\ m.epoch = s.epoch /\ m.through = s.applied
  BY DEF Ack
<1>2. m \in Messages
  BY SessionFields, MakeMessage
<1> QED
  BY <1>1, <1>2 DEF Says

LEMMA SaysControl ==
    ASSUME NEW c, NEW q, NEW ph, NEW D, NEW s \in Sessions, NEW N,
           ToldEpoch(q, ph, D, s), ToldCursor(q, ph, D, s)
    PROVE  Says(c, q, ph, D, s, N, ControlChanged(s))
<1> DEFINE m == ControlChanged(s)
<1>1. m.kind = "control" /\ m.gen = s.gen /\ m.holder = s.holder
  BY DEF ControlChanged
<1>2. m \in Messages
  BY ControlTyped
<1> QED
  BY <1>1, <1>2 DEF Says, States

\* A frame is served, and nothing comes of it.
LEMMA RefuseInputNumbering ==
    ASSUME Typing, Numbering, NEW n \in Conns, RefuseInput(n)
    PROVE  Numbering'
<1>1. Serve(n, "input") /\ UNCHANGED <<pageVars, owner, open, down, session, epochs, work, writeQ, pty>>
  BY DEF RefuseInput, agentVars
<1>2. Pages0' /\ Told'
  BY <1>1, SameSession
<1>3. SentFrames' /\ AttachFirst'
  <2>1. \A m \in open \ {n} : Unattached(m) => Unattached(m)'
    BY <1>1 DEF Unattached, IsPeer
  <2> QED
    BY <1>1, <2>1, ServeLeaves
<1>4. Channels'
  BY <1>1, QuietChannels DEF Numbering
<1>5. SentWork' /\ Writing'
  <2>1. work = Idle
    BY <1>1 DEF Serve
  <2> QED
    BY <1>1, <2>1 DEF SentWork, Writing
<1> QED
  BY <1>2, <1>3, <1>4, <1>5 DEF Numbering

LEMMA RestateCursorNumbering ==
    ASSUME Typing, Typing', Numbering, NEW n \in Conns, RestateCursor(n)
    PROVE  Numbering'
<1>1. /\ Serve(n, "input") /\ work = Idle /\ IsPeer(n)
      /\ UNCHANGED <<pageVars, owner, open, session, epochs, work, writeQ, pty>>
  BY DEF RestateCursor, agentVars, Serve, Authorized
<1>2. PICK m : m = Ack(session.epoch, session.applied, session.gen)
  OBVIOUS
<1>3. down' = Notify(session.peers, m)
  BY <1>2 DEF RestateCursor
<1>4. session \in Sessions /\ session' = session /\ session # NoSession
  BY <1>1, Wires DEF IsPeer
<1>5. Pages0' /\ Told'
  <2>1. \A c \in Pages : PageInv(c, queue[c], lease[c], phase[c], Inbox(c), session', epochs', Pane')
    BY <1>1 DEF Numbering, Pages0, Pane
  <2>2. ASSUME NEW c \in Pages, conn[c] \in session.peers \cap open
        PROVE  Says(c, queue[c], phase[c], Inbox(c), session', epochs', m)
    <3>1. Subscribed(c)
      BY <1>1, <2>2 DEF Subscribed, IsPeer
    <3>2. ToldEpoch(queue[c], phase[c], Inbox(c), session)
          /\ ToldLease(queue[c], phase[c], Inbox(c), session)
      BY <3>1 DEF Numbering, Told
    <3> QED
      BY <1>2, <1>4, <3>2, SaysAck
  <2>3. \A c \in Pages : Subscribed(c)' => conn[c] \in session.peers \cap open
    BY <1>1 DEF Subscribed, IsPeer, pageVars
  <2> QED
    BY <1>1, <1>3, <1>4, <2>1, <2>2, <2>3, AgentTells
<1>6. SentFrames' /\ AttachFirst'
  <2>1. ASSUME NEW p \in open \ {n}, Unattached(p) PROVE Unattached(p)'
    <3>1. p \in Conns /\ p \notin session.peers
      BY <1>4, <2>1, Known DEF Unattached, IsPeer
    <3>2. down'[p] = down[p]
      BY <1>1, <1>3, <3>1, NotifyDoes
    <3> QED
      BY <1>1, <2>1, <3>2 DEF Unattached, IsPeer
  <2> QED
    BY <1>1, <2>1, ServeLeaves
<1>7. Channels'
  BY <1>1, <1>3, NotifyChannels DEF Numbering
<1>8. SentWork' /\ Writing'
  BY <1>1 DEF SentWork, Writing
<1> QED
  BY <1>5, <1>6, <1>7, <1>8 DEF Numbering

\* A takeover is told to every subscriber.
LEMMA AcquireControlNumbering ==
    ASSUME Typing, Typing', Numbering, NEW n \in Conns, AcquireControl(n)
    PROVE  Numbering'
<1>1. /\ Serve(n, "acquire") /\ work = Idle
      /\ UNCHANGED <<pageVars, owner, open, epochs, work, writeQ, pty>>
  BY DEF AcquireControl, Serve
<1>2. SentWork' /\ Writing'
  BY <1>1 DEF SentWork, Writing
<1>3. CASE ~IsPeer(n)
  <2>1. UNCHANGED <<session, down>>
    BY <1>3 DEF AcquireControl
  <2>2. Pages0' /\ Told'
    BY <1>1, <2>1, SameSession
  <2>3. \A p \in open \ {n} : Unattached(p) => Unattached(p)'
    BY <1>1, <2>1 DEF Unattached, IsPeer
  <2>4. SentFrames' /\ AttachFirst'
    BY <1>1, <2>3, ServeLeaves
  <2>5. Channels'
    BY <1>1, <2>1, QuietChannels DEF Numbering
  <2> QED
    BY <1>2, <2>2, <2>4, <2>5 DEF Numbering
<1>4. CASE IsPeer(n)
  <2>1. /\ session' = IF session.holder = owner[n] THEN session
                      ELSE [session EXCEPT !.holder = owner[n], !.gen = session.gen + 1]
        /\ down' = Notify(session.peers, ControlChanged(session'))
    BY <1>4 DEF AcquireControl
  <2>2. session \in Sessions /\ session # NoSession
    BY <1>4, Wires DEF IsPeer
  <2>3. /\ session'.epoch = session.epoch /\ session'.applied = session.applied
        /\ session'.peers = session.peers
        /\ session' = session \/ session'.gen = session.gen + 1
    BY <2>1, <2>2 DEF Sessions
  <2>4. session' # NoSession /\ session' \in Sessions
    <3>1. session'.epoch # 0
      BY <2>2, <2>3, SessionFields
    <3>2. session' # NoSession
      BY <3>1 DEF NoSession
    <3> QED
      BY <3>2 DEF Typing, AgentTypes
  <2>5. Pages0' /\ Told'
    <3>1. ASSUME NEW c \in Pages
          PROVE  PageInv(c, queue[c], lease[c], phase[c], Inbox(c), session', epochs', Pane')
      <4>1. PageInv(c, queue[c], lease[c], phase[c], Inbox(c), session, epochs', Pane')
        BY <1>1 DEF Numbering, Pages0, Pane
      <4>2. CASE session' = session
        BY <4>1, <4>2
      <4>3. CASE session'.gen = session.gen + 1
        <5>1. queue[c] \in Queues(Len(author)) /\ Len(author) \in Nat /\ Inbox(c) \in Seq(Messages)
          BY Wires
        <5> QED
          BY <2>2, <2>3, <4>1, <4>3, <5>1, SessionTaken
      <4> QED
        BY <2>3, <4>2, <4>3
    <3>2. ASSUME NEW c \in Pages, conn[c] \in session.peers \cap open
          PROVE  Says(c, queue[c], phase[c], Inbox(c), session', epochs', ControlChanged(session'))
      <4>1. Subscribed(c)
        BY <2>2, <3>2 DEF Subscribed, IsPeer
      <4>2. ToldEpoch(queue[c], phase[c], Inbox(c), session)
            /\ ToldCursor(queue[c], phase[c], Inbox(c), session)
        BY <4>1 DEF Numbering, Told
      <4>3. ToldEpoch(queue[c], phase[c], Inbox(c), session')
            /\ ToldCursor(queue[c], phase[c], Inbox(c), session')
        BY <2>3, <4>2 DEF ToldEpoch, ToldCursor
      <4> QED
        BY <2>4, <4>3, SaysControl
    <3>3. \A c \in Pages : Subscribed(c)' => conn[c] \in session.peers \cap open
      BY <1>1, <2>3 DEF Subscribed, IsPeer, pageVars
    <3> QED
      BY <1>1, <2>1, <2>4, <3>1, <3>2, <3>3, AgentTells
  <2>6. SentFrames' /\ AttachFirst'
    <3>1. ASSUME NEW p \in open \ {n}, Unattached(p) PROVE Unattached(p)'
      <4>1. p \in Conns /\ p \notin session.peers
        BY <2>2, <3>1, Known DEF Unattached, IsPeer
      <4>2. down'[p] = down[p]
        BY <1>1, <2>1, <4>1, NotifyDoes
      <4> QED
        BY <1>1, <2>3, <3>1, <4>1, <4>2 DEF Unattached, IsPeer
    <3> QED
      BY <1>1, <3>1, ServeLeaves
  <2>7. Channels'
    BY <1>1, <2>1, NotifyChannels DEF Numbering
  <2> QED
    BY <1>2, <2>5, <2>6, <2>7 DEF Numbering
<1> QED
  BY <1>3, <1>4

LEMMA AppendLast ==
    ASSUME NEW S, NEW w \in Seq(S), NEW x \in S
    PROVE  Append(w, x) # <<>> /\ Last(Append(w, x)) = x
<1>1. /\ Len(Append(w, x)) = Len(w) + 1 /\ Append(w, x) # <<>> /\ Append(w, x)[Len(w) + 1] = x
  BY AppendProperties
<1> QED
  BY <1>1 DEF Last

\* The frame that is served stands for what the page holds.
LEMMA BeginWriteNumbering ==
    ASSUME Typing, Numbering, NEW n \in Conns, BeginWrite(n)
    PROVE  Numbering'
<1> DEFINE f == Head(up[n])
           e == session.epoch
<1>1. /\ Serve(n, "input") /\ work = Idle /\ IsPeer(n) /\ n \in open
      /\ UNCHANGED <<pageVars, owner, open, down, session, epochs, pty>>
      /\ writeQ' = [writeQ EXCEPT ![e] = Append(writeQ[e], f.chunk)]
      /\ work' = [conn |-> n, chunk |-> f.chunk, through |-> f.seq, written |-> FALSE,
                  epoch |-> session.epoch, gen |-> session.gen, peers |-> session.peers]
  BY DEF BeginWrite, Serve, Authorized
<1>2. f.epoch = session.epoch /\ f.gen = session.gen
  BY DEF BeginWrite, Authorized, Verdict
<1>3. session \in Sessions /\ session # NoSession /\ session.peers \subseteq DOMAIN owner
  BY <1>1, Wires DEF IsPeer, Typing, AgentTypes
<1>4. Pages0' /\ Told'
  BY <1>1, SameSession
<1>5. SentFrames' /\ AttachFirst'
  <2>1. ASSUME NEW p \in open \ {n}, Unattached(p) PROVE Unattached(p)'
    <3>1. p \notin session.peers
      BY <1>3, <2>1 DEF Unattached, IsPeer
    <3>2. work'.peers = session.peers
      BY <1>1
    <3> QED
      BY <1>1, <2>1, <3>1, <3>2 DEF Unattached, IsPeer
  <2> QED
    BY <1>1, <2>1, ServeLeaves
<1>6. Channels'
  BY <1>1, QuietChannels DEF Numbering
<1>7. SentWork'
  <2>1. f = up[n][1] /\ 1 \in 1..Len(up[n]) /\ f.kind = "input"
    <3>1. up[n] \in Seq(Frames(Len(author))) /\ up[n] # <<>>
      BY <1>1 DEF Typing, WireTypes, Serve
    <3> QED
      BY <1>1, <3>1, EmptySeq DEF Serve
  <2>2. SentAt(queue[owner[n]], f.epoch, f.gen, f.seq, f.chunk)
    BY <1>1, <2>1 DEF Numbering, SentFrames
  <2>3. /\ work'.conn = n /\ work'.epoch = f.epoch /\ work'.gen = f.gen
        /\ work'.through = f.seq /\ work'.chunk = f.chunk
    BY <1>1, <1>2
  <2> HIDE DEF f
  <2>4. UNCHANGED <<queue, owner>>
    BY <1>1 DEF pageVars
  <2> QED
    BY <2>2, <2>3, <2>4 DEF SentWork
<1>8. Writing'
  <2>1. /\ work'.epoch = session.epoch /\ work'.peers = session.peers /\ ~work'.written
        /\ work'.chunk = f.chunk
    BY <1>1
  <2>2. e \in Epochs /\ writeQ \in [Epochs -> Seq(1..Len(author))] /\ f.chunk \in 1..Len(author)
    BY <1>1, <1>3, ServeTyped, FrameFields, SessionFields, Known DEF Typing, AgentTypes
  <2>3. writeQ'[e] = Append(writeQ[e], f.chunk) /\ writeQ[e] \in Seq(1..Len(author))
    BY <1>1, <2>2
  <2> HIDE DEF f, e
  <2>4. Append(writeQ[e], f.chunk) # <<>> /\ Last(Append(writeQ[e], f.chunk)) = f.chunk
    BY <2>2, <2>3, AppendLast
  <2>5. work'.epoch = e
    BY <2>1 DEF e
  <2> QED
    BY <1>1, <1>3, <2>1, <2>3, <2>4, <2>5 DEF Writing
<1> QED
  BY <1>4, <1>5, <1>6, <1>7, <1>8 DEF Numbering

\* An attach binds a page that has been told nothing yet.
LEMMA AttachNumbering ==
    ASSUME Typing, Typing', Numbering, NEW n \in Conns, Attach(n)
    PROVE  Numbering'
<1> DEFINE s == session'
           m == [kind |-> "attached", epoch |-> s.epoch, through |-> s.applied, gen |-> s.gen,
                 role |-> RoleOf(s, owner[n])]
<1>1. /\ Serve(n, "attach") /\ work = Idle /\ n \in open
      /\ UNCHANGED <<pageVars, owner, open, work, writeQ, pty>>
      /\ s.epoch \in Epochs /\ down' = Notify({n}, m)
      /\ epochs' = IF session = NoSession THEN epochs + 1 ELSE epochs
      /\ s = IF session = NoSession THEN NewSession(n)
             ELSE [session EXCEPT !.peers = {p \in session.peers : owner[p] # owner[n]} \cup {n}]
  BY DEF Attach, Serve
<1>2. s # NoSession /\ s \in Sessions /\ s.epoch = epochs'
  <2>1. s.epoch # 0
    BY <1>1 DEF Epochs
  <2>2. s # NoSession
    BY <2>1 DEF NoSession
  <2> QED
    BY <2>2 DEF Typing, AgentTypes
<1>3. session = NoSession => s.peers = {n} /\ epochs' = epochs + 1
  BY <1>1 DEF NewSession
<1>4. session # NoSession =>
          /\ session \in Sessions /\ s.peers \subseteq session.peers \cup {n} /\ epochs' = epochs
          /\ s.epoch = session.epoch /\ s.gen = session.gen /\ s.applied = session.applied
          /\ s.holder = session.holder
  BY <1>1, Wires DEF Sessions
<1>5. /\ m.kind = "attached" /\ m.epoch = s.epoch /\ m.through = s.applied /\ m.gen = s.gen
      /\ m.role = RoleOf(s, owner[n])
  OBVIOUS
<1>6. m \in Messages
  BY <1>2, SessionFields, MakeMessage DEF RoleOf, Roles
<1> HIDE DEF s, m
<1>7. ASSUME NEW c \in Pages
      PROVE  PageInv(c, queue[c], lease[c], phase[c], Inbox(c), s, epochs', Pane')
  <2>1. PageInv(c, queue[c], lease[c], phase[c], Inbox(c), session, epochs, Pane')
    BY <1>1 DEF Numbering, Pages0, Pane
  <2>2. /\ queue[c] \in Queues(Len(author)) /\ Len(author) \in Nat /\ Inbox(c) \in Seq(Messages)
        /\ phase[c] \in Phases /\ epochs \in Nat
    BY Wires
  <2>3. CASE session = NoSession
    BY <1>2, <1>3, <2>1, <2>2, <2>3, SessionMinted
  <2>4. CASE session # NoSession
    BY <1>4, <2>1, <2>4, SessionReleased
  <2> QED
    BY <2>3, <2>4
<1>8. Pages0' /\ Told'
  <2>1. ASSUME NEW c \in Pages, conn[c] \in {n} \cap open
        PROVE  Says(c, queue[c], phase[c], Inbox(c), s, epochs', m)
    <3>1. conn[c] = n /\ n # 0 /\ owner[n] = c
      BY <1>1, <2>1, Wires
    <3>2. 1 \in 1..Len(up[n]) /\ up[n][1].kind = "attach"
      <4>1. up[n] \in Seq(Frames(Len(author))) /\ up[n] # <<>>
        BY <1>1 DEF Typing, WireTypes, Serve
      <4> QED
        BY <1>1, <4>1, EmptySeq DEF Serve
    <3>3. Inbox(c) = <<>> /\ phase[c] = "attaching"
      BY <1>1, <3>1, <3>2 DEF Numbering, AttachFirst, Inbox
    <3>4. m.role = "controller" => s.holder = c
      BY <1>5, <3>1 DEF RoleOf
    <3> QED
      BY <1>2, <1>5, <1>6, <3>3, <3>4 DEF Says
  <2>2. ASSUME NEW c \in Pages, Subscribed(c)', conn[c] \notin {n} \cap open
        PROVE  ToldAll(queue[c], phase[c], Inbox(c), s)
    <3>1. conn[c] \in open /\ conn[c] # n /\ conn[c] \in s.peers
      BY <1>1, <2>2 DEF Subscribed, IsPeer, s, pageVars
    <3>2. session # NoSession /\ Subscribed(c)
      BY <1>3, <1>4, <3>1 DEF Subscribed, IsPeer
    <3> QED
      BY <1>4, <3>2, ToldSame DEF Numbering
  <2>3. /\ s = session' /\ UNCHANGED <<pageVars, owner>>
    BY <1>1 DEF s
  <2> QED
    BY <1>1, <1>2, <1>7, <2>1, <2>2, <2>3, AgentTells
<1>9. SentFrames' /\ AttachFirst'
  <2>1. ASSUME NEW p \in open \ {n}, Unattached(p) PROVE Unattached(p)'
    <3>1. p \in Conns /\ p # n
      BY <2>1, Known
    <3>2. down'[p] = down[p]
      BY <1>1, <3>1, NotifyDoes
    <3>3. session # NoSession => p \notin session.peers
      BY <2>1 DEF Unattached, IsPeer
    <3>4. p \notin s.peers
      BY <1>3, <1>4, <3>1, <3>3
    <3> QED
      BY <1>1, <2>1, <3>2, <3>4 DEF Unattached, IsPeer, s
  <2> QED
    BY <1>1, <2>1, ServeLeaves
<1>10. Channels'
  BY <1>1, NotifyChannels DEF Numbering
<1>11. SentWork' /\ Writing'
  BY <1>1 DEF SentWork, Writing
<1> QED
  BY <1>8, <1>9, <1>10, <1>11 DEF Numbering

LEMMA PaneAppend ==
    ASSUME NEW S, NEW w \in Seq(S), NEW x \in S
    PROVE  ToSet(Append(w, x)) = ToSet(w) \cup {x}
<1>1. /\ Len(w) \in Nat /\ Len(Append(w, x)) = Len(w) + 1 /\ Append(w, x)[Len(w) + 1] = x
      /\ \A i \in 1..Len(w) : Append(w, x)[i] = w[i]
      /\ DOMAIN w = 1..Len(w) /\ DOMAIN Append(w, x) = 1..Len(Append(w, x))
  BY AppendProperties, LenProperties
<1>2. \A i \in 1..Len(w) + 1 : i \in 1..Len(w) \/ i = Len(w) + 1
  BY <1>1
<1>3. Len(w) + 1 \in 1..Len(w) + 1 /\ \A i \in 1..Len(w) : i \in 1..Len(w) + 1
  BY <1>1
<1> QED
  BY <1>1, <1>2, <1>3 DEF ToSet

\* The first command of a queue: the last one, or the last one stays.
LEMMA LastStays ==
    ASSUME NEW S, NEW w \in Seq(S), w # <<>>
    PROVE  /\ Head(w) \in S
           /\ Len(w) = 1 => Head(w) = Last(w)
           /\ Len(w) # 1 => Tail(w) # <<>> /\ Last(Tail(w)) = Last(w)
<1>1. /\ Len(w) \in Nat \ {0} /\ Head(w) = w[1] /\ Head(w) \in S /\ Tail(w) \in Seq(S)
      /\ Len(Tail(w)) = Len(w) - 1 /\ \A i \in 1..Len(Tail(w)) : Tail(w)[i] = w[i + 1]
  BY HeadTailProperties, EmptySeq
<1>2. Len(w) = 1 => Head(w) = Last(w)
  BY <1>1 DEF Last
<1>3. ASSUME Len(w) # 1 PROVE Tail(w) # <<>> /\ Last(Tail(w)) = Last(w)
  <2>1. Len(Tail(w)) # 0 /\ Len(Tail(w)) \in 1..Len(Tail(w)) /\ Len(Tail(w)) + 1 = Len(w)
    BY <1>1, <1>3
  <2>2. Tail(w) # <<>>
    BY <2>1, EmptySeq
  <2>3. Tail(w)[Len(Tail(w))] = w[Len(w)]
    BY <1>1, <2>1
  <2> QED
    BY <2>2, <2>3 DEF Last
<1> QED
  BY <1>1, <1>2, <1>3

\* The pane receives a command.
LEMMA WriterStepNumbering ==
    ASSUME Typing, Numbering, NEW e \in Epochs, WriterStep(e)
    PROVE  Numbering'
<1>1. /\ writeQ[e] # <<>> /\ pty' = Append(pty, Head(writeQ[e]))
      /\ writeQ' = [writeQ EXCEPT ![e] = Tail(writeQ[e])]
      /\ work' = IF work # Idle /\ work.epoch = e /\ ~work.written /\ Len(writeQ[e]) = 1
                 THEN [work EXCEPT !.written = TRUE] ELSE work
      /\ UNCHANGED <<pageVars, owner, open, up, down, session, epochs>>
  BY DEF WriterStep, wireVars
<1>2. /\ work = Idle => work' = Idle
      /\ work # Idle =>
           /\ work'.conn = work.conn /\ work'.chunk = work.chunk
           /\ work'.through = work.through /\ work'.epoch = work.epoch
           /\ work'.gen = work.gen /\ work'.peers = work.peers
  BY WriterStepTyped
<1>3. /\ writeQ \in [Epochs -> Seq(1..Len(author))] /\ pty \in Seq(1..Len(author))
      /\ writeQ[e] \in Seq(1..Len(author))
      /\ work # Idle => work.epoch \in Epochs /\ work.written \in BOOLEAN
  BY DEF Typing, AgentTypes, IsWork
<1>4. /\ Head(writeQ[e]) \in 1..Len(author)
      /\ Len(writeQ[e]) = 1 => Head(writeQ[e]) = Last(writeQ[e])
      /\ Len(writeQ[e]) # 1 => Tail(writeQ[e]) # <<>> /\ Last(Tail(writeQ[e])) = Last(writeQ[e])
  BY <1>1, <1>3, LastStays
<1>5. Pane' = Pane \cup {Head(writeQ[e])}
  BY <1>1, <1>3, <1>4, PaneAppend DEF Pane
<1>6. Pages0' /\ Told'
  <2>1. ASSUME NEW c \in Pages
        PROVE  PageInv(c, queue[c], lease[c], phase[c], Inbox(c), session', epochs', Pane')
    <3>1. PageInv(c, queue[c], lease[c], phase[c], Inbox(c), session', epochs', Pane)
      BY <1>1 DEF Numbering, Pages0
    <3>2. Pane \subseteq Pane'
      BY <1>5
    <3> QED
      BY <3>1, <3>2, PaneGrows
  <2>2. ASSUME NEW c \in Pages, Subscribed(c)' PROVE ToldAll(queue[c], phase[c], Inbox(c), session')
    <3>1. Subscribed(c)
      BY <1>1, <2>2 DEF Subscribed, IsPeer, pageVars
    <3> QED
      BY <1>1, <3>1, ToldSame DEF Numbering
  <2> QED
    BY <1>1, <2>1, <2>2, AgentQuiet
<1>7. Channels'
  BY <1>1, QuietChannels DEF Numbering
<1>8. SentFrames' /\ AttachFirst'
  BY <1>1, <1>2 DEF Numbering, SentFrames, AttachFirst, IsPeer, pageVars
<1>9. SentWork'
  BY <1>1, <1>2 DEF Numbering, SentWork, pageVars
<1>10. Writing'
  <2> SUFFICES ASSUME work # Idle PROVE Writing'
    BY <1>2 DEF Writing
  <2>1. /\ work'.written => work'.chunk \in Pane'
        /\ ~work'.written => writeQ'[work'.epoch] # <<>> /\ Last(writeQ'[work'.epoch]) = work'.chunk
    <3>0. /\ work.written => work.chunk \in Pane
          /\ ~work.written => writeQ[work.epoch] # <<>> /\ Last(writeQ[work.epoch]) = work.chunk
      BY DEF Numbering, Writing
    <3>1. CASE work.epoch = e /\ ~work.written /\ Len(writeQ[e]) = 1
      <4>1. work'.written
        BY <1>1, <3>1, Written DEF Typing, AgentTypes
      <4>2. work.chunk \in Pane'
        BY <1>4, <1>5, <3>0, <3>1
      <4> QED
        BY <1>2, <4>1, <4>2
    <3>2. CASE ~(work.epoch = e /\ ~work.written /\ Len(writeQ[e]) = 1)
      <4>1. work' = work
        BY <1>1, <3>2
      <4>2. CASE work.written
        BY <1>5, <3>0, <4>1, <4>2
      <4>3. CASE ~work.written /\ work.epoch = e
        <5>1. writeQ'[e] = Tail(writeQ[e])
          BY <1>1, <1>3
        <5> QED
          BY <1>4, <3>0, <3>2, <4>1, <4>3, <5>1
      <4>4. CASE ~work.written /\ work.epoch # e
        <5>1. writeQ'[work.epoch] = writeQ[work.epoch]
          BY <1>1, <1>3, <4>4
        <5> QED
          BY <3>0, <4>1, <4>4, <5>1
      <4> QED
        BY <4>2, <4>3, <4>4
    <3> QED
      BY <3>1, <3>2
  <2> QED
    BY <1>1, <1>2, <2>1 DEF Numbering, Writing
<1> QED
  BY <1>6, <1>7, <1>8, <1>9, <1>10 DEF Numbering

\* A mutation is dropped: the cursor stays, whatever becomes of the command.
LEMMA WriteDropped ==
    ASSUME Typing, Numbering, work' = Idle,
           UNCHANGED <<pageVars, wireVars, session, epochs, pty>>
    PROVE  Numbering'
<1>1. UNCHANGED <<owner, open, up, down>>
  BY DEF wireVars
<1>2. Pages0' /\ Told'
  BY <1>1, SameSession
<1>3. Channels'
  BY <1>1, QuietChannels DEF Numbering
<1>4. SentFrames' /\ AttachFirst'
  BY <1>1 DEF Numbering, SentFrames, AttachFirst, IsPeer, pageVars
<1>5. SentWork' /\ Writing'
  BY DEF SentWork, Writing
<1> QED
  BY <1>2, <1>3, <1>4, <1>5 DEF Numbering

\* The position after the cursor is applied: it was written, and it is what
\* the page that holds the lease holds there.
LEMMA FinishWriteNumbering ==
    ASSUME Typing, Typing', Numbering, LeaseCoversWrite, FinishWrite
    PROVE  Numbering'
<1>1. /\ work # Idle /\ work.written /\ work' = Idle
      /\ UNCHANGED <<pageVars, owner, open, up, epochs, writeQ, pty>>
  BY DEF FinishWrite
<1>2. CASE session.epoch # work.epoch
  BY <1>1, <1>2, WriteDropped DEF FinishWrite, wireVars
<1>3. CASE session.epoch = work.epoch
  <2>1. /\ session' = [session EXCEPT !.applied = IF session.applied < work.through THEN work.through
                                                  ELSE session.applied]
        /\ down' = Notify(work.peers, Ack(work.epoch, work.through, work.gen))
    BY <1>3 DEF FinishWrite
  <2>2. /\ IsPeer(work.conn) /\ session.holder = owner[work.conn] /\ session.gen = work.gen
        /\ session.applied + 1 = work.through
    BY <1>1, <1>3 DEF LeaseCoversWrite
  <2>3. session \in Sessions /\ session # NoSession /\ session.applied \in Nat /\ work.conn \in DOMAIN owner
    BY <1>1, <2>2, Wires, SessionFields DEF IsPeer, Typing, AgentTypes, WireTypes
  <2>4. /\ session'.epoch = session.epoch /\ session'.gen = session.gen
        /\ session'.holder = session.holder /\ session'.peers = session.peers
        /\ session'.applied = session.applied + 1
    <3>1. session.applied < work.through
      BY <2>2, <2>3
    <3> QED
      BY <2>1, <2>2, <2>3, <3>1 DEF Sessions
  <2>5. session' # NoSession /\ session' \in Sessions
    <3>1. session'.epoch # 0
      BY <2>3, <2>4, SessionFields
    <3>2. session' # NoSession
      BY <3>1 DEF NoSession
    <3> QED
      BY <3>2 DEF Typing, AgentTypes
  <2>6. PICK m : m = Ack(session'.epoch, session'.applied, session'.gen)
    OBVIOUS
  <2>7. down' = Notify(work.peers, m)
    BY <1>3, <2>1, <2>2, <2>4, <2>6
  <2>8. session.peers \subseteq work.peers /\ work.peers \cap open \subseteq session.peers
    BY <1>1, <2>3 DEF Numbering, Writing
  <2>9. Pages0' /\ Told'
    <3>1. ASSUME NEW c \in Pages
          PROVE  PageInv(c, queue[c], lease[c], phase[c], Inbox(c), session', epochs', Pane')
      <4>1. PageInv(c, queue[c], lease[c], phase[c], Inbox(c), session, epochs', Pane)
            /\ Pane' = Pane
        BY <1>1 DEF Numbering, Pages0, Pane
      <4>2. queue[c] \in Queues(Len(author)) /\ Len(author) \in Nat /\ Inbox(c) \in Seq(Messages)
        BY Wires
      <4>3. work.chunk \in Pane
        BY <1>1 DEF Numbering, Writing
      <4>4. session.holder # NoPage
        BY <2>2, <2>3, Known, Bounds
      <4>5. session.holder = c =>
                SentAt(queue[c], session.epoch, session.gen, session.applied + 1, work.chunk)
        BY <1>1, <1>3, <2>2 DEF Numbering, SentWork
      <4> QED
        BY <2>3, <2>4, <4>1, <4>2, <4>3, <4>4, <4>5, SessionApplies
    <3>2. ASSUME NEW c \in Pages, conn[c] \in work.peers \cap open
          PROVE  Says(c, queue[c], phase[c], Inbox(c), session', epochs', m)
      <4>1. Subscribed(c)
        BY <2>3, <2>8, <3>2 DEF Subscribed, IsPeer
      <4>2. ToldEpoch(queue[c], phase[c], Inbox(c), session)
            /\ ToldLease(queue[c], phase[c], Inbox(c), session)
        BY <4>1 DEF Numbering, Told
      <4>3. ToldEpoch(queue[c], phase[c], Inbox(c), session')
            /\ ToldLease(queue[c], phase[c], Inbox(c), session')
        BY <2>4, <4>2 DEF ToldEpoch, ToldLease
      <4> QED
        BY <2>5, <2>6, <4>3, SaysAck
    <3>3. \A c \in Pages : Subscribed(c)' => conn[c] \in work.peers \cap open
      BY <1>1, <2>4, <2>8 DEF Subscribed, IsPeer, pageVars
    <3> QED
      BY <1>1, <2>5, <2>7, <3>1, <3>2, <3>3, AgentTells
  <2>10. SentFrames'
    BY <1>1 DEF Numbering, SentFrames, pageVars
  <2>11. AttachFirst'
    <3>1. Drops
      BY <1>1 DEF Drops
    <3>2. ASSUME NEW p \in open, Unattached(p) PROVE Unattached(p)'
      <4>1. p \in Conns /\ p \notin work.peers /\ p \notin session.peers
        BY <1>1, <2>3, <3>2, Known DEF Unattached, IsPeer
      <4>2. down'[p] = down[p]
        BY <1>1, <2>7, <4>1, NotifyDoes
      <4> QED
        BY <1>1, <2>4, <3>2, <4>1, <4>2 DEF Unattached, IsPeer
    <3> QED
      BY <1>1, <3>1, <3>2, DropsAttach DEF Numbering
  <2>12. Channels'
    BY <1>1, <2>7, NotifyChannels DEF Numbering
  <2>13. SentWork' /\ Writing'
    BY <1>1 DEF SentWork, Writing
  <2> QED
    BY <2>9, <2>10, <2>11, <2>12, <2>13 DEF Numbering
<1> QED
  BY <1>2, <1>3

LEMMA EndConnectionNumbering ==
    ASSUME Typing, Numbering, NEW n \in Conns, EndConnection(n)
    PROVE  Numbering'
<1>1. /\ open' = open \ {n} /\ up' = [up EXCEPT ![n] = <<>>]
      /\ work' = Idle \/ work' = work
      /\ UNCHANGED <<pageVars, owner, down, session, epochs, writeQ, pty>>
  BY DEF EndConnection
<1>2. Pages0' /\ Told'
  BY <1>1, SameSession
<1>3. Drops
  <2>1. \A m \in open' : m \in open /\ up'[m] = up[m]
    BY <1>1, Known DEF Typing, WireTypes
  <2> QED
    BY <2>1 DEF Drops
<1>4. SentFrames'
  BY <1>1, <1>3, DropsSent DEF Numbering, pageVars
<1>5. AttachFirst'
  <2>1. \A m \in open' : Unattached(m) => Unattached(m)'
    BY <1>1 DEF Unattached, IsPeer
  <2> QED
    BY <1>1, <1>3, <2>1, DropsAttach DEF Numbering
<1>6. Channels'
  BY <1>1, QuietChannels DEF Numbering
<1>7. SentWork'
  BY <1>1 DEF Numbering, SentWork, pageVars
<1>8. Writing'
  <2>1. CASE work' = Idle
    BY <2>1 DEF Writing
  <2>2. CASE work' = work
    BY <1>1, <2>2, WritingStays DEF Numbering
  <2> QED
    BY <1>1, <2>1, <2>2
<1> QED
  BY <1>2, <1>4, <1>5, <1>6, <1>7, <1>8 DEF Numbering

\* Without a Session nobody is subscribed.
LEMMA SessionGone ==
    ASSUME Numbering, session' = NoSession, UNCHANGED <<pageVars, owner, down, epochs, pty>>
    PROVE  Pages0' /\ Told' /\ Channels'
<1>1. \A c \in Pages : ~Subscribed(c)'
  BY DEF Subscribed, IsPeer
<1>2. ASSUME NEW c \in Pages
      PROVE  PageInv(c, queue[c], lease[c], phase[c], Inbox(c), session', epochs', Pane')
  <2>1. PageInv(c, queue[c], lease[c], phase[c], Inbox(c), session, epochs', Pane')
    BY DEF Numbering, Pages0, Pane
  <2> QED
    BY <2>1, SessionEnds
<1> QED
  BY <1>1, <1>2, AgentQuiet, QuietChannels DEF Numbering

LEMMA RetireStreamNumbering ==
    ASSUME Typing, Numbering, RetireStream
    PROVE  Numbering'
<1>1. /\ session # NoSession /\ session' = NoSession
      /\ work' = IF work # Idle /\ work.epoch = session.epoch /\ ~work.written THEN Idle ELSE work
      /\ UNCHANGED <<pageVars, owner, open, up, down, epochs, pty>>
  BY DEF RetireStream, wireVars
<1>2. Pages0' /\ Told' /\ Channels'
  BY <1>1, SessionGone
<1>3. work' = Idle \/ (work' = work /\ (work # Idle => work.written))
  BY <1>1 DEF Numbering, Writing
<1>4. SentFrames' /\ SentWork'
  BY <1>1, <1>3 DEF Numbering, SentFrames, SentWork, pageVars
<1>5. AttachFirst'
  BY <1>1, <1>3 DEF Numbering, AttachFirst, IsPeer, pageVars
<1>6. Writing'
  BY <1>1, <1>3 DEF Numbering, Writing, Pane
<1> QED
  BY <1>2, <1>4, <1>5, <1>6 DEF Numbering

LEMMA RestartNumbering ==
    ASSUME Typing, Numbering, Restart
    PROVE  Numbering'
<1>1. /\ open' = {} /\ session' = NoSession /\ work' = Idle
      /\ UNCHANGED <<pageVars, owner, down, epochs, pty>>
  BY DEF Restart
<1>2. Pages0' /\ Told' /\ Channels'
  BY <1>1, SessionGone
<1>3. SentFrames' /\ SentWork' /\ AttachFirst' /\ Writing'
  BY <1>1 DEF SentFrames, SentWork, AttachFirst, Writing
<1> QED
  BY <1>2, <1>3 DEF Numbering

\* The last peer of a holder takes the lease with it, which is told to those
\* who stay.
LEMMA RetireConnectionNumbering ==
    ASSUME Typing, Typing', Numbering, NEW n \in Conns, RetireConnection(n)
    PROVE  Numbering'
<1>1. /\ IsPeer(n) /\ n \notin open /\ session' = Retired(session, n)
      /\ down' = IF session' # NoSession /\ session'.holder # session.holder
                 THEN Notify(session'.peers, ControlChanged(session')) ELSE down
      /\ UNCHANGED <<pageVars, owner, open, up, epochs, work, writeQ, pty>>
  BY DEF RetireConnection
<1>2. session \in Sessions /\ session # NoSession
  BY <1>1, Wires DEF IsPeer
<1>3. \/ session' = NoSession
      \/ /\ session' \in Sessions /\ session'.peers = session.peers \ {n}
         /\ session'.epoch = session.epoch /\ session'.gen = session.gen
         /\ session'.applied = session.applied /\ session'.holder \in {session.holder, NoPage}
  BY <1>1, <1>2, RetiredIs
<1>4. SentFrames' /\ SentWork'
  BY <1>1 DEF Numbering, SentFrames, SentWork, pageVars
<1>5. Drops
  BY <1>1 DEF Drops
<1>6. CASE session' = NoSession
  <2>1. down' = down
    BY <1>1, <1>6
  <2>2. Pages0' /\ Told' /\ Channels'
    BY <1>1, <1>6, <2>1, SessionGone
  <2>3. AttachFirst'
    BY <1>1, <1>6, <2>1 DEF Numbering, AttachFirst, IsPeer, pageVars
  <2>4. Writing'
    BY <1>1, <1>6 DEF Numbering, Writing, Pane
  <2> QED
    BY <1>4, <2>2, <2>3, <2>4 DEF Numbering
<1>7. CASE session' # NoSession
  <2>0. /\ session' \in Sessions /\ session'.peers = session.peers \ {n}
        /\ session'.epoch = session.epoch /\ session'.gen = session.gen
        /\ session'.applied = session.applied /\ session'.holder \in {session.holder, NoPage}
    BY <1>3, <1>7
  <2>1. ASSUME NEW c \in Pages
        PROVE  PageInv(c, queue[c], lease[c], phase[c], Inbox(c), session', epochs', Pane')
    <3>1. PageInv(c, queue[c], lease[c], phase[c], Inbox(c), session, epochs', Pane')
      BY <1>1 DEF Numbering, Pages0, Pane
    <3> QED
      BY <2>0, <3>1, SessionReleased
  <2>2. ASSUME NEW c \in Pages, conn[c] \in open, conn[c] \in session'.peers
        PROVE  ToldAll(queue[c], phase[c], Inbox(c), session')
    <3>1. Subscribed(c)
      BY <1>2, <2>0, <2>2 DEF Subscribed, IsPeer
    <3> QED
      BY <2>0, <3>1, ToldSame DEF Numbering
  <2>3. \A c \in Pages : Subscribed(c)' => conn[c] \in open /\ conn[c] \in session'.peers
    BY <1>1 DEF Subscribed, IsPeer, pageVars
  <2>4. Writing'
    BY <1>1, <1>2, <2>0 DEF Numbering, Writing, Pane
  <2>5. CASE session'.holder = session.holder
    <3>1. down' = down
      BY <1>1, <2>5
    <3>2. Pages0' /\ Told' /\ Channels'
      BY <1>1, <2>1, <2>2, <2>3, <3>1, AgentQuiet, QuietChannels DEF Numbering
    <3>3. AttachFirst'
      BY <1>1, <1>2, <2>0, <3>1 DEF Numbering, AttachFirst, IsPeer, pageVars
    <3> QED
      BY <1>4, <2>4, <3>2, <3>3 DEF Numbering
  <2>6. CASE session'.holder # session.holder
    <3>1. down' = Notify(session'.peers, ControlChanged(session'))
      BY <1>1, <1>7, <2>6
    <3>2. Pages0' /\ Told'
      <4>1. ASSUME NEW c \in Pages, conn[c] \in session'.peers \cap open
            PROVE  Says(c, queue[c], phase[c], Inbox(c), session', epochs', ControlChanged(session'))
        <5>1. ToldAll(queue[c], phase[c], Inbox(c), session')
          BY <2>2, <4>1
        <5> QED
          BY <2>0, <5>1, SaysControl DEF ToldAll
      <4>2. \A c \in Pages : Subscribed(c)' => conn[c] \in session'.peers \cap open
        BY <2>3
      <4> QED
        BY <1>1, <2>0, <2>1, <3>1, <4>1, <4>2, AgentTells
    <3>3. Channels'
      BY <1>1, <3>1, NotifyChannels DEF Numbering
    <3>4. ASSUME NEW p \in open, Unattached(p) PROVE Unattached(p)'
      <4>1. p \in Conns /\ p \notin session.peers /\ p \notin session'.peers
        BY <1>2, <2>0, <3>4, Known DEF Unattached, IsPeer
      <4>2. down'[p] = down[p]
        BY <1>1, <3>1, <4>1, NotifyDoes
      <4> QED
        BY <1>1, <3>4, <4>1, <4>2 DEF Unattached, IsPeer
    <3>5. AttachFirst'
      BY <1>1, <1>5, <3>4, DropsAttach DEF Numbering
    <3> QED
      BY <1>4, <2>4, <3>2, <3>3, <3>5 DEF Numbering
  <2> QED
    BY <2>5, <2>6
<1> QED
  BY <1>6, <1>7
-----------------------------------------------------------------------------
(* The invariant always holds.                                             *)

LEMMA InitNumbering ==
    ASSUME Init
    PROVE  Numbering
<1>1. /\ \A c \in Pages : /\ queue[c] = EmptyQueue /\ lease[c] = UnknownLease /\ phase[c] = "down"
                          /\ conn[c] = 0 /\ Inbox(c) = <<>>
      /\ aged = {} /\ open = {} /\ session = NoSession /\ epochs = 0 /\ work = Idle
      /\ \A n \in Conns : down[n] = <<>>
  BY DEF Init, Inbox
<1>2. /\ EmptyQueue.epoch = 0 /\ EmptyQueue.chunks = <<>> /\ EmptyQueue.cursor = 0
      /\ NoSession.epoch = 0
  BY DEF EmptyQueue, NoSession
<1>3. \A i : i \notin 1..Len(<<>>)
  OBVIOUS
<1>4. \A e, g : ~Current(NoSession, e, g)
  BY <1>2 DEF Current
<1>5. ASSUME NEW c \in Pages
      PROVE  PageInv(c, EmptyQueue, UnknownLease, "down", <<>>, NoSession, 0, Pane)
  <2>1. QueueBound(EmptyQueue, UnknownLease, "down") /\ QueueBehind(EmptyQueue, NoSession, 0)
    BY <1>2 DEF QueueBound, QueueBehind
  <2>2. /\ QueueOwner(c, EmptyQueue, UnknownLease, NoSession)
        /\ QueueReaches(EmptyQueue, UnknownLease, NoSession)
        /\ QueueApplied(EmptyQueue, NoSession, Pane)
    BY <1>4 DEF QueueOwner, QueueReaches, QueueApplied
  <2>3. /\ InboxShape("down", <<>>) /\ InboxOrder(EmptyQueue, "down", <<>>)
        /\ InboxBehind(EmptyQueue, "down", <<>>, NoSession, 0)
        /\ InboxOwner(c, EmptyQueue, "down", <<>>, NoSession)
        /\ InboxReaches(c, EmptyQueue, "down", <<>>, NoSession)
        /\ InboxCovers(c, EmptyQueue, "down", <<>>)
        /\ InboxShort(EmptyQueue, UnknownLease, <<>>) /\ InboxApplied(EmptyQueue, <<>>, Pane)
    BY <1>3 DEF InboxShape, InboxOrder, InboxBehind, InboxOwner, InboxReaches, InboxCovers,
                InboxShort, InboxApplied
  <2> QED
    BY <2>1, <2>2, <2>3 DEF PageInv
<1>6. Pages0 /\ Told
  BY <1>1, <1>5 DEF Pages0, Told, Subscribed
<1>7. Channels /\ AttachFirst /\ SentFrames /\ SentWork /\ Writing
  BY <1>1 DEF Channels, AttachFirst, SentFrames, SentWork, Writing
<1> QED
  BY <1>6, <1>7 DEF Numbering

LEMMA StutterNumbering ==
    ASSUME Numbering, UNCHANGED vars
    PROVE  Numbering'
  BY DEF Numbering, Pages0, Told, Channels, AttachFirst, SentFrames, SentWork, Writing, Inbox, Pane,
         Subscribed, IsPeer, vars, pageVars, wireVars, agentVars

LEMMA AgentNumbering ==
    ASSUME Typing, Typing', Numbering, LeaseCoversWrite, AgentNext
    PROVE  Numbering'
<1>1. ASSUME NEW n \in Conns,
             \/ Attach(n) \/ AcquireControl(n) \/ RefuseInput(n)
             \/ RestateCursor(n) \/ BeginWrite(n)
             \/ EndConnection(n) \/ RetireConnection(n)
      PROVE  Numbering'
  BY <1>1, AttachNumbering, AcquireControlNumbering, RefuseInputNumbering,
     RestateCursorNumbering, BeginWriteNumbering, EndConnectionNumbering, RetireConnectionNumbering
<1>2. ASSUME NEW e \in Epochs, WriterStep(e) PROVE Numbering'
  BY <1>2, WriterStepNumbering
<1>3. CASE WriteRefused \/ WriteTimesOut
  BY <1>3, WriteDropped DEF WriteRefused, WriteTimesOut
<1>4. CASE FinishWrite \/ RetireStream \/ Restart
  BY <1>4, FinishWriteNumbering, RetireStreamNumbering, RestartNumbering
<1> QED
  BY <1>1, <1>2, <1>3, <1>4 DEF AgentNext

LEMMA NextNumbering ==
    ASSUME Typing, Typing', Numbering, LeaseCoversWrite, QueueSurvives, [Next]_vars
    PROVE  Numbering'
  BY PageNumbering, AgentNumbering, StutterNumbering DEF Next

\* The pages, the wire and the agent agree on what every position stands for:
\* whatever is lost, refused, interrupted or sent again, as long as the queue
\* of a page survives.
THEOREM NumberingAlways ==
    ASSUME QueueSurvives
    PROVE  Spec => []Numbering
<1>1. Init => Numbering
  BY InitNumbering
<1>2. Typing /\ Typing' /\ LeaseCoversWrite /\ Numbering /\ [Next]_vars => Numbering'
  BY NextNumbering
<1> QED
  BY <1>1, <1>2, TypingAlways, LeaseCoversWriteAlways, PTL DEF Spec

\* A frame on its way to the agent carries the chunk its page still holds at
\* the position it states, so nothing sent again is renumbered.
THEOREM PositionNamesOneChunkAlways ==
    ASSUME QueueSurvives
    PROVE  Spec => []PositionNamesOneChunk
<1>1. ASSUME Typing, Numbering PROVE PositionNamesOneChunk
  <2> SUFFICES ASSUME NEW n \in open, NEW i \in DOMAIN up[n],
                      NEW q, q = queue[owner[n]], NEW f, f = up[n][i],
                      f.kind = "input", f.epoch = q.epoch, f.gen = q.gen,
                      f.seq \in q.cursor + 1 .. q.cursor + Len(q.chunks)
               PROVE  f.chunk = q.chunks[f.seq - q.cursor]
    BY DEF PositionNamesOneChunk
  <2>1. n \in Conns /\ owner[n] \in Pages /\ Len(author) \in Nat
    BY <1>1, Known DEF Typing, WireTypes
  <2>2. up[n] \in Seq(Frames(Len(author))) /\ q \in Queues(Len(author))
    BY <1>1, <2>1 DEF Typing, WireTypes, PageTypes
  <2>3. i \in 1..Len(up[n])
    BY <2>2, LenProperties
  <2>4. SentAt(q, f.epoch, f.gen, f.seq, f.chunk)
    BY <1>1, <2>3 DEF Numbering, SentFrames
  <2>5. q.cursor < f.seq
    BY <2>1, <2>2, Positions
  <2> QED
    BY <2>4, <2>5 DEF SentAt, At
<1> QED
  BY <1>1, TypingAlways, NumberingAlways, PTL
-----------------------------------------------------------------------------
(* What the log sees of a step.                                            *)

LEMMA QueuesKept ==
    ASSUME UNCHANGED queue
    PROVE  Held' = Held /\ Lost' = Lost
  BY DEF Held, Lost

LEMMA LogPane == Log!ToSet(pty) = Pane
  BY DEF Log!ToSet, ToSet, Pane

\* What page c does with what it holds, and with the chunks X it adds.
LEMMA OneLetsGo ==
    ASSUME NEW c \in Pages, NEW X, \A d \in Pages \ {c} : queue'[d] = queue[d],
           ToSet(queue'[c].chunks) \subseteq ToSet(queue[c].chunks) \cup X,
           queue[c].lost \subseteq queue'[c].lost,
           queue'[c].lost \subseteq queue[c].lost \cup ToSet(queue[c].chunks) \cup X,
           ToSet(queue[c].chunks) \cup X
               \subseteq ToSet(queue'[c].chunks) \cup queue'[c].lost \cup Pane
    PROVE  Log!LetGo(Held \cup X)
<1>1. \A x : x \in Held <=> \E d \in Pages : x \in ToSet(queue[d].chunks)
  BY DEF Held
<1>2. \A x : x \in Held' <=> \E d \in Pages : x \in ToSet(queue'[d].chunks)
  BY DEF Held
<1>3. \A x : x \in Lost <=> \E d \in Pages : x \in queue[d].lost
  BY DEF Lost
<1>4. \A x : x \in Lost' <=> \E d \in Pages : x \in queue'[d].lost
  BY DEF Lost
<1>5. Held' \subseteq Held \cup X
  BY <1>1, <1>2
<1>6. Lost \subseteq Lost'
  BY <1>3, <1>4
<1>7. Lost' \ Lost \subseteq Held \cup X
  BY <1>1, <1>3, <1>4
<1>8. (Held \cup X) \ Held' \subseteq Pane \cup Lost'
  BY <1>1, <1>2, <1>4
<1> QED
  BY <1>5, <1>6, <1>7, <1>8, LogPane DEF Log!LetGo

\* A chunk is typed: it is held, or reported.
LEMMA TypeLogged ==
    ASSUME Typing, NEW c \in Pages, Typed(c)
    PROVE  Log!Type(c)
<1> DEFINE k == Len(author) + 1
<1>1. /\ author' = Append(author, c) /\ pty' = pty
      /\ \A d \in Pages \ {c} : queue'[d] = queue[d]
      /\ \/ queue'[c].chunks = queue[c].chunks /\ queue'[c].lost = queue[c].lost \cup {k}
         \/ queue'[c].chunks = Append(queue[c].chunks, k) /\ queue'[c].lost = queue[c].lost
  BY DEF Typed, agentVars
<1>2. Len(author') = k /\ k \in Nat /\ k \in 1..k
  BY <1>1, Known, AppendProperties DEF Typing, PageTypes
<1>3. ToSet(Append(queue[c].chunks, k)) = ToSet(queue[c].chunks) \cup {k}
  <2>1. queue[c] \in Queues(Len(author)) /\ Len(author) \in Nat
    BY Wires
  <2>2. queue[c].chunks \in Seq(1..k)
    BY <1>2, <2>1, QueueFields, Widen
  <2> QED
    BY <1>2, <2>2, PaneAppend
<1> HIDE DEF k
<1>4. Log!LetGo(Held \cup {k})
  BY <1>1, <1>3, OneLetsGo
<1> QED
  BY <1>1, <1>2, <1>4 DEF Log!Type

\* A message is read: what the page lets go is in the pane or reported.
LEMMA ReadLogged ==
    ASSUME NEW c \in Pages, Read(c)
    PROVE  Log!Settle
<1>1. /\ Took(Len(author), queue[c], queue'[c], EpochOf(queue[c], phase[c], Inbox(c)), Inbox(c)[1], Pane)
      /\ OthersStay(c) /\ author' = author /\ pty' = pty
  BY DEF Read, agentVars
<1>2. /\ queue[c].lost \subseteq queue'[c].lost
      /\ queue'[c].lost \subseteq queue[c].lost \cup ToSet(queue[c].chunks)
      /\ ToSet(queue'[c].chunks) \subseteq ToSet(queue[c].chunks)
      /\ ToSet(queue[c].chunks) \subseteq ToSet(queue'[c].chunks) \cup queue'[c].lost \cup Pane
  BY <1>1 DEF Took
<1>3. Log!LetGo(Held \cup {})
  BY <1>1, <1>2, OneLetsGo DEF OthersStay
<1>4. Held \cup {} = Held
  OBVIOUS
<1> QED
  BY <1>1, <1>3, <1>4 DEF Log!Settle

LEMMA QuietLogged ==
    ASSUME UNCHANGED <<queue, author, pty>>
    PROVE  Log!Settle
<1>1. Held' = Held /\ Lost' = Lost
  BY QueuesKept
<1> QED
  BY <1>1 DEF Log!Settle, Log!LetGo

\* Every step but the writer's: a chunk is typed, or chunks are let go.
Logged == Log!Settle \/ \E c \in Pages : Log!Type(c)

LEMMA PageLogged ==
    ASSUME Typing, Typing', Numbering, QueueSurvives, PageNext
    PROVE  Logged
<1>1. PICK c \in Pages : \/ Type(c) \/ GrowOld(c) \/ LoseTransport(c) \/ SwapTransport(c)
                         \/ Connect(c) \/ RequestControl(c) \/ Receive(c)
  BY DEF PageNext
<1>2. ~GrowOld(c) /\ ~SwapTransport(c)
  BY DEF QueueSurvives, GrowOld, SwapTransport
<1>3. CASE Type(c)
  BY <1>3, TypeDoes, TypeLogged DEF Logged
<1>4. CASE Receive(c)
  BY <1>4, ReceiveDoes, ReadLogged DEF Logged
<1>5. CASE LoseTransport(c) \/ Connect(c) \/ RequestControl(c)
  <2>1. UNCHANGED <<queue, author, pty>>
    BY <1>5 DEF LoseTransport, Connect, RequestControl, pageVars, agentVars
  <2> QED
    BY <2>1, QuietLogged DEF Logged
<1> QED
  BY <1>1, <1>2, <1>3, <1>4, <1>5

LEMMA AgentLogged ==
    ASSUME AgentNext, \A e \in Epochs : ~WriterStep(e)
    PROVE  Logged
<1>1. UNCHANGED <<queue, author, pty>>
  <2>1. ASSUME NEW n \in Conns,
               \/ Attach(n) \/ AcquireControl(n) \/ RefuseInput(n)
               \/ RestateCursor(n) \/ BeginWrite(n)
               \/ EndConnection(n) \/ RetireConnection(n)
        PROVE  UNCHANGED <<queue, author, pty>>
    BY <2>1 DEF Attach, AcquireControl, RefuseInput, RestateCursor, BeginWrite, EndConnection,
                RetireConnection, pageVars, agentVars
  <2>2. CASE WriteRefused \/ WriteTimesOut \/ FinishWrite \/ RetireStream \/ Restart
    BY <2>2 DEF WriteRefused, WriteTimesOut, FinishWrite, RetireStream, Restart, pageVars
  <2> QED
    BY <2>1, <2>2 DEF AgentNext
<1> QED
  BY <1>1, QuietLogged DEF Logged

LEMMA WriterWrites ==
    ASSUME Typing, NEW e \in Epochs, WriterStep(e)
    PROVE  /\ author' = author /\ Held' = Held /\ Lost' = Lost
           /\ Head(writeQ[e]) \in DOMAIN author /\ pty' = Append(pty, Head(writeQ[e]))
           /\ ToSet(pty') = ToSet(pty) \cup {Head(writeQ[e])}
<1>1. /\ writeQ[e] # <<>> /\ pty' = Append(pty, Head(writeQ[e])) /\ UNCHANGED <<queue, author>>
  BY DEF WriterStep, pageVars
<1>2. writeQ[e] \in Seq(1..Len(author)) /\ pty \in Seq(1..Len(author)) /\ DOMAIN author = 1..Len(author)
  BY Known DEF Typing, AgentTypes
<1>3. Head(writeQ[e]) \in 1..Len(author)
  BY <1>1, <1>2, LastStays
<1> QED
  BY <1>1, <1>2, <1>3, QueuesKept, PaneAppend

LEMMA LoggedKeeps ==
    ASSUME Typing, NoSilentLoss, Logged
    PROVE  NoSilentLoss'
<1>1. CASE Log!Settle
  BY <1>1, LogPane DEF NoSilentLoss, Log!Settle, Log!LetGo, Pane
<1>2. ASSUME NEW c \in Pages, Log!Type(c) PROVE NoSilentLoss'
  <2>1. author' = Append(author, c) /\ pty' = pty /\ Log!LetGo(Held \cup {Len(author')})
    BY <1>2 DEF Log!Type
  <2>2. DOMAIN author' \subseteq DOMAIN author \cup {Len(author')}
    <3>1. /\ Len(author) \in Nat /\ Len(author') = Len(author) + 1
          /\ DOMAIN author = 1..Len(author) /\ DOMAIN author' = 1..Len(author')
      BY <2>1, Known, AppendProperties, LenProperties DEF Typing, PageTypes
    <3> QED
      BY <3>1
  <2> QED
    BY <2>1, <2>2, LogPane DEF NoSilentLoss, Log!LetGo, Pane
<1> QED
  BY <1>1, <1>2 DEF Logged

\* Every chunk the user typed is held by a page, was reported lost or is in
\* the pane: through every loss of a connection, every takeover, every
\* restart, and writes refused or abandoned half way.
THEOREM NoSilentLossAlways ==
    ASSUME QueueSurvives
    PROVE  Spec => []NoSilentLoss
<1>1. Init => NoSilentLoss
  BY DEF Init, NoSilentLoss
<1>2. ASSUME Typing, Typing', Numbering, NoSilentLoss, [Next]_vars PROVE NoSilentLoss'
  <2>1. ASSUME NEW e \in Epochs, WriterStep(e) PROVE NoSilentLoss'
    BY <1>2, <2>1, WriterWrites DEF NoSilentLoss
  <2>2. CASE Next /\ \A e \in Epochs : ~WriterStep(e)
    BY <1>2, <2>2, PageLogged, AgentLogged, LoggedKeeps DEF Next
  <2>3. CASE UNCHANGED vars
    <3>1. Logged
      BY <2>3, QuietLogged DEF Logged, vars, pageVars, agentVars
    <3> QED
      BY <1>2, <3>1, LoggedKeeps
  <2> QED
    BY <1>2, <2>1, <2>2, <2>3
<1> QED
  BY <1>1, <1>2, TypingAlways, NumberingAlways, PTL DEF Spec

-----------------------------------------------------------------------------
(* While no write is abandoned half way, sequenced input implements        *)
(* InputLog: a chunk reaches the pane at most once, and the chunks of a    *)
(* page reach it in the order they were typed.                             *)

\* A command is written or it is refused, and the queue of a page survives.
WritesComplete == Events \subseteq {"refuse"}

\* A page c holds its own chunks, in the order they were typed: a tells who
\* typed which.
Sorted(a, c, q) ==
    /\ \A p \in Nat : Open(q, p) => a[At(q, p)] = c
    /\ \A p, r \in Nat : Open(q, p) /\ Open(q, r) /\ p < r => At(q, p) < At(q, r)

\* What a page holds, sends and has written is what it typed.
Ours ==
    /\ \A c \in Pages : Sorted(author, c, queue[c])
    /\ \A n \in open : \A i \in 1..Len(up[n]) :
           up[n][i].kind = "input" => author[up[n][i].chunk] = owner[n]
    /\ work # Idle => author[work.chunk] = owner[work.conn]

\* A writer has no command but that of the mutation in progress.
Pending(e) == work # Idle /\ ~work.written /\ work.epoch = e

Alone ==
    \A e \in Epochs :
        /\ Pending(e) => session.epoch = e /\ writeQ[e] = <<work.chunk>>
        /\ ~Pending(e) => writeQ[e] = <<>>

\* The last position that is written: the cursor, or the one after it.
Done == IF work # Idle /\ work.written THEN session.applied + 1 ELSE session.applied

\* Chunk x is younger than every chunk of page c in the set P.
Newer(a, P, c, x) == \A k \in P : a[k] = c => k < x

\* What a current queue holds past the last position written is younger.
Ahead ==
    \A c \in Pages : Current(session, queue[c].epoch, queue[c].gen) =>
        \A p \in Nat : Open(queue[c], p) /\ Done < p => Newer(author, Pane, c, At(queue[c], p))

\* And so is the chunk that is being written.
Fresh == work # Idle /\ ~work.written => Newer(author, Pane, owner[work.conn], work.chunk)

Order == Ours /\ Alone /\ Ahead /\ Fresh
-----------------------------------------------------------------------------
(* A page types and reads.                                                 *)

\* The chunks typed so far keep their author.
Recorded == \A k \in 1..Len(author) : author'[k] = author[k]

LEMMA AddsOurs ==
    ASSUME Typing, Typing', Ours, NEW c \in Pages, Adds(c, queue'[c]), Recorded,
           \A d \in Pages : Sorted(author', d, queue'[d]), UNCHANGED <<owner, open, work>>
    PROVE  Ours'
<1>1. /\ Len(author) \in Nat /\ open \subseteq Conns
      /\ \A n \in Conns : up[n] \in Seq(Frames(Len(author)))
  BY Known DEF Typing, WireTypes
<1>2. ASSUME NEW n \in open, NEW i \in 1..Len(up'[n]), up'[n][i].kind = "input"
      PROVE  author'[up'[n][i].chunk] = owner[n]
  <2>1. PICK f : f = up'[n][i]
    OBVIOUS
  <2>2. CASE i \in 1..Len(up[n]) /\ up'[n][i] = up[n][i]
    <3>1. f = up[n][i] /\ f \in Frames(Len(author)) /\ f.kind = "input"
      BY <1>1, <1>2, <2>1, <2>2, ElementOfSeq
    <3>2. f.chunk \in 1..Len(author)
      BY <1>1, <3>1, FrameFields
    <3>3. author[f.chunk] = owner[n]
      BY <2>2, <3>1 DEF Ours
    <3> QED
      BY <2>1, <3>2, <3>3 DEF Recorded
  <2>3. CASE owner[n] = c /\ f.chunk \in ToSet(queue'[c].chunks)
    <3>1. queue'[c] \in Queues(Len(author')) /\ Len(author') \in Nat
      BY DEF Typing, PageTypes
    <3>2. \E p \in Nat : Open(queue'[c], p) /\ At(queue'[c], p) = f.chunk
      BY <2>3, <3>1, Positions
    <3>3. PICK p \in Nat : Open(queue'[c], p) /\ At(queue'[c], p) = f.chunk
      BY <3>2
    <3>4. author'[At(queue'[c], p)] = c
      BY <3>3 DEF Sorted
    <3> QED
      BY <2>1, <2>3, <3>3, <3>4
  <2> QED
    BY <1>1, <1>2, <2>1, <2>2, <2>3 DEF Adds
<1>3. ASSUME work # Idle PROVE author'[work.chunk] = owner[work.conn]
  <2>1. work.chunk \in 1..Len(author)
    BY <1>3 DEF Typing, AgentTypes, IsWork
  <2> QED
    BY <1>3, <2>1 DEF Ours, Recorded
<1> QED
  BY <1>2, <1>3 DEF Ours

\* r holds nothing but what q holds.
LEMMA SortedLess ==
    ASSUME NEW a, NEW c, NEW q, NEW r, Sorted(a, c, q),
           \A p \in Nat : Open(r, p) => Open(q, p) /\ At(r, p) = At(q, p)
    PROVE  Sorted(a, c, r)
  BY DEF Sorted

\* A chunk typed is the last of the queue, and the youngest of all.
LEMMA TypedAt ==
    ASSUME Typing, NEW c \in Pages, Typed(c), NEW p \in Nat, Open(queue'[c], p)
    PROVE  \/ Open(queue[c], p) /\ At(queue'[c], p) = At(queue[c], p)
                                /\ At(queue[c], p) \in 1..Len(author)
           \/ ~(p <= End(queue[c])) /\ At(queue'[c], p) = Len(author) + 1 /\ p = End(queue[c]) + 1
<1>1. PICK q : q = queue[c]
  OBVIOUS
<1>2. PICK r : r = queue'[c]
  OBVIOUS
<1>3. /\ q \in Queues(Len(author)) /\ Len(author) \in Nat /\ r \in Queues(Len(author) + 1)
      /\ Extends(q, r)
      /\ r.chunks = q.chunks \/ r.chunks = Append(q.chunks, Len(author) + 1)
  BY <1>1, <1>2, Wires DEF Typed
<1>4. /\ q.cursor \in Nat /\ r.cursor = q.cursor /\ Len(q.chunks) \in Nat
      /\ q.chunks \in Seq(1..Len(author)) /\ End(q) \in Nat
  BY <1>3, Positions DEF Extends
<1>5. CASE p <= End(q)
  <2>1. Open(q, p) /\ At(r, p) = At(q, p)
    BY <1>2, <1>3, <1>5 DEF Extends
  <2>2. p - q.cursor \in 1..Len(q.chunks)
    BY <1>3, <2>1, Positions
  <2>3. At(q, p) \in 1..Len(author)
    BY <1>4, <2>2, ElementOfSeq DEF At
  <2> QED
    BY <1>1, <1>2, <2>1, <2>3
<1>6. CASE ~(p <= End(q))
  <2>1. p <= End(r) /\ End(q) = q.cursor + Len(q.chunks) /\ End(r) = q.cursor + Len(r.chunks)
    BY <1>2, <1>4 DEF Open, End
  <2>2. r.chunks # q.chunks
    BY <1>6, <2>1
  <2>3. r.chunks = Append(q.chunks, Len(author) + 1)
    BY <1>3, <2>2
  <2>4. q.chunks \in Seq(Nat) /\ Len(author) + 1 \in Nat
    BY <1>3, <1>4, SeqMonotonic
  <2>5. Len(r.chunks) = Len(q.chunks) + 1 /\ r.chunks[Len(q.chunks) + 1] = Len(author) + 1
    BY <2>3, <2>4, AppendProperties
  <2>6. p = End(q) + 1 /\ p - r.cursor = Len(q.chunks) + 1
    <3> DEFINE a == q.cursor
               b == Len(q.chunks)
               d == Len(r.chunks)
    <3>1. a \in Nat /\ b \in Nat /\ d = b + 1 /\ ~(p <= a + b) /\ p <= a + d
      BY <1>4, <1>6, <2>1, <2>5
    <3>2. End(q) = a + b /\ r.cursor = a
      BY <1>4, <2>1
    <3> HIDE DEF a, b, d
    <3>3. p = a + b + 1 /\ p - a = b + 1
      BY <3>1
    <3> QED
      BY <3>2, <3>3 DEF b
  <2>7. At(r, p) = Len(author) + 1
    BY <2>5, <2>6 DEF At
  <2> QED
    BY <1>1, <1>2, <1>6, <2>6, <2>7
<1> QED
  BY <1>5, <1>6

LEMMA ChunkAt ==
    ASSUME NEW k \in Nat, NEW q \in Queues(k), NEW p \in Nat, Open(q, p)
    PROVE  At(q, p) \in 1..k
<1>1. p - q.cursor \in 1..Len(q.chunks) /\ q.chunks \in Seq(1..k)
  BY Positions
<1> QED
  BY <1>1, ElementOfSeq DEF At

LEMMA PaneTyped ==
    ASSUME Typing
    PROVE  \A k \in Pane : k \in 1..Len(author)
<1>1. pty \in Seq(1..Len(author))
  BY DEF Typing, AgentTypes
<1> QED
  BY <1>1, LenProperties, ElementOfSeq DEF Pane, ToSet

LEMMA TypeOrder ==
    ASSUME Typing, Typing', Order, NEW c \in Pages, Typed(c)
    PROVE  Order'
<1> DEFINE k == Len(author) + 1
<1>1. /\ author' = Append(author, c) /\ Adds(c, queue'[c])
      /\ \A d \in Pages \ {c} : queue'[d] = queue[d]
      /\ queue'[c].epoch = queue[c].epoch /\ queue'[c].gen = queue[c].gen
      /\ UNCHANGED <<owner, open, session, work, writeQ, pty>>
  BY DEF Typed, Extends, agentVars
<1>2. /\ Len(author) \in Nat /\ k \in Nat /\ author'[k] = c /\ Recorded
      /\ \A d \in Pages : queue[d] \in Queues(Len(author))
  BY <1>1, Wires, AppendProperties DEF Typing, PageTypes, Recorded
<1>3. \A j \in 1..Len(author) : j < k
  BY <1>2
<1> HIDE DEF k
<1>4. \A p \in Nat : Open(queue'[c], p) =>
          \/ Open(queue[c], p) /\ At(queue'[c], p) = At(queue[c], p)
                               /\ At(queue[c], p) \in 1..Len(author)
          \/ ~(p <= End(queue[c])) /\ At(queue'[c], p) = k /\ p = End(queue[c]) + 1
  BY TypedAt DEF k
<1>5. \A d \in Pages : Sorted(author, d, queue[d])
  BY DEF Order, Ours
<1>6. Sorted(author', c, queue'[c])
  <2>1. ASSUME NEW p \in Nat, Open(queue'[c], p) PROVE author'[At(queue'[c], p)] = c
    BY <1>2, <1>4, <1>5, <2>1 DEF Sorted, Recorded
  <2>2. ASSUME NEW p \in Nat, NEW r \in Nat, Open(queue'[c], p), Open(queue'[c], r), p < r
        PROVE  At(queue'[c], p) < At(queue'[c], r)
    <3>1. CASE Open(queue[c], r) /\ At(queue'[c], r) = At(queue[c], r)
      <4>1. p <= End(queue[c])
        <5>1. r <= End(queue[c]) /\ End(queue[c]) \in Nat
          BY <1>2, <3>1, Positions DEF Open
        <5> QED
          BY <2>2, <5>1
      <4>2. Open(queue[c], p) /\ At(queue'[c], p) = At(queue[c], p)
        BY <1>4, <2>2, <4>1
      <4> QED
        BY <1>5, <2>2, <3>1, <4>2 DEF Sorted
    <3>2. CASE At(queue'[c], r) = k /\ r = End(queue[c]) + 1
      <4>1. p <= End(queue[c])
        <5>1. End(queue[c]) \in Nat
          BY <1>2, Positions
        <5> QED
          BY <2>2, <3>2, <5>1
      <4>2. At(queue'[c], p) \in 1..Len(author)
        BY <1>4, <2>2, <4>1
      <4> QED
        BY <1>3, <3>2, <4>2
    <3> QED
      BY <1>4, <2>2, <3>1, <3>2
  <2> QED
    BY <2>1, <2>2 DEF Sorted
<1>7. ASSUME NEW d \in Pages, d # c PROVE Sorted(author', d, queue'[d])
  <2>1. Sorted(author, d, queue[d]) /\ queue'[d] = queue[d]
    BY <1>1, <1>5, <1>7
  <2>2. \A p \in Nat : Open(queue[d], p) => At(queue[d], p) \in 1..Len(author)
    BY <1>2, ChunkAt
  <2> QED
    BY <1>2, <2>1, <2>2 DEF Sorted, Recorded
<1>8. Ours'
  BY <1>1, <1>2, <1>6, <1>7, AddsOurs DEF Order
<1>9. \A d, x : Newer(author, Pane, d, x) => Newer(author', Pane, d, x)
  BY <1>2, PaneTyped DEF Newer, Recorded
<1>10. Newer(author', Pane, c, k)
  BY <1>3, PaneTyped DEF Newer
<1>11. Pane' = Pane /\ Done' = Done
  BY <1>1 DEF Pane, Done
<1>12. Alone'
  BY <1>1 DEF Order, Alone, Pending
<1>13. Fresh'
  BY <1>1, <1>9, <1>11 DEF Order, Fresh
<1>14. Ahead'
  <2> SUFFICES ASSUME NEW d \in Pages, Current(session, queue'[d].epoch, queue'[d].gen),
                      NEW p \in Nat, Open(queue'[d], p), Done < p
               PROVE  Newer(author', Pane, d, At(queue'[d], p))
    BY <1>1, <1>11 DEF Ahead
  <2>1. Current(session, queue[d].epoch, queue[d].gen)
    BY <1>1
  <2>2. CASE Open(queue[d], p) /\ At(queue'[d], p) = At(queue[d], p)
    <3>1. Newer(author, Pane, d, At(queue[d], p))
      BY <2>1, <2>2 DEF Order, Ahead
    <3> QED
      BY <1>9, <2>2, <3>1
  <2>3. CASE d = c /\ At(queue'[d], p) = k
    BY <1>10, <2>3
  <2> QED
    BY <1>1, <1>4, <2>2, <2>3
<1> QED
  BY <1>8, <1>12, <1>13, <1>14 DEF Order

\* The agent is left alone, and no queue holds more than before.
LEMMA PageOrder ==
    ASSUME Order, Ours', UNCHANGED <<author, session, work, writeQ, pty>>,
           work # Idle => owner'[work.conn] = owner[work.conn],
           \A c \in Pages : Current(session, queue'[c].epoch, queue'[c].gen) =>
               \A p \in Nat : Open(queue'[c], p) =>
                   /\ Current(session, queue[c].epoch, queue[c].gen)
                   /\ Open(queue[c], p) /\ At(queue'[c], p) = At(queue[c], p)
    PROVE  Order'
<1>1. Pane' = Pane /\ Done' = Done
  BY DEF Pane, Done
<1>2. Alone' /\ Fresh'
  BY <1>1 DEF Order, Alone, Pending, Fresh
<1>3. Ahead'
  BY <1>1 DEF Order, Ahead
<1> QED
  BY <1>2, <1>3 DEF Order

LEMMA ReadOrder ==
    ASSUME Typing, Typing', Order, NEW c \in Pages, Read(c)
    PROVE  Order'
<1>1. PICK e, m : Took(Len(author), queue[c], queue'[c], e, m, Pane)
  BY DEF Read
<1>2. /\ OthersStay(c) /\ Adds(c, queue'[c])
      /\ UNCHANGED <<author, owner, open, session, work, writeQ, pty>>
  BY DEF Read, agentVars
<1>3. /\ queue'[c].epoch = e /\ queue'[c].gen = m.gen
      /\ \A p \in Nat : Open(queue'[c], p) =>
             queue[c].epoch = e /\ queue[c].gen = m.gen
             /\ Open(queue[c], p) /\ At(queue'[c], p) = At(queue[c], p)
  BY <1>1 DEF Took
<1>4. Ours'
  <2>1. ASSUME NEW d \in Pages PROVE Sorted(author', d, queue'[d])
    <3>1. Sorted(author, d, queue[d])
      BY DEF Order, Ours
    <3>2. CASE d = c
      <4>1. Sorted(author, c, queue'[c])
        BY <1>3, <3>1, <3>2, SortedLess
      <4> QED
        BY <1>2, <3>2, <4>1
    <3>3. CASE d # c
      BY <1>2, <3>1, <3>3 DEF OthersStay
    <3> QED
      BY <3>2, <3>3
  <2> QED
    BY <1>2, <2>1, AddsOurs DEF Order, Recorded
<1>5. ASSUME NEW d \in Pages, Current(session, queue'[d].epoch, queue'[d].gen),
             NEW p \in Nat, Open(queue'[d], p)
      PROVE  /\ Current(session, queue[d].epoch, queue[d].gen)
             /\ Open(queue[d], p) /\ At(queue'[d], p) = At(queue[d], p)
  <2>1. CASE d = c
    BY <1>3, <1>5, <2>1
  <2>2. CASE d # c
    BY <1>2, <1>5, <2>2 DEF OthersStay
  <2> QED
    BY <2>1, <2>2
<1> QED
  BY <1>2, <1>4, <1>5, PageOrder

\* A page that leaves its queue alone.
LEMMA WireOrder ==
    ASSUME Typing, Typing', Order, NEW c \in Pages, LoseTransport(c) \/ RequestControl(c)
    PROVE  Order'
<1>1. UNCHANGED <<queue, author, owner, open, session, work, writeQ, pty>>
  BY DEF LoseTransport, RequestControl, pageVars, agentVars
<1>2. Adds(c, queue'[c])
  BY LoseTransportAdds, RequestControlAdds
<1>3. Ours'
  <2>1. \A d \in Pages : Sorted(author', d, queue'[d])
    BY <1>1 DEF Order, Ours
  <2> QED
    BY <1>1, <1>2, <2>1, AddsOurs DEF Order, Recorded
<1> QED
  BY <1>1, <1>3, PageOrder

LEMMA ConnectOrder ==
    ASSUME Typing, Order, NEW c \in Pages, Connect(c)
    PROVE  Order'
<1>1. PICK n : n = Len(owner) + 1
  OBVIOUS
<1>2. /\ n \in Conns /\ owner' = Append(owner, c) /\ open' = open \cup {n}
      /\ up' = [up EXCEPT ![n] = <<[kind |-> "attach"]>>]
      /\ UNCHANGED <<queue, author, session, work, writeQ, pty>>
  BY <1>1 DEF Connect, agentVars
<1>3. /\ owner \in Seq(Pages) /\ Len(owner) \in Nat /\ open \subseteq 1..Len(owner)
      /\ up \in [Conns -> Seq(Frames(Len(author)))] /\ open \subseteq Conns
      /\ work # Idle => work.conn \in open
  BY Known DEF Typing, WireTypes, AgentTypes
<1>4. \A m \in open : owner'[m] = owner[m] /\ m # n
  BY <1>1, <1>2, <1>3, AppendProperties
<1>5. Ours'
  <2>1. up'[n] = <<[kind |-> "attach"]>> /\ \A m \in open : up'[m] = up[m]
    BY <1>2, <1>3, <1>4
  <2>2. \A i \in 1..Len(up'[n]) : up'[n][i].kind # "input"
    BY <2>1
  <2>3. ASSUME NEW m \in open', NEW i \in 1..Len(up'[m]), up'[m][i].kind = "input"
        PROVE  author'[up'[m][i].chunk] = owner'[m]
    <3>1. m \in open
      BY <1>2, <2>2, <2>3
    <3>2. up'[m] = up[m] /\ owner'[m] = owner[m] /\ author' = author
      BY <1>2, <1>4, <2>1, <3>1
    <3>3. i \in 1..Len(up[m]) /\ up[m][i].kind = "input"
      BY <2>3, <3>2
    <3>4. author[up[m][i].chunk] = owner[m]
      BY <3>1, <3>3 DEF Order, Ours
    <3> QED
      BY <3>2, <3>4
  <2>4. work' # Idle => author'[work'.chunk] = owner'[work'.conn]
    BY <1>2, <1>3, <1>4 DEF Order, Ours
  <2>5. \A d \in Pages : Sorted(author', d, queue'[d])
    BY <1>2 DEF Order, Ours
  <2> QED
    BY <2>3, <2>4, <2>5 DEF Ours
<1>6. work # Idle => owner'[work.conn] = owner[work.conn]
  BY <1>3, <1>4
<1> QED
  BY <1>2, <1>5, <1>6, PageOrder
-----------------------------------------------------------------------------
(* The agent.                                                              *)

LEMMA DropsOurs ==
    ASSUME Ours, Drops, UNCHANGED <<queue, author, owner>>,
           work' # Idle => author[work'.chunk] = owner[work'.conn]
    PROVE  Ours'
<1>1. ASSUME NEW n \in open', NEW i \in 1..Len(up'[n]), up'[n][i].kind = "input"
      PROVE  author[up'[n][i].chunk] = owner[n]
  <2>1. n \in open /\ \E j \in 1..Len(up[n]) : up'[n][i] = up[n][j]
    BY <1>1 DEF Drops
  <2>2. PICK j \in 1..Len(up[n]) : up'[n][i] = up[n][j]
    BY <2>1
  <2>3. up[n][j].kind = "input"
    BY <1>1, <2>2
  <2>4. author[up[n][j].chunk] = owner[n]
    BY <2>1, <2>3 DEF Ours
  <2> QED
    BY <2>2, <2>4
<1>2. \A d \in Pages : Sorted(author', d, queue'[d])
  BY DEF Ours
<1> QED
  BY <1>1, <1>2 DEF Ours

\* The Session keeps its epoch, its generation and its cursor.
LEMMA SameOrder ==
    ASSUME Order, Drops, UNCHANGED <<pageVars, owner, work, writeQ, pty>>,
           session'.epoch = session.epoch, session'.gen = session.gen,
           session'.applied = session.applied
    PROVE  Order'
<1>1. Pane' = Pane /\ Done' = Done /\ UNCHANGED <<queue, author>>
  BY DEF Pane, Done, pageVars
<1>2. Ours'
  BY <1>1, DropsOurs DEF Order, Ours
<1>3. Alone' /\ Fresh'
  BY <1>1 DEF Order, Alone, Pending, Fresh
<1>4. Ahead'
  BY <1>1 DEF Order, Ahead, Current
<1> QED
  BY <1>2, <1>3, <1>4 DEF Order

\* No queue is current any more, and no command waits.
LEMMA ResetOrder ==
    ASSUME Order, Drops, UNCHANGED <<pageVars, owner, pty>>,
           work' = Idle \/ (work' = work /\ work.written),
           \A e \in Epochs : writeQ'[e] = <<>>,
           \A c \in Pages : ~Current(session', queue[c].epoch, queue[c].gen)
    PROVE  Order'
<1>1. UNCHANGED <<queue, author>>
  BY DEF pageVars
<1>2. Ours'
  BY <1>1, DropsOurs DEF Order, Ours
<1>3. Alone' /\ Fresh' /\ Ahead'
  BY <1>1 DEF Alone, Pending, Fresh, Ahead
<1> QED
  BY <1>2, <1>3 DEF Order

LEMMA NoneCurrent == ASSUME NEW e, NEW g PROVE ~Current(NoSession, e, g)
  BY DEF Current, NoSession

LEMMA NothingWaits ==
    ASSUME Order, work = Idle \/ work.written
    PROVE  \A e \in Epochs : writeQ[e] = <<>>
  BY DEF Order, Alone, Pending

LEMMA AttachOrder ==
    ASSUME Typing, Typing', Numbering, Order, NEW n \in Conns, Attach(n)
    PROVE  Order'
<1>1. /\ Serve(n, "attach") /\ work = Idle /\ session'.epoch \in Epochs
      /\ UNCHANGED <<pageVars, owner, open, work, writeQ, pty>>
  BY DEF Attach, Serve
<1>2. Drops
  BY <1>1, ServeDrops DEF Numbering
<1>3. CASE session = NoSession
  <2>1. session' = NewSession(n)
    BY <1>3 DEF Attach
  <2>2. session'.epoch = epochs + 1
    BY <2>1 DEF NewSession
  <2>3. ASSUME NEW c \in Pages PROVE ~Current(session', queue[c].epoch, queue[c].gen)
    <3>1. PageInv(c, queue[c], lease[c], phase[c], Inbox(c), session, epochs, Pane)
      BY DEF Numbering, Pages0
    <3>2. QueueBehind(queue[c], session, epochs)
      BY <3>1 DEF PageInv
    <3>3. queue[c].epoch \in Nat /\ epochs \in Nat
      BY Wires, QueueFields
    <3> QED
      BY <2>2, <3>2, <3>3 DEF QueueBehind, Current
  <2> QED
    BY <1>1, <1>2, <2>3, ResetOrder, NothingWaits
<1>4. CASE session # NoSession
  <2>1. session' = [session EXCEPT !.peers = {p \in session.peers : owner[p] # owner[n]} \cup {n}]
    BY <1>4 DEF Attach
  <2>2. session'.epoch = session.epoch /\ session'.gen = session.gen /\ session'.applied = session.applied
    BY <1>4, <2>1, Wires DEF Sessions
  <2> QED
    BY <1>1, <1>2, <2>2, SameOrder
<1> QED
  BY <1>3, <1>4

LEMMA AcquireControlOrder ==
    ASSUME Typing, Numbering, Order, NEW n \in Conns, AcquireControl(n)
    PROVE  Order'
<1>1. /\ Serve(n, "acquire") /\ work = Idle
      /\ UNCHANGED <<pageVars, owner, open, work, writeQ, pty>>
  BY DEF AcquireControl, Serve
<1>2. Drops
  BY <1>1, ServeDrops DEF Numbering
<1>3. CASE session' = session
  BY <1>1, <1>2, <1>3, SameOrder
<1>4. CASE session' # session
  <2>1. IsPeer(n) /\ session' = [session EXCEPT !.holder = owner[n], !.gen = session.gen + 1]
    BY <1>4 DEF AcquireControl
  <2>2. session \in Sessions /\ session # NoSession
    BY <2>1, Wires DEF IsPeer
  <2>3. session'.epoch = session.epoch /\ session'.gen = session.gen + 1 /\ session.gen \in Nat
    BY <2>1, <2>2, SessionFields DEF Sessions
  <2>4. ASSUME NEW c \in Pages PROVE ~Current(session', queue[c].epoch, queue[c].gen)
    <3>1. PageInv(c, queue[c], lease[c], phase[c], Inbox(c), session, epochs, Pane)
      BY DEF Numbering, Pages0
    <3>2. QueueBehind(queue[c], session, epochs)
      BY <3>1 DEF PageInv
    <3>3. queue[c].gen \in Nat
      BY Wires, QueueFields
    <3> QED
      BY <2>3, <3>2, <3>3 DEF QueueBehind, Current
  <2> QED
    BY <1>1, <1>2, <2>4, ResetOrder, NothingWaits
<1> QED
  BY <1>3, <1>4

LEMMA ServedOrder ==
    ASSUME Typing, Numbering, Order, NEW n \in Conns, RefuseInput(n) \/ RestateCursor(n)
    PROVE  Order'
<1>1. /\ Serve(n, "input") /\ UNCHANGED <<pageVars, owner, open, session, work, writeQ, pty>>
  BY DEF RefuseInput, RestateCursor, agentVars
<1>2. Drops
  BY <1>1, ServeDrops DEF Numbering
<1> QED
  BY <1>1, <1>2, SameOrder

\* The position after the cursor, if page c sent it for epoch e and
\* generation g of the Session, is what its current queue holds there.
LEMMA NextHeld ==
    ASSUME Typing, Numbering, session \in Sessions, NEW c \in Pages, NEW x,
           SentAt(queue[c], session.epoch, session.gen, session.applied + 1, x)
    PROVE  /\ Current(session, queue[c].epoch, queue[c].gen)
           /\ session.applied + 1 \in Nat /\ session.applied < session.applied + 1
           /\ Open(queue[c], session.applied + 1) /\ x = At(queue[c], session.applied + 1)
<1>1. PICK q : q = queue[c]
  OBVIOUS
<1>2. /\ session.epoch \in Nat \ {0} /\ session.gen \in Nat /\ session.applied \in Nat
      /\ q.epoch \in Nat /\ q.gen \in Nat /\ q.cursor \in Nat /\ End(q) \in Nat
      /\ session.epoch = epochs
  <2>1. q \in Queues(Len(author)) /\ Len(author) \in Nat
    BY <1>1, Wires
  <2>2. session.epoch = epochs
    BY SessionFields DEF Typing, AgentTypes
  <2> QED
    BY <2>1, <2>2, Positions, SessionFields
<1>3. QueueBehind(q, session, epochs)
  <2>1. PageInv(c, q, lease[c], phase[c], Inbox(c), session, epochs, Pane)
    BY <1>1 DEF Numbering, Pages0
  <2> QED
    BY <2>1 DEF PageInv
<1>4. q.epoch = session.epoch
  BY <1>1, <1>2, <1>3 DEF QueueBehind, SentAt
<1>5. q.gen = session.gen /\ q.cursor <= session.applied
  BY <1>1, <1>2, <1>3, <1>4 DEF QueueBehind, SentAt
<1>6. session.applied + 1 <= End(q) /\ q.cursor < session.applied + 1
  BY <1>1, <1>2, <1>4, <1>5 DEF SentAt
<1> QED
  BY <1>1, <1>2, <1>4, <1>5, <1>6 DEF Current, Open, SentAt

LEMMA OnlyOne == ASSUME NEW x PROVE Append(<<>>, x) = <<x>>
  OBVIOUS

LEMMA BeginWriteOrder ==
    ASSUME Typing, Numbering, Order, NEW n \in Conns, BeginWrite(n)
    PROVE  Order'
<1>1. PICK f : f = Head(up[n])
  OBVIOUS
<1>2. PICK e : e = session.epoch
  OBVIOUS
<1>3. /\ Serve(n, "input") /\ work = Idle /\ IsPeer(n) /\ n \in open
      /\ UNCHANGED <<pageVars, owner, open, session, pty>>
      /\ writeQ' = [writeQ EXCEPT ![e] = Append(writeQ[e], f.chunk)]
      /\ work' = [conn |-> n, chunk |-> f.chunk, through |-> f.seq, written |-> FALSE,
                  epoch |-> session.epoch, gen |-> session.gen, peers |-> session.peers]
      /\ f.epoch = session.epoch /\ f.gen = session.gen
  BY <1>1, <1>2 DEF BeginWrite, Serve, Authorized, Verdict
<1>4. session \in Sessions /\ e \in Epochs /\ owner[n] \in Pages /\ writeQ \in [Epochs -> Seq(1..Len(author))]
  BY <1>2, <1>3, Wires, ServeTyped, SessionFields DEF IsPeer, Typing, AgentTypes
<1>5. work'.conn = n /\ work'.chunk = f.chunk /\ work'.epoch = e /\ ~work'.written
  BY <1>2, <1>3
<1>6. f.seq = session.applied + 1
  <2>1. work'.through = session.applied + 1
    BY BeginWriteTyped
  <2> QED
    BY <1>3, <2>1
<1>7. f = up[n][1] /\ 1 \in 1..Len(up[n]) /\ f.kind = "input"
  <2>1. up[n] \in Seq(Frames(Len(author))) /\ up[n] # <<>>
    BY <1>3 DEF Typing, WireTypes, Serve
  <2> QED
    BY <1>1, <1>3, <2>1, EmptySeq DEF Serve
<1>8. author[f.chunk] = owner[n]
  BY <1>3, <1>7 DEF Order, Ours
<1>9. SentAt(queue[owner[n]], session.epoch, session.gen, session.applied + 1, f.chunk)
  BY <1>3, <1>6, <1>7 DEF Numbering, SentFrames
<1>10. UNCHANGED <<queue, author>> /\ Pane' = Pane
  BY <1>3 DEF pageVars, Pane
<1>11. Ours'
  <2>1. Drops
    BY <1>3, ServeDrops DEF Numbering
  <2> QED
    BY <1>3, <1>5, <1>8, <1>10, <2>1, DropsOurs DEF Order
<1>12. Alone'
  <2>1. \A d \in Epochs : writeQ[d] = <<>>
    BY <1>3, NothingWaits
  <2>2. writeQ'[e] = <<f.chunk>> /\ \A d \in Epochs : d # e => writeQ'[d] = <<>>
    <3>1. writeQ'[e] = Append(<<>>, f.chunk) /\ \A d \in Epochs : d # e => writeQ'[d] = writeQ[d]
      BY <1>3, <1>4, <2>1
    <3> QED
      BY <2>1, <3>1, OnlyOne
  <2>3. \A d \in Epochs : Pending(d)' => d = e
    BY <1>5 DEF Pending
  <2>4. work' # Idle
    BY BeginWriteTyped
  <2>5. Pending(e)'
    BY <1>5, <2>4 DEF Pending
  <2> QED
    BY <1>2, <1>3, <1>5, <2>2, <2>3, <2>5 DEF Alone
<1>13. Done' = session.applied /\ Done = session.applied
  BY <1>3, <1>5 DEF Done
<1>14. Ahead'
  BY <1>3, <1>10, <1>13 DEF Order, Ahead
<1>15. Fresh'
  <2>1. Newer(author, Pane, owner[n], f.chunk)
    <3>1. /\ Current(session, queue[owner[n]].epoch, queue[owner[n]].gen)
          /\ session.applied + 1 \in Nat /\ session.applied < session.applied + 1
          /\ Open(queue[owner[n]], session.applied + 1)
          /\ f.chunk = At(queue[owner[n]], session.applied + 1)
      BY <1>4, <1>9, NextHeld
    <3> QED
      BY <1>4, <1>13, <3>1 DEF Order, Ahead
  <2> QED
    BY <1>3, <1>5, <1>10, <2>1 DEF Fresh
<1> QED
  BY <1>11, <1>12, <1>14, <1>15 DEF Order

\* The command in progress is written, and nothing else was waiting.
Writes(e) ==
    /\ work # Idle /\ ~work.written /\ work.epoch = e /\ session.epoch = e
    /\ Head(writeQ[e]) = work.chunk /\ writeQ' = [writeQ EXCEPT ![e] = <<>>]
    /\ work' # Idle /\ Wrote(work, work')
    /\ Pane' = Pane \cup {work.chunk}
    /\ UNCHANGED <<queue, author, owner, open, up, session>>

LEMMA WriterStepDoes ==
    ASSUME Typing, Alone, NEW e \in Epochs, WriterStep(e)
    PROVE  Writes(e)
<1>1. /\ writeQ[e] # <<>> /\ writeQ' = [writeQ EXCEPT ![e] = Tail(writeQ[e])]
      /\ work' = IF work # Idle /\ work.epoch = e /\ ~work.written /\ Len(writeQ[e]) = 1
                 THEN [work EXCEPT !.written = TRUE] ELSE work
      /\ UNCHANGED <<queue, author, owner, open, up, session>>
  BY DEF WriterStep, pageVars, wireVars
<1>2. Pending(e)
  BY <1>1 DEF Alone
<1>3. writeQ[e] = <<work.chunk>> /\ session.epoch = e
  BY <1>2 DEF Alone
<1>4. Len(<<work.chunk>>) = 1 /\ Head(<<work.chunk>>) = work.chunk /\ Tail(<<work.chunk>>) = <<>>
  OBVIOUS
<1>5. work # Idle /\ ~work.written /\ work.epoch = e /\ work' = [work EXCEPT !.written = TRUE]
  BY <1>1, <1>2, <1>3, <1>4 DEF Pending
<1>6. IsWork(work, Len(author)) /\ IsWork(work', Len(author)) /\ Wrote(work, work')
  BY <1>5, Written DEF Typing, AgentTypes
<1>7. work' # Idle
  <2>1. 0 \notin Conns
    BY Bounds DEF Conns
  <2> QED
    BY <1>6, <2>1 DEF IsWork, Idle
<1>8. Pane' = Pane \cup {work.chunk}
  BY <1>3, <1>4, WriterWrites DEF Pane
<1> QED
  BY <1>1, <1>3, <1>4, <1>5, <1>6, <1>7, <1>8 DEF Writes

\* The chunk written was the position after the cursor, for the page that
\* typed it: what that page holds past it is younger.
LEMMA WriterStepOrder ==
    ASSUME Typing, Numbering, LeaseCoversWrite, Order, NEW e \in Epochs, WriterStep(e)
    PROVE  Order'
<1>1. Writes(e)
  BY WriterStepDoes DEF Order
<1>2. PICK x : x = work.chunk
  OBVIOUS
<1>3. PICK b : b = owner[work.conn]
  OBVIOUS
<1>4. /\ work # Idle /\ ~work.written /\ work.epoch = e /\ session.epoch = e
      /\ work' # Idle /\ work'.written /\ work'.chunk = x /\ work'.conn = work.conn
      /\ Pane' = Pane \cup {x} /\ writeQ' = [writeQ EXCEPT ![e] = <<>>]
      /\ UNCHANGED <<queue, author, owner, open, up, session>>
  BY <1>1, <1>2 DEF Writes, Wrote
<1>5. author[x] = b
  BY <1>2, <1>3, <1>4 DEF Order, Ours
<1>6. Ours'
  <2>1. Drops
    BY <1>4 DEF Drops
  <2> QED
    BY <1>2, <1>3, <1>4, <1>5, <2>1, DropsOurs DEF Order
<1>7. Alone'
  <2>1. \A d \in Epochs : d # e => writeQ[d] = <<>>
    BY <1>4 DEF Order, Alone, Pending
  <2>2. writeQ \in [Epochs -> Seq(1..Len(author))]
    BY DEF Typing, AgentTypes
  <2>3. \A d \in Epochs : writeQ'[d] = <<>>
    BY <1>4, <2>1, <2>2
  <2> QED
    BY <1>4, <2>3 DEF Alone, Pending
<1>8. Fresh'
  BY <1>4 DEF Fresh
<1>9. session \in Sessions /\ b \in Pages /\ session.applied + 1 = work.through /\ session.gen = work.gen
  <2>1. session # NoSession
    BY <1>4 DEF LeaseCoversWrite, IsPeer
  <2>2. work.conn \in open
    BY <1>4 DEF Typing, AgentTypes
  <2> QED
    BY <1>3, <1>4, <2>1, <2>2, Wires, Known DEF LeaseCoversWrite, Typing, WireTypes
<1>10. /\ session.applied + 1 \in Nat /\ session.applied < session.applied + 1
       /\ Open(queue[b], session.applied + 1) /\ x = At(queue[b], session.applied + 1)
  <2>1. SentAt(queue[b], session.epoch, session.gen, session.applied + 1, x)
    BY <1>2, <1>3, <1>4, <1>9 DEF Numbering, SentWork
  <2> QED
    BY <1>9, <2>1, NextHeld
<1>11. Done = session.applied /\ Done' = session.applied + 1
  BY <1>4 DEF Done
<1>12. Ahead'
  <2> SUFFICES ASSUME NEW c \in Pages, Current(session, queue[c].epoch, queue[c].gen),
                      NEW p \in Nat, Open(queue[c], p), session.applied + 1 < p
               PROVE  Newer(author, Pane \cup {x}, c, At(queue[c], p))
    BY <1>4, <1>11 DEF Ahead
  <2>1. Newer(author, Pane, c, At(queue[c], p))
    <3>1. session.applied < p
      BY <1>9, SessionFields
    <3> QED
      BY <1>11, <3>1 DEF Order, Ahead
  <2>2. author[x] = c => x < At(queue[c], p)
    BY <1>5, <1>10 DEF Order, Ours, Sorted
  <2> QED
    BY <2>1, <2>2 DEF Newer
<1> QED
  BY <1>6, <1>7, <1>8, <1>12 DEF Order

LEMMA WriteRefusedOrder ==
    ASSUME Typing, Order, WriteRefused
    PROVE  Order'
<1>1. PICK e : e = work.epoch
  OBVIOUS
<1>2. /\ work # Idle /\ ~work.written /\ work' = Idle
      /\ writeQ' = [writeQ EXCEPT ![e] = Front(writeQ[e])]
      /\ UNCHANGED <<queue, author, owner, open, up, session, pty>>
  BY <1>1 DEF WriteRefused, pageVars, wireVars
<1>3. e \in Epochs /\ writeQ \in [Epochs -> Seq(1..Len(author))]
  BY <1>1, <1>2 DEF Typing, AgentTypes, IsWork
<1>4. writeQ[e] = <<work.chunk>> /\ \A d \in Epochs : d # e => writeQ[d] = <<>>
  BY <1>1, <1>2, <1>3 DEF Order, Alone, Pending
<1>5. Front(<<work.chunk>>) = <<>>
  BY DEF Front
<1>6. \A d \in Epochs : writeQ'[d] = <<>>
  BY <1>2, <1>3, <1>4, <1>5
<1>7. Ours'
  <2>1. Drops
    BY <1>2 DEF Drops
  <2> QED
    BY <1>2, <2>1, DropsOurs DEF Order
<1>8. Done' = Done /\ Pane' = Pane
  BY <1>2 DEF Done, Pane
<1>9. Alone' /\ Fresh' /\ Ahead'
  BY <1>2, <1>6, <1>8 DEF Order, Alone, Pending, Fresh, Ahead
<1> QED
  BY <1>7, <1>9 DEF Order

\* The cursor follows what was written.
LEMMA FinishWriteOrder ==
    ASSUME Typing, Numbering, LeaseCoversWrite, Order, FinishWrite
    PROVE  Order'
<1>1. /\ work # Idle /\ work.written /\ work' = Idle
      /\ UNCHANGED <<pageVars, owner, open, up, writeQ, pty>>
  BY DEF FinishWrite
<1>2. Drops
  BY <1>1 DEF Drops
<1>3. \A d \in Epochs : writeQ'[d] = <<>>
  BY <1>1, NothingWaits
<1>4. CASE session.epoch # work.epoch
  <2>1. session = NoSession /\ session' = session
    BY <1>1, <1>4 DEF Numbering, Writing, FinishWrite
  <2> QED
    BY <1>1, <1>2, <1>3, <2>1, NoneCurrent, ResetOrder
<1>5. CASE session.epoch = work.epoch
  <2>1. session # NoSession /\ session.applied + 1 = work.through
    BY <1>1, <1>5 DEF LeaseCoversWrite, IsPeer
  <2>2. session \in Sessions /\ session.applied \in Nat
    BY <2>1, Wires, SessionFields
  <2>3. session.applied < work.through
    BY <2>1, <2>2
  <2>4. session' = [session EXCEPT !.applied = work.through]
    BY <1>5, <2>3 DEF FinishWrite
  <2>5. session'.applied = session.applied + 1 /\ session'.epoch = session.epoch /\ session'.gen = session.gen
    BY <2>1, <2>2, <2>4 DEF Sessions
  <2>6. Done' = Done /\ Pane' = Pane /\ UNCHANGED <<queue, author>>
    BY <1>1, <2>5 DEF Done, Pane, pageVars
  <2>7. Ours'
    BY <1>1, <1>2, <2>6, DropsOurs DEF Order
  <2>8. Alone' /\ Fresh'
    BY <1>1, <1>3 DEF Alone, Pending, Fresh
  <2>9. Ahead'
    BY <2>5, <2>6 DEF Order, Ahead, Current
  <2> QED
    BY <2>7, <2>8, <2>9 DEF Order
<1> QED
  BY <1>4, <1>5

LEMMA EndConnectionOrder ==
    ASSUME Typing, Order, "interrupt" \notin Events, NEW n \in Conns, EndConnection(n)
    PROVE  Order'
<1>1. /\ open' = open \ {n} /\ up' = [up EXCEPT ![n] = <<>>]
      /\ work' = work
      /\ UNCHANGED <<pageVars, owner, session, writeQ, pty>>
  BY DEF EndConnection
<1>2. Drops
  <2>1. \A m \in open' : m \in open /\ up'[m] = up[m]
    BY <1>1, Known DEF Typing, WireTypes
  <2> QED
    BY <2>1 DEF Drops
<1> QED
  BY <1>1, <1>2, SameOrder

\* The Session that is left takes its epoch with it.
LEMMA RetireConnectionOrder ==
    ASSUME Typing, Numbering, LeaseCoversWrite, Order, NEW n \in Conns, RetireConnection(n)
    PROVE  Order'
<1>1. /\ IsPeer(n) /\ n \notin open /\ session' = Retired(session, n)
      /\ UNCHANGED <<pageVars, owner, open, up, work, writeQ, pty>>
  BY DEF RetireConnection
<1>2. session \in Sessions /\ session # NoSession
  BY <1>1, Wires DEF IsPeer
<1>3. Drops
  BY <1>1 DEF Drops
<1>4. CASE session' # NoSession
  <2>1. /\ session'.epoch = session.epoch /\ session'.gen = session.gen
        /\ session'.applied = session.applied
    BY <1>1, <1>2, <1>4, RetiredIs
  <2> QED
    BY <1>1, <1>3, <2>1, SameOrder
<1>5. CASE session' = NoSession
  <2>1. work = Idle
    <3> SUFFICES ASSUME work # Idle PROVE FALSE
      OBVIOUS
    <3>1. session.epoch = work.epoch
      BY <1>2 DEF Numbering, Writing
    <3>2. work.conn \in session.peers /\ work.conn \in open
      BY <3>1 DEF LeaseCoversWrite, IsPeer, Typing, AgentTypes
    <3>3. session.peers \ {n} # {}
      BY <1>1, <3>2
    <3>4. session'.epoch = session.epoch
      BY <1>1, <1>2, <3>3 DEF Retired, Sessions
    <3> QED
      BY <1>2, <1>5, <3>4, SessionFields DEF NoSession
  <2>2. \A d \in Epochs : writeQ'[d] = <<>>
    BY <1>1, <2>1, NothingWaits
  <2> QED
    BY <1>1, <1>3, <1>5, <2>1, <2>2, NoneCurrent, ResetOrder
<1> QED
  BY <1>4, <1>5

LEMMA RetireStreamOrder ==
    ASSUME Typing, Numbering, Order, RetireStream
    PROVE  Order'
<1>1. /\ session # NoSession /\ session' = NoSession
      /\ writeQ' = [writeQ EXCEPT ![session.epoch] = <<>>]
      /\ work' = IF work # Idle /\ work.epoch = session.epoch /\ ~work.written THEN Idle ELSE work
      /\ UNCHANGED <<pageVars, owner, open, up, pty>>
  BY DEF RetireStream, wireVars
<1>2. work' = Idle \/ (work' = work /\ work.written)
  BY <1>1 DEF Numbering, Writing
<1>3. Drops
  BY <1>1 DEF Drops
<1>4. \A d \in Epochs : writeQ'[d] = <<>>
  <2>1. \A d \in Epochs : d # session.epoch => writeQ[d] = <<>>
    BY DEF Order, Alone
  <2>2. writeQ \in [Epochs -> Seq(1..Len(author))]
    BY DEF Typing, AgentTypes
  <2> QED
    BY <1>1, <2>1, <2>2
<1> QED
  BY <1>1, <1>2, <1>3, <1>4, NoneCurrent, ResetOrder

LEMMA RestartOrder ==
    ASSUME Order, Restart
    PROVE  Order'
<1>1. /\ open' = {} /\ session' = NoSession /\ work' = Idle
      /\ \A d \in Epochs : writeQ'[d] = <<>>
      /\ UNCHANGED <<pageVars, owner, pty>>
  BY DEF Restart
<1>2. Drops
  BY <1>1 DEF Drops
<1> QED
  BY <1>1, <1>2, NoneCurrent, ResetOrder
-----------------------------------------------------------------------------
(* The invariant always holds.                                             *)

LEMMA InitOrder ==
    ASSUME Init
    PROVE  Order
<1>1. /\ \A c \in Pages : queue[c] = EmptyQueue
      /\ open = {} /\ session = NoSession /\ work = Idle /\ \A e \in Epochs : writeQ[e] = <<>>
  BY DEF Init
<1>2. EmptyQueue.cursor = 0 /\ End(EmptyQueue) = 0
  BY DEF EmptyQueue, End
<1>3. \A p \in Nat : ~Open(EmptyQueue, p)
  BY <1>2 DEF Open
<1>4. Ours
  BY <1>1, <1>3 DEF Ours, Sorted
<1>5. Alone /\ Fresh
  BY <1>1 DEF Alone, Pending, Fresh
<1>6. Ahead
  BY <1>1, <1>3 DEF Ahead
<1> QED
  BY <1>4, <1>5, <1>6 DEF Order

LEMMA StutterOrder ==
    ASSUME Order, UNCHANGED vars
    PROVE  Order'
  BY SameOrder DEF Drops, vars, wireVars, agentVars

LEMMA PagesOrder ==
    ASSUME Typing, Typing', Numbering, Order, QueueSurvives, PageNext
    PROVE  Order'
<1>1. PICK c \in Pages : \/ Type(c) \/ GrowOld(c) \/ LoseTransport(c) \/ SwapTransport(c)
                         \/ Connect(c) \/ RequestControl(c) \/ Receive(c)
  BY DEF PageNext
<1>2. ~GrowOld(c) /\ ~SwapTransport(c)
  BY DEF QueueSurvives, GrowOld, SwapTransport
<1>3. CASE Type(c)
  BY <1>3, TypeDoes, TypeOrder
<1>4. CASE Receive(c)
  BY <1>4, ReceiveDoes, ReadOrder
<1>5. CASE LoseTransport(c) \/ Connect(c) \/ RequestControl(c)
  BY <1>5, WireOrder, ConnectOrder
<1> QED
  BY <1>1, <1>2, <1>3, <1>4, <1>5

LEMMA AgentOrder ==
    ASSUME Typing, Typing', Numbering, LeaseCoversWrite, Order, WritesComplete, AgentNext
    PROVE  Order'
<1>1. ASSUME NEW n \in Conns,
             \/ Attach(n) \/ AcquireControl(n) \/ RefuseInput(n)
             \/ RestateCursor(n) \/ BeginWrite(n)
             \/ EndConnection(n) \/ RetireConnection(n)
      PROVE  Order'
  <2>1. "interrupt" \notin Events
    BY DEF WritesComplete
  <2> QED
    BY <1>1, <2>1, AttachOrder, AcquireControlOrder, ServedOrder, BeginWriteOrder,
       EndConnectionOrder, RetireConnectionOrder
<1>2. ASSUME NEW e \in Epochs, WriterStep(e) PROVE Order'
  BY <1>2, WriterStepOrder
<1>3. ~WriteTimesOut
  BY DEF WriteTimesOut, WritesComplete
<1>4. CASE WriteRefused \/ FinishWrite \/ RetireStream \/ Restart
  BY <1>4, WriteRefusedOrder, FinishWriteOrder, RetireStreamOrder, RestartOrder
<1> QED
  BY <1>1, <1>2, <1>3, <1>4 DEF AgentNext

LEMMA WritesCompleteSurvives == ASSUME WritesComplete PROVE QueueSurvives
  BY DEF WritesComplete, QueueSurvives

LEMMA NextOrder ==
    ASSUME Typing, Typing', Numbering, LeaseCoversWrite, Order, WritesComplete, [Next]_vars
    PROVE  Order'
  BY PagesOrder, AgentOrder, StutterOrder, WritesCompleteSurvives DEF Next

\* What a page still holds for the Session is its own, in the order it was
\* typed, and younger than what it has in the pane; the writer never holds
\* more than the command of the mutation in progress.
THEOREM OrderAlways ==
    ASSUME WritesComplete
    PROVE  Spec => []Order
<1>1. Init => Order
  BY InitOrder
<1>2. Typing /\ Typing' /\ Numbering /\ LeaseCoversWrite /\ Order /\ [Next]_vars => Order'
  BY NextOrder
<1>3. Spec => []Numbering
  BY NumberingAlways, WritesCompleteSurvives
<1> QED
  BY <1>1, <1>2, <1>3, TypingAlways, LeaseCoversWriteAlways, PTL DEF Spec
-----------------------------------------------------------------------------
(* Every step is one of the log.                                           *)

\* What the writer writes is younger than what its page has in the pane.
LEMMA WriterDelivers ==
    ASSUME Typing, Order, NEW e \in Epochs, WriterStep(e)
    PROVE  Log!Deliver(Head(writeQ[e]))
<1>1. /\ work # Idle /\ ~work.written /\ Head(writeQ[e]) = work.chunk
  BY WriterStepDoes DEF Order, Writes
<1>2. author[work.chunk] = owner[work.conn]
  BY <1>1 DEF Order, Ours
<1>3. Newer(author, Pane, owner[work.conn], work.chunk)
  BY <1>1 DEF Order, Fresh
<1> QED
  BY <1>1, <1>2, <1>3, WriterWrites, LogPane DEF Newer, Log!Deliver

\* What a step of the program is to the log.
Delivered == \E k \in DOMAIN author : Log!Deliver(k)

LEMMA StepLogged ==
    ASSUME Typing, Typing', Numbering, Order, QueueSurvives, [Next]_vars
    PROVE  Logged \/ Delivered
<1>1. ASSUME NEW e \in Epochs, WriterStep(e) PROVE Delivered
  BY <1>1, WriterDelivers, WriterWrites DEF Delivered
<1>2. CASE Next /\ \A e \in Epochs : ~WriterStep(e)
  BY <1>2, PageLogged, AgentLogged DEF Next
<1>3. CASE UNCHANGED vars
  BY <1>3, QuietLogged DEF Logged, vars, pageVars, agentVars
<1> QED
  BY <1>1, <1>2, <1>3

\* Sequenced input is the log the user was promised, as long as every queue
\* survives and every command admitted is written or refused: through lost
\* connections, takeovers, closed streams and restarts of the agent.
THEOREM ImplementsInputLogAlways ==
    ASSUME WritesComplete
    PROVE  Spec => ImplementsInputLog
<1>1. ASSUME Init PROVE Log!Init
  <2>1. \A c \in Pages : queue[c] = EmptyQueue
    BY <1>1 DEF Init
  <2>2. EmptyQueue.chunks = <<>> /\ EmptyQueue.lost = {} /\ ToSet(<<>>) = {}
    BY DEF EmptyQueue, ToSet
  <2>3. Held = {} /\ Lost = {}
    BY <2>1, <2>2 DEF Held, Lost
  <2> QED
    BY <1>1, <2>3 DEF Init, Log!Init
<1>2. Typing /\ Typing' /\ Numbering /\ Order /\ [Next]_vars => [Log!Next]_Log!vars
  BY StepLogged, WritesCompleteSurvives DEF Logged, Delivered, Log!Next
<1>3. Spec => []Numbering
  BY NumberingAlways, WritesCompleteSurvives
<1> QED
  BY <1>1, <1>2, <1>3, TypingAlways, OrderAlways, PTL DEF Spec, ImplementsInputLog, Log!Spec
-----------------------------------------------------------------------------
(* What the log gives its user.                                            *)

\* The chunks of a page are younger the later they are in the pane.
Rising ==
    \A i, j \in 1..Len(pty) : i < j /\ author[pty[i]] = author[pty[j]] => pty[i] < pty[j]

LEMMA LoggedRising ==
    ASSUME Typing, Rising, Logged
    PROVE  Rising'
<1>1. pty' = pty /\ Recorded
  <2>1. CASE Log!Settle
    BY <2>1 DEF Log!Settle, Recorded
  <2>2. ASSUME NEW c \in Pages, Log!Type(c) PROVE pty' = pty /\ Recorded
    BY <2>2, Known, AppendProperties DEF Log!Type, Recorded, Typing, PageTypes
  <2> QED
    BY <2>1, <2>2 DEF Logged
<1>2. \A i \in 1..Len(pty) : author'[pty[i]] = author[pty[i]]
  BY <1>1, ElementOfSeq DEF Recorded, Typing, AgentTypes
<1> QED
  BY <1>1, <1>2 DEF Rising

LEMMA DeliveredRising ==
    ASSUME Typing, Rising, NEW k \in DOMAIN author, Log!Deliver(k)
    PROVE  Rising'
<1>1. /\ author' = author /\ pty' = Append(pty, k) /\ k \in 1..Len(author)
      /\ \A j \in Pane : author[j] = author[k] => j < k
  BY LogPane, Known DEF Log!Deliver, Typing, PageTypes
<1>2. /\ Len(pty) \in Nat /\ Len(pty') = Len(pty) + 1 /\ pty'[Len(pty) + 1] = k
      /\ \A i \in 1..Len(pty) : pty'[i] = pty[i]
  BY <1>1, AppendProperties DEF Typing, AgentTypes
<1>3. \A i \in 1..Len(pty) : pty[i] \in Pane
  BY LenProperties DEF Pane, ToSet, Typing, AgentTypes
<1>4. ASSUME NEW i \in 1..Len(pty'), NEW j \in 1..Len(pty'), i < j, author[pty'[i]] = author[pty'[j]]
      PROVE  pty'[i] < pty'[j]
  <2>1. i \in 1..Len(pty) /\ pty'[i] = pty[i]
    BY <1>2, <1>4
  <2>2. CASE j \in 1..Len(pty)
    BY <1>2, <1>4, <2>1, <2>2 DEF Rising
  <2>3. CASE j = Len(pty) + 1
    BY <1>1, <1>2, <1>3, <1>4, <2>1, <2>3
  <2> QED
    BY <1>2, <2>2, <2>3
<1> QED
  BY <1>1, <1>4 DEF Rising

LEMMA RisingAlways ==
    ASSUME WritesComplete
    PROVE  Spec => []Rising
<1>1. Init => Rising
  BY DEF Init, Rising
<1>2. ASSUME Typing, Typing', Numbering, Order, Rising, [Next]_vars PROVE Rising'
  BY <1>2, StepLogged, WritesCompleteSurvives, LoggedRising, DeliveredRising DEF Delivered
<1>3. Spec => []Numbering
  BY NumberingAlways, WritesCompleteSurvives
<1> QED
  BY <1>1, <1>2, <1>3, TypingAlways, OrderAlways, PTL DEF Spec

\* A chunk the user typed reaches the pane at most once: whatever is sent
\* again after a reconnect is answered with the cursor.
THEOREM AtMostOnceAlways ==
    ASSUME WritesComplete
    PROVE  Spec => []AtMostOnce
<1>1. ASSUME Typing, Rising PROVE AtMostOnce
  <2> SUFFICES ASSUME NEW i \in DOMAIN pty, NEW j \in DOMAIN pty, pty[i] = pty[j]
               PROVE  i = j
    BY DEF AtMostOnce, IsInjective
  <2>1. DOMAIN pty = 1..Len(pty) /\ Len(pty) \in Nat /\ pty[i] \in Nat
    BY <1>1, LenProperties, ElementOfSeq DEF Typing, AgentTypes
  <2>2. ~(i < j) /\ ~(j < i)
    BY <1>1, <2>1 DEF Rising
  <2> QED
    BY <2>1, <2>2
<1> QED
  BY <1>1, TypingAlways, RisingAlways, PTL

\* The chunks of a page reach the pane in the order the user typed them.
THEOREM AppliedInTypingOrderAlways ==
    ASSUME WritesComplete
    PROVE  Spec => []AppliedInTypingOrder
<1>1. ASSUME Typing, Rising PROVE AppliedInTypingOrder
  <2> SUFFICES ASSUME NEW i \in DOMAIN pty, NEW j \in DOMAIN pty,
                      i < j, author[pty[i]] = author[pty[j]]
               PROVE  pty[i] <= pty[j]
    BY DEF AppliedInTypingOrder
  <2>1. i \in 1..Len(pty) /\ j \in 1..Len(pty) /\ pty[i] \in Nat /\ pty[j] \in Nat
    BY <1>1, LenProperties, ElementOfSeq DEF Typing, AgentTypes
  <2>2. pty[i] < pty[j]
    BY <1>1, <2>1 DEF Rising
  <2> QED
    BY <2>1, <2>2
<1> QED
  BY <1>1, TypingAlways, RisingAlways, PTL
=============================================================================
