------------------------- MODULE TerminalInputProofs -------------------------
(***************************************************************************)
(* What holds of TerminalInput for every number of pages, every bound and  *)
(* every set of events: its types, and what a write relies on.             *)
(***************************************************************************)
EXTENDS TerminalInput, SequenceTheorems, TLAPS

Roles == {"controller", "observer"}
Phases == {"down", "attaching", "attached"}

Leases == [role : Roles, gen : Nat]

\* A queue, a frame and a mutation that know of the first k chunks.
Queues(k) ==
    [chunks : Seq(1..k), epoch : Nat, gen : Nat, cursor : Nat, lost : SUBSET (1..k)]

Signs     == [kind : {"attach", "acquire"}]
Inputs(k) == [kind : {"input"}, epoch : Nat, seq : Nat, gen : Nat, chunk : 1..k]
Frames(k) == Signs \cup Inputs(k)

Attacheds == [kind : {"attached"}, epoch : Nat, through : Nat, gen : Nat, role : Roles]
Controls0 == [kind : {"control"}, holder : Pages \cup {NoPage}, gen : Nat]
Acks      == [kind : {"ack"}, epoch : Nat, through : Nat, gen : Nat]
Messages  == Attacheds \cup Controls0 \cup Acks

Sessions ==
    [epoch : Epochs, applied : Nat, gen : Nat, holder : Pages \cup {NoPage},
     peers : SUBSET Conns]

IsWork(w, k) ==
    /\ w = [conn |-> w.conn, chunk |-> w.chunk, through |-> w.through,
            written |-> w.written, epoch |-> w.epoch, gen |-> w.gen, peers |-> w.peers]
    /\ w.conn \in Conns /\ w.chunk \in 1..k /\ w.through \in Nat
    /\ w.written \in BOOLEAN /\ w.epoch \in Epochs /\ w.gen \in Nat

PageTypes ==
    /\ author \in Seq(Pages) /\ Len(author) <= MaxTyped
    /\ queue \in [Pages -> Queues(Len(author))]
    /\ lease \in [Pages -> Leases]
    /\ phase \in [Pages -> Phases]
    /\ aged \subseteq Chunks

\* A page uses a connection it opened.
WireTypes ==
    /\ owner \in Seq(Pages) /\ Len(owner) <= MaxConns
    /\ open \subseteq DOMAIN owner
    /\ conn \in [Pages -> Conns \cup {0}]
    /\ \A c \in Pages : conn[c] # 0 => conn[c] \in DOMAIN owner /\ owner[conn[c]] = c
    /\ up \in [Conns -> Seq(Frames(Len(author)))]
    /\ down \in [Conns -> Seq(Messages)]

\* The Session attached is the one minted last.
AgentTypes ==
    /\ epochs \in 0..MaxEpochs
    /\ \/ session = NoSession
       \/ /\ session \in Sessions
          /\ session.epoch = epochs /\ session.peers \subseteq DOMAIN owner
    /\ work = Idle \/ (IsWork(work, Len(author)) /\ work.conn \in open)
    /\ writeQ \in [Epochs -> Seq(1..Len(author))]
    /\ pty \in Seq(1..Len(author))

Typing == PageTypes /\ WireTypes /\ AgentTypes
-----------------------------------------------------------------------------
(* What is known of k chunks is known of more.                             *)

LEMMA Bounds ==
    /\ NoPage \notin Pages
    /\ MaxTyped \in Nat \ {0} /\ MaxQueue \in Nat \ {0} /\ MaxConns \in Nat \ {0}
    /\ MaxEpochs \in Nat \ {0} /\ MaxGen \in Nat \ {0}
  BY InputAssumption

LEMMA Widen ==
    ASSUME NEW k \in Nat, NEW m \in Nat, k <= m
    PROVE  /\ 1..k \subseteq 1..m
           /\ Seq(1..k) \subseteq Seq(1..m)
           /\ Queues(k) \subseteq Queues(m)
           /\ Frames(k) \subseteq Frames(m)
           /\ Seq(Frames(k)) \subseteq Seq(Frames(m))
           /\ \A w : IsWork(w, k) => IsWork(w, m)
<1>1. 1..k \subseteq 1..m
  OBVIOUS
<1>2. Seq(1..k) \subseteq Seq(1..m)
  BY <1>1, SeqMonotonic
<1>3. SUBSET (1..k) \subseteq SUBSET (1..m)
  BY <1>1
<1>4. Queues(k) \subseteq Queues(m)
  <2> DEFINE A == Seq(1..k)
             B == Seq(1..m)
             C == SUBSET (1..k)
             D == SUBSET (1..m)
  <2>1. A \subseteq B /\ C \subseteq D
    BY <1>2, <1>3
  <2> HIDE DEF A, B, C, D
  <2>2. [chunks : A, epoch : Nat, gen : Nat, cursor : Nat, lost : C]
        \subseteq [chunks : B, epoch : Nat, gen : Nat, cursor : Nat, lost : D]
    BY <2>1
  <2> QED
    BY <2>2 DEF Queues, A, B, C, D
<1>5. Frames(k) \subseteq Frames(m)
  BY <1>1 DEF Frames, Inputs
<1>6. Seq(Frames(k)) \subseteq Seq(Frames(m))
  BY <1>5, SeqMonotonic
<1>7. ASSUME NEW w, IsWork(w, k) PROVE IsWork(w, m)
  BY <1>1, <1>7 DEF IsWork
<1> QED
  BY <1>1, <1>2, <1>4, <1>5, <1>6, <1>7
-----------------------------------------------------------------------------
(* The page's queue.                                                       *)

\* The chunks of a queue are a sequence of numbers below k.
LEMMA QueueFields ==
    ASSUME NEW k \in Nat, NEW q \in Queues(k)
    PROVE  /\ q.chunks \in Seq(1..k) /\ Len(q.chunks) \in Nat
           /\ q.epoch \in Nat /\ q.gen \in Nat /\ q.cursor \in Nat
           /\ q.lost \subseteq 1..k
           /\ ToSet(q.chunks) \subseteq 1..k
<1>1. q.chunks \in Seq(1..k) /\ q.epoch \in Nat /\ q.gen \in Nat /\ q.cursor \in Nat
      /\ q.lost \in SUBSET (1..k)
  BY DEF Queues
<1>2. Len(q.chunks) \in Nat /\ ToSet(q.chunks) \subseteq 1..k
  BY <1>1, ElementOfSeq, LenProperties DEF ToSet
<1> QED
  BY <1>1, <1>2

\* r is q with these chunks, this cursor and this account of what was lost.
Edited(k, q, r, s, u, d) ==
    /\ r \in Queues(k)
    /\ r.chunks = s /\ r.epoch = q.epoch /\ r.gen = q.gen
    /\ r.cursor = u /\ r.lost = d

LEMMA QueueEdits ==
    ASSUME NEW k \in Nat, NEW q \in Queues(k),
           NEW s \in Seq(1..k), NEW d \in SUBSET (1..k), NEW u \in Nat
    PROVE  /\ Edited(k, q, [q EXCEPT !.chunks = s, !.lost = d], s, q.cursor, d)
           /\ Edited(k, q, [q EXCEPT !.chunks = s, !.cursor = u], s, u, q.lost)
           /\ Edited(k, q, [q EXCEPT !.chunks = s], s, q.cursor, q.lost)
           /\ Edited(k, q, [q EXCEPT !.cursor = u], q.chunks, u, q.lost)
           /\ Edited(k, q, [q EXCEPT !.lost = d], q.chunks, q.cursor, d)
<1> DEFINE S == Seq(1..k)
           D == SUBSET (1..k)
<1>1. q \in [chunks : S, epoch : Nat, gen : Nat, cursor : Nat, lost : D] /\ s \in S /\ d \in D
  BY DEF Queues
<1>2. Queues(k) = [chunks : S, epoch : Nat, gen : Nat, cursor : Nat, lost : D]
  BY DEF Queues
<1> HIDE DEF S, D
<1>3. Edited(k, q, [q EXCEPT !.chunks = s, !.lost = d], s, q.cursor, d)
  BY <1>1, <1>2 DEF Edited
<1>4. Edited(k, q, [q EXCEPT !.chunks = s, !.cursor = u], s, u, q.lost)
  BY <1>1, <1>2 DEF Edited
<1>5. Edited(k, q, [q EXCEPT !.chunks = s], s, q.cursor, q.lost)
  BY <1>1, <1>2 DEF Edited
<1>6. Edited(k, q, [q EXCEPT !.cursor = u], q.chunks, u, q.lost)
  BY <1>1, <1>2 DEF Edited
<1>7. Edited(k, q, [q EXCEPT !.lost = d], q.chunks, q.cursor, d)
  BY <1>1, <1>2 DEF Edited
<1> QED
  BY <1>3, <1>4, <1>5, <1>6, <1>7

\* r is q in this epoch, under this generation.
Moved(k, q, r, e, g) ==
    /\ r \in Queues(k)
    /\ r.chunks = q.chunks /\ r.epoch = e /\ r.gen = g
    /\ r.cursor = q.cursor /\ r.lost = q.lost

LEMMA QueueMoves ==
    ASSUME NEW k \in Nat, NEW q \in Queues(k), NEW e \in Nat, NEW g \in Nat
    PROVE  Moved(k, q, [q EXCEPT !.epoch = e, !.gen = g], e, g)
<1> DEFINE S == Seq(1..k)
           D == SUBSET (1..k)
<1>1. q \in [chunks : S, epoch : Nat, gen : Nat, cursor : Nat, lost : D]
  BY DEF Queues
<1>2. Queues(k) = [chunks : S, epoch : Nat, gen : Nat, cursor : Nat, lost : D]
  BY DEF Queues
<1> HIDE DEF S, D
<1> QED
  BY <1>1, <1>2 DEF Moved

LEMMA ClearDoes ==
    ASSUME NEW k \in Nat, NEW q \in Queues(k)
    PROVE  /\ Clear(q) \in Queues(k)
           /\ Clear(q).chunks = <<>>
           /\ Clear(q).epoch = q.epoch /\ Clear(q).gen = q.gen
           /\ Clear(q).cursor = q.cursor
           /\ Clear(q).lost = q.lost \cup ToSet(q.chunks)
<1> DEFINE d == q.lost \cup ToSet(q.chunks)
<1>1. d \in SUBSET (1..k) /\ <<>> \in Seq(1..k)
  BY QueueFields, EmptySeq
<1>2. Clear(q) = [q EXCEPT !.chunks = <<>>, !.lost = d]
  BY DEF Clear, Queues
<1> HIDE DEF d
<1>3. PICK s \in Seq(1..k), e \in SUBSET (1..k) : s = <<>> /\ e = d
  BY <1>1
<1>4. 0 \in Nat
  OBVIOUS
<1>5. Edited(k, q, [q EXCEPT !.chunks = s, !.lost = e], s, q.cursor, e)
  BY <1>4, QueueEdits, Zenon
<1>6. Edited(k, q, Clear(q), s, q.cursor, e)
  BY <1>2, <1>3, <1>5, Zenon
<1> QED
  BY <1>3, <1>6 DEF Edited, d

\* A suffix of a queue's chunks.
LEMMA Suffix ==
    ASSUME NEW S, NEW s \in Seq(S), NEW d \in Nat, d <= Len(s)
    PROVE  /\ SubSeq(s, d + 1, Len(s)) \in Seq(S)
           /\ Len(SubSeq(s, d + 1, Len(s))) = Len(s) - d
           /\ \A i \in 1..Len(s) - d : SubSeq(s, d + 1, Len(s))[i] = s[i + d]
<1>1. Len(s) \in Nat /\ d + 1 \in Int /\ Len(s) \in Int
  BY LenProperties
<1>2. \A i \in d + 1..Len(s) : s[i] \in S
  BY <1>1, ElementOfSeq
<1>3. /\ SubSeq(s, d + 1, Len(s)) \in Seq(S)
      /\ Len(SubSeq(s, d + 1, Len(s))) = IF d + 1 <= Len(s) THEN Len(s) - (d + 1) + 1 ELSE 0
      /\ \A i \in 1..Len(s) - (d + 1) + 1 : SubSeq(s, d + 1, Len(s))[i] = s[d + 1 + i - 1]
  BY <1>1, <1>2, SubSeqProperties
<1>4. Len(s) - (d + 1) + 1 = Len(s) - d
  BY <1>1
<1>5. (IF d + 1 <= Len(s) THEN Len(s) - (d + 1) + 1 ELSE 0) = Len(s) - d
  BY <1>1
<1>6. ASSUME NEW i \in 1..Len(s) - d PROVE SubSeq(s, d + 1, Len(s))[i] = s[i + d]
  <2>1. SubSeq(s, d + 1, Len(s))[i] = s[d + 1 + i - 1]
    BY <1>3, <1>4
  <2>2. d + 1 + i - 1 = i + d
    BY <1>1
  <2> QED
    BY <2>1, <2>2
<1> QED
  BY <1>3, <1>5, <1>6

\* r is q without what the agent acknowledged: it leaves from the front and
\* the cursor follows.
Acknowledged(k, q, r, e, t) ==
    LET n == Len(q.chunks)
        d == t - q.cursor
    IN  /\ r \in Queues(k)
        /\ r.epoch = q.epoch /\ r.gen = q.gen /\ r.lost = q.lost
        /\ (q.epoch \notin {0, e} \/ t <= q.cursor) => r = q
        /\ (q.epoch \in {0, e} /\ t > q.cursor) =>
               /\ r.cursor = t
               /\ d < n => /\ Len(r.chunks) = n - d
                           /\ \A i \in 1..n - d : r.chunks[i] = q.chunks[i + d]
               /\ d >= n => r.chunks = <<>>

LEMMA AcknowledgeDoes ==
    ASSUME NEW k \in Nat, NEW q \in Queues(k), NEW e \in Nat, NEW t \in Nat
    PROVE  Acknowledged(k, q, Acknowledge(q, e, t), e, t)
<1> DEFINE r == Acknowledge(q, e, t)
           n == Len(q.chunks)
           d == t - q.cursor
<1>1. CASE q.epoch \notin {0, e} \/ t <= q.cursor
  <2>1. r = q
    BY <1>1 DEF Acknowledge
  <2>2. q.cursor \in Nat
    BY QueueFields
  <2> QED
    BY <1>1, <2>1, <2>2 DEF Acknowledged
<1>2. CASE q.epoch \in {0, e} /\ t > q.cursor
  <2>1. q.chunks \in Seq(1..k) /\ n \in Nat /\ q.cursor \in Nat
    BY QueueFields
  <2>2. ~(q.epoch \notin {0, e} \/ t <= q.cursor) /\ d \in Nat
    BY <1>2, <2>1
  <2>3. PICK w \in Nat : w = IF d < n THEN d ELSE n
    BY <2>1, <2>2
  <2>4. w <= n
    BY <2>1, <2>2, <2>3
  <2>5. PICK s \in Seq(1..k) : s = SubSeq(q.chunks, w + 1, n)
    BY <2>1, <2>4, Suffix
  <2>6. Len(s) = n - w /\ \A i \in 1..n - w : s[i] = q.chunks[i + w]
    BY <2>1, <2>4, <2>5, Suffix
  <2>7. r = [q EXCEPT !.chunks = s, !.cursor = t]
    BY <2>2, <2>3, <2>5 DEF Acknowledge, Queues
  <2>8. Edited(k, q, [q EXCEPT !.chunks = s, !.cursor = t], s, t, q.lost)
    <3>1. {} \in SUBSET (1..k)
      OBVIOUS
    <3> QED
      BY <3>1, QueueEdits, Zenon
  <2>9. d >= n => s = <<>>
    BY <2>1, <2>2, <2>3, <2>6, EmptySeq
  <2>10. d < n => Len(s) = n - d /\ \A i \in 1..n - d : s[i] = q.chunks[i + d]
    BY <2>3, <2>6
  <2> HIDE DEF r, n, d
  <2>11. /\ r \in Queues(k) /\ r.epoch = q.epoch /\ r.gen = q.gen /\ r.lost = q.lost
         /\ r.cursor = t /\ r.chunks = s
    BY <2>7, <2>8, Zenon DEF Edited
  <2> QED
    BY <1>2, <2>2, <2>9, <2>10, <2>11 DEF r, n, d, Acknowledged
<1>3. q.cursor \in Nat
  BY QueueFields
<1> QED
  BY <1>1, <1>2, <1>3

\* r is q bound to this epoch and generation: another epoch or another
\* generation clears it, only another epoch starts its numbers again.
Rebound(k, q, r, e, g) ==
    /\ r \in Queues(k) /\ r.epoch = e /\ r.gen = g
    /\ q.epoch = e => r.cursor = q.cursor
    /\ q.epoch \notin {0, e} => r.cursor = 0
    /\ (q.epoch = 0 /\ e # 0) \/ (q.epoch = e /\ q.gen = g) =>
           r.chunks = q.chunks /\ r.cursor = q.cursor /\ r.lost = q.lost
    /\ q.epoch \notin {0, e} \/ (q.epoch = e /\ q.gen # g) =>
           r.chunks = <<>> /\ r.lost = q.lost \cup ToSet(q.chunks)

LEMMA RebindDoes ==
    ASSUME NEW k \in Nat, NEW q \in Queues(k), NEW e \in Nat, NEW g \in Nat
    PROVE  Rebound(k, q, Rebind(q, e, g), e, g)
<1> DEFINE f == CASE q.epoch \notin {0, e} -> [Clear(q) EXCEPT !.cursor = 0]
                  [] q.epoch = e /\ q.gen # g -> Clear(q)
                  [] OTHER -> q
           c == Clear(q)
           z == [Clear(q) EXCEPT !.cursor = 0]
<1>1. /\ c \in Queues(k) /\ c.chunks = <<>>
      /\ c.cursor = q.cursor /\ c.lost = q.lost \cup ToSet(q.chunks)
  BY ClearDoes
<1>0. 0 \in Nat /\ {} \in SUBSET (1..k) /\ <<>> \in Seq(1..k)
  BY EmptySeq
<1>2. Edited(k, c, z, c.chunks, 0, c.lost)
  <2>1. PICK s \in Seq(1..k), d \in SUBSET (1..k), u \in Nat : s = <<>> /\ d = {} /\ u = 0
    BY <1>0
  <2> DEFINE y == [Clear(q) EXCEPT !.cursor = u]
  <2>2. Edited(k, c, y, c.chunks, u, c.lost)
    BY <1>1, QueueEdits, Zenon
  <2>3. y = z
    BY <2>1
  <2> HIDE DEF y, z, c
  <2> QED
    BY <2>1, <2>2, <2>3
<1>3. Rebind(q, e, g) = [f EXCEPT !.epoch = e, !.gen = g]
  BY DEF Rebind
<1>4. /\ f = z \/ f = c \/ f = q
      /\ q.epoch \notin {0, e} => f = z
      /\ q.epoch = e /\ q.gen # g => f = c
      /\ (q.epoch = 0 /\ e # 0) \/ (q.epoch = e /\ q.gen = g) => f = q
      /\ q.epoch = e => f = c \/ f = q
  OBVIOUS
<1> HIDE DEF f, c, z
<1>5. f \in Queues(k)
  BY <1>1, <1>2, <1>4 DEF Edited
<1>6. Moved(k, f, [f EXCEPT !.epoch = e, !.gen = g], e, g)
  BY <1>5, QueueMoves, Zenon
<1>7. Moved(k, f, Rebind(q, e, g), e, g)
  BY <1>3, <1>6, Zenon
<1> QED
  BY <1>1, <1>2, <1>4, <1>7 DEF Edited, Moved, Rebound

LEMMA ExpireDoes ==
    ASSUME NEW k \in Nat, NEW q \in Queues(k)
    PROVE  Expire(q) \in Queues(k)
  BY ClearDoes DEF Expire

LEMMA NoteDoes ==
    ASSUME NEW k \in Nat, NEW q \in Queues(k), NEW g \in Nat
    PROVE  /\ NoteGeneration(q, g) \in Queues(k)
           /\ q.epoch = 0 \/ q.gen = g => NoteGeneration(q, g) = q
           /\ q.epoch # 0 /\ q.gen # g =>
                  Rebound(k, q, NoteGeneration(q, g), q.epoch, g)
<1>1. q.epoch \in Nat
  BY QueueFields
<1>2. Rebound(k, q, Rebind(q, q.epoch, g), q.epoch, g)
  BY <1>1, RebindDoes
<1> QED
  BY <1>2 DEF NoteGeneration, Rebound

LEMMA ReconcileTyped ==
    ASSUME NEW k \in Nat, NEW q \in Queues(k), NEW e \in Nat, NEW g \in Nat, NEW t \in Nat
    PROVE  Reconcile(q, e, g, t) \in Queues(k)
<1>1. Rebind(q, e, g) \in Queues(k)
  BY RebindDoes DEF Rebound
<1>2. Acknowledge(Rebind(q, e, g), e, t) \in Queues(k)
  BY <1>1, AcknowledgeDoes DEF Acknowledged
<1> QED
  BY <1>2 DEF Reconcile

\* A flush states every chunk of the queue at its position.
LEMMA OutboundDoes ==
    ASSUME NEW k \in Nat, NEW q \in Queues(k), NEW g \in Nat
    PROVE  /\ Outbound(q, g) \in Seq(Frames(k))
           /\ Len(Outbound(q, g)) = Len(q.chunks)
           /\ \A i \in 1..Len(q.chunks) :
                  Outbound(q, g)[i] = [kind |-> "input", epoch |-> q.epoch,
                                       seq |-> q.cursor + i, gen |-> g, chunk |-> q.chunks[i]]
<1> DEFINE n == Len(q.chunks)
           F(i) == [kind |-> "input", epoch |-> q.epoch,
                    seq |-> q.cursor + i, gen |-> g, chunk |-> q.chunks[i]]
           o == [i \in 1..n |-> F(i)]
<1>1. /\ n \in Nat /\ q.epoch \in Nat /\ q.cursor \in Nat
      /\ q.chunks \in Seq(1..k)
  BY QueueFields
<1>2. ASSUME NEW i \in 1..n PROVE F(i) \in Frames(k)
  <2>1. q.chunks[i] \in 1..k /\ q.cursor + i \in Nat
    BY <1>1, ElementOfSeq
  <2> QED
    BY <1>1, <2>1 DEF Frames, Inputs
<1> HIDE DEF F
<1>3. o \in [1..n -> Frames(k)]
  BY <1>2
<1>4. o \in Seq(Frames(k)) /\ Len(o) = n
  BY <1>1, <1>3
<1>5. \A i \in 1..n : o[i] = F(i)
  OBVIOUS
<1>6. Outbound(q, g) = o
  BY DEF Outbound, F
<1> HIDE DEF n, o
<1> QED
  BY <1>4, <1>5, <1>6 DEF n, F

\* The first frames of a connection.
LEMMA Prefix ==
    ASSUME NEW S, NEW s \in Seq(S), NEW d \in 0..Len(s)
    PROVE  /\ SubSeq(s, 1, d) \in Seq(S)
           /\ Len(SubSeq(s, 1, d)) = d
           /\ \A i \in 1..d : SubSeq(s, 1, d)[i] = s[i]
<1>1. Len(s) \in Nat /\ 1 \in Int /\ d \in Int /\ \A i \in 1..d : s[i] \in S
  BY LenProperties, ElementOfSeq
<1>2. /\ SubSeq(s, 1, d) \in Seq(S)
      /\ Len(SubSeq(s, 1, d)) = IF 1 <= d THEN d - 1 + 1 ELSE 0
      /\ \A i \in 1..d - 1 + 1 : SubSeq(s, 1, d)[i] = s[1 + i - 1]
  BY <1>1, SubSeqProperties
<1>3. d - 1 + 1 = d /\ (IF 1 <= d THEN d - 1 + 1 ELSE 0) = d
  BY <1>1
<1>4. ASSUME NEW i \in 1..d PROVE SubSeq(s, 1, d)[i] = s[i]
  <2>1. 1 + i - 1 = i
    OBVIOUS
  <2> QED
    BY <1>2, <1>3, <2>1
<1> QED
  BY <1>2, <1>3, <1>4
-----------------------------------------------------------------------------
(* Frames, messages and the Session.                                       *)

LEMMA FrameFields ==
    ASSUME NEW k \in Nat
    PROVE  /\ \A x \in {"attach", "acquire"} : [kind |-> x] \in Frames(k)
           /\ \A f \in Frames(k) : f.kind = "input" =>
                  /\ f.epoch \in Nat /\ f.seq \in Nat /\ f.gen \in Nat /\ f.chunk \in 1..k
  BY DEF Frames, Signs, Inputs

LEMMA MessageFields ==
    \A m \in Messages :
        /\ m.kind \in {"attached", "control", "ack"} /\ m.gen \in Nat
        /\ m.kind # "control" => m.epoch \in Nat /\ m.through \in Nat
        /\ m.kind = "attached" => m.role \in Roles
        /\ m.kind = "control" => m.holder \in Pages \cup {NoPage}
  BY DEF Messages, Attacheds, Controls0, Acks

LEMMA MakeMessage ==
    ASSUME NEW e \in Nat, NEW t \in Nat, NEW g \in Nat
    PROVE  /\ Ack(e, t, g) \in Messages
           /\ \A r \in Roles : [kind |-> "attached", epoch |-> e, through |-> t,
                                gen |-> g, role |-> r] \in Messages
           /\ \A h \in Pages \cup {NoPage} :
                  [kind |-> "control", holder |-> h, gen |-> g] \in Messages
  BY DEF Messages, Attacheds, Controls0, Acks, Ack

LEMMA NotifyTyped ==
    ASSUME NEW P, NEW m \in Messages, down \in [Conns -> Seq(Messages)]
    PROVE  Notify(P, m) \in [Conns -> Seq(Messages)]
  BY AppendProperties DEF Notify

LEMMA SessionFields ==
    \A s \in Sessions :
        /\ s.epoch \in Nat \ {0} /\ s.epoch \in Epochs
        /\ s.applied \in Nat /\ s.gen \in Nat
        /\ s.holder \in Pages \cup {NoPage} /\ s.peers \subseteq Conns
        /\ s # NoSession
  BY DEF Sessions, Epochs, NoSession

LEMMA WorkFields ==
    ASSUME NEW k, NEW w, IsWork(w, k)
    PROVE  w.conn # 0 /\ w # Idle
  BY DEF IsWork, Idle, Conns
-----------------------------------------------------------------------------
(* Every step keeps the types.                                             *)

LEMMA Known ==
    ASSUME Typing
    PROVE  /\ Len(author) \in Nat /\ Len(owner) \in Nat
           /\ DOMAIN author = 1..Len(author) /\ DOMAIN owner = 1..Len(owner)
           /\ DOMAIN owner \subseteq Conns /\ open \subseteq Conns
           /\ 1..Len(author) \subseteq Chunks
           /\ \A n \in DOMAIN owner : owner[n] \in Pages
           /\ \A c \in Pages : conn[c] \in open => conn[c] \in Conns
<1>1. author \in Seq(Pages) /\ Len(author) <= MaxTyped
      /\ owner \in Seq(Pages) /\ Len(owner) <= MaxConns /\ open \subseteq DOMAIN owner
  BY DEF Typing, PageTypes, WireTypes
<1>2. /\ Len(author) \in Nat /\ Len(owner) \in Nat
      /\ DOMAIN author = 1..Len(author) /\ DOMAIN owner = 1..Len(owner)
      /\ \A n \in DOMAIN owner : owner[n] \in Pages
  BY <1>1, LenProperties, ElementOfSeq
<1>3. 1..Len(owner) \subseteq Conns /\ 1..Len(author) \subseteq Chunks
  BY <1>1, <1>2, Bounds DEF Conns, Chunks
<1> QED
  BY <1>1, <1>2, <1>3

LEMMA FlushTyped ==
    ASSUME NEW k \in Nat, NEW c \in Pages, NEW q \in Queues(k), NEW l \in Leases,
           up \in [Conns -> Seq(Frames(k))], open \subseteq Conns, Flush(c, q, l)
    PROVE  up' \in [Conns -> Seq(Frames(k))]
<1>1. CASE l.role = "observer" \/ conn[c] \notin open
  BY <1>1 DEF Flush
<1>2. CASE ~(l.role = "observer" \/ conn[c] \notin open)
  <2> DEFINE o == Outbound(q, l.gen)
  <2>1. conn[c] \in Conns /\ l.gen \in Nat
    BY <1>2 DEF Leases
  <2>2. o \in Seq(Frames(k)) /\ up[conn[c]] \in Seq(Frames(k))
    BY <2>1, OutboundDoes
  <2>3. up' = [up EXCEPT ![conn[c]] = up[conn[c]] \o o]
    BY <1>2 DEF Flush
  <2> HIDE DEF o
  <2>4. up[conn[c]] \o o \in Seq(Frames(k))
    BY <2>2, ConcatProperties
  <2> QED
    BY <2>1, <2>3, <2>4
<1> QED
  BY <1>1, <1>2

LEMMA TypeTyped ==
    ASSUME Typing, NEW c \in Pages, Type(c)
    PROVE  Typing'
<1> DEFINE k == Len(author)
           id == k + 1
           q == Expire(queue[c])
<1>1. /\ k \in Nat /\ author \in Seq(Pages)
      /\ author' = Append(author, c) /\ id \in Chunks
      /\ queue[c] \in Queues(k) /\ lease[c] \in Leases
      /\ queue \in [Pages -> Queues(k)] /\ up \in [Conns -> Seq(Frames(k))]
  BY Known DEF Typing, PageTypes, WireTypes, Type
<1>2. /\ Len(author') = id /\ author' \in Seq(Pages) /\ id <= MaxTyped /\ id \in Nat /\ k <= id
      /\ id \in 1..id
  BY <1>1, AppendProperties DEF Chunks
<1> HIDE DEF k, id
<1>3. /\ 1..k \subseteq 1..id /\ Seq(1..k) \subseteq Seq(1..id)
      /\ Queues(k) \subseteq Queues(id) /\ Seq(Frames(k)) \subseteq Seq(Frames(id))
      /\ \A w : IsWork(w, k) => IsWork(w, id)
  BY <1>1, <1>2, Widen
<1>4. q \in Queues(id)
  BY <1>1, <1>3, ExpireDoes
<1> HIDE DEF q
<1>5. /\ q.chunks \in Seq(1..id) /\ q.lost \in SUBSET (1..id) /\ q.cursor \in Nat
  BY <1>2, <1>4, QueueFields
<1>6. Append(q.chunks, id) \in Seq(1..id) /\ q.lost \cup {id} \in SUBSET (1..id)
  BY <1>2, <1>5, AppendProperties
<1>7. /\ [q EXCEPT !.lost = q.lost \cup {id}] \in Queues(id)
      /\ [q EXCEPT !.chunks = Append(q.chunks, id)] \in Queues(id)
  <2>1. Edited(id, q, [q EXCEPT !.lost = q.lost \cup {id}], q.chunks, q.cursor, q.lost \cup {id})
    BY <1>2, <1>4, <1>5, <1>6, QueueEdits, Zenon
  <2>2. Edited(id, q, [q EXCEPT !.chunks = Append(q.chunks, id)],
               Append(q.chunks, id), q.cursor, q.lost)
    BY <1>2, <1>4, <1>5, <1>6, QueueEdits, Zenon
  <2> QED
    BY <2>1, <2>2 DEF Edited
<1>8. PICK r \in Queues(id) :
        /\ queue' = [queue EXCEPT ![c] = r]
        /\ \/ UNCHANGED up
           \/ Flush(c, r, lease[c])
  <2>1. \/ /\ queue' = [queue EXCEPT ![c] = [q EXCEPT !.lost = q.lost \cup {id}]]
           /\ UNCHANGED up
        \/ /\ queue' = [queue EXCEPT ![c] = [q EXCEPT !.chunks = Append(q.chunks, id)]]
           /\ IF phase[c] = "attached" THEN Flush(c, queue'[c], lease[c]) ELSE UNCHANGED up
    BY DEF Type, q, id, k
  <2>2. CASE queue' = [queue EXCEPT ![c] = [q EXCEPT !.lost = q.lost \cup {id}]] /\ UNCHANGED up
    BY <1>7, <2>2
  <2>3. CASE /\ queue' = [queue EXCEPT ![c] = [q EXCEPT !.chunks = Append(q.chunks, id)]]
             /\ IF phase[c] = "attached" THEN Flush(c, queue'[c], lease[c]) ELSE UNCHANGED up
    <3> DEFINE r == [q EXCEPT !.chunks = Append(q.chunks, id)]
    <3>1. r \in Queues(id) /\ queue' = [queue EXCEPT ![c] = r]
      BY <1>7, <2>3
    <3> HIDE DEF r
    <3>2. queue'[c] = r
      BY <1>1, <3>1
    <3>3. UNCHANGED up \/ Flush(c, queue'[c], lease[c])
      BY <2>3
    <3> QED
      BY <3>1, <3>2, <3>3
  <2> QED
    BY <2>1, <2>2, <2>3
<1>9. queue' \in [Pages -> Queues(id)] /\ up \in [Conns -> Seq(Frames(id))]
  BY <1>1, <1>3, <1>8
<1>10. up' \in [Conns -> Seq(Frames(id))]
  BY <1>1, <1>2, <1>8, <1>9, FlushTyped, Known
<1>11. UNCHANGED <<lease, phase, conn, aged, owner, open, down, agentVars>>
  BY DEF Type
<1>12. PageTypes'
  BY <1>2, <1>9, <1>11 DEF Typing, PageTypes
<1>13. WireTypes'
  BY <1>2, <1>10, <1>11 DEF Typing, WireTypes
<1>14. AgentTypes'
  <2>1. /\ writeQ \in [Epochs -> Seq(1..k)] /\ pty \in Seq(1..k)
        /\ work = Idle \/ (IsWork(work, k) /\ work.conn \in open)
    BY DEF Typing, AgentTypes, k
  <2>2. /\ writeQ' \in [Epochs -> Seq(1..id)] /\ pty' \in Seq(1..id)
        /\ work' = Idle \/ (IsWork(work', id) /\ work'.conn \in open')
    BY <1>3, <1>11, <2>1 DEF agentVars
  <2> QED
    BY <1>2, <1>11, <2>2 DEF Typing, AgentTypes, agentVars
<1> QED
  BY <1>12, <1>13, <1>14 DEF Typing

LEMMA GrowOldTyped ==
    ASSUME Typing, NEW c \in Pages, GrowOld(c)
    PROVE  Typing'
<1>1. PICK i \in 1..Len(queue[c].chunks) :
        aged' = aged \cup ToSet(SubSeq(queue[c].chunks, 1, i))
  BY DEF GrowOld
<1>2. /\ Len(author) \in Nat /\ queue[c] \in Queues(Len(author))
      /\ 1..Len(author) \subseteq Chunks /\ aged \subseteq Chunks
  BY Known DEF Typing, PageTypes
<1>3. queue[c].chunks \in Seq(1..Len(author)) /\ i \in 0..Len(queue[c].chunks)
  BY <1>2, QueueFields
<1>4. SubSeq(queue[c].chunks, 1, i) \in Seq(1..Len(author))
  BY <1>3, Prefix
<1>5. ToSet(SubSeq(queue[c].chunks, 1, i)) \subseteq 1..Len(author)
  BY <1>4, ElementOfSeq, LenProperties DEF ToSet
<1>6. aged' \subseteq Chunks
  BY <1>1, <1>2, <1>5
<1>7. UNCHANGED <<queue, lease, phase, conn, author, wireVars, agentVars>>
  BY DEF GrowOld
<1>8. PageTypes'
  BY <1>6, <1>7 DEF Typing, PageTypes
<1>9. WireTypes'
  BY <1>7 DEF Typing, WireTypes, wireVars
<1>10. AgentTypes'
  BY <1>7 DEF Typing, AgentTypes, wireVars, agentVars
<1> QED
  BY <1>8, <1>9, <1>10 DEF Typing

LEMMA LoseTransportTyped ==
    ASSUME Typing, NEW c \in Pages, LoseTransport(c)
    PROVE  Typing'
<1>1. PICK n : n = conn[c]
  OBVIOUS
<1>2. /\ n \in Conns
      /\ phase' = [phase EXCEPT ![c] = "down"] /\ conn' = [conn EXCEPT ![c] = 0]
      /\ down' = [down EXCEPT ![n] = <<>>]
      /\ UNCHANGED <<queue, lease, aged, author, owner, open, agentVars>>
  BY <1>1 DEF Typing, WireTypes, LoseTransport
<1>3. PICK d \in 0..Len(up[n]) : up' = [up EXCEPT ![n] = SubSeq(up[n], 1, d)]
  BY <1>1 DEF LoseTransport
<1>4. up[n] \in Seq(Frames(Len(author)))
  BY <1>2 DEF Typing, WireTypes
<1>5. SubSeq(up[n], 1, d) \in Seq(Frames(Len(author)))
  BY <1>4, Prefix
<1>6. up' \in [Conns -> Seq(Frames(Len(author')))]
  BY <1>2, <1>3, <1>5 DEF Typing, WireTypes
<1>7. down' \in [Conns -> Seq(Messages)]
  <2>1. <<>> \in Seq(Messages)
    BY EmptySeq
  <2> QED
    BY <1>2, <2>1 DEF Typing, WireTypes
<1>8. /\ conn' \in [Pages -> Conns \cup {0}]
      /\ \A d1 \in Pages : conn'[d1] # 0 => conn'[d1] \in DOMAIN owner /\ owner[conn'[d1]] = d1
  BY <1>2 DEF Typing, WireTypes
<1>9. PageTypes'
  BY <1>2 DEF Typing, PageTypes, Phases
<1>10. WireTypes'
  BY <1>2, <1>6, <1>7, <1>8 DEF Typing, WireTypes
<1>11. AgentTypes'
  BY <1>2 DEF Typing, AgentTypes, agentVars
<1> QED
  BY <1>9, <1>10, <1>11 DEF Typing

LEMMA ConnectTyped ==
    ASSUME Typing, NEW c \in Pages, Connect(c)
    PROVE  Typing'
<1> DEFINE n == Len(owner) + 1
<1>1. /\ n \in Conns /\ conn[c] = 0
      /\ owner' = Append(owner, c) /\ open' = open \cup {n}
      /\ conn' = [conn EXCEPT ![c] = n]
      /\ phase' = [phase EXCEPT ![c] = "attaching"]
      /\ up' = [up EXCEPT ![n] = <<[kind |-> "attach"]>>]
      /\ UNCHANGED <<queue, lease, aged, author, down, agentVars>>
  BY DEF Connect
<1>2. /\ owner \in Seq(Pages) /\ Len(owner) \in Nat /\ DOMAIN owner = 1..Len(owner)
      /\ Len(author) \in Nat
  BY Known DEF Typing, WireTypes
<1>3. /\ owner' \in Seq(Pages) /\ Len(owner') = n /\ owner'[n] = c
      /\ \A i \in 1..Len(owner) : owner'[i] = owner[i]
  BY <1>1, <1>2, AppendProperties
<1>4. /\ DOMAIN owner' = 1..n /\ n \in DOMAIN owner'
      /\ DOMAIN owner \subseteq DOMAIN owner' /\ Len(owner') <= MaxConns
      /\ \A i \in DOMAIN owner : owner'[i] = owner[i]
  <2>1. DOMAIN owner' = 1..n
    BY <1>3, LenProperties
  <2> QED
    BY <1>1, <1>2, <1>3, <2>1 DEF Conns
<1> HIDE DEF n
<1>5. up' \in [Conns -> Seq(Frames(Len(author')))]
  <2>1. <<[kind |-> "attach"]>> \in Seq(Frames(Len(author)))
    <3>1. [kind |-> "attach"] \in Frames(Len(author))
      BY <1>2, FrameFields
    <3> QED
      BY <3>1
  <2> QED
    BY <1>1, <2>1 DEF Typing, WireTypes
<1>6. /\ conn' \in [Pages -> Conns \cup {0}] /\ open' \subseteq DOMAIN owner'
      /\ \A d \in Pages : conn'[d] # 0 => conn'[d] \in DOMAIN owner' /\ owner'[conn'[d]] = d
  BY <1>1, <1>3, <1>4 DEF Typing, WireTypes
<1>7. PageTypes'
  BY <1>1 DEF Typing, PageTypes, Phases
<1>8. WireTypes'
  BY <1>1, <1>3, <1>4, <1>5, <1>6 DEF Typing, WireTypes
<1>9. AgentTypes'
  BY <1>1, <1>4 DEF Typing, AgentTypes, agentVars
<1> QED
  BY <1>7, <1>8, <1>9 DEF Typing

LEMMA SwapTransportTyped ==
    ASSUME Typing, NEW c \in Pages, SwapTransport(c)
    PROVE  Typing'
<1>1. PICK n : n = conn[c]
  OBVIOUS
<1>2. /\ n \in Conns
      /\ queue' = [queue EXCEPT ![c] = [EmptyQueue EXCEPT !.lost = queue[c].lost]]
      /\ lease' = [lease EXCEPT ![c] = UnknownLease]
      /\ phase' = [phase EXCEPT ![c] = "down"] /\ conn' = [conn EXCEPT ![c] = 0]
      /\ down' = [down EXCEPT ![n] = <<>>]
      /\ UNCHANGED <<aged, author, owner, open, up, agentVars>>
  BY <1>1 DEF Typing, WireTypes, SwapTransport
<1>3. Len(author) \in Nat /\ queue[c] \in Queues(Len(author))
  BY Known DEF Typing, PageTypes
<1>4. [EmptyQueue EXCEPT !.lost = queue[c].lost] \in Queues(Len(author))
  <2>1. queue[c].lost \in SUBSET (1..Len(author)) /\ <<>> \in Seq(1..Len(author))
    BY <1>3, QueueFields, EmptySeq
  <2>2. [EmptyQueue EXCEPT !.lost = queue[c].lost] =
            [chunks |-> <<>>, epoch |-> 0, gen |-> 0, cursor |-> 0, lost |-> queue[c].lost]
    BY DEF EmptyQueue
  <2>3. PICK s \in Seq(1..Len(author)) : s = <<>>
    BY <2>1
  <2> DEFINE S == Seq(1..Len(author))
             L == SUBSET (1..Len(author))
  <2>4. s \in S /\ queue[c].lost \in L
    BY <2>1
  <2> HIDE DEF S, L
  <2>5. [chunks |-> s, epoch |-> 0, gen |-> 0, cursor |-> 0, lost |-> queue[c].lost]
        \in [chunks : S, epoch : Nat, gen : Nat, cursor : Nat, lost : L]
    BY <2>4
  <2> QED
    BY <2>2, <2>3, <2>5 DEF Queues, S, L
<1>5. down' \in [Conns -> Seq(Messages)]
  <2>1. <<>> \in Seq(Messages)
    BY EmptySeq
  <2> QED
    BY <1>2, <2>1 DEF Typing, WireTypes
<1>6. /\ conn' \in [Pages -> Conns \cup {0}]
      /\ \A d1 \in Pages : conn'[d1] # 0 => conn'[d1] \in DOMAIN owner /\ owner[conn'[d1]] = d1
  BY <1>2 DEF Typing, WireTypes
<1>7. queue' \in [Pages -> Queues(Len(author'))] /\ lease' \in [Pages -> Leases]
  <2>1. UnknownLease \in Leases
    BY DEF UnknownLease, Leases, Roles
  <2> QED
    BY <1>2, <1>4, <2>1 DEF Typing, PageTypes
<1>8. PageTypes'
  BY <1>2, <1>7 DEF Typing, PageTypes, Phases
<1>9. WireTypes'
  BY <1>2, <1>5, <1>6 DEF Typing, WireTypes
<1>10. AgentTypes'
  BY <1>2 DEF Typing, AgentTypes, agentVars
<1> QED
  BY <1>8, <1>9, <1>10 DEF Typing

LEMMA RequestControlTyped ==
    ASSUME Typing, NEW c \in Pages, RequestControl(c)
    PROVE  Typing'
<1>1. PICK n : n = conn[c]
  OBVIOUS
<1>2. /\ n \in Conns
      /\ up' = [up EXCEPT ![n] = Append(up[n], [kind |-> "acquire"])]
      /\ UNCHANGED <<pageVars, owner, open, down, agentVars>>
  BY <1>1, Known DEF RequestControl
<1>3. Append(up[n], [kind |-> "acquire"]) \in Seq(Frames(Len(author)))
  <2>1. up[n] \in Seq(Frames(Len(author))) /\ [kind |-> "acquire"] \in Frames(Len(author))
    BY <1>2, Known, FrameFields DEF Typing, WireTypes
  <2> QED
    BY <2>1, AppendProperties
<1>4. PageTypes'
  BY <1>2 DEF Typing, PageTypes, pageVars
<1>5. WireTypes'
  BY <1>2, <1>3 DEF Typing, WireTypes, pageVars
<1>6. AgentTypes'
  BY <1>2 DEF Typing, AgentTypes, pageVars, agentVars
<1> QED
  BY <1>4, <1>5, <1>6 DEF Typing

\* What a page does with a message: a queue and a lease of their types, and
\* a flush or nothing.
LEMMA ReceiveTyped ==
    ASSUME Typing, NEW c \in Pages, Receive(c)
    PROVE  Typing'
<1> DEFINE k == Len(author)
<1>1. PICK n : n = conn[c]
  OBVIOUS
<1>2. n \in Conns /\ down[n] # <<>>
  BY <1>1 DEF Typing, WireTypes, Receive
<1>3. PICK m : m = Head(down[n])
  OBVIOUS
<1>4. /\ ReceiveAttached(c, m) \/ ReceiveControl(c, m) \/ ReceiveAck(c, m)
      /\ down' = [down EXCEPT ![n] = Tail(down[n])]
      /\ UNCHANGED <<conn, aged, author, owner, open, agentVars>>
  BY <1>1, <1>3 DEF Receive
<1>5. down[n] \in Seq(Messages)
  BY <1>2 DEF Typing, WireTypes
<1>6. m \in Messages /\ Tail(down[n]) \in Seq(Messages)
  BY <1>2, <1>3, <1>5, HeadTailProperties
<1>7. /\ k \in Nat /\ queue[c] \in Queues(k) /\ lease[c] \in Leases
      /\ queue \in [Pages -> Queues(k)] /\ lease \in [Pages -> Leases]
      /\ phase \in [Pages -> Phases] /\ up \in [Conns -> Seq(Frames(k))]
      /\ open \subseteq Conns
  BY Known DEF Typing, PageTypes, WireTypes
<1> HIDE DEF k
<1>8. /\ queue' \in [Pages -> Queues(k)] /\ lease' \in [Pages -> Leases]
      /\ phase' \in [Pages -> Phases] /\ up' \in [Conns -> Seq(Frames(k))]
  <2>0. m.gen \in Nat
    BY <1>6, MessageFields
  <2>1. CASE ReceiveAttached(c, m)
    <3> DEFINE l == [role |-> m.role, gen |-> m.gen]
               q == Reconcile(NoteGeneration(queue[c], m.gen), m.epoch, m.gen, m.through)
    <3>1. /\ m.kind = "attached" /\ lease' = [lease EXCEPT ![c] = l]
          /\ queue' = [queue EXCEPT ![c] = q] /\ phase' = [phase EXCEPT ![c] = "attached"]
          /\ Flush(c, q, l)
      BY <2>1 DEF ReceiveAttached
    <3>2. m.epoch \in Nat /\ m.through \in Nat /\ m.role \in Roles
      BY <1>6, <3>1, MessageFields
    <3>3. l \in Leases
      BY <2>0, <3>2 DEF Leases
    <3>4. q \in Queues(k)
      <4>1. NoteGeneration(queue[c], m.gen) \in Queues(k)
        BY <1>7, <2>0, NoteDoes
      <4> QED
        BY <1>7, <2>0, <3>2, <4>1, ReconcileTyped
    <3> HIDE DEF l, q
    <3>5. up' \in [Conns -> Seq(Frames(k))]
      BY <1>7, <3>1, <3>3, <3>4, FlushTyped
    <3> QED
      BY <1>7, <3>1, <3>3, <3>4, <3>5 DEF Phases
  <2>2. CASE ReceiveControl(c, m)
    <3> DEFINE l == [role |-> IF m.holder = c THEN "controller" ELSE "observer", gen |-> m.gen]
               q == NoteGeneration(queue[c], m.gen)
    <3>1. /\ lease' = [lease EXCEPT ![c] = l] /\ queue' = [queue EXCEPT ![c] = q]
          /\ UNCHANGED <<phase, up>>
      BY <2>2 DEF ReceiveControl
    <3>2. l \in Leases
      BY <2>0 DEF Leases, Roles
    <3>3. q \in Queues(k)
      BY <1>7, <2>0, NoteDoes
    <3> HIDE DEF l, q
    <3> QED
      BY <1>7, <3>1, <3>2, <3>3
  <2>3. CASE ReceiveAck(c, m)
    <3> DEFINE q == NoteGeneration(Acknowledge(queue[c], m.epoch, m.through), m.gen)
    <3>1. /\ m.kind = "ack" /\ queue' = [queue EXCEPT ![c] = q]
          /\ UNCHANGED <<lease, phase, up>>
      BY <2>3 DEF ReceiveAck
    <3>2. m.epoch \in Nat /\ m.through \in Nat
      BY <1>6, <3>1, MessageFields
    <3>3. Acknowledge(queue[c], m.epoch, m.through) \in Queues(k)
      BY <1>7, <3>2, AcknowledgeDoes DEF Acknowledged
    <3>4. q \in Queues(k)
      BY <1>7, <2>0, <3>3, NoteDoes
    <3> HIDE DEF q
    <3> QED
      BY <1>7, <3>1, <3>4
  <2> QED
    BY <1>4, <2>1, <2>2, <2>3
<1>9. down' \in [Conns -> Seq(Messages)]
  BY <1>2, <1>4, <1>6 DEF Typing, WireTypes
<1>10. PageTypes'
  BY <1>4, <1>8 DEF Typing, PageTypes, k
<1>11. WireTypes'
  BY <1>4, <1>8, <1>9 DEF Typing, WireTypes, k
<1>12. AgentTypes'
  BY <1>4 DEF Typing, AgentTypes, agentVars
<1> QED
  BY <1>10, <1>11, <1>12 DEF Typing
-----------------------------------------------------------------------------
(* The agent's steps.                                                      *)

\* Serving a frame takes it from its connection while no mutation runs.
LEMMA ServeTyped ==
    ASSUME Typing, NEW n \in Conns, NEW x, Serve(n, x)
    PROVE  /\ n \in DOMAIN owner /\ owner[n] \in Pages /\ work = Idle
           /\ up' \in [Conns -> Seq(Frames(Len(author)))]
           /\ Head(up[n]) \in Frames(Len(author)) /\ Head(up[n]).kind = x
<1>1. /\ n \in open /\ work = Idle /\ up[n] # <<>> /\ Head(up[n]).kind = x
      /\ up' = [up EXCEPT ![n] = Tail(up[n])]
  BY DEF Serve
<1>2. up[n] \in Seq(Frames(Len(author)))
  BY DEF Typing, WireTypes
<1>3. Tail(up[n]) \in Seq(Frames(Len(author))) /\ Head(up[n]) \in Frames(Len(author))
  BY <1>1, <1>2, HeadTailProperties
<1>4. up' \in [Conns -> Seq(Frames(Len(author)))]
  BY <1>1, <1>3 DEF Typing, WireTypes
<1>5. n \in DOMAIN owner /\ owner[n] \in Pages
  BY <1>1, Known DEF Typing, WireTypes
<1> QED
  BY <1>1, <1>3, <1>4, <1>5

LEMMA AttachTyped ==
    ASSUME Typing, NEW n \in Conns, Attach(n)
    PROVE  Typing'
<1> DEFINE c == owner[n]
           s == IF session = NoSession THEN NewSession(n)
                ELSE [session EXCEPT !.peers = {p \in @ : owner[p] # c} \cup {n}]
           m == [kind |-> "attached", epoch |-> s.epoch, through |-> s.applied,
                 gen |-> s.gen, role |-> RoleOf(s, c)]
<1>1. /\ Serve(n, "attach") /\ s.epoch \in Epochs /\ session' = s
      /\ epochs' = IF session = NoSession THEN epochs + 1 ELSE epochs
      /\ down' = Notify({n}, m)
      /\ UNCHANGED <<pageVars, owner, open, work, writeQ, pty>>
  BY DEF Attach
<1>2. n \in DOMAIN owner /\ c \in Pages /\ up' \in [Conns -> Seq(Frames(Len(author)))]
  BY <1>1, ServeTyped
<1>3. /\ s \in Sessions /\ s.epoch = epochs' /\ s.peers \subseteq DOMAIN owner
      /\ epochs' \in 0..MaxEpochs
  <2>1. epochs \in 0..MaxEpochs /\ MaxEpochs \in Nat
    BY Bounds DEF Typing, AgentTypes
  <2>2. CASE session = NoSession
    <3>1. s = [epoch |-> epochs + 1, applied |-> 0, gen |-> 1, holder |-> c, peers |-> {n}]
      BY <2>2 DEF NewSession
    <3> HIDE DEF s
    <3>2. epochs + 1 \in Epochs
      BY <1>1, <3>1
    <3> QED
      BY <1>1, <1>2, <2>1, <2>2, <3>1, <3>2 DEF Sessions, Epochs
  <2>3. CASE session # NoSession
    <3> DEFINE P == {p \in session.peers : owner[p] # c} \cup {n}
    <3>1. session \in Sessions /\ session.epoch = epochs /\ session.peers \subseteq DOMAIN owner
      BY <2>3 DEF Typing, AgentTypes
    <3>2. P \in SUBSET Conns /\ P \subseteq DOMAIN owner
      BY <1>2, <3>1, SessionFields
    <3>3. s = [session EXCEPT !.peers = P]
      BY <2>3
    <3> HIDE DEF P, s
    <3>4. s \in Sessions /\ s.epoch = epochs /\ s.peers = P
      BY <3>1, <3>2, <3>3 DEF Sessions
    <3> QED
      BY <1>1, <2>1, <2>3, <3>2, <3>4
  <2> QED
    BY <2>2, <2>3
<1> HIDE DEF s
<1>4. m \in Messages
  BY <1>3, SessionFields, MakeMessage DEF RoleOf, Roles
<1> HIDE DEF m
<1>5. down' \in [Conns -> Seq(Messages)]
  BY <1>1, <1>4, NotifyTyped DEF Typing, WireTypes
<1>6. PageTypes'
  BY <1>1 DEF Typing, PageTypes, pageVars
<1>7. WireTypes'
  BY <1>1, <1>2, <1>5 DEF Typing, WireTypes, pageVars
<1>8. AgentTypes'
  BY <1>1, <1>3 DEF Typing, AgentTypes, pageVars
<1> QED
  BY <1>6, <1>7, <1>8 DEF Typing

\* A notice of the lease as it is.
LEMMA ControlTyped ==
    ASSUME NEW s \in Sessions
    PROVE  ControlChanged(s) \in Messages
  BY SessionFields, MakeMessage DEF ControlChanged

LEMMA AcquireControlTyped ==
    ASSUME Typing, NEW n \in Conns, AcquireControl(n)
    PROVE  Typing'
<1>1. /\ Serve(n, "acquire") /\ UNCHANGED <<pageVars, owner, open, epochs, work, writeQ, pty>>
  BY DEF AcquireControl
<1>2. owner[n] \in Pages /\ up' \in [Conns -> Seq(Frames(Len(author)))]
  BY <1>1, ServeTyped
<1>3. /\ down' \in [Conns -> Seq(Messages)]
      /\ \/ session' = NoSession
         \/ session' \in Sessions /\ session'.epoch = epochs /\ session'.peers \subseteq DOMAIN owner
  <2>1. CASE UNCHANGED <<session, down>>
    BY <2>1 DEF Typing, WireTypes, AgentTypes
  <2>2. CASE /\ IsPeer(n)
             /\ session' = IF session.holder = owner[n] THEN session
                           ELSE [session EXCEPT !.holder = owner[n], !.gen = @ + 1]
             /\ down' = Notify(session.peers, ControlChanged(session'))
    <3>1. session \in Sessions /\ session.epoch = epochs /\ session.peers \subseteq DOMAIN owner
      BY <2>2 DEF Typing, AgentTypes, IsPeer
    <3>2. session.gen + 1 \in Nat
      BY <3>1, SessionFields
    <3>3. session' \in Sessions /\ session'.epoch = epochs /\ session'.peers = session.peers
      <4>1. CASE session.holder = owner[n]
        BY <2>2, <3>1, <4>1
      <4>2. CASE session.holder # owner[n]
        <5>1. session' = [session EXCEPT !.holder = owner[n], !.gen = session.gen + 1]
          BY <2>2, <4>2
        <5> QED
          BY <1>2, <3>1, <3>2, <5>1 DEF Sessions
      <4> QED
        BY <4>1, <4>2
    <3>4. down' \in [Conns -> Seq(Messages)]
      BY <2>2, <3>3, ControlTyped, NotifyTyped DEF Typing, WireTypes
    <3> QED
      BY <3>1, <3>3, <3>4
  <2> QED
    BY <2>1, <2>2 DEF AcquireControl
<1>4. PageTypes'
  BY <1>1 DEF Typing, PageTypes, pageVars
<1>5. WireTypes'
  BY <1>1, <1>2, <1>3 DEF Typing, WireTypes, pageVars
<1>6. AgentTypes'
  BY <1>1, <1>3 DEF Typing, AgentTypes, pageVars
<1> QED
  BY <1>4, <1>5, <1>6 DEF Typing

LEMMA RefuseInputTyped ==
    ASSUME Typing, NEW n \in Conns, RefuseInput(n)
    PROVE  Typing'
<1>1. Serve(n, "input") /\ UNCHANGED <<pageVars, owner, open, down, agentVars>>
  BY DEF RefuseInput
<1>2. up' \in [Conns -> Seq(Frames(Len(author)))]
  BY <1>1, ServeTyped
<1> QED
  BY <1>1, <1>2 DEF Typing, PageTypes, WireTypes, AgentTypes, pageVars, agentVars

LEMMA RestateCursorTyped ==
    ASSUME Typing, NEW n \in Conns, RestateCursor(n)
    PROVE  Typing'
<1>1. /\ Serve(n, "input") /\ session # NoSession
      /\ down' = Notify(session.peers, Ack(session.epoch, session.applied, session.gen))
      /\ UNCHANGED <<pageVars, owner, open, agentVars>>
  BY DEF RestateCursor, Authorized, IsPeer
<1>2. up' \in [Conns -> Seq(Frames(Len(author)))]
  BY <1>1, ServeTyped
<1>3. session \in Sessions
  BY <1>1 DEF Typing, AgentTypes
<1>4. Ack(session.epoch, session.applied, session.gen) \in Messages
  BY <1>3, SessionFields, MakeMessage
<1>5. down' \in [Conns -> Seq(Messages)]
  BY <1>1, <1>4, NotifyTyped DEF Typing, WireTypes
<1> QED
  BY <1>1, <1>2, <1>5 DEF Typing, PageTypes, WireTypes, AgentTypes, pageVars, agentVars

\* What was authorized and is no duplicate and no gap continues the cursor.
LEMMA BeginWriteTyped ==
    ASSUME Typing, NEW n \in Conns, BeginWrite(n)
    PROVE  /\ Typing'
           /\ work' # Idle /\ work'.conn = n /\ ~work'.written
           /\ work'.epoch = session.epoch /\ work'.gen = session.gen
           /\ work'.peers = session.peers
           /\ work'.through = session.applied + 1
           /\ IsPeer(n) /\ session.holder = owner[n]
<1>1. PICK f : f = Head(up[n])
  OBVIOUS
<1>2. /\ Serve(n, "input") /\ Authorized(n, f) /\ Verdict(f) = "apply"
      /\ work' = [conn |-> n, chunk |-> f.chunk, through |-> f.seq, written |-> FALSE,
                  epoch |-> session.epoch, gen |-> session.gen, peers |-> session.peers]
      /\ writeQ' = [writeQ EXCEPT ![session.epoch] = Append(writeQ[session.epoch], f.chunk)]
      /\ UNCHANGED <<pageVars, owner, open, down, session, epochs, pty>>
  BY <1>1 DEF BeginWrite
<1>3. /\ up' \in [Conns -> Seq(Frames(Len(author)))]
      /\ f \in Frames(Len(author)) /\ f.kind = "input" /\ n \in open /\ Len(author) \in Nat
  BY <1>1, <1>2, ServeTyped, Known DEF Serve
<1>4. f.chunk \in 1..Len(author) /\ f.seq \in Nat
  BY <1>3, FrameFields
<1>5. IsPeer(n) /\ session.holder = owner[n] /\ session \in Sessions
  BY <1>2 DEF Authorized, IsPeer, Typing, AgentTypes
<1>6. session.epoch \in Epochs /\ session.gen \in Nat /\ session.applied \in Nat
  BY <1>5, SessionFields
<1>7. f.seq = session.applied + 1
  BY <1>2, <1>4, <1>6 DEF Verdict
<1>8. IsWork(work', Len(author)) /\ ~work'.written
  BY <1>2, <1>4, <1>6 DEF IsWork
<1>9. writeQ' \in [Epochs -> Seq(1..Len(author))]
  <2>1. writeQ[session.epoch] \in Seq(1..Len(author))
    BY <1>6 DEF Typing, AgentTypes
  <2>2. Append(writeQ[session.epoch], f.chunk) \in Seq(1..Len(author))
    BY <1>4, <2>1, AppendProperties
  <2> QED
    BY <1>2, <1>6, <2>2 DEF Typing, AgentTypes
<1>10. PageTypes'
  BY <1>2 DEF Typing, PageTypes, pageVars
<1>11. WireTypes'
  BY <1>2, <1>3 DEF Typing, WireTypes, pageVars
<1>12. AgentTypes'
  <2>1. work'.conn \in open'
    BY <1>2, <1>3
  <2> QED
    BY <1>2, <1>8, <1>9, <2>1 DEF Typing, AgentTypes, pageVars
<1>13. work' # Idle
  BY <1>8, WorkFields
<1> QED
  BY <1>2, <1>5, <1>7, <1>8, <1>10, <1>11, <1>12, <1>13 DEF Typing

\* w with its command written.
Wrote(w, v) ==
    /\ v.written
    /\ v.conn = w.conn /\ v.chunk = w.chunk /\ v.through = w.through
    /\ v.epoch = w.epoch /\ v.gen = w.gen /\ v.peers = w.peers

LEMMA Written ==
    ASSUME NEW k, NEW w, NEW v, IsWork(w, k), v = [w EXCEPT !.written = TRUE]
    PROVE  IsWork(v, k) /\ Wrote(w, v)
<1>1. v = [conn |-> w.conn, chunk |-> w.chunk, through |-> w.through, written |-> TRUE,
           epoch |-> w.epoch, gen |-> w.gen, peers |-> w.peers]
  BY DEF IsWork
<1> QED
  BY <1>1 DEF IsWork, Wrote

\* The writer marks the mutation in progress, if its command was the last.
LEMMA WriterStepTyped ==
    ASSUME Typing, NEW e \in Epochs, WriterStep(e)
    PROVE  /\ Typing'
           /\ work = Idle => work' = Idle
           /\ work # Idle =>
                /\ work'.conn = work.conn /\ work'.chunk = work.chunk
                /\ work'.through = work.through /\ work'.epoch = work.epoch
                /\ work'.gen = work.gen /\ work'.peers = work.peers
<1>1. /\ writeQ[e] # <<>>
      /\ pty' = Append(pty, Head(writeQ[e]))
      /\ writeQ' = [writeQ EXCEPT ![e] = Tail(writeQ[e])]
      /\ \/ work' = work
         \/ work # Idle /\ work' = [work EXCEPT !.written = TRUE]
      /\ UNCHANGED <<pageVars, wireVars, session, epochs>>
  BY DEF WriterStep
<1>2. writeQ[e] \in Seq(1..Len(author)) /\ pty \in Seq(1..Len(author))
  BY DEF Typing, AgentTypes
<1>3. Head(writeQ[e]) \in 1..Len(author) /\ Tail(writeQ[e]) \in Seq(1..Len(author))
  BY <1>1, <1>2, HeadTailProperties
<1>4. pty' \in Seq(1..Len(author))
  BY <1>1, <1>2, <1>3, AppendProperties
<1>5. writeQ' \in [Epochs -> Seq(1..Len(author))]
  BY <1>1, <1>3 DEF Typing, AgentTypes
<1>6. /\ work = Idle => work' = Idle
      /\ work # Idle => /\ IsWork(work', Len(author))
                        /\ work'.conn = work.conn /\ work'.chunk = work.chunk
                        /\ work'.through = work.through /\ work'.epoch = work.epoch
                        /\ work'.gen = work.gen /\ work'.peers = work.peers
  <2>1. work = Idle \/ IsWork(work, Len(author))
    BY DEF Typing, AgentTypes
  <2>2. CASE work' = work
    BY <2>1, <2>2
  <2>3. CASE work # Idle /\ work' = [work EXCEPT !.written = TRUE]
    <3>1. IsWork(work, Len(author))
      BY <2>1, <2>3
    <3>2. PICK v : v = [work EXCEPT !.written = TRUE]
      OBVIOUS
    <3>3. IsWork(v, Len(author)) /\ Wrote(work, v)
      BY <3>1, <3>2, Written, Zenon
    <3> QED
      BY <2>3, <3>2, <3>3 DEF Wrote
  <2> QED
    BY <1>1, <2>2, <2>3
<1>7. work' = Idle \/ (IsWork(work', Len(author)) /\ work'.conn \in open)
  BY <1>6 DEF Typing, AgentTypes
<1>8. PageTypes'
  BY <1>1 DEF Typing, PageTypes, pageVars
<1>9. WireTypes'
  BY <1>1 DEF Typing, WireTypes, pageVars, wireVars
<1>10. AgentTypes'
  BY <1>1, <1>4, <1>5, <1>7 DEF Typing, AgentTypes, pageVars, wireVars
<1> QED
  BY <1>6, <1>8, <1>9, <1>10 DEF Typing

LEMMA WriteRefusedTyped ==
    ASSUME Typing, WriteRefused
    PROVE  Typing'
<1>1. PICK e : e = work.epoch
  OBVIOUS
<1>2. /\ work # Idle /\ work' = Idle
      /\ writeQ' = [writeQ EXCEPT ![e] = Front(writeQ[e])]
      /\ UNCHANGED <<pageVars, wireVars, session, epochs, pty>>
  BY <1>1 DEF WriteRefused
<1>3. e \in Epochs /\ writeQ \in [Epochs -> Seq(1..Len(author))]
  BY <1>1, <1>2 DEF Typing, AgentTypes, IsWork
<1>4. Front(writeQ[e]) \in Seq(1..Len(author))
  <2>1. writeQ[e] \in Seq(1..Len(author))
    BY <1>3
  <2>2. CASE writeQ[e] = <<>>
    <3>1. Len(writeQ[e]) = 0
      BY <2>2
    <3>2. Front(writeQ[e]) = SubSeq(writeQ[e], 1, 0 - 1)
      BY <3>1 DEF Front
    <3>3. 0 - 1 \in Int /\ 1 \in Int /\ 0 - 1 < 1
      OBVIOUS
    <3>4. SubSeq(writeQ[e], 1, 0 - 1) = <<>>
      BY <3>3, SubSeqEmpty
    <3> QED
      BY <3>2, <3>4, EmptySeq
  <2>3. CASE writeQ[e] # <<>>
    <3>1. Len(writeQ[e]) - 1 \in 0..Len(writeQ[e])
      BY <2>1, <2>3, EmptySeq
    <3> QED
      BY <2>1, <3>1, Prefix DEF Front
  <2> QED
    BY <2>2, <2>3
<1>5. writeQ' \in [Epochs -> Seq(1..Len(author))]
  BY <1>2, <1>3, <1>4
<1> QED
  BY <1>2, <1>5
     DEF Typing, PageTypes, WireTypes, AgentTypes, pageVars, wireVars

LEMMA WriteTimesOutTyped ==
    ASSUME Typing, WriteTimesOut
    PROVE  Typing'
  BY DEF WriteTimesOut, Typing, PageTypes, WireTypes, AgentTypes, pageVars, wireVars

LEMMA FinishWriteTyped ==
    ASSUME Typing, FinishWrite
    PROVE  Typing'
<1>1. /\ work # Idle /\ work' = Idle
      /\ UNCHANGED <<pageVars, owner, open, up, epochs, writeQ, pty>>
  BY DEF FinishWrite
<1>2. IsWork(work, Len(author))
  BY <1>1 DEF Typing, AgentTypes
<1>3. work.epoch \in Nat \ {0} /\ work.through \in Nat /\ work.gen \in Nat
  BY <1>2 DEF IsWork, Epochs
<1>4. /\ down' \in [Conns -> Seq(Messages)]
      /\ \/ session' = NoSession
         \/ session' \in Sessions /\ session'.epoch = epochs /\ session'.peers \subseteq DOMAIN owner
  <2>1. CASE UNCHANGED <<session, down>>
    BY <2>1 DEF Typing, WireTypes, AgentTypes
  <2>2. CASE /\ session.epoch = work.epoch
             /\ session' = [session EXCEPT !.applied = IF @ < work.through
                                                       THEN work.through ELSE @]
             /\ down' = Notify(work.peers, Ack(work.epoch, work.through, work.gen))
    <3>1. session # NoSession
      BY <1>3, <2>2 DEF NoSession
    <3>2. session \in Sessions /\ session.epoch = epochs /\ session.peers \subseteq DOMAIN owner
      BY <3>1 DEF Typing, AgentTypes
    <3>3. PICK t \in Nat : session' = [session EXCEPT !.applied = t]
      BY <1>3, <2>2, <3>2, SessionFields
    <3>4. session' \in Sessions /\ session'.epoch = epochs /\ session'.peers = session.peers
      BY <3>2, <3>3 DEF Sessions
    <3>5. Ack(work.epoch, work.through, work.gen) \in Messages
      BY <1>3, MakeMessage
    <3>6. down' \in [Conns -> Seq(Messages)]
      BY <2>2, <3>5, NotifyTyped DEF Typing, WireTypes
    <3> QED
      BY <3>2, <3>4, <3>6
  <2> QED
    BY <2>1, <2>2 DEF FinishWrite
<1>5. PageTypes'
  BY <1>1 DEF Typing, PageTypes, pageVars
<1>6. WireTypes'
  BY <1>1, <1>4 DEF Typing, WireTypes, pageVars
<1>7. AgentTypes'
  BY <1>1, <1>4 DEF Typing, AgentTypes, pageVars
<1> QED
  BY <1>5, <1>6, <1>7 DEF Typing

LEMMA EndConnectionTyped ==
    ASSUME Typing, NEW n \in Conns, EndConnection(n)
    PROVE  Typing'
<1>1. /\ open' = open \ {n} /\ up' = [up EXCEPT ![n] = <<>>]
      /\ work' = IF work.conn = n THEN Idle ELSE work
      /\ UNCHANGED <<pageVars, owner, down, session, epochs, writeQ, pty>>
  BY DEF EndConnection
<1>2. up' \in [Conns -> Seq(Frames(Len(author)))]
  <2>1. <<>> \in Seq(Frames(Len(author)))
    BY EmptySeq
  <2> QED
    BY <1>1, <2>1 DEF Typing, WireTypes
<1>3. work' = Idle \/ (IsWork(work', Len(author)) /\ work'.conn \in open')
  BY <1>1 DEF Typing, AgentTypes
<1>4. PageTypes'
  BY <1>1 DEF Typing, PageTypes, pageVars
<1>5. WireTypes'
  BY <1>1, <1>2 DEF Typing, WireTypes, pageVars
<1>6. AgentTypes'
  BY <1>1, <1>3 DEF Typing, AgentTypes, pageVars
<1> QED
  BY <1>4, <1>5, <1>6 DEF Typing

\* Who is left holds the lease if it held it, and nobody does otherwise.
LEMMA RetiredIs ==
    ASSUME NEW s \in Sessions, NEW n
    PROVE  LET r == Retired(s, n)
           IN  \/ r = NoSession
               \/ /\ r \in Sessions /\ r.peers = s.peers \ {n}
                  /\ r.epoch = s.epoch /\ r.gen = s.gen /\ r.applied = s.applied
                  /\ r.holder \in {s.holder, NoPage}
                  /\ (\E p \in s.peers \ {n} : owner[p] = s.holder) => r.holder = s.holder
<1> DEFINE left == s.peers \ {n}
           held == \E p \in left : owner[p] = s.holder
           h == IF held THEN s.holder ELSE NoPage
<1>1. CASE left = {}
  BY <1>1 DEF Retired
<1>2. CASE left # {}
  <2>1. Retired(s, n) = [s EXCEPT !.peers = left, !.holder = h]
    BY <1>2 DEF Retired
  <2>2. left \in SUBSET Conns /\ h \in Pages \cup {NoPage} /\ h \in {s.holder, NoPage}
        /\ (held => h = s.holder)
    BY SessionFields
  <2> HIDE DEF h, held, left
  <2>3. LET r == [s EXCEPT !.peers = left, !.holder = h]
        IN  /\ r \in Sessions /\ r.peers = left /\ r.holder = h
            /\ r.epoch = s.epoch /\ r.gen = s.gen /\ r.applied = s.applied
    BY <2>2 DEF Sessions
  <2> QED
    BY <2>1, <2>2, <2>3 DEF left, held
<1> QED
  BY <1>1, <1>2

LEMMA RetireConnectionTyped ==
    ASSUME Typing, NEW n \in Conns, RetireConnection(n)
    PROVE  Typing'
<1>1. /\ session # NoSession /\ session' = Retired(session, n)
      /\ down' = IF session' # NoSession /\ session'.holder # session.holder
                 THEN Notify(session'.peers, ControlChanged(session')) ELSE down
      /\ UNCHANGED <<pageVars, owner, open, up, epochs, work, writeQ, pty>>
  BY DEF RetireConnection, IsPeer
<1>2. session \in Sessions /\ session.epoch = epochs /\ session.peers \subseteq DOMAIN owner
  BY <1>1 DEF Typing, AgentTypes
<1>3. \/ session' = NoSession
      \/ session' \in Sessions /\ session'.epoch = epochs /\ session'.peers \subseteq DOMAIN owner
  BY <1>1, <1>2, RetiredIs
<1>4. down' \in [Conns -> Seq(Messages)]
  BY <1>1, <1>3, ControlTyped, NotifyTyped DEF Typing, WireTypes
<1>5. PageTypes'
  BY <1>1 DEF Typing, PageTypes, pageVars
<1>6. WireTypes'
  BY <1>1, <1>4 DEF Typing, WireTypes, pageVars
<1>7. AgentTypes'
  BY <1>1, <1>3 DEF Typing, AgentTypes, pageVars
<1> QED
  BY <1>5, <1>6, <1>7 DEF Typing

LEMMA RetireStreamTyped ==
    ASSUME Typing, RetireStream
    PROVE  Typing'
<1>1. /\ session' = NoSession /\ writeQ' = [writeQ EXCEPT ![session.epoch] = <<>>]
      /\ work' = Idle \/ work' = work
      /\ UNCHANGED <<pageVars, wireVars, epochs, pty>>
  BY DEF RetireStream
<1>2. writeQ' \in [Epochs -> Seq(1..Len(author))]
  <2>1. <<>> \in Seq(1..Len(author))
    BY EmptySeq
  <2> QED
    BY <1>1, <2>1 DEF Typing, AgentTypes
<1>3. work' = Idle \/ (IsWork(work', Len(author)) /\ work'.conn \in open')
  BY <1>1 DEF Typing, AgentTypes, wireVars
<1> QED
  BY <1>1, <1>2, <1>3 DEF Typing, PageTypes, WireTypes, AgentTypes, pageVars, wireVars

LEMMA RestartTyped ==
    ASSUME Typing, Restart
    PROVE  Typing'
<1>1. /\ open' = {} /\ up' = [n \in Conns |-> <<>>]
      /\ session' = NoSession /\ work' = Idle
      /\ writeQ' = [e \in Epochs |-> <<>>]
      /\ UNCHANGED <<pageVars, owner, down, epochs, pty>>
  BY DEF Restart
<1>2. /\ up' \in [Conns -> Seq(Frames(Len(author)))]
      /\ writeQ' \in [Epochs -> Seq(1..Len(author))]
  BY <1>1, EmptySeq
<1> QED
  BY <1>1, <1>2 DEF Typing, PageTypes, WireTypes, AgentTypes, pageVars
-----------------------------------------------------------------------------
LEMMA InitTyped == Init => Typing
<1> SUFFICES ASSUME Init PROVE Typing
  OBVIOUS
<1>1. author = <<>> /\ Len(author) = 0 /\ author \in Seq(Pages)
  BY EmptySeq DEF Init
<1>2. owner = <<>> /\ Len(owner) = 0 /\ owner \in Seq(Pages)
  BY EmptySeq DEF Init
<1>3. EmptyQueue \in Queues(0)
  <2>1. PICK s \in Seq(1..0) : s = <<>>
    BY EmptySeq
  <2> DEFINE S == Seq(1..0)
             L == SUBSET (1..0)
  <2>2. s \in S /\ {} \in L
    OBVIOUS
  <2> HIDE DEF S, L
  <2>3. [chunks |-> s, epoch |-> 0, gen |-> 0, cursor |-> 0, lost |-> {}]
        \in [chunks : S, epoch : Nat, gen : Nat, cursor : Nat, lost : L]
    BY <2>2
  <2> QED
    BY <2>1, <2>3 DEF Queues, EmptyQueue, S, L
<1>4. PageTypes
  <2>1. UnknownLease \in Leases
    BY DEF UnknownLease, Leases, Roles
  <2> QED
    BY <1>1, <1>3, <2>1, Bounds DEF PageTypes, Init, Phases
<1>5. WireTypes
  <2>1. <<>> \in Seq(Frames(0)) /\ <<>> \in Seq(Messages)
    BY EmptySeq
  <2> QED
    BY <1>1, <1>2, <2>1, Bounds DEF WireTypes, Init
<1>6. AgentTypes
  <2>1. <<>> \in Seq(1..0)
    BY EmptySeq
  <2> QED
    BY <1>1, <2>1, Bounds DEF AgentTypes, Init
<1> QED
  BY <1>4, <1>5, <1>6 DEF Typing

LEMMA StutterTyped ==
    ASSUME Typing, UNCHANGED vars
    PROVE  Typing'
  BY DEF Typing, PageTypes, WireTypes, AgentTypes, vars, pageVars, wireVars, agentVars

LEMMA NextTyped ==
    ASSUME Typing, [Next]_vars
    PROVE  Typing'
<1>1. ASSUME NEW c \in Pages,
             \/ Type(c) \/ GrowOld(c) \/ LoseTransport(c) \/ SwapTransport(c)
             \/ Connect(c) \/ RequestControl(c) \/ Receive(c)
      PROVE  Typing'
  BY <1>1, TypeTyped, GrowOldTyped, LoseTransportTyped, SwapTransportTyped, ConnectTyped,
     RequestControlTyped, ReceiveTyped
<1>2. ASSUME NEW n \in Conns,
             \/ Attach(n) \/ AcquireControl(n) \/ RefuseInput(n)
             \/ RestateCursor(n) \/ BeginWrite(n)
             \/ EndConnection(n) \/ RetireConnection(n)
      PROVE  Typing'
  BY <1>2, AttachTyped, AcquireControlTyped, RefuseInputTyped, RestateCursorTyped,
     BeginWriteTyped, EndConnectionTyped, RetireConnectionTyped
<1>3. ASSUME NEW e \in Epochs, WriterStep(e) PROVE Typing'
  BY <1>3, WriterStepTyped
<1>4. CASE WriteRefused \/ WriteTimesOut \/ FinishWrite \/ RetireStream \/ Restart
  BY <1>4, WriteRefusedTyped, WriteTimesOutTyped, FinishWriteTyped, RetireStreamTyped,
     RestartTyped
<1>5. CASE UNCHANGED vars
  BY <1>5, StutterTyped
<1> QED
  BY <1>1, <1>2, <1>3, <1>4, <1>5 DEF Next, PageNext, AgentNext

\* Every variable, frame, message and mutation keeps its type, and the Session
\* attached is the one minted last.
THEOREM TypingAlways == Spec => []Typing
<1>1. Init => Typing
  BY InitTyped
<1>2. Typing /\ [Next]_vars => Typing'
  BY NextTyped
<1> QED
  BY <1>1, <1>2, PTL DEF Spec

\* The types of TerminalInput: chunks, connections and epochs stay within
\* what was typed, opened and minted, and a mutation in progress belongs to a
\* connection the agent still serves.
THEOREM TypesAlways == Spec => []TypeOK
<1>1. ASSUME Typing PROVE TypeOK
  <2>1. /\ Len(author) \in Nat /\ 1..Len(author) \subseteq Chunks
        /\ DOMAIN author = 1..Len(author) /\ Len(author) <= MaxTyped
    BY <1>1, Known DEF Typing, PageTypes
  <2>2. MaxTyped \in Nat
    BY Bounds
  <2>3. queue \in [Pages -> Queues(MaxTyped)]
    <3>1. queue \in [Pages -> Queues(Len(author))] /\ Queues(Len(author)) \subseteq Queues(MaxTyped)
      BY <1>1, <2>1, <2>2, Widen DEF Typing, PageTypes
    <3> QED
      BY <3>1
  <2>4. queue \in [Pages -> [chunks : Seq(Chunks), epoch : Nat, gen : Nat,
                             cursor : Nat, lost : SUBSET Chunks]]
    BY <2>3 DEF Queues, Chunks
  <2>5. writeQ \in [Epochs -> Seq(Chunks)]
    <3>1. Seq(1..Len(author)) \subseteq Seq(Chunks)
      BY <2>1, SeqMonotonic
    <3> QED
      BY <1>1, <3>1 DEF Typing, AgentTypes
  <2>6. session = NoSession \/ (session.epoch \in 1..epochs /\ session.peers \subseteq DOMAIN owner)
    BY <1>1, SessionFields DEF Typing, AgentTypes
  <2>7. lease \in [Pages -> [role : {"controller", "observer"}, gen : Nat]]
        /\ phase \in [Pages -> {"down", "attaching", "attached"}]
    BY <1>1 DEF Typing, PageTypes, Leases, Roles, Phases
  <2> QED
    BY <1>1, <2>1, <2>4, <2>5, <2>6, <2>7 DEF TypeOK, Typing, PageTypes, WireTypes, AgentTypes
<1> QED
  BY <1>1, TypingAlways, PTL
-----------------------------------------------------------------------------
(* A write and the lease it was authorized under.                          *)

\* What the write of a live stream relies on is not touched by a step that
\* leaves the Session and the mutation alone.
LEMMA LeaseUntouched ==
    ASSUME Typing, LeaseCoversWrite, UNCHANGED <<session, work>>,
           \A n \in DOMAIN owner : owner'[n] = owner[n]
    PROVE  LeaseCoversWrite'
<1>1. CASE work # Idle /\ work.epoch = session.epoch
  <2>1. work.conn \in DOMAIN owner
    BY <1>1 DEF Typing, WireTypes, AgentTypes
  <2> QED
    BY <1>1, <2>1 DEF LeaseCoversWrite, IsPeer
<1>2. CASE ~(work # Idle /\ work.epoch = session.epoch)
  BY <1>2 DEF LeaseCoversWrite
<1> QED
  BY <1>1, <1>2

LEMMA LeasePage ==
    ASSUME Typing, LeaseCoversWrite, PageNext
    PROVE  LeaseCoversWrite'
<1>1. UNCHANGED <<session, work>>
  BY DEF PageNext, Type, GrowOld, LoseTransport, SwapTransport, Connect, RequestControl, Receive,
         agentVars
<1>2. \A n \in DOMAIN owner : owner'[n] = owner[n]
  <2>1. CASE UNCHANGED owner
    BY <2>1
  <2>2. ASSUME NEW c \in Pages, owner' = Append(owner, c)
        PROVE  \A n \in DOMAIN owner : owner'[n] = owner[n]
    <3>1. owner \in Seq(Pages) /\ DOMAIN owner = 1..Len(owner)
      BY Known DEF Typing, WireTypes
    <3> QED
      BY <2>2, <3>1, AppendProperties
  <2> QED
    BY <2>1, <2>2
       DEF PageNext, Type, GrowOld, LoseTransport, SwapTransport, Connect, RequestControl, Receive,
           wireVars
<1> QED
  BY <1>1, <1>2, LeaseUntouched

LEMMA LeaseAgent ==
    ASSUME Typing, LeaseCoversWrite, AgentNext
    PROVE  LeaseCoversWrite'
<1>1. ASSUME NEW n \in Conns, Attach(n) \/ AcquireControl(n) PROVE LeaseCoversWrite'
  BY <1>1 DEF Attach, AcquireControl, Serve, LeaseCoversWrite
<1>2. ASSUME NEW n \in Conns, RefuseInput(n) \/ RestateCursor(n) PROVE LeaseCoversWrite'
  BY <1>2 DEF RefuseInput, RestateCursor, Serve, agentVars, LeaseCoversWrite
<1>3. ASSUME NEW n \in Conns, BeginWrite(n) PROVE LeaseCoversWrite'
  <2>1. UNCHANGED <<owner, session>>
    BY <1>3 DEF BeginWrite
  <2> QED
    BY <1>3, <2>1, BeginWriteTyped DEF LeaseCoversWrite, IsPeer
<1>4. ASSUME NEW n \in Conns, EndConnection(n) PROVE LeaseCoversWrite'
  <2>1. UNCHANGED <<owner, session>> /\ (work' = Idle \/ work' = work)
    BY <1>4 DEF EndConnection
  <2> QED
    BY <2>1 DEF LeaseCoversWrite, IsPeer
<1>5. ASSUME NEW n \in Conns, RetireConnection(n) PROVE LeaseCoversWrite'
  <2>1. /\ session # NoSession /\ session' = Retired(session, n) /\ UNCHANGED <<owner, work>>
        /\ n \notin open
    BY <1>5 DEF RetireConnection, IsPeer
  <2>2. session \in Sessions
    BY <2>1 DEF Typing, AgentTypes
  <2>3. CASE session' = NoSession
    <3>1. work # Idle => work.epoch # 0
      BY DEF Typing, AgentTypes, IsWork, Epochs
    <3> QED
      BY <2>1, <2>3, <3>1 DEF LeaseCoversWrite, NoSession
  <2>4. CASE session' # NoSession
    <3>1. /\ session'.peers = session.peers \ {n}
          /\ session'.epoch = session.epoch /\ session'.gen = session.gen
          /\ session'.applied = session.applied
          /\ (\E p \in session.peers \ {n} : owner[p] = session.holder) =>
                 session'.holder = session.holder
      BY <2>1, <2>2, <2>4, RetiredIs
    <3>2. work # Idle => work.conn # n
      BY <2>1 DEF Typing, AgentTypes
    <3> QED
      BY <2>1, <2>4, <3>1, <3>2 DEF LeaseCoversWrite, IsPeer
  <2> QED
    BY <2>3, <2>4
<1>6. ASSUME NEW e \in Epochs, WriterStep(e) PROVE LeaseCoversWrite'
  <2>1. UNCHANGED <<owner, session>>
    BY <1>6 DEF WriterStep, wireVars
  <2> QED
    BY <1>6, <2>1, WriterStepTyped DEF LeaseCoversWrite, IsPeer
<1>7. CASE WriteRefused \/ WriteTimesOut \/ FinishWrite \/ Restart
  BY <1>7 DEF WriteRefused, WriteTimesOut, FinishWrite, Restart, LeaseCoversWrite
<1>8. CASE RetireStream
  <2>1. session' = NoSession /\ (work' = Idle \/ work' = work)
    BY <1>8 DEF RetireStream
  <2>2. work # Idle => work.epoch # 0
    BY DEF Typing, AgentTypes, IsWork, Epochs
  <2> QED
    BY <2>1, <2>2 DEF LeaseCoversWrite, NoSession
<1> QED
  BY <1>1, <1>2, <1>3, <1>4, <1>5, <1>6, <1>7, <1>8 DEF AgentNext

\* While a page's bytes are with the writer of a live stream its connection
\* is subscribed, it holds the lease it was authorized under, and its chunk
\* is the next position: for any number of pages, whatever happens.
THEOREM LeaseCoversWriteAlways == Spec => []LeaseCoversWrite
<1>1. Init => LeaseCoversWrite
  BY DEF Init, LeaseCoversWrite
<1>2. ASSUME Typing, LeaseCoversWrite, [Next]_vars PROVE LeaseCoversWrite'
  <2>1. CASE UNCHANGED vars
    BY <1>2, <2>1, LeaseUntouched DEF vars, wireVars, agentVars
  <2> QED
    BY <1>2, <2>1, LeasePage, LeaseAgent DEF Next
<1> QED
  BY <1>1, <1>2, TypingAlways, PTL DEF Spec
=============================================================================
