---------------------------- MODULE TerminalInput ----------------------------
(***************************************************************************)
(* Sequenced terminal input, end to end, for one Session.                  *)
(*                                                                         *)
(*   page        PendingInputQueue + ConnectionManager + ControlLease (web) *)
(*   wire        one FIFO channel per direction and per WebSocket           *)
(*   agent       SessionRegistry (peers, control lease, input cursor),      *)
(*               the Session's key lane, the tmux client's ordered writer   *)
(*                                                                         *)
(* A page numbers what the user typed from the cursor the agent last        *)
(* stated, keeps it until the agent acknowledges it, and sends it again     *)
(* after every re-attach.  The agent writes only the chunk that continues   *)
(* its cursor.  One chunk is one frame and one position.                    *)
(***************************************************************************)
EXTENDS Naturals, Sequences, FiniteSets, SequencesExt

CONSTANTS
    Pages,       \* page instances (subscription identities) attached to the Session
    NoPage,      \* the holder of a free lease
    MaxTyped,    \* bound: chunks typed over a behaviour
    MaxQueue,    \* InputQueueBounds.maxChunks
    MaxConns,    \* bound: WebSocket connections opened over a behaviour
    MaxEpochs,   \* bound: attachments of the Session (and so input epochs)
    MaxGen,      \* bound: lease generations an acquire may ask for
    Events       \* what may happen around the protocol, see below

\* "early"      a page types before its transport was ever attached
\* "age"        a pending chunk outlives maxAgeMs
\* "swap"       a page replaces its transport (next candidate, relay)
\* "refuse"     the tmux writer refuses a command without writing it
\* "interrupt"  a write is abandoned while its command is with the writer
AllEvents == {"early", "age", "swap", "refuse", "interrupt"}

ASSUME InputAssumption ==
    /\ NoPage \notin Pages
    /\ {MaxTyped, MaxQueue, MaxConns, MaxEpochs, MaxGen} \subseteq Nat \ {0}
    /\ Events \subseteq AllEvents

VARIABLES
    queue,     \* [Pages -> Queue], the PendingInputQueue of the page's transport
    lease,     \* [Pages -> [role, gen]], the page's copy of the control lease
    phase,     \* [Pages -> {"down", "attaching", "attached"}]
    conn,      \* [Pages -> connection in use, 0 for none]
    aged,      \* chunks older than maxAgeMs
    author,    \* author[k]: the page that typed chunk k
    owner,     \* owner[n]: the page that opened connection n
    open,      \* connections the agent still serves
    up,        \* up[n]: frames on their way to the agent
    down,      \* down[n]: frames on their way to the page
    session,   \* the registry's AttachedSession, or NoSession
    epochs,    \* input epochs minted so far
    work,      \* the mutation the Session's key lane is executing, or Idle
    writeQ,    \* writeQ[e]: commands admitted to the writer of attachment e
    pty        \* chunks the pane received, in order

pageVars  == <<queue, lease, phase, conn, aged, author>>
wireVars  == <<owner, open, up, down>>
agentVars == <<session, epochs, work, writeQ, pty>>
vars      == <<pageVars, wireVars, agentVars>>

Chunks == 1..MaxTyped
Conns  == 1..MaxConns
Epochs == 1..MaxEpochs
NoSession == [epoch |-> 0]
Idle      == [conn |-> 0]
-----------------------------------------------------------------------------
(* The page's queue: chunks[i] is position cursor + i.                     *)

\* Epoch 0 is a queue no attach has bound yet.  lost is what onDrop reported.
EmptyQueue ==
    [chunks |-> <<>>, epoch |-> 0, gen |-> 0, cursor |-> 0, lost |-> {}]

\* Before the first answer a page takes itself for the controller.
UnknownLease == [role |-> "controller", gen |-> 0]

Clear(q) == [q EXCEPT !.chunks = <<>>, !.lost = @ \cup ToSet(q.chunks)]

\* Mutant: the acknowledged chunk itself is kept.
AcknowledgeExclusive(q, epoch, through) ==
    IF q.epoch \notin {0, epoch} \/ through <= q.cursor
    THEN q
    ELSE [q EXCEPT !.chunks = SubSeq(@, through - q.cursor, Len(@)), !.cursor = through]

Acknowledge(q, epoch, through) ==
    IF q.epoch \notin {0, epoch} \/ through <= q.cursor
    THEN q
    ELSE LET covered == IF through - q.cursor < Len(q.chunks)
                        THEN through - q.cursor ELSE Len(q.chunks)
         IN  [q EXCEPT !.chunks = SubSeq(@, covered + 1, Len(@)), !.cursor = through]

Rebind(q, epoch, gen) ==
    LET fresh == CASE q.epoch \notin {0, epoch} -> [Clear(q) EXCEPT !.cursor = 0]
                   [] q.epoch = epoch /\ q.gen # gen -> Clear(q)
                   [] OTHER -> q
    IN  [fresh EXCEPT !.epoch = epoch, !.gen = gen]

Reconcile(q, epoch, gen, through) ==
    Acknowledge(Rebind(q, epoch, gen), epoch, through)

NoteGeneration(q, gen) ==
    IF q.epoch = 0 \/ q.gen = gen THEN q ELSE Rebind(q, q.epoch, gen)

Expire(q) ==
    IF q.chunks # <<>> /\ Head(q.chunks) \in aged THEN Clear(q) ELSE q

Full(q) == q.chunks # <<>> /\ Len(q.chunks) + 1 > MaxQueue

Outbound(q, gen) ==
    [i \in 1..Len(q.chunks) |->
        [kind |-> "input", epoch |-> q.epoch, seq |-> q.cursor + i,
         gen |-> gen, chunk |-> q.chunks[i]]]

\* What a flush puts on the wire: nothing for an observer, nothing that
\* arrives once the agent has closed the connection.
Flush(c, q, l) ==
    up' = IF l.role = "observer" \/ conn[c] \notin open
          THEN up
          ELSE [up EXCEPT ![conn[c]] = @ \o Outbound(q, l.gen)]
-----------------------------------------------------------------------------
(* The page.                                                               *)

Type(c) ==
    LET id == Len(author) + 1
        q  == Expire(queue[c])
    IN  /\ id \in Chunks
        /\ queue[c].epoch # 0 \/ "early" \in Events
        /\ lease[c].role # "observer"
        /\ author' = Append(author, c)
        /\ \/ /\ Full(q)
              /\ queue' = [queue EXCEPT ![c] = [q EXCEPT !.lost = @ \cup {id}]]
              /\ UNCHANGED up
           \/ /\ ~Full(q)
              /\ queue' = [queue EXCEPT ![c] = [q EXCEPT !.chunks = Append(@, id)]]
              /\ IF phase[c] = "attached" THEN Flush(c, queue'[c], lease[c]) ELSE UNCHANGED up
        /\ UNCHANGED <<lease, phase, conn, aged, owner, open, down, agentVars>>

\* The clock passes the oldest pending chunks' deadline.
GrowOld(c) ==
    /\ "age" \in Events
    /\ \E k \in 1..Len(queue[c].chunks) :
           /\ queue[c].chunks[k] \notin aged
           /\ aged' = aged \cup ToSet(SubSeq(queue[c].chunks, 1, k))
    /\ UNCHANGED <<queue, lease, phase, conn, author, wireVars, agentVars>>

\* The socket dies under the page: what the agent had not received yet is
\* gone from some frame on, and nothing more is read from it.
LoseTransport(c) ==
    LET n == conn[c]
    IN  /\ n # 0
        /\ phase' = [phase EXCEPT ![c] = "down"]
        /\ conn' = [conn EXCEPT ![c] = 0]
        /\ \E k \in 0..Len(up[n]) : up' = [up EXCEPT ![n] = SubSeq(@, 1, k)]
        /\ down' = [down EXCEPT ![n] = <<>>]
        /\ UNCHANGED <<queue, lease, aged, author, owner, open, agentVars>>

Connect(c) ==
    LET n == Len(owner) + 1
    IN  /\ conn[c] = 0
        /\ n \in Conns
        /\ owner' = Append(owner, c)
        /\ open' = open \cup {n}
        /\ conn' = [conn EXCEPT ![c] = n]
        /\ phase' = [phase EXCEPT ![c] = "attaching"]
        /\ up' = [up EXCEPT ![n] = <<[kind |-> "attach"]>>]
        /\ UNCHANGED <<queue, lease, aged, author, down, agentVars>>

\* The runtime moves to another transport generation: the old socket is
\* disposed, the new transport starts with a queue of its own.
SwapTransport(c) ==
    LET n == conn[c]
    IN  /\ "swap" \in Events
        /\ n # 0
        /\ queue' = [queue EXCEPT ![c] = [EmptyQueue EXCEPT !.lost = queue[c].lost]]
        /\ lease' = [lease EXCEPT ![c] = UnknownLease]
        /\ phase' = [phase EXCEPT ![c] = "down"]
        /\ conn' = [conn EXCEPT ![c] = 0]
        /\ down' = [down EXCEPT ![n] = <<>>]
        /\ UNCHANGED <<aged, author, owner, open, up, agentVars>>

RequestControl(c) ==
    /\ phase[c] = "attached"
    /\ lease[c].role = "observer"
    /\ conn[c] \in open
    /\ session.epoch # 0 /\ session.gen < MaxGen
    /\ \A i \in 1..Len(up[conn[c]]) : up[conn[c]][i].kind # "acquire"
    /\ up' = [up EXCEPT ![conn[c]] = Append(@, [kind |-> "acquire"])]
    /\ UNCHANGED <<pageVars, owner, open, down, agentVars>>

\* A successful attach: the lease is installed (and the queue told of its
\* generation), the input cursor is reconciled, then the queue is flushed.
ReceiveAttached(c, m) ==
    LET l == [role |-> m.role, gen |-> m.gen]
        q == Reconcile(NoteGeneration(queue[c], m.gen), m.epoch, m.gen, m.through)
    IN  /\ m.kind = "attached"
        /\ lease' = [lease EXCEPT ![c] = l]
        /\ queue' = [queue EXCEPT ![c] = q]
        /\ phase' = [phase EXCEPT ![c] = "attached"]
        /\ Flush(c, q, l)

ReceiveControl(c, m) ==
    /\ m.kind = "control"
    /\ lease' = [lease EXCEPT ![c] =
           [role |-> IF m.holder = c THEN "controller" ELSE "observer", gen |-> m.gen]]
    /\ queue' = [queue EXCEPT ![c] = NoteGeneration(@, m.gen)]
    /\ UNCHANGED <<phase, up>>

ReceiveAck(c, m) ==
    /\ m.kind = "ack"
    /\ queue' = [queue EXCEPT ![c] =
           NoteGeneration(Acknowledge(@, m.epoch, m.through), m.gen)]
    /\ UNCHANGED <<lease, phase, up>>

Receive(c) ==
    /\ conn[c] # 0
    /\ down[conn[c]] # <<>>
    /\ LET m == Head(down[conn[c]])
       IN  ReceiveAttached(c, m) \/ ReceiveControl(c, m) \/ ReceiveAck(c, m)
    /\ down' = [down EXCEPT ![conn[c]] = Tail(@)]
    /\ UNCHANGED <<conn, aged, author, owner, open, agentVars>>
-----------------------------------------------------------------------------
(* The agent.                                                              *)

\* send_terminal to each of these peers; a closed connection takes nothing
\* and a page that left reads nothing.
Notify(peers, m) ==
    [n \in Conns |-> IF n \in peers \cap open /\ conn[owner[n]] = n
                     THEN Append(down[n], m) ELSE down[n]]

ControlChanged(s) == [kind |-> "control", holder |-> s.holder, gen |-> s.gen]

RoleOf(s, c) == IF s.holder = c THEN "controller" ELSE "observer"

\* Mutant: mutations of one Session interleave.
ServeConcurrently(n, kind) ==
    /\ n \in open
    /\ up[n] # <<>>
    /\ Head(up[n]).kind = kind
    /\ up' = [up EXCEPT ![n] = Tail(@)]

\* The key lane runs one mutation of the Session at a time, per connection
\* in arrival order.
Serve(n, kind) ==
    /\ n \in open
    /\ work = Idle
    /\ up[n] # <<>>
    /\ Head(up[n]).kind = kind
    /\ up' = [up EXCEPT ![n] = Tail(@)]

NewSession(n) ==
    [epoch |-> epochs + 1, applied |-> 0, gen |-> 1, holder |-> owner[n], peers |-> {n}]

Attach(n) ==
    LET c == owner[n]
        s == IF session = NoSession THEN NewSession(n)
             ELSE [session EXCEPT !.peers = {p \in @ : owner[p] # c} \cup {n}]
    IN  /\ Serve(n, "attach")
        /\ s.epoch \in Epochs
        /\ session' = s
        /\ epochs' = IF session = NoSession THEN epochs + 1 ELSE epochs
        /\ down' = Notify({n}, [kind |-> "attached", epoch |-> s.epoch,
                                through |-> s.applied, gen |-> s.gen,
                                role |-> RoleOf(s, c)])
        /\ UNCHANGED <<pageVars, owner, open, work, writeQ, pty>>

IsPeer(n) == session # NoSession /\ n \in session.peers

AcquireControl(n) ==
    /\ Serve(n, "acquire")
    /\ \/ /\ ~IsPeer(n)
          /\ UNCHANGED <<session, down>>
       \/ /\ IsPeer(n)
          /\ session' = IF session.holder = owner[n] THEN session
                        ELSE [session EXCEPT !.holder = owner[n], !.gen = @ + 1]
          /\ down' = Notify(session.peers, ControlChanged(session'))
    /\ UNCHANGED <<pageVars, owner, open, epochs, work, writeQ, pty>>

Authorized(n, f) ==
    IsPeer(n) /\ session.holder = owner[n] /\ session.gen = f.gen

\* Mutant: a covered position is written again.
VerdictForgetsDuplicates(f) ==
    CASE f.epoch # session.epoch      -> "stale_epoch"
      [] f.seq > session.applied + 1  -> "gap"
      [] OTHER                        -> "apply"

\* Mutant: a position past the cursor is written.
VerdictSkipsGaps(f) ==
    CASE f.epoch # session.epoch  -> "stale_epoch"
      [] f.seq <= session.applied -> "duplicate"
      [] OTHER                    -> "apply"

Verdict(f) ==
    CASE f.epoch # session.epoch       -> "stale_epoch"
      [] f.seq <= session.applied      -> "duplicate"
      [] f.seq # session.applied + 1   -> "gap"
      [] OTHER                         -> "apply"

\* Mutant: the position before the one applied is acknowledged.
AckBehind(epoch, through, gen) ==
    [kind |-> "ack", epoch |-> epoch, through |-> through - 1, gen |-> gen]

Ack(epoch, through, gen) ==
    [kind |-> "ack", epoch |-> epoch, through |-> through, gen |-> gen]

RefuseInput(n) ==
    /\ Serve(n, "input")
    /\ ~Authorized(n, Head(up[n]))
    /\ UNCHANGED <<pageVars, owner, open, down, agentVars>>

RestateCursor(n) ==
    LET f == Head(up[n])
    IN  /\ Serve(n, "input")
        /\ Authorized(n, f)
        /\ Verdict(f) # "apply"
        /\ down' = Notify(session.peers, Ack(session.epoch, session.applied, session.gen))
        /\ UNCHANGED <<pageVars, owner, open, agentVars>>

\* The verdict is taken under the lock; the command is then admitted to the
\* ordered writer and the handler waits for it to be written.
BeginWrite(n) ==
    LET f == Head(up[n])
    IN  /\ Serve(n, "input")
        /\ Authorized(n, f)
        /\ Verdict(f) = "apply"
        /\ work' = [conn |-> n, chunk |-> f.chunk, through |-> f.seq, written |-> FALSE,
                    epoch |-> session.epoch, gen |-> session.gen, peers |-> session.peers]
        /\ writeQ' = [writeQ EXCEPT ![session.epoch] = Append(@, f.chunk)]
        /\ UNCHANGED <<pageVars, owner, open, down, session, epochs, pty>>

\* The writer writes and flushes one command.  The handler in progress is
\* waiting for the last one admitted.
WriterStep(e) ==
    /\ writeQ[e] # <<>>
    /\ pty' = Append(pty, Head(writeQ[e]))
    /\ writeQ' = [writeQ EXCEPT ![e] = Tail(@)]
    /\ work' = IF work # Idle /\ work.epoch = e /\ ~work.written /\ Len(writeQ[e]) = 1
               THEN [work EXCEPT !.written = TRUE] ELSE work
    /\ UNCHANGED <<pageVars, wireVars, session, epochs>>

\* Admission timeout, full reply queue or closed transport: not written.
WriteRefused ==
    /\ "refuse" \in Events
    /\ work # Idle /\ ~work.written
    /\ work' = Idle
    /\ writeQ' = [writeQ EXCEPT ![work.epoch] = Front(@)]
    /\ UNCHANGED <<pageVars, wireVars, session, epochs, pty>>

\* The end-to-end budget ran out after admission: the command keeps its
\* place with the writer and the handler reports an error.
WriteTimesOut ==
    /\ "interrupt" \in Events
    /\ work # Idle
    /\ work' = Idle
    /\ UNCHANGED <<pageVars, wireVars, session, epochs, writeQ, pty>>

FinishWrite ==
    /\ work # Idle /\ work.written
    /\ work' = Idle
    /\ \/ /\ session.epoch = work.epoch
          /\ session' = [session EXCEPT !.applied = IF @ < work.through THEN work.through ELSE @]
          /\ down' = Notify(work.peers, Ack(work.epoch, work.through, work.gen))
       \/ /\ session.epoch # work.epoch
          /\ UNCHANGED <<session, down>>
    /\ UNCHANGED <<pageVars, owner, open, up, epochs, writeQ, pty>>

\* One connection's peers leave: the lease is released when its holder has
\* no peer left, the Session is dropped when it has none at all.
Retired(s, n) ==
    LET left == s.peers \ {n}
        held == \E p \in left : owner[p] = s.holder
    IN  IF left = {} THEN NoSession
        ELSE [s EXCEPT !.peers = left, !.holder = IF held THEN @ ELSE NoPage]

\* Mutant: the peers are retired while the mutation still runs.
EndConnectionLeavesWork(n) ==
    /\ n \in open
    /\ open' = open \ {n}
    /\ up' = [up EXCEPT ![n] = <<>>]
    /\ UNCHANGED <<pageVars, owner, down, session, epochs, work, writeQ, pty>>

\* The agent notices the end of a connection: its frames are discarded and
\* its mutation in progress is dropped at the await it is parked on.
EndConnection(n) ==
    /\ n \in open
    /\ work.conn = n => "interrupt" \in Events
    /\ open' = open \ {n}
    /\ up' = [up EXCEPT ![n] = <<>>]
    /\ work' = IF work.conn = n THEN Idle ELSE work
    /\ UNCHANGED <<pageVars, owner, down, session, epochs, writeQ, pty>>

\* Only then are its peers retired, outside the key lane.
RetireConnection(n) ==
    /\ IsPeer(n) /\ n \notin open
    /\ session' = Retired(session, n)
    /\ down' = IF session' # NoSession /\ session'.holder # session.holder
               THEN Notify(session'.peers, ControlChanged(session')) ELSE down
    /\ UNCHANGED <<pageVars, owner, open, up, epochs, work, writeQ, pty>>

\* tmux closed the stream: the Session is forgotten while its peers stay
\* connected, and the closed writer drops what it had not written.
RetireStream ==
    /\ session # NoSession
    /\ session' = NoSession
    /\ writeQ' = [writeQ EXCEPT ![session.epoch] = <<>>]
    /\ work' = IF work # Idle /\ work.epoch = session.epoch /\ ~work.written
               THEN Idle ELSE work
    /\ UNCHANGED <<pageVars, wireVars, epochs, pty>>

\* The agent process dies: every connection, every Session and every command
\* not yet written go with it.  The pane stays.
Restart ==
    /\ open # {}
    /\ open' = {}
    /\ up' = [n \in Conns |-> <<>>]
    /\ session' = NoSession
    /\ work' = Idle
    /\ writeQ' = [e \in Epochs |-> <<>>]
    /\ UNCHANGED <<pageVars, owner, down, epochs, pty>>
-----------------------------------------------------------------------------
Init ==
    /\ queue = [c \in Pages |-> EmptyQueue]
    /\ lease = [c \in Pages |-> UnknownLease]
    /\ phase = [c \in Pages |-> "down"]
    /\ conn = [c \in Pages |-> 0]
    /\ aged = {}
    /\ author = <<>>
    /\ owner = <<>>
    /\ open = {}
    /\ up = [n \in Conns |-> <<>>]
    /\ down = [n \in Conns |-> <<>>]
    /\ session = NoSession
    /\ epochs = 0
    /\ work = Idle
    /\ writeQ = [e \in Epochs |-> <<>>]
    /\ pty = <<>>

PageNext ==
    \E c \in Pages :
        \/ Type(c) \/ GrowOld(c) \/ LoseTransport(c) \/ SwapTransport(c)
        \/ Connect(c) \/ RequestControl(c) \/ Receive(c)

AgentNext ==
    \/ \E n \in Conns :
           \/ Attach(n) \/ AcquireControl(n) \/ RefuseInput(n)
           \/ RestateCursor(n) \/ BeginWrite(n)
           \/ EndConnection(n) \/ RetireConnection(n)
    \/ \E e \in Epochs : WriterStep(e)
    \/ WriteRefused \/ WriteTimesOut \/ FinishWrite \/ RetireStream \/ Restart

Next == PageNext \/ AgentNext

Spec == Init /\ [][Next]_vars

\* Fairness of the parts that run by themselves: the page's message loop, the
\* key lane, the writer task, the end of a connection.  Nobody owes the user a
\* keystroke, a reconnect or a takeover.
FairSpec ==
    /\ Spec
    /\ \A c \in Pages : WF_vars(Receive(c))
    /\ \A n \in Conns : WF_vars(Attach(n) \/ AcquireControl(n) \/ RefuseInput(n)
                                 \/ RestateCursor(n) \/ BeginWrite(n))
    /\ \A n \in Conns : WF_vars(RetireConnection(n))
    /\ \A e \in Epochs : WF_vars(WriterStep(e))
    /\ WF_vars(FinishWrite)
-----------------------------------------------------------------------------
TypeOK ==
    /\ queue \in [Pages -> [chunks : Seq(Chunks), epoch : Nat, gen : Nat,
                            cursor : Nat, lost : SUBSET Chunks]]
    /\ lease \in [Pages -> [role : {"controller", "observer"}, gen : Nat]]
    /\ phase \in [Pages -> {"down", "attaching", "attached"}]
    /\ conn \in [Pages -> Conns \cup {0}]
    /\ aged \subseteq Chunks
    /\ author \in Seq(Pages) /\ owner \in Seq(Pages)
    /\ open \subseteq DOMAIN owner
    /\ session = NoSession \/ (session.epoch \in 1..epochs /\ session.peers \subseteq DOMAIN owner)
    /\ work = Idle \/ work.conn \in open
    /\ writeQ \in [Epochs -> Seq(Chunks)]
    /\ pty \in Seq(DOMAIN author)

\* The abstract log: what the pages hold, what they reported, what arrived.
Held == UNION {ToSet(queue[c].chunks) : c \in Pages}
Lost == UNION {queue[c].lost : c \in Pages}

Log == INSTANCE InputLog WITH held <- Held, lost <- Lost, pane <- pty

\* Input is an exactly-once, in-order, never silently dropped log (state.rs
\* InputVerdict, inputQueue.ts header), through reconnects, takeovers and
\* agent restarts, as long as no chunk outlives its TTL and no write is
\* abandoned half way.
ImplementsInputLog == Log!Spec

\* No chunk reaches the pane twice: a retry is answered with the cursor.
AtMostOnce == IsInjective(pty)

\* A page's chunks reach the pane in the order they were typed, whatever was
\* lost, refused or sent again in between.
AppliedInTypingOrder ==
    \A i, j \in DOMAIN pty :
        i < j /\ author[pty[i]] = author[pty[j]] => pty[i] <= pty[j]

\* Every chunk the user typed is still held, was reported lost, or is in the
\* pane: inputQueue.ts "every refusal and every discard is recorded".
NoSilentLoss == DOMAIN author \subseteq Held \cup Lost \cup ToSet(pty)

\* A position that is still open names the same chunk on the wire and in the
\* page's queue: inputQueue.ts "deriving the sequence number is what makes
\* renumbering impossible".
PositionNamesOneChunk ==
    \A n \in open : \A i \in DOMAIN up[n] :
        LET f == up[n][i]
            q == queue[owner[n]]
        IN  f.kind = "input" /\ f.epoch = q.epoch /\ f.gen = q.gen
            /\ f.seq \in q.cursor + 1 .. q.cursor + Len(q.chunks)
            => f.chunk = q.chunks[f.seq - q.cursor]

\* While a page's bytes are with the writer of a live stream its connection is still
\* subscribed and the lease it was authorized under has not moved: the
\* Session's key lane keeps every takeover behind the write.
LeaseCoversWrite ==
    work # Idle /\ work.epoch = session.epoch =>
        /\ IsPeer(work.conn)
        /\ session.holder = owner[work.conn]
        /\ session.gen = work.gen
        /\ session.applied + 1 = work.through

Controls(c) ==
    /\ phase[c] = "attached" /\ lease[c].role = "controller"
    /\ IsPeer(conn[c]) /\ session.holder = c

\* A chunk held by an attached controller does not stay held: it is applied
\* or reported, unless the page loses the Session.
HeldInputResolves ==
    \A c \in Pages : \A k \in Chunks :
        (k \in ToSet(queue[c].chunks) /\ Controls(c))
            ~> (k \notin ToSet(queue[c].chunks) \/ ~Controls(c))

\* A flush hands over no chunk that outlived maxAgeMs: inputQueue.ts "a flush
\* ... the age bound applies first".
NoStaleInputSent ==
    [][\A n \in Conns : \A i \in Len(up[n]) + 1 .. Len(up'[n]) :
           up'[n][i].kind = "input" => up'[n][i].chunk \notin aged]_vars
=============================================================================
