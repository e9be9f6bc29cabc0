------------------------------ MODULE KeyedLane ------------------------------
(***************************************************************************)
(* The mutation lane the connections of one process share (Lanes::shared). *)
(*                                                                         *)
(*   reader   the read loop of a connection: it takes a slot of its own,   *)
(*            queues the mutation behind its resource, and waits itself    *)
(*            when there is no slot or no room                             *)
(*   lane     KeyedLane: one queue and at most one worker per resource     *)
(*   worker   work_key: runs a resource's mutations until there are none   *)
(*                                                                         *)
(* A step is what happens between two awaits, or under one lock.  The lane *)
(* is built without a worker budget, as both runtimes build it.            *)
(***************************************************************************)
EXTENDS Naturals, Sequences, FiniteSets, SequencesExt

CONSTANTS
    Conns,       \* connections
    Keys,        \* resources
    NoWork,      \* what a worker that found nothing carries
    MaxFrames,   \* bound: frames a connection reads
    Depth,       \* mutations one resource may have queued
    Slots,       \* mutations one connection may have in flight
    Failures     \* what may go wrong, see below

\* "panic"  a mutation panics and takes its worker with it
\* "grace"  a connection stops waiting for its mutations to notice its end
\* "abort"  the reader is dropped without a shutdown of its lanes
AllFailures == {"panic", "grace", "abort"}

Works == [conn : Conns, n : 1..MaxFrames, key : Keys]

ASSUME LaneAssumption ==
    /\ {MaxFrames, Depth, Slots} \subseteq Nat \ {0}
    /\ NoWork \notin Works
    /\ Failures \subseteq AllFailures

VARIABLES
    reader,    \* reader[c]: the step of the read loop, and the mutation in hand
    read,      \* read[c]: frames read so far
    heard,     \* heard[c]: the lane was signalled since c registered for it
    ended,     \* ended[c]: the connection's end was announced to its mutations
    holding,   \* mutations that hold a slot of their connection
    pending,   \* pending[k]: the queue of resource k
    flag,      \* flag[k]: the map has an entry of k, whose worker flag is set
    worker,    \* worker[w]: the worker spawned when w was queued
    failed     \* history: connections whose reader was aborted, and resources
               \* that lost their worker to a failure

readerVars == <<reader, read, heard, ended>>
laneVars   == <<holding, pending, flag, worker, failed>>
vars       == <<readerVars, laneVars>>

Stages == {"reading", "slot", "look", "spawn", "full", "parked",
           "barrier", "ordered", "ending", "gone"}

Idle == [at |-> "reading", work |-> NoWork]
Absent == [at |-> "absent", next |-> NoWork]

At(c, stage) == reader[c].at = stage
Goes(c, stage) == reader' = [reader EXCEPT ![c].at = stage]
Held(c) == {w \in holding : w.conn = c}
-----------------------------------------------------------------------------
(* The reader.                                                             *)

\* A frame is a mutation of some resource, or one that is served in order.
Read(c) ==
    LET n == read[c] + 1
    IN  /\ At(c, "reading") /\ n <= MaxFrames
        /\ read' = [read EXCEPT ![c] = n]
        /\ \/ Goes(c, "barrier")
           \/ \E k \in Keys :
                  reader' = [reader EXCEPT ![c] =
                      [at |-> "slot", work |-> [conn |-> c, n |-> n, key |-> k]]]
        /\ UNCHANGED <<heard, ended, laneVars>>

\* Mutant: the connection's own bound is not waited for.
AcquireSlotUnbounded(c) ==
    /\ At(c, "slot")
    /\ holding' = holding \cup {reader[c].work}
    /\ heard' = [heard EXCEPT ![c] = FALSE]
    /\ Goes(c, "look")
    /\ UNCHANGED <<read, ended, pending, flag, worker, failed>>

\* A slot is taken; the reader registers for the lane's signal before it looks.
AcquireSlot(c) ==
    /\ At(c, "slot")
    /\ Cardinality(Held(c)) < Slots
    /\ holding' = holding \cup {reader[c].work}
    /\ heard' = [heard EXCEPT ![c] = FALSE]
    /\ Goes(c, "look")
    /\ UNCHANGED <<read, ended, pending, flag, worker, failed>>

\* Mutant: the queue, not the flag, says whether a worker is needed.
LookAtQueue(c) ==
    LET w == reader[c].work
        k == w.key
    IN  /\ At(c, "look")
        /\ \/ /\ Len(pending[k]) < Depth
              /\ pending' = [pending EXCEPT ![k] = Append(@, w)]
              /\ flag' = [flag EXCEPT ![k] = TRUE]
              /\ reader' = [reader EXCEPT ![c] =
                     IF pending[k] # <<>> THEN Idle ELSE [@ EXCEPT !.at = "spawn"]]
           \/ /\ Len(pending[k]) >= Depth
              /\ Goes(c, "full")
              /\ UNCHANGED <<pending, flag>>
        /\ UNCHANGED <<read, heard, ended, holding, worker, failed>>

\* Under the lock of the queues: there is room, and whoever sets the flag is
\* the one that spawns, or there is none.
Look(c) ==
    LET w == reader[c].work
        k == w.key
    IN  /\ At(c, "look")
        /\ \/ /\ Len(pending[k]) < Depth
              /\ pending' = [pending EXCEPT ![k] = Append(@, w)]
              /\ flag' = [flag EXCEPT ![k] = TRUE]
              /\ reader' = [reader EXCEPT ![c] =
                     IF flag[k] THEN Idle ELSE [@ EXCEPT !.at = "spawn"]]
           \/ /\ Len(pending[k]) >= Depth
              /\ Goes(c, "full")
              /\ UNCHANGED <<pending, flag>>
        /\ UNCHANGED <<read, heard, ended, holding, worker, failed>>

\* After the wait for the lock of the JoinSet.
Spawn(c) ==
    /\ At(c, "spawn")
    /\ worker' = [worker EXCEPT ![reader[c].work].at = "pop"]
    /\ reader' = [reader EXCEPT ![c] = Idle]
    /\ UNCHANGED <<read, heard, ended, holding, pending, flag, failed>>

\* The first poll of the wait for room.
Park(c) ==
    /\ At(c, "full")
    /\ Goes(c, "parked")
    /\ UNCHANGED <<read, heard, ended, laneVars>>

Wake(c) ==
    /\ At(c, "parked") /\ heard[c]
    /\ heard' = [heard EXCEPT ![c] = FALSE]
    /\ Goes(c, "look")
    /\ UNCHANGED <<read, ended, laneVars>>

\* drain: all slots of the connection are free.
PassBarrier(c) ==
    /\ At(c, "barrier")
    /\ Held(c) = {}
    /\ Goes(c, "ordered")
    /\ UNCHANGED <<read, heard, ended, laneVars>>

ServeOrdered(c) ==
    /\ At(c, "ordered")
    /\ Goes(c, "reading")
    /\ UNCHANGED <<read, heard, ended, laneVars>>

\* Mutant: the shutdown waits and announces nothing.
EndLoopSilently(c) ==
    /\ reader[c].at \in {"reading", "ordered"}
    /\ Goes(c, "ending")
    /\ UNCHANGED <<read, heard, ended, laneVars>>

\* The loop is left: what the connection queued learns that it is over.
EndLoop(c) ==
    /\ reader[c].at \in {"reading", "ordered"}
    /\ ended' = [ended EXCEPT ![c] = TRUE]
    /\ Goes(c, "ending")
    /\ UNCHANGED <<read, heard, laneVars>>

\* The slots came back, or the grace is over.
Leave(c) ==
    /\ At(c, "ending")
    /\ Held(c) = {} \/ "grace" \in Failures
    /\ Goes(c, "gone")
    /\ UNCHANGED <<read, heard, ended, laneVars>>

\* The reader's task is aborted, or leaves through an error, wherever it is:
\* the mutation in hand goes with it, and the one just queued gets no worker.
Abort(c) ==
    /\ "abort" \in Failures
    /\ ~At(c, "gone")
    /\ holding' = IF reader[c].at \in {"look", "full", "parked"}
                  THEN holding \ {reader[c].work} ELSE holding
    /\ reader' = [reader EXCEPT ![c] = [at |-> "gone", work |-> NoWork]]
    /\ failed' = failed \cup {c} \cup
                   (IF At(c, "spawn") THEN {reader[c].work.key} ELSE {})
    /\ UNCHANGED <<read, heard, ended, pending, flag, worker>>
-----------------------------------------------------------------------------
(* The worker that was spawned when b was queued.                          *)

\* Mutant: an idle resource keeps its entry, and with it the flag.
PopKeepsEntry(b) ==
    LET k == b.key
    IN  /\ worker[b].at = "pop"
        /\ \/ /\ pending[k] # <<>>
              /\ pending' = [pending EXCEPT ![k] = Tail(@)]
              /\ worker' = [worker EXCEPT ![b] = [at |-> "signal", next |-> Head(pending[k])]]
              /\ UNCHANGED flag
           \/ /\ pending[k] = <<>>
              /\ worker' = [worker EXCEPT ![b] = [at |-> "signal", next |-> NoWork]]
              /\ UNCHANGED <<pending, flag>>
        /\ UNCHANGED <<readerVars, holding, failed>>

Pop(b) ==
    LET k == b.key
    IN  /\ worker[b].at = "pop"
        /\ \/ /\ pending[k] # <<>>
              /\ pending' = [pending EXCEPT ![k] = Tail(@)]
              /\ worker' = [worker EXCEPT ![b] = [at |-> "signal", next |-> Head(pending[k])]]
              /\ UNCHANGED flag
           \/ /\ pending[k] = <<>>
              /\ flag' = [flag EXCEPT ![k] = FALSE]
              /\ worker' = [worker EXCEPT ![b] = [at |-> "signal", next |-> NoWork]]
              /\ UNCHANGED pending
        /\ UNCHANGED <<readerVars, holding, failed>>

\* Mutant: a reader registers with its first poll, after it looked.
SignalParked(b) ==
    LET w == worker[b].next
    IN  /\ worker[b].at = "signal"
        /\ heard' = [c \in Conns |-> heard[c] \/ At(c, "parked")]
        /\ IF w = NoWork
           THEN worker' = [worker EXCEPT ![b] = Absent] /\ UNCHANGED holding
           ELSE IF ended[w.conn]
           THEN /\ worker' = [worker EXCEPT ![b] = [at |-> "pop", next |-> NoWork]]
                /\ holding' = holding \ {w}
           ELSE worker' = [worker EXCEPT ![b].at = "run"] /\ UNCHANGED holding
        /\ UNCHANGED <<reader, read, ended, pending, flag, failed>>

\* Mutant: the slot is for the queued part of a mutation only.
SignalFreesSlot(b) ==
    LET w == worker[b].next
    IN  /\ worker[b].at = "signal"
        /\ heard' = [c \in Conns |-> heard[c] \/ reader[c].at \in {"look", "full", "parked"}]
        /\ holding' = holding \ {w}
        /\ worker' = [worker EXCEPT ![b] =
               IF w = NoWork THEN Absent
               ELSE IF ended[w.conn] THEN [at |-> "pop", next |-> NoWork]
               ELSE [at |-> "run", next |-> w]]
        /\ UNCHANGED <<reader, read, ended, pending, flag, failed>>

\* Every turn wakes the readers that wait; then the worker runs what it
\* popped, unless its connection is over, or is done.
Signal(b) ==
    LET w == worker[b].next
    IN  /\ worker[b].at = "signal"
        /\ heard' = [c \in Conns |-> heard[c] \/ reader[c].at \in {"look", "full", "parked"}]
        /\ IF w = NoWork
           THEN worker' = [worker EXCEPT ![b] = Absent] /\ UNCHANGED holding
           ELSE IF ended[w.conn]
           THEN /\ worker' = [worker EXCEPT ![b] = [at |-> "pop", next |-> NoWork]]
                /\ holding' = holding \ {w}
           ELSE worker' = [worker EXCEPT ![b].at = "run"] /\ UNCHANGED holding
        /\ UNCHANGED <<reader, read, ended, pending, flag, failed>>

\* The mutation returns, or stops at its next await because its connection
\* is over; either way its slot is free.
Finish(b) ==
    /\ worker[b].at = "run"
    /\ holding' = holding \ {worker[b].next}
    /\ worker' = [worker EXCEPT ![b] = [at |-> "pop", next |-> NoWork]]
    /\ UNCHANGED <<readerVars, pending, flag, failed>>

\* Unwinding frees the slot; nobody clears the flag.
Panic(b) ==
    /\ "panic" \in Failures
    /\ worker[b].at = "run"
    /\ holding' = holding \ {worker[b].next}
    /\ worker' = [worker EXCEPT ![b] = Absent]
    /\ failed' = failed \cup {b.key}
    /\ UNCHANGED <<readerVars, pending, flag>>
-----------------------------------------------------------------------------
Init ==
    /\ reader = [c \in Conns |-> Idle]
    /\ read = [c \in Conns |-> 0]
    /\ heard = [c \in Conns |-> FALSE]
    /\ ended = [c \in Conns |-> FALSE]
    /\ holding = {}
    /\ pending = [k \in Keys |-> <<>>]
    /\ flag = [k \in Keys |-> FALSE]
    /\ worker = [w \in Works |-> Absent]
    /\ failed = {}

\* The steps a reader owes once it read a frame or left its loop.
Dispatch(c) ==
    AcquireSlot(c) \/ Look(c) \/ Spawn(c) \/ Park(c) \/ Wake(c)
        \/ PassBarrier(c) \/ ServeOrdered(c) \/ Leave(c)

Turn(b) == Pop(b) \/ Signal(b) \/ Finish(b)

Next ==
    \/ \E c \in Conns : Read(c) \/ Dispatch(c) \/ EndLoop(c) \/ Abort(c)
    \/ \E b \in Works : Turn(b) \/ Panic(b)

Spec == Init /\ [][Next]_vars

\* The executor polls what is ready, semaphores are fair, and a handler
\* returns.  Nobody owes a connection another frame.
FairSpec ==
    /\ Spec
    /\ \A c \in Conns : WF_vars(Dispatch(c))
    /\ \A b \in Works : WF_vars(Turn(b))
-----------------------------------------------------------------------------
Running == {worker[b].next : b \in Works} \ {NoWork}
Queued == UNION {ToSet(pending[k]) : k \in Keys}

\* Besides the types: the bounds of the queues and of the connections.
TypeOK ==
    /\ reader \in [Conns -> [at : Stages, work : Works \cup {NoWork}]]
    /\ read \in [Conns -> 0..MaxFrames]
    /\ heard \in [Conns -> BOOLEAN] /\ ended \in [Conns -> BOOLEAN]
    /\ flag \in [Keys -> BOOLEAN]
    /\ worker \in [Works -> [at : {"absent", "pop", "signal", "run"},
                             next : Works \cup {NoWork}]]
    /\ pending \in [Keys -> Seq(Works)] /\ holding \subseteq Works
    /\ \A k \in Keys : Len(pending[k]) <= Depth
    /\ \A c \in Conns : Cardinality(Held(c)) <= Slots

Order == INSTANCE KeyOrder WITH waiting <- pending, running <- Running

\* KeyedLane: "a mutation can never overtake an earlier mutation of the same
\* resource", whichever connections they came from, whatever failed.
ImplementsKeyOrder == Order!Spec

\* A frame behind the barrier is served when nothing its connection dispatched
\* is queued or running (SharedKeys::drain).
BarrierHolds ==
    \A c \in Conns : At(c, "ordered") =>
        \A w \in Queued \cup Running : w.conn # c

\* "A mutation is not something to run on behalf of someone who left": what a
\* connection leaves queued never starts ...
Starts(w) == \E b \in Works :
    worker[b].at = "signal" /\ worker'[b].at = "run" /\ worker[b].next = w

GoneNeverStarts == [][\A w \in Works : Starts(w) => ~At(w.conn, "gone")]_vars

\* ... unless its reader was aborted, which announces nothing to the lane.
LeftNeverStarts ==
    [][\A w \in Works : Starts(w) /\ At(w.conn, "gone") => w.conn \in failed]_vars

\* "Neither lane drops": what was queued is run, or skipped for the end of its
\* connection; it does not stay queued, unless its resource lost its worker to a
\* panic or to a reader aborted before it spawned.
QueuedSettles == \A w \in Works : w \in Queued ~> w \notin Queued \/ w.key \in failed

\* A reader that waits reads on: no wake-up is lost, no slot is leaked.  Only
\* a resource without its worker holds up the connections that queued on it, or try to.
HeldUp(c) ==
    \E k \in Keys \cap failed :
        \/ \E w \in ToSet(pending[k]) : w.conn = c
        \/ reader[c].work # NoWork /\ reader[c].work.key = k

ReaderReadsOn ==
    \A c \in Conns :
        reader[c].at \notin {"reading", "gone"}
            ~> reader[c].at \in {"reading", "gone"} \/ HeldUp(c)
=============================================================================
