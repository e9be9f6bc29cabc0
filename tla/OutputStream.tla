---------------------------- MODULE OutputStream ----------------------------
(***************************************************************************)
(* Terminal output of one Session, from the Agent's replay ring to the      *)
(* buffer of one page attached directly (P2P).                              *)
(*                                                                         *)
(*   agent    SessionStreamState: epoch, last position issued, ring floor   *)
(*   wire     live frames (FIFO), history requests with their answers       *)
(*   page     StreamReconciler: frontier, frames held, one request          *)
(*   runtime  SessionRuntime: attach phase, whether to ask for a snapshot,  *)
(*            whether the buffer may have a gap                             *)
(*                                                                         *)
(* A frame is a position of an epoch.  The screen remembers how far it      *)
(* shows the stream and whether anything is missing since its snapshot.     *)
(***************************************************************************)
EXTENDS Integers, Sequences, FiniteSets, SequencesExt, FiniteSetsExt

CONSTANTS
    None,              \* null
    Script,            \* Script[n]: the kind of the event at position n of every epoch
    MaxEpochs,         \* bound: stream states the Agent creates
    MaxAttaches,       \* bound: attaches over a behaviour
    MaxFrames,         \* PendingLimits.maxFrames
    HOLE_ATTEMPT_LIMIT,
    MaxAsked,          \* bound: requests that expired and may still be answered
    Events             \* what may happen around the protocol, see below

\* "restart"  the Agent restarts: new epoch, empty ring
\* "evict"    the ring drops its oldest event (count, bytes or age)
\* "slow"     an answer takes longer than RESUME_DEADLINE_MS
\* "fail"     a history request is refused
\* "level"    tmux reports a size outside the stream
\* "early"    a connection is lost after the snapshot and before the attach answer
\* "lag"      xterm parses a snapshot for longer than a reconnect takes
\* "swap"     the transport is replaced while the buffer is taken for whole
\* "burst"    output overtakes the attach answer while a frame waits for an anchor
AllEvents ==
    {"restart", "evict", "slow", "fail", "level", "early", "lag", "swap", "burst"}

\* "capture"    the pane's history, cut at position 0 of a new stream
\* "truncated"  the same over the byte ceiling: its oldest history is missing
\* "prefix"     a replay of the whole ring
\* "unverified" a capture beside the stream
Snapshots == {"capture", "truncated", "prefix", "unverified"}
Replacing == {"capture", "prefix"}       \* replayReplacesBuffer
Kinds     == {"output", "resize", "huge"}     \* "huge": larger than maxBytes
Positions == 1..Len(Script)
Epochs    == 1..MaxEpochs

\* What a request is answered, and what is known of an attach in progress.
Answers  == [match : BOOLEAN, epoch : Epochs, complete : BOOLEAN, floor : Nat \cup {None},
             from : Nat, upto : Nat]
Attaches == [needs : BOOLEAN, preserve : BOOLEAN, served : BOOLEAN,
             epoch : Epochs \cup {None}, cursor : Nat]

ASSUME OutputAssumption ==
    /\ Script \in Seq(Kinds)
    /\ {MaxEpochs, MaxAttaches, MaxFrames, HOLE_ATTEMPT_LIMIT, MaxAsked} \subseteq Nat \ {0}
    /\ Events \subseteq AllEvents
    /\ None \notin Nat \cup Answers \cup Attaches

VARIABLES
    stream,    \* [epoch, cursor, floor]: the Agent's SessionStreamState
    live,      \* frames on their way to the page
    attach,    \* the attach in progress, or None
    attaches,  \* attaches started so far
    phase,     \* AttachState.phase
    seeded,    \* p2pAttachSeed.streamEpoch is known
    adopted,   \* lastObservedStreamEpoch
    parsing,   \* [epoch, kind] of the snapshot xterm was handed last, or None
    parsed,    \* hasSessionHistory: a snapshot was parsed into this renderer
    page       \* reconciler, screen and gap flags, see Blank

vars == <<stream, live, attach, attaches, phase, seeded, adopted, parsing, parsed, page>>

\* What is shown: everything of `epoch` up to `last` since the snapshot if whole.
\* `twice`: some position was written again.  `size`: the position of the resize
\* applied last, 0 for a level.
EmptyScreen ==
    [epoch |-> None, last |-> 0, whole |-> FALSE, twice |-> FALSE, size |-> 0]

\* A page before its first attach: the fields of StreamReconciler, what is shown,
\* and the flags of SessionRuntime.  `overtaken` is kept for LevelWins alone: the
\* resizes that were held when a level came.
Blank ==
    [epoch |-> None, frontier |-> None, pending |-> <<>>, wantHistory |-> FALSE,
     attemptsFor |-> None, attempts |-> 0, inFlight |-> 0, asked |-> {},
     overtaken |-> {},
     screen |-> EmptyScreen, mayHaveGap |-> FALSE, repairPending |-> FALSE]

----------------------------------------------------------------------------
(* The Agent's ring.                                                        *)

\* replay_since; `from` is the first event returned.  A request about another
\* epoch is answered with no events.
ReplaySince(epoch, after) ==
    IF epoch # stream.epoch
    THEN [match |-> FALSE, epoch |-> stream.epoch, complete |-> TRUE, floor |-> None,
          from |-> 1, upto |-> 0]
    ELSE [match |-> TRUE, epoch |-> epoch,
          complete |-> after <= stream.cursor /\ after + 1 >= stream.floor,
          floor |-> stream.floor,
          from |-> Max({after + 1, stream.floor}),
          upto |-> IF after > stream.cursor THEN 0 ELSE stream.cursor]

\* An event larger than the ring leaves nothing behind it to replay.
FloorAfter(position) ==
    IF Script[position] = "huge" THEN position + 1 ELSE stream.floor

----------------------------------------------------------------------------
(* The page: operators on the record `page`.                                *)

\* SessionRuntime.noteStreamTruncated.
Truncated(p) == [p EXCEPT !.mayHaveGap = TRUE, !.repairPending = FALSE]

\* Frames lo..hi of the adopted epoch reach the renderer.
Show(p, lo, hi, frames) ==
    LET s     == p.screen
        sizes == {n \in lo..hi : frames[n].kind = "resize" /\ ~frames[n].superseded}
    IN  IF hi < lo THEN s ELSE
        [epoch |-> p.epoch,
         last  |-> hi,
         whole |-> s.whole /\ s.epoch = p.epoch /\ lo = s.last + 1,
         twice |-> s.twice \/ (s.epoch = p.epoch /\ lo <= s.last),
         size  |-> IF sizes = {} THEN s.size ELSE Max(sizes)]

Frame(n)         == [kind |-> Script[n], superseded |-> FALSE]
ShowOne(p, n)    == Show(p, n, n, [m \in {n} |-> Frame(n)])
Frontier(p)      == IF p.frontier = None THEN 0 ELSE p.frontier
Lowest(p)        == Min(DOMAIN p.pending)
Passed(p, n)     == p.frontier # None /\ n <= p.frontier

\* generation += 1: whatever answers what was asked so far will change nothing, so
\* those requests are forgotten here.
NextGeneration(p) == [p EXCEPT !.asked = {}]

Reset(p, epoch) ==
    [NextGeneration(p) EXCEPT
        !.epoch = epoch, !.frontier = None, !.pending = <<>>, !.wantHistory = FALSE,
        !.attemptsFor = None, !.attempts = 0, !.inFlight = 0, !.overtaken = {}]

\* Frames the frontier has passed are forgotten, those next in line committed.
Drain(p) ==
    IF p.frontier = None THEN p ELSE
    LET ahead == {n \in DOMAIN p.pending : n > p.frontier}
        run   == {n \in ahead : (p.frontier + 1)..n \subseteq ahead}
        top   == p.frontier + Cardinality(run)
    IN  [p EXCEPT !.pending = [n \in ahead \ run |-> p.pending[n]],
                  !.screen = Show(p, p.frontier + 1, top, p.pending),
                  !.frontier = top]

Anchor(p) ==
    IF p.frontier = None /\ p.pending # <<>>
    THEN [p EXCEPT !.frontier = Lowest(p) - 1]
    ELSE p

SkipHole(p, toExclusive) ==
    LET held   == IF p.pending # <<>> THEN Lowest(p) ELSE toExclusive
        anchor == Min({toExclusive, held}) - 1
    IN  Drain(IF p.frontier = None \/ anchor > p.frontier
              THEN [p EXCEPT !.frontier = anchor]
              ELSE p)

\* Mutant: the loss is not stated.
AbandonSilently(p) ==
    LET q == [p EXCEPT !.attemptsFor = None, !.attempts = 0, !.wantHistory = FALSE]
    IN  IF q.pending = <<>> THEN q ELSE SkipHole(q, Lowest(q))

Abandon(p) ==
    LET q == [p EXCEPT !.attemptsFor = None, !.attempts = 0, !.wantHistory = FALSE]
    IN  IF q.pending = <<>> THEN q ELSE SkipHole(Truncated(q), Lowest(q))

NoteAttempt(p, position) ==
    [p EXCEPT !.attempts = IF p.attemptsFor = position THEN @ + 1 ELSE 1,
              !.attemptsFor = position]

AttemptsAt(p, position) == IF p.attemptsFor = position THEN p.attempts ELSE 0

\* At most one request waits; requests are told apart by identity, `id`.
Recover(p) ==
    LET after == Frontier(p)
        id    == Min(1..(Cardinality(p.asked) + 1) \ {f.id : f \in p.asked})
    IN  IF p.epoch = None \/ p.inFlight # 0 \/ (p.pending = <<>> /\ ~p.wantHistory) THEN p
        ELSE IF AttemptsAt(p, after) >= HOLE_ATTEMPT_LIMIT THEN Abandon(p)
        ELSE [p EXCEPT !.inFlight = id,
                       !.asked = @ \cup {[id |-> id, epoch |-> p.epoch, after |-> after,
                                          answer |-> None]}]

With(pending, n, frame) ==
    [m \in DOMAIN pending \cup {n} |-> IF m = n THEN frame ELSE pending[m]]

\* Mutant: no limit.
KeepFrameAlways(p, n, frame) ==
    IF n \in DOMAIN p.pending \/ Passed(p, n) THEN p
    ELSE [p EXCEPT !.pending = With(@, n, frame)]

\* At its limit the buffer is given up, and that is stated.
KeepFrame(p, n, frame) ==
    LET huge == frame.kind = "huge"
        q    == IF Cardinality(DOMAIN p.pending) >= MaxFrames \/ huge
                THEN [Truncated(NextGeneration(p)) EXCEPT
                        !.pending = <<>>, !.inFlight = 0, !.wantHistory = FALSE,
                        !.attemptsFor = None, !.attempts = 0, !.overtaken = {},
                        !.frontier = Max({Frontier(p), n - 1})]
                ELSE p
    IN  IF n \in DOMAIN p.pending \/ Passed(p, n) THEN p
        ELSE IF huge THEN [q EXCEPT !.screen = ShowOne(q, n), !.frontier = Max({@, n})]
        ELSE [q EXCEPT !.pending = With(@, n, frame)]

\* acceptLive and acceptLiveResize.
Accept(p, epoch, n) ==
    LET anchors == p.epoch = None \/ p.frontier = None
        changed == p.epoch # None /\ epoch # p.epoch
        q       == IF anchors \/ changed THEN Reset(p, epoch) ELSE p
        kept    == KeepFrame(q, n, Frame(n))
    IN  IF Passed(q, n) THEN q
        ELSE IF ~changed /\ q.pending = <<>> /\ (q.frontier = None \/ n = q.frontier + 1)
        THEN Recover([q EXCEPT !.frontier = n, !.screen = ShowOne(q, n)])
        ELSE Recover(Drain(IF anchors THEN Anchor(kept) ELSE kept))

\* Mutant: the resizes that wait are not told.
AcceptLevelAlone(p) ==
    [p EXCEPT !.screen.size = 0,
              !.overtaken = @ \cup {n \in DOMAIN p.pending : p.pending[n].kind = "resize"}]

\* acceptLevelResize: the newest size beats the resizes that still wait.
AcceptLevel(p) ==
    LET waiting      == {n \in DOMAIN p.pending : p.pending[n].kind = "resize"}
        Overtaken(n) == [p.pending[n] EXCEPT !.superseded = @ \/ n \in waiting]
    IN  [p EXCEPT !.pending = [n \in DOMAIN p.pending |-> Overtaken(n)],
                  !.screen.size = 0,
                  !.overtaken = @ \cup waiting]

\* One event of an answer.
Merge(p, n) ==
    IF Passed(p, n) \/ n \in DOMAIN p.pending THEN p
    ELSE IF p.pending = <<>> /\ p.frontier # None /\ n = p.frontier + 1
    THEN [p EXCEPT !.frontier = n, !.screen = ShowOne(p, n)]
    ELSE Drain(KeepFrame(p, n, Frame(n)))

Settle(p, f) == [p EXCEPT !.asked = @ \ {f}]

\* Mutant: inFlight is not cleared.
UnwaitNever(p, f) == p

\* The request is no longer waited for, if it still was.
Unwait(p, f) == IF p.inFlight = f.id THEN [p EXCEPT !.inFlight = 0] ELSE p

OnReply(p, f) ==
    LET a      == f.answer
        heard  == [Unwait(p, f) EXCEPT !.wantHistory = FALSE]
        here   == IF a.match THEN heard ELSE Reset(heard, a.epoch)
        merged == FoldLeft(Merge, here, [i \in 1..(a.upto + 1 - a.from) |-> a.from + i - 1])
        window == IF a.complete THEN merged ELSE SkipHole(Truncated(merged), a.floor)
    IN  Recover(Drain(NoteAttempt(Anchor(window), f.after)))

\* Mutant: a refusal waits for the next frame to ask again.
OnReplyFailedRests(p, f) == Drain(Anchor(NoteAttempt(Unwait(p, f), f.after)))

OnReplyFailed(p, f) ==
    LET noted == NoteAttempt(Unwait(p, f), f.after)
    IN  IF p.frontier = None THEN Drain(Anchor(noted)) ELSE Recover(noted)

\* Mutant: the cursor of the answer always wins.
SeedRegresses(p, epoch, cursor, preserveAppliedCursor) ==
    LET here == IF epoch = p.epoch THEN p ELSE Reset(p, epoch)
    IN  Recover(Drain([here EXCEPT !.frontier = cursor, !.wantHistory = TRUE]))

\* Mutant: a page that kept its buffer is moved to the cursor of the answer.
SeedFastForwards(p, epoch, cursor, preserveAppliedCursor) ==
    LET here   == IF epoch = p.epoch THEN p ELSE Reset(p, epoch)
        placed == IF here.frontier = None \/ cursor > here.frontier
                  THEN [here EXCEPT !.frontier = cursor]
                  ELSE here
    IN  Recover(Drain([placed EXCEPT !.wantHistory = TRUE]))

Seed(p, epoch, cursor, preserveAppliedCursor) ==
    LET continuing == preserveAppliedCursor /\ epoch = p.epoch /\ p.frontier # None
        lostEpoch  == preserveAppliedCursor /\ p.epoch # None /\ epoch # p.epoch
        here       == IF epoch = p.epoch THEN p ELSE Reset(p, epoch)
        stated     == IF lostEpoch THEN Truncated(here) ELSE here
        placed     == IF ~continuing /\ (stated.frontier = None \/ cursor > stated.frontier)
                      THEN [stated EXCEPT !.frontier = cursor]
                      ELSE stated
    IN  Recover(Drain([placed EXCEPT !.wantHistory = TRUE]))

----------------------------------------------------------------------------
Init ==
    /\ stream = [epoch |-> 1, cursor |-> 0, floor |-> 1]
    /\ live = <<>>
    /\ attach = None
    /\ attaches = 0
    /\ phase = "idle"
    /\ seeded = FALSE
    /\ adopted = None
    /\ parsing = None
    /\ parsed = FALSE
    /\ page = Blank

agentVars   == <<stream>>
runtimeVars == <<attach, attaches, phase, seeded, adopted, parsing, parsed>>

\* The Agent forwards to the page from the moment it serves the attach.
Subscribed == phase = "attached" \/ (phase = "attaching" /\ attach.served)

(* Agent.                                                                   *)

Record ==
    LET n == stream.cursor + 1
    IN  /\ n \in Positions
        /\ stream' = [stream EXCEPT !.cursor = n, !.floor = FloorAfter(n)]
        /\ live' = IF Subscribed
                   THEN Append(live, [kind |-> "event", epoch |-> stream.epoch, seq |-> n])
                   ELSE live
        /\ UNCHANGED <<runtimeVars, page>>

Evict ==
    /\ "evict" \in Events
    /\ stream.floor <= stream.cursor
    /\ stream' = [stream EXCEPT !.floor = @ + 1]
    /\ UNCHANGED <<live, runtimeVars, page>>

\* tmux's size, sent outside the stream.
Level ==
    /\ "level" \in Events /\ Subscribed
    /\ ~\E i \in DOMAIN live : live[i].kind = "level"
    /\ live' = Append(live, [kind |-> "level", epoch |-> stream.epoch, seq |-> 0])
    /\ UNCHANGED <<agentVars, runtimeVars, page>>

\* The snapshots the ring allows.  The stream starts with the attach that takes
\* its capture; after that a ring that lost nothing is sent whole if it holds
\* output that fits, else a capture nobody vouches for.
Obtainable ==
    {"unverified"} \cup (IF stream.cursor = 0 THEN {"capture", "truncated"}
                         ELSE IF stream.floor = 1 THEN {"prefix"} ELSE {})

\* The snapshot goes ahead of the frames of the new subscription; the answer
\* states the cursor.  A snapshot that was not asked for is not sent, and taking
\* it may fail.
ServeAttach(snapshot) ==
    /\ phase = "attaching" /\ ~attach.served
    /\ snapshot \in (IF attach.needs THEN Obtainable ELSE {}) \cup {"none"}
    /\ attach' = [attach EXCEPT !.served = TRUE, !.epoch = stream.epoch,
                                !.cursor = stream.cursor]
    /\ live' = IF snapshot = "none" THEN <<>>
               ELSE <<[kind |-> snapshot, epoch |-> stream.epoch, seq |-> stream.cursor]>>
    /\ UNCHANGED <<agentVars, attaches, phase, seeded, adopted, parsing, parsed, page>>

\* Requests follow the attach on the socket; one made while there is no
\* connection waits for the next (WebSocketService.request).
Answer(f) ==
    /\ Subscribed
    /\ f.answer = None
    /\ page' = [page EXCEPT !.asked = (@ \ {f}) \cup
                   {[f EXCEPT !.answer = ReplaySince(f.epoch, f.after)]}]
    /\ UNCHANGED <<agentVars, live, runtimeVars>>

----------------------------------------------------------------------------
(* Page.                                                                    *)

DeliverEvent ==
    /\ live # <<>> /\ Head(live).kind = "event"
    /\ page.frontier = None /\ page.pending # <<>> => "burst" \in Events
    /\ live' = Tail(live)
    /\ page' = Accept(page, Head(live).epoch, Head(live).seq)
    /\ UNCHANGED <<agentVars, runtimeVars>>

DeliverLevel ==
    /\ live # <<>> /\ Head(live).kind = "level"
    /\ live' = Tail(live)
    /\ page' = AcceptLevel(page)
    /\ UNCHANGED <<agentVars, runtimeVars>>

\* A snapshot has no position: it passes the reconciler by.  It replaces the
\* buffer, or repaints the visible screen only.
DeliverSnapshot ==
    /\ live # <<>> /\ Head(live).kind \in Snapshots
    /\ live' = Tail(live)
    /\ page' = [page EXCEPT !.screen.epoch = Head(live).epoch,
                            !.screen.last = Head(live).seq,
                            !.screen.whole = Head(live).kind \in Replacing]
    /\ parsing' = [epoch |-> Head(live).epoch, kind |-> Head(live).kind]
    /\ UNCHANGED <<agentVars, attach, attaches, phase, seeded, adopted, parsed>>

\* xterm parsed the snapshot.  A cut of the stream states its epoch
\* (setVerifiedTerminalBaseline); only a whole capture repairs the buffer
\* (noteBootstrapApplied).
Parse ==
    /\ parsing # None
    /\ parsing' = None
    /\ parsed' = TRUE
    /\ adopted' = IF parsing.kind = "unverified" THEN adopted ELSE parsing.epoch
    /\ page' = IF page.repairPending /\ parsing.kind = "capture"
               THEN [page EXCEPT !.repairPending = FALSE, !.mayHaveGap = FALSE]
               ELSE page
    /\ UNCHANGED <<agentVars, live, attach, attaches, phase, seeded>>

Reply(f) ==
    /\ phase = "attached"
    /\ f.answer # None
    /\ page' = OnReply(Settle(page, f), f)
    /\ UNCHANGED <<agentVars, live, runtimeVars>>

Fail(f) ==
    /\ "fail" \in Events /\ phase = "attached"
    /\ page' = OnReplyFailed(Settle(page, f), f)
    /\ UNCHANGED <<agentVars, live, runtimeVars>>

\* The deadline of the request that is waited for.  Its answer may still come.
Expire ==
    /\ "slow" \in Events
    /\ page.inFlight # 0 /\ Cardinality(page.asked) <= MaxAsked
    /\ page' = Abandon([page EXCEPT !.inFlight = 0])
    /\ UNCHANGED <<agentVars, live, runtimeVars>>

----------------------------------------------------------------------------
(* Runtime.                                                                 *)

\* needsBootstrap: something may be missing, or nothing is shown, or what is
\* shown holds no snapshot.
NeedsBootstrap ==
    page.mayHaveGap \/ page.screen.epoch = None \/ ~parsed

\* maybeStartP2PAttach and requestBootstrapForAttach.
StartAttach ==
    /\ phase \in {"idle", "lost"}
    /\ attaches < MaxAttaches
    /\ attaches' = attaches + 1
    /\ phase' = "attaching"
    /\ attach' = [needs |-> NeedsBootstrap, preserve |-> ~NeedsBootstrap /\ seeded,
                  served |-> FALSE, epoch |-> None, cursor |-> 0]
    /\ page' = IF NeedsBootstrap
               THEN [page EXCEPT !.mayHaveGap = TRUE, !.repairPending = TRUE]
               ELSE page
    /\ UNCHANGED <<agentVars, live, seeded, adopted, parsing, parsed>>

\* The attach answer is next on the socket, which may be behind the snapshot only.
MayAttach ==
    /\ phase = "attaching" /\ attach.served
    /\ \A i \in DOMAIN live : live[i].kind \notin Snapshots

\* onAttachOk and applyAttachSeedToLiveTransport; noteStreamEpochChanged keeps a
\* snapshot that was asked for.
ReceiveAttached ==
    /\ MayAttach
    /\ phase' = "attached"
    /\ attach' = None
    /\ adopted' = attach.epoch
    /\ seeded' = TRUE
    /\ LET gap == page.mayHaveGap \/ adopted \notin {None, attach.epoch}
       IN  page' = Seed([page EXCEPT !.mayHaveGap = gap],
                        attach.epoch, attach.cursor, attach.preserve)
    /\ UNCHANGED <<agentVars, live, attaches, parsing, parsed>>

\* failPending: every request on the socket is rejected, the older first; the one
\* that is waited for was made last.
Rejected(p) ==
    LET late         == {f \in p.asked : f.id # p.inFlight}
        Reject(f, q) == OnReplyFailed(Settle(q, f), f)
    IN  FoldSet(Reject, FoldSet(Reject, p, late), p.asked \ late)

\* What the socket carried is gone with it.
LoseConnection ==
    /\ phase' = "lost"
    /\ attach' = None
    /\ live' = <<>>
    /\ page' = Rejected(page)
    /\ UNCHANGED <<attaches, seeded, adopted, parsing, parsed>>

\* A connection is lost at any time; between the snapshot and the answer of an
\* attach, or while xterm parses the snapshot, as an event of its own.
MayLose ==
    /\ phase = "attaching" /\ attach.served => "early" \in Events
    /\ parsing # None => "lag" \in Events

Lose ==
    /\ phase \in {"attaching", "attached"} /\ MayLose
    /\ LoseConnection
    /\ UNCHANGED agentVars

Restart ==
    /\ "restart" \in Events
    /\ stream.epoch < MaxEpochs /\ MayLose
    /\ stream' = [epoch |-> stream.epoch + 1, cursor |-> 0, floor |-> 1]
    /\ IF phase \in {"idle", "lost"}
       THEN UNCHANGED <<live, runtimeVars, page>>
       ELSE LoseConnection

\* The next candidate address, or another route: the transport is built anew over
\* the same renderer.  A new reconciler; the flags and the seed stay.
Swap ==
    /\ phase = "lost"
    /\ NeedsBootstrap \/ "swap" \in Events
    /\ page' = Reset(page, None)
    /\ live' = <<>>
    /\ parsing' = None
    /\ UNCHANGED <<agentVars, attach, attaches, phase, seeded, adopted, parsed>>

Next ==
    \/ Record \/ Evict \/ Level
    \/ \E snapshot \in Snapshots \cup {"none"} : ServeAttach(snapshot)
    \/ \E f \in page.asked : Answer(f) \/ Reply(f) \/ Fail(f)
    \/ DeliverEvent \/ DeliverLevel \/ DeliverSnapshot
    \/ Parse \/ Expire
    \/ StartAttach \/ ReceiveAttached \/ Lose \/ Restart \/ Swap

Spec == Init /\ [][Next]_vars

Asked    == Subscribed /\ \E f \in page.asked : f.answer = None
Answered == phase = "attached" /\ \E f \in page.asked : f.answer # None

\* The read loops, the agent, the timers and the parser run; nobody owes an event,
\* a loss, a refusal or a restart, and a lost connection is dialled again.  The
\* disjunctions are WF with ENABLED spelled out: TLC is slow at ENABLED of the
\* page's operators.
Fairness ==
    /\ WF_vars(StartAttach)
    /\ WF_vars(\E snapshot \in Snapshots \cup {"none"} : ServeAttach(snapshot))
    /\ WF_vars(Parse)
    /\ []<>(live = <<>>)
         \/ []<><<DeliverEvent \/ DeliverLevel \/ DeliverSnapshot>>_vars
    /\ []<>~MayAttach \/ []<><<ReceiveAttached>>_vars
    /\ []<>(page.inFlight = 0 \/ "slow" \notin Events) \/ []<><<Expire>>_vars
    /\ []<>~Asked \/ []<><<\E f \in page.asked : Answer(f)>>_vars
    /\ []<>~Answered \/ []<><<\E f \in page.asked : Reply(f)>>_vars

FairSpec == Spec /\ Fairness

----------------------------------------------------------------------------
(* Properties.                                                              *)

TypeOK ==
    /\ stream \in [epoch : Epochs, cursor : Nat, floor : Nat \ {0}]
    /\ live \in Seq([kind : {"event", "level"} \cup Snapshots, epoch : Epochs, seq : Nat])
    /\ phase \in {"idle", "attaching", "attached", "lost"}
    /\ (attach # None) = (phase = "attaching")
    /\ page.epoch \in Epochs \cup {None}
    /\ page.frontier \in Nat \cup {None}
    /\ DOMAIN page.pending \subseteq Positions
    /\ Cardinality(DOMAIN page.pending) <= MaxFrames
    /\ page.attempts \in Nat
    /\ page.inFlight # 0 => \E f \in page.asked : f.id = page.inFlight

\* While attached, what is on the screen is everything since its snapshot, or
\* the runtime knows that it may not be (SessionRuntime.ts:626).
BufferHonest == phase = "attached" => page.screen.whole \/ page.mayHaveGap

\* No position is written to the renderer twice, and none after a later one.
ShownOnce == ~page.screen.twice

\* What is held sits behind a hole that is being asked about or was given up for
\* good: a held frame is never the next one, and while attached a hole waits
\* without a request only behind a loss that is stated.
HeldIsBehindAHole ==
    page.pending # <<>> =>
        /\ phase = "attached" =>
               page.inFlight # 0 \/ (page.mayHaveGap /\ ~page.repairPending)
        /\ page.frontier # None => Lowest(page) > page.frontier + 1

\* A frame that is held is let go only when it is shown in its turn, when what is
\* shown covers it, when its epoch is left, or when a loss is stated.
HeldIsAccounted ==
    [][\A n \in DOMAIN page.pending :
          \/ n \in DOMAIN page'.pending
          \/ page.screen.epoch = page.epoch /\ page.screen.last >= n
          \/ /\ page'.screen.epoch = page.epoch /\ page'.screen.last >= n
             /\ page'.screen.whole \/ ~page.screen.whole \/ page.screen.epoch # page.epoch
          \/ page'.epoch # page.epoch
          \/ page'.mayHaveGap]_vars

\* A level beats the resizes held when it came: none of them is applied later,
\* not even when an answer brings it again, unless the buffer was given up.
LevelWins == page.screen.size \notin page.overtaken

\* A page that stays attached comes to rest: nothing is held back, nothing asked.
Settles ==
    <>[](phase = "attached") => <>[](page.pending = <<>> /\ page.inFlight = 0)

\* A position was asked about so often that the next attach there asks nothing.
AskedOut == phase = "attaching" /\ AttemptsAt(page, Frontier(page)) >= HOLE_ATTEMPT_LIMIT

\* A page that stays attached ends up showing everything, or knows that it does
\* not, unless it attached again where it had asked HOLE_ATTEMPT_LIMIT times: the
\* attempts at a position are not forgotten when they are answered in full.
CatchesUp ==
    <>[](phase = "attached") /\ []~AskedOut =>
        <>[](\/ page.screen.epoch = stream.epoch /\ page.screen.last = stream.cursor
             \/ page.mayHaveGap)
=============================================================================
