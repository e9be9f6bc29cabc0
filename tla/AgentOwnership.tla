---------------------------- MODULE AgentOwnership ----------------------------
(***************************************************************************)
(* The Server's control plane for one agent id.                            *)
(*                                                                         *)
(*   CommandBroker     which connection owns the agent, and the commands    *)
(*                     waiting for its answer                               *)
(*   AgentRegistry     what the agent published, and whether it is online   *)
(*   SessionRegistry   the sessions the agent reported                      *)
(*                                                                         *)
(* Connections are accepted in order; the agent comes back on a new one     *)
(* while the old one may still be read.  Every handler is a sequence of     *)
(* steps, one between two awaits, and the steps of different connections,   *)
(* of the heartbeat sweep and of a client's delete interleave.              *)
(***************************************************************************)
EXTENDS Naturals

CONSTANTS
    MaxConns,    \* bound: connections accepted for this agent
    MaxDeletes,  \* bound: deletes of this agent
    Requests,    \* commands clients may send
    Kinds,       \* what a registered agent may report
    Sweeps,      \* whether the heartbeat sweep runs
    Failing      \* whether reading a connection, or a handler, may fail

AllKinds == {"heartbeat", "sessions", "addresses"}

ASSUME OwnershipAssumption ==
    /\ MaxConns \in Nat \ {0} /\ MaxDeletes \in Nat
    /\ Kinds \subseteq AllKinds
    /\ Sweeps \in BOOLEAN /\ Failing \in BOOLEAN

Conns == 1..MaxConns

VARIABLES
    accepted,  \* connections accepted so far; the n-th has generation n
    conn,      \* conn[g]: "new", "open", "bound" (registered) or "closed"
    task,      \* task[g]: the step the handler of connection g is at
    mark,      \* high_water_generation; 0 when the agent has no record
    active,    \* the generation whose sender is installed, 0 for none
    pending,   \* requests with a waiter in pending_commands
    call,      \* call[r]: where send_command is with request r
    carrier,   \* carrier[r]: the generation whose sender it took
    gate,      \* the registration gate in the map, 0 when there is none
    gates,     \* gate objects created so far
    locked,    \* gate objects some registration holds
    registry,  \* the published entry, or Unknown
    sessions,  \* the generations whose session reports are listed
    sweep,     \* "idle" or "verdict": marked offline, not yet evicted
    grace,     \* "idle", "waiting" or "expired": the clean-up after a verdict
    delete,    \* the step a client's delete is at
    deletes    \* deletes started

brokerVars  == <<mark, active, pending>>
commandVars == <<call, carrier>>
gateVars    == <<gate, gates, locked>>
dutyVars    == <<sweep, grace, delete, deletes>>
listVars    == <<registry, sessions>>
vars == <<accepted, conn, task, brokerVars, commandVars, gateVars, listVars, dutyVars>>

Unknown == [gen |-> 0, online |-> FALSE]
NoTask  == [at |-> "idle"]
At(g, step) == task[g].at = step
-----------------------------------------------------------------------------
(* CommandBroker operations on the record.                                 *)

\* A generation older than the mark may neither claim nor register.
Superseded(g) == mark > g

\* Mutant: a superseded connection claims as well.
ClaimAlways(g) == mark' = g /\ active' = g

\* Mutant: a generation the mark already names does not claim again.
ClaimNewer(g) ==
    IF mark >= g THEN UNCHANGED <<mark, active>> ELSE mark' = g /\ active' = g

Claim(g) ==
    IF Superseded(g) THEN UNCHANGED <<mark, active>> ELSE mark' = g /\ active' = g

\* Mutant: the waiters outlive the owner.
ReleaseKeepsPending(g) ==
    IF active = g THEN active' = 0 /\ UNCHANGED <<mark, pending>>
    ELSE UNCHANGED brokerVars

\* Mutant: the disconnect is compared with the mark, not with the owner.
ReleaseComparesMark(g) ==
    IF mark = g THEN active' = 0 /\ pending' = {} /\ UNCHANGED mark
    ELSE UNCHANGED brokerVars

Release(g) ==
    IF active = g THEN active' = 0 /\ pending' = {} /\ UNCHANGED mark
    ELSE UNCHANGED brokerVars

\* Mutant: the verdict erases the record and the mark with it.
EvictErasesMark == mark' = 0 /\ active' = 0 /\ pending' = {}

Evict == active' = 0 /\ pending' = {} /\ UNCHANGED mark
-----------------------------------------------------------------------------
(* Connections.                                                            *)

Accept ==
    LET g == accepted + 1
    IN  /\ g \in Conns
        /\ accepted' = g
        /\ conn' = [conn EXCEPT ![g] = "open"]
        /\ UNCHANGED <<task, brokerVars, commandVars, gateVars, listVars, dutyVars>>

\* A registration looks its gate up, creating it if the map has none.
Register(g) ==
    /\ conn[g] = "open" /\ task[g] = NoTask
    /\ IF gate = 0 THEN gate' = gates + 1 /\ gates' = gates + 1 ELSE UNCHANGED <<gate, gates>>
    /\ task' = [task EXCEPT ![g] = [at |-> "gate", gate |-> gate']]
    /\ UNCHANGED <<accepted, conn, brokerVars, commandVars, locked, listVars, dutyVars>>

\* Mutant: the gate orders registrations, and nothing compares the mark.
EnterGateUnchecked(g) ==
    /\ At(g, "gate")
    /\ task[g].gate \notin locked
    /\ mark' = g
    /\ locked' = locked \cup {task[g].gate}
    /\ task' = [task EXCEPT ![g].at = "publish"]
    /\ UNCHANGED <<accepted, conn, active, pending, commandVars, gate, gates, listVars, dutyVars>>

\* The gate is acquired and the mark compared under the registry lock.
EnterGate(g) ==
    /\ At(g, "gate")
    /\ task[g].gate \notin locked
    /\ IF Superseded(g)
       THEN task' = [task EXCEPT ![g] = NoTask] /\ UNCHANGED <<mark, locked>>
       ELSE /\ mark' = g
            /\ locked' = locked \cup {task[g].gate}
            /\ task' = [task EXCEPT ![g].at = "publish"]
    /\ UNCHANGED <<accepted, conn, active, pending, commandVars, gate, gates, listVars, dutyVars>>

Publish(g) ==
    /\ At(g, "publish")
    /\ registry' = [gen |-> g, online |-> TRUE]
    /\ conn' = [conn EXCEPT ![g] = "bound"]
    /\ task' = [task EXCEPT ![g].at = "clear"]
    /\ UNCHANGED <<accepted, brokerVars, commandVars, gateVars, sessions, dutyVars>>

\* Mutant: the gate is not released.
ClearKeepsGate(g) ==
    /\ At(g, "clear")
    /\ sessions' = {}
    /\ task' = [task EXCEPT ![g] = [at |-> "claim"]]
    /\ UNCHANGED <<accepted, conn, brokerVars, commandVars, gateVars, registry, dutyVars>>

\* The sessions of the instance before go, the gate is released.
ClearSessions(g) ==
    /\ At(g, "clear")
    /\ sessions' = {}
    /\ locked' = locked \ {task[g].gate}
    /\ task' = [task EXCEPT ![g] = [at |-> "claim"]]
    /\ UNCHANGED <<accepted, conn, brokerVars, commandVars, gate, gates, registry, dutyVars>>

\* The claim every frame ends with.
ClaimChannel(g) ==
    /\ At(g, "claim")
    /\ Claim(g)
    /\ task' = [task EXCEPT ![g] = NoTask]
    /\ UNCHANGED <<accepted, conn, pending, commandVars, gateVars, listVars, dutyVars>>

\* A frame that reports nothing: a ping, a query.
Speak(g) ==
    /\ conn[g] = "bound" /\ task[g] = NoTask
    /\ task' = [task EXCEPT ![g] = [at |-> "claim"]]
    /\ UNCHANGED <<accepted, conn, brokerVars, commandVars, gateVars, listVars, dutyVars>>

\* authorized_agent_id and the registry lookup, before the first write.
Report(g, kind) ==
    /\ conn[g] = "bound" /\ task[g] = NoTask
    /\ task' = [task EXCEPT ![g] =
           IF Superseded(g) \/ registry = Unknown THEN [at |-> "claim"]
           ELSE [at |-> kind, read |-> registry]]
    /\ UNCHANGED <<accepted, conn, brokerVars, commandVars, gateVars, listVars, dutyVars>>

\* The write the check was for.  A session is listed or gone; an address update
\* writes the entry it read back whole.
Apply(g) ==
    /\ task[g].at \in Kinds
    /\ CASE At(g, "heartbeat") ->
              /\ registry' = IF registry = Unknown THEN Unknown
                             ELSE [registry EXCEPT !.online = TRUE]
              /\ UNCHANGED sessions
         [] At(g, "sessions") ->
              /\ sessions' \in {sessions \cup {g}} \cup {sessions \ {h} : h \in sessions}
              /\ UNCHANGED registry
         [] At(g, "addresses") ->
              /\ registry' = task[g].read
              /\ UNCHANGED sessions
    /\ task' = [task EXCEPT ![g] = [at |-> "claim"]]
    /\ UNCHANGED <<accepted, conn, brokerVars, commandVars, gateVars, dutyVars>>

\* Mutant: the connection ends with its handler still running.
CloseMidHandler(g) ==
    /\ conn[g] \in {"open", "bound"}
    /\ conn' = [conn EXCEPT ![g] = "closed"]
    /\ task' = [task EXCEPT ![g] = IF task[g] = NoTask /\ conn[g] = "bound"
                                   THEN [at |-> "release"] ELSE task[g]]
    /\ UNCHANGED <<accepted, brokerVars, commandVars, gateVars, listVars, dutyVars>>

\* The peer closes, or its queue is gone: the loop is left by its end.
Close(g) ==
    /\ conn[g] \in {"open", "bound"} /\ task[g] = NoTask
    /\ conn' = [conn EXCEPT ![g] = "closed"]
    /\ task' = [task EXCEPT ![g] = IF conn[g] = "bound" THEN [at |-> "release"] ELSE NoTask]
    /\ UNCHANGED <<accepted, brokerVars, commandVars, gateVars, listVars, dutyVars>>

\* The read, the decoding of a frame or its handler fails: the loop is left by
\* `?', and nothing after it runs.
Abort(g) ==
    /\ Failing
    /\ conn[g] \in {"open", "bound"} /\ task[g] = NoTask
    /\ conn' = [conn EXCEPT ![g] = "closed"]
    /\ UNCHANGED <<accepted, task, brokerVars, commandVars, gateVars, listVars, dutyVars>>

ReleaseAgent(g) ==
    /\ At(g, "release")
    /\ Release(g)
    /\ task' = [task EXCEPT ![g] = NoTask]
    /\ UNCHANGED <<accepted, conn, commandVars, gateVars, listVars, dutyVars>>
-----------------------------------------------------------------------------
(* Commands.                                                               *)

SendCommand(r) ==
    /\ call[r] = "none"
    /\ IF active = 0
       THEN call' = [call EXCEPT ![r] = "done"] /\ UNCHANGED <<pending, carrier>>
       ELSE /\ pending' = pending \cup {r}
            /\ carrier' = [carrier EXCEPT ![r] = active]
            /\ call' = [call EXCEPT ![r] = "inserted"]
    /\ UNCHANGED <<accepted, conn, task, mark, active, gateVars, listVars, dutyVars>>

\* try_send_command, after the lock was dropped: the queue takes it, even
\* while the connection is ending.
HandOver(r) ==
    /\ call[r] = "inserted"
    /\ call' = [call EXCEPT ![r] = "sent"]
    /\ UNCHANGED <<accepted, conn, task, brokerVars, carrier, gateVars, listVars, dutyVars>>

\* No room or no connection: the waiter is taken back.
Revoke(r) ==
    /\ call[r] = "inserted"
    /\ call' = [call EXCEPT ![r] = "done"]
    /\ pending' = pending \ {r}
    /\ UNCHANGED <<accepted, conn, task, mark, active, carrier, gateVars, listVars, dutyVars>>

\* The agent answers, on whichever of its connections.
Respond(g, r) ==
    /\ conn[g] = "bound" /\ task[g] = NoTask
    /\ call[r] = "sent"
    /\ call' = [call EXCEPT ![r] = "done"]
    /\ pending' = pending \ {r}
    /\ task' = [task EXCEPT ![g] = [at |-> "claim"]]
    /\ UNCHANGED <<accepted, conn, mark, active, carrier, gateVars, listVars, dutyVars>>
-----------------------------------------------------------------------------
(* The heartbeat sweep, its clean-up, and a client's delete.               *)

MarkOffline ==
    /\ Sweeps /\ sweep = "idle"
    /\ registry.online
    /\ registry' = [registry EXCEPT !.online = FALSE]
    /\ sweep' = "verdict"
    /\ UNCHANGED <<accepted, conn, task, brokerVars, commandVars, gateVars, sessions,
                   grace, delete, deletes>>

EvictAgent ==
    /\ sweep = "verdict"
    /\ Evict
    /\ sweep' = "idle"
    /\ grace' = IF grace = "idle" THEN "waiting" ELSE grace
    /\ UNCHANGED <<accepted, conn, task, commandVars, gateVars, listVars, delete, deletes>>

GraceExpires ==
    /\ grace = "waiting"
    /\ grace' = IF registry # Unknown /\ ~registry.online THEN "expired" ELSE "idle"
    /\ UNCHANGED <<accepted, conn, task, brokerVars, commandVars, gateVars, listVars,
                   sweep, delete, deletes>>

CleanSessions ==
    /\ grace = "expired"
    /\ sessions' = {}
    /\ grace' = "idle"
    /\ UNCHANGED <<accepted, conn, task, brokerVars, commandVars, gateVars, registry,
                   sweep, delete, deletes>>

BeginDelete ==
    /\ delete = "idle" /\ deletes < MaxDeletes
    /\ registry # Unknown /\ ~registry.online
    /\ delete' = "checked" /\ deletes' = deletes + 1
    /\ UNCHANGED <<accepted, conn, task, brokerVars, commandVars, gateVars, listVars,
                   sweep, grace>>

\* The database refuses: the delete answers an error and leaves the rest.
DeleteFails ==
    /\ delete = "checked"
    /\ delete' = "idle"
    /\ UNCHANGED <<accepted, conn, task, brokerVars, commandVars, gateVars, listVars,
                   sweep, grace, deletes>>

Unregister ==
    /\ delete = "checked"
    /\ registry' = Unknown
    /\ delete' = "unregistered"
    /\ UNCHANGED <<accepted, conn, task, brokerVars, commandVars, gateVars, sessions,
                   sweep, grace, deletes>>

DropSessions ==
    /\ delete = "unregistered"
    /\ sessions' = {}
    /\ delete' = "cleared"
    /\ UNCHANGED <<accepted, conn, task, brokerVars, commandVars, gateVars, registry,
                   sweep, grace, deletes>>

\* forget_agent: the record first, the gate under its own lock.
ForgetAgent ==
    /\ delete = "cleared"
    /\ mark' = 0 /\ active' = 0 /\ pending' = {}
    /\ delete' = "forgotten"
    /\ UNCHANGED <<accepted, conn, task, commandVars, gateVars, listVars,
                   sweep, grace, deletes>>

ForgetGate ==
    /\ delete = "forgotten"
    /\ gate' = 0
    /\ delete' = "idle"
    /\ UNCHANGED <<accepted, conn, task, brokerVars, commandVars, gates, locked, listVars,
                   sweep, grace, deletes>>
-----------------------------------------------------------------------------
Init ==
    /\ accepted = 0
    /\ conn = [g \in Conns |-> "new"]
    /\ task = [g \in Conns |-> NoTask]
    /\ mark = 0 /\ active = 0 /\ pending = {}
    /\ call = [r \in Requests |-> "none"]
    /\ carrier = [r \in Requests |-> 0]
    /\ gate = 0 /\ gates = 0 /\ locked = {}
    /\ registry = Unknown /\ sessions = {}
    /\ sweep = "idle" /\ grace = "idle" /\ delete = "idle" /\ deletes = 0

Handler(g) ==
    EnterGate(g) \/ Publish(g) \/ ClearSessions(g) \/ ClaimChannel(g) \/ Apply(g)
        \/ ReleaseAgent(g)

Frame(g) ==
    Register(g) \/ Speak(g) \/ (\E kind \in Kinds : Report(g, kind)) \/ Close(g) \/ Abort(g)

Command(r) ==
    SendCommand(r) \/ HandOver(r) \/ Revoke(r) \/ (\E g \in Conns : Respond(g, r))

Duty ==
    MarkOffline \/ EvictAgent \/ GraceExpires \/ CleanSessions
        \/ BeginDelete \/ DeleteFails \/ Unregister \/ DropSessions \/ ForgetAgent \/ ForgetGate

Next ==
    \/ Accept
    \/ \E g \in Conns : Handler(g) \/ Frame(g)
    \/ \E r \in Requests : Command(r)
    \/ Duty

Spec == Init /\ [][Next]_vars

\* A handler that started runs to its end, and an agent's keepalive keeps a
\* bound connection speaking.
FairSpec ==
    /\ Spec
    /\ \A g \in Conns : WF_vars(Handler(g)) /\ WF_vars(Speak(g))
-----------------------------------------------------------------------------
Entries == [gen : 0..MaxConns, online : BOOLEAN]

Tasks ==
    [at : {"idle", "claim", "release"}]
        \cup [at : {"gate", "publish", "clear"}, gate : Nat]
        \cup [at : AllKinds, read : Entries]

\* Besides the types: a connection runs no handler its state does not allow,
\* and a handler waits only for a gate that was created.
TypeOK ==
    /\ accepted \in 0..MaxConns
    /\ conn \in [Conns -> {"new", "open", "bound", "closed"}]
    /\ task \in [Conns -> Tasks]
    /\ \A g \in Conns :
          /\ conn[g] = "new" <=> g > accepted
          /\ task[g].at \in {"gate", "publish"} => conn[g] = "open"
          /\ task[g].at \in {"clear", "claim"} \cup AllKinds => conn[g] = "bound"
          /\ task[g].at = "release" => conn[g] = "closed"
          /\ task[g].at \in {"gate", "publish", "clear"} => task[g].gate \in 1..gates
    /\ mark \in 0..MaxConns /\ active \in 0..MaxConns
    /\ pending \subseteq Requests
    /\ call \in [Requests -> {"none", "inserted", "sent", "done"}]
    /\ carrier \in [Requests -> 0..MaxConns]
    /\ gates \in Nat /\ gate \in 0..gates /\ locked \subseteq 1..gates
    /\ registry \in Entries
    /\ sessions \subseteq Conns
    /\ sweep \in {"idle", "verdict"} /\ grace \in {"idle", "waiting", "expired"}
    /\ delete \in {"idle", "checked", "unregistered", "cleared", "forgotten"}
    /\ deletes \in 0..MaxDeletes

\* The routing half of the record is a fence over generations
\* (CommandBroker::claim_agent, begin_registration, release, evict, forget).
Broker == INSTANCE Fence WITH Generations <- Conns, token <- mark, owner <- active

BrokerImplementsFence == Broker!Spec

\* No waiter is left behind without an owner: release and eviction fail the
\* commands in flight, and an unserved agent accepts none.
PendingHasOwner == active = 0 => pending = {}

\* A connection that is over owns the agent no longer than its own release
\* takes ("an agent that really did drop still fails its in-flight commands
\* here", the end of handle_ws_stream): no dead sender stays installed.
DropIsReleased ==
    active # 0 /\ conn[active] = "closed" => At(active, "release")

\* One registration of the agent publishes at a time (begin_registration: "the
\* generation check and those writes have to be one ordered transition").
RegistrationsSerialized ==
    \A g, h \in Conns :
        task[g].at \in {"publish", "clear"} /\ task[h].at \in {"publish", "clear"} => g = h

\* "The newest generation wins regardless of which one reaches the gate
\* first": what is published is what the newest generation published.
NewestWins == (\A g \in Conns : ~At(g, "publish")) => registry.gen = mark

\* What a newer registration replaced is never restored.
RegistryNeverRegresses ==
    [][registry' # Unknown => registry'.gen >= registry.gen]_vars

\* A superseded connection's report does not bring back a session that the
\* newer registration cleared (authorized_agent_id).
NoStaleSessions == \A g \in sessions : g >= registry.gen

\* The clean-up of an offline agent's sessions spares an agent that is back.
CleanUpSparesReconnected ==
    [][grace = "expired" /\ grace' = "idle" => ~registry.online]_vars

\* Only an offline agent is deleted.
DeletedWasOffline ==
    [][registry # Unknown /\ registry' = Unknown => ~registry.online]_vars

\* The broker keeps records only of agents the registry knows.
BrokerTracksRegistry ==
    mark # 0 /\ delete = "idle" /\ (\A g \in Conns : ~At(g, "publish"))
        => registry # Unknown

\* A live connection of the newest generation gets the channel back after a
\* sweep evicted it (claim_agent: "how it recovers from evict_agent").
OwnerRecovers ==
    \A g \in Conns :
        (conn[g] = "bound" /\ mark = g) ~> (active = g \/ conn[g] = "closed" \/ mark # g)

\* A registration that queued at the gate is published or refused.
RegistrationSettles ==
    \A g \in Conns : At(g, "gate") ~> ~At(g, "gate")
=============================================================================
