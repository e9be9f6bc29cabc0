------------------------- MODULE AgentOwnershipProofs -------------------------
(***************************************************************************)
(* What holds of AgentOwnership for every number of connections, deletes    *)
(* and commands.                                                            *)
(***************************************************************************)
EXTENDS AgentOwnership, TLAPS

LEMMA InitType == Init => TypeOK
  BY OwnershipAssumption DEF Init, TypeOK, Conns, Tasks, Entries, AllKinds, NoTask, Unknown

LEMMA OnlineEntry ==
    /\ Unknown \in Entries
    /\ \A e \in Entries : [e EXCEPT !.online = TRUE] \in Entries
<1>1. Unknown \in Entries
  BY OwnershipAssumption DEF Entries, Unknown
<1>2. \A e \in Entries, b \in BOOLEAN : [e EXCEPT !.online = b] \in Entries
  BY DEF Entries
<1>3. \A e \in Entries : [e EXCEPT !.online = TRUE] \in Entries
  BY <1>2, Zenon
<1> QED
  BY <1>1, <1>3

LEMMA StepType == TypeOK /\ [Next]_vars => TypeOK'
<1> SUFFICES ASSUME TypeOK, [Next]_vars PROVE TypeOK'
  OBVIOUS
<1> USE OwnershipAssumption DEF TypeOK, Conns, Tasks, Entries, AllKinds, NoTask, Unknown, vars,
        brokerVars, commandVars, gateVars, listVars, dutyVars

<1>1. ASSUME Accept PROVE TypeOK'
  BY <1>1 DEF Accept
<1>2. ASSUME NEW g \in Conns, EnterGate(g) PROVE TypeOK'
  <2>1. CASE Superseded(g)
    <3>1. task' = [task EXCEPT ![g] = NoTask] /\ UNCHANGED <<mark, locked>>
      BY <1>2, <2>1 DEF EnterGate
    <3> QED
      BY <1>2, <3>1 DEF EnterGate
  <2>2. CASE ~Superseded(g)
    <3>1. /\ task[g] \in [at : {"gate", "publish", "clear"}, gate : Nat]
          /\ task[g].gate \in 1..gates /\ conn[g] = "open"
      BY <1>2 DEF EnterGate, At
    <3>2. [task[g] EXCEPT !.at = "publish"] = [at |-> "publish", gate |-> task[g].gate]
      BY <3>1
    <3>3. task' = [task EXCEPT ![g] = [at |-> "publish", gate |-> task[g].gate]]
      BY <1>2, <2>2, <3>2 DEF EnterGate
    <3> QED
      BY <1>2, <2>2, <3>1, <3>3 DEF EnterGate
  <2> QED
    BY <2>1, <2>2
<1>3. ASSUME NEW g \in Conns, Publish(g) PROVE TypeOK'
  <2>1. task[g] \in [at : {"gate", "publish", "clear"}, gate : Nat]
    BY <1>3 DEF Publish, At
  <2>2. [task[g] EXCEPT !.at = "clear"] \in Tasks
    BY <2>1
  <2>3. [gen |-> g, online |-> TRUE] \in Entries
    OBVIOUS
  <2> QED
    BY <1>3, <2>1, <2>2, <2>3 DEF Publish, At
<1>4. ASSUME NEW g \in Conns, ClearSessions(g) PROVE TypeOK'
  BY <1>4 DEF ClearSessions, At
<1>5. ASSUME NEW g \in Conns, ClaimChannel(g) PROVE TypeOK'
  BY <1>5 DEF ClaimChannel, At, Claim, Superseded
<1>6. ASSUME NEW g \in Conns, Apply(g) PROVE TypeOK'
  <2>1. task[g] \in [at : AllKinds, read : Entries] /\ conn[g] = "bound"
    BY <1>6 DEF Apply
  <2>2. registry' \in Entries /\ sessions' \subseteq Conns
    <3>1. CASE At(g, "heartbeat")
      <4>1. /\ registry' \in {Unknown, [registry EXCEPT !.online = TRUE]}
            /\ sessions' = sessions
        BY <1>6, <3>1 DEF Apply, At
      <4>2. Unknown \in Entries /\ [registry EXCEPT !.online = TRUE] \in Entries
        BY OnlineEntry
      <4> QED
        BY <4>1, <4>2
    <3>2. CASE At(g, "sessions")
      BY <1>6, <3>2 DEF Apply, At
    <3>3. CASE At(g, "addresses")
      BY <1>6, <2>1, <3>3 DEF Apply, At
    <3> QED
      BY <2>1, <3>1, <3>2, <3>3 DEF At
  <2> QED
    BY <1>6, <2>1, <2>2 DEF Apply
<1>7. ASSUME NEW g \in Conns, ReleaseAgent(g) PROVE TypeOK'
  BY <1>7 DEF ReleaseAgent, At, Release
<1>8. ASSUME NEW g \in Conns, Register(g) PROVE TypeOK'
  BY <1>8 DEF Register
<1>9. ASSUME NEW g \in Conns, Speak(g) PROVE TypeOK'
  BY <1>9 DEF Speak
<1>10. ASSUME NEW g \in Conns, Close(g) PROVE TypeOK'
  BY <1>10 DEF Close
<1>11. ASSUME NEW g \in Conns, Abort(g) PROVE TypeOK'
  BY <1>11 DEF Abort
<1>12. ASSUME NEW g \in Conns, NEW kind \in Kinds, Report(g, kind) PROVE TypeOK'
  BY <1>12 DEF Report, Superseded
<1>13. ASSUME NEW r \in Requests, SendCommand(r) PROVE TypeOK'
  BY <1>13, SMTT(30) DEF SendCommand
<1>14. ASSUME NEW r \in Requests, HandOver(r) PROVE TypeOK'
  BY <1>14 DEF HandOver
<1>15. ASSUME NEW r \in Requests, Revoke(r) PROVE TypeOK'
  BY <1>15 DEF Revoke
<1>16. ASSUME NEW g \in Conns, NEW r \in Requests, Respond(g, r) PROVE TypeOK'
  BY <1>16 DEF Respond
<1>17. ASSUME MarkOffline PROVE TypeOK'
  BY <1>17 DEF MarkOffline
<1>18. ASSUME EvictAgent PROVE TypeOK'
  BY <1>18 DEF EvictAgent, Evict
<1>19. ASSUME GraceExpires PROVE TypeOK'
  BY <1>19 DEF GraceExpires
<1>20. ASSUME CleanSessions PROVE TypeOK'
  BY <1>20 DEF CleanSessions
<1>21. ASSUME BeginDelete PROVE TypeOK'
  BY <1>21 DEF BeginDelete
<1>22. ASSUME Unregister PROVE TypeOK'
  BY <1>22 DEF Unregister
<1>23. ASSUME DropSessions PROVE TypeOK'
  BY <1>23 DEF DropSessions
<1>24. ASSUME ForgetAgent PROVE TypeOK'
  BY <1>24 DEF ForgetAgent
<1>25. ASSUME ForgetGate PROVE TypeOK'
  BY <1>25 DEF ForgetGate
<1>26. ASSUME DeleteFails PROVE TypeOK'
  BY <1>26 DEF DeleteFails
<1>27. CASE UNCHANGED vars
  BY <1>27
<1> QED
  BY <1>1, <1>2, <1>3, <1>4, <1>5, <1>6, <1>7, <1>8, <1>9, <1>10, <1>11, <1>12,
     <1>13, <1>14, <1>15, <1>16, <1>17, <1>18, <1>19, <1>20, <1>21, <1>22, <1>23, <1>24,
     <1>25, <1>26, <1>27
     DEF Next, Handler, Frame, Command, Duty

\* Every variable keeps its type, and no connection runs a handler that its
\* state does not allow.
THEOREM TypeCorrect == Spec => []TypeOK
  BY InitType, StepType, PTL DEF Spec
-----------------------------------------------------------------------------
(* Commands and their owner.                                               *)

LEMMA StepPending == TypeOK /\ PendingHasOwner /\ [Next]_vars => PendingHasOwner'
<1> SUFFICES ASSUME TypeOK, PendingHasOwner, [Next]_vars PROVE PendingHasOwner'
  OBVIOUS
<1> USE DEF PendingHasOwner
<1>1. ASSUME NEW g \in Conns, ClaimChannel(g) PROVE PendingHasOwner'
  BY <1>1, OwnershipAssumption DEF ClaimChannel, Claim, Conns
<1>2. ASSUME NEW g \in Conns, ReleaseAgent(g) PROVE PendingHasOwner'
  BY <1>2 DEF ReleaseAgent, Release, brokerVars
<1>3. ASSUME NEW r \in Requests, SendCommand(r) PROVE PendingHasOwner'
  BY <1>3 DEF SendCommand
<1>4. ASSUME NEW r \in Requests, Revoke(r) PROVE PendingHasOwner'
  BY <1>4 DEF Revoke
<1>5. ASSUME NEW g \in Conns, NEW r \in Requests, Respond(g, r) PROVE PendingHasOwner'
  BY <1>5 DEF Respond
<1>6. CASE EvictAgent \/ ForgetAgent
  BY <1>6 DEF EvictAgent, Evict, ForgetAgent
<1>7. CASE UNCHANGED <<active, pending>>
  BY <1>7
<1> QED
  BY <1>1, <1>2, <1>3, <1>4, <1>5, <1>6, <1>7
     DEF Next, Handler, Frame, Command, Duty, vars, brokerVars, Accept, EnterGate, Publish,
         ClearSessions, Apply, Register, Speak, Close, Abort, Report, HandOver,
         MarkOffline, GraceExpires, CleanSessions, BeginDelete, DeleteFails, Unregister,
         DropSessions, ForgetGate

\* No waiter is left behind without an owner, whatever connections, sweeps and
\* deletes do.
THEOREM PendingOwned == Spec => []PendingHasOwner
<1>1. Init => PendingHasOwner
  BY DEF Init, PendingHasOwner
<1> QED
  BY <1>1, TypeCorrect, StepPending, PTL DEF Spec
-----------------------------------------------------------------------------
(* Generation fencing.                                                     *)

LEMMA StepFence == TypeOK /\ [Next]_vars => [Broker!Next]_(Broker!vars)
<1> SUFFICES ASSUME TypeOK, [Next]_vars PROVE [Broker!Next]_(Broker!vars)
  OBVIOUS
<1> USE DEF Broker!Next, Broker!vars
<1>1. ASSUME NEW g \in Conns, EnterGate(g) PROVE [Broker!Next]_(Broker!vars)
  BY <1>1 DEF EnterGate, Superseded, Broker!Speak, Conns, TypeOK
<1>2. ASSUME NEW g \in Conns, ClaimChannel(g) PROVE [Broker!Next]_(Broker!vars)
  BY <1>2 DEF ClaimChannel, Claim, Superseded, Broker!Speak, Conns, TypeOK
<1>3. ASSUME NEW g \in Conns, ReleaseAgent(g) PROVE [Broker!Next]_(Broker!vars)
  BY <1>3 DEF ReleaseAgent, Release, brokerVars, Broker!Drop
<1>4. CASE EvictAgent
  BY <1>4 DEF EvictAgent, Evict, Broker!Drop
<1>5. CASE ForgetAgent
  BY <1>5 DEF ForgetAgent, Broker!Forget
<1>6. CASE UNCHANGED <<mark, active>>
  BY <1>6
<1> QED
  BY <1>1, <1>2, <1>3, <1>4, <1>5, <1>6
     DEF Next, Handler, Frame, Command, Duty, vars, brokerVars, Accept, Publish,
         ClearSessions, Apply, Register, Speak, Close, Abort, Report, SendCommand,
         HandOver, Revoke, Respond, MarkOffline, GraceExpires, CleanSessions,
         BeginDelete, DeleteFails, Unregister, DropSessions, ForgetGate

\* The broker's record implements the fence: only the newest generation that has
\* spoken is given the agent, until the agent is forgotten.
THEOREM FenceImplemented == Spec => BrokerImplementsFence
<1>1. Init => Broker!Init
  BY DEF Init, Broker!Init
<1> QED
  BY <1>1, TypeCorrect, StepFence, PTL DEF Spec, BrokerImplementsFence, Broker!Spec
-----------------------------------------------------------------------------
(* The end of a connection.                                                *)

\* Only a connection that registered can own, so its orderly end releases.
OwnerRegistered ==
    active # 0 => conn[active] \in {"bound", "closed"}

DropInv == OwnerRegistered /\ DropIsReleased

\* A step of a handler whose connection is not over keeps DropInv.
LEMMA HandlerKeepsDrop ==
  ASSUME DropInv, NEW g \in Conns, conn[g] # "closed",
         \A h \in Conns \ {g} : task'[h] = task[h],
         TypeOK, UNCHANGED <<conn, active>>
  PROVE  DropInv'
  BY DEF DropInv, OwnerRegistered, DropIsReleased, At, TypeOK, Conns

LEMMA StepDrop == ~Failing /\ TypeOK /\ DropInv /\ [Next]_vars => DropInv'
<1> SUFFICES ASSUME ~Failing, TypeOK, DropInv, [Next]_vars PROVE DropInv'
  OBVIOUS
<1> DEFINE Others(g) == \A h \in Conns \ {g} : task'[h] = task[h]
<1>1. ASSUME Accept PROVE DropInv'
  BY <1>1 DEF Accept, brokerVars, DropInv, OwnerRegistered, DropIsReleased, At, TypeOK, Conns
<1>2. ASSUME NEW g \in Conns,
             EnterGate(g) \/ ClearSessions(g) \/ Speak(g) \/ Register(g) \/ Apply(g)
      PROVE  DropInv'
  <2>1. Others(g)
    BY <1>2 DEF EnterGate, ClearSessions, Speak, Register, Apply, TypeOK
  <2>2. conn[g] # "closed"
    BY <1>2, OwnershipAssumption
       DEF EnterGate, ClearSessions, Speak, Register, Apply, At, TypeOK
  <2>3. UNCHANGED <<conn, active>>
    BY <1>2 DEF EnterGate, ClearSessions, Speak, Register, Apply, brokerVars
  <2> QED
    BY <2>1, <2>2, <2>3, HandlerKeepsDrop
<1>3. ASSUME NEW g \in Conns, NEW kind \in Kinds, Report(g, kind) PROVE DropInv'
  <2>1. Others(g) /\ conn[g] # "closed" /\ UNCHANGED <<conn, active>>
    BY <1>3 DEF Report, brokerVars, TypeOK
  <2> QED
    BY <2>1, HandlerKeepsDrop
<1>4. ASSUME NEW r \in Requests, NEW g \in Conns, Respond(g, r) PROVE DropInv'
  <2>1. Others(g) /\ conn[g] # "closed" /\ UNCHANGED <<conn, active>>
    BY <1>4 DEF Respond, TypeOK
  <2> QED
    BY <2>1, HandlerKeepsDrop
<1> USE DEF DropInv, OwnerRegistered, DropIsReleased, At, TypeOK, Conns
<1>5. ASSUME NEW g \in Conns, Publish(g) PROVE DropInv'
  <2>1. Others(g) /\ \A h \in Conns \ {g} : conn'[h] = conn[h]
    BY <1>5 DEF Publish
  <2>2. conn'[g] = "bound" /\ UNCHANGED active
    BY <1>5 DEF Publish, brokerVars
  <2> QED
    BY <2>1, <2>2
<1>6. ASSUME NEW g \in Conns, ClaimChannel(g) PROVE DropInv'
  <2>1. Others(g) /\ conn[g] = "bound" /\ UNCHANGED conn
    BY <1>6 DEF ClaimChannel
  <2>2. active' \in {active, g}
    BY <1>6 DEF ClaimChannel, Claim
  <2> QED
    BY <2>1, <2>2
<1>7. ASSUME NEW g \in Conns, ReleaseAgent(g) PROVE DropInv'
  BY <1>7 DEF ReleaseAgent, Release, brokerVars
<1>8. ASSUME NEW g \in Conns, Close(g) PROVE DropInv'
  BY <1>8 DEF Close, brokerVars, NoTask
<1>9. ASSUME NEW g \in Conns, Abort(g) PROVE DropInv'
  BY <1>9 DEF Abort
<1>10. CASE EvictAgent \/ ForgetAgent
  BY <1>10 DEF EvictAgent, Evict, ForgetAgent
<1>11. CASE UNCHANGED <<active, conn, task>>
  BY <1>11
<1> QED
  BY <1>1, <1>2, <1>3, <1>4, <1>5, <1>6, <1>7, <1>8, <1>9, <1>10, <1>11
     DEF Next, Handler, Frame, Command, Duty, vars, brokerVars, SendCommand,
         HandOver, Revoke, MarkOffline, GraceExpires, CleanSessions,
         BeginDelete, DeleteFails, Unregister, DropSessions, ForgetGate

\* As long as connections end by the end of their loop, no dead sender stays
\* installed.
THEOREM DropReleased == ~Failing => (Spec => []DropIsReleased)
<1> SUFFICES ASSUME ~Failing PROVE Spec => []DropIsReleased
  OBVIOUS
<1>1. Init => DropInv
  BY DEF Init, DropInv, OwnerRegistered, DropIsReleased
<1>2. TypeOK /\ DropInv /\ [Next]_vars => DropInv'
  BY StepDrop
<1>3. DropInv => DropIsReleased
  BY DEF DropInv
<1> QED
  BY <1>1, <1>2, <1>3, TypeCorrect, PTL DEF Spec
-----------------------------------------------------------------------------
(* Registrations.                                                          *)

\* Nothing is deleted, and no report writes a whole entry back.
Undisturbed == MaxDeletes = 0 /\ "addresses" \notin Kinds

Publishing(g) == task[g].at \in {"publish", "clear"}

\* There is one gate; who is inside holds it and is the newest generation; no
\* bound connection and no entry is newer than the mark.
RegistrationInv ==
    /\ delete = "idle" /\ gate = gates /\ gates <= 1
    /\ \A g \in Conns : Publishing(g) => task[g].gate \in locked /\ mark = g
    /\ \A g \in Conns : conn[g] = "bound" => g <= mark
    /\ registry.gen <= mark
    /\ NewestWins

LEMMA InitRegistration == Init => RegistrationInv
  BY DEF Init, RegistrationInv, Publishing, NewestWins, At, NoTask, Unknown

\* A step outside the gate, by a connection that stays what it is.
LEMMA HandlerKeepsRegistration ==
  ASSUME TypeOK, RegistrationInv, NEW g \in Conns, ~Publishing(g), ~Publishing(g)',
         \A h \in Conns \ {g} : task'[h] = task[h] /\ conn'[h] = conn[h],
         conn'[g] = "bound" => conn[g] = "bound",
         registry'.gen = registry.gen, UNCHANGED <<mark, gate, gates, locked, delete>>
  PROVE  RegistrationInv'
  BY DEF TypeOK, RegistrationInv, Publishing, NewestWins, At, Conns

LEMMA StepRegistration ==
  Undisturbed /\ TypeOK /\ RegistrationInv /\ [Next]_vars => RegistrationInv'
<1> SUFFICES ASSUME Undisturbed, TypeOK, RegistrationInv, [Next]_vars PROVE RegistrationInv'
  OBVIOUS
<1> DEFINE Others(g) == \A h \in Conns \ {g} : task'[h] = task[h]
<1>1. ASSUME Accept PROVE RegistrationInv'
  <2>1. \A h \in Conns : conn'[h] = "bound" => conn[h] = "bound"
    BY <1>1 DEF Accept, TypeOK
  <2>2. UNCHANGED <<task, mark, gate, gates, locked, registry, delete>>
    BY <1>1 DEF Accept, brokerVars, gateVars, listVars, dutyVars
  <2> QED
    BY <2>1, <2>2 DEF RegistrationInv, Publishing, NewestWins, At
<1>2. ASSUME NEW g \in Conns, EnterGate(g) PROVE RegistrationInv'
  <2>1. task[g].gate \in 1..gates /\ task[g].gate \notin locked /\ locked \subseteq 1..gates
    BY <1>2 DEF EnterGate, At, TypeOK
  <2>2. \A h \in Conns : ~Publishing(h)
    <3> SUFFICES ASSUME NEW h \in Conns, Publishing(h) PROVE FALSE
      OBVIOUS
    <3>1. task[h].gate \in locked
      BY DEF RegistrationInv
    <3>2. gates \in Nat /\ gates <= 1
      BY DEF RegistrationInv, TypeOK
    <3>3. task[h].gate \in 1..gates
      BY <2>1, <3>1
    <3>4. task[h].gate = 1 /\ task[g].gate = 1
      BY <2>1, <3>2, <3>3
    <3> QED
      BY <2>1, <3>1, <3>4
  <2>3. registry.gen = mark
    BY <2>2 DEF RegistrationInv, NewestWins, Publishing, At
  <2>4. Others(g) /\ UNCHANGED <<conn, gate, gates, registry, delete>>
    BY <1>2 DEF EnterGate, listVars, dutyVars, TypeOK
  <2>5. CASE Superseded(g)
    <3>1. UNCHANGED <<mark, locked>> /\ task'[g] = NoTask
      BY <1>2, <2>5 DEF EnterGate, TypeOK
    <3> QED
      BY <2>2, <2>4, <3>1, HandlerKeepsRegistration DEF Publishing, NoTask
  <2>6. CASE ~Superseded(g)
    <3>1. mark' = g /\ locked' = locked \cup {task[g].gate}
      BY <1>2, <2>6 DEF EnterGate
    <3>2. task[g] \in [at : {"gate", "publish", "clear"}, gate : Nat]
      BY <1>2 DEF EnterGate, At, TypeOK, Tasks, AllKinds
    <3>3. task' = [task EXCEPT ![g] = [task[g] EXCEPT !.at = "publish"]]
      BY <1>2, <2>6 DEF EnterGate
    <3>4. task'[g].at = "publish" /\ task'[g].gate = task[g].gate
      BY <3>2, <3>3 DEF TypeOK
    <3>5. g \in Nat /\ mark \in Nat /\ mark <= g
      BY <2>6, OwnershipAssumption DEF Superseded, TypeOK, Conns
    <3>6. \A h \in Conns : conn[h] = "bound" => h <= g
      BY <3>5 DEF RegistrationInv, Conns
    <3> QED
      BY <2>2, <2>3, <2>4, <3>1, <3>4, <3>5, <3>6
         DEF RegistrationInv, Publishing, NewestWins, At
  <2> QED
    BY <2>5, <2>6
<1>3. ASSUME NEW g \in Conns, Publish(g) PROVE RegistrationInv'
  <2>1. mark = g /\ task[g].gate \in locked
    BY <1>3 DEF Publish, RegistrationInv, Publishing, At
  <2>2. Others(g) /\ \A h \in Conns \ {g} : conn'[h] = conn[h]
    BY <1>3 DEF Publish
  <2>3. registry'.gen = g /\ UNCHANGED <<mark, gate, gates, locked, delete>>
    BY <1>3 DEF Publish, brokerVars, gateVars, dutyVars
  <2>4. task[g] \in [at : {"gate", "publish", "clear"}, gate : Nat]
    BY <1>3 DEF Publish, At, TypeOK, Tasks, AllKinds
  <2>5. task' = [task EXCEPT ![g] = [task[g] EXCEPT !.at = "clear"]]
    BY <1>3 DEF Publish
  <2>6. task'[g].gate = task[g].gate
    BY <2>4, <2>5 DEF TypeOK
  <2>7. \A h \in Conns : h \in Nat
    BY OwnershipAssumption DEF Conns
  <2> QED
    BY <2>1, <2>2, <2>3, <2>6, <2>7 DEF RegistrationInv, Publishing, NewestWins, At
<1>4. ASSUME NEW g \in Conns, ClearSessions(g) PROVE RegistrationInv'
  <2>1. mark = g /\ \A h \in Conns \ {g} : ~Publishing(h)
    BY <1>4 DEF ClearSessions, RegistrationInv, Publishing, At
  <2>2. Others(g) /\ task'[g].at = "claim"
    BY <1>4 DEF ClearSessions, TypeOK
  <2>3. UNCHANGED <<conn, mark, gate, gates, registry, delete>>
    BY <1>4 DEF ClearSessions, brokerVars, dutyVars
  <2>4. \A h \in Conns : ~At(h, "publish")
    BY <1>4, <2>1 DEF ClearSessions, Publishing, At
  <2> QED
    BY <2>1, <2>2, <2>3, <2>4 DEF RegistrationInv, Publishing, NewestWins, At
<1>5. ASSUME NEW g \in Conns, ClaimChannel(g) PROVE RegistrationInv'
  <2>1. g <= mark /\ g \in Nat /\ mark \in Nat
    BY <1>5, OwnershipAssumption DEF ClaimChannel, RegistrationInv, At, TypeOK, Conns
  <2>2. mark' = mark
    BY <1>5, <2>1 DEF ClaimChannel, Claim, Superseded
  <2>3. Others(g) /\ ~Publishing(g) /\ ~Publishing(g)'
    BY <1>5 DEF ClaimChannel, Publishing, At, NoTask, TypeOK
  <2>4. UNCHANGED <<conn, gate, gates, locked, registry, delete>>
    BY <1>5 DEF ClaimChannel, gateVars, listVars, dutyVars
  <2> QED
    BY <2>2, <2>3, <2>4, HandlerKeepsRegistration
<1>6. ASSUME NEW g \in Conns, Apply(g) PROVE RegistrationInv'
  <2>1. Others(g) /\ ~Publishing(g) /\ ~Publishing(g)'
    BY <1>6, OwnershipAssumption DEF Apply, Publishing, TypeOK, AllKinds
  <2>2. registry'.gen = registry.gen
    BY <1>6, OwnershipAssumption DEF Apply, At, Undisturbed, AllKinds, TypeOK, Entries, Unknown
  <2>3. UNCHANGED <<conn, mark, gate, gates, locked, delete>>
    BY <1>6 DEF Apply, brokerVars, gateVars, dutyVars
  <2> QED
    BY <2>1, <2>2, <2>3, HandlerKeepsRegistration
<1>7. ASSUME NEW g \in Conns, Speak(g) \/ ReleaseAgent(g) PROVE RegistrationInv'
  <2>1. Others(g) /\ ~Publishing(g) /\ ~Publishing(g)'
    BY <1>7 DEF Speak, ReleaseAgent, Publishing, At, NoTask, TypeOK
  <2>2. UNCHANGED <<conn, mark, gate, gates, locked, registry, delete>>
    BY <1>7 DEF Speak, ReleaseAgent, Release, brokerVars, gateVars, listVars, dutyVars
  <2> QED
    BY <2>1, <2>2, HandlerKeepsRegistration
<1>8. ASSUME NEW g \in Conns, Close(g) \/ Abort(g) PROVE RegistrationInv'
  <2>1. Others(g) /\ ~Publishing(g) /\ ~Publishing(g)'
    BY <1>8 DEF Close, Abort, Publishing, NoTask, TypeOK
  <2>2. conn'[g] = "closed" /\ \A h \in Conns \ {g} : conn'[h] = conn[h]
    BY <1>8 DEF Close, Abort, TypeOK
  <2>3. UNCHANGED <<mark, gate, gates, locked, registry, delete>>
    BY <1>8 DEF Close, Abort, brokerVars, gateVars, listVars, dutyVars
  <2> QED
    BY <2>1, <2>2, <2>3, HandlerKeepsRegistration
<1>9. ASSUME NEW g \in Conns, NEW kind \in Kinds, Report(g, kind) PROVE RegistrationInv'
  <2>1. Others(g) /\ ~Publishing(g) /\ ~Publishing(g)'
    BY <1>9, OwnershipAssumption DEF Report, Publishing, NoTask, AllKinds, TypeOK
  <2>2. UNCHANGED <<conn, mark, gate, gates, locked, registry, delete>>
    BY <1>9 DEF Report, brokerVars, gateVars, listVars, dutyVars
  <2> QED
    BY <2>1, <2>2, HandlerKeepsRegistration
<1>10. ASSUME NEW r \in Requests, NEW g \in Conns, Respond(g, r) PROVE RegistrationInv'
  <2>1. Others(g) /\ ~Publishing(g) /\ ~Publishing(g)'
    BY <1>10 DEF Respond, Publishing, NoTask, TypeOK
  <2>2. UNCHANGED <<conn, mark, gate, gates, locked, registry, delete>>
    BY <1>10 DEF Respond, gateVars, listVars, dutyVars
  <2> QED
    BY <2>1, <2>2, HandlerKeepsRegistration
<1>11. ASSUME NEW g \in Conns, Register(g) PROVE RegistrationInv'
  <2>1. Others(g) /\ task'[g].at = "gate" /\ task[g].at = "idle"
    BY <1>11 DEF Register, NoTask, TypeOK
  <2>2. gate' = gates' /\ gates' <= 1
    BY <1>11 DEF Register, RegistrationInv
  <2>3. UNCHANGED <<conn, mark, locked, registry, delete>>
    BY <1>11 DEF Register, brokerVars, listVars, dutyVars
  <2> QED
    BY <2>1, <2>2, <2>3 DEF RegistrationInv, Publishing, NewestWins, At
<1>12. CASE MarkOffline
  <2>1. registry'.gen = registry.gen
    BY <1>12 DEF MarkOffline, TypeOK, Entries
  <2> QED
    BY <1>12, <2>1
       DEF MarkOffline, RegistrationInv, Publishing, NewestWins, At, brokerVars, gateVars
<1>13. CASE BeginDelete \/ DeleteFails \/ Unregister \/ DropSessions \/ ForgetAgent \/ ForgetGate
  BY <1>13 DEF BeginDelete, DeleteFails, Unregister, DropSessions, ForgetAgent, ForgetGate,
               RegistrationInv, Undisturbed, TypeOK
<1>14. CASE UNCHANGED <<conn, task, mark, gateVars, registry, delete>>
  BY <1>14 DEF RegistrationInv, Publishing, NewestWins, At, gateVars
<1> QED
  BY <1>1, <1>2, <1>3, <1>4, <1>5, <1>6, <1>7, <1>8, <1>9, <1>10, <1>11, <1>12, <1>13, <1>14
     DEF Next, Handler, Frame, Command, Duty, vars, brokerVars, listVars, dutyVars,
         SendCommand, HandOver, Revoke, EvictAgent, Evict, GraceExpires, CleanSessions

\* Until an agent is deleted, and apart from address updates, one registration
\* publishes at a time and what stays published is the newest generation's.
THEOREM NewestRegistrationWins ==
  Undisturbed => (Spec => [](RegistrationsSerialized /\ NewestWins))
<1> SUFFICES ASSUME Undisturbed PROVE Spec => [](RegistrationsSerialized /\ NewestWins)
  OBVIOUS
<1>1. TypeOK /\ RegistrationInv /\ [Next]_vars => RegistrationInv'
  BY StepRegistration
<1>2. RegistrationInv => RegistrationsSerialized /\ NewestWins
  BY DEF RegistrationInv, RegistrationsSerialized, Publishing
<1> QED
  BY <1>1, <1>2, InitRegistration, TypeCorrect, PTL DEF Spec

LEMMA StepNeverRegresses ==
  Undisturbed /\ TypeOK /\ RegistrationInv /\ [Next]_vars
      => (registry' # Unknown => registry'.gen >= registry.gen)
<1> SUFFICES ASSUME Undisturbed, TypeOK, RegistrationInv, [Next]_vars
             PROVE  registry'.gen >= registry.gen
  OBVIOUS
<1>1. registry.gen \in Nat
  BY OwnershipAssumption DEF TypeOK, Entries
<1>2. ASSUME NEW g \in Conns, Publish(g) PROVE registry'.gen >= registry.gen
  <2>1. mark = g /\ registry.gen <= mark
    BY <1>2 DEF Publish, RegistrationInv, Publishing, At
  <2> QED
    BY <1>1, <1>2, <2>1, OwnershipAssumption DEF Publish, Conns
<1>3. ASSUME NEW g \in Conns, Apply(g) PROVE registry'.gen >= registry.gen
  <2>1. registry'.gen = registry.gen
    BY <1>3, OwnershipAssumption DEF Apply, At, Undisturbed, AllKinds, TypeOK, Entries, Unknown
  <2> QED
    BY <1>1, <2>1
<1>4. CASE MarkOffline
  BY <1>1, <1>4 DEF MarkOffline, TypeOK, Entries
<1>5. CASE Unregister
  BY <1>5 DEF Unregister, RegistrationInv
<1>6. CASE UNCHANGED registry
  BY <1>1, <1>6
<1> QED
  BY <1>2, <1>3, <1>4, <1>5, <1>6
     DEF Next, Handler, Frame, Command, Duty, vars, listVars, Accept, EnterGate,
         ClearSessions, ClaimChannel, ReleaseAgent, Register, Speak, Report, Close, Abort,
         SendCommand, HandOver, Revoke, Respond, EvictAgent, GraceExpires, CleanSessions,
         BeginDelete, DeleteFails, DropSessions, ForgetAgent, ForgetGate

\* Under the same conditions nothing that a newer registration replaced comes
\* back into the registry.
THEOREM RegistryMonotone == Undisturbed => (Spec => RegistryNeverRegresses)
<1> SUFFICES ASSUME Undisturbed PROVE Spec => RegistryNeverRegresses
  OBVIOUS
<1>1. TypeOK /\ RegistrationInv /\ [Next]_vars => RegistrationInv'
  BY StepRegistration
<1>2. TypeOK /\ RegistrationInv /\ [Next]_vars
          => [registry' # Unknown => registry'.gen >= registry.gen]_vars
  BY StepNeverRegresses
<1> QED
  BY <1>1, <1>2, InitRegistration, TypeCorrect, PTL DEF Spec, RegistryNeverRegresses
=============================================================================
