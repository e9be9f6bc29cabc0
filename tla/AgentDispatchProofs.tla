------------------------- MODULE AgentDispatchProofs -------------------------
(***************************************************************************)
(* For any number of controllers and any bounds: no action of an Issue is   *)
(* given to two runs; the Store stays one valid chain that leads to one     *)
(* thing to do; and what a run works on is what the Store waits for.        *)
(*                                                                          *)
(* Three invariants, each resting on the ones before.  IInv is about names: *)
(* an operation on the Store never makes an action pending again that was   *)
(* known before (Evolves), so whoever saw an action pending in the head it  *)
(* then replaced is the only one that may ask for a run of it.  JInv is     *)
(* about the Store alone: every version is Sound (IssueOutboxProofs), and   *)
(* what a job remembers of a version is true of it.  KInv is about runs: one*)
(* that has not ended is awaited by the head.                               *)
(***************************************************************************)
EXTENDS AgentDispatch, IssueOutboxProofs, TLAPS

IsSeq(q) == \E S : q \in Seq(S)

StateFields == {"version", "phase", "target", "repairs", "transitions",
                "outbox", "developer"}
ItemFields == {"id", "task", "sha", "parent", "ordinal", "source", "status",
               "ticket", "run"}
RunFields == {"action", "task", "sha", "ticket", "stage", "conclusion",
              "attempt", "reconcile", "base"}

IsItem(i) == i = [f \in ItemFields |-> i[f]] /\ i.id \in Nat
IsRun(r) == r = [f \in RunFields |-> r[f]]

Pending(s, a) == \E i \in s.outbox : i.id = a /\ i.status = "pending"

\* A state whose actions have names of their own, none of a later version.
Named(s) ==
    /\ s = [f \in StateFields |-> s[f]]
    /\ s.version \in Nat
    /\ \A i \in s.outbox : IsItem(i) /\ i.id <= s.version
    /\ \A i, j \in s.outbox : i.id = j.id => i = j

\* What every operation makes of such a state.
Evolves(s, t) ==
    /\ Named(t)
    /\ t.version = s.version + 1
    /\ \A a \in 0..s.version : Pending(t, a) => Pending(s, a)
-----------------------------------------------------------------------------
(* Sequences.                                                              *)

LEMMA Appended ==
    ASSUME NEW q, IsSeq(q), NEW x
    PROVE  /\ IsSeq(Append(q, x))
           /\ Len(q) \in Nat
           /\ Len(Append(q, x)) = Len(q) + 1
           /\ \A n \in 1..Len(q) : Append(q, x)[n] = q[n]
           /\ Append(q, x)[Len(q) + 1] = x
<1>1. PICK S : q \in Seq(S)
  BY DEF IsSeq
<1>2. q \in Seq(S \cup {x}) /\ x \in S \cup {x}
  BY <1>1
<1>3. Append(q, x) \in Seq(S \cup {x})
  BY <1>2
<1> QED
  BY <1>1, <1>2, <1>3 DEF IsSeq

LEMMA Replaced ==
    ASSUME NEW q, IsSeq(q), NEW r \in DOMAIN q, NEW x
    PROVE  /\ IsSeq([q EXCEPT ![r] = x])
           /\ DOMAIN [q EXCEPT ![r] = x] = DOMAIN q
           /\ Len([q EXCEPT ![r] = x]) = Len(q)
<1>1. PICK S : q \in Seq(S)
  BY DEF IsSeq
<1>2. q \in Seq(S \cup {x})
  BY <1>1
<1>3. [q EXCEPT ![r] = x] \in Seq(S \cup {x})
  BY <1>2
<1>4. Len([q EXCEPT ![r] = x]) = Len(q)
  BY <1>2, <1>3
<1> QED
  BY <1>3, <1>4 DEF IsSeq
-----------------------------------------------------------------------------
(* The operations of IssueOutbox.                                          *)

\* All of them replace some actions by others, and the others either carry on
\* the name of one that goes, pending only if that was, or have the new one.
LEMMA StepEvolves ==
    ASSUME NEW s, Named(s), NEW gone, NEW new,
           \A j \in new : IsItem(j),
           \A j, k \in new : j.id = k.id => j = k,
           \A j \in new :
               \/ j.id = s.version + 1
               \/ \E i \in gone \cap s.outbox :
                      i.id = j.id /\ (j.status = "pending" => i.status = "pending")
    PROVE  Evolves(s, Step(s, gone, new))
<1> DEFINE t == Step(s, gone, new)
<1>1. /\ t = [f \in StateFields |-> t[f]]
      /\ t.version = s.version + 1
      /\ t.outbox = (s.outbox \ gone) \cup new
  BY DEF Named, Step, StateFields
<1>2. \A j \in new : j.id <= s.version + 1
  BY DEF Named, IsItem
<1>3. \A i \in t.outbox : IsItem(i) /\ i.id <= t.version
  BY <1>1, <1>2 DEF Named, IsItem
<1>4. ASSUME NEW i \in s.outbox \ gone, NEW j \in new PROVE i.id # j.id
  <2>1. i.id <= s.version /\ i.id \in Nat /\ s.version \in Nat
    BY DEF Named, IsItem
  <2>2. CASE j.id = s.version + 1
    BY <2>1, <2>2
  <2>3. CASE \E k \in gone \cap s.outbox : k.id = j.id
    BY <2>3 DEF Named
  <2> QED
    BY <2>2, <2>3
<1>5. \A i, j \in t.outbox : i.id = j.id => i = j
  BY <1>1, <1>4 DEF Named
<1>6. Named(t)
  BY <1>1, <1>3, <1>5 DEF Named
<1>7. ASSUME NEW a \in 0..s.version, Pending(t, a) PROVE Pending(s, a)
  <2>1. PICK j \in t.outbox : j.id = a /\ j.status = "pending"
    BY <1>7 DEF Pending
  <2>2. CASE j \in s.outbox
    BY <2>1, <2>2 DEF Pending
  <2>3. CASE j \in new
    <3>1. j.id # s.version + 1
      BY <2>1 DEF Named
    <3> QED
      BY <2>1, <2>3, <3>1 DEF Pending
  <2> QED
    BY <1>1, <2>1, <2>2, <2>3
<1> QED
  BY <1>1, <1>6, <1>7 DEF Evolves

LEMMA FreshItem ==
    ASSUME NEW id \in Nat, NEW task, NEW sha
    PROVE  IsItem(Fresh(id, task, sha)) /\ Fresh(id, task, sha).id = id
  BY DEF IsItem, ItemFields, Fresh

LEMMA AdvanceEvolves ==
    ASSUME NEW s, Named(s), NEW e, NEW gone
    PROVE  Evolves(s, Advance(s, e, gone))
<1> DEFINE phase == PhaseAfter(s, e)
           sha == IF phase = "blocked" THEN None ELSE e.target
           new == Fresh(s.version + 1, TaskIn[phase], sha)
           t == Step(s, gone, {new})
<1>1. IsItem(new) /\ new.id = s.version + 1
  BY FreshItem DEF Named
<1>2. Evolves(s, t)
  <2> HIDE DEF new
  <2> QED
    BY <1>1, StepEvolves
<1> DEFINE u == Advance(s, e, gone)
<1>3. u = [f \in StateFields |-> u[f]] /\ u.version = t.version /\ u.outbox = t.outbox
  BY <1>2 DEF Advance, Evolves, Named, StateFields
<1> HIDE DEF t, u
<1>4. Evolves(s, u)
  BY <1>2, <1>3 DEF Evolves, Named, Pending
<1> QED
  BY <1>4 DEF u

LEMMA AgainItem ==
    ASSUME NEW i, IsItem(i), NEW id \in Nat
    PROVE  IsItem(Again(i, id)) /\ Again(i, id).id = id
<1>1. Again(i, id).id = id
  BY DEF IsItem, ItemFields, Again
<1>2. Again(i, id) = [f \in ItemFields |-> Again(i, id)[f]]
  BY DEF IsItem, ItemFields, Again
<1> QED
  BY <1>1, <1>2 DEF IsItem

LEMMA BindEvolves ==
    ASSUME NEW s, Named(s), NEW i \in s.outbox
    PROVE  Evolves(s, Bind(s, i))
<1> DEFINE j == [i EXCEPT !.source = FirstPublished(s).run]
<1>0. IsItem(i) /\ i.id <= s.version /\ s.version \in Nat
  BY DEF Named
<1>1. IsItem(j) /\ j.id = i.id /\ j.status = i.status
  BY <1>0 DEF IsItem, ItemFields
<1>2. Bind(s, i) = Step(s, {i}, {j})
  BY DEF Bind
<1> HIDE DEF j
<1> QED
  BY <1>1, <1>2, StepEvolves

\* The two operations that follow a dispatch leave its action not pending.
LEMMA IntendEvolves ==
    ASSUME NEW s, Named(s), NEW i \in s.outbox, NEW ticket
    PROVE  Evolves(s, Intend(s, i, ticket)) /\ ~ Pending(Intend(s, i, ticket), i.id)
<1> DEFINE j == [i EXCEPT !.status = "dispatching", !.ticket = ticket]
           t == Intend(s, i, ticket)
<1>0. IsItem(i) /\ i.id <= s.version /\ s.version \in Nat
  BY DEF Named
<1>1. IsItem(j) /\ j.id = i.id /\ j.status = "dispatching"
  BY <1>0 DEF IsItem, ItemFields
<1>2. t = Step(s, {i}, {j})
  BY DEF Intend
<1> HIDE DEF j, t
<1>3. Evolves(s, t)
  BY <1>1, <1>2, StepEvolves
<1>4. j \in t.outbox
  BY <1>2 DEF Step, Named, StateFields
<1>5. ~ Pending(t, i.id)
  <2>1. \A k, l \in t.outbox : k.id = l.id => k = l
    BY <1>3 DEF Evolves, Named
  <2>2. \A k \in t.outbox : k.id = i.id => k.status = "dispatching"
    BY <1>1, <1>4, <2>1
  <2> QED
    BY <2>2 DEF Pending
<1> QED
  BY <1>3, <1>5 DEF t

LEMMA AcknowledgeEvolves ==
    ASSUME NEW s, Named(s), NEW i \in s.outbox, NEW r
    PROVE  Evolves(s, Acknowledge(s, i, r))
<1> DEFINE j == [i EXCEPT !.status = "dispatched", !.ticket = NoTicket, !.run = r]
<1>0. IsItem(i) /\ i.id <= s.version /\ s.version \in Nat
  BY DEF Named
<1>1. IsItem(j) /\ j.id = i.id /\ j.status = "dispatched"
  BY <1>0 DEF IsItem, ItemFields
<1>2. Acknowledge(s, i, r) = Step(s, {i}, {j})
  BY DEF Acknowledge
<1> HIDE DEF j
<1> QED
  BY <1>1, <1>2, StepEvolves

LEMMA YieldEvolves ==
    ASSUME NEW s, Named(s), NEW i \in s.outbox
    PROVE  Evolves(s, YieldSlice(s, i))
<1> DEFINE j == [i EXCEPT !.status = "yielded"]
           m == Again(i, s.version + 1)
           k == [m EXCEPT !.parent = i.id, !.ordinal = i.ordinal + 1]
<1>0. IsItem(i) /\ i.id <= s.version /\ s.version \in Nat
  BY DEF Named
<1>1. IsItem(j) /\ j.id = i.id /\ j.status = "yielded"
  BY <1>0 DEF IsItem, ItemFields
<1>8. s.version + 1 \in Nat
  BY <1>0
<1>9. IsItem(m) /\ m.id = s.version + 1
  BY <1>0, <1>8, AgainItem, Zenon
<1>2. IsItem(k) /\ k.id = s.version + 1
  <2> HIDE DEF m
  <2> QED
    BY <1>0, <1>9 DEF IsItem, ItemFields
<1>3. YieldSlice(s, i) = Step(s, {i}, {j, k})
  BY DEF YieldSlice
<1>4. j.id # k.id
  <2> HIDE DEF j, k
  <2> QED
    BY <1>0, <1>1, <1>2
<1> HIDE DEF j, k
<1> QED
  BY <1>1, <1>2, <1>3, <1>4, StepEvolves

LEMMA RecoverEvolves ==
    ASSUME NEW s, Named(s), NEW i \in s.outbox
    PROVE  Evolves(s, Recover(s, i))
<1> DEFINE j == [i EXCEPT !.status = "failed"]
           k == Again(i, s.version + 1)
<1>0. IsItem(i) /\ i.id <= s.version /\ s.version \in Nat
  BY DEF Named
<1>1. IsItem(j) /\ j.id = i.id /\ j.status = "failed"
  BY <1>0 DEF IsItem, ItemFields
<1>8. s.version + 1 \in Nat
  BY <1>0
<1>2. IsItem(k) /\ k.id = s.version + 1
  BY <1>0, <1>8, AgainItem, Zenon
<1>3. Recover(s, i) = Step(s, {i}, {j, k})
  BY DEF Recover
<1>4. j.id # k.id
  <2> HIDE DEF j, k
  <2> QED
    BY <1>0, <1>1, <1>2
<1> HIDE DEF j, k
<1> QED
  BY <1>1, <1>2, <1>3, <1>4, StepEvolves
-----------------------------------------------------------------------------
(***************************************************************************)
(* The invariant.  An action is taken once it is known and not pending,    *)
(* and stays so.  The action of a run is taken, and so is the one that a   *)
(* controller has committed an intent for and may still ask a run for: no  *)
(* other controller holds that one, and no run has it yet.                 *)
(***************************************************************************)
Places == {"idle", "read", "committed", "verified", "answered", "acking"}
CtlOK == ctl \in [Controllers -> [pc : Places, action : Nat, base : Nat, run : Nat]]

StoreOK ==
    /\ IsSeq(states)
    /\ Len(states) >= 1
    /\ \A v \in 1..Len(states) : Named(states[v]) /\ states[v].version = v

Taken(a) == a \in 0..Len(states) /\ ~ Pending(Newest, a)

RunsOK ==
    /\ IsSeq(runs)
    /\ \A r \in 1..Len(runs) : IsRun(runs[r]) /\ Taken(runs[r].action)

MayAsk(c) == ctl[c].pc \in {"committed", "verified"}

AskersOK ==
    \A c \in Controllers : MayAsk(c) =>
        /\ Taken(ctl[c].action)
        /\ \A r \in 1..Len(runs) : runs[r].action # ctl[c].action
        /\ \A d \in Controllers :
               MayAsk(d) /\ ctl[d].action = ctl[c].action => d = c

ReadersOK ==
    \A c \in Controllers : ctl[c].pc = "read" =>
        /\ ctl[c].base \in 1..Len(states)
        /\ Pending(states[ctl[c].base], ctl[c].action)

IInv == CtlOK /\ StoreOK /\ RunsOK /\ AskersOK /\ ReadersOK /\ OneRunPerAction

\* What most steps do to each of the variables.
StoreCarries == UNCHANGED states \/ \E t : Evolves(Newest, t) /\ Commit(t)

RunsCarry ==
    /\ IsSeq(runs')
    /\ Len(runs') = Len(runs)
    /\ \A r \in 1..Len(runs) : IsRun(runs'[r]) /\ runs'[r].action = runs[r].action

CtlCarries ==
    /\ CtlOK'
    /\ \A c \in Controllers :
           /\ MayAsk(c)' => MayAsk(c) /\ ctl'[c].action = ctl[c].action
           /\ ctl'[c].pc = "read" => ctl'[c] = ctl[c]

LEMMA Domains == ASSUME NEW q, IsSeq(q) PROVE DOMAIN q = 1..Len(q) /\ Len(q) \in Nat
<1>1. PICK S : q \in Seq(S)
  BY DEF IsSeq
<1> QED
  BY <1>1

LEMMA NewestNamed ==
    ASSUME StoreOK
    PROVE  Named(Newest) /\ Newest.version = Len(states) /\ Len(states) \in Nat
  BY Domains DEF StoreOK, Newest

\* A commit keeps the old versions, and what is taken.
LEMMA CommitKeeps ==
    ASSUME StoreOK, NEW t, Evolves(Newest, t), Commit(t)
    PROVE  /\ StoreOK'
           /\ Len(states') = Len(states) + 1
           /\ Newest' = t
           /\ \A v \in 1..Len(states) : states'[v] = states[v]
           /\ \A a : Taken(a) => Taken(a)'
<1>1. /\ IsSeq(states')
      /\ Len(states) \in Nat
      /\ Len(states') = Len(states) + 1
      /\ \A v \in 1..Len(states) : states'[v] = states[v]
      /\ states'[Len(states) + 1] = t
  BY Appended DEF StoreOK, Commit
<1>2. Newest' = t
  BY <1>1 DEF Newest
<1>3. Named(t) /\ t.version = Len(states) + 1
  BY NewestNamed DEF Evolves
<1>4. ASSUME NEW v \in 1..Len(states')
      PROVE  Named(states'[v]) /\ states'[v].version = v
  BY <1>1, <1>3, <1>4 DEF StoreOK
<1>5. StoreOK'
  BY <1>1, <1>4 DEF StoreOK
<1>6. ASSUME NEW a, Taken(a) PROVE Taken(a)'
  <2>1. ~ Pending(t, a)
    BY <1>6, NewestNamed DEF Taken, Evolves
  <2>2. (~ Pending(Newest, a))'
    BY <1>2, <2>1 DEF Pending
  <2> QED
    BY <1>1, <1>6, <2>2 DEF Taken
<1> QED
  BY <1>1, <1>2, <1>5, <1>6

LEMMA StoreKeeps ==
    ASSUME StoreOK, StoreCarries
    PROVE  /\ StoreOK'
           /\ \A v \in 1..Len(states) : v \in 1..Len(states') /\ states'[v] = states[v]
           /\ \A a : Taken(a) => Taken(a)'
<1>1. CASE UNCHANGED states
  BY <1>1 DEF StoreOK, Taken, Newest
<1>2. CASE \E t : Evolves(Newest, t) /\ Commit(t)
  BY <1>2, CommitKeeps, NewestNamed
<1> QED
  BY <1>1, <1>2 DEF StoreCarries

LEMMA Carried ==
    ASSUME IInv, StoreCarries, RunsCarry, CtlCarries
    PROVE  IInv'
<1>1. /\ StoreOK'
      /\ \A v \in 1..Len(states) : v \in 1..Len(states') /\ states'[v] = states[v]
      /\ \A a : Taken(a) => Taken(a)'
  BY StoreKeeps DEF IInv
<1>2. RunsOK'
  BY <1>1 DEF IInv, RunsOK, RunsCarry
<1>3. AskersOK'
  <2>1. ASSUME NEW c \in Controllers, MayAsk(c)'
        PROVE  /\ Taken(ctl[c].action)'
               /\ \A r \in 1..Len(runs') : runs'[r].action # ctl'[c].action
    BY <1>1, <2>1 DEF IInv, AskersOK, RunsCarry, CtlCarries
  <2>2. ASSUME NEW c \in Controllers, NEW d \in Controllers,
               MayAsk(c)', MayAsk(d)', ctl'[d].action = ctl'[c].action
        PROVE  d = c
    BY <2>2 DEF IInv, AskersOK, CtlCarries
  <2> QED
    BY <2>1, <2>2 DEF AskersOK
<1>4. ReadersOK'
  BY <1>1 DEF IInv, ReadersOK, CtlCarries
<1>5. OneRunPerAction'
  <2>1. DOMAIN runs = 1..Len(runs) /\ DOMAIN runs' = 1..Len(runs)
    BY Domains DEF IInv, RunsOK, RunsCarry
  <2> QED
    BY <2>1 DEF IInv, OneRunPerAction, RunsCarry
<1> QED
  BY <1>1, <1>2, <1>3, <1>4, <1>5 DEF IInv, CtlCarries
-----------------------------------------------------------------------------
(* How the variables carry over. *)

LEMMA SameStore == UNCHANGED states => StoreCarries
  BY DEF StoreCarries

LEMMA SameRuns == ASSUME IInv, UNCHANGED runs PROVE RunsCarry
  BY DEF IInv, RunsOK, RunsCarry

LEMMA SameCtl == ASSUME IInv, UNCHANGED ctl PROVE CtlCarries
  BY DEF IInv, CtlOK, CtlCarries, MayAsk

LEMMA EndsCarries == ASSUME IInv, NEW c \in Controllers, Ends(c) PROVE CtlCarries
<1>1. Idle \in [pc : Places, action : Nat, base : Nat, run : Nat]
  BY DEF Idle, Places, None
<1>2. CtlOK'
  BY <1>1 DEF IInv, CtlOK, Ends
<1>3. Idle.pc = "idle"
  BY DEF Idle
<1>4. \A d \in Controllers : ctl'[d] = IF d = c THEN Idle ELSE ctl[d]
  BY DEF IInv, CtlOK, Ends
<1> QED
  BY <1>2, <1>3, <1>4 DEF CtlCarries, MayAsk

LEMMA PlacedCarries ==
    ASSUME IInv, NEW c \in Controllers,
           NEW x \in [pc : Places, action : Nat, base : Nat, run : Nat],
           ctl' = [ctl EXCEPT ![c] = x], x.pc # "read",
           x.pc \in {"committed", "verified"} =>
               MayAsk(c) /\ x.action = ctl[c].action
    PROVE  CtlCarries
<1>1. CtlOK'
  BY DEF IInv, CtlOK
<1>2. \A d \in Controllers : ctl'[d] = IF d = c THEN x ELSE ctl[d]
  BY DEF IInv, CtlOK
<1> QED
  BY <1>1, <1>2 DEF CtlCarries, MayAsk

LEMMA RunChanged ==
    ASSUME IInv, NEW r \in DOMAIN runs, NEW x, IsRun(x),
           x.action = runs[r].action, runs' = [runs EXCEPT ![r] = x]
    PROVE  RunsCarry
<1>1. IsSeq(runs') /\ Len(runs') = Len(runs) /\ DOMAIN runs = 1..Len(runs)
  BY Replaced, Domains DEF IInv, RunsOK
<1>2. \A q \in 1..Len(runs) : runs'[q] = IF q = r THEN x ELSE runs[q]
  BY <1>1
<1> QED
  BY <1>1, <1>2 DEF IInv, RunsOK, RunsCarry
-----------------------------------------------------------------------------
(* The initial states, and the steps of the controllers. *)

LEMMA InitIInv == Init => IInv
<1> SUFFICES ASSUME Init PROVE IInv
  OBVIOUS
<1>1. PICK d \in Developers : states = <<Started(d)>>
  BY DEF Init
<1>2. Named(Started(d)) /\ Started(d).version = 1
  <2> DEFINE i == Fresh(1, "implement", MainSha)
  <2>1. IsItem(i) /\ i.id = 1
    BY FreshItem
  <2>2. /\ Started(d) = [f \in StateFields |-> Started(d)[f]]
        /\ Started(d).version = 1
        /\ Started(d).outbox = {i}
    BY DEF Started, StateFields
  <2> HIDE DEF i
  <2> QED
    BY <2>1, <2>2 DEF Named
<1>3. StoreOK
  <2>1. states \in Seq({Started(d)}) /\ Len(states) = 1 /\ states[1] = Started(d)
    BY <1>1
  <2> QED
    BY <1>2, <2>1 DEF StoreOK, IsSeq
<1>4. IsSeq(runs) /\ Len(runs) = 0 /\ DOMAIN runs = {}
  <2>1. runs \in Seq({})
    BY DEF Init
  <2> QED
    BY <2>1 DEF IsSeq, Init
<1>5. Idle \in [pc : Places, action : Nat, base : Nat, run : Nat] /\ Idle.pc = "idle"
  BY DEF Idle, Places, None
<1>6. CtlOK /\ \A c \in Controllers : ctl[c].pc = "idle"
  BY <1>5 DEF Init, CtlOK
<1> QED
  BY <1>3, <1>4, <1>6
  DEF IInv, RunsOK, AskersOK, ReadersOK, MayAsk, OneRunPerAction

LEMMA BindStep ==
    ASSUME IInv, NEW c \in Controllers, BindCheckpoint(c) PROVE IInv'
<1>1. PICK i \in Newest.outbox : Commit(Bind(Newest, i))
  BY DEF BindCheckpoint
<1>2. StoreCarries
  BY <1>1, NewestNamed, BindEvolves DEF IInv, StoreCarries
<1> QED
  BY <1>2, SameRuns, SameCtl, Carried DEF BindCheckpoint

LEMMA ReadForIntentStep ==
    ASSUME IInv, NEW c \in Controllers, ReadForIntent(c) PROVE IInv'
<1>1. PICK i \in Newest.outbox :
          /\ i.status = "pending"
          /\ ctl' = [ctl EXCEPT ![c] = [pc |-> "read", action |-> i.id,
                                      base |-> Len(states), run |-> None]]
  BY DEF ReadForIntent, Dispatchable
<1> DEFINE x == [pc |-> "read", action |-> i.id, base |-> Len(states), run |-> None]
<1>2. Named(Newest) /\ Len(states) \in Nat /\ IsItem(i)
  BY NewestNamed DEF IInv, Named
<1>3. x \in [pc : Places, action : Nat, base : Nat, run : Nat]
  BY <1>2 DEF IsItem, Places, None
<1>4. x.pc = "read" /\ x.base = Len(states) /\ x.action = i.id
  OBVIOUS
<1>5. Pending(states[x.base], x.action) /\ x.base \in 1..Len(states)
  BY <1>1, <1>2, <1>4 DEF Pending, Newest, IInv, StoreOK
<1> HIDE DEF x
<1>6. CtlOK'
  BY <1>1, <1>3 DEF IInv, CtlOK, x
<1>7. \A d \in Controllers : ctl'[d] = IF d = c THEN x ELSE ctl[d]
  BY <1>1 DEF IInv, CtlOK, x
<1>8. UNCHANGED <<states, runs>>
  BY DEF ReadForIntent
<1>9. StoreOK' /\ RunsOK' /\ OneRunPerAction'
  BY <1>8 DEF IInv, StoreOK, RunsOK, OneRunPerAction, Taken, Newest
<1>10. AskersOK'
  BY <1>4, <1>7, <1>8 DEF IInv, AskersOK, MayAsk, Taken, Newest
<1>11. ReadersOK'
  BY <1>5, <1>7, <1>8 DEF IInv, ReadersOK
<1> QED
  BY <1>6, <1>9, <1>10, <1>11 DEF IInv

\* The push that succeeds finds its action pending in the head it replaces.
LEMMA CommitIntentStep ==
    ASSUME IInv, NEW c \in Controllers, CommitIntent(c) PROVE IInv'
<1>0. PICK a \in Nat : a = ctl[c].action
  BY DEF IInv, CtlOK
<1>1. PICK i \in Newest.outbox :
          i.id = a /\ Commit(Intend(Newest, i, TicketOf(c)))
  BY <1>0 DEF CommitIntent
<1> DEFINE t == Intend(Newest, i, TicketOf(c))
<1>2. Named(Newest) /\ Newest.version = Len(states) /\ Len(states) \in Nat
  BY NewestNamed DEF IInv
<1>3. Pending(Newest, a)
  BY <1>0 DEF CommitIntent, At, IInv, ReadersOK, Newest
<1>4. Evolves(Newest, t) /\ ~ Pending(t, a)
  BY <1>1, <1>2, IntendEvolves
<1> HIDE DEF t
<1>5. /\ StoreOK' /\ Newest' = t
      /\ Len(states') = Len(states) + 1
      /\ \A v \in 1..Len(states) : states'[v] = states[v]
      /\ \A b : Taken(b) => Taken(b)'
  <2>1. StoreOK /\ Commit(t)
    BY <1>1 DEF IInv, t
  <2> QED
    BY <1>4, <2>1, CommitKeeps
<1>6. a \in 0..Len(states)
  BY <1>1, <1>2 DEF Named
<1>7. Taken(a)'
  <2>1. (~ Pending(Newest, a))'
    BY <1>4, <1>5 DEF Pending
  <2> QED
    BY <1>2, <1>5, <1>6, <2>1 DEF Taken
<1>8. UNCHANGED runs /\ ctl' = [ctl EXCEPT ![c].pc = "committed"]
  BY DEF CommitIntent, Goes
<1>9. [ctl[c] EXCEPT !.pc = "committed"] \in [pc : Places, action : Nat, base : Nat, run : Nat]
  BY DEF IInv, CtlOK, Places
<1>10. CtlOK'
  BY <1>8, <1>9 DEF IInv, CtlOK
<1>11. /\ ctl'[c].pc = "committed" /\ ctl'[c].action = a
       /\ \A d \in Controllers \ {c} : ctl'[d] = ctl[d]
  BY <1>0, <1>8 DEF IInv, CtlOK
<1>12. RunsOK' /\ OneRunPerAction'
  BY <1>5, <1>8 DEF IInv, RunsOK, OneRunPerAction
<1>13. \A r \in 1..Len(runs) : runs[r].action # a
  BY <1>3 DEF IInv, RunsOK, Taken
<1>14. \A d \in Controllers : MayAsk(d) => ctl[d].action # a
  BY <1>3 DEF IInv, AskersOK, Taken
<1>15. AskersOK'
  <2>1. ASSUME NEW d \in Controllers, MayAsk(d)'
        PROVE  /\ Taken(ctl[d].action)'
               /\ \A r \in 1..Len(runs') : runs'[r].action # ctl'[d].action
               /\ \A e \in Controllers :
                      MayAsk(e)' /\ ctl'[e].action = ctl'[d].action => e = d
    <3>1. CASE d = c
      <4>1. Taken(ctl[d].action)'
        BY <1>7, <1>11, <3>1
      <4>2. \A r \in 1..Len(runs') : runs'[r].action # ctl'[d].action
        BY <1>8, <1>11, <1>13, <3>1
      <4>3. \A e \in Controllers :
                MayAsk(e)' /\ ctl'[e].action = ctl'[d].action => e = d
        BY <1>11, <1>14, <3>1 DEF MayAsk
      <4> QED
        BY <4>1, <4>2, <4>3
    <3>2. CASE d # c
      <4>1. MayAsk(d) /\ ctl'[d].action = ctl[d].action
        BY <1>11, <2>1, <3>2 DEF MayAsk
      <4>2. Taken(ctl[d].action)'
        BY <1>5, <4>1 DEF IInv, AskersOK
      <4>3. \A r \in 1..Len(runs') : runs'[r].action # ctl'[d].action
        BY <1>8, <4>1 DEF IInv, AskersOK
      <4>4. ASSUME NEW e \in Controllers, MayAsk(e)', ctl'[e].action = ctl'[d].action
            PROVE  e = d
        <5>1. e # c
          BY <1>11, <1>14, <4>1, <4>4
        <5> QED
          BY <1>11, <4>1, <4>4, <5>1 DEF IInv, AskersOK, MayAsk
      <4> QED
        BY <4>2, <4>3, <4>4
    <3> QED
      BY <3>1, <3>2
  <2> QED
    BY <2>1 DEF AskersOK
<1>16. ReadersOK'
  BY <1>2, <1>5, <1>11 DEF IInv, ReadersOK
<1> QED
  BY <1>5, <1>10, <1>12, <1>15, <1>16 DEF IInv

LEMMA VerifyStep ==
    ASSUME IInv, NEW c \in Controllers, Verify(c) PROVE IInv'
<1> DEFINE x == [ctl[c] EXCEPT !.pc = "verified"]
<1>1. /\ x \in [pc : Places, action : Nat, base : Nat, run : Nat]
      /\ x.pc = "verified" /\ x.action = ctl[c].action
  BY DEF IInv, CtlOK, Places
<1>2. ctl' = [ctl EXCEPT ![c] = x] /\ UNCHANGED <<states, runs>> /\ MayAsk(c)
  BY DEF Verify, Goes, At, MayAsk
<1> HIDE DEF x
<1>3. CtlCarries
  BY <1>1, <1>2, PlacedCarries
<1> QED
  BY <1>2, <1>3, SameStore, SameRuns, Carried

\* A run is asked for by the one controller that may, and once.
LEMMA PostStep ==
    ASSUME IInv, NEW c \in Controllers, NEW answer \in {"answered", "lost", "refused"},
           Post(c, answer)
    PROVE  IInv'
<1>0. PICK a \in Nat : a = ctl[c].action
  BY DEF IInv, CtlOK
<1>1. MayAsk(c) /\ UNCHANGED states
  BY DEF Post, At, MayAsk
<1>2. CtlCarries /\ ~ MayAsk(c)'
  <2>1. CASE answer = "answered"
    <3> DEFINE x == [ctl[c] EXCEPT !.pc = "answered", !.run = Len(runs) + 1]
    <3>1. Len(runs) \in Nat
      BY Domains DEF IInv, RunsOK
    <3>2. /\ x \in [pc : Places, action : Nat, base : Nat, run : Nat]
          /\ x.pc = "answered"
      <4>1. ctl[c] \in [pc : Places, action : Nat, base : Nat, run : Nat]
        BY DEF IInv, CtlOK
      <4>2. Len(runs) + 1 \in Nat /\ "answered" \in Places
        BY <3>1 DEF Places
      <4> QED
        BY <4>1, <4>2
    <3>3. ctl' = [ctl EXCEPT ![c] = x]
      BY <2>1 DEF Post, IInv, CtlOK
    <3> HIDE DEF x
    <3>4. CtlCarries
      BY <3>2, <3>3, PlacedCarries
    <3>5. ctl'[c].pc = "answered"
      BY <3>2, <3>3 DEF IInv, CtlOK
    <3> QED
      BY <3>4, <3>5 DEF MayAsk
  <2>2. CASE answer # "answered"
    <3>1. Ends(c)
      BY <2>2 DEF Post
    <3>2. ctl'[c].pc = "idle"
      BY <3>1 DEF Ends, Idle, IInv, CtlOK
    <3> QED
      BY <3>1, <3>2, EndsCarries DEF MayAsk
  <2> QED
    BY <2>1, <2>2
<1>3. CASE answer = "refused"
  <2>1. UNCHANGED runs
    BY <1>3 DEF Post
  <2> QED
    BY <1>1, <1>2, <2>1, SameStore, SameRuns, Carried
<1>4. CASE answer # "refused"
  <2>1. PICK i : i.id = a /\ runs' = Append(runs, Run(TicketOf(c), i))
    BY <1>0, <1>4 DEF Post
  <2> DEFINE x == Run(TicketOf(c), i)
  <2>2. IsRun(x) /\ x.action = a
    BY <2>1 DEF IsRun, RunFields, Run
  <2> HIDE DEF x
  <2>3. /\ IsSeq(runs') /\ Len(runs) \in Nat /\ Len(runs') = Len(runs) + 1
        /\ \A n \in 1..Len(runs) : runs'[n] = runs[n]
        /\ runs'[Len(runs) + 1] = x
    BY <2>1, Appended DEF IInv, RunsOK, x
  <2>4. /\ Taken(a)
        /\ \A r \in 1..Len(runs) : runs[r].action # a
        /\ \A d \in Controllers : MayAsk(d) /\ ctl[d].action = a => d = c
    BY <1>0, <1>1 DEF IInv, AskersOK
  <2>5. \A b : Taken(b) => Taken(b)'
    BY <1>1 DEF Taken, Newest
  <2>6. RunsOK'
    <3>1. ASSUME NEW r \in 1..Len(runs')
          PROVE  IsRun(runs'[r]) /\ Taken(runs'[r].action)
      BY <2>2, <2>3, <2>4 DEF IInv, RunsOK
    <3> QED
      BY <1>1, <2>3, <3>1 DEF RunsOK, Taken, Newest
  <2>7. OneRunPerAction'
    <3>1. DOMAIN runs = 1..Len(runs) /\ DOMAIN runs' = 1..Len(runs')
      BY <2>3, Domains DEF IInv, RunsOK
    <3>2. ASSUME NEW r \in 1..Len(runs'), NEW q \in 1..Len(runs'),
                 runs'[r].action = runs'[q].action
          PROVE  r = q
      <4>1. CASE r \in 1..Len(runs) /\ q \in 1..Len(runs)
        BY <2>3, <3>1, <3>2, <4>1 DEF IInv, OneRunPerAction
      <4>2. CASE r = Len(runs) + 1 \/ q = Len(runs) + 1
        BY <2>2, <2>3, <2>4, <3>2, <4>2
      <4> QED
        BY <2>3, <4>1, <4>2
    <3> QED
      BY <3>1, <3>2 DEF OneRunPerAction
  <2>8. AskersOK'
    <3>1. ASSUME NEW d \in Controllers, MayAsk(d)'
          PROVE  /\ MayAsk(d) /\ d # c /\ ctl'[d].action = ctl[d].action
                 /\ Taken(ctl[d].action)'
                 /\ \A r \in 1..Len(runs') : runs'[r].action # ctl'[d].action
      <4>1. MayAsk(d) /\ d # c /\ ctl'[d].action = ctl[d].action
        BY <1>2, <3>1 DEF CtlCarries
      <4>2. Taken(ctl[d].action) /\ \A r \in 1..Len(runs) : runs[r].action # ctl[d].action
        BY <4>1 DEF IInv, AskersOK
      <4>3. ctl[d].action # a
        BY <2>4, <4>1
      <4>4. Taken(ctl[d].action)'
        BY <1>1, <4>1, <4>2 DEF Taken, Newest
      <4> QED
        BY <2>2, <2>3, <4>1, <4>2, <4>3, <4>4
    <3>2. ASSUME NEW d \in Controllers, NEW e \in Controllers,
                 MayAsk(d)', MayAsk(e)', ctl'[e].action = ctl'[d].action
          PROVE  e = d
      BY <3>1, <3>2 DEF IInv, AskersOK
    <3> QED
      BY <3>1, <3>2 DEF AskersOK
  <2>9. StoreOK' /\ ReadersOK' /\ CtlOK'
    BY <1>1, <1>2 DEF IInv, StoreOK, ReadersOK, CtlCarries
  <2> QED
    BY <2>6, <2>7, <2>8, <2>9 DEF IInv
<1> QED
  BY <1>3, <1>4

LEMMA ReadForAckStep ==
    ASSUME IInv, NEW c \in Controllers, ReadForAck(c) PROVE IInv'
<1>1. UNCHANGED <<states, runs>>
  BY DEF ReadForAck
<1>2. CASE Outstanding(TicketOf(c)) # {}
  <2> DEFINE x == [ctl[c] EXCEPT !.pc = "acking", !.base = Len(states)]
  <2>1. Len(states) \in Nat
    BY NewestNamed DEF IInv
  <2>2. /\ x \in [pc : Places, action : Nat, base : Nat, run : Nat]
        /\ x.pc = "acking"
    BY <2>1 DEF IInv, CtlOK, Places
  <2>3. ctl' = [ctl EXCEPT ![c] = x]
    BY <1>2 DEF ReadForAck, IInv, CtlOK
  <2> HIDE DEF x
  <2>4. CtlCarries
    BY <2>2, <2>3, PlacedCarries
  <2> QED
    BY <1>1, <2>4, SameStore, SameRuns, Carried
<1>3. CASE ~ (Outstanding(TicketOf(c)) # {})
  <2>1. Ends(c)
    BY <1>3 DEF ReadForAck
  <2> QED
    BY <1>1, <2>1, EndsCarries, SameStore, SameRuns, Carried
<1> QED
  BY <1>2, <1>3

LEMMA CommitAckStep ==
    ASSUME IInv, NEW c \in Controllers, CommitAck(c) PROVE IInv'
<1>1. PICK i \in Newest.outbox : Commit(Acknowledge(Newest, i, ctl[c].run))
  BY DEF CommitAck
<1>2. StoreCarries
  BY <1>1, NewestNamed, AcknowledgeEvolves DEF IInv, StoreCarries
<1> QED
  BY <1>2, EndsCarries, SameRuns, Carried DEF CommitAck

LEMMA FailStep ==
    ASSUME IInv, NEW c \in Controllers, Fail(c) PROVE IInv'
  BY EndsCarries, SameStore, SameRuns, Carried DEF Fail
-----------------------------------------------------------------------------
(* The steps of the runs, of their reconciliation and of what they answer. *)

\* A run whose record keeps its shape and its action.
LEMMA RunStep ==
    ASSUME IInv, StoreCarries, UNCHANGED ctl, NEW r \in DOMAIN runs, NEW x, IsRun(x),
           x.action = runs[r].action, runs' = [runs EXCEPT ![r] = x]
    PROVE  IInv'
  BY RunChanged, SameCtl, Carried

LEMMA AdmitStep ==
    ASSUME IInv, NEW r \in DOMAIN runs, Admit(r) PROVE IInv'
<1> DEFINE x == [runs[r] EXCEPT !.stage = "model"]
<1>1. IsRun(runs[r])
  BY Domains DEF IInv, RunsOK
<1>2. IsRun(x) /\ x.action = runs[r].action
  BY <1>1 DEF IsRun, RunFields
<1>3. runs' = [runs EXCEPT ![r] = x] /\ UNCHANGED <<states, ctl>>
  BY DEF Admit, Changes
<1> HIDE DEF x
<1> QED
  BY <1>2, <1>3, RunStep, SameStore

LEMMA ConcludesStep ==
    ASSUME IInv, NEW r \in DOMAIN runs, NEW stage, NEW conclusion,
           Concludes(r, stage, conclusion)
    PROVE  IInv'
<1> DEFINE x == [runs[r] EXCEPT !.stage = stage, !.conclusion = conclusion]
<1>1. IsRun(runs[r])
  BY Domains DEF IInv, RunsOK
<1>2. IsRun(x) /\ x.action = runs[r].action
  BY <1>1 DEF IsRun, RunFields
<1>3. runs' = [runs EXCEPT ![r] = x] /\ UNCHANGED <<states, ctl>>
  BY DEF Concludes
<1> HIDE DEF x
<1> QED
  BY <1>2, <1>3, RunStep, SameStore

LEMMA OverStep ==
    ASSUME IInv, StoreCarries, UNCHANGED ctl, NEW r \in DOMAIN runs,
           NEW outcome, EndsReconcile(r, outcome)
    PROVE  IInv'
<1> DEFINE x == [runs[r] EXCEPT !.reconcile = outcome, !.base = 0]
<1>1. IsRun(runs[r])
  BY Domains DEF IInv, RunsOK
<1>2. IsRun(x) /\ x.action = runs[r].action
  BY <1>1 DEF IsRun, RunFields
<1>3. runs' = [runs EXCEPT ![r] = x]
  BY DEF EndsReconcile
<1> HIDE DEF x
<1> QED
  BY <1>2, <1>3, RunStep

LEMMA ReconciledStep ==
    ASSUME IInv, StoreCarries, UNCHANGED ctl, NEW r \in DOMAIN runs, Reconciled(r)
    PROVE  IInv'
<1> DEFINE x == [runs[r] EXCEPT !.stage = "waiting", !.conclusion = "none",
                                !.attempt = 2, !.reconcile = "no", !.base = 0]
<1>1. CASE MayRerun(r)
  <2>1. IsRun(runs[r])
    BY Domains DEF IInv, RunsOK
  <2>2. IsRun(x) /\ x.action = runs[r].action
    BY <2>1 DEF IsRun, RunFields
  <2>3. runs' = [runs EXCEPT ![r] = x]
    BY <1>1 DEF Reconciled
  <2> HIDE DEF x
  <2> QED
    BY <2>2, <2>3, RunStep
<1>2. CASE ~ MayRerun(r)
  BY <1>2, OverStep DEF Reconciled
<1> QED
  BY <1>1, <1>2

LEMMA ReconcilerStep ==
    ASSUME IInv, NEW r \in DOMAIN runs, Reconciler(r) PROVE IInv'
<1>1. UNCHANGED ctl
  BY DEF Reconciler, ReadForReconcile, CommitReconcile
<1>2. CASE ReadForReconcile(r)
  <2>1. UNCHANGED states
    BY <1>2 DEF ReadForReconcile
  <2>2. CASE Reconciled(r)
    BY <1>1, <2>1, <2>2, SameStore, ReconciledStep
  <2>3. CASE EndsReconcile(r, "lost")
    BY <1>1, <2>1, <2>3, SameStore, OverStep
  <2>4. CASE runs' = [runs EXCEPT ![r].reconcile = "reading", ![r].base = Len(states)]
    <3> DEFINE x == [runs[r] EXCEPT !.reconcile = "reading", !.base = Len(states)]
    <3>1. IsRun(runs[r])
      BY Domains DEF IInv, RunsOK
    <3>2. IsRun(x) /\ x.action = runs[r].action
      BY <3>1 DEF IsRun, RunFields
    <3>3. runs' = [runs EXCEPT ![r] = x]
      BY <2>4
    <3> HIDE DEF x
    <3> QED
      BY <1>1, <2>1, <3>2, <3>3, SameStore, RunStep
  <2> QED
    BY <1>2, <2>2, <2>3, <2>4 DEF ReadForReconcile
<1>3. CASE CommitReconcile(r)
  <2>1. CASE /\ \E i \in Outstanding(runs[r].ticket) : Commit(Acknowledge(Newest, i, r))
             /\ Reconciled(r)
    <3>1. PICK i \in Newest.outbox : Commit(Acknowledge(Newest, i, r))
      BY <2>1 DEF Outstanding
    <3>2. StoreCarries
      BY <3>1, NewestNamed, AcknowledgeEvolves DEF IInv, StoreCarries
    <3> QED
      BY <1>1, <2>1, <3>2, ReconciledStep
  <2>2. CASE EndsReconcile(r, "lost") /\ UNCHANGED states
    BY <1>1, <2>2, SameStore, OverStep
  <2> QED
    BY <1>3, <2>1, <2>2 DEF CommitReconcile
<1> QED
  BY <1>2, <1>3 DEF Reconciler

LEMMA RunsStep ==
    ASSUME IInv, NEW r \in DOMAIN runs,
           \/ Worker(r) \/ Cancel(r) \/ Break(r)
           \/ Reconciler(r) \/ RefuseClaim(r) \/ FailReconcile(r)
    PROVE  IInv'
<1>1. CASE Worker(r)
  BY <1>1, AdmitStep, ConcludesStep DEF Worker, Deny, Finish
<1>2. CASE Cancel(r) \/ Break(r)
  BY <1>2, ConcludesStep DEF Cancel, Break
<1>3. CASE Reconciler(r)
  BY <1>3, ReconcilerStep
<1>4. CASE RefuseClaim(r) \/ FailReconcile(r)
  BY <1>4, SameStore, OverStep DEF RefuseClaim, FailReconcile
<1> QED
  BY <1>1, <1>2, <1>3, <1>4

LEMMA IngestsStep ==
    ASSUME IInv, NEW t, Evolves(Newest, t), Ingests(t) PROVE IInv'
<1>1. StoreCarries
  BY DEF Ingests, StoreCarries
<1> QED
  BY <1>1, SameRuns, SameCtl, Carried DEF Ingests

LEMMA IngestStep == ASSUME IInv, Ingest PROVE IInv'
<1>1. Named(Newest)
  BY NewestNamed DEF IInv
<1>2. PICK i \in Newest.outbox :
          \/ IngestYield(i)
          \/ \E r \in DOMAIN runs : IngestPublication(i, r)
          \/ IngestQwenPublication(i)
          \/ IngestDispute(i)
          \/ \E verdict \in {"approved", "changes_requested"} : IngestReview(i, verdict)
          \/ IngestFailure(i)
  BY DEF Ingest
<1>3. CASE IngestYield(i)
  BY <1>1, <1>3, YieldEvolves, IngestsStep DEF IngestYield
<1>4. CASE \E r \in DOMAIN runs : IngestPublication(i, r)
  BY <1>1, <1>4, AdvanceEvolves, IngestsStep DEF IngestPublication, Publish
<1>5. CASE IngestQwenPublication(i)
  BY <1>1, <1>5, AdvanceEvolves, IngestsStep DEF IngestQwenPublication, QwenPublish
<1>6. CASE IngestDispute(i)
  BY <1>1, <1>6, AdvanceEvolves, IngestsStep DEF IngestDispute, AcceptTaskResult
<1>7. CASE \E verdict \in {"approved", "changes_requested"} : IngestReview(i, verdict)
  BY <1>1, <1>7, AdvanceEvolves, IngestsStep DEF IngestReview, AcceptTaskResult
<1>8. CASE IngestFailure(i)
  BY <1>1, <1>8, RecoverEvolves, IngestsStep DEF IngestFailure
<1> QED
  BY <1>2, <1>3, <1>4, <1>5, <1>6, <1>7, <1>8
-----------------------------------------------------------------------------
LEMMA ControllerStep ==
    ASSUME IInv, NEW c \in Controllers, Controller(c) PROVE IInv'
<1>1. CASE BindCheckpoint(c)
  BY <1>1, BindStep
<1>2. CASE ReadForIntent(c)
  BY <1>2, ReadForIntentStep
<1>3. CASE CommitIntent(c)
  BY <1>3, CommitIntentStep
<1>4. CASE Verify(c)
  BY <1>4, VerifyStep
<1>5. CASE \E answer \in {"answered", "lost", "refused"} : Post(c, answer)
  BY <1>5, PostStep
<1>6. CASE ReadForAck(c)
  BY <1>6, ReadForAckStep
<1>7. CASE CommitAck(c)
  BY <1>7, CommitAckStep
<1>8. CASE Fail(c)
  BY <1>8, FailStep
<1> QED
  BY <1>1, <1>2, <1>3, <1>4, <1>5, <1>6, <1>7, <1>8 DEF Controller

LEMMA StutterStep == ASSUME IInv, UNCHANGED vars PROVE IInv'
<1>1. UNCHANGED states /\ UNCHANGED runs /\ UNCHANGED ctl
  BY DEF vars
<1> QED
  BY <1>1, SameStore, SameRuns, SameCtl, Carried

LEMMA Invariant == Spec => []IInv
<1>1. Init => IInv
  BY InitIInv
<1>2. IInv /\ [Next]_vars => IInv'
  BY ControllerStep, RunsStep, IngestStep, StutterStep DEF Next
<1> QED
  BY <1>1, <1>2, PTL DEF Spec

\* However many controllers work on an Issue, and however often GitHub keeps
\* the number of a run to itself, no action is ever given to two runs: the
\* double of a run would cost a second model session on the same branch.
THEOREM OneRunPerActionAlways == Spec => []OneRunPerAction
<1>1. IInv => OneRunPerAction
  BY DEF IInv
<1> QED
  BY <1>1, Invariant, PTL
-----------------------------------------------------------------------------
(***************************************************************************)
(* The second invariant: each version of the Store is sound, and so is     *)
(* what a controller or a run remembers of a version.  Versions are never  *)
(* changed, so what is remembered stays true, whatever is committed later. *)
(***************************************************************************)
RunRecords ==
    [action : Nat, task : Tasks, sha : Nat, ticket : Tickets,
     stage : {"waiting", "denied", "model", "done"},
     conclusion : {"none", "success", "failure", "cancelled"},
     attempt : 1..2, base : Nat, reconcile : {"no", "reading", "over", "lost"}]

RunSound(x) ==
    /\ x \in RunRecords
    /\ x.ticket.action = x.action
    /\ x.task \in {"implement", "repair", "review"}

StoreSound ==
    /\ states \in Seq(States)
    /\ Len(states) >= 1
    /\ \A v \in 1..Len(states) : Sound(states[v]) /\ states[v].version = v

RunsSound == runs \in Seq(RunRecords) /\ \A r \in 1..Len(runs) : RunSound(runs[r])

\* What a controller at place k remembers of the Store S and the runs R.
Remembers(k, S, R) ==
    /\ k.pc = "read" =>
           /\ k.base \in 1..Len(S)
           /\ \E i \in S[k.base].outbox : i.id = k.action /\ Dispatchable(i)
    /\ k.pc \in {"committed", "verified"} =>
           /\ k.base + 1 \in 1..Len(S)
           /\ \E i \in S[k.base + 1].outbox :
                  i.id = k.action /\ i.status = "dispatching"
    /\ k.pc \in {"answered", "acking"} =>
           k.run \in 1..Len(R) /\ R[k.run].action = k.action
    /\ k.pc = "acking" =>
           /\ k.base \in 1..Len(S)
           /\ \E i \in S[k.base].outbox : i.id = k.action /\ i.status = "dispatching"

JInv ==
    /\ StoreSound
    /\ RunsSound
    /\ \A c \in Controllers : Remembers(ctl[c], states, runs)

Grows(S, T) ==
    /\ Len(S) \in Nat /\ Len(T) \in Nat /\ Len(S) <= Len(T)
    /\ \A v \in 1..Len(S) : T[v] = S[v]

KeepActions(R, Q) ==
    /\ Len(R) \in Nat /\ Len(Q) \in Nat /\ Len(R) <= Len(Q)
    /\ \A r \in 1..Len(R) : Q[r].action = R[r].action

LEMMA RemembersStill ==
    ASSUME NEW k, NEW S, NEW R, Remembers(k, S, R), k.base \in Nat,
           NEW T, Grows(S, T), NEW Q, KeepActions(R, Q)
    PROVE  Remembers(k, T, Q)
<1>1. \A v \in 1..Len(S) : v \in 1..Len(T) /\ T[v] = S[v]
  BY DEF Grows
<1>2. \A r \in 1..Len(R) : r \in 1..Len(Q) /\ Q[r].action = R[r].action
  BY DEF KeepActions
<1>3. k.pc = "read" => /\ k.base \in 1..Len(T)
                       /\ \E i \in T[k.base].outbox : i.id = k.action /\ Dispatchable(i)
  BY <1>1 DEF Remembers
<1>4. k.pc \in {"committed", "verified"} =>
          /\ k.base + 1 \in 1..Len(T)
          /\ \E i \in T[k.base + 1].outbox : i.id = k.action /\ i.status = "dispatching"
  <2> DEFINE b == k.base + 1
  <2>1. k.pc \in {"committed", "verified"} =>
            /\ b \in 1..Len(S)
            /\ \E i \in S[b].outbox : i.id = k.action /\ i.status = "dispatching"
    BY DEF Remembers
  <2> HIDE DEF b
  <2>2. k.pc \in {"committed", "verified"} =>
            /\ b \in 1..Len(T)
            /\ \E i \in T[b].outbox : i.id = k.action /\ i.status = "dispatching"
    BY <1>1, <2>1
  <2> QED
    BY <2>2 DEF b
<1>5. k.pc \in {"answered", "acking"} => k.run \in 1..Len(Q) /\ Q[k.run].action = k.action
  BY <1>2 DEF Remembers
<1>6. k.pc = "acking" =>
          /\ k.base \in 1..Len(T)
          /\ \E i \in T[k.base].outbox : i.id = k.action /\ i.status = "dispatching"
  BY <1>1 DEF Remembers
<1> QED
  BY <1>3, <1>4, <1>5, <1>6 DEF Remembers

LEMMA NewestSound ==
    ASSUME StoreSound
    PROVE  /\ Sound(Newest) /\ Newest = states[Len(states)]
           /\ Newest.version = Len(states) /\ Len(states) \in Nat
           /\ Len(states) \in 1..Len(states)
  BY DEF StoreSound, Newest

LEMMA CommitSound ==
    ASSUME StoreSound, NEW t, Sound(t), t.version = Newest.version + 1, Commit(t)
    PROVE  /\ StoreSound' /\ Grows(states, states')
           /\ Newest' = t /\ Len(states') = Len(states) + 1
<1>1. /\ states \in Seq(States) /\ t \in States /\ states' = Append(states, t)
      /\ Len(states) \in Nat /\ Len(states) >= 1
  BY DEF StoreSound, Sound, Commit
<1>2. /\ states' \in Seq(States) /\ Len(states') = Len(states) + 1
      /\ \A v \in 1..Len(states) : states'[v] = states[v]
      /\ states'[Len(states) + 1] = t
  BY <1>1
<1>3. Grows(states, states')
  BY <1>1, <1>2 DEF Grows
<1>4. \A v \in 1..Len(states') : Sound(states'[v]) /\ states'[v].version = v
  <2>1. t.version = Len(states) + 1
    BY NewestSound
  <2> QED
    BY <1>1, <1>2, <2>1 DEF StoreSound
<1> QED
  BY <1>1, <1>2, <1>3, <1>4 DEF StoreSound, Newest

StoreGoes == UNCHANGED states \/ \E t : /\ Sound(t) /\ t.version = Newest.version + 1
                                        /\ Commit(t)
RunsGo == RunsSound' /\ KeepActions(runs, runs')

LEMMA StoreGoesOn ==
    ASSUME StoreSound, StoreGoes
    PROVE  StoreSound' /\ Grows(states, states')
<1>1. CASE UNCHANGED states
  <2>1. StoreSound'
    BY <1>1 DEF StoreSound
  <2>2. Grows(states, states')
    BY <1>1, NewestSound DEF Grows
  <2> QED
    BY <2>1, <2>2
<1>2. CASE \E t : /\ Sound(t) /\ t.version = Newest.version + 1 /\ Commit(t)
  BY <1>2, CommitSound
<1> QED
  BY <1>1, <1>2 DEF StoreGoes

\* A controller that moves remembers something; the others remember on.
LEMMA MovesOn ==
    ASSUME CtlOK, JInv, StoreGoes, RunsGo,
           \A c \in Controllers :
               ctl'[c] = ctl[c] \/ Remembers(ctl'[c], states', runs')
    PROVE  JInv'
<1>1. StoreSound' /\ Grows(states, states')
  BY StoreGoesOn DEF JInv
<1>2. ASSUME NEW c \in Controllers PROVE Remembers(ctl'[c], states', runs')
  <2>1. CASE ctl'[c] = ctl[c]
    <3>1. Remembers(ctl[c], states, runs) /\ ctl[c].base \in Nat
      BY DEF JInv, CtlOK
    <3>2. Remembers(ctl[c], states', runs')
      BY <1>1, <3>1, RemembersStill DEF RunsGo
    <3> QED
      BY <2>1, <3>2
  <2> QED
    BY <2>1
<1> QED
  BY <1>1, <1>2 DEF JInv, RunsGo

LEMMA RunsStay == ASSUME RunsSound, UNCHANGED runs PROVE RunsGo
<1>1. Len(runs) \in Nat
  BY DEF RunsSound
<1> QED
  BY <1>1 DEF RunsGo, RunsSound, KeepActions

LEMMA RunGoesOn ==
    ASSUME RunsSound, NEW r \in DOMAIN runs, NEW x, RunSound(x),
           x.action = runs[r].action, runs' = [runs EXCEPT ![r] = x]
    PROVE  RunsGo
<1>1. runs \in Seq(RunRecords) /\ x \in RunRecords
  BY DEF RunsSound, RunSound
<1>2. /\ runs' \in Seq(RunRecords) /\ Len(runs') = Len(runs) /\ Len(runs) \in Nat
      /\ \A q \in 1..Len(runs) : runs'[q] = IF q = r THEN x ELSE runs[q]
  BY <1>1
<1>3. RunsSound'
  BY <1>2 DEF RunsSound
<1>4. KeepActions(runs, runs')
  BY <1>2 DEF KeepActions
<1> QED
  BY <1>3, <1>4 DEF RunsGo

LEMMA EndsRemembers ==
    ASSUME CtlOK, NEW c \in Controllers, Ends(c), NEW S, NEW R
    PROVE  \A d \in Controllers : ctl'[d] = ctl[d] \/ Remembers(ctl'[d], S, R)
<1>1. \A d \in Controllers : ctl'[d] = IF d = c THEN Idle ELSE ctl[d]
  BY DEF CtlOK, Ends
<1>2. Remembers(Idle, S, R)
  BY DEF Remembers, Idle
<1> QED
  BY <1>1, <1>2
-----------------------------------------------------------------------------
(* The steps keep the second invariant.                                    *)

LEMMA InitJInv == Init => JInv
<1> SUFFICES ASSUME Init PROVE JInv
  OBVIOUS
<1>1. PICK d \in Developers : states = <<Started(d)>>
  BY DEF Init
<1>2. Sound(Started(d)) /\ Started(d).version = 1
  BY StartedSound, DispatchAssumption DEF DispatchAssumption, Started
<1>3. StoreSound
  <2> DEFINE s == Started(d)
  <2> HIDE DEF s
  <2>1. states = <<s>> /\ s \in States /\ Sound(s) /\ s.version = 1
    BY <1>1, <1>2 DEF s, Sound
  <2>2. states \in Seq(States) /\ Len(states) = 1 /\ states[1] = s
    BY <2>1
  <2> QED
    BY <2>1, <2>2 DEF StoreSound
<1>4. RunsSound
  <2>1. runs = << >>
    BY DEF Init
  <2>2. runs \in Seq(RunRecords) /\ Len(runs) = 0
    BY <2>1
  <2> QED
    BY <2>2 DEF RunsSound
<1>5. \A c \in Controllers : ctl[c] = Idle
  BY DEF Init
<1>6. \A c \in Controllers : Remembers(ctl[c], states, runs)
  BY <1>5 DEF Remembers, Idle
<1> QED
  BY <1>3, <1>4, <1>6 DEF JInv

\* An operation of the outbox that is committed.
LEMMA Commits ==
    ASSUME NEW t, Sound(t), Evolves(Newest, t), Commit(t) PROVE StoreGoes
  BY DEF StoreGoes, Evolves

LEMMA JBind ==
    ASSUME IInv, JInv, NEW c \in Controllers, BindCheckpoint(c) PROVE JInv'
<1>1. PICK i \in Newest.outbox : Bindable(Newest, i) /\ Commit(Bind(Newest, i))
  BY DEF BindCheckpoint
<1>2. Named(Newest) /\ Sound(Newest)
  BY NewestNamed, NewestSound DEF IInv, JInv
<1>3. StoreGoes
  BY <1>1, <1>2, BindSound, BindEvolves, Commits
<1>4. RunsGo /\ UNCHANGED ctl
  BY RunsStay DEF BindCheckpoint, JInv
<1> QED
  BY <1>3, <1>4, MovesOn DEF IInv

LEMMA JReadForIntent ==
    ASSUME IInv, JInv, NEW c \in Controllers, ReadForIntent(c) PROVE JInv'
<1>1. PICK i \in Newest.outbox :
          /\ Dispatchable(i)
          /\ ctl' = [ctl EXCEPT ![c] = [pc |-> "read", action |-> i.id,
                                      base |-> Len(states), run |-> None]]
  BY DEF ReadForIntent
<1> DEFINE k == [pc |-> "read", action |-> i.id, base |-> Len(states), run |-> None]
<1>2. k.pc = "read" /\ k.action = i.id /\ k.base = Len(states)
  OBVIOUS
<1>3. \A d \in Controllers : ctl'[d] = IF d = c THEN k ELSE ctl[d]
  BY <1>1 DEF IInv, CtlOK
<1> HIDE DEF k
<1>4. Remembers(k, states, runs)
  BY <1>1, <1>2, NewestSound DEF Remembers, JInv
<1>5. UNCHANGED states /\ UNCHANGED runs
  BY DEF ReadForIntent
<1>6. \A d \in Controllers :
          ctl'[d] = ctl[d] \/ Remembers(ctl'[d], states', runs')
  BY <1>3, <1>4, <1>5
<1> QED
  BY <1>5, <1>6, RunsStay, MovesOn DEF IInv, JInv, StoreGoes

LEMMA JCommitIntent ==
    ASSUME IInv, JInv, NEW c \in Controllers, CommitIntent(c) PROVE JInv'
<1> DEFINE k == ctl[c]
           ticket == TicketOf(c)
<1>1. /\ k \in [pc : Places, action : Nat, base : Nat, run : Nat]
      /\ k.action \in Nat /\ k.base \in Nat /\ k.pc = "read" /\ k.base = Len(states)
  BY DEF IInv, CtlOK, CommitIntent, At
<1>2. ticket \in Tickets /\ ticket.action = k.action
  BY <1>1 DEF TicketOf, Tickets, Controllers
<1>3. Named(Newest) /\ Sound(Newest) /\ Newest = states[k.base]
  BY <1>1, NewestNamed, NewestSound DEF IInv, JInv
<1>4. PICK i \in Newest.outbox :
          i.id = k.action /\ Commit(Intend(Newest, i, ticket))
  BY DEF CommitIntent
<1>5. \E j \in Newest.outbox : j.id = k.action /\ Dispatchable(j)
  <2>1. Remembers(k, states, runs)
    BY DEF JInv
  <2> QED
    BY <1>1, <1>3, <2>1 DEF Remembers
<1>6. Dispatchable(i)
  BY <1>3, <1>4, <1>5 DEF Named
<1> DEFINE t == Intend(Newest, i, ticket)
           j == [i EXCEPT !.status = "dispatching", !.ticket = ticket]
<1> HIDE DEF ticket
<1>7. Sound(t) /\ Evolves(Newest, t)
  BY <1>2, <1>3, <1>4, <1>6, IntendSound, IntendEvolves
<1>8. j \in t.outbox /\ j.id = k.action /\ j.status = "dispatching"
  <2>1. i \in Items
    BY <1>3, StateTypes DEF Sound
  <2>2. j.id = i.id /\ j.status = "dispatching" /\ j \in Items
    BY <1>2, <2>1 DEF Items, Statuses
  <2>3. t = Step(Newest, {i}, {j})
    BY DEF Intend
  <2> HIDE DEF j, t
  <2>4. j \in t.outbox
    BY <1>3, <2>2, <2>3, StepTypes DEF Sound
  <2> QED
    BY <1>4, <2>2, <2>4
<1> HIDE DEF t, j
<1>9. /\ Newest' = t /\ Len(states') = Len(states) + 1
      /\ StoreSound' /\ StoreGoes
  <2>1. Commit(t) /\ t.version = Newest.version + 1
    BY <1>4, <1>7 DEF t, Evolves
  <2> QED
    BY <1>7, <2>1, CommitSound DEF JInv, StoreGoes
<1> DEFINE l == [k EXCEPT !.pc = "committed"]
<1>10. l.pc = "committed" /\ l.action = k.action /\ l.base = Len(states)
  BY <1>1
<1>11. \A d \in Controllers : ctl'[d] = IF d = c THEN l ELSE ctl[d]
  BY DEF CommitIntent, Goes, IInv, CtlOK
<1> HIDE DEF l
<1>12. Remembers(l, states', runs')
  <2>1. l.base + 1 = Len(states') /\ l.base + 1 \in 1..Len(states')
    BY <1>9, <1>10, NewestSound DEF JInv
  <2>2. states'[l.base + 1] = t
    BY <1>9, <2>1 DEF Newest
  <2> QED
    BY <1>8, <1>10, <2>1, <2>2 DEF Remembers
<1>13. \A d \in Controllers :
          ctl'[d] = ctl[d] \/ Remembers(ctl'[d], states', runs')
  BY <1>11, <1>12
<1>14. RunsGo
  BY RunsStay DEF CommitIntent, JInv
<1> QED
  BY <1>9, <1>13, <1>14, MovesOn DEF IInv

LEMMA JVerify ==
    ASSUME IInv, JInv, NEW c \in Controllers, Verify(c) PROVE JInv'
<1> DEFINE k == ctl[c]
           l == [k EXCEPT !.pc = "verified"]
<1>1. /\ k.pc = "committed"
      /\ l.pc = "verified" /\ l.action = k.action /\ l.base = k.base
  BY DEF Verify, At, IInv, CtlOK
<1>2. \A d \in Controllers : ctl'[d] = IF d = c THEN l ELSE ctl[d]
  BY DEF Verify, Goes, IInv, CtlOK
<1>3. Remembers(k, states, runs)
  BY DEF JInv
<1> HIDE DEF k, l
<1>4. Remembers(l, states, runs)
  BY <1>1, <1>3 DEF Remembers
<1>5. UNCHANGED states /\ UNCHANGED runs
  BY DEF Verify
<1>6. \A d \in Controllers :
          ctl'[d] = ctl[d] \/ Remembers(ctl'[d], states', runs')
  BY <1>2, <1>4, <1>5
<1> QED
  BY <1>5, <1>6, RunsStay, MovesOn DEF IInv, JInv, StoreGoes

\* The run that is asked for carries what the committed version says.
LEMMA PostedRun ==
    ASSUME IInv, JInv, NEW c \in Controllers, MayAsk(c),
           NEW i \in states[ctl[c].base + 1].outbox, i.id = ctl[c].action
    PROVE  /\ ctl[c].base + 1 \in 1..Len(states)
           /\ i.status = "dispatching" /\ i \in Items
           /\ LET x == Run(TicketOf(c), i)
              IN  /\ RunSound(x)
                  /\ x.action = i.id /\ x.task = i.task /\ x.sha = i.sha
                  /\ x.stage = "waiting" /\ x.conclusion = "none"
<1> DEFINE b == ctl[c].base + 1
           x == Run(TicketOf(c), i)
<1>1. /\ b \in 1..Len(states)
      /\ \E j \in states[b].outbox : j.id = ctl[c].action /\ j.status = "dispatching"
  BY DEF JInv, Remembers, MayAsk
<1>2. Sound(states[b])
  BY <1>1 DEF JInv, StoreSound
<1>3. i.status = "dispatching" /\ ValidStatus(i) /\ i \in Items
  <2>1. i \in states[b].outbox
    OBVIOUS
  <2> HIDE DEF b
  <2> QED
    BY <1>1, <1>2, <2>1, StateTypes DEF Sound, NamesOK, StatusesOK
<1>4. i.task \in {"implement", "repair", "review"}
  BY <1>3 DEF ValidStatus, IsDispatch, ForDeveloper
<1>5. TicketOf(c) \in Tickets /\ TicketOf(c).action = ctl[c].action
  BY DEF TicketOf, Tickets, Controllers, IInv, CtlOK
<1>6. i.id \in Nat /\ i.task \in Tasks /\ i.sha \in Nat
  BY <1>3, ItemTypes
<1>7. /\ x.ticket = TicketOf(c) /\ x.action = i.id /\ x.task = i.task /\ x.sha = i.sha
      /\ x.stage = "waiting" /\ x.conclusion = "none"
      /\ x \in RunRecords
  BY <1>5, <1>6 DEF Run, RunRecords
<1> HIDE DEF x
<1>8. RunSound(x)
  BY <1>4, <1>5, <1>7 DEF RunSound
<1> QED
  BY <1>1, <1>3, <1>7, <1>8 DEF x

LEMMA JPost ==
    ASSUME IInv, JInv, NEW c \in Controllers, NEW answer \in {"answered", "lost", "refused"},
           Post(c, answer)
    PROVE  JInv'
<1>1. MayAsk(c) /\ UNCHANGED states
  BY DEF Post, At, MayAsk
<1>2. CASE answer = "refused"
  <2>1. UNCHANGED runs /\ Ends(c)
    BY <1>2 DEF Post
  <2> QED
    BY <1>1, <2>1, RunsStay, EndsRemembers, MovesOn DEF IInv, JInv, StoreGoes
<1>3. CASE answer # "refused"
  <2>1. PICK i \in states[ctl[c].base + 1].outbox :
            i.id = ctl[c].action /\ runs' = Append(runs, Run(TicketOf(c), i))
    BY <1>3 DEF Post
  <2> DEFINE x == Run(TicketOf(c), i)
  <2>2. RunSound(x) /\ x.action = ctl[c].action
    BY <1>1, <2>1, PostedRun
  <2>3. runs' = Append(runs, x)
    BY <2>1
  <2> HIDE DEF x
  <2>4. /\ runs' \in Seq(RunRecords) /\ Len(runs) \in Nat /\ Len(runs') = Len(runs) + 1
        /\ \A r \in 1..Len(runs) : runs'[r] = runs[r]
        /\ runs'[Len(runs) + 1] = x
    BY <2>2, <2>3 DEF JInv, RunsSound, RunSound
  <2>5. RunsGo
    <3>1. \A r \in 1..Len(runs') : RunSound(runs'[r])
      BY <2>2, <2>4 DEF JInv, RunsSound
    <3> QED
      BY <2>4, <3>1 DEF RunsGo, RunsSound, KeepActions
  <2>6. CASE answer = "answered"
    <3> DEFINE k == ctl[c]
               l == [k EXCEPT !.pc = "answered", !.run = Len(runs) + 1]
    <3>1. l.pc = "answered" /\ l.run = Len(runs) + 1 /\ l.action = k.action
      BY DEF IInv, CtlOK
    <3>2. \A d \in Controllers : ctl'[d] = IF d = c THEN l ELSE ctl[d]
      BY <2>6 DEF Post, IInv, CtlOK
    <3> HIDE DEF k, l
    <3>3. Remembers(l, states', runs')
      BY <2>2, <2>4, <3>1 DEF Remembers, k
    <3>4. \A d \in Controllers :
              ctl'[d] = ctl[d] \/ Remembers(ctl'[d], states', runs')
      BY <3>2, <3>3
    <3> QED
      BY <1>1, <2>5, <3>4, MovesOn DEF IInv, StoreGoes
  <2>7. CASE answer # "answered"
    <3>1. Ends(c)
      BY <2>7 DEF Post
    <3> QED
      BY <1>1, <2>5, <3>1, EndsRemembers, MovesOn DEF IInv, StoreGoes
  <2> QED
    BY <2>6, <2>7
<1> QED
  BY <1>2, <1>3

\* What is outstanding has the name its ticket says.
LEMMA OutstandingIs ==
    ASSUME StoreSound, NEW ticket, NEW i \in Outstanding(ticket)
    PROVE  i \in Newest.outbox /\ i.status = "dispatching" /\ i.id = ticket.action
<1>1. Sound(Newest)
  BY NewestSound
<1>2. i \in Newest.outbox /\ i.status = "dispatching" /\ i.ticket = ticket
  BY DEF Outstanding
<1>3. ValidStatus(i)
  BY <1>1, <1>2 DEF Sound, StatusesOK
<1> QED
  BY <1>2, <1>3 DEF ValidStatus

LEMMA JReadForAck ==
    ASSUME IInv, JInv, NEW c \in Controllers, ReadForAck(c) PROVE JInv'
<1>1. UNCHANGED states /\ UNCHANGED runs
  BY DEF ReadForAck
<1>2. CASE Outstanding(TicketOf(c)) # {}
  <2> DEFINE k == ctl[c]
             l == [k EXCEPT !.pc = "acking", !.base = Len(states)]
  <2>1. /\ k.pc = "answered"
        /\ l.pc = "acking" /\ l.base = Len(states) /\ l.action = k.action /\ l.run = k.run
    BY DEF ReadForAck, At, IInv, CtlOK
  <2>2. \A d \in Controllers : ctl'[d] = IF d = c THEN l ELSE ctl[d]
    BY <1>2 DEF ReadForAck, IInv, CtlOK
  <2>3. PICK i \in Outstanding(TicketOf(c)) : TRUE
    BY <1>2
  <2>4. TicketOf(c).action = k.action
    BY DEF TicketOf
  <2>5. Remembers(k, states, runs)
    BY DEF JInv
  <2> HIDE DEF k, l
  <2>6. i \in Newest.outbox /\ i.status = "dispatching" /\ i.id = k.action
    BY <2>3, <2>4, OutstandingIs DEF JInv
  <2>7. Remembers(l, states, runs)
    BY <2>1, <2>5, <2>6, NewestSound DEF Remembers, JInv
  <2>8. \A d \in Controllers :
            ctl'[d] = ctl[d] \/ Remembers(ctl'[d], states', runs')
    BY <1>1, <2>2, <2>7
  <2> QED
    BY <1>1, <2>8, RunsStay, MovesOn DEF IInv, JInv, StoreGoes
<1>3. CASE Outstanding(TicketOf(c)) = {}
  <2>1. Ends(c)
    BY <1>3 DEF ReadForAck
  <2> QED
    BY <1>1, <2>1, RunsStay, EndsRemembers, MovesOn DEF IInv, JInv, StoreGoes
<1> QED
  BY <1>2, <1>3

LEMMA AckedAction ==
    ASSUME IInv, JInv, NEW c \in Controllers, CommitAck(c)
    PROVE  /\ ctl[c].run \in 1..Len(runs) /\ ctl[c].run \in Nat \ {0}
           /\ runs[ctl[c].run].action = ctl[c].action
           /\ \A i \in Newest.outbox : i.id = ctl[c].action => i.status = "dispatching"
<1>1. ctl[c].pc = "acking" /\ ctl[c].base = Len(states)
  BY DEF CommitAck, At
<1>2. Sound(Newest) /\ Newest = states[ctl[c].base]
  BY <1>1, NewestSound DEF JInv
<1>3. Remembers(ctl[c], states, runs)
  BY DEF JInv
<1>4. \E i \in Newest.outbox : i.id = ctl[c].action /\ i.status = "dispatching"
  BY <1>1, <1>2, <1>3 DEF Remembers
<1>5. ctl[c].run \in 1..Len(runs) /\ runs[ctl[c].run].action = ctl[c].action
  BY <1>1, <1>3 DEF Remembers
<1> QED
  BY <1>2, <1>4, <1>5 DEF Sound, NamesOK

LEMMA JCommitAck ==
    ASSUME IInv, JInv, NEW c \in Controllers, CommitAck(c) PROVE JInv'
<1>1. PICK i \in Newest.outbox :
          i.id = ctl[c].action /\ Commit(Acknowledge(Newest, i, ctl[c].run))
  BY DEF CommitAck
<1>2. i.status = "dispatching" /\ ctl[c].run \in Nat \ {0}
  BY <1>1, AckedAction
<1>3. Named(Newest) /\ Sound(Newest)
  BY NewestNamed, NewestSound DEF IInv, JInv
<1>4. StoreGoes
  BY <1>1, <1>2, <1>3, AcknowledgeSound, AcknowledgeEvolves, Commits
<1> QED
  BY <1>4, RunsStay, EndsRemembers, MovesOn DEF CommitAck, IInv, JInv

LEMMA JFail ==
    ASSUME IInv, JInv, NEW c \in Controllers, Fail(c) PROVE JInv'
<1>1. UNCHANGED states /\ UNCHANGED runs /\ Ends(c)
  BY DEF Fail
<1> QED
  BY <1>1, RunsStay, EndsRemembers, MovesOn DEF IInv, JInv, StoreGoes

\* A run whose record keeps what it was started with.
LEMMA JRunStep ==
    ASSUME IInv, JInv, StoreGoes, UNCHANGED ctl, NEW r \in DOMAIN runs, NEW x \in RunRecords,
           x.action = runs[r].action, x.task = runs[r].task, x.ticket = runs[r].ticket,
           runs' = [runs EXCEPT ![r] = x]
    PROVE  JInv'
<1>1. r \in 1..Len(runs)
  BY Domains DEF IInv, RunsOK
<1>2. RunSound(x)
  BY <1>1 DEF JInv, RunsSound, RunSound
<1> QED
  BY <1>2, RunGoesOn, MovesOn DEF IInv, JInv

LEMMA RunIsSound ==
    ASSUME JInv, NEW r \in DOMAIN runs
    PROVE  /\ r \in 1..Len(runs) /\ r \in Nat \ {0}
           /\ RunSound(runs[r]) /\ runs[r] \in RunRecords
  BY DEF JInv, RunsSound, RunSound

LEMMA JConcludes ==
    ASSUME IInv, JInv, NEW r \in DOMAIN runs,
           NEW stage \in {"waiting", "denied", "model", "done"},
           NEW conclusion \in {"none", "success", "failure", "cancelled"},
           Concludes(r, stage, conclusion)
    PROVE  JInv'
<1> DEFINE x == [runs[r] EXCEPT !.stage = stage, !.conclusion = conclusion]
<1>1. /\ x \in RunRecords
      /\ x.action = runs[r].action /\ x.task = runs[r].task /\ x.ticket = runs[r].ticket
  BY RunIsSound DEF RunRecords
<1>2. runs' = [runs EXCEPT ![r] = x] /\ UNCHANGED <<states, ctl>>
  BY DEF Concludes
<1> HIDE DEF x
<1> QED
  BY <1>1, <1>2, JRunStep DEF StoreGoes

LEMMA JAdmit ==
    ASSUME IInv, JInv, NEW r \in DOMAIN runs, Admit(r) PROVE JInv'
<1> DEFINE x == [runs[r] EXCEPT !.stage = "model"]
<1>1. /\ x \in RunRecords
      /\ x.action = runs[r].action /\ x.task = runs[r].task /\ x.ticket = runs[r].ticket
  BY RunIsSound DEF RunRecords
<1>2. runs' = [runs EXCEPT ![r] = x] /\ UNCHANGED <<states, ctl>>
  BY DEF Admit, Changes
<1> HIDE DEF x
<1> QED
  BY <1>1, <1>2, JRunStep DEF StoreGoes

LEMMA JOver ==
    ASSUME IInv, JInv, StoreGoes, UNCHANGED ctl, NEW r \in DOMAIN runs,
           NEW outcome \in {"over", "lost"}, EndsReconcile(r, outcome)
    PROVE  JInv'
<1> DEFINE x == [runs[r] EXCEPT !.reconcile = outcome, !.base = 0]
<1>1. /\ x \in RunRecords
      /\ x.action = runs[r].action /\ x.task = runs[r].task /\ x.ticket = runs[r].ticket
  BY RunIsSound DEF RunRecords
<1>2. runs' = [runs EXCEPT ![r] = x]
  BY DEF EndsReconcile
<1> HIDE DEF x
<1> QED
  BY <1>1, <1>2, JRunStep

\* The rerun of a run asks for a workflow of one job, and there are five.
LEMMA NoRerun == \A r : ~ MayRerun(r)
<1>1. "claim" \in DevelopmentJobs /\ "claim" \notin {"developer"}
  BY DEF DevelopmentJobs
<1> QED
  BY <1>1 DEF MayRerun

LEMMA ReconciledIsOver ==
    ASSUME NEW r \in DOMAIN runs, Reconciled(r) PROVE EndsReconcile(r, "over")
  BY NoRerun DEF Reconciled

LEMMA JReconciler ==
    ASSUME IInv, JInv, NEW r \in DOMAIN runs, Reconciler(r) PROVE JInv'
<1>1. UNCHANGED ctl
  BY DEF Reconciler, ReadForReconcile, CommitReconcile
<1>2. CASE ReadForReconcile(r)
  <2>1. UNCHANGED states /\ StoreGoes
    BY <1>2 DEF ReadForReconcile, StoreGoes
  <2>2. CASE Reconciled(r) \/ EndsReconcile(r, "lost")
    BY <1>1, <2>1, <2>2, ReconciledIsOver, JOver
  <2>3. CASE runs' = [runs EXCEPT ![r].reconcile = "reading", ![r].base = Len(states)]
    <3> DEFINE x == [runs[r] EXCEPT !.reconcile = "reading", !.base = Len(states)]
    <3>1. Len(states) \in Nat
      BY NewestSound DEF JInv
    <3>2. /\ x \in RunRecords
          /\ x.action = runs[r].action /\ x.task = runs[r].task
          /\ x.ticket = runs[r].ticket
      BY <3>1, RunIsSound DEF RunRecords
    <3>3. runs' = [runs EXCEPT ![r] = x]
      BY <2>3
    <3> HIDE DEF x
    <3> QED
      BY <1>1, <2>1, <3>2, <3>3, JRunStep
  <2> QED
    BY <1>2, <2>2, <2>3 DEF ReadForReconcile
<1>3. CASE CommitReconcile(r)
  <2>1. CASE /\ \E i \in Outstanding(runs[r].ticket) : Commit(Acknowledge(Newest, i, r))
             /\ Reconciled(r)
    <3>1. PICK i \in Outstanding(runs[r].ticket) : Commit(Acknowledge(Newest, i, r))
      BY <2>1
    <3>2. i \in Newest.outbox /\ i.status = "dispatching"
      BY OutstandingIs DEF JInv
    <3>3. Named(Newest) /\ Sound(Newest) /\ r \in Nat \ {0}
      BY NewestNamed, NewestSound, RunIsSound DEF IInv, JInv
    <3>4. StoreGoes
      BY <3>1, <3>2, <3>3, AcknowledgeSound, AcknowledgeEvolves, Commits
    <3> QED
      BY <1>1, <2>1, <3>4, ReconciledIsOver, JOver
  <2>2. CASE EndsReconcile(r, "lost") /\ UNCHANGED states
    BY <1>1, <2>2, JOver DEF StoreGoes
  <2> QED
    BY <1>3, <2>1, <2>2 DEF CommitReconcile
<1> QED
  BY <1>2, <1>3 DEF Reconciler

LEMMA JRuns ==
    ASSUME IInv, JInv, NEW r \in DOMAIN runs,
           \/ Worker(r) \/ Cancel(r) \/ Break(r)
           \/ Reconciler(r) \/ RefuseClaim(r) \/ FailReconcile(r)
    PROVE  JInv'
<1>1. CASE Admit(r)
  BY <1>1, JAdmit
<1>2. CASE Deny(r)
  BY <1>2, JConcludes DEF Deny
<1>3. CASE \E conclusion \in {"success", "failure"} : Finish(r, conclusion)
  <2>1. PICK conclusion \in {"success", "failure"} : Finish(r, conclusion)
    BY <1>3
  <2>2. conclusion \in {"none", "success", "failure", "cancelled"}
    BY <2>1
  <2> QED
    BY <2>1, <2>2, JConcludes DEF Finish
<1>4. CASE Cancel(r) \/ Break(r)
  BY <1>4, JConcludes DEF Cancel, Break
<1>5. CASE Reconciler(r)
  BY <1>5, JReconciler
<1>6. CASE RefuseClaim(r) \/ FailReconcile(r)
  BY <1>6, JOver DEF RefuseClaim, FailReconcile, StoreGoes
<1> QED
  BY <1>1, <1>2, <1>3, <1>4, <1>5, <1>6 DEF Worker

LEMMA JIngests ==
    ASSUME IInv, JInv, NEW t, Sound(t), Evolves(Newest, t), Ingests(t) PROVE JInv'
<1>1. StoreGoes /\ UNCHANGED runs /\ UNCHANGED ctl
  BY Commits DEF Ingests
<1> QED
  BY <1>1, RunsStay, MovesOn DEF IInv, JInv

\* The two answers that are not a publication are about the target.
LEMMA DisputeIsSound ==
    ASSUME JInv, NEW i \in Newest.outbox,
           NEW e, e = [kind |-> "developer", run |-> i.run, target |-> i.sha,
                       outcome |-> "implementation_ready"],
           i.task = "repair", i.source # None, Accepts(Newest, i, e)
    PROVE  Sound(AcceptTaskResult(Newest, i, e))
<1>1. Sound(Newest)
  BY NewestSound DEF JInv
<1>2. i \in Items /\ ValidRepair(Newest, i) /\ TargetOK(Newest)
  BY <1>1, StateTypes DEF Sound, RepairsOK
<1>3. i.status = "dispatched"
  BY DEF Accepts
<1>4. i.sha = Newest.target /\ i.sha # None
  BY <1>2, <1>3 DEF ValidRepair, TargetOK
<1>5. e \in Events /\ e.target = i.sha
  BY <1>2, ItemTypes DEF Events
<1> QED
  BY <1>1, <1>3, <1>4, <1>5, AcceptSound

LEMMA ReviewIsSound ==
    ASSUME JInv, NEW i \in Newest.outbox,
           NEW verdict \in {"approved", "changes_requested"},
           NEW e, e = [kind |-> "reviewer", run |-> i.run, target |-> i.sha,
                       outcome |-> verdict],
           i.task = "review", Accepts(Newest, i, e)
    PROVE  Sound(AcceptTaskResult(Newest, i, e))
<1>1. Sound(Newest)
  BY NewestSound DEF JInv
<1>2. i \in Items /\ TargetOK(Newest)
  BY <1>1, StateTypes DEF Sound
<1>3. i.status = "dispatched" /\ CanAdvance(Newest, e) /\ e.kind = "reviewer"
  BY DEF Accepts
<1>4. e.target = i.sha /\ e \in Events
  BY <1>2, ItemTypes DEF Events
<1>5. Newest.phase = "review" /\ Newest.target = e.target
  BY <1>3 DEF CanAdvance
<1>6. e.target # None
  BY <1>2, <1>5 DEF TargetOK
<1> QED
  BY <1>1, <1>3, <1>4, <1>5, <1>6, AcceptSound

LEMMA JIngest == ASSUME IInv, JInv, Ingest PROVE JInv'
<1>1. Named(Newest) /\ Sound(Newest)
  BY NewestNamed, NewestSound DEF IInv, JInv
<1>2. PICK i \in Newest.outbox :
          \/ IngestYield(i)
          \/ \E r \in DOMAIN runs : IngestPublication(i, r)
          \/ IngestQwenPublication(i)
          \/ IngestDispute(i)
          \/ \E verdict \in {"approved", "changes_requested"} : IngestReview(i, verdict)
          \/ IngestFailure(i)
  BY DEF Ingest
<1>3. CASE IngestYield(i)
  BY <1>1, <1>3, YieldEvolves, YieldSound, JIngests DEF IngestYield
<1>4. CASE \E r \in DOMAIN runs : IngestPublication(i, r)
  <2>1. PICK r \in DOMAIN runs : IngestPublication(i, r)
    BY <1>4
  <2>2. r \in Nat
    BY RunIsSound
  <2>3. Sound(Publish(Newest, i, r))
    BY <1>1, <2>1, <2>2, PublishSound DEF IngestPublication
  <2>4. Evolves(Newest, Publish(Newest, i, r))
    BY <1>1, AdvanceEvolves DEF Publish
  <2> QED
    BY <2>1, <2>3, <2>4, JIngests DEF IngestPublication
<1>5. CASE IngestQwenPublication(i)
  <2>1. Sound(QwenPublish(Newest, i))
    BY <1>1, <1>5, QwenPublishSound DEF IngestQwenPublication
  <2>2. Evolves(Newest, QwenPublish(Newest, i))
    BY <1>1, AdvanceEvolves DEF QwenPublish
  <2> QED
    BY <1>5, <2>1, <2>2, JIngests DEF IngestQwenPublication
<1>6. CASE IngestDispute(i)
  <2> DEFINE e == [kind |-> "developer", run |-> i.run, target |-> i.sha,
                   outcome |-> "implementation_ready"]
  <2>1. Sound(AcceptTaskResult(Newest, i, e))
    BY <1>6, DisputeIsSound DEF IngestDispute
  <2>2. Evolves(Newest, AcceptTaskResult(Newest, i, e))
    BY <1>1, AdvanceEvolves DEF AcceptTaskResult
  <2>3. Ingests(AcceptTaskResult(Newest, i, e))
    BY <1>6 DEF IngestDispute
  <2> QED
    BY <2>1, <2>2, <2>3, JIngests
<1>7. CASE \E verdict \in {"approved", "changes_requested"} : IngestReview(i, verdict)
  <2>1. PICK verdict \in {"approved", "changes_requested"} : IngestReview(i, verdict)
    BY <1>7
  <2> DEFINE e == [kind |-> "reviewer", run |-> i.run, target |-> i.sha,
                   outcome |-> verdict]
  <2>2. Sound(AcceptTaskResult(Newest, i, e))
    BY <2>1, ReviewIsSound DEF IngestReview
  <2>3. Evolves(Newest, AcceptTaskResult(Newest, i, e))
    BY <1>1, AdvanceEvolves DEF AcceptTaskResult
  <2>4. Ingests(AcceptTaskResult(Newest, i, e))
    BY <2>1 DEF IngestReview
  <2> QED
    BY <2>2, <2>3, <2>4, JIngests
<1>8. CASE IngestFailure(i)
  BY <1>1, <1>8, RecoverEvolves, RecoverSound, JIngests DEF IngestFailure
<1> QED
  BY <1>2, <1>3, <1>4, <1>5, <1>6, <1>7, <1>8

LEMMA JController ==
    ASSUME IInv, JInv, NEW c \in Controllers, Controller(c) PROVE JInv'
<1>1. CASE \E answer \in {"answered", "lost", "refused"} : Post(c, answer)
  BY <1>1, JPost
<1> QED
  BY <1>1, JBind, JReadForIntent, JCommitIntent, JVerify, JReadForAck, JCommitAck, JFail
  DEF Controller

LEMMA JStutter == ASSUME IInv, JInv, UNCHANGED vars PROVE JInv'
<1>1. UNCHANGED states /\ UNCHANGED runs /\ UNCHANGED ctl
  BY DEF vars
<1> QED
  BY <1>1, RunsStay, MovesOn DEF IInv, JInv, StoreGoes

LEMMA JStep == IInv /\ JInv /\ [Next]_vars => JInv'
  BY JController, JRuns, JIngest, JStutter DEF Next

LEMMA StoreInvariant == Spec => []JInv
<1>1. Init => JInv
  BY InitJInv
<1>2. IInv /\ JInv /\ [Next]_vars => JInv'
  BY JStep
<1> QED
  BY <1>1, <1>2, Invariant, PTL DEF Spec

\* Every variable holds what its readers take it for, a version carries its
\* own number, and no task is cut into more slices than MAX_SLICES.
THEOREM TypeOKAlways == Spec => []TypeOK
<1>1. ASSUME IInv, JInv PROVE TypeOK
  <2>1. states \in Seq(States) /\ DOMAIN states = 1..Len(states)
    BY <1>1 DEF JInv, StoreSound
  <2>2. ASSUME NEW v \in DOMAIN states
        PROVE  /\ states[v].version = v
               /\ \A i \in states[v].outbox : i.id <= v /\ i.ordinal <= MaxSlices
    BY <1>1, <2>1 DEF JInv, StoreSound, Sound, NamesOK
  <2>3. runs \in Seq(RunRecords)
    BY <1>1 DEF JInv, RunsSound
  <2>4. ctl \in [Controllers ->
                 [pc : {"idle", "read", "committed", "verified",
                        "answered", "acking"},
                  action : Nat, base : Nat, run : Nat]]
    BY <1>1 DEF IInv, CtlOK, Places
  <2> QED
    BY <2>1, <2>2, <2>3, <2>4 DEF TypeOK, RunRecords
<1> QED
  BY <1>1, Invariant, StoreInvariant, PTL

\* There is always exactly one thing to do next, and every slice that is kept
\* leads up to it: two things to do would start two runs of one proposal, and
\* a slice left behind would be continued after its publication.
THEOREM OneChainAlways == Spec => []OneChain
<1>1. JInv => OneChain
  BY NewestSound, SoundIsOneChain DEF JInv, OneChain
<1> QED
  BY <1>1, StoreInvariant, PTL

\* No operation makes a state that validateDevelopmentState, with which it
\* ends, would throw on: leaving that check out of the model loses nothing.
THEOREM ValidAlwaysHolds == Spec => []ValidAlways
<1>1. JInv => ValidAlways
  BY NewestSound, SoundIsValid DEF JInv, ValidAlways
<1> QED
  BY <1>1, StoreInvariant, PTL
-----------------------------------------------------------------------------
(***************************************************************************)
(* The third invariant, of the runs: a run that has not ended is awaited   *)
(* by the head of the Store.  It holds because nobody commits while a run  *)
(* is on its way, except the number of that run: everything else needs an  *)
(* action that is pending, or a run that has ended.  So the head a         *)
(* controller has committed its intent to is still the head when it asks.  *)
(***************************************************************************)
Awaited(s, x, r) ==
    \E i \in s.outbox :
        /\ i.id = x.action /\ InFlight(i)
        /\ i.task = x.task /\ i.sha = x.sha
        /\ x.stage = "model" =>
               IF x.task \in {"implement", "repair"} THEN i.run = r
               ELSE s.phase = "review" /\ s.target = i.sha

NamesRuns(s, R) ==
    \A i \in s.outbox : i.run # None => i.run \in 1..Len(R) /\ R[i.run].action = i.id

AskersWait == \A c \in Controllers : MayAsk(c) => Len(states) = ctl[c].base + 1

RunsAwaited ==
    \A r \in 1..Len(runs) : runs[r].conclusion = "none" => Awaited(Newest, runs[r], r)

KInv == AskersWait /\ RunsAwaited /\ NamesRuns(Newest, runs)

LEMMA KInvMatches == ASSUME JInv, KInv PROVE RunsMatchStore
<1>1. DOMAIN runs = 1..Len(runs)
  BY DEF JInv, RunsSound
<1>2. ASSUME NEW r \in DOMAIN runs, runs[r].conclusion = "none"
      PROVE  \E i \in Newest.outbox :
                 /\ i.id = runs[r].action /\ InFlight(i)
                 /\ i.task = runs[r].task /\ i.sha = runs[r].sha
                 /\ runs[r].stage = "model" =>
                        IF IsDeveloper(r) THEN i.run = r
                        ELSE Newest.phase = "review" /\ Newest.target = i.sha
  <2>1. Awaited(Newest, runs[r], r)
    BY <1>1, <1>2 DEF KInv, RunsAwaited
  <2> QED
    BY <2>1 DEF Awaited, IsDeveloper
<1>3. \A i \in Newest.outbox :
          i.run # None => i.run \in DOMAIN runs /\ runs[i.run].action = i.id
  BY <1>1 DEF KInv, NamesRuns
<1> QED
  BY <1>2, <1>3 DEF RunsMatchStore

LEMMA SoleLive ==
    ASSUME NEW s, Sound(s), NEW i \in s.outbox, Live(i), NEW j \in s.outbox, Live(j)
    PROVE  i = j
  BY DEF Sound, OneWaits, Waits

\* What a controller that may ask for a run holds in the head.
LEMMA AskerHolds ==
    ASSUME JInv, KInv, NEW c \in Controllers, MayAsk(c)
    PROVE  /\ Newest = states[ctl[c].base + 1]
           /\ \E i \in Newest.outbox : i.id = ctl[c].action /\ i.status = "dispatching"
<1> DEFINE b == ctl[c].base + 1
<1>1. /\ b \in 1..Len(states)
      /\ \E i \in states[b].outbox : i.id = ctl[c].action /\ i.status = "dispatching"
  BY DEF JInv, Remembers, MayAsk
<1>2. Len(states) = b
  BY DEF KInv, AskersWait
<1> HIDE DEF b
<1>3. Newest = states[b]
  BY <1>2 DEF Newest
<1> QED
  BY <1>1, <1>3 DEF b

\* No run is on its way, nor about to be asked for.
Quiet ==
    /\ \A c \in Controllers : ~ MayAsk(c)
    /\ \A r \in 1..Len(runs) : runs[r].conclusion # "none"

Over(i) ==
    \/ i.status = "pending"
    \/ /\ i.status = "dispatched"
       /\ i.run \in DOMAIN runs /\ runs[i.run].conclusion # "none"

LEMMA OverIsQuiet ==
    ASSUME IInv, JInv, KInv, NEW i \in Newest.outbox, Over(i)
    PROVE  Quiet
<1>0. Sound(Newest) /\ DOMAIN runs = 1..Len(runs)
  BY NewestSound DEF JInv, RunsSound
<1>1. Live(i) /\ i.status # "dispatching"
  BY DEF Over, Live, InFlight
<1>2. ASSUME NEW c \in Controllers, MayAsk(c) PROVE FALSE
  <2>1. PICK j \in Newest.outbox : j.status = "dispatching"
    BY <1>2, AskerHolds
  <2>2. Live(j)
    BY <2>1 DEF Live, InFlight
  <2>3. i = j
    BY <1>0, <1>1, <2>2, SoleLive
  <2> QED
    BY <1>1, <2>1, <2>3
<1>3. ASSUME NEW r \in 1..Len(runs), runs[r].conclusion = "none" PROVE FALSE
  <2>1. PICK j \in Newest.outbox : j.id = runs[r].action /\ InFlight(j)
    BY <1>3 DEF KInv, RunsAwaited, Awaited
  <2>2. i = j
    <3>1. Live(j)
      BY <2>1 DEF Live
    <3> QED
      BY <1>0, <1>1, <3>1, SoleLive
  <2>3. i.status = "dispatched" /\ i.run \in DOMAIN runs /\ runs[i.run].conclusion # "none"
    BY <2>1, <2>2 DEF Over, InFlight
  <2>4. i.run # None
    <3>1. ValidStatus(i)
      BY <1>0 DEF Sound, StatusesOK
    <3> QED
      BY <2>3, <3>1 DEF ValidStatus
  <2>5. runs[i.run].action = i.id
    BY <2>4 DEF KInv, NamesRuns
  <2>6. i.run = r
    BY <1>0, <2>1, <2>2, <2>3, <2>5 DEF IInv, OneRunPerAction
  <2> QED
    BY <1>3, <2>3, <2>6
<1> QED
  BY <1>2, <1>3 DEF Quiet

\* A commit while no run is on its way.
LEMMA KCommit ==
    ASSUME JInv, KInv, Quiet,
           NEW t, Sound(t), Evolves(Newest, t), RunsKept(Newest, t), Commit(t), UNCHANGED runs,
           \A c \in Controllers :
               ctl'[c] = ctl[c] \/ Len(states) = ctl'[c].base
    PROVE  KInv'
<1>1. Newest' = t /\ Len(states') = Len(states) + 1
  BY CommitSound DEF JInv, Evolves
<1>2. AskersWait'
  BY <1>1 DEF AskersWait, Quiet, MayAsk
<1>3. RunsAwaited'
  BY DEF RunsAwaited, Quiet
<1>4. NamesRuns(t, runs)
  BY DEF KInv, NamesRuns, RunsKept
<1>5. NamesRuns(Newest, runs)'
  BY <1>1, <1>4
<1> QED
  BY <1>2, <1>3, <1>5 DEF KInv

\* The number of a run that is on its way is committed.
LEMMA KAcknowledge ==
    ASSUME IInv, JInv, KInv,
           NEW r \in 1..Len(runs), NEW i \in Newest.outbox, i.status = "dispatching",
           runs[r].action = i.id,
           Commit(Acknowledge(Newest, i, r)),
           Len(runs') = Len(runs),
           \A q \in 1..Len(runs) :
               /\ runs'[q].action = runs[q].action /\ runs'[q].task = runs[q].task
               /\ runs'[q].sha = runs[q].sha /\ runs'[q].stage = runs[q].stage
               /\ runs'[q].conclusion = runs[q].conclusion,
           \A c \in Controllers : ctl'[c] = ctl[c] \/ ~ MayAsk(c)'
    PROVE  KInv'
<1> DEFINE t == Acknowledge(Newest, i, r)
<1>0. /\ Sound(Newest) /\ Newest \in States /\ Named(Newest)
      /\ DOMAIN runs = 1..Len(runs) /\ r \in Nat \ {0} /\ r # None
  BY NewestSound, NewestNamed DEF IInv, JInv, RunsSound, Sound, None
<1>1. Sound(t) /\ t.version = Newest.version + 1
  BY <1>0, AcknowledgeSound, AcknowledgeEvolves DEF Evolves
<1>2. /\ t.phase = Newest.phase /\ t.target = Newest.target
      /\ \E j \in t.outbox :
             /\ j.id = i.id /\ j.task = i.task /\ j.sha = i.sha
             /\ j.status = "dispatched" /\ j.run = r
             /\ \A k \in t.outbox : k = j \/ k \in Newest.outbox
  BY <1>0, AcknowledgeNames
<1> HIDE DEF t
<1>3. PICK j \in t.outbox :
          /\ j.id = i.id /\ j.task = i.task /\ j.sha = i.sha
          /\ j.status = "dispatched" /\ j.run = r
          /\ \A k \in t.outbox : k = j \/ k \in Newest.outbox
  BY <1>2
<1>4. Newest' = t
  BY <1>1, CommitSound DEF JInv, t
<1>5. Live(i)
  BY DEF Live, InFlight
<1>6. AskersWait'
  <2> SUFFICES ASSUME NEW c \in Controllers, MayAsk(c)' PROVE FALSE
    BY DEF AskersWait
  <2>1. MayAsk(c)
    BY DEF MayAsk
  <2>2. PICK k \in Newest.outbox : k.id = ctl[c].action /\ k.status = "dispatching"
    BY <2>1, AskerHolds
  <2>3. k = i
    <3>1. Live(k)
      BY <2>2 DEF Live, InFlight
    <3> QED
      BY <1>0, <1>5, <3>1, SoleLive
  <2> QED
    BY <2>1, <2>2, <2>3 DEF IInv, AskersOK
<1>7. RunsAwaited'
  <2> SUFFICES ASSUME NEW q \in 1..Len(runs'), runs'[q].conclusion = "none"
               PROVE  Awaited(t, runs'[q], q)
    BY <1>4 DEF RunsAwaited
  <2>1. PICK k \in Newest.outbox :
            /\ k.id = runs[q].action /\ InFlight(k)
            /\ k.task = runs[q].task /\ k.sha = runs[q].sha
            /\ runs[q].stage = "model" =>
                   IF runs[q].task \in {"implement", "repair"} THEN k.run = q
                   ELSE Newest.phase = "review" /\ Newest.target = k.sha
    BY DEF KInv, RunsAwaited, Awaited
  <2>2. k = i
    <3>1. Live(k)
      BY <2>1 DEF Live
    <3> QED
      BY <1>0, <1>5, <3>1, SoleLive
  <2>3. q = r
    BY <1>0, <2>1, <2>2 DEF IInv, OneRunPerAction
  <2>4. /\ j.id = runs'[q].action /\ InFlight(j)
        /\ j.task = runs'[q].task /\ j.sha = runs'[q].sha
        /\ j.run = q
    BY <1>3, <2>1, <2>2, <2>3 DEF InFlight
  <2>5. runs'[q].stage = "model" /\ runs'[q].task \notin {"implement", "repair"} =>
            t.phase = "review" /\ t.target = j.sha
    BY <1>2, <1>3, <2>1, <2>2
  <2> QED
    BY <2>4, <2>5 DEF Awaited
<1>8. NamesRuns(t, runs')
  <2> SUFFICES ASSUME NEW k \in t.outbox, k.run # None
               PROVE  k.run \in 1..Len(runs') /\ runs'[k.run].action = k.id
    BY DEF NamesRuns
  <2>1. k.run \in 1..Len(runs) /\ runs[k.run].action = k.id
    BY <1>3 DEF KInv, NamesRuns
  <2> QED
    BY <2>1
<1>9. NamesRuns(Newest, runs)'
  BY <1>4, <1>8
<1> QED
  BY <1>6, <1>7, <1>9 DEF KInv

\* A step that commits nothing.
LEMMA KStays ==
    ASSUME KInv, UNCHANGED states, RunsAwaited', NamesRuns(Newest, runs'),
           \A c \in Controllers :
               \/ ctl'[c] = ctl[c]
               \/ ~ MayAsk(c)'
               \/ MayAsk(c) /\ ctl'[c].base = ctl[c].base
    PROVE  KInv'
<1>1. AskersWait'
  BY DEF KInv, AskersWait, MayAsk
<1>2. NamesRuns(Newest, runs)'
  BY DEF Newest
<1> QED
  BY <1>1, <1>2 DEF KInv

LEMMA KSameRuns ==
    ASSUME KInv, UNCHANGED states, UNCHANGED runs
    PROVE  RunsAwaited' /\ NamesRuns(Newest, runs')
<1>1. Newest' = Newest
  BY DEF Newest
<1> QED
  BY <1>1 DEF KInv, RunsAwaited

LEMMA KInit == Init => KInv
<1> SUFFICES ASSUME Init PROVE KInv
  OBVIOUS
<1>1. runs = << >> /\ Len(runs) = 0
  BY DEF Init
<1>2. AskersWait
  BY DEF Init, AskersWait, MayAsk, Idle
<1>3. PICK d \in Developers : states = <<Started(d)>>
  BY DEF Init
<1>4. Newest = Started(d)
  <2> DEFINE s == Started(d)
  <2> HIDE DEF s
  <2>1. states = <<s>>
    BY <1>3 DEF s
  <2>2. Newest = s
    BY <2>1 DEF Newest
  <2> QED
    BY <2>2 DEF s
<1>5. \A i \in Newest.outbox : i.run = None
  <2> DEFINE i == Fresh(1, "implement", MainSha)
  <2>1. i.run = None
    BY DEF Fresh
  <2>2. Newest.outbox = {i}
    BY <1>4 DEF Started
  <2> HIDE DEF i
  <2> QED
    BY <2>1, <2>2
<1> QED
  BY <1>1, <1>2, <1>5 DEF KInv, RunsAwaited, NamesRuns

LEMMA KBind ==
    ASSUME IInv, JInv, KInv, NEW c \in Controllers, BindCheckpoint(c) PROVE KInv'
<1>0. Named(Newest) /\ Sound(Newest) /\ Newest \in States
  BY NewestNamed, NewestSound DEF IInv, JInv, Sound
<1>1. PICK i \in Newest.outbox : Bindable(Newest, i) /\ Commit(Bind(Newest, i))
  BY DEF BindCheckpoint
<1>2. Quiet
  BY <1>1, OverIsQuiet DEF Bindable, Over
<1>3. FirstPublished(Newest).run \in Nat
  <2>1. Newest.phase = "repair"
    BY <1>1 DEF Bindable
  <2>2. Published(Newest, Newest.target)
    BY <1>0, <2>1 DEF Sound, TargetOK
  <2> QED
    BY <1>0, <2>2, FirstPublishedTypes
<1>4. RunsKept(Newest, Bind(Newest, i))
  BY <1>0, <1>3, BindKeepsRuns
<1>5. Sound(Bind(Newest, i)) /\ Evolves(Newest, Bind(Newest, i))
  BY <1>0, <1>1, BindSound, BindEvolves
<1>6. UNCHANGED runs /\ UNCHANGED ctl
  BY DEF BindCheckpoint
<1> QED
  BY <1>1, <1>2, <1>4, <1>5, <1>6, KCommit

LEMMA KCommitIntent ==
    ASSUME IInv, JInv, KInv, NEW c \in Controllers, CommitIntent(c) PROVE KInv'
<1> DEFINE k == ctl[c]
           ticket == TicketOf(c)
<1>1. /\ k.action \in Nat /\ k.base \in Nat /\ k.pc = "read" /\ k.base = Len(states)
  BY DEF IInv, CtlOK, CommitIntent, At
<1>2. ticket \in Tickets /\ ticket.action = k.action
  BY <1>1 DEF TicketOf, Tickets, Controllers
<1>3. Named(Newest) /\ Sound(Newest) /\ Newest \in States /\ Newest = states[k.base]
  BY <1>1, NewestNamed, NewestSound DEF IInv, JInv, Sound
<1>4. PICK i \in Newest.outbox :
          i.id = k.action /\ Commit(Intend(Newest, i, ticket))
  BY DEF CommitIntent
<1>5. \E j \in Newest.outbox : j.id = k.action /\ Dispatchable(j)
  <2>1. Remembers(k, states, runs)
    BY DEF JInv
  <2> QED
    BY <1>1, <1>3, <2>1 DEF Remembers
<1>6. Dispatchable(i)
  BY <1>3, <1>4, <1>5 DEF Named
<1>7. Quiet
  BY <1>6, OverIsQuiet DEF Dispatchable, Over
<1> DEFINE t == Intend(Newest, i, ticket)
<1> HIDE DEF ticket
<1>8. Sound(t) /\ Evolves(Newest, t) /\ RunsKept(Newest, t)
  BY <1>2, <1>3, <1>4, <1>6, IntendSound, IntendEvolves, IntendKeepsRuns
<1>9. \A d \in Controllers : ctl'[d] = ctl[d] \/ Len(states) = ctl'[d].base
  <2>1. ctl' = [ctl EXCEPT ![c].pc = "committed"]
    BY DEF CommitIntent, Goes
  <2>2. ctl'[c].base = k.base /\ \A d \in Controllers \ {c} : ctl'[d] = ctl[d]
    BY <2>1 DEF IInv, CtlOK
  <2> QED
    BY <1>1, <2>2
<1>10. UNCHANGED runs
  BY DEF CommitIntent
<1> HIDE DEF t
<1>11. Commit(t)
  BY <1>4 DEF t
<1> QED
  BY <1>7, <1>8, <1>9, <1>10, <1>11, KCommit

LEMMA KEnds ==
    ASSUME IInv, NEW c \in Controllers, Ends(c)
    PROVE  \A d \in Controllers : ctl'[d] = ctl[d] \/ ~ MayAsk(d)'
<1>1. \A d \in Controllers : ctl'[d] = IF d = c THEN Idle ELSE ctl[d]
  BY DEF IInv, CtlOK, Ends
<1> QED
  BY <1>1 DEF MayAsk, Idle

\* The head that the intent was committed to awaits the run.
LEMMA KPost ==
    ASSUME IInv, JInv, KInv, NEW c \in Controllers,
           NEW answer \in {"answered", "lost", "refused"}, Post(c, answer)
    PROVE  KInv'
<1>1. MayAsk(c) /\ UNCHANGED states /\ Newest' = Newest
  BY DEF Post, At, MayAsk, Newest
<1>2. \A d \in Controllers : ctl'[d] = ctl[d] \/ ~ MayAsk(d)'
  <2>1. CASE answer = "answered"
    <3> DEFINE l == [ctl[c] EXCEPT !.pc = "answered", !.run = Len(runs) + 1]
    <3>1. l.pc = "answered"
      BY DEF IInv, CtlOK
    <3>2. \A d \in Controllers : ctl'[d] = IF d = c THEN l ELSE ctl[d]
      BY <2>1 DEF Post, IInv, CtlOK
    <3> HIDE DEF l
    <3> QED
      BY <3>1, <3>2 DEF MayAsk
  <2>2. CASE answer # "answered"
    BY <2>2, KEnds DEF Post
  <2> QED
    BY <2>1, <2>2
<1>3. CASE answer = "refused"
  <2>1. UNCHANGED runs
    BY <1>3 DEF Post
  <2> QED
    BY <1>1, <1>2, <2>1, KSameRuns, KStays
<1>4. CASE answer # "refused"
  <2>1. PICK i \in states[ctl[c].base + 1].outbox :
            i.id = ctl[c].action /\ runs' = Append(runs, Run(TicketOf(c), i))
    BY <1>4 DEF Post
  <2> DEFINE x == Run(TicketOf(c), i)
  <2>2. /\ i.status = "dispatching"
        /\ x.action = i.id /\ x.task = i.task /\ x.sha = i.sha
        /\ x.stage = "waiting" /\ x.conclusion = "none" /\ RunSound(x)
    BY <1>1, <2>1, PostedRun
  <2>3. runs' = Append(runs, x)
    BY <2>1
  <2> HIDE DEF x
  <2>4. /\ Len(runs) \in Nat /\ Len(runs') = Len(runs) + 1
        /\ \A r \in 1..Len(runs) : runs'[r] = runs[r]
        /\ runs'[Len(runs) + 1] = x
    BY <2>2, <2>3 DEF JInv, RunsSound, RunSound
  <2>5. i \in Newest.outbox
    BY <1>1, <2>1, AskerHolds
  <2>6. \A r : Awaited(Newest, x, r)
    BY <2>2, <2>5 DEF Awaited, InFlight
  <2>7. RunsAwaited'
    <3> SUFFICES ASSUME NEW r \in 1..Len(runs'), runs'[r].conclusion = "none"
                 PROVE  Awaited(Newest, runs'[r], r)
      BY <1>1 DEF RunsAwaited
    <3>1. CASE r \in 1..Len(runs)
      BY <2>4, <3>1 DEF KInv, RunsAwaited
    <3>2. CASE r = Len(runs) + 1
      BY <2>4, <2>6, <3>2
    <3> QED
      BY <2>4, <3>1, <3>2
  <2>8. NamesRuns(Newest, runs')
    BY <2>4 DEF KInv, NamesRuns
  <2> QED
    BY <1>1, <1>2, <2>7, <2>8, KStays
<1> QED
  BY <1>3, <1>4

LEMMA KCommitAck ==
    ASSUME IInv, JInv, KInv, NEW c \in Controllers, CommitAck(c) PROVE KInv'
<1>1. PICK i \in Newest.outbox :
          i.id = ctl[c].action /\ Commit(Acknowledge(Newest, i, ctl[c].run))
  BY DEF CommitAck
<1>2. PICK r \in 1..Len(runs) : r = ctl[c].run
  BY AckedAction
<1>3. i.status = "dispatching" /\ runs[r].action = i.id
  BY <1>1, <1>2, AckedAction
<1>4. Commit(Acknowledge(Newest, i, r))
  BY <1>1, <1>2
<1>5. UNCHANGED runs
  BY DEF CommitAck
<1>6. \A d \in Controllers : ctl'[d] = ctl[d] \/ ~ MayAsk(d)'
  BY KEnds DEF CommitAck
<1> QED
  BY <1>3, <1>4, <1>5, <1>6, KAcknowledge

LEMMA KController ==
    ASSUME IInv, JInv, KInv, NEW c \in Controllers, Controller(c) PROVE KInv'
<1>1. CASE ReadForIntent(c)
  <2> DEFINE k(i) == [pc |-> "read", action |-> i.id, base |-> Len(states), run |-> None]
  <2>1. PICK i \in Newest.outbox : ctl' = [ctl EXCEPT ![c] = k(i)]
    BY <1>1 DEF ReadForIntent
  <2>2. k(i).pc = "read"
    OBVIOUS
  <2> HIDE DEF k
  <2>3. \A d \in Controllers : ctl'[d] = ctl[d] \/ ~ MayAsk(d)'
    BY <2>1, <2>2 DEF MayAsk, IInv, CtlOK
  <2>4. UNCHANGED states /\ UNCHANGED runs
    BY <1>1 DEF ReadForIntent
  <2> QED
    BY <2>3, <2>4, KSameRuns, KStays
<1>2. CASE Verify(c)
  <2>1. ctl' = [ctl EXCEPT ![c].pc = "verified"] /\ MayAsk(c)
    BY <1>2 DEF Verify, Goes, At, MayAsk
  <2>2. \A d \in Controllers :
            ctl'[d] = ctl[d] \/ (MayAsk(d) /\ ctl'[d].base = ctl[d].base)
    BY <2>1 DEF IInv, CtlOK
  <2>3. UNCHANGED states /\ UNCHANGED runs
    BY <1>2 DEF Verify
  <2> QED
    BY <2>2, <2>3, KSameRuns, KStays
<1>3. CASE \E answer \in {"answered", "lost", "refused"} : Post(c, answer)
  BY <1>3, KPost
<1>4. CASE ReadForAck(c)
  <2>1. UNCHANGED states /\ UNCHANGED runs
    BY <1>4 DEF ReadForAck
  <2>2. \A d \in Controllers : ctl'[d] = ctl[d] \/ ~ MayAsk(d)'
    <3>1. CASE Ends(c)
      BY <3>1, KEnds
    <3>2. CASE ctl' = [ctl EXCEPT ![c].pc = "acking", ![c].base = Len(states)]
      <4> DEFINE l == [ctl[c] EXCEPT !.pc = "acking", !.base = Len(states)]
      <4>1. l.pc = "acking"
        BY DEF IInv, CtlOK
      <4>2. \A d \in Controllers : ctl'[d] = IF d = c THEN l ELSE ctl[d]
        BY <3>2 DEF IInv, CtlOK
      <4> HIDE DEF l
      <4> QED
        BY <4>1, <4>2 DEF MayAsk
    <3> QED
      BY <1>4, <3>1, <3>2 DEF ReadForAck
  <2> QED
    BY <2>1, <2>2, KSameRuns, KStays
<1>5. CASE Fail(c)
  <2>1. UNCHANGED states /\ UNCHANGED runs /\ Ends(c)
    BY <1>5 DEF Fail
  <2> QED
    BY <2>1, KEnds, KSameRuns, KStays
<1> QED
  BY <1>1, <1>2, <1>3, <1>4, <1>5, KBind, KCommitIntent, KCommitAck DEF Controller
-----------------------------------------------------------------------------
\* One run changes, and keeps what it was started with.
LEMMA KRun ==
    ASSUME JInv, KInv, UNCHANGED states, UNCHANGED ctl,
           NEW r \in DOMAIN runs, NEW x \in RunRecords, x.action = runs[r].action,
           x.conclusion = "none" => Awaited(Newest, x, r),
           runs' = [runs EXCEPT ![r] = x]
    PROVE  KInv'
<1>1. /\ Len(runs') = Len(runs)
      /\ \A q \in 1..Len(runs) : runs'[q] = IF q = r THEN x ELSE runs[q]
  BY DEF JInv, RunsSound
<1>2. Newest' = Newest
  BY DEF Newest
<1>3. RunsAwaited'
  BY <1>1, <1>2 DEF KInv, RunsAwaited
<1>4. NamesRuns(Newest, runs')
  BY <1>1 DEF KInv, NamesRuns
<1> QED
  BY <1>3, <1>4, KStays

\* A run that has ended has nothing to be awaited for.
LEMMA KConcludes ==
    ASSUME JInv, KInv, NEW r \in DOMAIN runs,
           NEW stage \in {"waiting", "denied", "model", "done"},
           NEW conclusion \in {"success", "failure", "cancelled"},
           Concludes(r, stage, conclusion)
    PROVE  KInv'
<1> DEFINE x == [runs[r] EXCEPT !.stage = stage, !.conclusion = conclusion]
<1>1. /\ x \in RunRecords /\ x.action = runs[r].action
      /\ x.conclusion = conclusion
  BY RunIsSound DEF RunRecords
<1>2. x.conclusion # "none"
  BY <1>1
<1>3. runs' = [runs EXCEPT ![r] = x] /\ UNCHANGED states /\ UNCHANGED ctl
  BY DEF Concludes
<1> HIDE DEF x
<1> QED
  BY <1>1, <1>2, <1>3, KRun

\* The one thing to do is what an admitted run was started for: a developer
\* is named by it, and where it is a review the phase is that of a review.
LEMMA AdmittedIsAwaited ==
    ASSUME JInv, KInv, NEW r \in DOMAIN runs, Admissible(r),
           runs[r].conclusion = "none"
    PROVE  \E i \in Newest.outbox :
               /\ i.id = runs[r].action /\ InFlight(i)
               /\ i.task = runs[r].task /\ i.sha = runs[r].sha
               /\ IF IsDeveloper(r) THEN i.run = r
                  ELSE Newest.phase = "review" /\ Newest.target = i.sha
<1>0. Sound(Newest) /\ RunSound(runs[r]) /\ r \in 1..Len(runs)
  BY NewestSound, RunIsSound DEF JInv
<1>1. PICK i \in Newest.outbox :
          /\ i.id = runs[r].action /\ InFlight(i)
          /\ i.task = runs[r].task /\ i.sha = runs[r].sha
  BY <1>0 DEF KInv, RunsAwaited, Awaited
<1>2. CASE IsDeveloper(r)
  <2>1. PICK j \in Newest.outbox : j.id = runs[r].action /\ j.run = r
    BY <1>2 DEF Admissible, Authorized
  <2>2. i = j
    BY <1>0, <1>1, <2>1 DEF Sound, NamesOK
  <2> QED
    BY <1>1, <1>2, <2>1, <2>2
<1>3. CASE ~ IsDeveloper(r)
  <2>1. i.task = "review"
    BY <1>0, <1>1, <1>3 DEF RunSound, IsDeveloper
  <2>2. Live(i)
    BY <1>1 DEF Live
  <2>3. Waits(Newest, i)
    <3>1. PICK j \in Newest.outbox : Waits(Newest, j)
      BY <1>0 DEF Sound, OneWaits
    <3>2. i = j
      BY <2>2, <3>1 DEF Waits
    <3> QED
      BY <3>1, <3>2
  <2>4. Newest.phase = "review" /\ Newest.target = i.sha
    BY <2>1, <2>3 DEF Waits
  <2> QED
    BY <1>1, <1>3, <2>4
<1> QED
  BY <1>2, <1>3

LEMMA KAdmit ==
    ASSUME JInv, KInv, NEW r \in DOMAIN runs, Admit(r) PROVE KInv'
<1> DEFINE x == [runs[r] EXCEPT !.stage = "model"]
<1>1. /\ x \in RunRecords /\ x.action = runs[r].action
      /\ x.task = runs[r].task /\ x.sha = runs[r].sha
      /\ x.conclusion = runs[r].conclusion
  BY RunIsSound DEF RunRecords
<1>2. runs' = [runs EXCEPT ![r] = x] /\ UNCHANGED states /\ UNCHANGED ctl
  BY DEF Admit, Changes
<1>3. Admissible(r)
  BY DEF Admit
<1> HIDE DEF x
<1>4. ASSUME x.conclusion = "none" PROVE Awaited(Newest, x, r)
  <2>1. PICK i \in Newest.outbox :
            /\ i.id = runs[r].action /\ InFlight(i)
            /\ i.task = runs[r].task /\ i.sha = runs[r].sha
            /\ IF IsDeveloper(r) THEN i.run = r
               ELSE Newest.phase = "review" /\ Newest.target = i.sha
    BY <1>1, <1>3, <1>4, AdmittedIsAwaited
  <2> QED
    BY <1>1, <2>1 DEF Awaited, IsDeveloper
<1> QED
  BY <1>1, <1>2, <1>4, KRun

\* What reconciliation notes down about a run changes nothing else of it.
NotesDown(r) ==
    \E x \in RunRecords :
        /\ x.action = runs[r].action /\ x.task = runs[r].task /\ x.sha = runs[r].sha
        /\ x.stage = runs[r].stage /\ x.conclusion = runs[r].conclusion
        /\ runs' = [runs EXCEPT ![r] = x]

LEMMA OverIsNoted ==
    ASSUME JInv, NEW r \in DOMAIN runs,
           NEW outcome \in {"over", "lost"}, EndsReconcile(r, outcome)
    PROVE  NotesDown(r)
<1> DEFINE x == [runs[r] EXCEPT !.reconcile = outcome, !.base = 0]
<1>1. /\ x \in RunRecords
      /\ x.action = runs[r].action /\ x.task = runs[r].task /\ x.sha = runs[r].sha
      /\ x.stage = runs[r].stage /\ x.conclusion = runs[r].conclusion
  BY RunIsSound DEF RunRecords
<1>2. runs' = [runs EXCEPT ![r] = x]
  BY DEF EndsReconcile
<1> HIDE DEF x
<1> QED
  BY <1>1, <1>2 DEF NotesDown

LEMMA KNotes ==
    ASSUME JInv, KInv, UNCHANGED states, UNCHANGED ctl, NEW r \in DOMAIN runs, NotesDown(r)
    PROVE  KInv'
<1>1. PICK x \in RunRecords :
          /\ x.action = runs[r].action /\ x.task = runs[r].task /\ x.sha = runs[r].sha
          /\ x.stage = runs[r].stage /\ x.conclusion = runs[r].conclusion
          /\ runs' = [runs EXCEPT ![r] = x]
  BY DEF NotesDown
<1>2. ASSUME x.conclusion = "none" PROVE Awaited(Newest, x, r)
  <2>1. Awaited(Newest, runs[r], r)
    BY <1>1, <1>2, RunIsSound DEF KInv, RunsAwaited
  <2> QED
    BY <1>1, <2>1 DEF Awaited
<1> QED
  BY <1>1, <1>2, KRun

LEMMA KReconciler ==
    ASSUME IInv, JInv, KInv, NEW r \in DOMAIN runs, Reconciler(r) PROVE KInv'
<1>1. UNCHANGED ctl
  BY DEF Reconciler, ReadForReconcile, CommitReconcile
<1>2. CASE ReadForReconcile(r)
  <2>1. UNCHANGED states
    BY <1>2 DEF ReadForReconcile
  <2>2. NotesDown(r)
    <3>1. CASE Reconciled(r) \/ EndsReconcile(r, "lost")
      BY <3>1, ReconciledIsOver, OverIsNoted
    <3>2. CASE runs' = [runs EXCEPT ![r].reconcile = "reading", ![r].base = Len(states)]
      <4> DEFINE x == [runs[r] EXCEPT !.reconcile = "reading", !.base = Len(states)]
      <4>1. Len(states) \in Nat
        BY NewestSound DEF JInv
      <4>2. /\ x \in RunRecords
            /\ x.action = runs[r].action /\ x.task = runs[r].task /\ x.sha = runs[r].sha
            /\ x.stage = runs[r].stage /\ x.conclusion = runs[r].conclusion
        BY <4>1, RunIsSound DEF RunRecords
      <4>3. runs' = [runs EXCEPT ![r] = x]
        BY <3>2
      <4> HIDE DEF x
      <4> QED
        BY <4>2, <4>3 DEF NotesDown
    <3> QED
      BY <1>2, <3>1, <3>2 DEF ReadForReconcile
  <2> QED
    BY <1>1, <2>1, <2>2, KNotes
<1>3. CASE CommitReconcile(r) /\ runs[r].base = Len(states)
  <2>1. PICK i \in Outstanding(runs[r].ticket) : Commit(Acknowledge(Newest, i, r))
    BY <1>3 DEF CommitReconcile
  <2>2. /\ i \in Newest.outbox /\ i.status = "dispatching"
        /\ i.id = runs[r].ticket.action
    BY OutstandingIs DEF JInv
  <2>3. r \in 1..Len(runs) /\ runs[r].action = i.id
    BY <2>2, RunIsSound DEF RunSound
  <2>4. EndsReconcile(r, "over")
    BY <1>3, ReconciledIsOver DEF CommitReconcile
  <2> DEFINE x == [runs[r] EXCEPT !.reconcile = "over", !.base = 0]
  <2>5. /\ x.action = runs[r].action /\ x.task = runs[r].task /\ x.sha = runs[r].sha
        /\ x.stage = runs[r].stage /\ x.conclusion = runs[r].conclusion
    BY RunIsSound DEF RunRecords
  <2>6. runs' = [runs EXCEPT ![r] = x]
    BY <2>4 DEF EndsReconcile
  <2> HIDE DEF x
  <2>7. /\ Len(runs') = Len(runs)
        /\ \A q \in 1..Len(runs) : runs'[q] = IF q = r THEN x ELSE runs[q]
    BY <2>6 DEF JInv, RunsSound
  <2>8. \A q \in 1..Len(runs) :
            /\ runs'[q].action = runs[q].action /\ runs'[q].task = runs[q].task
            /\ runs'[q].sha = runs[q].sha /\ runs'[q].stage = runs[q].stage
            /\ runs'[q].conclusion = runs[q].conclusion
    BY <2>5, <2>7
  <2> QED
    BY <1>1, <2>1, <2>2, <2>3, <2>7, <2>8, KAcknowledge
<1>4. CASE CommitReconcile(r) /\ runs[r].base # Len(states)
  <2>1. UNCHANGED states /\ EndsReconcile(r, "lost")
    BY <1>4 DEF CommitReconcile
  <2> QED
    BY <1>1, <2>1, OverIsNoted, KNotes
<1> QED
  BY <1>2, <1>3, <1>4 DEF Reconciler

LEMMA KRuns ==
    ASSUME IInv, JInv, KInv, NEW r \in DOMAIN runs,
           \/ Worker(r) \/ Cancel(r) \/ Break(r)
           \/ Reconciler(r) \/ RefuseClaim(r) \/ FailReconcile(r)
    PROVE  KInv'
<1>1. CASE Admit(r)
  BY <1>1, KAdmit
<1>2. CASE Deny(r)
  BY <1>2, KConcludes DEF Deny
<1>3. CASE \E conclusion \in {"success", "failure"} : Finish(r, conclusion)
  <2>1. PICK conclusion \in {"success", "failure"} : Finish(r, conclusion)
    BY <1>3
  <2>2. conclusion \in {"success", "failure", "cancelled"}
    BY <2>1
  <2> QED
    BY <2>1, <2>2, KConcludes DEF Finish
<1>4. CASE Cancel(r) \/ Break(r)
  BY <1>4, KConcludes DEF Cancel, Break
<1>5. CASE Reconciler(r)
  BY <1>5, KReconciler
<1>6. CASE RefuseClaim(r) \/ FailReconcile(r)
  BY <1>6, OverIsNoted, KNotes DEF RefuseClaim, FailReconcile
<1> QED
  BY <1>1, <1>2, <1>3, <1>4, <1>5, <1>6 DEF Worker
-----------------------------------------------------------------------------
\* Whatever a job ingests, the run it is the answer of has ended.
LEMMA KIngests ==
    ASSUME IInv, JInv, KInv, NEW i \in Newest.outbox, Over(i),
           NEW t, Sound(t), Evolves(Newest, t), RunsKept(Newest, t), Ingests(t)
    PROVE  KInv'
<1>1. Quiet
  BY OverIsQuiet
<1>2. Commit(t) /\ UNCHANGED runs /\ UNCHANGED ctl
  BY DEF Ingests
<1> QED
  BY <1>1, <1>2, KCommit

LEMMA SucceededIsOver ==
    ASSUME NEW i, i.status = "dispatched", Succeeded(i.run) PROVE Over(i)
  BY DEF Succeeded, Over

LEMMA KIngest == ASSUME IInv, JInv, KInv, Ingest PROVE KInv'
<1>1. Named(Newest) /\ Sound(Newest) /\ Newest \in States
  BY NewestNamed, NewestSound DEF IInv, JInv, Sound
<1>2. PICK i \in Newest.outbox :
          \/ IngestYield(i)
          \/ \E r \in DOMAIN runs : IngestPublication(i, r)
          \/ IngestQwenPublication(i)
          \/ IngestDispute(i)
          \/ \E verdict \in {"approved", "changes_requested"} : IngestReview(i, verdict)
          \/ IngestFailure(i)
  BY DEF Ingest
<1>3. i.run \in Nat /\ i.sha \in Nat
  BY <1>1, StateTypes, ItemTypes
<1>4. CASE IngestYield(i)
  <2>1. CanYield(Newest, i) /\ Over(i)
    BY <1>4, SucceededIsOver DEF IngestYield, CanYield
  <2>2. /\ Sound(YieldSlice(Newest, i)) /\ Evolves(Newest, YieldSlice(Newest, i))
        /\ RunsKept(Newest, YieldSlice(Newest, i))
    BY <1>1, <2>1, YieldSound, YieldEvolves, YieldKeepsRuns
  <2> QED
    BY <1>4, <2>1, <2>2, KIngests DEF IngestYield
<1>5. CASE \E r \in DOMAIN runs : IngestPublication(i, r)
  <2>1. PICK r \in DOMAIN runs : IngestPublication(i, r)
    BY <1>5
  <2>2. r \in Nat /\ PublicationOf(r) \in Events
    BY RunIsSound, PublicationTypes
  <2>3. Publishable(Newest, i, r) /\ Over(i)
    BY <2>1 DEF IngestPublication, Publishable, Over
  <2>4. Sound(Publish(Newest, i, r))
    BY <1>1, <2>2, <2>3, PublishSound
  <2>5. Evolves(Newest, Publish(Newest, i, r)) /\ RunsKept(Newest, Publish(Newest, i, r))
    BY <1>1, <2>2, AdvanceEvolves, AdvanceKeepsRuns DEF Publish
  <2> QED
    BY <2>1, <2>3, <2>4, <2>5, KIngests DEF IngestPublication
<1>6. CASE IngestQwenPublication(i)
  <2>1. QwenPublishable(Newest, i) \/ QwenRepairPublishable(Newest, i)
    BY <1>6 DEF IngestQwenPublication
  <2>2. Over(i)
    BY <1>6, <2>1, SucceededIsOver
    DEF IngestQwenPublication, QwenPublishable, QwenRepairPublishable
  <2>3. Sound(QwenPublish(Newest, i))
    BY <1>1, <2>1, QwenPublishSound
  <2>4. PublicationOf(i.run) \in Events
    BY <1>3, PublicationTypes
  <2>5. Evolves(Newest, QwenPublish(Newest, i)) /\ RunsKept(Newest, QwenPublish(Newest, i))
    BY <1>1, <2>4, AdvanceEvolves, AdvanceKeepsRuns DEF QwenPublish
  <2> QED
    BY <1>6, <2>2, <2>3, <2>5, KIngests DEF IngestQwenPublication
<1>7. CASE IngestDispute(i)
  <2> DEFINE e == [kind |-> "developer", run |-> i.run, target |-> i.sha,
                   outcome |-> "implementation_ready"]
  <2>1. e \in Events
    BY <1>3 DEF Events
  <2>2. Over(i)
    BY <1>7, SucceededIsOver DEF IngestDispute, Accepts
  <2>3. Sound(AcceptTaskResult(Newest, i, e)) /\ Ingests(AcceptTaskResult(Newest, i, e))
    BY <1>7, DisputeIsSound DEF IngestDispute
  <2>4. /\ Evolves(Newest, AcceptTaskResult(Newest, i, e))
        /\ RunsKept(Newest, AcceptTaskResult(Newest, i, e))
    BY <1>1, <2>1, AdvanceEvolves, AdvanceKeepsRuns DEF AcceptTaskResult
  <2> QED
    BY <2>2, <2>3, <2>4, KIngests
<1>8. CASE \E verdict \in {"approved", "changes_requested"} : IngestReview(i, verdict)
  <2>1. PICK verdict \in {"approved", "changes_requested"} : IngestReview(i, verdict)
    BY <1>8
  <2> DEFINE e == [kind |-> "reviewer", run |-> i.run, target |-> i.sha,
                   outcome |-> verdict]
  <2>2. e \in Events
    BY <1>3 DEF Events
  <2>3. Over(i)
    BY <2>1, SucceededIsOver DEF IngestReview, Accepts
  <2>4. Sound(AcceptTaskResult(Newest, i, e)) /\ Ingests(AcceptTaskResult(Newest, i, e))
    BY <2>1, ReviewIsSound DEF IngestReview
  <2>5. /\ Evolves(Newest, AcceptTaskResult(Newest, i, e))
        /\ RunsKept(Newest, AcceptTaskResult(Newest, i, e))
    BY <1>1, <2>2, AdvanceEvolves, AdvanceKeepsRuns DEF AcceptTaskResult
  <2> QED
    BY <2>3, <2>4, <2>5, KIngests
<1>9. CASE IngestFailure(i)
  <2>1. /\ CanRecover(Newest, i)
        /\ i.run \in DOMAIN runs /\ runs[i.run].conclusion = "failure"
    BY <1>9 DEF IngestFailure
  <2>2. Over(i)
    BY <2>1 DEF CanRecover, Over
  <2>3. /\ Sound(Recover(Newest, i)) /\ Evolves(Newest, Recover(Newest, i))
        /\ RunsKept(Newest, Recover(Newest, i))
    BY <1>1, <2>1, RecoverSound, RecoverEvolves, RecoverKeepsRuns
  <2> QED
    BY <1>9, <2>2, <2>3, KIngests DEF IngestFailure
<1> QED
  BY <1>2, <1>4, <1>5, <1>6, <1>7, <1>8, <1>9

LEMMA KStutter == ASSUME KInv, UNCHANGED vars PROVE KInv'
<1>1. UNCHANGED states /\ UNCHANGED runs /\ UNCHANGED ctl
  BY DEF vars
<1> QED
  BY <1>1, KSameRuns, KStays

LEMMA KStep == IInv /\ JInv /\ KInv /\ [Next]_vars => KInv'
  BY KController, KRuns, KIngest, KStutter DEF Next

\* A run that has not ended is still what the Store waits for, so no model
\* works on what nobody will take: a developer only for the run the Store
\* names, a reviewer only on what is published now.  And what the Store names
\* is a run of that action, whichever of the two jobs committed its number.
THEOREM RunsMatchStoreAlways == Spec => []RunsMatchStore
<1>1. Init => KInv
  BY KInit
<1>2. IInv /\ JInv /\ KInv /\ [Next]_vars => KInv'
  BY KStep
<1>3. JInv /\ KInv => RunsMatchStore
  BY KInvMatches
<1> QED
  BY <1>1, <1>2, <1>3, Invariant, StoreInvariant, PTL DEF Spec
-----------------------------------------------------------------------------
(***************************************************************************)
(* The fourth invariant, of the numbers: a run the Store does not name is  *)
(* the one its head waits for, ticket and all.  For as long as an action   *)
(* is dispatching nobody commits but for its run, so whatever else a       *)
(* reconciliation finds at the head, it finds after its run was named.     *)
(***************************************************************************)
LInv ==
    /\ \A c \in Controllers : ctl[c].pc = "verified" => Outstanding(TicketOf(c)) # {}
    /\ \A r \in 1..Len(runs) :
           /\ Outstanding(runs[r].ticket) # {} \/ NamedInStore(r)
           /\ runs[r].reconcile = "reading" =>
                  runs[r].base = Len(states) \/ NamedInStore(r)
           /\ runs[r].reconcile = "lost" => NamedInStore(r)

LEMMA LInit == Init => LInv
<1> SUFFICES ASSUME Init PROVE LInv
  OBVIOUS
<1>1. Len(runs) = 0
  BY DEF Init
<1>2. \A c \in Controllers : ctl[c].pc = "idle"
  BY DEF Init, Idle
<1> QED
  BY <1>1, <1>2 DEF LInv

\* What was named once stays named.
LEMMA NamedStays ==
    ASSUME IInv, NEW t, Commit(t), NEW r \in 1..Len(runs),
           runs'[r].action = runs[r].action, NamedInStore(r)
    PROVE  NamedInStore(r)'
<1>1. PICK v \in DOMAIN states : \E i \in states[v].outbox :
                                     i.id = runs[r].action /\ i.run = r
  BY DEF NamedInStore
<1>2. /\ IsSeq(states) /\ IsSeq(states') /\ Len(states) \in Nat
      /\ Len(states') = Len(states) + 1
      /\ \A w \in 1..Len(states) : states'[w] = states[w]
  BY Appended DEF IInv, StoreOK, Commit
<1>3. v \in 1..Len(states) /\ v \in DOMAIN states' /\ states'[v] = states[v]
  <2>1. DOMAIN states = 1..Len(states) /\ DOMAIN states' = 1..Len(states')
    BY <1>2, Domains
  <2> QED
    BY <1>2, <2>1
<1> QED
  BY <1>1, <1>3 DEF NamedInStore

LEMMA CommitNames ==
    ASSUME IInv, NEW t, Commit(t), NEW r, NEW j \in t.outbox,
           j.id = runs'[r].action, j.run = r
    PROVE  NamedInStore(r)'
<1>1. /\ IsSeq(states') /\ Len(states) \in Nat
      /\ Len(states') = Len(states) + 1 /\ states'[Len(states) + 1] = t
  BY Appended DEF IInv, StoreOK, Commit
<1>2. DOMAIN states' = 1..Len(states')
  BY <1>1, Domains
<1>3. Len(states) + 1 \in DOMAIN states'
  BY <1>1, <1>2
<1> QED
  BY <1>1, <1>3 DEF NamedInStore

\* A commit after which every run is named.
LEMMA LCommit ==
    ASSUME IInv, KInv, KInv', NEW t, Commit(t),
           Len(runs') = Len(runs),
           \A r \in 1..Len(runs) : runs'[r].action = runs[r].action,
           \A r \in 1..Len(runs) :
               \/ NamedInStore(r)
               \/ \E j \in t.outbox : j.id = runs[r].action /\ j.run = r,
           \A c \in Controllers : ctl'[c] = ctl[c] \/ ctl'[c].pc # "verified"
    PROVE  LInv'
<1>1. ASSUME NEW r \in 1..Len(runs) PROVE NamedInStore(r)'
  <2>1. CASE NamedInStore(r)
    BY <2>1, NamedStays
  <2>2. CASE \E j \in t.outbox : j.id = runs[r].action /\ j.run = r
    BY <2>2, CommitNames
  <2> QED
    BY <2>1, <2>2
<1>2. ASSUME NEW c \in Controllers, ctl'[c].pc = "verified" PROVE FALSE
  <2>1. ctl'[c] = ctl[c] /\ MayAsk(c) /\ MayAsk(c)'
    BY <1>2 DEF MayAsk
  <2>2. Len(states) = ctl[c].base + 1 /\ Len(states') = ctl'[c].base + 1
    BY <2>1 DEF KInv, AskersWait
  <2>3. Len(states) \in Nat /\ Len(states') = Len(states) + 1
    BY Appended DEF IInv, StoreOK, Commit
  <2> QED
    BY <2>1, <2>2, <2>3
<1> QED
  BY <1>1, <1>2 DEF LInv

\* A commit while nothing is dispatching finds every run named.
LEMMA OverNamesAll ==
    ASSUME JInv, LInv, NEW i \in Newest.outbox, Over(i), NEW r \in 1..Len(runs)
    PROVE  NamedInStore(r)
<1>1. Sound(Newest) /\ Live(i) /\ i.status # "dispatching"
  BY NewestSound DEF JInv, Over, Live, InFlight
<1>2. ASSUME NEW j \in Outstanding(runs[r].ticket) PROVE FALSE
  <2>1. j \in Newest.outbox /\ j.status = "dispatching" /\ Live(j)
    BY DEF Outstanding, Live, InFlight
  <2> QED
    BY <1>1, <2>1, SoleLive
<1> QED
  BY <1>2 DEF LInv

LEMMA LOver ==
    ASSUME IInv, JInv, KInv, KInv', LInv, NEW i \in Newest.outbox, Over(i),
           NEW t, Commit(t), UNCHANGED runs,
           \A c \in Controllers : ctl'[c] = ctl[c] \/ ctl'[c].pc # "verified"
    PROVE  LInv'
  BY OverNamesAll, LCommit

\* The number of the one run that is not named is committed.
LEMMA LAcknowledge ==
    ASSUME IInv, JInv, KInv, KInv', LInv,
           NEW r \in 1..Len(runs), NEW i \in Newest.outbox, i.status = "dispatching",
           runs[r].action = i.id,
           Commit(Acknowledge(Newest, i, r)),
           Len(runs') = Len(runs),
           \A q \in 1..Len(runs) : runs'[q].action = runs[q].action,
           \A c \in Controllers : ctl'[c] = ctl[c] \/ ctl'[c].pc # "verified"
    PROVE  LInv'
<1> DEFINE t == Acknowledge(Newest, i, r)
<1>0. /\ Sound(Newest) /\ Newest \in States /\ Live(i)
      /\ DOMAIN runs = 1..Len(runs) /\ r \in Nat
  BY NewestSound DEF JInv, RunsSound, Sound, Live, InFlight
<1>1. \E j \in t.outbox : j.id = i.id /\ j.run = r
  BY <1>0, AcknowledgeNames
<1> HIDE DEF t
<1>2. ASSUME NEW q \in 1..Len(runs), ~ NamedInStore(q) PROVE q = r
  <2>1. PICK k \in Outstanding(runs[q].ticket) : TRUE
    BY <1>2 DEF LInv
  <2>2. k \in Newest.outbox /\ k.status = "dispatching" /\ k.id = runs[q].ticket.action
    BY <2>1, OutstandingIs DEF JInv
  <2>3. k = i
    <3>1. Live(k)
      BY <2>2 DEF Live, InFlight
    <3> QED
      BY <1>0, <2>2, <3>1, SoleLive
  <2>4. runs[q].ticket.action = runs[q].action
    BY <1>0, RunIsSound DEF RunSound
  <2> QED
    BY <1>0, <2>2, <2>3, <2>4 DEF IInv, OneRunPerAction
<1>3. \A q \in 1..Len(runs) :
          \/ NamedInStore(q)
          \/ \E j \in t.outbox : j.id = runs[q].action /\ j.run = q
  BY <1>1, <1>2
<1>4. Commit(t)
  BY DEF t
<1> QED
  BY <1>3, <1>4, LCommit

\* A controller moves on, and nothing else does.
LEMMA LMoves ==
    ASSUME LInv, UNCHANGED states, UNCHANGED runs,
           \A c \in Controllers :
               \/ ctl'[c] = ctl[c]
               \/ ctl'[c].pc # "verified"
               \/ Outstanding(TicketOf(c))' # {}
    PROVE  LInv'
<1>1. \A r : NamedInStore(r)' <=> NamedInStore(r)
  BY DEF NamedInStore
<1>2. \A ticket : Outstanding(ticket)' = Outstanding(ticket)
  BY DEF Outstanding, Newest
<1>3. ASSUME NEW r \in 1..Len(runs')
      PROVE  /\ Outstanding(runs[r].ticket)' # {} \/ NamedInStore(r)'
             /\ runs'[r].reconcile = "reading" =>
                    runs'[r].base = Len(states') \/ NamedInStore(r)'
             /\ runs'[r].reconcile = "lost" => NamedInStore(r)'
  BY <1>1, <1>2 DEF LInv, Outstanding, Newest
<1>4. ASSUME NEW c \in Controllers, ctl'[c].pc = "verified"
      PROVE  Outstanding(TicketOf(c))' # {}
  <2>1. CASE ctl'[c] = ctl[c]
    BY <1>4, <2>1 DEF LInv, Outstanding, Newest, TicketOf
  <2> QED
    BY <1>4, <2>1
<1> QED
  BY <1>3, <1>4 DEF LInv

\* One run changes, and keeps what it was started with.
LEMMA LRun ==
    ASSUME JInv, LInv, UNCHANGED states, UNCHANGED ctl,
           NEW r \in DOMAIN runs, NEW x \in RunRecords,
           x.action = runs[r].action, x.ticket = runs[r].ticket,
           x.reconcile = "reading" => x.base = Len(states) \/ NamedInStore(r),
           x.reconcile = "lost" => NamedInStore(r),
           runs' = [runs EXCEPT ![r] = x]
    PROVE  LInv'
<1>1. /\ Len(runs') = Len(runs)
      /\ \A q \in 1..Len(runs) : runs'[q] = IF q = r THEN x ELSE runs[q]
  BY DEF JInv, RunsSound
<1>2. \A q \in 1..Len(runs) : NamedInStore(q) => NamedInStore(q)'
  BY <1>1 DEF NamedInStore
<1>3. ASSUME NEW c \in Controllers, ctl'[c].pc = "verified"
      PROVE  Outstanding(TicketOf(c))' # {}
  BY <1>3 DEF LInv, Outstanding, Newest, TicketOf
<1>4. ASSUME NEW q \in 1..Len(runs')
      PROVE  /\ Outstanding(runs[q].ticket)' # {} \/ NamedInStore(q)'
             /\ runs'[q].reconcile = "reading" =>
                    runs'[q].base = Len(states') \/ NamedInStore(q)'
             /\ runs'[q].reconcile = "lost" => NamedInStore(q)'
  <2>1. runs'[q].ticket = runs[q].ticket
    BY <1>1
  <2>2. Outstanding(runs[q].ticket)' = Outstanding(runs[q].ticket)
    BY <2>1 DEF Outstanding, Newest
  <2>3. CASE q = r
    BY <1>1, <1>2, <2>2, <2>3 DEF LInv
  <2>4. CASE q # r
    BY <1>1, <1>2, <2>2, <2>4 DEF LInv
  <2> QED
    BY <2>3, <2>4
<1> QED
  BY <1>3, <1>4 DEF LInv

LEMMA LConcludes ==
    ASSUME JInv, LInv, NEW r \in DOMAIN runs,
           NEW stage \in {"waiting", "denied", "model", "done"},
           NEW conclusion \in {"success", "failure", "cancelled"},
           Concludes(r, stage, conclusion)
    PROVE  LInv'
<1> DEFINE x == [runs[r] EXCEPT !.stage = stage, !.conclusion = conclusion]
<1>1. /\ x \in RunRecords /\ x.action = runs[r].action /\ x.ticket = runs[r].ticket
      /\ x.reconcile = runs[r].reconcile /\ x.base = runs[r].base
  BY RunIsSound DEF RunRecords
<1>2. runs' = [runs EXCEPT ![r] = x] /\ UNCHANGED states /\ UNCHANGED ctl
  BY DEF Concludes
<1> HIDE DEF x
<1> QED
  BY <1>1, <1>2, RunIsSound, LRun DEF LInv

LEMMA LEndsReconcile ==
    ASSUME JInv, LInv, UNCHANGED states, UNCHANGED ctl, NEW r \in DOMAIN runs,
           NEW outcome \in {"over", "lost"}, EndsReconcile(r, outcome),
           outcome = "lost" => NamedInStore(r)
    PROVE  LInv'
<1> DEFINE x == [runs[r] EXCEPT !.reconcile = outcome, !.base = 0]
<1>1. /\ x \in RunRecords /\ x.action = runs[r].action /\ x.ticket = runs[r].ticket
      /\ x.reconcile = outcome
  BY RunIsSound DEF RunRecords
<1>2. runs' = [runs EXCEPT ![r] = x]
  BY DEF EndsReconcile
<1> HIDE DEF x
<1> QED
  BY <1>1, <1>2, LRun

LEMMA LAdmit ==
    ASSUME JInv, LInv, NEW r \in DOMAIN runs, Admit(r) PROVE LInv'
<1> DEFINE x == [runs[r] EXCEPT !.stage = "model"]
<1>1. /\ x \in RunRecords /\ x.action = runs[r].action /\ x.ticket = runs[r].ticket
      /\ x.reconcile = runs[r].reconcile /\ x.base = runs[r].base
  BY RunIsSound DEF RunRecords
<1>2. runs' = [runs EXCEPT ![r] = x] /\ UNCHANGED states /\ UNCHANGED ctl
  BY DEF Admit, Changes
<1> HIDE DEF x
<1> QED
  BY <1>1, <1>2, RunIsSound, LRun DEF LInv

LEMMA LReadForReconcile ==
    ASSUME JInv, LInv, NEW r \in DOMAIN runs, ReadForReconcile(r) PROVE LInv'
<1>1. UNCHANGED states /\ UNCHANGED ctl
  BY DEF ReadForReconcile
<1>2. CASE Outstanding(runs[r].ticket) # {}
  <2> DEFINE x == [runs[r] EXCEPT !.reconcile = "reading", !.base = Len(states)]
  <2>1. Len(states) \in Nat
    BY NewestSound DEF JInv
  <2>2. /\ x \in RunRecords /\ x.action = runs[r].action /\ x.ticket = runs[r].ticket
        /\ x.reconcile = "reading" /\ x.base = Len(states)
    BY <2>1, RunIsSound DEF RunRecords
  <2>3. runs' = [runs EXCEPT ![r] = x]
    BY <1>2 DEF ReadForReconcile
  <2> HIDE DEF x
  <2> QED
    BY <1>1, <2>2, <2>3, LRun
<1>3. CASE Outstanding(runs[r].ticket) = {}
  <2>1. NamedInStore(r)
    BY <1>3, RunIsSound DEF LInv
  <2>2. EndsReconcile(r, "over") \/ EndsReconcile(r, "lost")
    BY <1>3, ReconciledIsOver DEF ReadForReconcile
  <2> QED
    BY <1>1, <2>1, <2>2, LEndsReconcile
<1> QED
  BY <1>2, <1>3

LEMMA LCommitReconcile ==
    ASSUME IInv, JInv, KInv, KInv', LInv, NEW r \in DOMAIN runs, CommitReconcile(r)
    PROVE  LInv'
<1>1. UNCHANGED ctl /\ r \in 1..Len(runs) /\ runs[r].reconcile = "reading"
  BY RunIsSound DEF CommitReconcile, Reconciling
<1>2. CASE runs[r].base = Len(states)
  <2>1. PICK i \in Outstanding(runs[r].ticket) : Commit(Acknowledge(Newest, i, r))
    BY <1>2 DEF CommitReconcile
  <2>2. i \in Newest.outbox /\ i.status = "dispatching" /\ i.id = runs[r].ticket.action
    BY OutstandingIs DEF JInv
  <2>3. runs[r].action = i.id
    BY <2>2, RunIsSound DEF RunSound
  <2>4. EndsReconcile(r, "over")
    BY <1>2, ReconciledIsOver DEF CommitReconcile
  <2>5. /\ Len(runs') = Len(runs)
        /\ \A q \in 1..Len(runs) : runs'[q].action = runs[q].action
    <3> DEFINE x == [runs[r] EXCEPT !.reconcile = "over", !.base = 0]
    <3>1. x \in RunRecords /\ x.action = runs[r].action
      BY RunIsSound DEF RunRecords
    <3>2. runs' = [runs EXCEPT ![r] = x]
      BY <2>4 DEF EndsReconcile
    <3> HIDE DEF x
    <3> QED
      BY <3>1, <3>2 DEF JInv, RunsSound
  <2> QED
    BY <1>1, <2>1, <2>2, <2>3, <2>5, LAcknowledge
<1>3. CASE runs[r].base # Len(states)
  <2>1. NamedInStore(r)
    BY <1>1, <1>3 DEF LInv
  <2>2. UNCHANGED states /\ EndsReconcile(r, "lost")
    BY <1>3 DEF CommitReconcile
  <2> QED
    BY <1>1, <2>1, <2>2, LEndsReconcile
<1> QED
  BY <1>2, <1>3

LEMMA LRuns ==
    ASSUME IInv, JInv, KInv, KInv', LInv, NEW r \in DOMAIN runs,
           \/ Worker(r) \/ Cancel(r) \/ Break(r)
           \/ Reconciler(r) \/ RefuseClaim(r) \/ FailReconcile(r)
    PROVE  LInv'
<1>1. CASE Admit(r)
  BY <1>1, LAdmit
<1>2. CASE Deny(r)
  BY <1>2, LConcludes DEF Deny
<1>3. CASE \E conclusion \in {"success", "failure"} : Finish(r, conclusion)
  <2>1. PICK conclusion \in {"success", "failure"} : Finish(r, conclusion)
    BY <1>3
  <2>2. conclusion \in {"success", "failure", "cancelled"}
    BY <2>1
  <2> QED
    BY <2>1, <2>2, LConcludes DEF Finish
<1>4. CASE Cancel(r) \/ Break(r)
  BY <1>4, LConcludes DEF Cancel, Break
<1>5. CASE Reconciler(r)
  BY <1>5, LReadForReconcile, LCommitReconcile DEF Reconciler
<1>6. CASE RefuseClaim(r) \/ FailReconcile(r)
  BY <1>6, LEndsReconcile DEF RefuseClaim, FailReconcile
<1> QED
  BY <1>1, <1>2, <1>3, <1>4, <1>5, <1>6 DEF Worker
-----------------------------------------------------------------------------
LEMMA LEnds ==
    ASSUME IInv, NEW c \in Controllers, Ends(c)
    PROVE  \A d \in Controllers : ctl'[d] = ctl[d] \/ ctl'[d].pc # "verified"
<1>1. \A d \in Controllers : ctl'[d] = IF d = c THEN Idle ELSE ctl[d]
  BY DEF IInv, CtlOK, Ends
<1> QED
  BY <1>1 DEF Idle

LEMMA LVerify ==
    ASSUME IInv, LInv, NEW c \in Controllers, Verify(c) PROVE LInv'
<1>1. UNCHANGED states /\ UNCHANGED runs
  BY DEF Verify
<1>2. \E i \in Newest.outbox : i.status = "dispatching" /\ i.ticket = TicketOf(c)
  BY DEF Verify
<1> DEFINE l == [ctl[c] EXCEPT !.pc = "verified"]
<1>3. l.action = ctl[c].action /\ l.base = ctl[c].base
  BY DEF IInv, CtlOK
<1>4. \A d \in Controllers : ctl'[d] = IF d = c THEN l ELSE ctl[d]
  BY DEF Verify, Goes, IInv, CtlOK
<1> HIDE DEF l
<1>5. TicketOf(c)' = TicketOf(c)
  BY <1>3, <1>4 DEF TicketOf
<1>6. Outstanding(TicketOf(c))' # {}
  BY <1>1, <1>2, <1>5 DEF Outstanding, Newest
<1> QED
  BY <1>1, <1>4, <1>6, LMoves

\* The ticket at the head is the one the new run was given.
LEMMA LPost ==
    ASSUME IInv, JInv, KInv, LInv, NEW c \in Controllers,
           NEW answer \in {"answered", "lost", "refused"}, Post(c, answer)
    PROVE  LInv'
<1>1. /\ UNCHANGED states /\ ctl[c].pc = "verified" /\ MayAsk(c)
      /\ Outstanding(TicketOf(c)) # {}
  BY DEF Post, At, LInv, MayAsk
<1>2. \A d \in Controllers : ctl'[d] = ctl[d] \/ ctl'[d].pc # "verified"
  <2>1. CASE answer = "answered"
    <3> DEFINE l == [ctl[c] EXCEPT !.pc = "answered", !.run = Len(runs) + 1]
    <3>1. l.pc = "answered"
      BY DEF IInv, CtlOK
    <3>2. \A d \in Controllers : ctl'[d] = IF d = c THEN l ELSE ctl[d]
      BY <2>1 DEF Post, IInv, CtlOK
    <3> HIDE DEF l
    <3> QED
      BY <3>1, <3>2
  <2>2. CASE answer # "answered"
    BY <2>2, LEnds DEF Post
  <2> QED
    BY <2>1, <2>2
<1>3. CASE answer = "refused"
  <2>1. UNCHANGED runs
    BY <1>3 DEF Post
  <2> QED
    BY <1>1, <1>2, <2>1, LMoves
<1>4. CASE answer # "refused"
  <2>1. PICK i \in states[ctl[c].base + 1].outbox :
            i.id = ctl[c].action /\ runs' = Append(runs, Run(TicketOf(c), i))
    BY <1>4 DEF Post
  <2> DEFINE x == Run(TicketOf(c), i)
  <2>2. RunSound(x) /\ x.ticket = TicketOf(c) /\ x.reconcile = "no"
    <3>1. RunSound(x)
      BY <1>1, <2>1, PostedRun
    <3>2. x.ticket = TicketOf(c) /\ x.reconcile = "no"
      BY DEF Run
    <3> QED
      BY <3>1, <3>2
  <2>3. runs' = Append(runs, x)
    BY <2>1
  <2> HIDE DEF x
  <2>4. /\ Len(runs) \in Nat /\ Len(runs') = Len(runs) + 1
        /\ \A r \in 1..Len(runs) : runs'[r] = runs[r]
        /\ runs'[Len(runs) + 1] = x
    BY <2>2, <2>3 DEF JInv, RunsSound, RunSound
  <2>5. ASSUME NEW d \in Controllers, ctl'[d].pc = "verified"
        PROVE  Outstanding(TicketOf(d))' # {}
    BY <1>1, <1>2, <2>5 DEF LInv, Outstanding, Newest, TicketOf
  <2>6. ASSUME NEW r \in 1..Len(runs')
        PROVE  /\ Outstanding(runs[r].ticket)' # {} \/ NamedInStore(r)'
               /\ runs'[r].reconcile = "reading" =>
                      runs'[r].base = Len(states') \/ NamedInStore(r)'
               /\ runs'[r].reconcile = "lost" => NamedInStore(r)'
    <3>1. CASE r \in 1..Len(runs)
      <4>1. runs'[r] = runs[r]
        BY <2>4, <3>1
      <4>2. NamedInStore(r)' <=> NamedInStore(r)
        BY <1>1, <4>1 DEF NamedInStore
      <4>3. Outstanding(runs[r].ticket)' = Outstanding(runs[r].ticket)
        BY <1>1, <4>1 DEF Outstanding, Newest
      <4> QED
        BY <1>1, <3>1, <4>1, <4>2, <4>3 DEF LInv
    <3>2. CASE r = Len(runs) + 1
      <4>1. runs'[r].ticket = TicketOf(c) /\ runs'[r].reconcile = "no"
        BY <2>2, <2>4, <3>2
      <4>2. Outstanding(runs[r].ticket)' = Outstanding(TicketOf(c))
        BY <1>1, <4>1 DEF Outstanding, Newest
      <4> QED
        BY <1>1, <4>1, <4>2
    <3> QED
      BY <2>4, <3>1, <3>2
  <2> QED
    BY <2>5, <2>6 DEF LInv
<1> QED
  BY <1>3, <1>4

LEMMA LController ==
    ASSUME IInv, JInv, KInv, KInv', LInv, NEW c \in Controllers, Controller(c)
    PROVE  LInv'
<1>1. CASE BindCheckpoint(c)
  <2>1. PICK i \in Newest.outbox : Bindable(Newest, i) /\ Commit(Bind(Newest, i))
    BY <1>1 DEF BindCheckpoint
  <2>2. Over(i) /\ UNCHANGED runs /\ UNCHANGED ctl
    BY <1>1, <2>1 DEF BindCheckpoint, Bindable, Over
  <2> QED
    BY <2>1, <2>2, LOver
<1>2. CASE ReadForIntent(c)
  <2> DEFINE k(i) == [pc |-> "read", action |-> i.id, base |-> Len(states), run |-> None]
  <2>1. PICK i \in Newest.outbox : ctl' = [ctl EXCEPT ![c] = k(i)]
    BY <1>2 DEF ReadForIntent
  <2>2. k(i).pc = "read"
    OBVIOUS
  <2> HIDE DEF k
  <2>3. \A d \in Controllers : ctl'[d] = ctl[d] \/ ctl'[d].pc # "verified"
    BY <2>1, <2>2 DEF IInv, CtlOK
  <2>4. UNCHANGED states /\ UNCHANGED runs
    BY <1>2 DEF ReadForIntent
  <2> QED
    BY <2>3, <2>4, LMoves
<1>3. CASE CommitIntent(c)
  <2>1. PICK i \in Newest.outbox :
            i.id = ctl[c].action /\ Commit(Intend(Newest, i, TicketOf(c)))
    BY <1>3 DEF CommitIntent
  <2>2. Over(i)
    <3>1. ctl[c].pc = "read" /\ Newest = states[ctl[c].base]
      BY <1>3 DEF CommitIntent, At, Newest
    <3>2. \E j \in Newest.outbox : j.id = ctl[c].action /\ Dispatchable(j)
      BY <3>1 DEF JInv, Remembers
    <3>3. Dispatchable(i)
      BY <2>1, <3>2, NewestNamed DEF IInv, Named
    <3> QED
      BY <3>3 DEF Dispatchable, Over
  <2>3. \A d \in Controllers : ctl'[d] = ctl[d] \/ ctl'[d].pc # "verified"
    BY <1>3 DEF CommitIntent, Goes, IInv, CtlOK
  <2>4. UNCHANGED runs
    BY <1>3 DEF CommitIntent
  <2> QED
    BY <2>1, <2>2, <2>3, <2>4, LOver
<1>4. CASE ReadForAck(c)
  <2>1. UNCHANGED states /\ UNCHANGED runs
    BY <1>4 DEF ReadForAck
  <2>2. \A d \in Controllers : ctl'[d] = ctl[d] \/ ctl'[d].pc # "verified"
    <3>1. CASE Ends(c)
      BY <3>1, LEnds
    <3>2. CASE ctl' = [ctl EXCEPT ![c].pc = "acking", ![c].base = Len(states)]
      BY <3>2 DEF IInv, CtlOK
    <3> QED
      BY <1>4, <3>1, <3>2 DEF ReadForAck
  <2> QED
    BY <2>1, <2>2, LMoves
<1>5. CASE CommitAck(c)
  <2>1. PICK i \in Newest.outbox :
            i.id = ctl[c].action /\ Commit(Acknowledge(Newest, i, ctl[c].run))
    BY <1>5 DEF CommitAck
  <2>2. PICK r \in 1..Len(runs) : r = ctl[c].run
    BY <1>5, AckedAction
  <2>3. i.status = "dispatching" /\ runs[r].action = i.id
    BY <1>5, <2>1, <2>2, AckedAction
  <2>4. Commit(Acknowledge(Newest, i, r)) /\ UNCHANGED runs
    BY <1>5, <2>1, <2>2 DEF CommitAck
  <2>5. \A d \in Controllers : ctl'[d] = ctl[d] \/ ctl'[d].pc # "verified"
    BY <1>5, LEnds DEF CommitAck
  <2> QED
    BY <2>3, <2>4, <2>5, LAcknowledge
<1>6. CASE Fail(c)
  <2>1. UNCHANGED states /\ UNCHANGED runs /\ Ends(c)
    BY <1>6 DEF Fail
  <2> QED
    BY <2>1, LEnds, LMoves
<1>7. CASE \E answer \in {"answered", "lost", "refused"} : Post(c, answer)
  BY <1>7, LPost
<1> QED
  BY <1>1, <1>2, <1>3, <1>4, <1>5, <1>6, <1>7, LVerify DEF Controller

\* Whatever a job ingests is the answer of a run that has ended.
LEMMA LIngest ==
    ASSUME IInv, JInv, KInv, KInv', LInv, Ingest PROVE LInv'
<1>1. PICK i \in Newest.outbox :
          \/ IngestYield(i)
          \/ \E r \in DOMAIN runs : IngestPublication(i, r)
          \/ IngestQwenPublication(i)
          \/ IngestDispute(i)
          \/ \E verdict \in {"approved", "changes_requested"} : IngestReview(i, verdict)
          \/ IngestFailure(i)
  BY DEF Ingest
<1>2. Over(i)
  <2>1. CASE IngestYield(i)
    BY <2>1, SucceededIsOver DEF IngestYield, CanYield
  <2>2. CASE \E r \in DOMAIN runs : IngestPublication(i, r)
    BY <2>2 DEF IngestPublication, Publishable, Over
  <2>3. CASE IngestQwenPublication(i)
    BY <2>3, SucceededIsOver
    DEF IngestQwenPublication, QwenPublishable, QwenRepairPublishable
  <2>4. CASE IngestDispute(i)
    BY <2>4, SucceededIsOver DEF IngestDispute, Accepts
  <2>5. CASE \E verdict \in {"approved", "changes_requested"} : IngestReview(i, verdict)
    BY <2>5, SucceededIsOver DEF IngestReview, Accepts
  <2>6. CASE IngestFailure(i)
    BY <2>6 DEF IngestFailure, CanRecover, Over
  <2> QED
    BY <1>1, <2>1, <2>2, <2>3, <2>4, <2>5, <2>6
<1>3. PICK t : Ingests(t)
  BY <1>1 DEF IngestYield, IngestPublication, IngestQwenPublication, IngestDispute,
              IngestReview, IngestFailure
<1> QED
  BY <1>2, <1>3, LOver DEF Ingests

LEMMA LStep ==
    IInv /\ JInv /\ KInv /\ LInv /\ [Next]_vars => LInv'
<1> SUFFICES ASSUME IInv, JInv, KInv, LInv, [Next]_vars PROVE LInv'
  OBVIOUS
<1>1. KInv'
  BY KStep
<1>2. CASE UNCHANGED vars
  BY <1>2, LMoves DEF vars
<1> QED
  BY <1>1, <1>2, LController, LRuns, LIngest DEF Next

\* A reconciliation has one try, and one is enough: where the Store cuts it
\* off, with something else to wait for or a head that has moved, the Store
\* has come to name its run.  Without this a run whose number GitHub kept to
\* itself would be given up although its claim can be proved.
THEOREM ReconciliationFindsAlways == Spec => []ReconciliationFinds
<1>1. Init => KInv /\ LInv
  BY KInit, LInit
<1>2. IInv /\ JInv /\ KInv /\ LInv /\ [Next]_vars => KInv' /\ LInv'
  BY KStep, LStep
<1>3. ASSUME JInv, LInv PROVE ReconciliationFinds
  BY <1>3, RunIsSound DEF LInv, ReconciliationFinds
<1> QED
  BY <1>1, <1>2, <1>3, Invariant, StoreInvariant, PTL DEF Spec
=============================================================================
