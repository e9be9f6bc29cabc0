----------------------------- MODULE IssueOutbox -----------------------------
(***************************************************************************)
(* The workflow state of one Issue and the operations on it: pure, each    *)
(* from a committed state to the next one (outbox.mjs, transition.mjs).    *)
(*                                                                         *)
(* An action is named by the version of the state that created it: an      *)
(* operation creates one action at most, and the code's name is a digest   *)
(* of the Issue, the version and the action.  A commit is a number: the    *)
(* main branch the Issue was started from, or the patch of a run.          *)
(*                                                                         *)
(* Every operation of the code ends by validating what it made.  That is   *)
(* no guard here: ValidAlways of AgentDispatch says it refuses nothing.    *)
(***************************************************************************)
EXTENDS Naturals, Sequences, FiniteSets

CONSTANTS
    Issuers,      \* controllers that sign tickets
    NoIssuer,
    MaxSlices,    \* slices one task may be cut into (MAX_SLICES)
    MaxRepairs    \* repairs before the Issue is blocked (max_repairs)

ASSUME OutboxAssumption ==
    /\ NoIssuer \notin Issuers
    /\ MaxSlices \in Nat
    /\ MaxRepairs \in Nat

Tasks == {"implement", "repair", "review", "quality", "notify"}
Phases == {"ready", "review", "repair", "quality", "blocked"}
Statuses == {"pending", "dispatching", "dispatched", "yielded", "failed"}

None == 0              \* no action, no run, no commit
MainSha == 1
PatchOf(r) == r + 1

Tickets == [action : Nat, base : Nat, issuer : Issuers \cup {NoIssuer}]
NoTicket == [action |-> None, base |-> 0, issuer |-> NoIssuer]

Items == [id : Nat, task : Tasks, sha : Nat,
          parent : Nat, ordinal : Nat,       \* continuation: of which slice
          source : Nat,                      \* repair_checkpoint: of which run
          status : Statuses, ticket : Tickets, run : Nat]

Events == [kind : {"developer", "publisher", "reviewer"}, run : Nat,
           target : Nat,
           outcome : {"implementation_ready", "published", "approved",
                      "changes_requested"}]

States == [version : Nat, phase : Phases, target : Nat, repairs : Nat,
           transitions : Seq(Events), outbox : SUBSET Items,
           developer : {"cursor", "qwen"}]
-----------------------------------------------------------------------------
ForDeveloper(i) == i.task \in {"implement", "repair"}
IsDispatch(i) == ForDeveloper(i) \/ i.task = "review"
InFlight(i) == i.status \in {"dispatching", "dispatched"}
Live(i) == i.status = "pending" \/ InFlight(i)

Fresh(id, task, sha) ==
    [id |-> id, task |-> task, sha |-> sha, parent |-> None, ordinal |-> 0,
     source |-> None, status |-> "pending", ticket |-> NoTicket, run |-> None]

Again(i, id) ==
    [i EXCEPT !.id = id, !.status = "pending", !.ticket = NoTicket, !.run = None]

\* startDevelopment
Started(developer) ==
    [version |-> 1, phase |-> "ready", target |-> None, repairs |-> 0,
     transitions |-> << >>, outbox |-> {Fresh(1, "implement", MainSha)},
     developer |-> developer]

\* The next version of s, where `gone` left the outbox and `new` came in.
Step(s, gone, new) ==
    [s EXCEPT !.version = s.version + 1, !.outbox = (s.outbox \ gone) \cup new]

Published(s, sha) ==
    \E n \in DOMAIN s.transitions :
        s.transitions[n].kind = "publisher" /\ s.transitions[n].target = sha

Disputed(s, sha) ==
    \E n \in DOMAIN s.transitions :
        /\ s.transitions[n].outcome = "changes_requested"
        /\ s.transitions[n].target = sha

\* The reviewer's answer to what is published now is the latest event.
LatestDisputes(s) ==
    /\ s.transitions # << >>
    /\ LET t == s.transitions[Len(s.transitions)]
       IN  t.outcome = "changes_requested" /\ t.target = s.target

Consumed(s, r, kind) ==
    \E n \in DOMAIN s.transitions :
        s.transitions[n].run = r /\ s.transitions[n].kind = kind
-----------------------------------------------------------------------------
(***************************************************************************)
(* validateDevelopmentState, the relations between the actions.            *)
(***************************************************************************)
ValidRepair(s, i) ==
    /\ i.task = "repair"
    /\ i.parent = None
    /\ i.status # "failed" => i.sha = s.target /\ s.phase = "repair"
    /\ Published(s, i.sha)
    /\ Disputed(s, i.sha)

ValidContinuation(s, i) ==
    /\ i.ordinal \in 1..MaxSlices
    /\ \E p \in s.outbox :
           /\ p.id = i.parent
           /\ p.status = "yielded"
           /\ i.ordinal = p.ordinal + 1
           /\ i.task = p.task
           /\ i.sha = p.sha
    /\ Cardinality({j \in s.outbox :
                       j.parent = i.parent /\ j.status # "failed"}) = 1

ValidStatus(i) ==
    CASE i.status = "dispatching" -> i.ticket.action = i.id /\ IsDispatch(i)
      [] i.status = "dispatched"  -> i.run # None
      [] i.status = "yielded"     -> i.run # None /\ IsDispatch(i)
      [] i.status = "failed"      -> i.run # None /\ ForDeveloper(i)
      [] OTHER                    -> i.ticket = NoTicket /\ i.run = None

Valid(s) ==
    /\ \A i, j \in s.outbox : i.id = j.id => i = j
    /\ \A i \in s.outbox :
           /\ i.source # None => ValidRepair(s, i)
           /\ i.parent # None => ValidContinuation(s, i)
           /\ ValidStatus(i)
-----------------------------------------------------------------------------
(***************************************************************************)
(* Which actions go when a task is over.  up[n] holds i and the yielded    *)
(* slices before it, n deep; gone[n] adds what continues any of them.      *)
(***************************************************************************)
Parents(s, some) == {p \in s.outbox : \E j \in some : j.parent = p.id}
Continuations(s, some) == {j \in s.outbox : \E p \in some : j.parent = p.id}

Lineage(s, i) ==
    LET up[n \in 0..MaxSlices] ==
            IF n = 0 THEN {i}
            ELSE LET below == up[n - 1] IN below \cup Parents(s, below)
    IN  up[MaxSlices]

\* Mutant: without the loop that follows the retired slices downwards.
SupersededUpwards(s, i) == Lineage(s, i)

SupersededProposalChain(s, i) ==
    LET gone[n \in 0..s.version] ==
            IF n = 0 THEN Lineage(s, i)
            ELSE LET above == gone[n - 1] IN above \cup Continuations(s, above)
    IN  gone[s.version]
-----------------------------------------------------------------------------
(***************************************************************************)
(* advanceWorkflow: what an authenticated event makes of the phase, and    *)
(* the one action it asks for.  Nothing reports quality, acceptance or a   *)
(* merge to the state, so those events are left out.                       *)
(***************************************************************************)
CanAdvance(s, e) ==
    \/ e.kind = "developer" /\ s.phase \in {"ready", "repair"}
    \/ e.kind = "publisher" /\ s.phase = "ready" /\ s.target = None
    \/ /\ e.kind = "publisher"
       /\ s.phase = "repair"
       /\ s.target \notin {None, e.target}
       /\ LatestDisputes(s)
    \/ e.kind = "reviewer" /\ s.phase = "review" /\ s.target = e.target

PhaseAfter(s, e) ==
    CASE e.kind # "reviewer"       -> "review"
      [] e.outcome = "approved"    -> "quality"
      [] s.repairs >= MaxRepairs   -> "blocked"
      [] OTHER                     -> "repair"

TaskIn == [review |-> "review", quality |-> "quality", repair |-> "repair",
           blocked |-> "notify"]

Advance(s, e, gone) ==
    LET phase == PhaseAfter(s, e)
        new == Fresh(s.version + 1, TaskIn[phase],
                     IF phase = "blocked" THEN None ELSE e.target)
    IN  [Step(s, gone, {new}) EXCEPT
            !.phase = phase,
            !.target = e.target,
            !.repairs = IF e.outcome = "changes_requested" THEN @ + 1 ELSE @,
            !.transitions = Append(@, e)]

\* acceptTaskResult, of a dispatched action i
Accepts(s, i, e) ==
    /\ i.status = "dispatched"
    /\ e.kind = IF ForDeveloper(i) THEN "developer" ELSE "reviewer"
    /\ ~ Consumed(s, e.run, e.kind)
    /\ CanAdvance(s, e)

AcceptTaskResult(s, i, e) == Advance(s, e, Lineage(s, i))
-----------------------------------------------------------------------------
(***************************************************************************)
(* Publications.  The developer "cursor" leaves slices behind, and what is *)
(* published is the patch of the slice before the one that waits; "qwen"   *)
(* works in one run, which is still dispatched when its patch is published *)
(***************************************************************************)
PublicationOf(r) ==
    [kind |-> "publisher", run |-> r, target |-> PatchOf(r), outcome |-> "published"]

NothingElseInFlight(s, i) == \A j \in s.outbox : InFlight(j) => j = i
NoReviewer(s) == \A j \in s.outbox : j.task # "review"

\* acceptPublisherPublication
Publishable(s, i, r) ==
    /\ s.developer = "cursor"
    /\ s.phase = "ready" /\ s.target = None
    /\ {j \in s.outbox : j.status = "pending" /\ ForDeveloper(j)} = {i}
    /\ NothingElseInFlight(s, i)
    /\ \A j \in s.outbox : j.status = "pending" => j.task # "review"
    /\ \E p \in s.outbox : p.id = i.parent /\ p.status = "yielded" /\ p.run = r

\* Mutant: the slices the publication was made of stay behind.
PublishAlone(s, i, r) == Advance(s, PublicationOf(r), {i})

Publish(s, i, r) == Advance(s, PublicationOf(r), SupersededProposalChain(s, i))

\* acceptAttestedQwenPublication
QwenPublishable(s, i) ==
    /\ s.developer = "qwen"
    /\ s.phase = "ready" /\ s.target = None
    /\ \A n \in DOMAIN s.transitions : s.transitions[n].kind # "publisher"
    /\ i.task = "implement" /\ i.status = "dispatched"
    /\ NothingElseInFlight(s, i)
    /\ NoReviewer(s)

\* acceptAttestedQwenRepairPublication
QwenRepairPublishable(s, i) ==
    /\ s.developer = "qwen"
    /\ s.phase = "repair"
    /\ LatestDisputes(s)
    /\ Published(s, s.target)
    /\ i.task = "repair" /\ i.status = "dispatched"
    /\ i.sha = s.target /\ i.source # None
    /\ NothingElseInFlight(s, i)
    /\ NoReviewer(s)

QwenPublish(s, i) == Advance(s, PublicationOf(i.run), {i})
-----------------------------------------------------------------------------
(***************************************************************************)
(* bindVerifiedRepairCheckpoint: a repair resumes the session of the run   *)
(* that was published first.  Both readers of that checkpoint find it for  *)
(* the first repair of an Issue only.                                      *)
(***************************************************************************)
Bindable(s, i) ==
    /\ i.task = "repair" /\ i.status = "pending" /\ i.source = None
    /\ i.parent = None
    /\ s.phase = "repair" /\ s.repairs = 1
    /\ i.sha = s.target
    /\ LatestDisputes(s)
    /\ {j \in s.outbox : j.status = "pending" /\ ForDeveloper(j)} = {i}

FirstPublished(s) ==
    LET Is(n) == s.transitions[n].kind = "publisher"
    IN  s.transitions[CHOOSE n \in DOMAIN s.transitions :
            Is(n) /\ \A m \in DOMAIN s.transitions : Is(m) => n <= m]

Bind(s, i) == Step(s, {i}, {[i EXCEPT !.source = FirstPublished(s).run]})

\* Mutant: an action whose controller was not heard of is dispatched again.
DispatchableAgain(i) ==
    /\ i.status \in {"pending", "dispatching"}
    /\ IsDispatch(i)
    /\ i.task = "repair" => i.source # None

\* What a ticket may be issued for, and a write-ahead intent recorded.
Dispatchable(i) ==
    /\ i.status = "pending"
    /\ IsDispatch(i)
    /\ i.task = "repair" => i.source # None

\* recordDispatchIntent
Intend(s, i, ticket) ==
    Step(s, {i}, {[i EXCEPT !.status = "dispatching", !.ticket = ticket]})

\* recordDispatch
Acknowledge(s, i, r) ==
    Step(s, {i}, {[i EXCEPT !.status = "dispatched", !.ticket = NoTicket, !.run = r]})

\* Mutant: without the limit on the number of slices.
CanYieldUnbounded(s, i) ==
    s.developer = "cursor" /\ i.task = "implement" /\ i.status = "dispatched"

\* recordSliceYield
CanYield(s, i) ==
    /\ s.developer = "cursor"
    /\ i.task = "implement" /\ i.status = "dispatched"
    /\ i.ordinal < MaxSlices

YieldSlice(s, i) ==
    Step(s, {i},
         {[i EXCEPT !.status = "yielded"],
          [Again(i, s.version + 1) EXCEPT !.parent = i.id, !.ordinal = i.ordinal + 1]})

(***************************************************************************)
(* recordAttestedDeveloperFailure and the recoveries pinned to one run     *)
(* each: the failed action stays, a new one takes its place.               *)
(***************************************************************************)
CanRecover(s, i) ==
    /\ i.status = "dispatched"
    /\ ForDeveloper(i)
    /\ i.task = "repair" => s.developer = "cursor"
    /\ \A j \in s.outbox : j.status = "pending" => ~ ForDeveloper(j)

Recover(s, i) ==
    Step(s, {i}, {[i EXCEPT !.status = "failed"], Again(i, s.version + 1)})
=============================================================================
