---------------------------- MODULE AgentDispatch ----------------------------
(***************************************************************************)
(* How the actions of one Issue become GitHub runs, and what the runs      *)
(* answer: jobs that share nothing but the git branch of the Store.        *)
(*                                                                         *)
(*   controller  "Agent / Controller Dispatch": commits an intent, then    *)
(*               asks GitHub for a run, then commits the run it was given  *)
(*   run         "Agent / Development" or "Agent / Review": lets the model *)
(*               work once the Store shows it its own number               *)
(*   reconcile   "Store / Agent Dispatch Reconcile": commits the number of *)
(*               a development run that ended                              *)
(*   ingest      jobs that commit what a run has answered                  *)
(*                                                                         *)
(* A commit is a push onto the head that was read: of two jobs that read   *)
(* the same head one succeeds.  Jobs that read and push without asking     *)
(* GitHub to act in between are one step, for a job that loses the push    *)
(* leaves nothing behind.  The jobs of several runs interleave freely, and *)
(* any job may end between two steps.                                      *)
(***************************************************************************)
EXTENDS IssueOutbox

CONSTANTS
    Developers,       \* which developers an Issue may be started for
    MaxRecoveries     \* bound: failed runs the code has a recovery for

ASSUME DispatchAssumption ==
    /\ Developers \subseteq {"cursor", "qwen"}
    /\ MaxRecoveries \in Nat

Controllers == Issuers

VARIABLES
    states,    \* the Store: states[v] is version v, and the last one the head
    runs,      \* the runs GitHub started, by number
    ctl        \* ctl[c]: where controller c is, and what it has in hand

vars == <<states, runs, ctl>>

Newest == states[Len(states)]
Commit(s) == states' = Append(states, s)

Idle == [pc |-> "idle", action |-> None, base |-> 0, run |-> None]
At(c, pc) == ctl[c].pc = pc
Goes(c, pc) == ctl' = [ctl EXCEPT ![c].pc = pc]
Ends(c) == ctl' = [ctl EXCEPT ![c] = Idle]

TicketOf(c) == [action |-> ctl[c].action, base |-> ctl[c].base, issuer |-> c]

Run(t, i) ==
    [action |-> i.id, task |-> i.task, sha |-> i.sha, ticket |-> t,
     stage |-> "waiting", conclusion |-> "none", attempt |-> 1,
     reconcile |-> "no", base |-> 0]

Changes(r, field, value) == runs' = [runs EXCEPT ![r][field] = value]

Init ==
    /\ \E d \in Developers : states = <<Started(d)>>
    /\ runs = << >>
    /\ ctl = [c \in Controllers |-> Idle]
-----------------------------------------------------------------------------
(***************************************************************************)
(* Controllers.                                                            *)
(***************************************************************************)
\* bindQwenRepairCheckpoint, bindControlledRepairCheckpoint
BindCheckpoint(c) ==
    /\ At(c, "idle")
    /\ \E i \in Newest.outbox : Bindable(Newest, i) /\ Commit(Bind(Newest, i))
    /\ UNCHANGED <<runs, ctl>>

\* commitDispatchIntent: an action that is not pending is left alone
ReadForIntent(c) ==
    /\ At(c, "idle")
    /\ \E i \in Newest.outbox :
           /\ Dispatchable(i)
           /\ ctl' = [ctl EXCEPT ![c] = [pc |-> "read", action |-> i.id,
                                       base |-> Len(states), run |-> None]]
    /\ UNCHANGED <<states, runs>>

\* Mutant: the push goes through although the head has moved.
CommitIntentUnfenced(c) ==
    /\ At(c, "read")
    /\ \E i \in Newest.outbox :
           i.id = ctl[c].action /\ Commit(Intend(Newest, i, TicketOf(c)))
    /\ Goes(c, "committed")
    /\ UNCHANGED runs

CommitIntent(c) ==
    /\ At(c, "read")
    /\ ctl[c].base = Len(states)
    /\ \E i \in Newest.outbox :
           i.id = ctl[c].action /\ Commit(Intend(Newest, i, TicketOf(c)))
    /\ Goes(c, "committed")
    /\ UNCHANGED runs

\* executeDurableAgentDispatch reads its own intent back from the Store
Verify(c) ==
    /\ At(c, "committed")
    /\ Len(states) = ctl[c].base + 1
    /\ \E i \in Newest.outbox : i.status = "dispatching" /\ i.ticket = TicketOf(c)
    /\ Goes(c, "verified")
    /\ UNCHANGED <<states, runs>>

(***************************************************************************)
(* The one POST of a dispatch.  "answered": 200, with the number of the    *)
(* run; "lost": there is a run, and 204, a timeout or an end of the job    *)
(* instead of its number; "refused": there is no run.                      *)
(***************************************************************************)
Post(c, answer) ==
    /\ At(c, "verified")
    /\ IF answer = "refused"
       THEN UNCHANGED runs
       ELSE \E i \in states[ctl[c].base + 1].outbox :
                i.id = ctl[c].action /\ runs' = Append(runs, Run(TicketOf(c), i))
    /\ IF answer = "answered"
       THEN ctl' = [ctl EXCEPT ![c].pc = "answered", ![c].run = Len(runs) + 1]
       ELSE Ends(c)
    /\ UNCHANGED states

\* acknowledgeCommittedDispatch: reads, and pushes onto what it read.  An
\* action that is dispatched already is only compared.
Outstanding(t) ==
    {i \in Newest.outbox : i.status = "dispatching" /\ i.ticket = t}

ReadForAck(c) ==
    /\ At(c, "answered")
    /\ IF Outstanding(TicketOf(c)) # {}
       THEN ctl' = [ctl EXCEPT ![c].pc = "acking", ![c].base = Len(states)]
       ELSE Ends(c)
    /\ UNCHANGED <<states, runs>>

CommitAck(c) ==
    /\ At(c, "acking")
    /\ ctl[c].base = Len(states)
    /\ \E i \in Newest.outbox :
           /\ i.id = ctl[c].action
           /\ Commit(Acknowledge(Newest, i, ctl[c].run))
    /\ Ends(c)
    /\ UNCHANGED runs

\* A push that was rejected, a check that failed, or the end of the job.
Fail(c) ==
    /\ ~ At(c, "idle")
    /\ Ends(c)
    /\ UNCHANGED <<states, runs>>
-----------------------------------------------------------------------------
(***************************************************************************)
(* Runs.                                                                   *)
(***************************************************************************)
IsDeveloper(r) == runs[r].task \in {"implement", "repair"}
Waiting(r) == r \in DOMAIN runs /\ runs[r].stage = "waiting"

\* historicalPrepared: the newest version that says action a is dispatching
Prepared(a) ==
    {v \in DOMAIN states :
        /\ \E i \in states[v].outbox : i.id = a /\ i.status = "dispatching"
        /\ \A w \in v + 1..Len(states) :
               ~ \E i \in states[w].outbox : i.id = a /\ i.status = "dispatching"}

\* Mutant: whoever carries the ticket, acknowledged or not.
AuthorizedEarly(r) ==
    \E i \in Newest.outbox :
        i.id = runs[r].action /\ i.status = "dispatching" /\ i.ticket = runs[r].ticket

\* authorizeWorkerFromStore
Authorized(r) ==
    /\ \E i \in Newest.outbox :
           /\ i.id = runs[r].action
           /\ i.status = "dispatched" /\ i.run = r
           /\ i.task = runs[r].task /\ i.sha = runs[r].sha
    /\ runs[r].ticket.base < Newest.version
    /\ \E v \in Prepared(runs[r].action) : \E i \in states[v].outbox :
           i.id = runs[r].action /\ i.ticket = runs[r].ticket

\* admitQwenPublishedReview; a cursor Issue's reviewer does not ask the Store
Admissible(r) ==
    IF IsDeveloper(r) THEN Authorized(r)
    ELSE Newest.developer = "qwen" =>
             /\ Newest.phase = "review" /\ Newest.target = runs[r].sha
             /\ \E i \in Newest.outbox :
                    i.id = runs[r].action /\ i.status \in {"pending", "dispatched"}

Admit(r) ==
    /\ Waiting(r)
    /\ Admissible(r)
    /\ Changes(r, "stage", "model")
    /\ UNCHANGED <<states, ctl>>

Concludes(r, stage, conclusion) ==
    /\ runs' = [runs EXCEPT ![r].stage = stage, ![r].conclusion = conclusion]
    /\ UNCHANGED <<states, ctl>>

\* the last of the reads a run makes of the Store
Deny(r) == Waiting(r) /\ ~ Admissible(r) /\ Concludes(r, "denied", "failure")

Finish(r, conclusion) ==
    /\ r \in DOMAIN runs /\ runs[r].stage = "model"
    /\ Concludes(r, "done", conclusion)

Cancel(r) ==
    /\ r \in DOMAIN runs /\ runs[r].stage \in {"waiting", "model"}
    /\ Concludes(r, "done", "cancelled")

\* A job of the run fails before the Store lets it in or turns it away: the
\* one that uploads the claim, or a later one.
Break(r) == Waiting(r) /\ Concludes(r, "done", "failure")
-----------------------------------------------------------------------------
(***************************************************************************)
(* Reconciliation of a development run that ended by itself: the one job   *)
(* that can find a number nobody was told.                                 *)
(***************************************************************************)
DevelopmentJobs == {"claim", "restore", "developer", "qwen-restore", "qwen-developer"}

\* eligiblePreflightRerun, which asks for a run of one job.  GitHub would
\* start a second attempt, and every job of it skip itself: run_attempt == 1.
MayRerun(r) ==
    /\ runs[r].stage = "denied" /\ runs[r].attempt = 1
    /\ DevelopmentJobs = {"developer"}

CanReconcile(r) ==
    /\ r \in DOMAIN runs /\ IsDeveloper(r)
    /\ runs[r].conclusion \in {"success", "failure"}
    /\ runs[r].reconcile = "no"

\* The job is gone, and what it had read with it.
EndsReconcile(r, outcome) ==
    runs' = [runs EXCEPT ![r].reconcile = outcome, ![r].base = 0]

Reconciled(r) ==
    IF MayRerun(r)
    THEN runs' = [runs EXCEPT ![r].stage = "waiting", ![r].conclusion = "none",
                              ![r].attempt = 2, ![r].reconcile = "no", ![r].base = 0]
    ELSE EndsReconcile(r, "over")

(***************************************************************************)
(* The run cannot be proved: its claim was never uploaded or has expired,  *)
(* it was made outside the window of its ticket, main moved between the    *)
(* start of its controller and the request, or the controller was run      *)
(* again.  Which of these is the case is left open until here: the ingests *)
(* look at some of them too, and may take an answer or never.  Or the job  *)
(* ends before it has read.                                                *)
(***************************************************************************)
RefuseClaim(r) ==
    /\ CanReconcile(r)
    /\ EndsReconcile(r, "over")
    /\ UNCHANGED <<states, ctl>>

\* The Store names the run, and the step before this one of its was to.
Replayed(r) ==
    /\ \E i \in Newest.outbox :
           i.id = runs[r].action /\ i.status = "dispatched" /\ i.run = r
    /\ \E i \in states[Len(states) - 1].outbox :
           i.status = "dispatching" /\ i.ticket = runs[r].ticket

\* acknowledgeCommittedDispatch again, from what the claim of the run proves
ReadForReconcile(r) ==
    /\ CanReconcile(r)
    /\ IF Outstanding(runs[r].ticket) # {}
       THEN runs' = [runs EXCEPT ![r].reconcile = "reading", ![r].base = Len(states)]
       ELSE IF Replayed(r) THEN Reconciled(r)
       ELSE EndsReconcile(r, "lost")
    /\ UNCHANGED <<states, ctl>>

Reconciling(r) == r \in DOMAIN runs /\ runs[r].reconcile = "reading"

CommitReconcile(r) ==
    /\ Reconciling(r)
    /\ IF runs[r].base = Len(states)
       THEN /\ \E i \in Outstanding(runs[r].ticket) : Commit(Acknowledge(Newest, i, r))
            /\ Reconciled(r)
       ELSE EndsReconcile(r, "lost") /\ UNCHANGED states
    /\ UNCHANGED ctl

\* The job fails or runs out of time between its read and its push.  Nothing
\* starts another for the same attempt.
FailReconcile(r) ==
    /\ Reconciling(r)
    /\ EndsReconcile(r, "over")
    /\ UNCHANGED <<states, ctl>>
-----------------------------------------------------------------------------
(***************************************************************************)
(* Ingest: what authenticated runs have answered becomes the next version. *)
(***************************************************************************)
Succeeded(r) == r \in DOMAIN runs /\ runs[r].conclusion = "success"

Ingests(s) == Commit(s) /\ UNCHANGED <<runs, ctl>>

\* commitAttestedSliceYield
IngestYield(i) ==
    /\ CanYield(Newest, i)
    /\ Succeeded(i.run)
    /\ Ingests(YieldSlice(Newest, i))

\* applyPublisherReviewHandoff
IngestPublication(i, r) ==
    /\ Publishable(Newest, i, r)
    /\ Ingests(Publish(Newest, i, r))

\* applyQwenPublisherReviewHandoff, applyQwenRepairPublisherReviewHandoff
IngestQwenPublication(i) ==
    /\ QwenPublishable(Newest, i) \/ QwenRepairPublishable(Newest, i)
    /\ Succeeded(i.run)
    /\ CanAdvance(Newest, PublicationOf(i.run))
    /\ Ingests(QwenPublish(Newest, i))

\* commitAttestedRepairDispute: the repair that changed nothing
IngestDispute(i) ==
    LET e == [kind |-> "developer", run |-> i.run, target |-> i.sha,
              outcome |-> "implementation_ready"]
    IN  /\ Newest.developer = "cursor"
        /\ i.task = "repair" /\ i.source # None
        /\ Succeeded(i.run)
        /\ Accepts(Newest, i, e)
        /\ Ingests(AcceptTaskResult(Newest, i, e))

\* verifyReviewerForStore, stageVerifiedReviewerStore
IngestReview(i, verdict) ==
    LET e == [kind |-> "reviewer", run |-> i.run, target |-> i.sha,
              outcome |-> verdict]
    IN  /\ i.task = "review"
        /\ Succeeded(i.run)
        /\ Accepts(Newest, i, e)
        /\ Ingests(AcceptTaskResult(Newest, i, e))

\* The code has a recovery for each of the runs it names, and which runs of
\* the model these are is left open.
Recoveries == Cardinality({i \in Newest.outbox : i.status = "failed"})

IngestFailure(i) ==
    /\ Recoveries < MaxRecoveries
    /\ CanRecover(Newest, i)
    /\ i.run \in DOMAIN runs
    /\ runs[i.run].stage = "done" /\ runs[i.run].conclusion = "failure"
    /\ Ingests(Recover(Newest, i))
-----------------------------------------------------------------------------
Controller(c) ==
    \/ BindCheckpoint(c)
    \/ ReadForIntent(c)
    \/ CommitIntent(c)
    \/ Verify(c)
    \/ \E answer \in {"answered", "lost", "refused"} : Post(c, answer)
    \/ ReadForAck(c)
    \/ CommitAck(c)
    \/ Fail(c)

Worker(r) ==
    \/ Admit(r)
    \/ Deny(r)
    \/ \E conclusion \in {"success", "failure"} : Finish(r, conclusion)

Reconciler(r) == ReadForReconcile(r) \/ CommitReconcile(r)

Ingest ==
    \E i \in Newest.outbox :
        \/ IngestYield(i)
        \/ \E r \in DOMAIN runs : IngestPublication(i, r)
        \/ IngestQwenPublication(i)
        \/ IngestDispute(i)
        \/ \E verdict \in {"approved", "changes_requested"} : IngestReview(i, verdict)
        \/ IngestFailure(i)

Next ==
    \/ \E c \in Controllers : Controller(c)
    \/ \E r \in DOMAIN runs :
           \/ Worker(r) \/ Cancel(r) \/ Break(r)
           \/ Reconciler(r) \/ RefuseClaim(r) \/ FailReconcile(r)
    \/ Ingest

Spec == Init /\ [][Next]_vars
-----------------------------------------------------------------------------
(***************************************************************************)
(* What the pieces are; that a version carries its own number, names no    *)
(* action of a later one, and cuts no task into more slices than allowed   *)
(* (the check of the limit is made at one of the two ends of a slice).     *)
(***************************************************************************)
TypeOK ==
    /\ states \in Seq(States)
    /\ \A v \in DOMAIN states :
           /\ states[v].version = v
           /\ \A i \in states[v].outbox : i.id <= v /\ i.ordinal <= MaxSlices
    /\ runs \in Seq([action : Nat, task : Tasks, sha : Nat, ticket : Tickets,
                     stage : {"waiting", "denied", "model", "done"},
                     conclusion : {"none", "success", "failure", "cancelled"},
                     attempt : 1..2, base : Nat,
                     reconcile : {"no", "reading", "over", "lost"}])
    /\ ctl \in [Controllers ->
                 [pc : {"idle", "read", "committed", "verified",
                        "answered", "acking"},
                  action : Nat, base : Nat, run : Nat]]

\* However the controllers race, and whatever GitHub answers or fails to
\* answer, no action is ever given to two runs.
OneRunPerAction ==
    \A r, q \in DOMAIN runs : runs[r].action = runs[q].action => r = q

\* A run that has not ended is still what the Store waits for: its action is
\* in flight with the task and the commit the run was started with.  A model
\* writes code only for a run the Store names, and reviews only what is
\* published now.  And a run the Store names is a run of that action.
RunsMatchStore ==
    /\ \A r \in DOMAIN runs :
           runs[r].conclusion = "none" =>
               \E i \in Newest.outbox :
                   /\ i.id = runs[r].action /\ InFlight(i)
                   /\ i.task = runs[r].task /\ i.sha = runs[r].sha
                   /\ runs[r].stage = "model" =>
                          IF IsDeveloper(r) THEN i.run = r
                          ELSE Newest.phase = "review" /\ Newest.target = i.sha
    /\ \A i \in Newest.outbox :
           i.run # None => i.run \in DOMAIN runs /\ runs[i.run].action = i.id

\* There is always exactly one thing to do next, and every slice that is
\* kept leads up to it: nothing of a proposal survives its publication.
OneChain ==
    \E i \in Newest.outbox :
        /\ {j \in Newest.outbox : Live(j)} = {i}
        /\ {j \in Newest.outbox : j.status = "yielded"} \subseteq Lineage(Newest, i)

\* No operation makes a state that validateDevelopmentState, with which it
\* ends, would throw on: what is retired takes what continues it along.
ValidAlways == Valid(Newest)

NamedInStore(r) ==
    \E v \in DOMAIN states : \E i \in states[v].outbox :
        i.id = runs[r].action /\ i.run = r

\* A reconciliation has one try: what it finds in the Store when it reads, or
\* in its way when it pushes, ends it.  One try is enough: a reconciliation
\* that can prove its run and is cut off by the Store is cut off because the
\* Store came to name the run, whatever the run's controller, the other
\* controllers and the ingests did in between.
ReconciliationFinds ==
    \A r \in DOMAIN runs : runs[r].reconcile = "lost" => NamedInStore(r)

\* A development run whose number no controller learnt, or lived to commit, is
\* found all the same, by the reconciliation that follows its end: a promise
\* the code does not keep, for the reconciliation may refuse or be cut short.
RunIsNamed ==
    \A r \in DOMAIN runs :
        /\ runs[r].reconcile \in {"over", "lost"}
        /\ \A c \in Controllers : ctl[c].run # r
        => NamedInStore(r)

\* What the reconcile workflow promises: a run that the Store turned away in
\* its first attempt, before any model worked, gets a second one when its
\* reconciliation finds it named, or names it.
DeniedRunResumes ==
    [][\A r \in DOMAIN runs :
           /\ runs[r].stage = "denied" /\ runs[r].attempt = 1
           /\ \/ ReadForReconcile(r) /\ Replayed(r)
              \/ CommitReconcile(r) /\ states' # states
           => runs'[r].attempt = 2]_vars
=============================================================================
