---------------------------- MODULE Conversation ----------------------------
(***************************************************************************)
(* The runtime behind an AI conversation surface (ConversationRuntime.ts):   *)
(* one list, one open conversation, the window of items held of it, and the *)
(* refresh that keeps the window up to date, over a provider that answers   *)
(* late and whose transcripts grow meanwhile.                               *)
(*                                                                         *)
(* The generations of the code tell a superseded answer from a wanted one.  *)
(* Here a request that is superseded is forgotten where its generation is   *)
(* moved on: its answer would change nothing.                               *)
(***************************************************************************)
EXTENDS Integers, Sequences, FiniteSets, SequencesExt

CONSTANTS
    None,          \* null
    Contexts,      \* [key, auth, source]: a conversation space, the authority it is
                   \* read under (requestKey) and its push source (sourceKey)
    Convs,         \* conversations
    Policies,      \* refresh policies of the provider
    PageSize,      \* items of a page
    MaxLength,     \* bound: items of a transcript
    MaxOps,        \* bound: calls of the surface
    MaxRefusals,   \* bound: requests that fail or are answered "not ready"
    Events         \* what may happen besides, see below

\* "burst"   a transcript grows by more than a page between two reads applied
\* "revoke"  the authority rotates, or the surface remounts, during an older page
\* "unread"  listing fails when the choice of an earlier visit is to be opened
\* "gap"     a transcript changes between the first read and the subscription
\* "lost"    a read that a push event asked for fails
\* "throws"  a push source refuses the subscription
AllEvents == {"burst", "revoke", "unread", "gap", "lost", "throws"}

Keys    == {context.key : context \in Contexts}
Auths   == {context.auth : context \in Contexts}
Sources == {context.source : context \in Contexts}
Names   == [key : Keys, conv : Convs]

\* A page of a transcript as it was read; what a request asks, and is told.
Pages    == [end : Nat, live : BOOLEAN]
Listings == [key : Keys, auth : Auths]
Reads    == [of : Names, auth : Auths, report : BOOLEAN, page : Pages \cup {None}]
Olders   == [of : Names, auth : Auths, before : Nat]
Targets  == [of : Names, source : Sources \cup {None}]

ASSUME ConversationAssumption ==
    /\ Policies \subseteq {"poll", "push", "manual"}
    /\ PageSize \in Nat \ {0}
    /\ {MaxLength, MaxOps, MaxRefusals} \subseteq Nat
    /\ Events \subseteq AllEvents
    /\ \A context \in Contexts : DOMAIN context = {"key", "auth", "source"}
    /\ None \notin Keys \cup Convs \cup Contexts \cup Nat \cup {"ready", "unavailable"}
    /\ None \notin Names \cup Listings \cup Pages \cup Reads \cup Olders \cup Targets

VARIABLES
    rt,         \* the ConversationRuntime, see Fresh
    total,      \* total[c]: items of the transcript
    live,       \* live[c]: the conversation has not ended
    signals,    \* push events on their way
    policy,     \* adapter.refresh.kind
    ops,        \* calls made so far
    refusals    \* requests refused so far

vars == <<rt, total, live, signals, policy, ops, refusals>>

EmptyList   == [state |-> None, binding |-> None, loading |-> TRUE, failed |-> FALSE]
EmptyThread == [state |-> None, activity |-> None, loading |-> TRUE,
                loadingOlder |-> FALSE, failed |-> FALSE]

\* `from` is kept for OnlyTheOpenPublishes: the conversations the items are of.
EmptyWindow == [items |-> <<>>, cursor |-> None, paged |-> FALSE, from |-> {}]

\* `slot` is newestInFlight: "free", held by the "read" in `newest`, or by one
\* "revoked" since.
Fresh ==
    [context |-> None, disposed |-> FALSE, chosen |-> None, loaded |-> None,
     list |-> EmptyList, thread |-> EmptyThread, window |-> EmptyWindow,
     listing |-> None, newest |-> None, older |-> None,
     slot |-> "free", pending |-> FALSE, armed |-> None]

----------------------------------------------------------------------------
(* The runtime: operators on the record `rt`.                               *)

Key(v) == IF v.context = None THEN None ELSE v.context.key

\* A conversation is named by its space and its id.
Of(v) == [key |-> Key(v), conv |-> v.loaded]

OpenId(v) ==
    IF v.chosen # None /\ v.chosen.key = Key(v) THEN v.chosen.conv ELSE v.list.binding

StopRefresh(v) == [v EXCEPT !.armed = None]

StartNewest(v, report) ==
    IF v.context = None \/ v.loaded = None THEN [v EXCEPT !.pending = FALSE]
    ELSE [v EXCEPT !.newest = [of |-> Of(v), auth |-> v.context.auth, report |-> report,
                               page |-> None],
                   !.slot = "read", !.pending = FALSE]

\* At most one read is out; what is asked meanwhile is one follow-up.
RequestNewest(v, report) ==
    IF v.slot = "free" THEN StartNewest(v, report) ELSE [v EXCEPT !.pending = TRUE]

Poll(v) == RequestNewest(v, FALSE)

\* The reader's own request takes the slot over.
ReloadNewest(v) == RequestNewest([v EXCEPT !.slot = "free", !.pending = FALSE], TRUE)

RefreshWanted(v) == v.thread.state = "ready" /\ v.thread.activity # "inactive"

\* Mutant: the follow-up outlives the refresh it was for.
SettleNewestKeepsPending(v) ==
    LET freed == [v EXCEPT !.slot = "free"]
    IN  IF v.pending /\ RefreshWanted(v) THEN StartNewest(freed, FALSE) ELSE freed

SettleNewest(v) ==
    LET freed == [v EXCEPT !.slot = "free"]
    IN  IF v.pending /\ RefreshWanted(v) THEN StartNewest(freed, FALSE)
        ELSE [freed EXCEPT !.pending = FALSE]

\* A push source may signal at once, or refuse.
StartRefresh(v, how) ==
    LET target == [of |-> Of(v), source |-> IF policy = "push" THEN v.context.source ELSE None]
        armed  == [v EXCEPT !.armed = target]
    IN  IF policy = "manual" \/ v.context = None \/ v.loaded = None THEN StopRefresh(v)
        ELSE IF v.armed = target THEN v
        ELSE IF policy = "poll" THEN armed
        ELSE IF how = "throws" THEN StopRefresh(v)
        ELSE IF how = "signals" \/ v.armed # None THEN Poll(armed)
        ELSE armed

SyncRefresh(v, how) == IF RefreshWanted(v) THEN StartRefresh(v, how) ELSE StopRefresh(v)

FetchList(v) == [v EXCEPT !.listing = [key |-> Key(v), auth |-> v.context.auth]]

\* Mutant: the page on its way for the conversation that is left is kept.
SyncThreadKeepsOlder(v) ==
    LET left == [v EXCEPT !.loaded = OpenId(v), !.newest = None, !.slot = "free",
                          !.pending = FALSE, !.window = EmptyWindow,
                          !.thread = EmptyThread, !.armed = None]
    IN  IF OpenId(v) = v.loaded THEN v
        ELSE IF OpenId(v) = None THEN left
        ELSE RequestNewest(left, TRUE)

\* Mutant: the first read queues behind the answer nobody wants.
SyncThreadQueues(v) ==
    LET left == [v EXCEPT !.loaded = OpenId(v), !.newest = None, !.older = None,
                          !.slot = IF @ = "read" THEN "revoked" ELSE @,
                          !.window = EmptyWindow, !.thread = EmptyThread, !.armed = None]
    IN  IF OpenId(v) = v.loaded THEN v
        ELSE IF OpenId(v) = None THEN left
        ELSE RequestNewest(left, TRUE)

SyncThread(v) ==
    LET left == [v EXCEPT !.loaded = OpenId(v), !.newest = None, !.older = None,
                          !.slot = "free", !.pending = FALSE, !.window = EmptyWindow,
                          !.thread = EmptyThread, !.armed = None]
    IN  IF OpenId(v) = v.loaded THEN v
        ELSE IF OpenId(v) = None THEN left
        ELSE RequestNewest(left, TRUE)

\* The same space again, remounted or under another authority: what is shown
\* stays, every request is made anew.
Revoke(v) ==
    LET revoked == [FetchList(v) EXCEPT !.newest = None, !.older = None,
                                        !.slot = "free", !.pending = FALSE]
    IN  IF v.loaded = None THEN revoked ELSE ReloadNewest(revoked)

\* Another space, or none.  The slot is not released.
Enter(v) ==
    LET left == [v EXCEPT !.newest = None, !.older = None, !.listing = None,
                          !.slot = IF @ = "read" THEN "revoked" ELSE @,
                          !.window = EmptyWindow, !.list = EmptyList,
                          !.thread = EmptyThread, !.loaded = None, !.armed = None]
    IN  IF v.context = None THEN left ELSE FetchList(left)

----------------------------------------------------------------------------
(* The window.  An item is its position in the transcript; the cursor of a    *)
(* page is the position of its first item, None at the start.               *)

Stretch(lo, hi) == [i \in 1..(hi + 1 - lo) |-> lo + i - 1]
PageStart(end) == IF end > PageSize THEN end + 1 - PageSize ELSE 1
Cursor(lo)     == IF lo = 1 THEN None ELSE lo
Held(w)        == {w.items[i] : i \in DOMAIN w.items}

NotIn(page, w) ==
    FoldLeft(LAMBDA kept, n : IF n \in Held(w) THEN kept ELSE Append(kept, n), <<>>, page)

WithNewest(w, of, lo, hi) ==
    [items |-> w.items \o NotIn(Stretch(lo, hi), w),
     cursor |-> IF w.paged THEN w.cursor ELSE Cursor(lo),
     paged |-> w.paged, from |-> w.from \cup {of}]

WithOlder(w, of, lo, hi) ==
    [items |-> NotIn(Stretch(lo, hi), w) \o w.items,
     cursor |-> Cursor(lo),
     paged |-> TRUE, from |-> w.from \cup {of}]

----------------------------------------------------------------------------
Init ==
    /\ rt = Fresh
    /\ total \in [Convs -> {0, PageSize + 1}]
    /\ live = [c \in Convs |-> TRUE]
    /\ signals = {}
    /\ policy \in Policies
    /\ ops = 0
    /\ refusals = 0

provider == <<total, live, policy>>
Hows     == {"quiet"} \cup (IF policy = "push" THEN {"signals"} \cup ({"throws"} \cap Events)
                           ELSE {})

(* The surface.                                                             *)

Call ==
    /\ ops < MaxOps
    /\ ops' = ops + 1
    /\ UNCHANGED <<provider, signals, refusals>>

SetContext(context, how) ==
    LET moved == [rt EXCEPT !.disposed = FALSE, !.context = context]
        again == context # None /\ context.key = Key(rt)
        anew  == rt.disposed \/ context.auth # rt.context.auth
    IN  /\ Call
        /\ again /\ rt.thread.loadingOlder => ~anew \/ "revoke" \in Events
        /\ rt' = IF ~again THEN Enter(moved)
                 ELSE SyncRefresh(IF anew THEN Revoke(moved) ELSE moved, how)

\* Mutant: "back to the binding" is stored as a choice.
SelectNothing(conv) ==
    /\ Call
    /\ ~rt.disposed /\ rt.context # None
    /\ rt' = SyncThread([rt EXCEPT !.chosen = [key |-> Key(rt), conv |-> conv]])

Select(conv) ==
    /\ Call
    /\ ~rt.disposed /\ rt.context # None
    /\ rt' = SyncThread([rt EXCEPT !.chosen =
                 IF conv = None THEN None ELSE [key |-> Key(rt), conv |-> conv]])

Reload ==
    /\ Call
    /\ ~rt.disposed /\ rt.context # None
    /\ rt' = ReloadNewest(FetchList(rt))

LoadOlder ==
    /\ Call
    /\ ~rt.disposed /\ rt.context # None /\ rt.window.cursor # None
    /\ ~rt.thread.loadingOlder
    /\ rt' = [rt EXCEPT !.older = [of |-> Of(rt), auth |-> rt.context.auth,
                                   before |-> rt.window.cursor],
                        !.thread.loadingOlder = TRUE]

Dispose ==
    /\ Call
    /\ ~rt.disposed
    /\ rt' = [StopRefresh(rt) EXCEPT !.disposed = TRUE, !.listing = None, !.newest = None,
                                     !.older = None, !.slot = "free", !.pending = FALSE]

----------------------------------------------------------------------------
(* Answers.                                                                 *)

Heard   == UNCHANGED <<provider, signals, ops>>
Granted == Heard /\ UNCHANGED refusals

\* A request that fails, and one that is answered "not ready".
Refused ==
    /\ refusals < MaxRefusals
    /\ refusals' = refusals + 1
    /\ Heard

ListReady(binding) ==
    /\ rt.listing # None
    /\ rt' = SyncThread([rt EXCEPT !.listing = None, !.list =
                 [state |-> "ready", binding |-> binding, loading |-> FALSE, failed |-> FALSE]])
    /\ Granted

\* The facts of the last list stay.
ListUnavailable ==
    /\ rt.listing # None
    /\ rt' = SyncThread([rt EXCEPT !.listing = None, !.list.state = "unavailable",
                                   !.list.loading = FALSE, !.list.failed = FALSE])
    /\ Refused

ListFails ==
    /\ rt.listing # None
    /\ OpenId(rt) # rt.loaded => "unread" \in Events
    /\ rt' = [rt EXCEPT !.listing = None, !.list.loading = FALSE, !.list.failed = TRUE]
    /\ Refused

\* The provider reads its tail.
ReadNewest ==
    /\ rt.newest # None /\ rt.newest.page = None
    /\ LET c == rt.newest.of.conv
       IN  rt' = [rt EXCEPT !.newest.page = [end |-> total[c], live |-> live[c]]]
    /\ Granted

\* applyNewest of a page, and settleNewest.
NewestReady(how) ==
    LET page  == rt.newest.page
        shown == [rt EXCEPT
                    !.newest = None,
                    !.window = WithNewest(@, rt.newest.of, PageStart(page.end), page.end),
                    !.thread = [@ EXCEPT !.state = "ready", !.loading = FALSE, !.failed = FALSE,
                                         !.activity = IF page.live THEN "active" ELSE "inactive"]]
    IN  /\ rt.newest # None /\ page # None
        /\ rt' = SettleNewest(SyncRefresh(shown, how))
        /\ Granted

\* Mutant: the refresh goes on.
NewestNotReadyPolls ==
    LET shown == [rt EXCEPT
                    !.newest = None,
                    !.thread = [@ EXCEPT !.state = "unavailable", !.loading = FALSE,
                                         !.failed = FALSE, !.activity = None]]
    IN  /\ rt.newest # None
        /\ rt' = SettleNewest(shown)
        /\ Refused

\* The conversation is gone, or cannot be read: there is nothing to refresh.
NewestNotReady ==
    LET shown == [rt EXCEPT
                    !.newest = None,
                    !.thread = [@ EXCEPT !.state = "unavailable", !.loading = FALSE,
                                         !.failed = FALSE, !.activity = None]]
    IN  /\ rt.newest # None
        /\ rt' = SettleNewest(StopRefresh(shown))
        /\ Refused

NewestFails ==
    LET told == IF rt.newest.report
                THEN [rt EXCEPT !.newest = None, !.thread.loading = FALSE, !.thread.failed = TRUE]
                ELSE [rt EXCEPT !.newest = None]
    IN  /\ rt.newest # None
        /\ policy = "push" /\ ~rt.newest.report => "lost" \in Events
        /\ rt' = SettleNewest(told)
        /\ Refused

\* The read that held the slot was revoked; it settles, and frees the slot.
SettleRevoked ==
    /\ rt.slot = "revoked"
    /\ rt' = SettleNewest(rt)
    /\ Granted

OlderReady ==
    LET end == rt.older.before - 1
    IN  /\ rt.older # None
        /\ rt' = [rt EXCEPT !.older = None, !.thread.loadingOlder = FALSE,
                            !.window = WithOlder(@, rt.older.of, PageStart(end), end)]
        /\ Granted

\* Mutant: an answer without a cursor is the end of history.
OlderRefusedEnds ==
    /\ rt.older # None
    /\ rt' = [rt EXCEPT !.older = None, !.thread.loadingOlder = FALSE, !.window.cursor = None]
    /\ Refused

\* Failed or not ready: the cursor stays, to try again.
OlderRefused ==
    /\ rt.older # None
    /\ rt' = [rt EXCEPT !.older = None, !.thread.loadingOlder = FALSE]
    /\ Refused

----------------------------------------------------------------------------
(* Refresh, and the provider's side.                                        *)

\* Mutant: a tick takes the slot over.
TickSupersedes ==
    /\ policy = "poll" /\ rt.armed # None
    /\ rt' = StartNewest(rt, FALSE)
    /\ Granted

Tick ==
    /\ policy = "poll" /\ rt.armed # None
    /\ rt' = Poll(rt)
    /\ Granted

\* An event of a source that was left is stale.
Signal(s) ==
    /\ s \in signals
    /\ signals' = signals \ {s}
    /\ rt' = IF rt.armed # None /\ s.of = Of(rt) /\ s.source = rt.armed.source
             THEN Poll(rt) ELSE rt
    /\ UNCHANGED <<provider, ops, refusals>>

Tell(c) ==
    signals' = IF policy = "push" /\ rt.armed # None /\ rt.armed.of.conv = c
               THEN signals \cup {rt.armed} ELSE signals

\* A transcript only grows at its end.
Grow(c) ==
    LET missed == rt.loaded = c /\ rt.newest # None /\ rt.newest.page # None /\ rt.armed = None
        known  == Held(rt.window) \cup
                      IF rt.newest # None /\ rt.newest.page # None THEN {rt.newest.page.end} ELSE {}
        burst  == rt.loaded = c /\ \E n \in known : total[c] = n + PageSize
                                               /\ \A m \in Held(rt.window) : m <= n
    IN  /\ live[c] /\ total[c] < MaxLength
        /\ policy = "push" /\ missed => "gap" \in Events
        /\ burst => "burst" \in Events
        /\ total' = [total EXCEPT ![c] = @ + 1]
        /\ Tell(c)
        /\ UNCHANGED <<rt, live, policy, ops, refusals>>

End(c) ==
    /\ live[c]
    /\ live' = [live EXCEPT ![c] = FALSE]
    /\ Tell(c)
    /\ UNCHANGED <<rt, total, policy, ops, refusals>>

Next ==
    \/ \E context \in Contexts \cup {None}, how \in Hows : SetContext(context, how)
    \/ \E conv \in Convs \cup {None} : Select(conv)
    \/ Reload \/ LoadOlder \/ Dispose
    \/ \E binding \in Convs \cup {None} : ListReady(binding)
    \/ ListUnavailable \/ ListFails
    \/ ReadNewest \/ NewestNotReady \/ NewestFails \/ SettleRevoked
    \/ \E how \in Hows : NewestReady(how)
    \/ OlderReady \/ OlderRefused
    \/ Tick
    \/ \E s \in signals : Signal(s)
    \/ \E c \in Convs : Grow(c) \/ End(c)

Spec == Init /\ [][Next]_vars

\* The provider answers what it was asked, the timer ticks, events arrive.  Each line
\* is WF with ENABLED spelled out: TLC is slow at ENABLED of the operators above.
Fairness ==
    /\ []<>(rt.newest = None \/ rt.newest.page # None) \/ []<><<ReadNewest>>_vars
    /\ []<>(rt.newest = None \/ rt.newest.page = None)
         \/ []<><<\E how \in Hows : NewestReady(how)>>_vars
    /\ []<>(policy # "poll" \/ rt.armed = None \/ (rt.slot # "free" /\ rt.pending))
         \/ []<><<Tick>>_vars
    /\ []<>(signals = {}) \/ []<><<\E s \in signals : Signal(s)>>_vars

FairSpec == Spec /\ Fairness

----------------------------------------------------------------------------
(* Properties.                                                              *)

Requests == {r \in {rt.newest, rt.older} : r # None}

TypeOK ==
    /\ rt.context \in Contexts \cup {None}
    /\ rt.disposed \in BOOLEAN
    /\ rt.chosen \in Names \cup {None}
    /\ rt.loaded \in Convs \cup {None}
    /\ rt.list.binding \in Convs \cup {None}
    /\ rt.window.items \in Seq(1..MaxLength + PageSize + 1)
    /\ rt.window.cursor \in 2..MaxLength + PageSize + 1 \cup {None}
    /\ rt.slot \in {"free", "read", "revoked"}
    /\ rt.listing \in Listings \cup {None}
    /\ rt.newest \in Reads \cup {None}
    /\ rt.older \in Olders \cup {None}
    /\ rt.armed \in Targets \cup {None}
    /\ total \in [Convs -> Nat]
    /\ signals \subseteq Targets

\* Whatever may still be published was asked of the conversation that is open,
\* under the authority of now; so was everything that is shown.
OnlyTheOpenPublishes ==
    /\ \A r \in Requests : r.of = Of(rt) /\ r.auth = rt.context.auth
    /\ rt.listing # None => /\ rt.listing.key = Key(rt)
                            /\ rt.listing.auth = rt.context.auth
    /\ rt.disposed => Requests = {} /\ rt.listing = None
    /\ rt.window.from \subseteq {Of(rt)}

\* The window is a stretch of the transcript, oldest first, without a hole.
OldestFirst ==
    \A i \in 1..Len(rt.window.items) - 1 : rt.window.items[i + 1] = rt.window.items[i] + 1

\* Everything before the window can still be asked for: history never ends before
\* its start, and the page before the cursor meets the window.
HistoryReachable ==
    rt.window.items # <<>> =>
        IF rt.window.cursor = None THEN rt.window.items[1] = 1
        ELSE rt.window.cursor \in Held(rt.window)

\* A follow-up waits for a read, and a read that is wanted holds the slot.
FollowUpHasARead ==
    /\ rt.pending => rt.slot # "free"
    /\ (rt.newest # None) = (rt.slot = "read")

\* The refresh watches the conversation that is open, from the source of now, and
\* only while it may grow; a poll never rests while it may.
RefreshWatchesTheOpen ==
    /\ rt.armed # None =>
          /\ ~rt.disposed /\ rt.context # None /\ RefreshWanted(rt)
          /\ rt.armed.of = Of(rt)
          /\ rt.armed.source \in {None, rt.context.source}
    /\ policy = "poll" /\ ~rt.disposed /\ RefreshWanted(rt) => rt.armed # None

\* Whatever says "loading" has an answer on its way.
SpinnersHaveReads ==
    ~rt.disposed /\ rt.context # None =>
        /\ rt.list.loading => rt.listing # None
        /\ OpenId(rt) # None /\ rt.thread.loading => rt.newest # None \/ rt.listing # None
        /\ rt.thread.loadingOlder => rt.older # None

\* What the reader sees of a conversation stays while it is open.
Kept ==
    [][Of(rt)' = Of(rt) /\ rt.loaded # None => Held(rt.window) \subseteq Held(rt.window)']_vars

Watched(c) ==
    /\ rt.loaded = c /\ rt.thread.state = "ready"
    /\ rt.armed # None \/ rt.thread.activity = "inactive"

\* A conversation that stays watched ends up shown to its last item, or the failure
\* of the reader's own request is.
CatchesUp ==
    \A c \in Convs :
        <>[]Watched(c) =>
            <>[](rt.thread.failed \/ total[c] = 0 \/ total[c] \in Held(rt.window))
=============================================================================
