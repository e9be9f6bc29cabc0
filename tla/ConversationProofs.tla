-------------------------- MODULE ConversationProofs --------------------------
(***************************************************************************)
(* What holds of Conversation for every set of contexts and conversations, *)
(* every page size and every bound, whatever the provider answers.          *)
(***************************************************************************)
EXTENDS Conversation, TLAPS, SequenceTheorems, WellFoundedInduction

Fields == {"context", "disposed", "chosen", "loaded", "list", "thread", "window", "listing",
           "newest", "older", "slot", "pending", "armed"}

\* The records and their fields.
Shape(v) ==
    /\ v = [f \in Fields |-> v[f]]
    /\ v.list = [f \in {"state", "binding", "loading", "failed"} |-> v.list[f]]
    /\ v.thread = [f \in {"state", "activity", "loading", "loadingOlder", "failed"}
                      |-> v.thread[f]]

Types(v) ==
    /\ v.context \in Contexts \cup {None} /\ v.disposed \in BOOLEAN
    /\ v.chosen \in Names \cup {None} /\ v.loaded \in Convs \cup {None}
    /\ v.list.binding \in Convs \cup {None}
    /\ v.window.cursor \in Nat \cup {None}
    /\ v.listing \in Listings \cup {None}
    /\ v.newest \in Reads \cup {None} /\ v.older \in Olders \cup {None}
    /\ v.slot \in {"free", "read", "revoked"} /\ v.pending \in BOOLEAN

\* Nothing is open without a space, and nothing is asked for or shown without
\* an open conversation.
Closed(v) ==
    /\ v.context = None => v.loaded = None /\ v.listing = None
    /\ v.loaded = None =>
          /\ v.newest = None /\ v.older = None /\ v.armed = None
          /\ v.window = EmptyWindow /\ v.thread = EmptyThread

\* What was asked for was asked of the open conversation, and so was what is shown.
Asked(v) ==
    /\ \A r \in {v.newest, v.older} : r # None => r.of = Of(v) /\ r.auth = v.context.auth
    /\ v.listing # None => v.listing.key = Key(v) /\ v.listing.auth = v.context.auth
    /\ v.disposed => v.newest = None /\ v.older = None /\ v.listing = None /\ v.slot = "free"
    /\ v.window.from \subseteq {Of(v)}

Slots(v) ==
    /\ v.pending => v.slot # "free"
    /\ (v.newest # None) = (v.slot = "read")

Watching(v) ==
    /\ v.armed # None =>
          /\ ~v.disposed /\ v.context # None /\ RefreshWanted(v)
          /\ v.armed.of = Of(v)
          /\ v.armed.source \in {None, v.context.source}
    /\ policy = "poll" /\ ~v.disposed /\ RefreshWanted(v) => v.armed # None

\* Whatever waits for an answer has one on its way: the list, the choice of an
\* earlier visit, the first page, the page before.
ListOwed(v)   == ~v.disposed /\ v.context # None /\ v.list.loading => v.listing # None
ChoiceOwed(v) == ~v.disposed /\ v.context # None /\ OpenId(v) \notin {None, v.loaded}
                     => v.listing # None
PageOwed(v)   == ~v.disposed /\ v.loaded # None /\ v.thread.loading
                     => v.newest # None /\ v.newest.report
OlderOwed(v)  == ~v.disposed /\ v.thread.loadingOlder => v.older # None

Owed(v) == ListOwed(v) /\ ChoiceOwed(v) /\ PageOwed(v) /\ OlderOwed(v)

Good(v) == Shape(v) /\ Types(v) /\ Closed(v) /\ Asked(v)

Quiet == {"revoke", "unread"} \cap Events = {}

Sound(v) == Good(v) /\ Slots(v) /\ Watching(v) /\ (Quiet => Owed(v))

\* The inductive invariant.
IInv ==
    /\ total \in [Convs -> Nat] /\ live \in [Convs -> BOOLEAN]
    /\ Sound(rt)
-----------------------------------------------------------------------------
(* The operators.                                                          *)

\* The slot, the read and the follow-up apart, v and u are the same runtime.
Still(u, v) ==
    /\ Shape(u)
    /\ u.context = v.context /\ u.disposed = v.disposed /\ u.chosen = v.chosen
    /\ u.loaded = v.loaded /\ u.list = v.list /\ u.thread = v.thread /\ u.window = v.window
    /\ u.listing = v.listing /\ u.older = v.older

\* No page of the newest items is there to be applied.
NoPage(v) == v.newest = None \/ v.newest.page = None

\* u shows what v does and has no more on its way.
Same(u, v) ==
    /\ u.loaded = v.loaded /\ u.window = v.window /\ u.older \in {v.older, None}
    /\ u.newest = v.newest \/ NoPage(u)
    /\ u.armed \in {v.armed, None} \cup Targets

\* u has left what is open in v, and shows nothing.
Left(u, v) ==
    /\ u.loaded = None \/ u.loaded # v.loaded
    /\ u.window = EmptyWindow /\ u.older = None /\ NoPage(u) /\ u.armed = None

Follows(u, v) == Same(u, v) \/ Left(u, v)

\* u has a read of its own.
Begun(u, v, report) ==
    /\ u.newest = [of |-> Of(v), auth |-> v.context.auth, report |-> report, page |-> None]
    /\ u.newest \in Reads /\ u.newest # None
    /\ u.slot = "read" /\ u.pending = FALSE

\* A read is started for what is open, if anything is.
LEMMA StartNewestGives ==
    ASSUME NEW v, Shape(v), Types(v), NEW report \in BOOLEAN
    PROVE  LET u == StartNewest(v, report)
           IN  /\ Still(u, v) /\ u.armed = v.armed
               /\ IF v.context = None \/ v.loaded = None
                  THEN u.newest = v.newest /\ u.slot = v.slot /\ u.pending = FALSE
                  ELSE Begun(u, v, report)
<1>1. CASE v.context = None \/ v.loaded = None
  BY <1>1 DEF StartNewest, Still, Shape, Fields
<1>2. CASE v.context # None /\ v.loaded # None
  <2> DEFINE r == [of |-> Of(v), auth |-> v.context.auth, report |-> report, page |-> None]
  <2>1. r \in Reads /\ r # None
    BY <1>2, ConversationAssumption DEF Reads, Names, Keys, Auths, Of, Key, Types
  <2>2. StartNewest(v, report) = [v EXCEPT !.newest = r, !.slot = "read", !.pending = FALSE]
    BY <1>2 DEF StartNewest
  <2> HIDE DEF r
  <2>3. LET u == StartNewest(v, report)
        IN  /\ Still(u, v) /\ u.armed = v.armed
            /\ u.newest = r /\ u.slot = "read" /\ u.pending = FALSE
    BY <2>2 DEF Still, Shape, Fields
  <2> QED
    BY <1>2, <2>1, <2>3 DEF Begun, r
<1> QED
  BY <1>1, <1>2

\* What RequestNewest does: one read, or one follow-up of it.
Requested(u, v, report) ==
    /\ Still(u, v)
    /\ v.slot # "free" => u.newest = v.newest /\ u.slot = v.slot /\ u.pending = TRUE
    /\ v.slot = "free" /\ v.loaded = None =>
           u.newest = v.newest /\ u.slot = v.slot /\ u.pending = FALSE
    /\ v.slot = "free" /\ v.loaded # None => Begun(u, v, report)

\* A request starts a read or asks for a follow-up.
LEMMA RequestNewestGives ==
    ASSUME NEW v, Good(v), NEW report \in BOOLEAN
    PROVE  LET u == RequestNewest(v, report)
           IN  Requested(u, v, report) /\ u.armed = v.armed
<1>1. CASE v.slot = "free"
  <2>1. (v.context = None \/ v.loaded = None) <=> v.loaded = None
    BY DEF Good, Closed
  <2> QED
    BY <1>1, <2>1, StartNewestGives DEF RequestNewest, Requested, Good
<1>2. CASE v.slot # "free"
  BY <1>2 DEF RequestNewest, Requested, Still, Good, Shape, Fields
<1> QED
  BY <1>1, <1>2

\* What the fields a request leaves alone say of the others.
LEMMA StillKeeps ==
    ASSUME NEW v, NEW u, Still(u, v)
    PROVE  /\ Key(u) = Key(v) /\ Of(u) = Of(v) /\ OpenId(u) = OpenId(v)
           /\ RefreshWanted(u) = RefreshWanted(v)
           /\ ListOwed(v) => ListOwed(u)
           /\ ChoiceOwed(v) => ChoiceOwed(u)
           /\ OlderOwed(v) => OlderOwed(u)
<1>1. Key(u) = Key(v) /\ Of(u) = Of(v) /\ OpenId(u) = OpenId(v)
  BY DEF Still, Key, Of, OpenId
<1> QED
  BY <1>1 DEF Still, RefreshWanted, ListOwed, ChoiceOwed, OlderOwed

\* What is refreshed is open.
LEMMA WantedIsOpen ==
    ASSUME NEW v, Good(v), RefreshWanted(v)
    PROVE  v.loaded # None /\ v.context # None
  BY ConversationAssumption DEF Good, Closed, RefreshWanted, EmptyThread

\* Moving the read, the slot or the follow-up keeps what is good.
LEMMA StillGood ==
    ASSUME NEW v, NEW u, NEW report \in BOOLEAN,
           Good(v), ~v.disposed, Still(u, v),
           v.loaded = None => u.armed = None,
           u.pending \in BOOLEAN,
           \/ u.newest = v.newest /\ u.slot \in {"free", "read", "revoked"}
           \/ v.loaded # None /\ Begun(u, v, report)
    PROVE  Good(u)
<1> USE StillKeeps
<1>1. Shape(u)
  BY DEF Still
<1>2. Types(u)
  BY DEF Types, Good, Still, Begun
<1>3. Closed(u)
  BY DEF Closed, Good, Still
<1>4. Asked(u)
  BY DEF Asked, Good, Still, Begun
<1> QED
  BY <1>1, <1>2, <1>3, <1>4 DEF Good

\* Such a request keeps everything that was so.
LEMMA Asking ==
    ASSUME NEW v, NEW u, NEW report \in BOOLEAN,
           Good(v), ~v.disposed, Requested(u, v, report),
           v.loaded = None => u.armed = None
    PROVE  /\ Good(u)
           /\ Slots(v) => Slots(u)
           /\ u.armed = v.armed /\ Watching(v) => Watching(u)
           /\ (v.slot = "free" => v.newest = None) /\ PageOwed(v) => PageOwed(u)
<1>1. Still(u, v)
  BY DEF Requested
<1>2. Good(u)
  <2>1. CASE v.slot = "free" /\ v.loaded # None
    BY <1>1, <2>1, StillGood DEF Requested, Begun
  <2>2. CASE v.slot # "free" \/ v.loaded = None
    BY <1>1, <2>2, StillGood DEF Requested, Good, Types
  <2> QED
    BY <2>1, <2>2
<1>3. Slots(v) => Slots(u)
  BY DEF Requested, Begun, Slots, Good, Types
<1>4. u.armed = v.armed /\ Watching(v) => Watching(u)
  BY <1>1, StillKeeps DEF Watching, Still
<1>5. (v.slot = "free" => v.newest = None) /\ PageOwed(v) => PageOwed(u)
  BY <1>1 DEF PageOwed, Requested, Still, Begun
<1> QED
  BY <1>2, <1>3, <1>4, <1>5

\* Reload: the reader's request takes the slot.
LEMMA ReloadNewestGives ==
    ASSUME NEW v, Good(v), ~v.disposed
    PROVE  LET u == ReloadNewest(v)
           IN  /\ Good(u) /\ Slots(u) /\ Still(u, v) /\ Same(u, v)
               /\ Watching(v) => Watching(u)
               /\ PageOwed(u)
<1> DEFINE w == [v EXCEPT !.slot = "free", !.pending = FALSE]
           u == RequestNewest(w, TRUE)
<1>0. Shape(v)
  BY DEF Good
<1>1. /\ Still(w, v) /\ w.newest = v.newest /\ w.armed = v.armed
      /\ w.slot = "free" /\ w.pending = FALSE
  BY ONLY <1>0 DEF Shape, Fields, Still
<1> HIDE DEF w
<1>2. Good(w)
  BY <1>1, StillGood DEF Good, Closed
<1>3. Requested(u, w, TRUE) /\ u.armed = w.armed
  BY <1>2, RequestNewestGives
<1> HIDE DEF u
<1>4. Good(u)
  <2>1. ~w.disposed /\ (w.loaded = None => u.armed = None)
    BY <1>1, <1>2, <1>3 DEF Good, Closed, Still
  <2> QED
    BY <1>2, <1>3, <2>1, Asking
<1>5. Still(u, v)
  BY <1>1, <1>3 DEF Requested, Still
<1>6. Slots(u)
  BY <1>1, <1>2, <1>3 DEF Requested, Begun, Slots, Good, Closed
<1>7. Watching(v) => Watching(u)
  BY <1>1, <1>3, <1>5, StillKeeps DEF Watching, Still
<1>8. PageOwed(u)
  BY <1>1, <1>3, <1>5 DEF Requested, Begun, PageOwed, Still
<1>9. Same(u, v)
  BY <1>1, <1>3, <1>5 DEF Requested, Begun, Same, NoPage, Still
<1> QED
  BY <1>4, <1>5, <1>6, <1>7, <1>8, <1>9 DEF ReloadNewest, u, w

\* The read is over: the slot is free, or of the follow-up.
LEMMA SettleNewestGives ==
    ASSUME NEW v, Good(v), v.newest = None, v.slot # "free"
    PROVE  LET u == SettleNewest(v)
           IN  /\ Good(u) /\ Slots(u) /\ Still(u, v) /\ Same(u, v)
               /\ Watching(v) => Watching(u)
               /\ PageOwed(v) => PageOwed(u)
<1> DEFINE w == [v EXCEPT !.slot = "free"]
           u == SettleNewest(v)
<1>0. ~v.disposed /\ Shape(v) /\ v.newest = None
  BY DEF Good, Asked
<1>1. /\ Still(w, v) /\ w.newest = None /\ w.armed = v.armed
      /\ w.slot = "free" /\ w.pending = v.pending
  BY ONLY <1>0 DEF Shape, Fields, Still
<1>2. LET x == [w EXCEPT !.pending = FALSE]
      IN  /\ Still(x, v) /\ x.newest = None /\ x.armed = v.armed
          /\ x.slot = "free" /\ x.pending = FALSE
  <2> HIDE DEF w
  <2> QED
    BY ONLY <1>1 DEF Still, Shape, Fields
<1>3. Good(w)
  BY <1>0, <1>1, StillGood DEF Good, Closed, Types
<1>4. CASE v.pending /\ RefreshWanted(v)
  <2>1. u = StartNewest(w, FALSE)
    BY <1>4 DEF SettleNewest
  <2> HIDE DEF u, w
  <2>2. v.loaded # None /\ v.context # None
    BY <1>4, WantedIsOpen
  <2>3. Still(u, w) /\ u.armed = w.armed /\ Begun(u, w, FALSE)
    BY <1>1, <1>3, <2>1, <2>2, StartNewestGives DEF Good, Still
  <2>4. Good(u)
    BY <1>0, <1>1, <1>3, <2>2, <2>3, StillGood DEF Still, Begun
  <2>5. Still(u, v) /\ u.armed = v.armed
    BY <1>1, <2>3 DEF Still
  <2>6. Slots(u)
    BY <2>3 DEF Slots, Begun
  <2>7. Watching(v) => Watching(u)
    BY <2>5, StillKeeps DEF Watching, Still
  <2>8. PageOwed(v) => PageOwed(u)
    BY <2>5 DEF PageOwed, Still
  <2>9. Same(u, v)
    BY <2>3, <2>5 DEF Same, Still, NoPage, Begun
  <2> QED
    BY <2>4, <2>5, <2>6, <2>7, <2>8, <2>9 DEF u
<1>5. CASE ~(v.pending /\ RefreshWanted(v))
  <2>1. u = [w EXCEPT !.pending = FALSE]
    BY <1>5 DEF SettleNewest
  <2> HIDE DEF u, w
  <2>2. Still(u, v) /\ u.newest = None /\ u.armed = v.armed /\ u.slot = "free"
        /\ u.pending = FALSE
    BY <1>2, <2>1
  <2>3. Good(u)
    BY <1>0, <2>2, StillGood DEF Good, Closed
  <2>4. Slots(u)
    BY <2>2 DEF Slots
  <2>5. Watching(v) => Watching(u)
    BY <2>2, StillKeeps DEF Watching, Still
  <2>6. PageOwed(v) => PageOwed(u)
    BY <2>2 DEF PageOwed, Still
  <2>7. Same(u, v)
    BY <2>2 DEF Same, Still, NoPage
  <2> QED
    BY <2>2, <2>3, <2>4, <2>5, <2>6, <2>7 DEF u
<1> QED
  BY <1>4, <1>5

\* A changed watch, and nothing else.
LEMMA ArmedGives ==
    ASSUME NEW v, Good(v), ~v.disposed, NEW a, v.loaded = None => a = None
    PROVE  LET u == [v EXCEPT !.armed = a]
           IN  /\ Still(u, v) /\ Good(u) /\ u.armed = a
               /\ u.newest = v.newest /\ u.slot = v.slot /\ u.pending = v.pending
<1> DEFINE u == [v EXCEPT !.armed = a]
<1>0. Shape(v)
  BY DEF Good
<1>1. /\ Still(u, v) /\ u.armed = a
      /\ u.newest = v.newest /\ u.slot = v.slot /\ u.pending = v.pending
  BY ONLY <1>0 DEF Shape, Fields, Still
<1> HIDE DEF u
<1>2. Good(u)
  BY <1>1, StillGood DEF Good, Types
<1> QED
  BY <1>1, <1>2 DEF u

\* What StartRefresh is about to watch.
Target(v) == [of |-> Of(v), source |-> IF policy = "push" THEN v.context.source ELSE None]

\* A target is no null.
LEMMA TargetIsSome ==
    ASSUME NEW v, Good(v), v.loaded # None
    PROVE  Target(v) \in Targets /\ Target(v) # None
<1>1. v.context # None
  BY DEF Good, Closed
<1>2. Target(v) \in Targets
  BY <1>1 DEF Target, Targets, Names, Keys, Sources, Of, Key, Good, Types
<1> QED
  BY <1>2, ConversationAssumption

\* The refresh is made to watch what is open, or nothing.
LEMMA SyncRefreshGives ==
    ASSUME NEW v, Good(v), ~v.disposed, NEW how
    PROVE  LET u == SyncRefresh(v, how)
           IN  /\ Good(u) /\ Still(u, v) /\ Same(u, v)
               /\ Slots(v) => Slots(u)
               /\ Watching(u)
               /\ (v.slot = "free" => v.newest = None) /\ PageOwed(v) => PageOwed(u)
               /\ v.slot # "free" => u.newest = v.newest /\ u.slot = v.slot
<1> DEFINE stopped == [v EXCEPT !.armed = None]
           armed == [v EXCEPT !.armed = Target(v)]
           u == SyncRefresh(v, how)
<1>1. /\ Still(stopped, v) /\ Good(stopped) /\ stopped.armed = None
      /\ stopped.newest = v.newest /\ stopped.slot = v.slot /\ stopped.pending = v.pending
  BY ArmedGives
<1>2. v.loaded # None =>
      /\ Still(armed, v) /\ Good(armed) /\ armed.armed = Target(v)
      /\ Target(v) \in Targets /\ Target(v) # None
      /\ armed.newest = v.newest /\ armed.slot = v.slot /\ armed.pending = v.pending
  BY ArmedGives, TargetIsSome
<1>3. v.loaded # None =>
        /\ Requested(Poll(armed), armed, FALSE)
        /\ Poll(armed).armed = Target(v)
  BY <1>2, RequestNewestGives DEF Poll
<1>4. \/ u = stopped /\ (RefreshWanted(v) => policy # "poll")
      \/ RefreshWanted(v) /\ v.armed = Target(v) /\ u = v
      \/ RefreshWanted(v) /\ u = armed
      \/ RefreshWanted(v) /\ u = Poll(armed)
  BY WantedIsOpen DEF SyncRefresh, StartRefresh, StopRefresh, Target
<1> HIDE DEF stopped, armed, u
<1>5. CASE u = stopped /\ (RefreshWanted(v) => policy # "poll")
  <2>1. Watching(u)
    BY <1>1, <1>5, StillKeeps DEF Watching
  <2>2. Slots(v) => Slots(u)
    BY <1>1, <1>5 DEF Slots
  <2>3. (v.slot = "free" => v.newest = None) /\ PageOwed(v) => PageOwed(u)
    BY <1>1, <1>5 DEF PageOwed, Still
  <2>4. Same(u, v)
    BY <1>1, <1>5 DEF Same, Still
  <2> QED
    BY <1>1, <1>5, <2>1, <2>2, <2>3, <2>4 DEF u
<1>6. CASE RefreshWanted(v) /\ v.armed = Target(v) /\ u = v
  <2>1. v.loaded # None /\ v.context # None
    BY <1>6, WantedIsOpen
  <2>2. Watching(u)
    BY <1>2, <1>6, <2>1 DEF Watching, Target
  <2>3. Same(u, v)
    BY <1>6 DEF Same
  <2> QED
    BY <1>6, <2>2, <2>3 DEF u, Still, Good
<1>7. CASE RefreshWanted(v) /\ u = armed
  <2>1. v.loaded # None /\ v.context # None
    BY <1>7, WantedIsOpen
  <2>2. Watching(u)
    BY <1>2, <1>7, <2>1, StillKeeps DEF Watching, Target, Still
  <2>3. Slots(v) => Slots(u)
    BY <1>2, <1>7, <2>1 DEF Slots
  <2>4. (v.slot = "free" => v.newest = None) /\ PageOwed(v) => PageOwed(u)
    BY <1>2, <1>7, <2>1 DEF PageOwed, Still
  <2>5. Same(u, v)
    BY <1>2, <1>7, <2>1 DEF Same, Still
  <2> QED
    BY <1>2, <1>7, <2>1, <2>2, <2>3, <2>4, <2>5 DEF u
<1>8. CASE RefreshWanted(v) /\ u = Poll(armed)
  <2>1. v.loaded # None /\ v.context # None
    BY <1>8, WantedIsOpen
  <2>2. ~armed.disposed /\ Good(armed) /\ armed.loaded = v.loaded
    BY <1>2, <2>1 DEF Still
  <2>3. Good(u) /\ (Slots(armed) => Slots(u))
        /\ ((armed.slot = "free" => armed.newest = None) /\ PageOwed(armed) => PageOwed(u))
    BY <1>3, <1>8, <2>1, <2>2, Asking
  <2>4. Still(u, v) /\ u.armed = Target(v)
    BY <1>2, <1>3, <1>8, <2>1 DEF Requested, Still
  <2>5. Watching(u)
    BY <1>2, <1>8, <2>1, <2>4, StillKeeps DEF Watching, Target, Still
  <2>6. Slots(v) => Slots(u)
    BY <1>2, <2>1, <2>3 DEF Slots
  <2>7. (v.slot = "free" => v.newest = None) /\ PageOwed(v) => PageOwed(u)
    BY <1>2, <2>1, <2>3 DEF PageOwed, Still
  <2>8. v.slot # "free" => u.newest = v.newest /\ u.slot = v.slot
    BY <1>2, <1>3, <1>8, <2>1 DEF Requested
  <2>9. Same(u, v)
    BY <1>2, <1>3, <1>8, <2>1, <2>4 DEF Requested, Begun, Same, NoPage, Still
  <2> QED
    BY <2>3, <2>4, <2>5, <2>6, <2>7, <2>8, <2>9 DEF u
<1> QED
  BY <1>4, <1>5, <1>6, <1>7, <1>8

\* What is to be open is a conversation.
LEMMA OpenIdIsConv ==
    ASSUME NEW v, Types(v), v.context # None
    PROVE  OpenId(v) \in Convs \cup {None}
  BY ConversationAssumption DEF Types, OpenId, Key, Names

\* Another conversation is opened: nothing asked for the last one is left.
LEMMA SyncThreadGives ==
    ASSUME NEW v, Good(v), ~v.disposed, v.context # None
    PROVE  LET u == SyncThread(v)
           IN  /\ Good(u) /\ (Same(u, v) \/ Left(u, v))
               /\ Slots(v) => Slots(u)
               /\ Watching(v) => Watching(u)
               /\ ListOwed(v) /\ PageOwed(v) /\ OlderOwed(v) => Owed(u)
<1> DEFINE left == [v EXCEPT !.loaded = OpenId(v), !.newest = None, !.older = None,
                             !.slot = "free", !.pending = FALSE, !.window = EmptyWindow,
                             !.thread = EmptyThread, !.armed = None]
           u == SyncThread(v)
<1>0. Shape(v)
  BY DEF Good
<1>1. /\ Shape(left) /\ left.context = v.context /\ left.disposed = v.disposed
      /\ left.chosen = v.chosen /\ left.list = v.list /\ left.listing = v.listing
      /\ left.loaded = OpenId(v) /\ left.newest = None /\ left.older = None
      /\ left.slot = "free" /\ left.pending = FALSE /\ left.window = EmptyWindow
      /\ left.thread = EmptyThread /\ left.armed = None
  <2> DEFINE o == OpenId(v)
             w == [v EXCEPT !.loaded = o, !.newest = None, !.older = None, !.slot = "free"]
             x == [w EXCEPT !.pending = FALSE, !.window = EmptyWindow,
                            !.thread = EmptyThread, !.armed = None]
  <2>1. left = x
    OBVIOUS
  <2> HIDE DEF o, left
  <2>2. /\ Shape(w) /\ w.context = v.context /\ w.disposed = v.disposed
        /\ w.chosen = v.chosen /\ w.list = v.list /\ w.listing = v.listing
        /\ w.loaded = o /\ w.newest = None /\ w.older = None /\ w.slot = "free"
    BY <1>0 DEF Shape, Fields
  <2> HIDE DEF w
  <2>3. /\ Shape(x) /\ x.context = w.context /\ x.disposed = w.disposed
        /\ x.chosen = w.chosen /\ x.list = w.list /\ x.listing = w.listing
        /\ x.loaded = w.loaded /\ x.newest = w.newest /\ x.older = w.older
        /\ x.slot = w.slot /\ x.pending = FALSE /\ x.window = EmptyWindow
        /\ x.thread = EmptyThread /\ x.armed = None
    BY <2>2 DEF Shape, Fields, EmptyThread
  <2> HIDE DEF x
  <2> QED
    BY <2>1, <2>2, <2>3 DEF o
<1>2. \/ OpenId(v) = v.loaded /\ u = v
      \/ OpenId(v) # v.loaded /\ OpenId(v) = None /\ u = left
      \/ OpenId(v) \notin {None, v.loaded} /\ u = RequestNewest(left, TRUE)
  BY DEF SyncThread
<1> HIDE DEF left, u
<1>3. OpenId(v) \in Convs \cup {None}
  BY OpenIdIsConv DEF Good
<1>4. Good(left)
  <2>1. Types(v) /\ Closed(v) /\ Asked(v)
    BY DEF Good
  <2>2. Types(left)
    <3>1. left.loaded \in Convs \cup {None} /\ left.window.cursor = None
      BY <1>1, <1>3 DEF EmptyWindow
    <3> QED
      BY <1>1, <2>1, <3>1 DEF Types
  <2>3. Closed(left)
    BY <1>1, <2>1 DEF Closed
  <2>4. Asked(left)
    BY <1>1, <2>1 DEF Asked, Key, EmptyWindow
  <2> QED
    BY <1>1, <2>2, <2>3, <2>4 DEF Good
<1>5. Slots(left) /\ Watching(left)
  BY <1>1, ConversationAssumption DEF Slots, Watching, RefreshWanted, EmptyThread
<1>6. OpenId(left) = OpenId(v)
  BY <1>1 DEF OpenId, Key
<1>7. (ListOwed(v) => ListOwed(left)) /\ ChoiceOwed(left) /\ OlderOwed(left)
  BY <1>1, <1>6 DEF ListOwed, ChoiceOwed, OlderOwed, EmptyThread
<1>8. CASE OpenId(v) = v.loaded /\ u = v
  <2>1. ChoiceOwed(v)
    BY <1>8 DEF ChoiceOwed
  <2>2. Same(u, v)
    BY <1>8 DEF Same
  <2> QED
    BY <1>8, <2>1, <2>2 DEF u, Owed
<1>9. CASE OpenId(v) # v.loaded /\ OpenId(v) = None /\ u = left
  <2>1. PageOwed(left)
    BY <1>1, <1>9 DEF PageOwed
  <2>2. Left(u, v)
    BY <1>1, <1>9 DEF Left, NoPage
  <2> QED
    BY <1>4, <1>5, <1>7, <1>9, <2>1, <2>2 DEF u, Owed
<1>10. CASE OpenId(v) \notin {None, v.loaded} /\ u = RequestNewest(left, TRUE)
  <2>1. Requested(u, left, TRUE) /\ u.armed = left.armed
    BY <1>4, <1>10, RequestNewestGives
  <2>2. ~left.disposed /\ (left.loaded = None => u.armed = None)
    BY <1>1, <2>1
  <2>3. Good(u) /\ (Slots(left) => Slots(u))
        /\ (u.armed = left.armed /\ Watching(left) => Watching(u))
    <3> HIDE <1>10
    <3> QED
      BY <1>4, <2>1, <2>2, Asking
  <2>4. PageOwed(u)
    <3>1. Begun(u, left, TRUE)
      BY <1>1, <1>10, <2>1 DEF Requested
    <3> QED
      BY <3>1 DEF Begun, PageOwed
  <2>5. (ListOwed(left) => ListOwed(u)) /\ ChoiceOwed(u) /\ OlderOwed(u)
    BY <1>7, <2>1, StillKeeps DEF Requested
  <2>6. Left(u, v)
    <3>1. /\ u.loaded = OpenId(v) /\ u.loaded # v.loaded
          /\ u.window = EmptyWindow /\ u.older = None /\ u.armed = None
      BY <1>1, <1>10, <2>1 DEF Requested, Still
    <3>2. NoPage(u)
      BY <1>1, <2>1 DEF Requested, Begun, NoPage
    <3> QED
      BY <3>1, <3>2 DEF Left
  <2> QED
    BY <1>5, <1>7, <2>1, <2>3, <2>4, <2>5, <2>6 DEF u, Owed
<1> QED
  BY <1>2, <1>8, <1>9, <1>10

\* The list is asked for.
LEMMA FetchListGives ==
    ASSUME NEW v, Shape(v), v.context \in Contexts
    PROVE  LET u == FetchList(v)
           IN  /\ Shape(u) /\ u.context = v.context /\ u.disposed = v.disposed
               /\ u.chosen = v.chosen /\ u.loaded = v.loaded /\ u.list = v.list
               /\ u.thread = v.thread /\ u.window = v.window
               /\ u.newest = v.newest /\ u.older = v.older /\ u.slot = v.slot
               /\ u.pending = v.pending /\ u.armed = v.armed
               /\ u.listing \in Listings /\ u.listing # None
               /\ u.listing.key = Key(v) /\ u.listing.auth = v.context.auth
<1> DEFINE l == [key |-> Key(v), auth |-> v.context.auth]
<1>1. l \in Listings /\ l # None /\ l.key = Key(v) /\ l.auth = v.context.auth
  BY ConversationAssumption DEF Listings, Key, Keys, Auths
<1>2. FetchList(v) = [v EXCEPT !.listing = l]
  BY DEF FetchList
<1> HIDE DEF l
<1> QED
  BY <1>1, <1>2 DEF Shape, Fields

\* Another authority: every request is made anew.
LEMMA RevokeGives ==
    ASSUME NEW v, Shape(v), Types(v), Closed(v), ~v.disposed, v.context # None,
           v.window.from \subseteq {Of(v)}
    PROVE  LET u == Revoke(v)
           IN  /\ Good(u) /\ ~u.disposed /\ Slots(u) /\ Same(u, v)
               /\ ~v.thread.loadingOlder => Owed(u)
<1> DEFINE f == FetchList(v)
           w == [f EXCEPT !.newest = None, !.older = None, !.slot = "free", !.pending = FALSE]
           u == Revoke(v)
<1>1. v.context \in Contexts
  BY DEF Types
<1>2. /\ Shape(f) /\ f.context = v.context /\ f.disposed = v.disposed
      /\ f.chosen = v.chosen /\ f.loaded = v.loaded /\ f.list = v.list
      /\ f.thread = v.thread /\ f.window = v.window /\ f.armed = v.armed
      /\ f.listing \in Listings /\ f.listing # None
      /\ f.listing.key = Key(v) /\ f.listing.auth = v.context.auth
  BY <1>1, FetchListGives
<1>3. u = IF v.loaded = None THEN w ELSE ReloadNewest(w)
  BY DEF Revoke
<1> HIDE DEF f, u
<1>4. /\ Shape(w) /\ w.context = f.context /\ w.disposed = f.disposed
      /\ w.chosen = f.chosen /\ w.loaded = f.loaded /\ w.list = f.list
      /\ w.thread = f.thread /\ w.window = f.window /\ w.armed = f.armed
      /\ w.listing = f.listing /\ w.newest = None /\ w.older = None
      /\ w.slot = "free" /\ w.pending = FALSE
  BY <1>2 DEF Shape, Fields
<1> HIDE DEF w
<1>5. Good(w)
  <2>1. Types(w) /\ Closed(w)
    BY <1>2, <1>4 DEF Types, Closed
  <2>2. Key(w) = Key(v) /\ Of(w) = Of(v)
    BY <1>2, <1>4 DEF Key, Of
  <2>3. Asked(w)
    BY <1>2, <1>4, <2>2 DEF Asked
  <2> QED
    BY <1>4, <2>1, <2>3 DEF Good
<1>6. ListOwed(w) /\ ChoiceOwed(w)
  BY <1>2, <1>4 DEF ListOwed, ChoiceOwed
<1>7. ~v.thread.loadingOlder => OlderOwed(w)
  BY <1>2, <1>4 DEF OlderOwed
<1>8. CASE v.loaded = None
  <2>1. Slots(w) /\ PageOwed(w)
    BY <1>2, <1>4, <1>8 DEF Slots, PageOwed
  <2>2. Same(u, v)
    BY <1>2, <1>3, <1>4, <1>8 DEF Same, NoPage
  <2> QED
    BY <1>2, <1>3, <1>4, <1>5, <1>6, <1>7, <1>8, <2>1, <2>2 DEF Owed, u
<1>9. CASE v.loaded # None
  <2>1. ~w.disposed
    BY <1>2, <1>4
  <2>2. Good(u) /\ Slots(u) /\ Still(u, w) /\ Same(u, w) /\ PageOwed(u)
    BY <1>3, <1>5, <1>9, <2>1, ReloadNewestGives
  <2>3. ListOwed(u) /\ ChoiceOwed(u) /\ (~v.thread.loadingOlder => OlderOwed(u))
    BY <1>6, <1>7, <2>2, StillKeeps
  <2>4. Same(u, v)
    BY <1>2, <1>4, <2>2 DEF Same, NoPage
  <2> QED
    BY <2>1, <2>2, <2>3, <2>4 DEF Owed, Still, u
<1> QED
  BY <1>8, <1>9

\* Another space, or none: nothing of the last one is left, but the read that
\* has the slot.
LEMMA EnterGives ==
    ASSUME NEW v, Shape(v), Types(v), Slots(v), ~v.disposed
    PROVE  LET u == Enter(v)
           IN  Good(u) /\ Slots(u) /\ Watching(u) /\ Owed(u) /\ Left(u, v)
<1> DEFINE left == [v EXCEPT !.newest = None, !.older = None, !.listing = None,
                          !.slot = IF @ = "read" THEN "revoked" ELSE @,
                          !.window = EmptyWindow, !.list = EmptyList,
                          !.thread = EmptyThread, !.loaded = None, !.armed = None]
           u == Enter(v)
<1>1. /\ Shape(left) /\ left.context = v.context /\ left.disposed = v.disposed
      /\ left.chosen = v.chosen /\ left.list = EmptyList /\ left.listing = None
      /\ left.loaded = None /\ left.newest = None /\ left.older = None
      /\ left.slot = (IF v.slot = "read" THEN "revoked" ELSE v.slot)
      /\ left.pending = v.pending /\ left.window = EmptyWindow
      /\ left.thread = EmptyThread /\ left.armed = None
  <2> DEFINE s == IF v.slot = "read" THEN "revoked" ELSE v.slot
             w == [v EXCEPT !.newest = None, !.older = None, !.listing = None, !.slot = s]
             x == [w EXCEPT !.window = EmptyWindow, !.list = EmptyList,
                            !.thread = EmptyThread, !.loaded = None, !.armed = None]
  <2>1. left = x
    OBVIOUS
  <2> HIDE DEF s, left
  <2>2. /\ Shape(w) /\ w.context = v.context /\ w.disposed = v.disposed
        /\ w.chosen = v.chosen /\ w.pending = v.pending /\ w.listing = None
        /\ w.newest = None /\ w.older = None /\ w.slot = s
    BY DEF Shape, Fields
  <2> HIDE DEF w
  <2>3. /\ Shape(x) /\ x.context = w.context /\ x.disposed = w.disposed
        /\ x.chosen = w.chosen /\ x.list = EmptyList /\ x.listing = w.listing
        /\ x.loaded = None /\ x.newest = w.newest /\ x.older = w.older
        /\ x.slot = w.slot /\ x.pending = w.pending /\ x.window = EmptyWindow
        /\ x.thread = EmptyThread /\ x.armed = None
    BY <2>2 DEF Shape, Fields, EmptyThread, EmptyList
  <2> HIDE DEF x
  <2> QED
    BY <2>1, <2>2, <2>3 DEF s
<1>2. u = IF v.context = None THEN left ELSE FetchList(left)
  BY DEF Enter
<1> HIDE DEF left, u
<1>3. /\ Shape(u) /\ u.context = v.context /\ u.disposed = v.disposed
      /\ u.chosen = v.chosen /\ u.list = EmptyList
      /\ u.loaded = None /\ u.newest = None /\ u.older = None
      /\ u.slot = left.slot
      /\ u.pending = v.pending /\ u.window = EmptyWindow
      /\ u.thread = EmptyThread /\ u.armed = None
      /\ v.context = None => u.listing = None
      /\ v.context # None => /\ u.listing \in Listings /\ u.listing # None
                             /\ u.listing.key = Key(v) /\ u.listing.auth = v.context.auth
  <2>1. CASE v.context = None
    BY <1>1, <1>2, <2>1
  <2>2. CASE v.context # None
    <3>1. left.context \in Contexts /\ Shape(left) /\ Key(left) = Key(v)
      BY <1>1, <2>2 DEF Types, Key
    <3> QED
      BY <1>1, <1>2, <2>2, <3>1, FetchListGives
  <2> QED
    BY <2>1, <2>2
<1>4. Types(u) /\ Closed(u)
  BY <1>1, <1>3 DEF Types, Closed, EmptyList, EmptyWindow
<1>5. Asked(u)
  BY <1>3 DEF Asked, Key, EmptyWindow
<1>6. Slots(u)
  BY <1>1, <1>3 DEF Slots
<1>7. Watching(u)
  BY <1>3, ConversationAssumption DEF Watching, RefreshWanted, EmptyThread
<1>8. Owed(u)
  BY <1>3 DEF Owed, ListOwed, ChoiceOwed, PageOwed, OlderOwed, EmptyThread
<1>9. Left(u, v)
  BY <1>3 DEF Left, NoPage
<1> QED
  BY <1>3, <1>4, <1>5, <1>6, <1>7, <1>8, <1>9 DEF Good, u

-----------------------------------------------------------------------------
(* The actions: what each makes of a sound runtime is sound.               *)

\* The runtime starts sound.
LEMMA FreshIsSound == Sound(Fresh)
<1> USE ConversationAssumption DEF Fresh, EmptyList, EmptyThread, EmptyWindow
<1>1. Shape(Fresh)
  BY DEF Shape, Fields
<1>2. Types(Fresh) /\ Closed(Fresh) /\ Asked(Fresh)
  BY DEF Types, Closed, Asked
<1>3. Slots(Fresh) /\ Watching(Fresh)
  BY DEF Slots, Watching, RefreshWanted
<1>4. Owed(Fresh)
  BY DEF Owed, ListOwed, ChoiceOwed, PageOwed, OlderOwed
<1> QED
  BY <1>1, <1>2, <1>3, <1>4 DEF Sound, Good

\* With its refresh put right, the runtime is sound.
LEMMA Synced ==
    ASSUME NEW v, Good(v), ~v.disposed, Slots(v), Quiet => Owed(v), NEW how
    PROVE  LET u == SyncRefresh(v, how) IN Sound(u) /\ Same(u, v)
<1> DEFINE u == SyncRefresh(v, how)
<1>1. /\ Good(u) /\ Still(u, v) /\ Same(u, v) /\ Watching(u) /\ Slots(u)
      /\ (v.slot = "free" => v.newest = None) /\ PageOwed(v) => PageOwed(u)
  BY SyncRefreshGives
<1>2. v.slot = "free" => v.newest = None
  BY DEF Slots
<1>3. Owed(v) => Owed(u)
  BY <1>1, <1>2, StillKeeps DEF Owed
<1> QED
  BY <1>1, <1>3 DEF Sound

\* The surface is given a context, the same space or another.
LEMMA SetContextStep ==
    ASSUME Sound(rt), NEW context \in Contexts \cup {None}, NEW how, SetContext(context, how)
    PROVE  Sound(rt') /\ Follows(rt', rt)
<1> DEFINE v == [rt EXCEPT !.disposed = FALSE, !.context = context]
           again == context # None /\ context.key = Key(rt)
           anew  == rt.disposed \/ context.auth # rt.context.auth
<1>1. /\ Shape(rt) /\ Types(rt) /\ Closed(rt) /\ Asked(rt) /\ Slots(rt) /\ Watching(rt)
      /\ Quiet => Owed(rt)
  BY DEF Sound, Good
<1>2. /\ again /\ rt.thread.loadingOlder => ~anew \/ "revoke" \in Events
      /\ rt' = IF ~again THEN Enter(v)
               ELSE SyncRefresh(IF anew THEN Revoke(v) ELSE v, how)
  BY DEF SetContext
<1>3. /\ Shape(v) /\ v.context = context /\ v.disposed = FALSE
      /\ v.chosen = rt.chosen /\ v.loaded = rt.loaded /\ v.list = rt.list
      /\ v.thread = rt.thread /\ v.window = rt.window /\ v.listing = rt.listing
      /\ v.newest = rt.newest /\ v.older = rt.older /\ v.slot = rt.slot
      /\ v.pending = rt.pending /\ v.armed = rt.armed
  BY <1>1 DEF Shape, Fields
<1> HIDE DEF v
<1>4. Types(v) /\ Slots(v)
  BY <1>1, <1>3 DEF Types, Slots
<1>5. again => /\ Key(v) = Key(rt) /\ Of(v) = Of(rt) /\ OpenId(v) = OpenId(rt)
               /\ rt.context # None
  BY <1>1, <1>3, ConversationAssumption DEF Key, Of, OpenId, Types, Keys
<1>6. again => Closed(v)
  BY <1>1, <1>3 DEF Closed
<1>7. CASE ~again
  <2>1. Sound(rt') /\ Left(rt', v)
    BY <1>2, <1>3, <1>4, <1>7, EnterGives DEF Sound
  <2> QED
    BY <1>3, <2>1 DEF Left, Follows
<1>8. CASE again /\ anew
  <2> DEFINE r == Revoke(v)
  <2>1. rt' = SyncRefresh(r, how) /\ ~(Quiet /\ rt.thread.loadingOlder)
    BY <1>2, <1>8 DEF Quiet
  <2>2. v.window.from \subseteq {Of(v)}
    BY <1>1, <1>3, <1>5, <1>8 DEF Asked
  <2>3. Good(r) /\ ~r.disposed /\ Slots(r) /\ Same(r, v) /\ (~v.thread.loadingOlder => Owed(r))
    BY <1>3, <1>4, <1>6, <1>8, <2>2, RevokeGives
  <2> HIDE DEF r
  <2>4. Quiet => Owed(r)
    BY <1>3, <2>1, <2>3
  <2>5. Sound(rt') /\ Same(rt', r)
    BY <2>1, <2>3, <2>4, Synced
  <2> QED
    BY <1>3, <2>3, <2>5 DEF Same, NoPage, Follows
<1>9. CASE again /\ ~anew
  <2>1. rt' = SyncRefresh(v, how) /\ ~rt.disposed /\ context.auth = rt.context.auth
    BY <1>2, <1>9
  <2>2. Asked(v)
    BY <1>1, <1>3, <1>5, <1>9, <2>1 DEF Asked
  <2>3. Good(v)
    BY <1>3, <1>4, <1>6, <1>9, <2>2 DEF Good
  <2>4. Owed(rt) => Owed(v)
    BY <1>3, <1>5, <1>9, <2>1 DEF Owed, ListOwed, ChoiceOwed, PageOwed, OlderOwed
  <2>5. Sound(rt') /\ Same(rt', v)
    BY <1>1, <1>3, <1>4, <2>1, <2>3, <2>4, Synced
  <2> QED
    BY <1>3, <2>5 DEF Same, NoPage, Follows
<1> QED
  BY <1>7, <1>8, <1>9

\* A choice is no request.
LEMMA SelectStep ==
    ASSUME Sound(rt), NEW conv \in Convs \cup {None}, Select(conv)
    PROVE  Sound(rt') /\ Follows(rt', rt)
<1> DEFINE n == IF conv = None THEN None ELSE [key |-> Key(rt), conv |-> conv]
           v == [rt EXCEPT !.chosen = n]
<1>1. /\ Shape(rt) /\ Types(rt) /\ Closed(rt) /\ Asked(rt) /\ Slots(rt) /\ Watching(rt)
      /\ Quiet => Owed(rt)
  BY DEF Sound, Good
<1>2. ~rt.disposed /\ rt.context # None /\ rt' = SyncThread(v)
  BY DEF Select
<1>3. n \in Names \cup {None}
  BY <1>1, <1>2 DEF Types, Names, Key, Keys
<1> HIDE DEF n
<1>4. /\ Shape(v) /\ v.context = rt.context /\ v.disposed = rt.disposed
      /\ v.chosen = n /\ v.loaded = rt.loaded /\ v.list = rt.list
      /\ v.thread = rt.thread /\ v.window = rt.window /\ v.listing = rt.listing
      /\ v.newest = rt.newest /\ v.older = rt.older /\ v.slot = rt.slot
      /\ v.pending = rt.pending /\ v.armed = rt.armed
  BY <1>1 DEF Shape, Fields
<1> HIDE DEF v
<1>5. Good(v)
  <2>1. Types(v) /\ Closed(v)
    BY <1>1, <1>3, <1>4 DEF Types, Closed
  <2>2. Asked(v)
    BY <1>1, <1>4 DEF Asked, Of, Key
  <2> QED
    BY <1>4, <2>1, <2>2 DEF Good
<1>6. Slots(v)
  BY <1>1, <1>4 DEF Slots
<1>7. Watching(v)
  BY <1>1, <1>4 DEF Watching, Of, Key, RefreshWanted
<1>8. Owed(rt) => ListOwed(v) /\ PageOwed(v) /\ OlderOwed(v)
  BY <1>4 DEF Owed, ListOwed, PageOwed, OlderOwed
<1>9. Sound(rt') /\ (Same(rt', v) \/ Left(rt', v))
  BY <1>1, <1>2, <1>4, <1>5, <1>6, <1>7, <1>8, SyncThreadGives DEF Sound
<1> QED
  BY <1>4, <1>9 DEF Same, Left, NoPage, Follows

\* Both requests are made anew.
LEMMA ReloadStep ==
    ASSUME Sound(rt), Reload
    PROVE  Sound(rt') /\ Follows(rt', rt)
<1> DEFINE v == FetchList(rt)
           u == ReloadNewest(v)
<1>1. /\ Shape(rt) /\ Types(rt) /\ Closed(rt) /\ Asked(rt) /\ Slots(rt) /\ Watching(rt)
      /\ Quiet => Owed(rt)
  BY DEF Sound, Good
<1>2. ~rt.disposed /\ rt.context # None /\ rt' = u
  BY DEF Reload
<1>3. rt.context \in Contexts
  BY <1>1, <1>2 DEF Types
<1>4. /\ Shape(v) /\ v.context = rt.context /\ v.disposed = rt.disposed
      /\ v.chosen = rt.chosen /\ v.loaded = rt.loaded /\ v.list = rt.list
      /\ v.thread = rt.thread /\ v.window = rt.window
      /\ v.newest = rt.newest /\ v.older = rt.older /\ v.slot = rt.slot
      /\ v.pending = rt.pending /\ v.armed = rt.armed
      /\ v.listing \in Listings /\ v.listing # None
      /\ v.listing.key = Key(rt) /\ v.listing.auth = rt.context.auth
  BY <1>1, <1>3, FetchListGives
<1> HIDE DEF v
<1>5. Good(v)
  <2>1. Types(v) /\ Closed(v)
    BY <1>1, <1>2, <1>4 DEF Types, Closed
  <2>2. Asked(v)
    BY <1>1, <1>2, <1>4 DEF Asked, Of, Key
  <2> QED
    BY <1>4, <2>1, <2>2 DEF Good
<1>6. Watching(v)
  BY <1>1, <1>4 DEF Watching, Of, Key, RefreshWanted
<1>7. ListOwed(v) /\ ChoiceOwed(v)
  BY <1>4 DEF ListOwed, ChoiceOwed
<1>8. OlderOwed(rt) => OlderOwed(v)
  BY <1>4 DEF OlderOwed
<1>9. /\ Good(u) /\ Slots(u) /\ Still(u, v) /\ Same(u, v) /\ Watching(u) /\ PageOwed(u)
  BY <1>2, <1>4, <1>5, <1>6, ReloadNewestGives
<1>10. OlderOwed(rt) => Owed(u)
  BY <1>7, <1>8, <1>9, StillKeeps DEF Owed
<1>11. Follows(u, rt)
  BY <1>4, <1>9 DEF Same, NoPage, Follows
<1> QED
  BY <1>1, <1>2, <1>9, <1>10, <1>11 DEF Sound, Owed

\* The page before the window is asked for.
LEMMA LoadOlderStep ==
    ASSUME Sound(rt), LoadOlder
    PROVE  /\ Sound(rt')
           /\ rt.window.cursor # None /\ rt'.older # None
           /\ rt'.loaded = rt.loaded /\ rt'.window = rt.window /\ rt'.newest = rt.newest
           /\ rt'.armed = rt.armed /\ rt'.older.before = rt.window.cursor
<1> DEFINE o == [of |-> Of(rt), auth |-> rt.context.auth, before |-> rt.window.cursor]
<1>1. /\ Shape(rt) /\ Types(rt) /\ Closed(rt) /\ Asked(rt) /\ Slots(rt) /\ Watching(rt)
      /\ Quiet => Owed(rt)
  BY DEF Sound, Good
<1>2. /\ ~rt.disposed /\ rt.context # None /\ rt.window.cursor # None
      /\ rt' = [rt EXCEPT !.older = o, !.thread.loadingOlder = TRUE]
  BY DEF LoadOlder
<1>3. rt.loaded # None
  BY <1>1, <1>2 DEF Closed, EmptyWindow
<1>4. /\ o \in Olders /\ o # None /\ o.of = Of(rt) /\ o.auth = rt.context.auth
      /\ o.before = rt.window.cursor
  BY <1>1, <1>2, <1>3, ConversationAssumption
     DEF Types, Olders, Names, Of, Key, Keys, Auths
<1> HIDE DEF o
<1>5. /\ Shape(rt') /\ rt'.context = rt.context /\ rt'.disposed = rt.disposed
      /\ rt'.chosen = rt.chosen /\ rt'.loaded = rt.loaded /\ rt'.list = rt.list
      /\ rt'.window = rt.window /\ rt'.listing = rt.listing
      /\ rt'.newest = rt.newest /\ rt'.older = o /\ rt'.slot = rt.slot
      /\ rt'.pending = rt.pending /\ rt'.armed = rt.armed
      /\ rt'.thread.state = rt.thread.state /\ rt'.thread.activity = rt.thread.activity
      /\ rt'.thread.loading = rt.thread.loading
  BY <1>1, <1>2 DEF Shape, Fields
<1>6. Key(rt') = Key(rt) /\ Of(rt') = Of(rt) /\ OpenId(rt') = OpenId(rt)
  BY <1>5 DEF Key, Of, OpenId
<1>7. Types(rt') /\ Closed(rt')
  BY <1>1, <1>3, <1>4, <1>5 DEF Types, Closed
<1>8. Asked(rt')
  BY <1>1, <1>2, <1>4, <1>5, <1>6 DEF Asked
<1>9. Slots(rt')
  BY <1>1, <1>5 DEF Slots
<1>10. Watching(rt')
  BY <1>1, <1>5, <1>6 DEF Watching, RefreshWanted
<1>11. Owed(rt) => Owed(rt')
  BY <1>4, <1>5, <1>6 DEF Owed, ListOwed, ChoiceOwed, PageOwed, OlderOwed
<1> QED
  BY <1>1, <1>2, <1>4, <1>5, <1>7, <1>8, <1>9, <1>10, <1>11 DEF Sound, Good

\* Nothing is asked for any more.
LEMMA DisposeStep ==
    ASSUME Sound(rt), Dispose
    PROVE  Sound(rt') /\ Follows(rt', rt)
<1>1. Shape(rt) /\ Types(rt) /\ Closed(rt) /\ Asked(rt)
  BY DEF Sound, Good
<1>2. rt' = [[rt EXCEPT !.armed = None] EXCEPT
                !.disposed = TRUE, !.listing = None, !.newest = None,
                !.older = None, !.slot = "free", !.pending = FALSE]
  BY DEF Dispose, StopRefresh
<1>3. /\ Shape(rt') /\ rt'.context = rt.context /\ rt'.disposed = TRUE
      /\ rt'.chosen = rt.chosen /\ rt'.loaded = rt.loaded /\ rt'.list = rt.list
      /\ rt'.thread = rt.thread /\ rt'.window = rt.window /\ rt'.listing = None
      /\ rt'.newest = None /\ rt'.older = None /\ rt'.slot = "free"
      /\ rt'.pending = FALSE /\ rt'.armed = None
  BY <1>1, <1>2 DEF Shape, Fields
<1>4. Types(rt') /\ Closed(rt')
  BY <1>1, <1>3 DEF Types, Closed
<1>5. Asked(rt')
  BY <1>1, <1>3 DEF Asked, Of, Key
<1>6. Slots(rt') /\ Watching(rt')
  BY <1>3 DEF Slots, Watching
<1>7. Owed(rt')
  BY <1>3 DEF Owed, ListOwed, ChoiceOwed, PageOwed, OlderOwed
<1>8. Follows(rt', rt)
  BY <1>3 DEF Same, NoPage, Follows
<1> QED
  BY <1>3, <1>4, <1>5, <1>6, <1>7, <1>8 DEF Sound, Good

\* The list was answered, in whatever way.
LEMMA ListedStep ==
    ASSUME Sound(rt), rt.listing # None, NEW v,
           Shape(v), v.context = rt.context, v.disposed = rt.disposed,
           v.chosen = rt.chosen, v.loaded = rt.loaded, v.thread = rt.thread,
           v.window = rt.window, v.listing = None, v.newest = rt.newest,
           v.older = rt.older, v.slot = rt.slot, v.pending = rt.pending,
           v.armed = rt.armed,
           v.list.loading = FALSE, v.list.binding \in Convs \cup {None}
    PROVE  /\ Good(v) /\ Slots(v) /\ Watching(v) /\ ~v.disposed /\ v.context # None
           /\ Quiet => ListOwed(v) /\ PageOwed(v) /\ OlderOwed(v)
           /\ Sound(SyncThread(v)) /\ Follows(SyncThread(v), rt) /\ Follows(v, rt)
<1>1. /\ Shape(rt) /\ Types(rt) /\ Closed(rt) /\ Asked(rt) /\ Slots(rt) /\ Watching(rt)
      /\ Quiet => Owed(rt)
  BY DEF Sound, Good
<1>2. Key(v) = Key(rt) /\ Of(v) = Of(rt)
  BY DEF Key, Of
<1>3. ~v.disposed /\ v.context # None
  BY <1>1 DEF Asked, Closed
<1>4. Types(v) /\ Closed(v)
  BY <1>1 DEF Types, Closed
<1>5. Asked(v)
  BY <1>1, <1>2 DEF Asked
<1>6. Slots(v)
  BY <1>1 DEF Slots
<1>7. Watching(v)
  BY <1>1, <1>2 DEF Watching, RefreshWanted
<1>8. Quiet => ListOwed(v) /\ PageOwed(v) /\ OlderOwed(v)
  BY <1>1 DEF Owed, ListOwed, PageOwed, OlderOwed
<1>9. Good(v)
  BY <1>4, <1>5 DEF Good
<1>10. Sound(SyncThread(v)) /\ Follows(SyncThread(v), v)
  BY <1>3, <1>6, <1>7, <1>8, <1>9, SyncThreadGives DEF Sound, Follows
<1>11. Follows(v, rt) /\ Follows(SyncThread(v), rt)
  BY <1>10 DEF Same, Left, NoPage, Follows
<1> QED
  BY <1>3, <1>6, <1>7, <1>8, <1>9, <1>10, <1>11

\* The three answers to the list.
LEMMA ListReadyStep ==
    ASSUME Sound(rt), NEW binding \in Convs \cup {None}, ListReady(binding)
    PROVE  Sound(rt') /\ Follows(rt', rt)
<1> DEFINE l == [state |-> "ready", binding |-> binding, loading |-> FALSE, failed |-> FALSE]
           v == [rt EXCEPT !.listing = None, !.list = l]
<1>1. Shape(rt)
  BY DEF Sound, Good
<1>2. /\ l = [f \in {"state", "binding", "loading", "failed"} |-> l[f]]
      /\ l.loading = FALSE /\ l.binding = binding
  OBVIOUS
<1>3. rt.listing # None /\ rt' = SyncThread(v)
  BY DEF ListReady
<1> HIDE DEF l
<1>4. /\ Shape(v) /\ v.context = rt.context /\ v.disposed = rt.disposed
      /\ v.chosen = rt.chosen /\ v.loaded = rt.loaded /\ v.list = l
      /\ v.thread = rt.thread /\ v.window = rt.window /\ v.listing = None
      /\ v.newest = rt.newest /\ v.older = rt.older /\ v.slot = rt.slot
      /\ v.pending = rt.pending /\ v.armed = rt.armed
  BY <1>1, <1>2 DEF Shape, Fields
<1> HIDE DEF v
<1> QED
  BY <1>2, <1>3, <1>4, ListedStep

LEMMA ListUnavailableStep ==
    ASSUME Sound(rt), ListUnavailable
    PROVE  Sound(rt') /\ Follows(rt', rt)
<1> DEFINE v == [rt EXCEPT !.listing = None, !.list.state = "unavailable",
                           !.list.loading = FALSE, !.list.failed = FALSE]
<1>1. Shape(rt) /\ rt.list.binding \in Convs \cup {None}
  BY DEF Sound, Good, Types
<1>2. rt.listing # None /\ rt' = SyncThread(v)
  BY DEF ListUnavailable
<1>3. /\ Shape(v) /\ v.context = rt.context /\ v.disposed = rt.disposed
      /\ v.chosen = rt.chosen /\ v.loaded = rt.loaded
      /\ v.thread = rt.thread /\ v.window = rt.window /\ v.listing = None
      /\ v.newest = rt.newest /\ v.older = rt.older /\ v.slot = rt.slot
      /\ v.pending = rt.pending /\ v.armed = rt.armed
      /\ v.list.binding = rt.list.binding /\ v.list.loading = FALSE
  BY <1>1 DEF Shape, Fields
<1> HIDE DEF v
<1> QED
  BY <1>1, <1>2, <1>3, ListedStep

LEMMA ListFailsStep ==
    ASSUME Sound(rt), ListFails
    PROVE  Sound(rt') /\ Follows(rt', rt)
<1>1. Shape(rt) /\ rt.list.binding \in Convs \cup {None}
  BY DEF Sound, Good, Types
<1>2. /\ rt.listing # None
      /\ Quiet => OpenId(rt) = rt.loaded
      /\ rt' = [rt EXCEPT !.listing = None, !.list.loading = FALSE, !.list.failed = TRUE]
  BY DEF ListFails, Quiet
<1>3. /\ Shape(rt') /\ rt'.context = rt.context /\ rt'.disposed = rt.disposed
      /\ rt'.chosen = rt.chosen /\ rt'.loaded = rt.loaded
      /\ rt'.thread = rt.thread /\ rt'.window = rt.window /\ rt'.listing = None
      /\ rt'.newest = rt.newest /\ rt'.older = rt.older /\ rt'.slot = rt.slot
      /\ rt'.pending = rt.pending /\ rt'.armed = rt.armed
      /\ rt'.list.binding = rt.list.binding /\ rt'.list.loading = FALSE
  BY <1>1, <1>2 DEF Shape, Fields
<1>4. OpenId(rt') = OpenId(rt)
  BY <1>3 DEF OpenId, Key
<1>5. Quiet => ChoiceOwed(rt')
  BY <1>2, <1>3, <1>4 DEF ChoiceOwed
<1>6. /\ Good(rt') /\ Slots(rt') /\ Watching(rt') /\ Follows(rt', rt)
      /\ Quiet => ListOwed(rt') /\ PageOwed(rt') /\ OlderOwed(rt')
  BY <1>1, <1>2, <1>3, ListedStep
<1> QED
  BY <1>5, <1>6 DEF Sound, Owed

\* The provider reads: the request stays the one that was made.
LEMMA ReadNewestStep ==
    ASSUME Sound(rt), total \in [Convs -> Nat], live \in [Convs -> BOOLEAN], ReadNewest
    PROVE  /\ Sound(rt')
           /\ rt'.loaded = rt.loaded /\ rt'.window = rt.window /\ rt'.older = rt.older
           /\ rt'.armed = rt.armed /\ rt.newest.of = Of(rt)
           /\ rt'.newest # None /\ rt'.newest.page.end = total[rt.newest.of.conv]
<1> DEFINE c == rt.newest.of.conv
           g == [end |-> total[c], live |-> live[c]]
<1>1. /\ Shape(rt) /\ Types(rt) /\ Closed(rt) /\ Asked(rt) /\ Slots(rt) /\ Watching(rt)
      /\ Quiet => Owed(rt)
  BY DEF Sound, Good
<1>2. rt.newest # None /\ rt' = [rt EXCEPT !.newest.page = g]
  BY DEF ReadNewest
<1>3. rt.newest \in Reads
  BY <1>1, <1>2 DEF Types
<1>4. g \in Pages
  <2>1. c \in Convs
    BY <1>3 DEF Reads, Names
  <2> QED
    BY <2>1 DEF Pages
<1>0. g.end = total[rt.newest.of.conv]
  OBVIOUS
<1> HIDE DEF g, c
<1>5. /\ Shape(rt') /\ rt'.context = rt.context /\ rt'.disposed = rt.disposed
      /\ rt'.chosen = rt.chosen /\ rt'.loaded = rt.loaded /\ rt'.list = rt.list
      /\ rt'.thread = rt.thread /\ rt'.window = rt.window /\ rt'.listing = rt.listing
      /\ rt'.older = rt.older /\ rt'.slot = rt.slot
      /\ rt'.pending = rt.pending /\ rt'.armed = rt.armed
      /\ rt'.newest = [rt.newest EXCEPT !.page = g]
  BY <1>1, <1>2 DEF Shape, Fields
<1>6. /\ rt'.newest \in Reads /\ rt'.newest # None
      /\ rt'.newest.of = rt.newest.of /\ rt'.newest.auth = rt.newest.auth
      /\ rt'.newest.report = rt.newest.report
  <2>1. [rt.newest EXCEPT !.page = g] \in Reads
    BY <1>3, <1>4 DEF Reads
  <2> QED
    BY <1>3, <1>5, <2>1, ConversationAssumption DEF Reads
<1>13. rt'.newest.page = g /\ rt.newest.of = Of(rt)
  BY <1>1, <1>2, <1>3, <1>5 DEF Reads, Asked
<1>7. Key(rt') = Key(rt) /\ Of(rt') = Of(rt) /\ OpenId(rt') = OpenId(rt)
  BY <1>5 DEF Key, Of, OpenId
<1>8. Types(rt') /\ Closed(rt')
  BY <1>1, <1>2, <1>5, <1>6 DEF Types, Closed
<1>9. Asked(rt')
  BY <1>1, <1>2, <1>5, <1>6, <1>7 DEF Asked
<1>10. Slots(rt')
  BY <1>1, <1>2, <1>5, <1>6 DEF Slots
<1>11. Watching(rt')
  BY <1>1, <1>5, <1>7 DEF Watching, RefreshWanted
<1>12. Owed(rt) => Owed(rt')
  BY <1>2, <1>5, <1>6, <1>7 DEF Owed, ListOwed, ChoiceOwed, PageOwed, OlderOwed
<1> QED
  BY <1>0, <1>1, <1>5, <1>6, <1>8, <1>9, <1>10, <1>11, <1>12, <1>13 DEF Sound, Good

\* Its read over, the runtime is sound.
LEMMA Settled ==
    ASSUME NEW v, Good(v), v.newest = None, v.slot # "free", Watching(v), Quiet => Owed(v)
    PROVE  LET u == SettleNewest(v) IN Sound(u) /\ Same(u, v)
<1> DEFINE u == SettleNewest(v)
<1>1. /\ Good(u) /\ Slots(u) /\ Still(u, v) /\ Same(u, v) /\ Watching(u)
      /\ PageOwed(v) => PageOwed(u)
  BY SettleNewestGives
<1>2. Owed(v) => Owed(u)
  BY <1>1, StillKeeps DEF Owed
<1> QED
  BY <1>1, <1>2 DEF Sound

\* The read is answered: what it leaves of the runtime.
LEMMA AnsweredKeeps ==
    ASSUME Sound(rt), rt.newest # None, NEW v,
           Shape(v), v.context = rt.context, v.disposed = rt.disposed,
           v.chosen = rt.chosen, v.loaded = rt.loaded, v.list = rt.list,
           v.window.cursor \in Nat \cup {None},
           v.window.from \subseteq rt.window.from \cup {rt.newest.of},
           v.listing = rt.listing, v.newest = None,
           v.older = rt.older, v.slot = rt.slot, v.pending = rt.pending,
           v.armed \in {rt.armed, None},
           v.thread.loadingOlder = rt.thread.loadingOlder
    PROVE  /\ Good(v) /\ v.slot # "free" /\ ~v.disposed /\ Of(v) = Of(rt)
           /\ Quiet => ListOwed(v) /\ ChoiceOwed(v) /\ OlderOwed(v)
<1>1. /\ Shape(rt) /\ Types(rt) /\ Closed(rt) /\ Asked(rt) /\ Slots(rt)
      /\ Quiet => Owed(rt)
  BY DEF Sound, Good
<1>2. Key(v) = Key(rt) /\ Of(v) = Of(rt) /\ OpenId(v) = OpenId(rt)
  BY DEF Key, Of, OpenId
<1>3. ~v.disposed /\ v.loaded # None /\ v.context # None
  BY <1>1 DEF Asked, Closed
<1>4. v.slot # "free"
  BY <1>1 DEF Slots
<1>5. Types(v)
  BY <1>1 DEF Types
<1>6. Closed(v)
  BY <1>3 DEF Closed
<1>7. Asked(v)
  <2>1. v.window.from \subseteq {Of(v)}
    BY <1>1, <1>2 DEF Asked
  <2> QED
    BY <1>1, <1>2, <1>3, <2>1 DEF Asked
<1>8. Quiet => ListOwed(v) /\ ChoiceOwed(v) /\ OlderOwed(v)
  BY <1>1, <1>2 DEF Owed, ListOwed, ChoiceOwed, OlderOwed
<1> QED
  BY <1>2, <1>3, <1>4, <1>5, <1>6, <1>7, <1>8 DEF Good

\* The cursor of a page is a position, or none.
LEMMA CursorOfAPage ==
    ASSUME NEW end \in Int
    PROVE  Cursor(PageStart(end)) \in Nat \cup {None}
<1>1. PageSize \in Nat \ {0}
  BY ConversationAssumption
<1> QED
  BY <1>1 DEF Cursor, PageStart

\* The three answers to the newest page.
LEMMA NewestReadyStep ==
    ASSUME Sound(rt), NEW how, NewestReady(how)
    PROVE  LET page == rt.newest.page
           IN  /\ Sound(rt')
               /\ rt.newest.of = Of(rt) /\ page \in Pages
               /\ rt'.loaded = rt.loaded /\ rt'.older \in {rt.older, None} /\ NoPage(rt')
               /\ rt'.window = WithNewest(rt.window, Of(rt), PageStart(page.end), page.end)
               /\ rt'.armed \in {rt.armed, None} \cup Targets
<1> DEFINE page == rt.newest.page
           w == WithNewest(rt.window, rt.newest.of, PageStart(page.end), page.end)
           a == IF page.live THEN "active" ELSE "inactive"
           v == [rt EXCEPT !.newest = None, !.window = w,
                    !.thread = [@ EXCEPT !.state = "ready", !.loading = FALSE,
                                         !.failed = FALSE, !.activity = a]]
           u == SyncRefresh(v, how)
<1>1. Shape(rt) /\ rt.newest \in Reads \cup {None} /\ rt.window.cursor \in Nat \cup {None}
  BY DEF Sound, Good, Types
<1>2. rt.newest # None /\ page # None /\ rt' = SettleNewest(u)
  BY DEF NewestReady
<1>3. page \in Pages
  BY <1>1, <1>2 DEF Reads
<1>4. w.cursor \in Nat \cup {None} /\ w.from = rt.window.from \cup {rt.newest.of}
  <2>1. Cursor(PageStart(page.end)) \in Nat \cup {None}
    BY <1>3, CursorOfAPage DEF Pages
  <2> QED
    BY <1>1, <2>1 DEF WithNewest
<1> HIDE DEF w, a, page
<1>5. /\ Shape(v) /\ v.context = rt.context /\ v.disposed = rt.disposed
      /\ v.chosen = rt.chosen /\ v.loaded = rt.loaded /\ v.list = rt.list
      /\ v.window = w /\ v.listing = rt.listing /\ v.newest = None
      /\ v.older = rt.older /\ v.slot = rt.slot /\ v.pending = rt.pending
      /\ v.armed = rt.armed
      /\ v.thread.loadingOlder = rt.thread.loadingOlder /\ v.thread.loading = FALSE
  BY <1>1 DEF Shape, Fields
<1> HIDE DEF v
<1>6. /\ Good(v) /\ v.slot # "free" /\ ~v.disposed
      /\ Quiet => ListOwed(v) /\ ChoiceOwed(v) /\ OlderOwed(v)
  BY <1>2, <1>4, <1>5, AnsweredKeeps
<1>7. PageOwed(v)
  BY <1>5 DEF PageOwed
<1>8. /\ Good(u) /\ Still(u, v) /\ Same(u, v) /\ Watching(u) /\ PageOwed(u)
      /\ u.newest = v.newest /\ u.slot = v.slot
  BY <1>6, <1>7, SyncRefreshGives
<1> HIDE DEF u
<1>9. Quiet => Owed(u)
  BY <1>6, <1>8, StillKeeps DEF Owed
<1>10. Sound(rt') /\ Same(rt', u)
  BY <1>2, <1>5, <1>6, <1>8, <1>9, Settled
<1>11. /\ rt'.loaded = rt.loaded /\ rt'.older \in {rt.older, None} /\ NoPage(rt')
       /\ rt'.window = w /\ rt'.armed \in {rt.armed, None} \cup Targets
  BY <1>5, <1>8, <1>10 DEF Same, NoPage
<1>12. rt.newest.of = Of(rt)
  BY <1>2 DEF Sound, Good, Asked
<1> QED
  BY <1>2, <1>3, <1>10, <1>11, <1>12 DEF w, page

LEMMA NewestNotReadyStep ==
    ASSUME Sound(rt), NewestNotReady
    PROVE  Sound(rt') /\ Follows(rt', rt)
<1> DEFINE v == [[rt EXCEPT !.newest = None,
                    !.thread = [@ EXCEPT !.state = "unavailable", !.loading = FALSE,
                                         !.failed = FALSE, !.activity = None]]
                    EXCEPT !.armed = None]
<1>1. Shape(rt) /\ rt.window.cursor \in Nat \cup {None}
  BY DEF Sound, Good, Types
<1>2. rt.newest # None /\ rt' = SettleNewest(v)
  BY DEF NewestNotReady, StopRefresh
<1>3. /\ Shape(v) /\ v.context = rt.context /\ v.disposed = rt.disposed
      /\ v.chosen = rt.chosen /\ v.loaded = rt.loaded /\ v.list = rt.list
      /\ v.window = rt.window /\ v.listing = rt.listing /\ v.newest = None
      /\ v.older = rt.older /\ v.slot = rt.slot /\ v.pending = rt.pending
      /\ v.armed = None /\ v.thread.state = "unavailable"
      /\ v.thread.loadingOlder = rt.thread.loadingOlder /\ v.thread.loading = FALSE
  BY <1>1 DEF Shape, Fields
<1> HIDE DEF v
<1>4. /\ Good(v) /\ v.slot # "free"
      /\ Quiet => ListOwed(v) /\ ChoiceOwed(v) /\ OlderOwed(v)
  BY <1>1, <1>2, <1>3, AnsweredKeeps
<1>5. Watching(v) /\ PageOwed(v)
  BY <1>3 DEF Watching, PageOwed, RefreshWanted
<1>6. Sound(rt') /\ Same(rt', v)
  BY <1>2, <1>3, <1>4, <1>5, Settled DEF Owed
<1> QED
  BY <1>3, <1>6 DEF Same, NoPage, Follows

LEMMA NewestFailsStep ==
    ASSUME Sound(rt), NewestFails
    PROVE  Sound(rt') /\ Follows(rt', rt)
<1> DEFINE told == [rt EXCEPT !.newest = None, !.thread.loading = FALSE, !.thread.failed = TRUE]
           untold == [rt EXCEPT !.newest = None]
           v == IF rt.newest.report THEN told ELSE untold
<1>1. /\ Shape(rt) /\ Watching(rt) /\ rt.window.cursor \in Nat \cup {None}
      /\ Quiet => PageOwed(rt)
  BY DEF Sound, Good, Types, Owed
<1>2. rt.newest # None /\ rt' = SettleNewest(v)
  BY DEF NewestFails
<1>3. /\ Shape(v) /\ v.context = rt.context /\ v.disposed = rt.disposed
      /\ v.chosen = rt.chosen /\ v.loaded = rt.loaded /\ v.list = rt.list
      /\ v.window = rt.window /\ v.listing = rt.listing /\ v.newest = None
      /\ v.older = rt.older /\ v.slot = rt.slot /\ v.pending = rt.pending
      /\ v.armed = rt.armed
      /\ v.thread.state = rt.thread.state /\ v.thread.activity = rt.thread.activity
      /\ v.thread.loadingOlder = rt.thread.loadingOlder
      /\ v.thread.loading => ~rt.newest.report /\ rt.thread.loading
  <2>1. CASE rt.newest.report
    BY <1>1, <2>1 DEF Shape, Fields
  <2>2. CASE ~rt.newest.report
    BY <1>1, <2>2 DEF Shape, Fields
  <2> QED
    BY <2>1, <2>2
<1> HIDE DEF v
<1>4. /\ Good(v) /\ v.slot # "free" /\ Of(v) = Of(rt)
      /\ Quiet => ListOwed(v) /\ ChoiceOwed(v) /\ OlderOwed(v)
  BY <1>1, <1>2, <1>3, AnsweredKeeps
<1>5. Watching(v)
  BY <1>1, <1>3, <1>4 DEF Watching, RefreshWanted
<1>6. Quiet => PageOwed(v)
  BY <1>1, <1>3 DEF PageOwed
<1>7. Sound(rt') /\ Same(rt', v)
  BY <1>2, <1>3, <1>4, <1>5, <1>6, Settled DEF Owed
<1> QED
  BY <1>3, <1>7 DEF Same, NoPage, Follows

\* A revoked read frees the slot.
LEMMA SettleRevokedStep ==
    ASSUME Sound(rt), SettleRevoked
    PROVE  Sound(rt') /\ Follows(rt', rt)
<1>1. rt.slot # "free" /\ rt.newest = None /\ rt' = SettleNewest(rt)
  BY DEF SettleRevoked, Sound, Slots
<1> QED
  BY <1>1, Settled DEF Sound, Follows

\* The page before is answered, in whatever way.
LEMMA OlderAnswered ==
    ASSUME Sound(rt), rt.older # None, NEW v,
           Shape(v), v.context = rt.context, v.disposed = rt.disposed,
           v.chosen = rt.chosen, v.loaded = rt.loaded, v.list = rt.list,
           v.window.cursor \in Nat \cup {None},
           v.window.from \subseteq rt.window.from \cup {rt.older.of},
           v.listing = rt.listing, v.newest = rt.newest,
           v.older = None, v.slot = rt.slot, v.pending = rt.pending, v.armed = rt.armed,
           v.thread.state = rt.thread.state, v.thread.activity = rt.thread.activity,
           v.thread.loading = rt.thread.loading, v.thread.loadingOlder = FALSE
    PROVE  Sound(v)
<1>1. /\ Shape(rt) /\ Types(rt) /\ Closed(rt) /\ Asked(rt) /\ Slots(rt) /\ Watching(rt)
      /\ Quiet => Owed(rt)
  BY DEF Sound, Good
<1>2. Key(v) = Key(rt) /\ Of(v) = Of(rt) /\ OpenId(v) = OpenId(rt)
  BY DEF Key, Of, OpenId
<1>3. ~v.disposed /\ v.loaded # None /\ v.context # None
  BY <1>1 DEF Asked, Closed
<1>4. Types(v) /\ Closed(v)
  BY <1>1, <1>3 DEF Types, Closed
<1>5. Asked(v)
  <2>1. v.window.from \subseteq {Of(v)}
    BY <1>1, <1>2 DEF Asked
  <2> QED
    BY <1>1, <1>2, <1>3, <2>1 DEF Asked
<1>6. Slots(v) /\ Watching(v)
  BY <1>1, <1>2 DEF Slots, Watching, RefreshWanted
<1>7. Owed(rt) => Owed(v)
  BY <1>2 DEF Owed, ListOwed, ChoiceOwed, PageOwed, OlderOwed
<1> QED
  BY <1>1, <1>4, <1>5, <1>6, <1>7 DEF Sound, Good

\* The two answers to the page before.
LEMMA OlderReadyStep ==
    ASSUME Sound(rt), OlderReady
    PROVE  LET end == rt.older.before - 1
           IN  /\ Sound(rt')
               /\ rt.older # None /\ rt.older.of = Of(rt) /\ rt.older \in Olders
               /\ rt'.loaded = rt.loaded /\ rt'.older = None
               /\ rt'.newest = rt.newest /\ rt'.armed = rt.armed
               /\ rt'.window = WithOlder(rt.window, Of(rt), PageStart(end), end)
<1> DEFINE end == rt.older.before - 1
           w == WithOlder(rt.window, rt.older.of, PageStart(end), end)
<1>1. Shape(rt) /\ rt.older \in Olders \cup {None}
  BY DEF Sound, Good, Types
<1>2. /\ rt.older # None
      /\ rt' = [rt EXCEPT !.older = None, !.thread.loadingOlder = FALSE, !.window = w]
  BY DEF OlderReady
<1>3. w.cursor \in Nat \cup {None} /\ w.from = rt.window.from \cup {rt.older.of}
  <2>1. end \in Int
    BY <1>1, <1>2 DEF Olders
  <2>2. Cursor(PageStart(end)) \in Nat \cup {None}
    BY <2>1, CursorOfAPage
  <2> QED
    BY <2>2 DEF WithOlder
<1> HIDE DEF w
<1>4. /\ Shape(rt') /\ rt'.context = rt.context /\ rt'.disposed = rt.disposed
      /\ rt'.chosen = rt.chosen /\ rt'.loaded = rt.loaded /\ rt'.list = rt.list
      /\ rt'.window = w /\ rt'.listing = rt.listing /\ rt'.newest = rt.newest
      /\ rt'.older = None /\ rt'.slot = rt.slot /\ rt'.pending = rt.pending
      /\ rt'.armed = rt.armed
      /\ rt'.thread.state = rt.thread.state /\ rt'.thread.activity = rt.thread.activity
      /\ rt'.thread.loading = rt.thread.loading /\ rt'.thread.loadingOlder = FALSE
  BY <1>1, <1>2 DEF Shape, Fields
<1>5. Sound(rt')
  BY <1>2, <1>3, <1>4, OlderAnswered
<1>6. rt.older.of = Of(rt)
  BY <1>2 DEF Sound, Good, Asked
<1> QED
  BY <1>1, <1>2, <1>4, <1>5, <1>6 DEF w

LEMMA OlderRefusedStep ==
    ASSUME Sound(rt), OlderRefused
    PROVE  Sound(rt') /\ Follows(rt', rt)
<1>1. Shape(rt) /\ rt.window.cursor \in Nat \cup {None}
  BY DEF Sound, Good, Types
<1>2. /\ rt.older # None
      /\ rt' = [rt EXCEPT !.older = None, !.thread.loadingOlder = FALSE]
  BY DEF OlderRefused
<1>3. /\ Shape(rt') /\ rt'.context = rt.context /\ rt'.disposed = rt.disposed
      /\ rt'.chosen = rt.chosen /\ rt'.loaded = rt.loaded /\ rt'.list = rt.list
      /\ rt'.window = rt.window /\ rt'.listing = rt.listing /\ rt'.newest = rt.newest
      /\ rt'.older = None /\ rt'.slot = rt.slot /\ rt'.pending = rt.pending
      /\ rt'.armed = rt.armed
      /\ rt'.thread.state = rt.thread.state /\ rt'.thread.activity = rt.thread.activity
      /\ rt'.thread.loading = rt.thread.loading /\ rt'.thread.loadingOlder = FALSE
  BY <1>1, <1>2 DEF Shape, Fields
<1>4. Follows(rt', rt)
  BY <1>3 DEF Same, NoPage, Follows
<1> QED
  BY <1>1, <1>2, <1>3, <1>4, OlderAnswered

\* While it is watched, another look does no harm.
LEMMA PollStep ==
    ASSUME Sound(rt), rt.armed # None
    PROVE  Sound(Poll(rt)) /\ Follows(Poll(rt), rt)
<1> DEFINE u == Poll(rt)
<1>1. /\ Good(rt) /\ Slots(rt) /\ Watching(rt) /\ ~rt.disposed
      /\ (rt.loaded = None => rt.armed = None)
      /\ (rt.slot = "free" => rt.newest = None)
      /\ Quiet => Owed(rt)
  BY DEF Sound, Watching, Good, Closed, Slots
<1>2. Requested(u, rt, FALSE) /\ u.armed = rt.armed
  BY <1>1, RequestNewestGives DEF Poll
<1> HIDE DEF u
<1>3. /\ Good(u) /\ Slots(u) /\ Watching(u)
      /\ PageOwed(rt) => PageOwed(u)
  BY <1>1, <1>2, Asking
<1>4. Owed(rt) => Owed(u)
  BY <1>2, <1>3, StillKeeps DEF Requested, Owed
<1>5. Follows(u, rt)
  BY <1>2 DEF Requested, Begun, Still, Same, NoPage, Follows
<1> QED
  BY <1>1, <1>3, <1>4, <1>5 DEF Sound, u

-----------------------------------------------------------------------------
(* The invariant.                                                          *)

\* Only the policy of a sound runtime is not in it.
LEMMA SoundNext ==
    ASSUME Sound(rt'), policy' = policy
    PROVE  Sound(rt)'
  BY DEF Sound, Good, Shape, Types, Closed, Asked, Slots, Watching, RefreshWanted,
         Owed, ListOwed, ChoiceOwed, PageOwed, OlderOwed, OpenId, Key, Of, Quiet,
         Names, Keys, Auths, Listings, Reads, Pages, Olders, EmptyWindow, EmptyThread, Fields

\* It holds at the start.
LEMMA InitInv == Init => IInv
<1> SUFFICES ASSUME Init PROVE IInv
  OBVIOUS
<1>1. rt = Fresh /\ total \in [Convs -> {0, PageSize + 1}] /\ live = [c \in Convs |-> TRUE]
  BY DEF Init
<1>2. Sound(rt)
  BY <1>1, FreshIsSound
<1>3. total \in [Convs -> Nat] /\ live \in [Convs -> BOOLEAN]
  BY <1>1, ConversationAssumption
<1> QED
  BY <1>2, <1>3 DEF IInv

\* Every step keeps it.
LEMMA NextInv == IInv /\ [Next]_vars => IInv'
<1> SUFFICES ASSUME IInv, [Next]_vars PROVE IInv'
  OBVIOUS
<1>1. Sound(rt) /\ total \in [Convs -> Nat] /\ live \in [Convs -> BOOLEAN]
  BY DEF IInv
<1> DEFINE Goal == /\ Sound(rt') /\ policy' = policy
                   /\ total' \in [Convs -> Nat] /\ live' \in [Convs -> BOOLEAN]
<1>2. SUFFICES Goal
  BY SoundNext DEF IInv
<1>3. ASSUME NEW context \in Contexts \cup {None}, NEW how \in Hows, SetContext(context, how)
      PROVE  Goal
  <2>1. Sound(rt')
    BY <1>1, <1>3, SetContextStep
  <2> QED
    BY <1>1, <1>3, <2>1 DEF SetContext, Call, provider
<1>4. CASE \E conv \in Convs \cup {None} : Select(conv)
  BY <1>1, <1>4, SelectStep DEF Select, Call, provider
<1>5. CASE Reload
  BY <1>1, <1>5, ReloadStep DEF Reload, Call, provider
<1>6. CASE LoadOlder
  BY <1>1, <1>6, LoadOlderStep DEF LoadOlder, Call, provider
<1>7. CASE Dispose
  BY <1>1, <1>7, DisposeStep DEF Dispose, Call, provider
<1>8. ASSUME NEW binding \in Convs \cup {None}, ListReady(binding)
      PROVE  Goal
  <2>1. Sound(rt')
    BY <1>1, <1>8, ListReadyStep
  <2> QED
    BY <1>1, <1>8, <2>1 DEF ListReady, Granted, Heard, provider
<1>9. CASE ListUnavailable
  BY <1>1, <1>9, ListUnavailableStep DEF ListUnavailable, Refused, Heard, provider
<1>10. CASE ListFails
  BY <1>1, <1>10, ListFailsStep DEF ListFails, Refused, Heard, provider
<1>11. CASE ReadNewest
  BY <1>1, <1>11, ReadNewestStep DEF ReadNewest, Granted, Heard, provider
<1>12. CASE NewestNotReady
  BY <1>1, <1>12, NewestNotReadyStep DEF NewestNotReady, Refused, Heard, provider
<1>13. CASE NewestFails
  BY <1>1, <1>13, NewestFailsStep DEF NewestFails, Refused, Heard, provider
<1>14. CASE SettleRevoked
  BY <1>1, <1>14, SettleRevokedStep DEF SettleRevoked, Granted, Heard, provider
<1>15. CASE \E how \in Hows : NewestReady(how)
  BY <1>1, <1>15, NewestReadyStep DEF NewestReady, Granted, Heard, provider
<1>16. CASE OlderReady
  BY <1>1, <1>16, OlderReadyStep DEF OlderReady, Granted, Heard, provider
<1>17. CASE OlderRefused
  BY <1>1, <1>17, OlderRefusedStep DEF OlderRefused, Refused, Heard, provider
<1>18. CASE Tick
  <2>1. rt.armed # None /\ rt' = Poll(rt) /\ UNCHANGED provider
    BY <1>18 DEF Tick, Granted, Heard
  <2> QED
    BY <1>1, <2>1, PollStep DEF provider
<1>19. CASE \E s \in signals : Signal(s)
  <2>1. /\ rt' = rt \/ (rt.armed # None /\ rt' = Poll(rt))
        /\ UNCHANGED provider
    BY <1>19 DEF Signal
  <2> QED
    BY <1>1, <2>1, PollStep DEF provider
<1>20. ASSUME NEW c \in Convs, Grow(c)
       PROVE  Goal
  <2>1. rt' = rt /\ policy' = policy /\ live' = live /\ total' = [total EXCEPT ![c] = @ + 1]
    BY <1>20 DEF Grow
  <2>2. total' \in [Convs -> Nat]
    BY <1>1, <2>1
  <2> QED
    BY <1>1, <2>1, <2>2
<1>21. ASSUME NEW c \in Convs, End(c)
       PROVE  Goal
  <2>1. rt' = rt /\ policy' = policy /\ total' = total /\ live' = [live EXCEPT ![c] = FALSE]
    BY <1>21 DEF End
  <2>2. live' \in [Convs -> BOOLEAN]
    BY <1>1, <2>1
  <2> QED
    BY <1>1, <2>1, <2>2
<1>22. CASE UNCHANGED vars
  BY <1>1, <1>22 DEF vars
<1> QED
  BY <1>3, <1>4, <1>5, <1>6, <1>7, <1>8, <1>9, <1>10, <1>11, <1>12, <1>13, <1>14, <1>15,
     <1>16, <1>17, <1>18, <1>19, <1>20, <1>21, <1>22 DEF Next

\* The runtime is sound in every behaviour.
THEOREM Invariance == Spec => []IInv
  BY InitInv, NextInv, PTL DEF Spec
-----------------------------------------------------------------------------
(* The window: what NotIn keeps of a page, and stretches of positions.     *)

\* A set of numbers that has 0 and every successor has them all.
LEMMA Induction ==
    ASSUME NEW T \in SUBSET Nat, 0 \in T, \A n \in T : n + 1 \in T
    PROVE  T = Nat
<1> DEFINE Less == {p \in Nat \X Nat : p[1] < p[2]}
<1>1. IsWellFoundedOn(Less, Nat)
  BY NatLessThanWellFounded, Zenon DEF OpToRel
<1> SUFFICES ASSUME Nat \ T # {} PROVE FALSE
  OBVIOUS
<1>2. PICK x \in Nat \ T : \A y \in Nat \ T : ~ (<<y, x>> \in Less)
  <2>1. Nat \ T \subseteq Nat
    OBVIOUS
  <2> HIDE DEF Less
  <2> QED
    BY <1>1, <2>1, WFMin
<1>3. x # 0 /\ x - 1 \in Nat /\ x - 1 + 1 = x
  OBVIOUS
<1>4. <<x - 1, x>> \in Less
  BY <1>3
<1>5. x - 1 \in T
  BY <1>2, <1>3, <1>4
<1> QED
  BY <1>2, <1>3, <1>5

\* What NotIn takes the items of a page through, the last first.
Folding(page, w, f, m) ==
    f = [s \in SUBSET (1..m) |->
            IF s = {} THEN <<>>
            ELSE IF page[Max(s)] \in Held(w) THEN f[s \ {Max(s)}]
                 ELSE Append(f[s \ {Max(s)}], page[Max(s)])]

\* The greatest of a set that has n + 1.
LEMMA GreatestOf ==
    ASSUME NEW n \in Nat, NEW s \in SUBSET (1..n + 1), n + 1 \in s
    PROVE  Max(s) = n + 1
<1>1. \A y \in s : y \in Nat /\ n + 1 >= y
  OBVIOUS
<1>2. \A x \in s : (\A y \in s : x >= y) => x = n + 1
  BY <1>1
<1> QED
  BY <1>1, <1>2, Zenon DEF Max

\* There is such a function for a page of any length.
LEMMA FoldingExists ==
    ASSUME NEW page, NEW w, NEW m \in Nat
    PROVE  \E f : Folding(page, w, f, m)
<1> DEFINE T == {k \in Nat : \E f : Folding(page, w, f, k)}
<1>1. 0 \in T
  <2> DEFINE g == [s \in SUBSET (1..0) |-> <<>>]
  <2>1. Folding(page, w, g, 0)
    BY DEF Folding
  <2> QED
    BY <2>1
<1>2. ASSUME NEW k \in T PROVE k + 1 \in T
  <2>1. PICK f : Folding(page, w, f, k)
    OBVIOUS
  <2> DEFINE g == [s \in SUBSET (1..k + 1) |->
                      IF k + 1 \notin s THEN f[s]
                      ELSE IF page[k + 1] \in Held(w) THEN f[s \ {k + 1}]
                           ELSE Append(f[s \ {k + 1}], page[k + 1])]
  <2>2. ASSUME NEW s \in SUBSET (1..k + 1)
        PROVE  g[s] = IF s = {} THEN <<>>
                      ELSE IF page[Max(s)] \in Held(w) THEN g[s \ {Max(s)}]
                           ELSE Append(g[s \ {Max(s)}], page[Max(s)])
    <3>1. CASE k + 1 \in s
      <4>1. Max(s) = k + 1 /\ s # {}
        BY <3>1, GreatestOf
      <4>2. s \ {k + 1} \in SUBSET (1..k + 1) /\ k + 1 \notin s \ {k + 1}
        OBVIOUS
      <4>3. g[s \ {k + 1}] = f[s \ {k + 1}]
        BY <4>2
      <4> QED
        BY <3>1, <4>1, <4>3
    <3>2. CASE k + 1 \notin s
      <4>0. \A y \in 1..k + 1 : y # k + 1 => y \in 1..k
        OBVIOUS
      <4>1. s \in SUBSET (1..k) /\ \A x : s \ {x} \in SUBSET (1..k + 1) /\ k + 1 \notin s \ {x}
        BY <3>2, <4>0
      <4>2. \A x : g[s \ {x}] = f[s \ {x}]
        BY <4>1
      <4>3. g[s] = f[s]
        BY <3>2
      <4>4. f[s] = IF s = {} THEN <<>>
                   ELSE IF page[Max(s)] \in Held(w) THEN f[s \ {Max(s)}]
                        ELSE Append(f[s \ {Max(s)}], page[Max(s)])
        BY <2>1, <4>1 DEF Folding
      <4> HIDE DEF g
      <4> QED
        BY <4>2, <4>3, <4>4
    <3> QED
      BY <3>1, <3>2
  <2>3. g = [s \in SUBSET (1..k + 1) |-> g[s]]
    OBVIOUS
  <2> HIDE DEF g
  <2>4. Folding(page, w, g, k + 1)
    BY <2>2, <2>3 DEF Folding
  <2> QED
    BY <2>4
<1> HIDE DEF T
<1>3. T = Nat
  <2>1. T \in SUBSET Nat
    BY DEF T
  <2> QED
    BY <1>1, <1>2, <2>1, Induction
<1> QED
  BY <1>3 DEF T

\* NotIn goes through a page item by item.
Passing(page, w, kept) ==
    /\ kept[0] = <<>>
    /\ \A i \in 0..Len(page) - 1 :
          kept[i + 1] = IF page[i + 1] \in Held(w) THEN kept[i] ELSE Append(kept[i], page[i + 1])

\* Its items are kept or passed over in the order of the page.
LEMMA NotInPasses ==
    ASSUME NEW S, NEW page \in Seq(S), NEW w
    PROVE  \E kept : Passing(page, w, kept) /\ NotIn(page, w) = kept[Len(page)]
<1> DEFINE m == Len(page)
           f == CHOOSE g : Folding(page, w, g, m)
           kept == [i \in 0..m |-> f[1..i]]
<1>1. m \in Nat /\ DOMAIN page = 1..m
  OBVIOUS
<1>2. NotIn(page, w) = f[1..m]
  BY <1>1, Zenon DEF NotIn, FoldLeft, MapThenFoldSet, Folding
<1> HIDE DEF m
<1>3. Folding(page, w, f, m)
  BY <1>1, FoldingExists
<1> HIDE DEF f
<1>4. kept[0] = <<>>
  <2>1. 1..0 = {} /\ 1..0 \in SUBSET (1..m)
    OBVIOUS
  <2> QED
    BY <1>1, <1>3, <2>1 DEF Folding
<1>5. ASSUME NEW i \in 0..m - 1
      PROVE  kept[i + 1] = IF page[i + 1] \in Held(w) THEN kept[i]
                           ELSE Append(kept[i], page[i + 1])
  <2>1. 1..i + 1 \in SUBSET (1..m) /\ 1..i + 1 # {} /\ i \in 0..m /\ i + 1 \in 0..m
        /\ i \in Nat /\ i + 1 \in 1..i + 1
    BY <1>1
  <2>2. Max(1..i + 1) = i + 1
    BY <2>1, GreatestOf
  <2>3. (1..i + 1) \ {i + 1} = 1..i
    BY <1>1
  <2>4. f[1..i + 1] = IF page[i + 1] \in Held(w) THEN f[1..i] ELSE Append(f[1..i], page[i + 1])
    BY <1>3, <2>1, <2>2, <2>3 DEF Folding
  <2>5. kept[i + 1] = f[1..i + 1] /\ kept[i] = f[1..i]
    BY <2>1
  <2> QED
    BY <2>4, <2>5
<1>6. kept[m] = f[1..m]
  BY <1>1
<1> HIDE DEF kept
<1> QED
  BY <1>2, <1>4, <1>5, <1>6 DEF Passing, m

\* What NotIn keeps are items of the page.
LEMMA NotInTypes ==
    ASSUME NEW S, NEW page \in Seq(S), NEW w
    PROVE  NotIn(page, w) \in Seq(S)
<1>1. PICK kept : Passing(page, w, kept) /\ NotIn(page, w) = kept[Len(page)]
  BY NotInPasses
<1> DEFINE T == {k \in Nat : k <= Len(page) => kept[k] \in Seq(S)}
<1>2. 0 \in T
  <2>1. kept[0] \in Seq(S)
    BY <1>1 DEF Passing
  <2> QED
    BY <2>1
<1>3. ASSUME NEW k \in T PROVE k + 1 \in T
  <2>1. ASSUME k + 1 \in 1..Len(page), kept[k] \in Seq(S) PROVE kept[k + 1] \in Seq(S)
    <3>1. page[k + 1] \in S
      BY <2>1
    <3>2. k \in 0..Len(page) - 1
      BY <2>1
    <3>3. kept[k + 1] = IF page[k + 1] \in Held(w) THEN kept[k] ELSE Append(kept[k], page[k + 1])
      BY <1>1, <2>1, <3>2, Zenon DEF Passing
    <3>4. Append(kept[k], page[k + 1]) \in Seq(S)
      BY <2>1, <3>1
    <3> QED
      BY <2>1, <3>3, <3>4
  <2> QED
    BY <2>1
<1> HIDE DEF T
<1>4. T = Nat
  <2>1. T \in SUBSET Nat
    BY DEF T
  <2> QED
    BY <1>2, <1>3, <2>1, Induction
<1> QED
  BY <1>1, <1>4 DEF T

\* A stretch is a sequence of the positions from lo to hi.
LEMMA StretchIs ==
    ASSUME NEW lo \in Int, NEW hi \in Int, NEW m \in Nat, m = hi + 1 - lo
    PROVE  /\ Stretch(lo, hi) \in Seq(Int) /\ Len(Stretch(lo, hi)) = m
           /\ Stretch(lo, hi) \in Seq(lo..hi)
           /\ DOMAIN Stretch(lo, hi) = 1..m
           /\ \A i \in 1..m : Stretch(lo, hi)[i] = lo + i - 1
<1>1. \A i \in 1..m : lo + i - 1 \in lo..hi /\ lo + i - 1 \in Int
  OBVIOUS
<1>2. Stretch(lo, hi) = [i \in 1..m |-> lo + i - 1]
  BY DEF Stretch
<1>3. [i \in 1..m |-> lo + i - 1] \in Seq(lo..hi) /\ [i \in 1..m |-> lo + i - 1] \in Seq(Int)
  BY <1>1
<1> QED
  BY <1>2, <1>3

\* The same, for a stretch that may be empty.
LEMMA StretchHas ==
    ASSUME NEW lo \in Int, NEW hi \in Int, lo <= hi + 1
    PROVE  /\ Len(Stretch(lo, hi)) = hi + 1 - lo
           /\ \A i \in 1..(hi + 1 - lo) : Stretch(lo, hi)[i] = lo + i - 1
<1> DEFINE m == hi + 1 - lo
<1>1. m \in Nat /\ m = hi + 1 - lo
  OBVIOUS
<1> HIDE DEF m
<1>2. Len(Stretch(lo, hi)) = m /\ \A i \in 1..m : Stretch(lo, hi)[i] = lo + i - 1
  BY <1>1, StretchIs
<1> QED
  BY <1>2 DEF m

\* A stretch starts empty and goes on at its end.
LEMMA StretchEnds ==
    ASSUME NEW lo \in Int
    PROVE  /\ Stretch(lo, lo - 1) = <<>>
           /\ \A hi \in Int : lo <= hi + 1 =>
                 Append(Stretch(lo, hi), hi + 1) = Stretch(lo, hi + 1)
<1>1. Stretch(lo, lo - 1) = <<>>
  <2>1. lo - 1 + 1 - lo = 0
    OBVIOUS
  <2> QED
    BY <2>1 DEF Stretch
<1>2. ASSUME NEW hi \in Int, lo <= hi + 1
      PROVE  Append(Stretch(lo, hi), hi + 1) = Stretch(lo, hi + 1)
  <2> DEFINE r == Stretch(lo, hi)
             s == Append(r, hi + 1)
             t == Stretch(lo, hi + 1)
             n == hi + 1 - lo
  <2>1. n \in Nat /\ n + 1 \in Nat /\ n = hi + 1 - lo /\ n + 1 = (hi + 1) + 1 - lo
        /\ lo + (n + 1) - 1 = hi + 1 /\ hi + 1 \in Int
    BY <1>2
  <2> HIDE DEF n
  <2>2. r \in Seq(Int) /\ Len(r) = n /\ \A i \in 1..n : r[i] = lo + i - 1
    BY <2>1, StretchIs
  <2>3. t \in Seq(Int) /\ Len(t) = n + 1 /\ \A i \in 1..n + 1 : t[i] = lo + i - 1
    BY <2>1, StretchIs
  <2> HIDE DEF r
  <2>4. s \in Seq(Int) /\ Len(s) = n + 1 /\ s[n + 1] = hi + 1
        /\ \A i \in 1..n : s[i] = r[i]
    BY <2>1, <2>2
  <2> HIDE DEF s, t
  <2>5. ASSUME NEW i \in 1..Len(s) PROVE s[i] = t[i]
    <3>1. i \in 1..n \/ i = n + 1
      BY <2>1, <2>4
    <3>2. CASE i \in 1..n
      BY <2>1, <2>2, <2>3, <2>4, <3>2
    <3>3. CASE i = n + 1
      BY <2>1, <2>3, <2>4, <3>3
    <3> QED
      BY <3>1, <3>2, <3>3
  <2> QED
    BY <2>3, <2>4, <2>5, SeqEqual DEF s, t, r
<1> QED
  BY <1>1, <1>2

\* Two stretches that meet are one.
LEMMA StretchConcat ==
    ASSUME NEW lo \in Int, NEW mid \in Int, NEW hi \in Int, lo <= mid + 1, mid <= hi
    PROVE  Stretch(lo, mid) \o Stretch(mid + 1, hi) = Stretch(lo, hi)
<1> DEFINE s == Stretch(lo, mid)
           t == Stretch(mid + 1, hi)
           u == Stretch(lo, hi)
           m == mid + 1 - lo
           n == hi - mid
<1>1. /\ m \in Nat /\ n \in Nat /\ m + n \in Nat /\ mid + 1 \in Int
      /\ m + n = hi + 1 - lo /\ n = hi + 1 - (mid + 1) /\ m = mid + 1 - lo
  OBVIOUS
<1> HIDE DEF m, n
<1>2. s \in Seq(Int) /\ Len(s) = m /\ \A i \in 1..m : s[i] = lo + i - 1
  BY <1>1, StretchIs, Zenon
<1>3. t \in Seq(Int) /\ Len(t) = n /\ \A i \in 1..n : t[i] = mid + 1 + i - 1
  BY <1>1, StretchIs, Zenon
<1>4. u \in Seq(Int) /\ Len(u) = m + n /\ \A i \in 1..m + n : u[i] = lo + i - 1
  BY <1>1, StretchIs, Zenon
<1> HIDE DEF s, t, u
<1>5. s \o t \in Seq(Int) /\ Len(s \o t) = m + n
      /\ \A i \in 1..m + n : (s \o t)[i] = IF i <= m THEN s[i] ELSE t[i - m]
  BY <1>2, <1>3, ConcatProperties
<1>6. ASSUME NEW i \in 1..m + n PROVE (s \o t)[i] = u[i]
  <2>1. CASE i <= m
    BY <1>1, <1>2, <1>4, <1>5, <2>1
  <2>2. CASE ~ (i <= m)
    <3>1. i - m \in 1..n /\ mid + 1 + (i - m) - 1 = lo + i - 1
      BY <1>1, <2>2
    <3> QED
      BY <1>3, <1>4, <1>5, <2>2, <3>1
  <2> QED
    BY <2>1, <2>2
<1>7. s \o t = u
  BY <1>4, <1>5, <1>6, SeqEqual
<1> QED
  BY <1>7 DEF s, t, u

\* What is held of a stretch.
LEMMA HeldStretch ==
    ASSUME NEW w, NEW lo \in Int, NEW hi \in Int, lo <= hi + 1, w.items = Stretch(lo, hi)
    PROVE  Held(w) = lo..hi
<1> DEFINE m == hi + 1 - lo
<1>1. m \in Nat /\ m = hi + 1 - lo
  OBVIOUS
<1> HIDE DEF m
<1>2. DOMAIN w.items = 1..m /\ \A i \in 1..m : w.items[i] = lo + i - 1
  <2>1. /\ DOMAIN Stretch(lo, hi) = 1..m
        /\ \A i \in 1..m : Stretch(lo, hi)[i] = lo + i - 1
    BY <1>1, StretchIs
  <2> QED
    BY <2>1
<1>3. ASSUME NEW n \in lo..hi PROVE n \in Held(w)
  <2>1. n + 1 - lo \in 1..m /\ lo + (n + 1 - lo) - 1 = n
    BY <1>1
  <2> QED
    BY <1>2, <2>1 DEF Held
<1>4. ASSUME NEW i \in 1..m PROVE w.items[i] \in lo..hi
  BY <1>1, <1>2
<1> QED
  BY <1>2, <1>3, <1>4 DEF Held

\* Of a page that is held but for one stretch, that stretch is new.
LEMMA NotInStretch ==
    ASSUME NEW lo \in Int, NEW hi \in Int, NEW a \in Int, NEW b \in Int, NEW w,
           lo <= a, a <= b + 1, b <= hi,
           \A n \in lo..hi : n \in Held(w) <=> ~ (a <= n /\ n <= b)
    PROVE  NotIn(Stretch(lo, hi), w) = Stretch(a, b)
<1> DEFINE page == Stretch(lo, hi)
           m == hi + 1 - lo
           cap(k) == IF lo + k - 1 <= a - 1 THEN a - 1 ELSE IF lo + k - 1 <= b THEN lo + k - 1 ELSE b
<1>0. m \in Nat /\ m = hi + 1 - lo /\ cap(0) = a - 1 /\ cap(m) = b
  OBVIOUS
<1> HIDE DEF m
<1>1. page \in Seq(Int) /\ Len(page) = m /\ \A i \in 1..m : page[i] = lo + i - 1
  BY <1>0, StretchIs
<1> HIDE DEF page
<1>2. PICK kept : Passing(page, w, kept) /\ NotIn(page, w) = kept[Len(page)]
  BY <1>1, NotInPasses
<1> DEFINE T == {k \in Nat : k <= m => kept[k] = Stretch(a, cap(k))}
<1>3. 0 \in T
  <2>1. kept[0] = <<>>
    BY <1>2 DEF Passing
  <2>2. Stretch(a, cap(0)) = <<>>
    BY <1>0, StretchEnds
  <2> HIDE DEF cap
  <2> QED
    BY <2>1, <2>2
<1>4. ASSUME NEW k \in T PROVE k + 1 \in T
  <2>1. ASSUME k + 1 <= m, kept[k] = Stretch(a, cap(k))
        PROVE  kept[k + 1] = Stretch(a, cap(k + 1))
    <3> DEFINE n == lo + k
    <3>1. k \in 0..m - 1 /\ k + 1 \in 1..m /\ n \in lo..hi /\ n = lo + (k + 1) - 1
      BY <1>0, <2>1
    <3>2. page[k + 1] = n
      BY <1>1, <3>1
    <3>3. kept[k + 1] = IF n \in Held(w) THEN kept[k] ELSE Append(kept[k], n)
      BY <1>1, <1>2, <3>1, <3>2 DEF Passing
    <3>4. CASE n \in Held(w)
      <4>1. cap(k + 1) = cap(k)
        BY <3>1, <3>4
      <4> HIDE DEF cap, n
      <4> QED
        BY <2>1, <3>3, <3>4, <4>1
    <3>5. CASE n \notin Held(w)
      <4>1. a <= n /\ n <= b
        BY <3>1, <3>5
      <4>2. cap(k) = n - 1 /\ cap(k + 1) = n
        BY <3>1, <4>1
      <4>3. n - 1 \in Int /\ a <= n - 1 + 1 /\ n - 1 + 1 = n
        BY <3>1, <4>1
      <4> HIDE DEF cap, n
      <4>4. Append(Stretch(a, n - 1), n) = Stretch(a, n)
        BY <4>3, StretchEnds
      <4> QED
        BY <2>1, <3>3, <3>5, <4>2, <4>4
    <3> QED
      BY <3>4, <3>5
  <2> HIDE DEF cap
  <2> QED
    BY <1>0, <2>1
<1> HIDE DEF T
<1>5. T = Nat
  <2>1. T \in SUBSET Nat
    BY DEF T
  <2> QED
    BY <1>3, <1>4, <2>1, Induction
<1>6. kept[m] = Stretch(a, cap(m))
  <2> HIDE DEF cap
  <2> QED
    BY <1>0, <1>5 DEF T
<1> HIDE DEF cap
<1> QED
  BY <1>0, <1>1, <1>2, <1>6 DEF page

-----------------------------------------------------------------------------
(* The invariant of the window.                                            *)

\* What is shown and on its way is bounded as the transcripts are.
Bound == MaxLength + PageSize + 1

PageInHand(v) == v.newest # None /\ v.newest.page # None

Small(v) ==
    /\ v.window.items \in Seq(1..Bound)
    /\ v.window.cursor \in 2..Bound \cup {None}
    /\ PageInHand(v) => v.newest.page.end <= Bound
    /\ v.older # None => v.older.before \in 2..Bound
    /\ v.armed \in Targets \cup {None}

TInv ==
    /\ IInv
    /\ total \in [Convs -> 0..Bound] /\ signals \subseteq Targets
    /\ Small(rt)

\* The window holds the positions lo to hi of the open transcript t[v.loaded]:
\* no more than a page is missing at the end, and what is missing at the start
\* can be asked for, from the cursor, which is in the window.
Spanned(v, t, lo, hi) ==
    /\ v.loaded # None
    /\ v.window.items = Stretch(lo, hi) /\ lo <= PageStart(hi)
    /\ hi <= t[v.loaded] /\ t[v.loaded] <= hi + PageSize
    /\ IF v.window.cursor = None THEN lo = 1 ELSE v.window.cursor \in lo..hi
    /\ v.older # None => v.older.before \in lo..hi
    /\ PageInHand(v) => hi <= v.newest.page.end

Bare(v) == v.window.items = <<>> /\ v.window.cursor = None /\ ~v.window.paged /\ v.older = None

Whole(v, t) == Bare(v) \/ \E lo, hi \in 1..Bound : Spanned(v, t, lo, hi)

\* The page that was read is no further behind.
Near(v, t) ==
    PageInHand(v) => /\ v.newest.page.end <= t[v.loaded]
                     /\ t[v.loaded] <= v.newest.page.end + PageSize

\* The inductive invariant of the window.
HInv == TInv /\ Whole(rt, total) /\ Near(rt, total)

\* A page ends where it was asked to and starts no later.
LEMMA PageStartIs ==
    ASSUME NEW end \in Nat
    PROVE  /\ PageStart(end) \in Nat /\ 1 <= PageStart(end) /\ PageStart(end) <= end + 1
           /\ end >= 1 => PageStart(end) <= end
           /\ end + 1 - PageSize <= PageStart(end)
           /\ \A e \in Nat : e <= end => PageStart(e) <= PageStart(end)
           /\ Cursor(PageStart(end)) = None => PageStart(end) = 1
           /\ Cursor(PageStart(end)) # None =>
                 Cursor(PageStart(end)) = PageStart(end) /\ 2 <= PageStart(end) /\ 1 <= end
<1>1. PageSize \in Nat /\ PageSize >= 1 /\ None \notin Nat
  BY ConversationAssumption
<1> QED
  BY <1>1 DEF PageStart, Cursor

\* What a step may do to what is shown and to what is on its way.
LEMMA Steps ==
    ASSUME IInv, [Next]_vars
    PROVE  /\ \/ Follows(rt', rt)
              \/ LoadOlder \/ ReadNewest \/ (\E how \in Hows : NewestReady(how)) \/ OlderReady
           /\ total' = total \/ (rt' = rt /\ \E c \in Convs : Grow(c))
           /\ \A s \in signals' : s \in signals \/ (s = rt.armed /\ rt.armed # None)
<1> DEFINE Kind == \/ Follows(rt', rt)
                   \/ LoadOlder \/ ReadNewest \/ (\E how \in Hows : NewestReady(how))
                   \/ OlderReady
           Told == \A s \in signals' : s \in signals \/ (s = rt.armed /\ rt.armed # None)
           Goal == /\ Kind /\ Told
                   /\ total' = total \/ (rt' = rt /\ \E c \in Convs : Grow(c))
<1>1. Sound(rt)
  BY DEF IInv
<1>2. rt' = rt => Follows(rt', rt)
  BY DEF Follows, Same
<1>3. ASSUME NEW context \in Contexts \cup {None}, NEW how \in Hows, SetContext(context, how)
      PROVE  Goal
  <2>1. Follows(rt', rt)
    BY <1>1, <1>3, SetContextStep
  <2>2. total' = total /\ signals' = signals
    BY <1>3 DEF SetContext, Call, provider
  <2> QED
    BY <2>1, <2>2
<1>4. ASSUME NEW conv \in Convs \cup {None}, Select(conv)
      PROVE  Goal
  <2>1. Follows(rt', rt)
    BY <1>1, <1>4, SelectStep
  <2>2. total' = total /\ signals' = signals
    BY <1>4 DEF Select, Call, provider
  <2> QED
    BY <2>1, <2>2
<1>5. CASE Reload \/ Dispose
  <2>1. Follows(rt', rt)
    BY <1>1, <1>5, ReloadStep, DisposeStep
  <2>2. total' = total /\ signals' = signals
    BY <1>5 DEF Reload, Dispose, Call, provider
  <2> QED
    BY <2>1, <2>2
<1>6. CASE LoadOlder
  <2>1. total' = total /\ signals' = signals
    BY <1>6 DEF LoadOlder, Call, provider
  <2> QED
    BY <1>6, <2>1
<1>7. ASSUME NEW binding \in Convs \cup {None}, ListReady(binding)
      PROVE  Goal
  <2>1. Follows(rt', rt)
    BY <1>1, <1>7, ListReadyStep
  <2>2. total' = total /\ signals' = signals
    BY <1>7 DEF ListReady, Granted, Heard, provider
  <2> QED
    BY <2>1, <2>2
<1>8. CASE ListUnavailable \/ ListFails \/ NewestNotReady \/ NewestFails \/ OlderRefused
  <2>1. Follows(rt', rt)
    BY <1>1, <1>8, ListUnavailableStep, ListFailsStep, NewestNotReadyStep, NewestFailsStep,
       OlderRefusedStep
  <2>2. total' = total /\ signals' = signals
    BY <1>8 DEF ListUnavailable, ListFails, NewestNotReady, NewestFails, OlderRefused,
                Refused, Heard, provider
  <2> QED
    BY <2>1, <2>2
<1>9. CASE SettleRevoked
  <2>1. Follows(rt', rt)
    BY <1>1, <1>9, SettleRevokedStep
  <2>2. total' = total /\ signals' = signals
    BY <1>9 DEF SettleRevoked, Granted, Heard, provider
  <2> QED
    BY <2>1, <2>2
<1>10. CASE ReadNewest \/ OlderReady
  <2>1. total' = total /\ signals' = signals
    BY <1>10 DEF ReadNewest, OlderReady, Granted, Heard, provider
  <2> QED
    BY <1>10, <2>1
<1>11. ASSUME NEW how \in Hows, NewestReady(how)
       PROVE  Goal
  <2>1. total' = total /\ signals' = signals
    BY <1>11 DEF NewestReady, Granted, Heard, provider
  <2> QED
    BY <1>11, <2>1
<1>12. CASE Tick
  <2>1. rt.armed # None /\ rt' = Poll(rt) /\ total' = total /\ signals' = signals
    BY <1>12 DEF Tick, Granted, Heard, provider
  <2> QED
    BY <1>1, <2>1, PollStep
<1>13. ASSUME NEW s \in signals, Signal(s)
       PROVE  Goal
  <2>1. rt' = rt \/ (rt.armed # None /\ rt' = Poll(rt))
    BY <1>13 DEF Signal
  <2>2. Follows(rt', rt)
    BY <1>1, <1>2, <2>1, PollStep
  <2>3. total' = total /\ signals' = signals \ {s}
    BY <1>13 DEF Signal, provider
  <2> QED
    BY <2>2, <2>3
<1>14. ASSUME NEW c \in Convs, Grow(c) \/ End(c)
       PROVE  Goal
  <2>1. rt' = rt /\ Tell(c) /\ (Grow(c) \/ total' = total)
    BY <1>14 DEF Grow, End
  <2>2. Told
    BY <2>1 DEF Tell
  <2> QED
    BY <1>2, <2>1, <2>2
<1>15. CASE UNCHANGED vars
  BY <1>2, <1>15 DEF vars
<1> QED
  BY <1>3, <1>4, <1>5, <1>6, <1>7, <1>8, <1>9, <1>10, <1>11, <1>12, <1>13, <1>14, <1>15
     DEF Next

\* The numbers the bounds are made of.
LEMMA Bounds ==
    /\ PageSize \in Nat /\ PageSize >= 1 /\ MaxLength \in Nat /\ Bound \in Nat
    /\ MaxLength < Bound /\ PageSize + 1 <= Bound /\ None \notin Nat
  BY ConversationAssumption DEF Bound

\* The items of a page that are not held are positions.
LEMMA NewItems ==
    ASSUME NEW end \in Nat, end <= Bound, NEW w
    PROVE  NotIn(Stretch(PageStart(end), end), w) \in Seq(1..Bound)
<1> DEFINE lo == PageStart(end)
           m == end + 1 - lo
<1>1. lo \in Nat /\ 1 <= lo /\ m \in Nat /\ m = end + 1 - lo
  BY PageStartIs
<1> HIDE DEF m, lo
<1>2. Stretch(lo, end) \in Seq(lo..end)
  BY <1>1, StretchIs
<1>3. \A n \in lo..end : n \in 1..Bound
  BY <1>1, Bounds
<1>4. Stretch(lo, end) \in Seq(1..Bound)
  <2>1. lo..end \subseteq 1..Bound
    BY <1>3
  <2> QED
    BY <1>2, <2>1, SeqMonotonic
<1> QED
  BY <1>4, NotInTypes DEF lo

\* So is the cursor of a page.
LEMMA NewCursor ==
    ASSUME NEW end \in Nat, end <= Bound
    PROVE  Cursor(PageStart(end)) \in 2..Bound \cup {None}
<1>1. PageStart(end) <= end \/ end < 1
  BY PageStartIs
<1> QED
  BY <1>1, PageStartIs, Bounds

\* What is new comes after what is held.
LEMMA NewestShown ==
    LET end == rt.newest.page.end
        new == NotIn(Stretch(PageStart(end), end), rt.window)
    IN  rt'.window = WithNewest(rt.window, Of(rt), PageStart(end), end) =>
            /\ rt'.window.items = rt.window.items \o new
            /\ rt'.window.cursor = (IF rt.window.paged THEN rt.window.cursor
                                   ELSE Cursor(PageStart(end)))
            /\ rt'.window.paged = rt.window.paged
<1> DEFINE end == rt.newest.page.end
           x == rt.window.items \o NotIn(Stretch(PageStart(end), end), rt.window)
           c == IF rt.window.paged THEN rt.window.cursor ELSE Cursor(PageStart(end))
           f == rt.window.from \cup {Of(rt)}
<1>1. WithNewest(rt.window, Of(rt), PageStart(end), end)
        = [items |-> x, cursor |-> c, paged |-> rt.window.paged, from |-> f]
  BY Zenon DEF WithNewest
<1> HIDE DEF x, c, f
<1>2. rt'.window = WithNewest(rt.window, Of(rt), PageStart(end), end) =>
          rt'.window.items = x /\ rt'.window.cursor = c /\ rt'.window.paged = rt.window.paged
  BY <1>1
<1> QED
  BY <1>2, Zenon DEF x, c

\* And before it.
LEMMA OlderShown ==
    LET end == rt.older.before - 1
        new == NotIn(Stretch(PageStart(end), end), rt.window)
    IN  rt'.window = WithOlder(rt.window, Of(rt), PageStart(end), end) =>
            /\ rt'.window.items = new \o rt.window.items
            /\ rt'.window.cursor = Cursor(PageStart(end))
            /\ rt'.window.paged = TRUE
<1> DEFINE end == rt.older.before - 1
           x == NotIn(Stretch(PageStart(end), end), rt.window) \o rt.window.items
           f == rt.window.from \cup {Of(rt)}
<1>1. WithOlder(rt.window, Of(rt), PageStart(end), end)
        = [items |-> x, cursor |-> Cursor(PageStart(end)), paged |-> TRUE, from |-> f]
  BY Zenon DEF WithOlder
<1> HIDE DEF x, f
<1>2. rt'.window = WithOlder(rt.window, Of(rt), PageStart(end), end) =>
          /\ rt'.window.items = x /\ rt'.window.cursor = Cursor(PageStart(end))
          /\ rt'.window.paged = TRUE
  BY <1>1
<1> QED
  BY <1>2, Zenon DEF x

\* The bounds hold at the start.
LEMMA InitBounds == Init => TInv
<1> SUFFICES ASSUME Init PROVE TInv
  OBVIOUS
<1>1. rt = Fresh /\ total \in [Convs -> {0, PageSize + 1}] /\ signals = {}
  BY DEF Init
<1>2. Small(rt)
  <2>1. <<>> \in Seq(1..Bound)
    OBVIOUS
  <2> QED
    BY <1>1, <2>1 DEF Small, Fresh, EmptyWindow, PageInHand
<1>3. total \in [Convs -> 0..Bound]
  BY <1>1, Bounds
<1> QED
  BY <1>1, <1>2, <1>3, InitInv DEF TInv

\* Every step keeps them.
LEMMA NextBounds == TInv /\ [Next]_vars => TInv'
<1> SUFFICES ASSUME TInv, [Next]_vars PROVE TInv'
  OBVIOUS
<1>1. /\ IInv /\ Sound(rt) /\ Small(rt) /\ total \in [Convs -> 0..Bound] /\ signals \subseteq Targets
      /\ total \in [Convs -> Nat] /\ live \in [Convs -> BOOLEAN]
  BY DEF TInv, IInv
<1>2. IInv'
  BY <1>1, NextInv
<1>3. signals' \subseteq Targets
  BY <1>1, Steps DEF Small
<1>4. total' \in [Convs -> 0..Bound]
  <2>1. CASE total' = total
    BY <1>1, <2>1
  <2>2. ASSUME NEW c \in Convs, Grow(c) PROVE total' \in [Convs -> 0..Bound]
    <3>1. total[c] < MaxLength /\ total' = [total EXCEPT ![c] = @ + 1]
      BY <2>2 DEF Grow
    <3>2. total[c] + 1 \in 0..Bound
      BY <1>1, <3>1, Bounds
    <3> QED
      BY <1>1, <3>1, <3>2
  <2> QED
    BY <1>1, <2>1, <2>2, Steps
<1>5. Small(rt')
  <2>1. CASE Follows(rt', rt)
    <3>1. CASE Same(rt', rt)
      BY <1>1, <3>1 DEF Small, Same, NoPage, PageInHand
    <3>2. CASE Left(rt', rt)
      <4>1. <<>> \in Seq(1..Bound)
        OBVIOUS
      <4> QED
        BY <3>2, <4>1 DEF Small, Left, NoPage, PageInHand, EmptyWindow
    <3> QED
      BY <2>1, <3>1, <3>2 DEF Follows
  <2>2. CASE LoadOlder
    <3>1. /\ rt.window.cursor # None /\ rt'.window = rt.window /\ rt'.newest = rt.newest
          /\ rt'.armed = rt.armed /\ rt'.older.before = rt.window.cursor
      BY <1>1, <2>2, LoadOlderStep
    <3> QED
      BY <1>1, <3>1 DEF Small, PageInHand
  <2>3. CASE ReadNewest
    <3>1. /\ rt'.window = rt.window /\ rt'.older = rt.older /\ rt'.armed = rt.armed
          /\ rt.newest.of = Of(rt) /\ rt'.newest # None
          /\ rt'.newest.page.end = total[rt.newest.of.conv]
      BY <1>1, <2>3, ReadNewestStep
    <3>2. rt.newest \in Reads
      BY <1>1, <2>3 DEF Sound, Good, Types, ReadNewest
    <3>3. rt'.newest.page.end \in 0..Bound
      BY <1>1, <3>1, <3>2 DEF Reads, Names
    <3> QED
      BY <1>1, <3>1, <3>3, Bounds DEF Small, PageInHand
  <2>4. ASSUME NEW how \in Hows, NewestReady(how) PROVE Small(rt')
    <3> DEFINE end == rt.newest.page.end
               new == NotIn(Stretch(PageStart(end), end), rt.window)
    <3>1. /\ rt.newest.page \in Pages
          /\ rt'.older \in {rt.older, None} /\ NoPage(rt')
          /\ rt'.window = WithNewest(rt.window, Of(rt), PageStart(end), end)
          /\ rt'.armed \in {rt.armed, None} \cup Targets
      BY <1>1, <2>4, NewestReadyStep
    <3>2. end \in Nat /\ end <= Bound
      BY <1>1, <2>4, <3>1 DEF Pages, Small, PageInHand, NewestReady
    <3>3. new \in Seq(1..Bound)
      BY <3>2, NewItems
    <3>4. Cursor(PageStart(end)) \in 2..Bound \cup {None}
      BY <3>2, NewCursor
    <3>5. /\ rt'.window.items = rt.window.items \o new
          /\ rt'.window.cursor \in {rt.window.cursor, Cursor(PageStart(end))}
      BY <3>1, NewestShown, Zenon
    <3> HIDE DEF new, end
    <3>6. rt.window.items \o new \in Seq(1..Bound)
      BY <1>1, <3>3 DEF Small
    <3> QED
      BY <1>1, <3>1, <3>4, <3>5, <3>6 DEF Small, PageInHand, NoPage
  <2>5. CASE OlderReady
    <3> DEFINE end == rt.older.before - 1
               new == NotIn(Stretch(PageStart(end), end), rt.window)
    <3>1. /\ rt.older # None /\ rt'.older = None
          /\ rt'.newest = rt.newest /\ rt'.armed = rt.armed
          /\ rt'.window = WithOlder(rt.window, Of(rt), PageStart(end), end)
      BY <1>1, <2>5, OlderReadyStep
    <3>2. end \in Nat /\ end <= Bound
      BY <1>1, <3>1, Bounds DEF Small
    <3>3. new \in Seq(1..Bound)
      BY <3>2, NewItems
    <3>4. Cursor(PageStart(end)) \in 2..Bound \cup {None}
      BY <3>2, NewCursor
    <3>5. /\ rt'.window.items = new \o rt.window.items
          /\ rt'.window.cursor = Cursor(PageStart(end))
      BY <3>1, OlderShown, Zenon
    <3> HIDE DEF new, end
    <3>6. new \o rt.window.items \in Seq(1..Bound)
      BY <1>1, <3>3 DEF Small
    <3> QED
      BY <1>1, <3>1, <3>4, <3>5, <3>6 DEF Small, PageInHand
  <2> QED
    BY <1>1, <2>1, <2>2, <2>3, <2>4, <2>5, Steps
<1> QED
  BY <1>2, <1>3, <1>4, <1>5 DEF TInv, Small, PageInHand, Bound, Targets, Names, Keys, Sources

\* In every behaviour.
LEMMA Bounded == Spec => []TInv
  BY InitBounds, NextBounds, PTL DEF Spec

\* Nothing before it leaves a stretch as it is.
LEMMA StretchAfterNone ==
    ASSUME NEW lo \in Int, NEW hi \in Int, lo <= hi + 1
    PROVE  <<>> \o Stretch(lo, hi) = Stretch(lo, hi)
<1> DEFINE m == hi + 1 - lo
<1>1. m \in Nat /\ m = hi + 1 - lo
  OBVIOUS
<1> HIDE DEF m
<1>2. Stretch(lo, hi) \in Seq(Int)
  BY <1>1, StretchIs
<1> QED
  BY <1>2, ConcatEmptySeq

\* A page that ends a transcript, read into a window that held none.
LEMMA FirstPage ==
    ASSUME NEW end \in Nat, NEW w, w.items = <<>>
    PROVE  NotIn(Stretch(PageStart(end), end), w) = Stretch(PageStart(end), end)
<1>1. Held(w) = {}
  BY DEF Held
<1>2. PageStart(end) \in Int /\ PageStart(end) <= end + 1
  BY PageStartIs
<1> HIDE DEF PageStart
<1> QED
  BY <1>1, <1>2, NotInStretch

\* What a page that is read later adds at the end of a window.
LEMMA NewestPage ==
    ASSUME NEW lo \in Nat, NEW hi \in Nat, NEW end \in Nat, NEW w,
           w.items = Stretch(lo, hi), lo <= PageStart(hi), hi <= end, end <= hi + PageSize,
           1 <= hi
    PROVE  NotIn(Stretch(PageStart(end), end), w) = Stretch(hi + 1, end)
<1> DEFINE ps == PageStart(end)
<1>1. /\ ps \in Int /\ lo <= ps /\ ps <= hi + 1 /\ lo <= hi
      /\ hi + 1 \in Int /\ hi + 1 <= end + 1 /\ lo <= hi + 1
  <2>1. /\ ps \in Nat /\ ps <= end + 1 /\ 1 <= ps /\ PageStart(hi) <= ps
        /\ PageStart(hi) \in Nat /\ PageStart(hi) <= hi
    BY PageStartIs
  <2>2. ps <= hi + 1
    <3>1. PageSize \in Nat
      BY Bounds
    <3> QED
      BY <3>1 DEF PageStart
  <2> HIDE DEF ps
  <2> QED
    BY <2>1, <2>2
<1> HIDE DEF ps
<1>2. Held(w) = lo..hi
  BY <1>1, HeldStretch
<1>3. \A n \in ps..end : n \in Held(w) <=> ~ (hi + 1 <= n /\ n <= end)
  BY <1>1, <1>2
<1>4. NotIn(Stretch(ps, end), w) = Stretch(hi + 1, end)
  BY <1>1, <1>3, NotInStretch
<1> QED
  BY <1>4 DEF ps

\* What a page before the window adds at its start.
LEMMA OlderPage ==
    ASSUME NEW lo \in Nat, NEW hi \in Nat, NEW end \in Nat, NEW w,
           w.items = Stretch(lo, hi), lo <= hi, lo <= end + 1, end < hi
    PROVE  LET start == PageStart(end)
               new   == NotIn(Stretch(start, end), w)
           IN  \/ start < lo /\ new = Stretch(start, lo - 1)
               \/ ~ (start < lo) /\ new = <<>>
<1> DEFINE ps == PageStart(end)
<1>1. ps \in Int /\ ps <= end + 1 /\ lo \in Int /\ lo - 1 \in Int /\ end + 1 \in Int
  BY PageStartIs
<1> HIDE DEF ps
<1>2. Held(w) = lo..hi
  BY HeldStretch
<1>3. CASE ps < lo
  <2>1. \A n \in ps..end : n \in Held(w) <=> ~ (ps <= n /\ n <= lo - 1)
    BY <1>1, <1>2
  <2>2. NotIn(Stretch(ps, end), w) = Stretch(ps, lo - 1)
    BY <1>1, <1>3, <2>1, NotInStretch
  <2> QED
    BY <1>3, <2>2 DEF ps
<1>4. CASE ~ (ps < lo)
  <2>1. \A n \in ps..end : n \in Held(w) <=> ~ (end + 1 <= n /\ n <= end)
    BY <1>1, <1>2, <1>4
  <2>2. NotIn(Stretch(ps, end), w) = Stretch(end + 1, end)
    BY <1>1, <2>1, NotInStretch
  <2>3. Stretch(end + 1, end + 1 - 1) = <<>> /\ end + 1 - 1 = end
    BY <1>1, StretchEnds
  <2> QED
    BY <1>4, <2>2, <2>3 DEF ps
<1> QED
  BY <1>3, <1>4

\* A window has its last item, and it is its greatest.
LEMMA SpannedHolds ==
    ASSUME NEW v, NEW t, NEW lo \in 1..Bound, NEW hi \in 1..Bound, Spanned(v, t, lo, hi)
    PROVE  lo <= hi /\ Held(v.window) = lo..hi
<1>1. lo \in Nat /\ hi \in Nat /\ hi >= 1
  BY Bounds
<1>2. lo <= hi
  <2>1. lo <= PageStart(hi) /\ PageStart(hi) \in Nat /\ PageStart(hi) <= hi
    BY <1>1, PageStartIs DEF Spanned
  <2> QED
    BY <1>1, <2>1
<1>3. Held(v.window) = lo..hi
  BY <1>1, <1>2, HeldStretch DEF Spanned
<1> QED
  BY <1>2, <1>3

\* The window is whole at the start.
LEMMA InitWhole == Init => HInv
<1> SUFFICES ASSUME Init PROVE HInv
  OBVIOUS
<1>1. rt = Fresh
  BY DEF Init
<1>2. Whole(rt, total) /\ Near(rt, total)
  BY <1>1 DEF Whole, Bare, Near, PageInHand, Fresh, EmptyWindow
<1> QED
  BY <1>2, InitBounds DEF HInv

\* What shows no more keeps the window whole.
LEMMA WholeFollows ==
    ASSUME NEW v, NEW u, NEW t, Whole(v, t), Near(v, t), Follows(u, v)
    PROVE  Whole(u, t) /\ Near(u, t)
<1>1. CASE Same(u, v)
  <2>1. Near(u, t)
    BY <1>1 DEF Same, NoPage, Near, PageInHand
  <2>2. Bare(v) => Bare(u)
    BY <1>1 DEF Same, Bare
  <2>3. ASSUME NEW lo \in 1..Bound, NEW hi \in 1..Bound, Spanned(v, t, lo, hi)
        PROVE  Spanned(u, t, lo, hi)
    BY <1>1, <2>3 DEF Same, NoPage, Spanned, PageInHand
  <2> QED
    BY <2>1, <2>2, <2>3 DEF Whole
<1>2. CASE Left(u, v)
  BY <1>2 DEF Left, NoPage, Whole, Bare, Near, PageInHand, EmptyWindow
<1> QED
  BY <1>1, <1>2 DEF Follows

\* The newest page is applied.
LEMMA WholeNewest ==
    ASSUME HInv, NEW how, NewestReady(how)
    PROVE  Whole(rt', total) /\ Near(rt', total)
<1> DEFINE end == rt.newest.page.end
           ps == PageStart(end)
           N == total[rt.loaded]
<1>1. /\ Sound(rt) /\ Small(rt) /\ Near(rt, total) /\ Whole(rt, total)
      /\ rt.newest # None /\ PageInHand(rt)
  BY DEF HInv, TInv, IInv, NewestReady, PageInHand
<1>2. rt.loaded # None /\ rt.loaded \in Convs /\ N \in Nat
  <2>1. rt.loaded \in Convs
    BY <1>1 DEF Sound, Good, Closed, Types
  <2> QED
    BY <1>1, <2>1, Bounds DEF Sound, Good, Closed, HInv, TInv
<1>3. /\ rt.newest.page \in Pages
      /\ rt'.loaded = rt.loaded /\ rt'.older \in {rt.older, None} /\ NoPage(rt')
      /\ rt'.window = WithNewest(rt.window, Of(rt), ps, end)
  BY <1>1, NewestReadyStep
<1>4. end \in Nat /\ end <= Bound /\ end <= N /\ N <= end + PageSize
  BY <1>1, <1>3 DEF Pages, Small, Near
<1>5. /\ rt'.window.items = rt.window.items \o NotIn(Stretch(ps, end), rt.window)
      /\ rt'.window.cursor = (IF rt.window.paged THEN rt.window.cursor ELSE Cursor(ps))
      /\ rt'.window.paged = rt.window.paged
  BY <1>3, NewestShown, Zenon
<1>6. Near(rt', total) /\ ~PageInHand(rt')
  BY <1>3 DEF NoPage, Near, PageInHand
<1>7. /\ ps \in Nat /\ 1 <= ps /\ (end >= 1 => ps <= end) /\ ps <= end + 1
      /\ Cursor(ps) = None => ps = 1
      /\ Cursor(ps) # None => Cursor(ps) = ps /\ 1 <= end
  BY <1>4, PageStartIs
<1> HIDE DEF N
<1>8. CASE Bare(rt)
  <2>1. NotIn(Stretch(ps, end), rt.window) = Stretch(ps, end)
    BY <1>4, <1>8, FirstPage DEF Bare
  <2>2. rt'.window.items = Stretch(ps, end)
    <3>1. <<>> \o Stretch(ps, end) = Stretch(ps, end)
      <4> HIDE DEF ps, end
      <4> QED
        BY <1>4, <1>7, StretchAfterNone
    <3> QED
      BY <1>5, <1>8, <2>1, <3>1, Zenon DEF Bare
  <2>3. CASE end = 0
    <3>1. ps = 1 /\ Cursor(ps) = None /\ end = 1 - 1
      BY <1>7, <2>3
    <3>2. Stretch(ps, end) = <<>>
      BY <3>1, StretchEnds
    <3>3. Bare(rt')
      BY <1>3, <1>5, <1>8, <2>2, <3>1, <3>2 DEF Bare
    <3> QED
      BY <1>6, <3>3 DEF Whole
  <2>4. CASE end # 0
    <3>1. end \in 1..Bound /\ ps \in 1..Bound /\ ps <= end
      BY <1>4, <1>7, <2>4, Bounds
    <3>2. Spanned(rt', total, ps, end)
      BY <1>2, <1>3, <1>4, <1>5, <1>6, <1>7, <1>8, <2>2, <3>1 DEF Spanned, Bare, N
    <3> QED
      BY <1>6, <3>1, <3>2 DEF Whole
  <2> QED
    BY <2>3, <2>4
<1>9. ASSUME NEW lo \in 1..Bound, NEW hi \in 1..Bound, Spanned(rt, total, lo, hi)
      PROVE  Whole(rt', total)
  <2>1. lo <= hi /\ lo \in Nat /\ hi \in Nat /\ 1 <= lo /\ 1 <= hi
    BY <1>9, SpannedHolds, Bounds
  <2>2. hi <= end /\ end <= hi + PageSize /\ hi <= N /\ N <= hi + PageSize
        /\ lo <= PageStart(hi) /\ rt.window.items = Stretch(lo, hi)
    BY <1>1, <1>2, <1>4, <1>9, <2>1, Bounds DEF Spanned, N
  <2>3. rt'.window.items = Stretch(lo, end)
    <3>1. NotIn(Stretch(ps, end), rt.window) = Stretch(hi + 1, end)
      BY <1>4, <2>1, <2>2, NewestPage
    <3>2. Stretch(lo, hi) \o Stretch(hi + 1, end) = Stretch(lo, end)
      <4> HIDE DEF end
      <4> QED
        BY <1>4, <2>1, <2>2, StretchConcat
    <3> QED
      BY <1>5, <2>2, <3>1, <3>2, Zenon
  <2>4. lo <= ps /\ end \in 1..Bound
    <3>1. PageStart(hi) <= ps /\ PageStart(hi) \in Nat
      BY <1>4, <2>1, <2>2, PageStartIs
    <3> QED
      BY <1>4, <1>7, <2>1, <2>2, <3>1, Bounds
  <2>5. IF rt'.window.cursor = None THEN lo = 1 ELSE rt'.window.cursor \in lo..end
    <3>1. CASE rt.window.paged
      BY <1>4, <1>5, <1>9, <2>1, <2>2, <3>1 DEF Spanned
    <3>2. CASE ~rt.window.paged
      <4>1. rt'.window.cursor = Cursor(ps)
        BY <1>5, <3>2
      <4>2. CASE Cursor(ps) = None
        BY <1>7, <2>1, <2>4, <4>1, <4>2
      <4>3. CASE Cursor(ps) # None
        BY <1>4, <1>7, <2>1, <2>4, <4>1, <4>3
      <4> QED
        BY <4>2, <4>3
    <3> QED
      BY <3>1, <3>2
  <2>6. rt'.older # None => rt'.older.before \in lo..end
    BY <1>3, <1>4, <1>9, <2>1, <2>2 DEF Spanned
  <2>7. Spanned(rt', total, lo, end)
    BY <1>2, <1>3, <1>4, <1>6, <2>3, <2>4, <2>5, <2>6 DEF Spanned, N
  <2> QED
    BY <2>4, <2>7 DEF Whole
<1> QED
  BY <1>1, <1>6, <1>8, <1>9 DEF Whole

\* A page before the window is applied.
LEMMA WholeOlder ==
    ASSUME HInv, OlderReady
    PROVE  Whole(rt', total) /\ Near(rt', total)
<1> DEFINE end == rt.older.before - 1
           ps == PageStart(end)
<1>1. /\ Sound(rt) /\ Small(rt) /\ Near(rt, total) /\ Whole(rt, total)
  BY DEF HInv, TInv, IInv
<1>2. /\ rt.older # None /\ rt'.loaded = rt.loaded /\ rt'.older = None
      /\ rt'.newest = rt.newest
      /\ rt'.window = WithOlder(rt.window, Of(rt), ps, end)
  BY <1>1, OlderReadyStep
<1>3. rt.older.before \in 2..Bound
  BY <1>1, <1>2 DEF Small
<1>4. /\ rt'.window.items = NotIn(Stretch(ps, end), rt.window) \o rt.window.items
      /\ rt'.window.cursor = Cursor(ps)
  BY <1>2, OlderShown, Zenon
<1>5. PICK lo \in 1..Bound, hi \in 1..Bound : Spanned(rt, total, lo, hi)
  BY <1>1, <1>2 DEF Whole, Bare
<1>6. /\ lo <= hi /\ lo \in Nat /\ hi \in Nat /\ 1 <= lo /\ lo <= PageStart(hi)
      /\ rt.older.before \in lo..hi /\ rt.window.items = Stretch(lo, hi)
  BY <1>2, <1>5, SpannedHolds, Bounds DEF Spanned
<1>7. end \in Nat /\ 1 <= end /\ end < hi /\ lo <= end + 1 /\ end + 1 = rt.older.before
  BY <1>3, <1>6, Bounds
<1>8. /\ ps \in Nat /\ 1 <= ps /\ ps <= end /\ ps <= hi
      /\ Cursor(ps) = None => ps = 1
      /\ Cursor(ps) # None => Cursor(ps) = ps
  <2> HIDE DEF end
  <2>1. /\ ps \in Nat /\ 1 <= ps /\ ps <= end
        /\ Cursor(ps) = None => ps = 1
        /\ Cursor(ps) # None => Cursor(ps) = ps
    BY <1>7, PageStartIs
  <2> HIDE DEF ps
  <2> QED
    BY <1>6, <1>7, <2>1
<1>9. ps <= PageStart(hi) /\ PageStart(hi) \in Nat
  <2> HIDE DEF end
  <2> QED
    BY <1>6, <1>7, PageStartIs
<1>10. Near(rt', total)
  BY <1>1, <1>2 DEF Near, PageInHand
<1> DEFINE low == IF ps < lo THEN ps ELSE lo
<1>11. rt'.window.items = Stretch(low, hi)
  <2> HIDE DEF end
  <2> DEFINE new == NotIn(Stretch(ps, end), rt.window)
  <2>1. \/ ps < lo /\ new = Stretch(ps, lo - 1)
        \/ ~ (ps < lo) /\ new = <<>>
    BY <1>6, <1>7, OlderPage
  <2> HIDE DEF ps
  <2>2. CASE ps < lo /\ new = Stretch(ps, lo - 1)
    <3>1. lo - 1 + 1 = lo /\ low = ps /\ ps \in Int /\ lo - 1 \in Int /\ hi \in Int
          /\ ps <= lo - 1 + 1 /\ lo - 1 <= hi
      BY <1>6, <1>8, <2>2
    <3>2. Stretch(ps, lo - 1) \o Stretch(lo - 1 + 1, hi) = Stretch(ps, hi)
      BY <3>1, StretchConcat
    <3> QED
      BY <1>4, <1>6, <2>2, <3>1, <3>2, Zenon
  <2>3. CASE ~ (ps < lo) /\ new = <<>>
    <3>1. low = lo /\ lo <= hi + 1
      BY <1>6, <2>3
    <3>2. <<>> \o Stretch(lo, hi) = Stretch(lo, hi)
      BY <1>6, <3>1, StretchAfterNone
    <3> QED
      BY <1>4, <1>6, <2>3, <3>1, <3>2, Zenon
  <2> QED
    BY <2>1, <2>2, <2>3
<1> HIDE DEF end, ps
<1>12. low \in 1..Bound /\ low <= PageStart(hi)
       /\ IF rt'.window.cursor = None THEN low = 1 ELSE rt'.window.cursor \in low..hi
  <2>1. CASE Cursor(ps) = None
    BY <1>4, <1>6, <1>8, <1>9, <2>1, Bounds
  <2>2. CASE Cursor(ps) # None
    BY <1>4, <1>6, <1>8, <1>9, <2>2, Bounds
  <2> QED
    BY <2>1, <2>2
<1> HIDE DEF low
<1>13. Spanned(rt', total, low, hi)
  BY <1>2, <1>5, <1>11, <1>12 DEF Spanned, PageInHand
<1> QED
  BY <1>10, <1>12, <1>13 DEF Whole

\* Unless a transcript grows by more than a page between two reads, no item is
\* past the reach of the next one.
LEMMA WholeGrow ==
    ASSUME HInv, "burst" \notin Events, NEW c \in Convs, Grow(c)
    PROVE  Whole(rt, total') /\ Near(rt, total')
<1>1. /\ Sound(rt) /\ Whole(rt, total) /\ Near(rt, total) /\ total \in [Convs -> 0..Bound]
  BY DEF HInv, TInv, IInv
<1> DEFINE known == Held(rt.window) \cup
                      IF rt.newest # None /\ rt.newest.page # None THEN {rt.newest.page.end} ELSE {}
<1>2. /\ total' = [total EXCEPT ![c] = @ + 1]
      /\ rt.loaded = c => \A n \in known : total[c] = n + PageSize
                                 => \E m \in Held(rt.window) : ~ (m <= n)
  BY DEF Grow
<1>3. CASE rt.loaded # c
  <2>1. rt.loaded # None => total'[rt.loaded] = total[rt.loaded]
    BY <1>1, <1>2, <1>3 DEF Sound, Good, Types
  <2>2. PageInHand(rt) => rt.loaded # None
    BY <1>1 DEF PageInHand, Sound, Good, Closed
  <2>3. Near(rt, total')
    BY <1>1, <2>1, <2>2 DEF Near
  <2>4. ASSUME NEW lo \in 1..Bound, NEW hi \in 1..Bound, Spanned(rt, total, lo, hi)
        PROVE  Spanned(rt, total', lo, hi)
    BY <2>1, <2>4 DEF Spanned
  <2> QED
    BY <1>1, <2>3, <2>4 DEF Whole
<1>4. CASE rt.loaded = c
  <2>1. total'[c] = total[c] + 1 /\ total[c] \in Nat
    BY <1>1, <1>2, Bounds
  <2>2. ASSUME NEW lo \in 1..Bound, NEW hi \in 1..Bound, Spanned(rt, total, lo, hi)
        PROVE  Spanned(rt, total', lo, hi)
    <3>1. lo <= hi /\ Held(rt.window) = lo..hi /\ hi \in Nat /\ lo \in Nat
      BY <2>2, SpannedHolds, Bounds
    <3>2. total[c] # hi + PageSize
      BY <1>2, <1>4, <3>1
    <3>3. hi <= total[c] /\ total[c] <= hi + PageSize
      BY <1>4, <2>2 DEF Spanned
    <3>4. hi <= total'[c] /\ total'[c] <= hi + PageSize
      BY <2>1, <3>1, <3>2, <3>3, Bounds
    <3> QED
      BY <1>4, <2>2, <3>4 DEF Spanned
  <2>3. Near(rt, total')
    <3> SUFFICES ASSUME PageInHand(rt) PROVE Near(rt, total')
      BY DEF Near
    <3> DEFINE n == rt.newest.page.end
    <3>1. n \in Nat /\ n \in known
      BY <1>1 DEF PageInHand, Sound, Good, Types, Reads, Pages
    <3>2. n <= total[c] /\ total[c] <= n + PageSize
      BY <1>1, <1>4 DEF Near
    <3>3. \A m \in Held(rt.window) : m <= n
      <4>1. Bare(rt) => Held(rt.window) = {}
        BY DEF Bare, Held
      <4>2. ASSUME NEW lo \in 1..Bound, NEW hi \in 1..Bound, Spanned(rt, total, lo, hi)
            PROVE  \A m \in Held(rt.window) : m <= n
        <5>1. Held(rt.window) = lo..hi /\ hi <= n /\ lo \in Nat /\ hi \in Nat
          BY <4>2, SpannedHolds, Bounds DEF Spanned
        <5> QED
          BY <3>1, <5>1
      <4> QED
        BY <1>1, <4>1, <4>2 DEF Whole
    <3>4. total[c] # n + PageSize
      BY <1>2, <1>4, <3>1, <3>3
    <3> HIDE DEF n
    <3>5. n <= total'[c] /\ total'[c] <= n + PageSize
      BY <2>1, <3>1, <3>2, <3>4, Bounds
    <3> QED
      BY <1>4, <3>5 DEF Near, n
  <2>4. Bare(rt) => Whole(rt, total')
    BY DEF Whole
  <2> QED
    BY <1>1, <2>2, <2>3, <2>4 DEF Whole
<1> QED
  BY <1>3, <1>4

\* Every step keeps the window whole.
LEMMA NextWhole == ASSUME "burst" \notin Events PROVE HInv /\ [Next]_vars => HInv'
<1> SUFFICES ASSUME HInv, [Next]_vars PROVE HInv'
  OBVIOUS
<1>1. /\ TInv /\ IInv /\ Sound(rt) /\ Small(rt) /\ Whole(rt, total) /\ Near(rt, total)
      /\ total \in [Convs -> 0..Bound] /\ total \in [Convs -> Nat]
      /\ live \in [Convs -> BOOLEAN]
  BY DEF HInv, TInv, IInv
<1>2. TInv'
  BY <1>1, NextBounds
<1>3. CASE total' = total
  <2> SUFFICES Whole(rt', total) /\ Near(rt', total)
    BY <1>2, <1>3 DEF HInv
  <2>1. CASE Follows(rt', rt)
    BY <1>1, <2>1, WholeFollows
  <2>2. CASE LoadOlder
    <3>1. /\ rt.window.cursor # None /\ rt'.older # None
          /\ rt'.loaded = rt.loaded /\ rt'.window = rt.window /\ rt'.newest = rt.newest
          /\ rt'.older.before = rt.window.cursor
      BY <1>1, <2>2, LoadOlderStep
    <3>2. Near(rt', total)
      BY <1>1, <3>1 DEF Near, PageInHand
    <3>3. PICK lo \in 1..Bound, hi \in 1..Bound : Spanned(rt, total, lo, hi)
      BY <1>1, <3>1 DEF Whole, Bare
    <3>4. Spanned(rt', total, lo, hi)
      BY <3>1, <3>3 DEF Spanned, PageInHand
    <3> QED
      BY <3>2, <3>4 DEF Whole
  <2>3. CASE ReadNewest
    <3>1. /\ rt'.loaded = rt.loaded /\ rt'.window = rt.window /\ rt'.older = rt.older
          /\ rt.newest.of = Of(rt) /\ rt'.newest # None
          /\ rt'.newest.page.end = total[rt.newest.of.conv]
      BY <1>1, <2>3, ReadNewestStep
    <3>2. rt'.newest.page.end = total[rt.loaded] /\ rt.loaded \in Convs
      BY <1>1, <2>3, <3>1 DEF Of, ReadNewest, Sound, Good, Closed, Types
    <3>3. total[rt.loaded] \in Nat
      BY <1>1, <3>2
    <3>4. Near(rt', total)
      BY <3>1, <3>2, <3>3, Bounds DEF Near
    <3>5. ASSUME NEW lo \in 1..Bound, NEW hi \in 1..Bound, Spanned(rt, total, lo, hi)
          PROVE  Spanned(rt', total, lo, hi)
      BY <3>1, <3>2, <3>5 DEF Spanned
    <3>6. Bare(rt) => Bare(rt')
      BY <3>1 DEF Bare
    <3> QED
      BY <1>1, <3>4, <3>5, <3>6 DEF Whole
  <2>4. ASSUME NEW how \in Hows, NewestReady(how)
        PROVE  Whole(rt', total) /\ Near(rt', total)
    BY <2>4, WholeNewest
  <2>5. CASE OlderReady
    BY <2>5, WholeOlder
  <2> QED
    BY <1>1, <2>1, <2>2, <2>3, <2>4, <2>5, Steps
<1>4. ASSUME NEW c \in Convs, Grow(c), rt' = rt PROVE HInv'
  BY <1>2, <1>4, WholeGrow DEF HInv
<1> QED
  BY <1>1, <1>3, <1>4, Steps

\* In every behaviour in which no transcript outgrows a page between two reads.
LEMMA Wholeness == ASSUME "burst" \notin Events PROVE Spec => []HInv
  BY InitWhole, NextWhole, PTL DEF Spec

\* What is held stays held when items are put after it or before it.
LEMMA HeldOfConcat ==
    ASSUME NEW S, NEW s \in Seq(S), NEW t \in Seq(S)
    PROVE  /\ \A i \in DOMAIN s : i \in DOMAIN (s \o t) /\ (s \o t)[i] = s[i]
           /\ \A i \in DOMAIN s : \E j \in DOMAIN (t \o s) : (t \o s)[j] = s[i]
<1>1. s \o t \in Seq(S) /\ t \o s \in Seq(S) /\ Len(s \o t) = Len(s) + Len(t)
      /\ Len(t \o s) = Len(t) + Len(s)
  BY ConcatProperties
<1>2. /\ Len(s) \in Nat /\ Len(t) \in Nat /\ DOMAIN s = 1..Len(s)
      /\ DOMAIN (s \o t) = 1..Len(s) + Len(t) /\ DOMAIN (t \o s) = 1..Len(t) + Len(s)
  BY <1>1
<1>3. ASSUME NEW i \in DOMAIN s
      PROVE  /\ i \in DOMAIN (s \o t) /\ (s \o t)[i] = s[i]
             /\ i + Len(t) \in DOMAIN (t \o s) /\ (t \o s)[i + Len(t)] = s[i]
  BY <1>2, ConcatProperties
<1> QED
  BY <1>3

\* One step keeps what is shown of the conversation that stays open.
LEMMA KeptStep ==
    ASSUME TInv, [Next]_vars, Of(rt)' = Of(rt), rt.loaded # None
    PROVE  Held(rt.window) \subseteq Held(rt'.window)
<1>1. IInv /\ Sound(rt) /\ Small(rt)
  BY DEF TInv, IInv
<1>2. rt'.loaded = rt.loaded
  BY DEF Of
<1>3. CASE Follows(rt', rt)
  BY <1>2, <1>3 DEF Follows, Same, Left
<1>4. CASE LoadOlder \/ ReadNewest
  <2>1. rt'.window = rt.window
    BY <1>1, <1>4, LoadOlderStep, ReadNewestStep DEF IInv
  <2> QED
    BY <2>1
<1>5. ASSUME NEW how \in Hows, NewestReady(how)
      PROVE  Held(rt.window) \subseteq Held(rt'.window)
  <2> DEFINE end == rt.newest.page.end
             new == NotIn(Stretch(PageStart(end), end), rt.window)
             old == rt.window.items
  <2>1. /\ rt.newest.page \in Pages
        /\ rt'.window = WithNewest(rt.window, Of(rt), PageStart(end), end)
    BY <1>1, <1>5, NewestReadyStep
  <2>2. end \in Nat /\ end <= Bound
    BY <1>1, <1>5, <2>1 DEF Pages, Small, PageInHand, NewestReady
  <2>3. new \in Seq(1..Bound) /\ old \in Seq(1..Bound)
    BY <1>1, <2>2, NewItems DEF Small
  <2>4. rt'.window.items = old \o new
    BY <2>1, NewestShown, Zenon
  <2> HIDE DEF new, end, old
  <2>5. \A i \in DOMAIN old : i \in DOMAIN (old \o new) /\ (old \o new)[i] = old[i]
    BY <2>3, HeldOfConcat
  <2>6. \A i \in DOMAIN old : i \in DOMAIN rt'.window.items /\ rt'.window.items[i] = old[i]
    BY <2>4, <2>5, Zenon
  <2> QED
    BY <2>6 DEF Held, old
<1>6. CASE OlderReady
  <2> DEFINE end == rt.older.before - 1
             new == NotIn(Stretch(PageStart(end), end), rt.window)
             old == rt.window.items
  <2>1. /\ rt.older # None
        /\ rt'.window = WithOlder(rt.window, Of(rt), PageStart(end), end)
    BY <1>1, <1>6, OlderReadyStep
  <2>2. end \in Nat /\ end <= Bound
    BY <1>1, <2>1, Bounds DEF Small
  <2>3. new \in Seq(1..Bound) /\ old \in Seq(1..Bound)
    BY <1>1, <2>2, NewItems DEF Small
  <2>4. rt'.window.items = new \o old
    BY <2>1, OlderShown, Zenon
  <2> HIDE DEF new, end, old
  <2>5. \A i \in DOMAIN old : \E j \in DOMAIN (new \o old) : (new \o old)[j] = old[i]
    BY <2>3, HeldOfConcat
  <2>6. \A i \in DOMAIN old : \E j \in DOMAIN rt'.window.items : rt'.window.items[j] = old[i]
    BY <2>4, <2>5, Zenon
  <2> QED
    BY <2>6 DEF Held, old
<1> QED
  BY <1>1, <1>3, <1>4, <1>5, <1>6, Steps
-----------------------------------------------------------------------------
(* The properties.                                                         *)

\* Nothing superseded publishes: contexts rotate, conversations are chosen and
\* the surface is disposed of while requests are out, and every answer that can
\* still be applied was asked of what is open now (the generation checks of
\* loadNewest, loadOlder and loadList).
THEOREM OnlyTheOpenPublishesAlways == Spec => []OnlyTheOpenPublishes
<1>1. IInv => OnlyTheOpenPublishes
  BY DEF IInv, Sound, Good, Asked, OnlyTheOpenPublishes, Requests
<1> QED
  BY <1>1, Invariance, PTL

\* A follow-up is never lost: it waits for a read that is out (requestNewest,
\* settleNewest).
THEOREM FollowUpHasAReadAlways == Spec => []FollowUpHasARead
<1>1. IInv => FollowUpHasARead
  BY DEF IInv, Sound, Slots, FollowUpHasARead
<1> QED
  BY <1>1, Invariance, PTL

\* The refresh watches what is open, from the source of now, and polling never
\* stops while the transcript may grow (startRefresh, syncRefresh).
THEOREM RefreshWatchesTheOpenAlways == Spec => []RefreshWatchesTheOpen
<1>1. IInv => RefreshWatchesTheOpen
  BY DEF IInv, Sound, Watching, RefreshWatchesTheOpen
<1> QED
  BY <1>1, Invariance, PTL

\* No loader is orphaned, as long as the list can be read when an earlier choice
\* is to be opened and the authority does not rotate while an older page loads.
THEOREM SpinnersHaveReadsAlways ==
    ASSUME {"revoke", "unread"} \cap Events = {}
    PROVE  Spec => []SpinnersHaveReads
<1>1. IInv => SpinnersHaveReads
  <2> SUFFICES ASSUME IInv, ~rt.disposed, rt.context # None
               PROVE  /\ rt.list.loading => rt.listing # None
                      /\ OpenId(rt) # None /\ rt.thread.loading
                           => rt.newest # None \/ rt.listing # None
                      /\ rt.thread.loadingOlder => rt.older # None
    BY DEF SpinnersHaveReads
  <2>1. ListOwed(rt) /\ ChoiceOwed(rt) /\ PageOwed(rt) /\ OlderOwed(rt)
    BY DEF IInv, Sound, Quiet, Owed
  <2> QED
    BY <2>1 DEF ListOwed, ChoiceOwed, PageOwed, OlderOwed
<1> QED
  BY <1>1, Invariance, PTL

\* Every field of the runtime has its type: positions are those of a page more than
\* the longest transcript, and only what was asked of a space is on its way.
THEOREM TypeOKAlways == Spec => []TypeOK
<1>1. TInv => TypeOK
  <2> SUFFICES ASSUME TInv PROVE TypeOK
    OBVIOUS
  <2>1. /\ Types(rt) /\ Small(rt) /\ total \in [Convs -> Nat] /\ signals \subseteq Targets
    BY DEF TInv, IInv, Sound, Good
  <2> QED
    BY <2>1 DEF TypeOK, Types, Small, Bound
<1> QED
  BY <1>1, Bounded, PTL

\* History never ends early: what the reader cannot see of the open transcript before
\* the window can be asked for, and the page that is answered meets the window
\* (applyNewest, loadOlder, mergeOlder), as long as no transcript outgrows a page
\* between two reads; without that the reader is shown a hole (run burst).
THEOREM HistoryReachableAlways ==
    ASSUME "burst" \notin Events
    PROVE  Spec => []HistoryReachable
<1>1. HInv => HistoryReachable
  <2> SUFFICES ASSUME HInv, rt.window.items # <<>> PROVE HistoryReachable
    BY DEF HistoryReachable
  <2>1. PICK lo \in 1..Bound, hi \in 1..Bound : Spanned(rt, total, lo, hi)
    BY DEF HInv, Whole, Bare
  <2>2. lo <= hi /\ Held(rt.window) = lo..hi /\ lo \in Nat /\ hi \in Nat
    BY <2>1, SpannedHolds, Bounds
  <2>3. CASE rt.window.cursor = None
    <3>1. lo = 1 /\ 1 \in 1..(hi + 1 - lo)
      BY <2>1, <2>2, <2>3 DEF Spanned
    <3>2. lo \in Int /\ hi \in Int /\ lo <= hi + 1
      BY <2>2
    <3>3. /\ Len(Stretch(lo, hi)) = hi + 1 - lo
          /\ \A i \in 1..(hi + 1 - lo) : Stretch(lo, hi)[i] = lo + i - 1
      BY <3>2, StretchHas
    <3>4. Stretch(lo, hi)[1] = 1
      BY <3>1, <3>3
    <3>5. rt.window.items[1] = 1
      BY <2>1, <3>4 DEF Spanned
    <3> QED
      BY <2>3, <3>5 DEF HistoryReachable
  <2>4. CASE rt.window.cursor # None
    BY <2>1, <2>2, <2>4 DEF Spanned, HistoryReachable
  <2> QED
    BY <2>3, <2>4
<1> QED
  BY <1>1, Wholeness, PTL

\* The window is one stretch of the transcript, whatever pages are answered in which
\* order, repeat what is held or overlap it (mergeItems).
THEOREM OldestFirstAlways ==
    ASSUME "burst" \notin Events
    PROVE  Spec => []OldestFirst
<1>1. HInv => OldestFirst
  <2> SUFFICES ASSUME HInv, NEW i \in 1..Len(rt.window.items) - 1
               PROVE  rt.window.items[i + 1] = rt.window.items[i] + 1
    BY DEF OldestFirst
  <2>1. CASE Bare(rt)
    <3>1. Len(rt.window.items) = 0
      BY <2>1 DEF Bare
    <3>2. i \in 1..0 - 1
      BY <3>1
    <3> QED
      BY <3>2
  <2>2. ASSUME NEW lo \in 1..Bound, NEW hi \in 1..Bound, Spanned(rt, total, lo, hi)
        PROVE  rt.window.items[i + 1] = rt.window.items[i] + 1
    <3>1. lo \in Int /\ hi \in Int /\ lo <= hi + 1
      BY <2>2, SpannedHolds, Bounds
    <3>2. rt.window.items = Stretch(lo, hi)
      BY <2>2 DEF Spanned
    <3>3. /\ Len(Stretch(lo, hi)) = hi + 1 - lo
          /\ \A j \in 1..(hi + 1 - lo) : Stretch(lo, hi)[j] = lo + j - 1
      BY <3>1, StretchHas
    <3>4. i \in 1..(hi + 1 - lo) /\ i + 1 \in 1..(hi + 1 - lo)
      BY <3>1, <3>2, <3>3
    <3>5. Stretch(lo, hi)[i] = lo + i - 1 /\ Stretch(lo, hi)[i + 1] = lo + (i + 1) - 1
      BY <3>3, <3>4
    <3> QED
      BY <3>1, <3>2, <3>4, <3>5
  <2> QED
    BY <2>1, <2>2 DEF HInv, Whole
<1> QED
  BY <1>1, Wholeness, PTL

\* What the reader sees of a conversation stays as long as it is open: no answer, no
\* reload, no rotation and no failure takes an item away.
THEOREM KeptAlways == Spec => Kept
<1>1. TInv /\ [Next]_vars =>
        [Of(rt)' = Of(rt) /\ rt.loaded # None => Held(rt.window) \subseteq Held(rt.window)']_vars
  <2> SUFFICES ASSUME TInv, [Next]_vars, Of(rt)' = Of(rt), rt.loaded # None
               PROVE  Held(rt.window) \subseteq Held(rt.window)'
    OBVIOUS
  <2>1. Held(rt.window)' = Held(rt'.window)
    BY DEF Held
  <2> QED
    BY <2>1, KeptStep
<1> QED
  BY <1>1, Bounded, PTL DEF Spec, Kept
=============================================================================
