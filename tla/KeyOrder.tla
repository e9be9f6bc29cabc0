------------------------------- MODULE KeyOrder -------------------------------
(***************************************************************************)
(* What a keyed lane promises for mutations, without workers, slots or     *)
(* readers: the mutations of one resource run one at a time, in the order  *)
(* they were admitted, and those of one connection are admitted in the     *)
(* order it read them.                                                     *)
(***************************************************************************)
EXTENDS Naturals, Sequences, SequencesExt

CONSTANTS
    Works,   \* mutations: records with a connection, its frame number, a key
    Keys     \* resources

VARIABLES
    waiting,   \* waiting[k]: mutations of k admitted and not started
    running    \* mutations being run

vars == <<waiting, running>>

Init == waiting = [k \in Keys |-> <<>>] /\ running = {}

Unfinished(k) == ToSet(waiting[k]) \cup {w \in running : w.key = k}

Admit(w) ==
    /\ \A v \in Unfinished(w.key) : v.conn = w.conn => v.n < w.n
    /\ waiting' = [waiting EXCEPT ![w.key] = Append(@, w)]
    /\ UNCHANGED running

Start(k) ==
    /\ waiting[k] # <<>>
    /\ \A w \in running : w.key # k
    /\ running' = running \cup {Head(waiting[k])}
    /\ waiting' = [waiting EXCEPT ![k] = Tail(@)]

End(w) ==
    /\ running' = running \ {w}
    /\ UNCHANGED waiting

Next ==
    \/ \E w \in Works : Admit(w)
    \/ \E k \in Keys : Start(k)
    \/ \E w \in running : End(w)

Spec == Init /\ [][Next]_vars
=============================================================================
