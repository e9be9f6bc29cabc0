------------------------------- MODULE InputLog -------------------------------
(***************************************************************************)
(* What sequenced input promises to the user, without pages, sockets or    *)
(* cursors: a chunk that was typed reaches the pane at most once, chunks   *)
(* of one page reach it in the order they were typed, and a page stops     *)
(* holding a chunk only when the chunk reached the pane or was reported    *)
(* lost.                                                                   *)
(***************************************************************************)
EXTENDS Naturals, Sequences, SequencesExt

CONSTANT Pages

VARIABLES
    author,   \* author[k]: the page that typed chunk k
    held,     \* chunks some page still intends to deliver
    lost,     \* chunks the user was told are lost
    pane      \* chunks the pane received, in order

vars == <<author, held, lost, pane>>

Init == author = <<>> /\ held = {} /\ lost = {} /\ pane = <<>>

\* What a page stops holding is in the pane or reported.
LetGo(kept) ==
    /\ held' \subseteq kept
    /\ lost \subseteq lost'
    /\ lost' \ lost \subseteq kept
    /\ kept \ held' \subseteq ToSet(pane) \cup lost'

Type(c) ==
    /\ author' = Append(author, c)
    /\ LetGo(held \cup {Len(author')})
    /\ UNCHANGED pane

Settle ==
    /\ LetGo(held)
    /\ UNCHANGED <<author, pane>>

\* A chunk reported lost may still arrive: nobody can prove that it did not.
Deliver(k) ==
    /\ k \in DOMAIN author
    /\ \A j \in ToSet(pane) : author[j] = author[k] => j < k
    /\ pane' = Append(pane, k)
    /\ UNCHANGED <<author, held, lost>>

Next ==
    \/ \E c \in Pages : Type(c)
    \/ Settle
    \/ \E k \in DOMAIN author : Deliver(k)

Spec == Init /\ [][Next]_vars
=============================================================================
