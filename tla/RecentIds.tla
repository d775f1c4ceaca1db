------------------------------ MODULE RecentIds ------------------------------
(***************************************************************************)
(* What the cache of cancelled request ids promises, without the           *)
(* generation counters that implement it: an id is recognised from the     *)
(* moment it is remembered until it is taken, or until CancelledMax later  *)
(* remembers have pushed its last mention out of the window.               *)
(***************************************************************************)
EXTENDS Naturals, Sequences

CONSTANTS Ids,           \* request ids
          CancelledMax   \* length of the window

VARIABLES window,        \* the ids of the last CancelledMax remembers
          live           \* the ids recognised now

recentVars == <<window, live>>

Mentioned(w) == {w[i] : i \in DOMAIN w}

\* The window after one more remember: the oldest mention goes when it is full.
Slide(w, id) ==
    Append(IF Len(w) < CancelledMax THEN w ELSE Tail(w), id)

RInit ==
    /\ window = <<>>
    /\ live = {}

RRemember(id) ==
    /\ window' = Slide(window, id)
    /\ live' = (live \cup {id}) \cap Mentioned(window')

RTake(id) ==
    /\ live' = live \ {id}
    /\ UNCHANGED window

RNext == \E id \in Ids : RRemember(id) \/ RTake(id)

RSpec == RInit /\ [][RNext]_recentVars
=============================================================================
