---------------------------- MODULE VirtualStore ----------------------------
(***************************************************************************)
(* What the wear-levelled flash of Wearing.cpp promises its user: a store  *)
(* of virtual pages.  A write is given a page and its data and comes back  *)
(* when the page has them; nothing else changes what a page reads, but for *)
(* the blank memory that every experiment starts with.                     *)
(***************************************************************************)
EXTENDS Naturals

CONSTANTS VPages, Values, Nothing

VARIABLES
  store,      \* the data of each virtual page, or Nothing
  pending,    \* the write under way, its page and its data; at most one
  epoch       \* the experiment

vars == <<store, pending, epoch>>

Blank == store = [v \in VPages |-> Nothing]

Init == Blank /\ pending = {} /\ epoch = 1

\* A write is called,
Begin(v, x) ==
  /\ pending = {}
  /\ pending' = {<<v, x>>}
  /\ UNCHANGED <<store, epoch>>

\* and returns with its data stored.
End ==
  /\ \E w \in pending : store' = [store EXCEPT ![w[1]] = w[2]]
  /\ pending' = {}
  /\ UNCHANGED epoch

\* The next experiment starts on a blank memory.
Format ==
  /\ pending = {}
  /\ Blank'
  /\ epoch' = epoch + 1
  /\ UNCHANGED pending

Next == (\E v \in VPages, x \in Values : Begin(v, x)) \/ End \/ Format

Spec == Init /\ [][Next]_vars
=============================================================================
