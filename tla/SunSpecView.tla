----------------------------- MODULE SunSpecView -----------------------------
(***************************************************************************)
(* What the gateway promises a SunSpec client, without loop(), caches or   *)
(* mirrors: the inverter is seen through a view that never runs ahead of   *)
(* it and never goes back, and a reply is a set of points all computed     *)
(* from the view of one moment.  Points that some client has just written  *)
(* are the exception: until the next refresh they show the written value.  *)
(***************************************************************************)
EXTENDS Integers

CONSTANTS
  Blocks, Registers, BootRegisters, Sources, Clients, MaxGen, Written

VARIABLES
  inverter,   \* generation of each block at the inverter
  view,       \* generation of each block that clients are shown
  reply       \* last answer to each client

vars == << inverter, view, reply >>

Init ==
  /\ inverter = [b \in Blocks |-> 1]
  /\ view = [b \in Blocks |-> 0]
  /\ reply = [c \in Clients |-> << >>]

Change(b) ==
  /\ inverter[b] < MaxGen
  /\ inverter' = [inverter EXCEPT ![b] = @ + 1]
  /\ UNCHANGED << view, reply >>

\* The view moves forward, by as much as the line lets through.
Refresh(v) ==
  /\ \A b \in Blocks : view[b] <= v[b] /\ v[b] <= inverter[b]
  /\ view' = v
  /\ UNCHANGED << inverter, reply >>

\* The value of a point in the view; the boot points show the state before
\* the first reading for ever.
Shown(r) == [b \in Sources[r] |-> IF r \in BootRegisters THEN 0 ELSE view[b]]

Answer(c, points, overwritten) ==
  /\ reply' = [reply EXCEPT ![c] =
                 [r \in points |-> IF r \in overwritten THEN Written ELSE Shown(r)]]
  /\ UNCHANGED << inverter, view >>

Next ==
  \/ \E b \in Blocks : Change(b)
  \/ \E v \in [Blocks -> 0 .. MaxGen] : Refresh(v)
  \/ \E c \in Clients, points \in SUBSET Registers :
       \E overwritten \in SUBSET points : Answer(c, points, overwritten)

Spec == Init /\ [][Next]_vars

=============================================================================
