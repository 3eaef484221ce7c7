---------------------------- MODULE Introspection ----------------------------
(***************************************************************************)
(* What the system promises: once a policy is triggered, the words it asks *)
(* for are observed, in the order a program walking the guest's memory     *)
(* would read them, and then the walk ends. want[p] is that order for a    *)
(* guest that does not move meanwhile; it never changes.                   *)
(***************************************************************************)
EXTENDS Naturals, Sequences

CONSTANT Policies
VARIABLES want, obs, walking

vars == <<want, obs, walking>>

Init ==
  /\ obs = [p \in Policies |-> <<>>]
  /\ walking = [p \in Policies |-> FALSE]

Start(p) ==
  /\ ~walking[p]
  /\ obs' = [obs EXCEPT ![p] = <<>>]
  /\ walking' = [walking EXCEPT ![p] = TRUE]
  /\ UNCHANGED want

\* The next word is observed; the walk may end with the last one.
Observe(p) ==
  /\ walking[p]
  /\ Len(obs[p]) < Len(want[p])
  /\ obs' = [obs EXCEPT ![p] = Append(@, want[p][Len(@) + 1])]
  /\ walking' \in {walking, [walking EXCEPT ![p] = FALSE]}
  /\ ~walking'[p] => obs'[p] = want[p]
  /\ UNCHANGED want

Finish(p) ==
  /\ walking[p]
  /\ obs[p] = want[p]
  /\ walking' = [walking EXCEPT ![p] = FALSE]
  /\ UNCHANGED <<want, obs>>

Next == \E p \in Policies : Start(p) \/ Observe(p) \/ Finish(p)

Spec == Init /\ [][Next]_vars
=============================================================================
