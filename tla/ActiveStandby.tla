---------------------------- MODULE ActiveStandby ----------------------------
(***************************************************************************)
(* What a SinboHA pair promises its two applications: as long as there is  *)
(* a leader, an ACTIVE node whose peer is STANDBY, no role changes unless  *)
(* something from outside happens: a switch, a silence, a crash.  Without  *)
(* a leader the nodes contend, one change at a time.                       *)
(***************************************************************************)
EXTENDS Naturals

CONSTANTS Node, NoLeader

VARIABLES
  role,       \* role[n]: the status of n, or DOWN
  leader,     \* the leader, or NoLeader
  outside     \* how many things happened from outside

Role == {"DOWN", "PENDING", "ACTIVE", "STANDBY"}

(* A leader is ACTIVE and every other node is STANDBY. *)
Leads(n) == role[n] = "ACTIVE" /\ \A m \in Node \ {n} : role[m] = "STANDBY"

Init ==
  /\ role = [n \in Node |-> "DOWN"]
  /\ leader = NoLeader
  /\ outside = 0

(* PENDING is where a node begins, and it never comes back to it. *)
MayBecome(from, to) ==
  \/ from = "DOWN" /\ to = "PENDING"
  \/ from # "DOWN" /\ to \in {"ACTIVE", "STANDBY"}

(* Whoever leads after a step does so rightly. *)
NewLeader == leader' = NoLeader \/ \E n \in Node : leader' = n /\ Leads(n)'

(* Without a leader a node starts or changes its role, and may find itself leader. *)
Contend(n) ==
  /\ leader = NoLeader
  /\ \/ UNCHANGED role
     \/ \E to \in Role : MayBecome(role[n], to) /\ role' = [role EXCEPT ![n] = to]
  /\ NewLeader
  /\ UNCHANGED outside

(* Something happens from outside: n steps down, goes down or stays as it is. *)
Disturb(n) ==
  /\ outside' = outside + 1
  /\ \/ UNCHANGED role
     \/ role[n] = "ACTIVE" /\ role' = [role EXCEPT ![n] = "STANDBY"]
     \/ role[n] # "DOWN" /\ role' = [role EXCEPT ![n] = "DOWN"]
  /\ NewLeader

Next == \E n \in Node : Contend(n) \/ Disturb(n)

Spec == Init /\ [][Next]_<<role, leader, outside>>
=============================================================================
