------------------------------ MODULE StatusRep ------------------------------
(***************************************************************************)
(* The status repository of one node, class SinbohaStatusRep, as pure      *)
(* operators.  A value of Rep is what m_Lock protects: m_Status and        *)
(* m_ChangeTime.  Each public method that writes them is an operator from  *)
(* a repository, the method's argument and the value system_clock::now()   *)
(* returned, to the new repository; the modules that compose nodes apply   *)
(* these operators atomically, as the methods run under m_Lock.            *)
(*                                                                         *)
(* Times are ticks of system_clock.  The wire carries milliseconds, so a   *)
(* peer sees a change time rounded down to a multiple of TicksPerMs, while *)
(* a node compares it with its own unrounded m_ChangeTime.                 *)
(***************************************************************************)
EXTENDS Integers

CONSTANT TicksPerMs    \* ticks of system_clock in one millisecond

ASSUME TicksPerMsAssumption == TicksPerMs \in Nat \ {0}

(* enum SinbohaStatus *)
Status == {"PENDING", "ACTIVE", "STANDBY"}

(* A repository, and also the pair that CanYouActivateMe sends. *)
Rep == [status : Status, changeTime : Nat]

(* Fault: the constructor leaves m_Status uninitialised. *)
FaultNewRep(now) == [status |-> "UNINITIALISED", changeTime |-> now]

(* The constructor: PENDING since now. *)
NewRep(now) == [status |-> "PENDING", changeTime |-> now]

(***************************************************************************)
(* The conversion of a change time to whole milliseconds by the client and *)
(* back to a time_point by the server.                                     *)
(***************************************************************************)
ToMillis(t) == t - (t % TicksPerMs)

(* What Query reads and the client puts on the wire. *)
AskOf(rep) == [rep EXCEPT !.changeTime = ToMillis(@)]

(***************************************************************************)
(* Faults.  Each operator named Fault... is a wrong version of the one it  *)
(* precedes; substituted for it, it breaks a property of the pair.         *)
(*   FaultAllowPending         a PENDING peer is not compared by time      *)
(*   FaultAllowRefused         a STANDBY node refuses the ACTIVE one       *)
(*   FaultAllowNoTieBreak      equal status is not compared by time        *)
(*   FaultAllowStandbyNever    two STANDBY nodes refuse each other         *)
(***************************************************************************)
FaultAllowPending(rep, ask) ==
  \/ ask.status = "PENDING" /\ rep.status # "ACTIVE"
  \/ ask.status = "ACTIVE" /\ rep.status # "ACTIVE"
  \/ ask.status = "ACTIVE" /\ rep.status = "ACTIVE" /\ ask.changeTime > rep.changeTime
  \/ ask.status = "STANDBY" /\ rep.status = "STANDBY" /\ ask.changeTime < rep.changeTime

FaultAllowRefused(rep, ask) ==
  \/ ask.status = "PENDING" /\ rep.status = "STANDBY"
  \/ ask.status = "PENDING" /\ rep.status = "PENDING" /\ ask.changeTime < rep.changeTime
  \/ ask.status = "ACTIVE" /\ rep.status = "PENDING"
  \/ ask.status = "ACTIVE" /\ rep.status = "ACTIVE" /\ ask.changeTime > rep.changeTime
  \/ ask.status = "STANDBY" /\ rep.status = "STANDBY" /\ ask.changeTime < rep.changeTime

FaultAllowNoTieBreak(rep, ask) ==
  \/ ask.status = "PENDING" /\ rep.status # "ACTIVE"
  \/ ask.status = "ACTIVE" /\ rep.status # "ACTIVE"
  \/ ask.status = "STANDBY" /\ rep.status = "STANDBY"

FaultAllowStandbyNever(rep, ask) ==
  \/ ask.status = "PENDING" /\ rep.status = "STANDBY"
  \/ ask.status = "PENDING" /\ rep.status = "PENDING" /\ ask.changeTime < rep.changeTime
  \/ ask.status = "ACTIVE" /\ rep.status # "ACTIVE"
  \/ ask.status = "ACTIVE" /\ rep.status = "ACTIVE" /\ ask.changeTime > rep.changeTime

(***************************************************************************)
(* May the peer that sent ask be ACTIVE, says the node whose repository is *)
(* rep.  Of two nodes in one status the time decides: the first PENDING,   *)
(* the last ACTIVE and the first STANDBY one wins.                         *)
(***************************************************************************)
IfAllowPeerActivate(rep, ask) ==
  \/ ask.status = "PENDING" /\ rep.status = "STANDBY"
  \/ ask.status = "PENDING" /\ rep.status = "PENDING" /\ ask.changeTime < rep.changeTime
  \/ ask.status = "ACTIVE" /\ rep.status # "ACTIVE"
  \/ ask.status = "ACTIVE" /\ rep.status = "ACTIVE" /\ ask.changeTime > rep.changeTime
  \/ ask.status = "STANDBY" /\ rep.status = "STANDBY" /\ ask.changeTime < rep.changeTime

(* A change of status takes a new change time; no change leaves both. *)
SetStatus(rep, status, now) ==
  IF rep.status = status THEN rep ELSE [status |-> status, changeTime |-> now]

(* Fault: a node ignores the peer's No. *)
FaultTryActivate(rep, allow, now) ==
  IF allow THEN SetStatus(rep, "ACTIVE", now) ELSE rep

(* The peer's verdict arrives: ACTIVE when it agrees, STANDBY when not. *)
TryActivate(rep, allow, now) ==
  SetStatus(rep, IF allow THEN "ACTIVE" ELSE "STANDBY", now)

(* The manual switch: only an ACTIVE node steps down. *)
Switch(rep, now) ==
  IF rep.status = "ACTIVE" THEN SetStatus(rep, "STANDBY", now) ELSE rep

(* Fault: a node takes over from STANDBY only. *)
FaultBrainSplit(rep, now) ==
  IF rep.status = "STANDBY" THEN SetStatus(rep, "ACTIVE", now) ELSE rep

(* The peer is silent: ACTIVE unless already so. *)
BrainSplit(rep, now) == SetStatus(rep, "ACTIVE", now)
=============================================================================
