-------------------------- MODULE StatusRep_proofs --------------------------
(***************************************************************************)
(* Facts about the operators of StatusRep, for every resolution of the     *)
(* clock (TicksPerMs).                                                     *)
(***************************************************************************)
EXTENDS StatusRep, TLAPS

(***************************************************************************)
(* Rounding to milliseconds goes down, by less than a millisecond.         *)
(***************************************************************************)
LEMMA ToMillisRange ==
  ASSUME NEW t \in Nat
  PROVE  ToMillis(t) \in Nat /\ ToMillis(t) <= t
<1>1. t % TicksPerMs \in 0 .. TicksPerMs - 1
  BY TicksPerMsAssumption
<1>2. t = TicksPerMs * (t \div TicksPerMs) + (t % TicksPerMs)
  BY TicksPerMsAssumption
<1>3. t \div TicksPerMs \in Nat
  BY TicksPerMsAssumption
<1>4. TicksPerMs * (t \div TicksPerMs) \in Nat
  BY <1>3, TicksPerMsAssumption
<1> QED
  BY <1>1, <1>2, <1>4, TicksPerMsAssumption DEF ToMillis

(***************************************************************************)
(* A time of an earlier millisecond is before a later one rounded down: a  *)
(* node that compares its own time with a rounded one gets the order right *)
(* whenever the milliseconds differ.                                       *)
(***************************************************************************)
LEMMA ToMillisOrder ==
  ASSUME NEW s \in Nat, NEW t \in Nat, ToMillis(s) < ToMillis(t)
  PROVE  s < ToMillis(t)
<1> DEFINE a == s \div TicksPerMs
           b == t \div TicksPerMs
<1>1. /\ s = TicksPerMs * a + (s % TicksPerMs)
      /\ t = TicksPerMs * b + (t % TicksPerMs)
      /\ s % TicksPerMs \in 0 .. TicksPerMs - 1
      /\ t % TicksPerMs \in 0 .. TicksPerMs - 1
      /\ a \in Nat /\ b \in Nat
  BY TicksPerMsAssumption
<1>2. /\ ToMillis(s) = TicksPerMs * a
      /\ ToMillis(t) = TicksPerMs * b
  BY <1>1, TicksPerMsAssumption DEF ToMillis
<1> HIDE DEF a, b
<1>3. a < b
  BY <1>1, <1>2, TicksPerMsAssumption
<1>4. TicksPerMs * (a + 1) <= TicksPerMs * b
  BY <1>1, <1>3, TicksPerMsAssumption
<1>5. TicksPerMs * (a + 1) = TicksPerMs * a + TicksPerMs
  BY <1>1, TicksPerMsAssumption
<1> QED
  BY <1>1, <1>2, <1>4, <1>5, TicksPerMsAssumption

(* The fields of a repository, and of what is sent for it. *)
LEMMA RepFields ==
  ASSUME NEW r \in Rep
  PROVE  /\ r.status \in Status /\ r.changeTime \in Nat
         /\ AskOf(r) \in Rep
         /\ AskOf(r).status = r.status
         /\ AskOf(r).changeTime = ToMillis(r.changeTime)
<1>1. r.status \in Status /\ r.changeTime \in Nat
  BY DEF Rep
<1>2. ToMillis(r.changeTime) \in Nat
  BY <1>1, ToMillisRange
<1> QED
  BY <1>1, <1>2 DEF Rep, AskOf

(* The methods that write the repository leave it well formed. *)
LEMMA RepMethods ==
  ASSUME NEW r \in Rep, NEW now \in Nat, NEW allow \in BOOLEAN
  PROVE  /\ NewRep(now) \in Rep
         /\ TryActivate(r, allow, now) \in Rep
         /\ Switch(r, now) \in Rep
         /\ BrainSplit(r, now) \in Rep
  BY DEF Rep, Status, NewRep, SetStatus, TryActivate, Switch, BrainSplit

(***************************************************************************)
(* The rules of IfAllowPeerActivate are decisive: of two nodes that        *)
(* changed in different milliseconds, whatever their status, exactly one   *)
(* is told that it may be ACTIVE when they ask each other.                 *)
(***************************************************************************)
THEOREM ExactlyOneAllowed ==
  ASSUME NEW r \in Rep, NEW s \in Rep,
         ToMillis(r.changeTime) # ToMillis(s.changeTime)
  PROVE  IfAllowPeerActivate(r, AskOf(s)) <=> ~IfAllowPeerActivate(s, AskOf(r))
<1>1. /\ r.changeTime \in Nat /\ s.changeTime \in Nat
      /\ r.status \in Status /\ s.status \in Status
  BY RepFields
<1>2. /\ AskOf(r).status = r.status /\ AskOf(s).status = s.status
      /\ AskOf(r).changeTime = ToMillis(r.changeTime)
      /\ AskOf(s).changeTime = ToMillis(s.changeTime)
  BY RepFields
<1>3. /\ ToMillis(r.changeTime) \in Nat /\ ToMillis(r.changeTime) <= r.changeTime
      /\ ToMillis(s.changeTime) \in Nat /\ ToMillis(s.changeTime) <= s.changeTime
  BY <1>1, ToMillisRange
<1>4. \/ r.changeTime < ToMillis(s.changeTime)
      \/ s.changeTime < ToMillis(r.changeTime)
  <2>1. CASE ToMillis(r.changeTime) < ToMillis(s.changeTime)
    BY <2>1, <1>1, ToMillisOrder
  <2>2. CASE ToMillis(s.changeTime) < ToMillis(r.changeTime)
    BY <2>2, <1>1, ToMillisOrder
  <2> QED
    BY <2>1, <2>2, <1>3
<1> QED
  BY <1>1, <1>2, <1>3, <1>4 DEF IfAllowPeerActivate, Status
=============================================================================
