----------------------- MODULE SinbohaChannel_proofs -----------------------
(***************************************************************************)
(* Proofs about SinbohaChannel, for any set of callers and of data.        *)
(***************************************************************************)
EXTENDS SinbohaChannel, SequenceTheorems, TLAPS

(* Where the variables the proofs speak of take their values. *)
TypeOK ==
  /\ hb \in {"init", "wait", "call", "recv", "failed"}
  /\ app \in [Caller -> [pc : {"idle", "called", "locked", "recv"}, data : Data \cup {"none"}]]
  /\ \A c \in Caller : app[c].pc # "idle" => app[c].data \in Data
  /\ clientLock \in Caller \cup {"free", "heartbeat"}
  /\ requests \in Seq(Request)
  /\ replies \in Seq(Reply)
  /\ old \subseteq Data
  /\ unsent \subseteq Data
  /\ sent \in Seq(Data)
  /\ accepted \in Seq(Data)

(* A call holds the client's lock while it waits for its reply. *)
Locks ==
  /\ hb = "recv" <=> clientLock = "heartbeat"
  /\ \A c \in Caller : app[c].pc = "recv" <=> clientLock = c

(* Every datum belongs to one call, which sends it once. *)
OneCall ==
  /\ unsent \cap ToSet(sent) = {}
  /\ \A c \in Caller : app[c].pc # "idle" => app[c].data \notin unsent
  /\ \A c, e \in Caller :
       app[c].pc # "idle" /\ app[e].pc # "idle" /\ app[c].data = app[e].data => c = e
  /\ \A c \in Caller : app[c].pc \in {"called", "locked"} => app[c].data \notin ToSet(sent)
  /\ \A i, j \in DOMAIN sent : sent[i] = sent[j] => i = j

(* The call that waits is the last that sent. *)
LastSent ==
  \A c \in Caller : app[c].pc = "recv" => sent # <<>> /\ sent[Len(sent)] = app[c].data

(* What was sent is in this connection, in a former one or accepted, and only once. *)
OnePlace ==
  /\ Pending \subseteq ToSet(sent)
  /\ old \subseteq ToSet(sent)
  /\ ToSet(accepted) \subseteq ToSet(sent)
  /\ Pending \cap old = {}
  /\ Pending \cap ToSet(accepted) = {}
  /\ old \cap ToSet(accepted) = {}
  /\ \A i, j \in DOMAIN requests : requests[i] = requests[j] /\ requests[i] # "ask" => i = j

(* An OK in the connection is true of its datum, and a call on a clean connection meets its own. *)
Truthful ==
  /\ \A i \in DOMAIN replies :
       replies[i].to # "ask" /\ replies[i].result = "ok" => replies[i].to \in ToSet(accepted)
  /\ \A c \in Caller : app[c].pc = "recv" /\ app[c].data \notin suspect =>
       /\ \A i \in DOMAIN requests : requests[i] = app[c].data
       /\ \A i \in DOMAIN replies : replies[i].to = app[c].data

(* The inductive invariant of AckedIsAccepted and OvertakenIsNotAcked. *)
Inv ==
  /\ TypeOK /\ Locks /\ OneCall /\ LastSent /\ OnePlace /\ Truthful
  /\ AckedIsAccepted /\ OvertakenIsNotAcked
-----------------------------------------------------------------------------
(* What Append does to the elements of a sequence. *)
LEMMA AppendFacts ==
  ASSUME NEW S, NEW s \in Seq(S), NEW x \in S
  PROVE  /\ Append(s, x) \in Seq(S)
         /\ Len(Append(s, x)) = Len(s) + 1
         /\ DOMAIN Append(s, x) = 1 .. Len(s) + 1
         /\ DOMAIN s = 1 .. Len(s) /\ Len(s) \in Nat
         /\ \A i \in 1 .. Len(s) : Append(s, x)[i] = s[i]
         /\ Append(s, x)[Len(s) + 1] = x
         /\ ToSet(Append(s, x)) = ToSet(s) \cup {x}
<1>1. /\ Append(s, x) \in Seq(S)
      /\ Len(Append(s, x)) = Len(s) + 1
      /\ DOMAIN Append(s, x) = 1 .. Len(s) + 1
      /\ DOMAIN s = 1 .. Len(s) /\ Len(s) \in Nat
      /\ \A i \in 1 .. Len(s) : Append(s, x)[i] = s[i]
      /\ Append(s, x)[Len(s) + 1] = x
  OBVIOUS
<1>2. ToSet(Append(s, x)) = ToSet(s) \cup {x}
  BY <1>1 DEF ToSet
<1> QED
  BY <1>1, <1>2

(* What Tail leaves of a sequence. *)
LEMMA TailFacts ==
  ASSUME NEW S, NEW s \in Seq(S), s # <<>>
  PROVE  /\ Tail(s) \in Seq(S)
         /\ Len(s) \in Nat \ {0} /\ Len(Tail(s)) = Len(s) - 1
         /\ DOMAIN s = 1 .. Len(s) /\ DOMAIN Tail(s) = 1 .. Len(s) - 1
         /\ \A i \in 1 .. Len(s) - 1 : Tail(s)[i] = s[i + 1] /\ i + 1 \in 1 .. Len(s)
         /\ Head(s) = s[1] /\ 1 \in DOMAIN s /\ Head(s) \in S
         /\ ToSet(s) = ToSet(Tail(s)) \cup {Head(s)}
<1>1. /\ Tail(s) \in Seq(S)
      /\ Len(s) \in Nat \ {0} /\ Len(Tail(s)) = Len(s) - 1
      /\ DOMAIN s = 1 .. Len(s) /\ DOMAIN Tail(s) = 1 .. Len(s) - 1
      /\ \A i \in 1 .. Len(s) - 1 : Tail(s)[i] = s[i + 1] /\ i + 1 \in 1 .. Len(s)
      /\ Head(s) = s[1] /\ 1 \in DOMAIN s /\ Head(s) \in S
  BY HeadTailProperties, LenProperties, EmptySeq
<1>2. ASSUME NEW i \in 1 .. Len(s), i # 1
      PROVE  i - 1 \in 1 .. Len(s) - 1 /\ Tail(s)[i - 1] = s[i]
  BY <1>1, <1>2
<1>3. ToSet(s) \subseteq ToSet(Tail(s)) \cup {Head(s)}
  <2>1. ASSUME NEW i \in DOMAIN s PROVE s[i] \in ToSet(Tail(s)) \cup {Head(s)}
    <3>1. CASE i = 1
      BY <3>1, <1>1
    <3>2. CASE i # 1
      BY <3>2, <2>1, <1>1, <1>2 DEF ToSet
    <3> QED
      BY <3>1, <3>2
  <2> QED
    BY <2>1 DEF ToSet
<1>4. ToSet(Tail(s)) \cup {Head(s)} \subseteq ToSet(s)
  BY <1>1 DEF ToSet
<1> QED
  BY <1>1, <1>3, <1>4

(* The empty sequence. *)
LEMMA EmptyFacts ==
  /\ \A S : <<>> \in Seq(S)
  /\ DOMAIN <<>> = {} /\ ToSet(<<>>) = {}
<1>1. \A S : <<>> \in Seq(S)
  OBVIOUS
<1>2. DOMAIN <<>> = {}
  OBVIOUS
<1> QED
  BY <1>1, <1>2 DEF ToSet

(* The elements of a sequence are of its set. *)
LEMMA ElementFacts ==
  ASSUME NEW S, NEW s \in Seq(S)
  PROVE  /\ ToSet(s) \subseteq S
         /\ DOMAIN s = 1 .. Len(s) /\ Len(s) \in Nat
         /\ \A i \in DOMAIN s : s[i] \in S /\ s[i] \in ToSet(s)
         /\ \A x \in ToSet(s) : \E i \in DOMAIN s : s[i] = x
  BY DEF ToSet
-----------------------------------------------------------------------------
(* Reading takes the first reply of the connection or none. *)
LEMMA ReadFacts ==
  ASSUME NEW kind, Receive(kind) \/ ReceiveFails(kind)
  PROVE  /\ UNCHANGED <<conn, requests, old>>
         /\ replies' = replies \/ (replies # <<>> /\ replies' = Tail(replies))
  BY DEF Receive, ReceiveFails, Expected, Thrown

(* Sending puts the request last or loses it. *)
LEMMA SendFacts ==
  ASSUME NEW request, Send(request)
  PROVE  /\ UNCHANGED <<conn, replies, old>>
         /\ requests' = requests \/ requests' = Append(requests, request)
  BY DEF Send

(* A call that returns leaves the other callers alone. *)
LEMMA ReturnFacts ==
  ASSUME TypeOK, NEW c \in Caller, Return(c)
  PROVE  /\ app' \in [Caller -> [pc : {"idle", "called", "locked", "recv"}, data : Data \cup {"none"}]]
         /\ app'[c] = [pc |-> "idle", data |-> "none"]
         /\ \A e \in Caller \ {c} : app'[e] = app[e]
         /\ clientLock' = "free"
  BY DEF TypeOK, Return

(* A caller that goes on keeps its datum. *)
LEMMA GoOnFacts ==
  ASSUME TypeOK, NEW c \in Caller, NEW pc \in {"idle", "called", "locked", "recv"},
         app' = [app EXCEPT ![c].pc = pc]
  PROVE  /\ app' \in [Caller -> [pc : {"idle", "called", "locked", "recv"}, data : Data \cup {"none"}]]
         /\ app'[c].pc = pc /\ app'[c].data = app[c].data
         /\ \A e \in Caller \ {c} : app'[e] = app[e]
  BY DEF TypeOK

(* Sending a datum: the request goes out, and the caller waits. *)
Sends(c) ==
  /\ Send(app[c].data)
  /\ app' = [app EXCEPT ![c].pc = "recv"]
  /\ clientLock' = c
  /\ suspect' = IF requests = <<>> /\ replies = <<>> THEN suspect ELSE suspect \cup {app[c].data}
  /\ sent' = Append(sent, app[c].data)

LEMMA SyncDataSendCases ==
  ASSUME NEW c \in Caller, SyncDataSend(c)
  PROVE  /\ app[c].pc = "locked" /\ clientLock = "free"
         /\ UNCHANGED <<hb, peer, unsent, accepted, refused, acked>>
         /\ Sends(c) \/ (Return(c) /\ UNCHANGED <<connVars, suspect, sent>>)
  BY DEF SyncDataSend, Sends

(* RecvData adds the datum to the accepted ones or leaves them. *)
LEMMA RecvDataFacts ==
  ASSUME accepted \in Seq(Data), NEW d \in Data, NEW result, RecvData(d, result)
  PROVE  /\ accepted' \in Seq(Data)
         /\ ToSet(accepted') = IF result = "ok" THEN ToSet(accepted) \cup {d} ELSE ToSet(accepted)
<1>1. Append(accepted, d) \in Seq(Data) /\ ToSet(Append(accepted, d)) = ToSet(accepted) \cup {d}
  BY AppendFacts
<1> QED
  BY <1>1 DEF RecvData

(* A handler replies to the first request; to a datum, after RecvData. *)
LEMMA HandleCases ==
  ASSUME TypeOK, Handle
  PROVE  /\ requests # <<>> /\ requests' = Tail(requests)
         /\ Head(requests) \in Request /\ Tail(requests) \in Seq(Request)
         /\ \E result \in Result :
              /\ [to |-> Head(requests), result |-> result] \in Reply
              /\ replies' = Append(replies, [to |-> Head(requests), result |-> result])
              /\ Head(requests) = "ask" => UNCHANGED accepted
              /\ Head(requests) # "ask" =>
                   Head(requests) \in Data /\ RecvData(Head(requests), result)
<1>1. requests # <<>> /\ requests' = Tail(requests)
  BY DEF Handle
<1>2. Head(requests) \in Request /\ Tail(requests) \in Seq(Request)
  BY <1>1, TailFacts DEF TypeOK
<1>3. PICK result \in Result :
        /\ replies' = Append(replies, [to |-> Head(requests), result |-> result])
        /\ IF Head(requests) = "ask" THEN result = "ok" /\ UNCHANGED <<accepted, refused>>
           ELSE RecvData(Head(requests), result)
  BY DEF Handle
<1>4. [to |-> Head(requests), result |-> result] \in Reply
  BY <1>2, <1>3 DEF Reply
<1>5. /\ Head(requests) = "ask" => UNCHANGED accepted
      /\ Head(requests) # "ask" =>
           Head(requests) \in Data /\ RecvData(Head(requests), result)
  BY <1>2, <1>3 DEF Request
<1> QED
  BY <1>1, <1>2, <1>3, <1>4, <1>5

(* Every step keeps the variables well formed. *)
LEMMA TypeStep == TypeOK /\ [Next]_vars => TypeOK'
<1> SUFFICES ASSUME TypeOK, [Next]_vars
             PROVE  TypeOK'
  OBVIOUS
<1>a. "ask" \in Request /\ Data \subseteq Request
  BY DEF Request
<1>p. Pending \subseteq Data
  BY ElementFacts DEF TypeOK, Pending, Request
<1>e. <<>> \in Seq(Request) /\ <<>> \in Seq(Reply)
  BY EmptyFacts
<1>t. /\ requests # <<>> => Tail(requests) \in Seq(Request) /\ Head(requests) \in Request
      /\ replies # <<>> => Tail(replies) \in Seq(Reply)
  BY TailFacts DEF TypeOK
<1>1. ASSUME HbInitialize \/ HbReset PROVE TypeOK'
  BY <1>1, <1>p, <1>e DEF TypeOK, HbInitialize, HbReset, Connect, history
<1>2. CASE HbWake
  BY <1>2 DEF TypeOK, HbWake, connVars, history
<1>3. CASE HbCall
  <2>1. Append(requests, "ask") \in Seq(Request)
    BY <1>a, AppendFacts DEF TypeOK
  <2> QED
    BY <1>3, <2>1 DEF TypeOK, HbCall, Send, connVars, history
<1>4. ASSUME HbVerdict \/ HbFail PROVE TypeOK'
  BY <1>4, <1>t DEF TypeOK, HbVerdict, HbFail, Receive, ReceiveFails, Expected, history
<1>5. ASSUME NEW c \in Caller, SyncData(c) PROVE TypeOK'
  BY <1>5 DEF TypeOK, SyncData, connVars, history
<1>6. ASSUME NEW c \in Caller, SyncDataLock(c) PROVE TypeOK'
  BY <1>6 DEF TypeOK, SyncDataLock, connVars, history
<1>7. ASSUME NEW c \in Caller, SyncDataSend(c) PROVE TypeOK'
  <2>1. app[c].data \in Data
    BY <1>7, SyncDataSendCases DEF TypeOK
  <2>2. Append(requests, app[c].data) \in Seq(Request) /\ Append(sent, app[c].data) \in Seq(Data)
    BY <2>1, <1>a, AppendFacts DEF TypeOK
  <2>3. CASE Sends(c)
    <3>1. UNCHANGED <<hb, replies, old, unsent, accepted>> /\ clientLock' = c
      BY <1>7, <2>3, SyncDataSendCases, SendFacts DEF Sends
    <3>2. requests' \in Seq(Request) /\ sent' \in Seq(Data)
      BY <2>2, <2>3, SendFacts DEF Sends, TypeOK
    <3>3. /\ app' \in [Caller -> [pc : {"idle", "called", "locked", "recv"}, data : Data \cup {"none"}]]
          /\ \A e \in Caller : app'[e].pc # "idle" => app'[e].data \in Data
      BY <2>1, <2>3, GoOnFacts DEF Sends, TypeOK
    <3> QED
      BY <3>1, <3>2, <3>3 DEF TypeOK
  <2>4. CASE Return(c) /\ UNCHANGED <<connVars, suspect, sent>>
    BY <1>7, <2>4, SyncDataSendCases, ReturnFacts DEF TypeOK, connVars
  <2> QED
    BY <1>7, <2>3, <2>4, SyncDataSendCases
<1>8. ASSUME NEW c \in Caller, SyncDataReturn(c) \/ SyncDataFail(c) PROVE TypeOK'
  <2>1. UNCHANGED <<requests, old, hb, unsent, sent, accepted>> /\ Return(c)
    BY <1>8, ReadFacts DEF SyncDataReturn, SyncDataFail, history
  <2>2. replies' \in Seq(Reply)
    BY <1>8, <1>t, ReadFacts DEF TypeOK, SyncDataReturn, SyncDataFail
  <2> QED
    BY <2>1, <2>2, ReturnFacts DEF TypeOK
<1>9. CASE Handle
  <2>1. PICK result \in Result :
          /\ [to |-> Head(requests), result |-> result] \in Reply
          /\ replies' = Append(replies, [to |-> Head(requests), result |-> result])
          /\ Head(requests) = "ask" => UNCHANGED accepted
          /\ Head(requests) # "ask" =>
               Head(requests) \in Data /\ RecvData(Head(requests), result)
    BY <1>9, HandleCases
  <2>2. replies' \in Seq(Reply) /\ requests' \in Seq(Request)
    BY <1>9, <2>1, HandleCases, AppendFacts DEF TypeOK
  <2>3. accepted' \in Seq(Data)
    BY <2>1, RecvDataFacts DEF TypeOK
  <2> QED
    BY <1>9, <2>2, <2>3 DEF Handle, TypeOK
<1>10. ASSUME NEW d \in Data, HandleOld(d) PROVE TypeOK'
  BY <1>10, RecvDataFacts DEF TypeOK, HandleOld
<1>11. CASE End
  BY <1>11, <1>p, <1>e DEF TypeOK, End, history
<1>12. ASSUME PeerTurns \/ UNCHANGED vars PROVE TypeOK'
  BY <1>12 DEF TypeOK, PeerTurns, vars, connVars, history
<1> QED
  BY <1>1, <1>2, <1>3, <1>4, <1>5, <1>6, <1>7, <1>8, <1>9, <1>10, <1>11, <1>12
     DEF Next, Heartbeat, Application, Environment
-----------------------------------------------------------------------------
(* Reading shifts the answers to heartbeats with the other replies. *)
LEMMA AnsweredAfterRead ==
  ASSUME TypeOK, VerdictIsOwn, replies # <<>>, replies' = Tail(replies)
  PROVE  /\ Answered = {} => Answered' = {}
         /\ \A i, j \in Answered' : i = j
         /\ replies[1].to = "ask" => Answered' = {}
<1>1. ASSUME NEW i \in Answered' PROVE i + 1 \in Answered /\ i \in 1 .. Len(replies) - 1
  BY <1>1, TailFacts DEF Answered, TypeOK
<1>2. 1 \in DOMAIN replies /\ Len(replies) \in Nat
  BY TailFacts DEF TypeOK
<1>3. ASSUME NEW i \in Answered', NEW j \in Answered' PROVE i = j
  <2>1. i + 1 = j + 1 /\ i \in Int /\ j \in Int
    BY <1>1, <1>2, <1>3 DEF VerdictIsOwn
  <2> QED
    BY <2>1
<1>4. ASSUME replies[1].to = "ask", NEW i \in Answered' PROVE FALSE
  <2>1. 1 \in Answered
    BY <1>2, <1>4 DEF Answered
  <2>2. i + 1 = 1 /\ i \in 1 .. Len(replies) - 1
    BY <1>1, <1>4, <2>1 DEF VerdictIsOwn
  <2> QED
    BY <2>2, <1>2
<1> QED
  BY <1>1, <1>3, <1>4

LEMMA VerdictStep == TypeOK /\ VerdictIsOwn /\ [Next]_vars => VerdictIsOwn'
<1> SUFFICES ASSUME TypeOK, VerdictIsOwn, [Next]_vars
             PROVE  VerdictIsOwn'
  OBVIOUS
<1>1. ASSUME requests' = <<>>, replies' = <<>> PROVE VerdictIsOwn'
  <2>1. Asked' = {} /\ Answered' = {}
    BY <1>1, EmptyFacts DEF Asked, Answered
  <2> QED
    BY <2>1 DEF VerdictIsOwn
<1>2. ASSUME UNCHANGED <<requests, replies>>, hb' = hb \/ hb \notin {"recv", "failed"}
      PROVE  VerdictIsOwn'
  BY <1>2 DEF VerdictIsOwn, Asked, Answered
<1>3. ASSUME HbInitialize \/ HbReset PROVE VerdictIsOwn'
  BY <1>3, <1>1 DEF HbInitialize, HbReset, Connect
<1>4. CASE HbCall
  <2>1. CASE Send("ask") /\ hb' = "recv" /\ requests' = Append(requests, "ask")
    <3>1. Asked = {} /\ Answered = {}
      BY <1>4 DEF HbCall, VerdictIsOwn
    <3>2. Asked' = {Len(requests) + 1}
      <4>1. "ask" \in Request
        BY DEF Request
      <4>2. /\ DOMAIN requests' = 1 .. Len(requests) + 1 /\ DOMAIN requests = 1 .. Len(requests)
            /\ Len(requests) \in Nat
            /\ \A i \in 1 .. Len(requests) : requests'[i] = requests[i]
            /\ requests'[Len(requests) + 1] = "ask"
        BY <2>1, <4>1, AppendFacts DEF TypeOK
      <4> QED
        BY <4>2, <3>1 DEF Asked
    <3>3. Answered' = {}
      BY <2>1, <3>1 DEF Send, Answered
    <3> QED
      BY <2>1, <3>2, <3>3 DEF VerdictIsOwn
  <2>2. CASE UNCHANGED <<requests, replies>>
    BY <2>2, <1>2, <1>4 DEF HbCall
  <2> QED
    BY <1>4, <2>1, <2>2 DEF HbCall, Send, connVars
<1>5. CASE HbVerdict
  <2>1. /\ replies # <<>> /\ replies' = Tail(replies) /\ UNCHANGED requests
        /\ Kind(Head(replies).to) = "CanYouActivateMe"
    BY <1>5 DEF HbVerdict, Receive, Expected
  <2>2. replies[1].to = "ask" /\ 1 \in Answered
    BY <2>1, TailFacts DEF Kind, TypeOK, Answered
  <2>3. Answered' = {} /\ Asked' = {}
    BY <2>1, <2>2, AnsweredAfterRead DEF VerdictIsOwn, Asked
  <2> QED
    BY <2>3 DEF VerdictIsOwn
<1>6. ASSUME NEW kind, Receive(kind) \/ ReceiveFails(kind), hb' = hb \/ hb' \in {"recv", "failed"}
      PROVE  VerdictIsOwn'
  <2>1. CASE UNCHANGED <<requests, replies>>
    BY <1>6, <2>1 DEF VerdictIsOwn, Asked, Answered
  <2>2. CASE UNCHANGED requests /\ replies # <<>> /\ replies' = Tail(replies)
    <3>1. Asked' = Asked
      BY <2>2 DEF Asked
    <3> QED
      BY <1>6, <2>2, <3>1, AnsweredAfterRead DEF VerdictIsOwn
  <2> QED
    BY <1>6, <2>1, <2>2, ReadFacts
<1>7. CASE HbFail
  BY <1>6, <1>7 DEF HbFail
<1>8. ASSUME NEW c \in Caller, SyncDataReturn(c) \/ SyncDataFail(c) PROVE VerdictIsOwn'
  BY <1>6, <1>8 DEF SyncDataReturn, SyncDataFail
<1>9. ASSUME NEW c \in Caller, SyncDataSend(c) PROVE VerdictIsOwn'
  <2>1. app[c].data \in Request \ {"ask"}
    BY <1>9, SyncDataSendCases, ChannelAssumption DEF TypeOK, Request
  <2>2. CASE requests' = Append(requests, app[c].data) /\ UNCHANGED <<hb, replies>>
    <3>1. /\ DOMAIN requests' = 1 .. Len(requests) + 1 /\ DOMAIN requests = 1 .. Len(requests)
          /\ Len(requests) \in Nat
          /\ \A i \in 1 .. Len(requests) : requests'[i] = requests[i]
          /\ requests'[Len(requests) + 1] # "ask"
      BY <2>1, <2>2, AppendFacts DEF TypeOK
    <3>2. Asked' = Asked /\ Answered' = Answered
      BY <2>2, <3>1 DEF Asked, Answered
    <3> QED
      BY <2>2, <3>2 DEF VerdictIsOwn
  <2>3. CASE UNCHANGED <<hb, requests, replies>>
    BY <2>3, <1>2
  <2> QED
    BY <1>9, <2>2, <2>3, SyncDataSendCases, SendFacts DEF Sends, connVars
<1>10. CASE Handle
  <2>a. PICK result \in Result :
          /\ [to |-> Head(requests), result |-> result] \in Reply
          /\ replies' = Append(replies, [to |-> Head(requests), result |-> result])
    BY <1>10, HandleCases
  <2> DEFINE reply == [to |-> Head(requests), result |-> result]
  <2>1. /\ requests # <<>> /\ requests' = Tail(requests) /\ replies' = Append(replies, reply)
        /\ UNCHANGED hb
    BY <1>10, <2>a DEF Handle
  <2>2. reply \in Reply
    BY <2>a
  <2>3. /\ DOMAIN replies' = 1 .. Len(replies) + 1 /\ DOMAIN replies = 1 .. Len(replies)
        /\ Len(replies) \in Nat
        /\ \A i \in 1 .. Len(replies) : replies'[i] = replies[i]
        /\ replies'[Len(replies) + 1].to = requests[1]
    <3>1. replies'[Len(replies) + 1] = reply
      BY <2>1, <2>2, AppendFacts DEF TypeOK
    <3>2. reply.to = requests[1]
      BY <2>1, TailFacts DEF TypeOK
    <3> QED
      BY <2>1, <2>2, <3>1, <3>2, AppendFacts DEF TypeOK
  <2>4. ASSUME NEW i \in Asked' PROVE i + 1 \in Asked /\ i \in 1 .. Len(requests) - 1
    BY <2>1, <2>4, TailFacts DEF Asked, TypeOK
  <2>5. 1 \in DOMAIN requests /\ Len(requests) \in Nat
    BY <2>1, TailFacts DEF TypeOK
  <2>6. CASE requests[1] = "ask"
    <3>1. 1 \in Asked /\ Answered = {}
      BY <2>5, <2>6 DEF Asked, VerdictIsOwn
    <3>2. ASSUME NEW i \in Asked' PROVE FALSE
      <4>1. i + 1 = 1 /\ i \in 1 .. Len(requests) - 1
        BY <2>4, <3>1, <3>2 DEF VerdictIsOwn
      <4> QED
        BY <4>1, <2>5
    <3>3. Answered' = {Len(replies) + 1}
      BY <2>3, <2>6, <3>1 DEF Answered
    <3> QED
      BY <2>1, <3>1, <3>2, <3>3 DEF VerdictIsOwn
  <2>7. CASE requests[1] # "ask"
    <3>1. Answered' = Answered
      BY <2>3, <2>7 DEF Answered
    <3>2. ASSUME NEW i \in Asked', NEW j \in Asked' PROVE i = j
      <4>1. i + 1 = j + 1 /\ i \in Int /\ j \in Int
        BY <2>4, <2>5, <3>2 DEF VerdictIsOwn
      <4> QED
        BY <4>1
    <3> QED
      BY <2>1, <2>4, <3>1, <3>2 DEF VerdictIsOwn
  <2> QED
    BY <2>6, <2>7
<1>11. CASE End
  <2>1. requests' = <<>> /\ Asked' = {} /\ UNCHANGED hb
    BY <1>11, EmptyFacts DEF End, Asked
  <2>2. CASE UNCHANGED replies
    BY <2>1, <2>2 DEF VerdictIsOwn, Answered
  <2> QED
    BY <1>1, <1>11, <2>1, <2>2 DEF End
<1>12. ASSUME NEW c \in Caller, SyncData(c) \/ SyncDataLock(c) PROVE VerdictIsOwn'
  BY <1>12, <1>2 DEF SyncData, SyncDataLock, connVars
<1>13. ASSUME NEW d \in Data, HandleOld(d) PROVE VerdictIsOwn'
  BY <1>13, <1>2 DEF HandleOld
<1>14. ASSUME HbWake \/ PeerTurns \/ UNCHANGED vars PROVE VerdictIsOwn'
  BY <1>14, <1>2 DEF HbWake, PeerTurns, connVars, vars
<1> QED
  BY <1>3, <1>4, <1>5, <1>7, <1>8, <1>9, <1>10, <1>11, <1>12, <1>13, <1>14
     DEF Next, Heartbeat, Application, Environment
-----------------------------------------------------------------------------
LEMMA LocksStep == TypeOK /\ Locks /\ [Next]_vars => Locks'
<1> SUFFICES ASSUME TypeOK, Locks, [Next]_vars
             PROVE  Locks'
  OBVIOUS
<1>1. ASSUME HbInitialize \/ HbWake \/ HbReset PROVE Locks'
  BY <1>1 DEF HbInitialize, HbWake, HbReset, Locks
<1>2. CASE HbCall
  BY <1>2, ChannelAssumption DEF HbCall, Locks
<1>3. ASSUME HbVerdict \/ HbFail PROVE Locks'
  BY <1>3, ChannelAssumption DEF HbVerdict, HbFail, Locks
<1>4. ASSUME NEW c \in Caller, SyncData(c) \/ SyncDataLock(c) PROVE Locks'
  <2>1. /\ UNCHANGED <<hb, clientLock>> /\ app'[c].pc # "recv" /\ app[c].pc # "recv"
        /\ \A e \in Caller \ {c} : app'[e] = app[e]
    BY <1>4 DEF SyncData, SyncDataLock, TypeOK
  <2> QED
    BY <2>1 DEF Locks
<1>5. ASSUME NEW c \in Caller, SyncDataSend(c) PROVE Locks'
  <2>1. CASE Sends(c)
    <3>1. /\ clientLock = "free" /\ clientLock' = c /\ app'[c].pc = "recv" /\ UNCHANGED hb
          /\ \A e \in Caller \ {c} : app'[e] = app[e]
      BY <1>5, <2>1, SyncDataSendCases, GoOnFacts DEF Sends
    <3> QED
      BY <3>1, ChannelAssumption DEF Locks
  <2>2. CASE Return(c)
    <3>1. /\ clientLock = "free" /\ clientLock' = "free" /\ app'[c].pc = "idle" /\ UNCHANGED hb
          /\ \A e \in Caller \ {c} : app'[e] = app[e]
      BY <1>5, <2>2, SyncDataSendCases, ReturnFacts
    <3> QED
      BY <3>1, ChannelAssumption DEF Locks
  <2> QED
    BY <1>5, <2>1, <2>2, SyncDataSendCases
<1>6. ASSUME NEW c \in Caller, SyncDataReturn(c) \/ SyncDataFail(c) PROVE Locks'
  <2>1. app[c].pc = "recv" /\ Return(c) /\ UNCHANGED hb
    BY <1>6 DEF SyncDataReturn, SyncDataFail
  <2>2. /\ clientLock = c /\ clientLock' = "free" /\ app'[c].pc = "idle"
        /\ \A e \in Caller \ {c} : app'[e] = app[e]
    BY <2>1, ReturnFacts DEF Locks
  <2> QED
    BY <2>1, <2>2, ChannelAssumption DEF Locks
<1>7. ASSUME Environment \/ UNCHANGED vars PROVE Locks'
  BY <1>7 DEF Environment, Handle, HandleOld, End, PeerTurns, vars, Locks
<1> QED
  BY <1>1, <1>2, <1>3, <1>4, <1>5, <1>6, <1>7 DEF Next, Heartbeat, Application

LEMMA OneCallStep == TypeOK /\ OneCall /\ [Next]_vars => OneCall'
<1> SUFFICES ASSUME TypeOK, OneCall, [Next]_vars
             PROVE  OneCall'
  OBVIOUS
<1>1. ASSUME UNCHANGED <<app, unsent, sent>> PROVE OneCall'
  BY <1>1 DEF OneCall
<1>2. ASSUME NEW c \in Caller, SyncData(c) PROVE OneCall'
  <2>1. PICK d \in unsent : /\ app' = [app EXCEPT ![c] = [pc |-> "called", data |-> d]]
                            /\ unsent' = unsent \ {d}
    BY <1>2 DEF SyncData
  <2>2. /\ app'[c].pc = "called" /\ app'[c].data = d /\ UNCHANGED sent
        /\ \A e \in Caller \ {c} : app'[e] = app[e]
    BY <1>2, <2>1 DEF SyncData, TypeOK, history
  <2>3. d \notin ToSet(sent)
    BY <2>1 DEF OneCall
  <2> QED
    BY <2>1, <2>2, <2>3 DEF OneCall
<1>3. ASSUME NEW c \in Caller, SyncDataLock(c) PROVE OneCall'
  <2>1. /\ app[c].pc = "called" /\ app'[c].pc = "locked" /\ app'[c].data = app[c].data
        /\ UNCHANGED <<unsent, sent>> /\ \A e \in Caller \ {c} : app'[e] = app[e]
    BY <1>3, GoOnFacts DEF SyncDataLock, history
  <2> QED
    BY <2>1 DEF OneCall
<1>4. ASSUME NEW c \in Caller, Return(c), UNCHANGED <<unsent, sent>> PROVE OneCall'
  BY <1>4, ReturnFacts DEF OneCall
<1>5. ASSUME NEW c \in Caller, SyncDataSend(c), Sends(c) PROVE OneCall'
  <2>1. /\ app[c].pc = "locked" /\ app'[c].pc = "recv" /\ app'[c].data = app[c].data
        /\ UNCHANGED unsent /\ \A e \in Caller \ {c} : app'[e] = app[e]
    BY <1>5, SyncDataSendCases, GoOnFacts DEF Sends
  <2>2. app[c].data \in Data /\ app[c].data \notin ToSet(sent) /\ app[c].data \notin unsent
    BY <2>1 DEF OneCall, TypeOK
  <2>3. /\ DOMAIN sent' = 1 .. Len(sent) + 1 /\ DOMAIN sent = 1 .. Len(sent) /\ Len(sent) \in Nat
        /\ \A i \in 1 .. Len(sent) : sent'[i] = sent[i] /\ sent[i] \in ToSet(sent)
        /\ sent'[Len(sent) + 1] = app[c].data
        /\ ToSet(sent') = ToSet(sent) \cup {app[c].data}
    BY <1>5, <2>2, AppendFacts, ElementFacts DEF Sends, TypeOK
  <2>4. \A i, j \in DOMAIN sent' : sent'[i] = sent'[j] => i = j
    BY <2>2, <2>3 DEF OneCall
  <2> QED
    BY <2>1, <2>2, <2>3, <2>4 DEF OneCall
<1>6. ASSUME NEW c \in Caller, SyncDataSend(c) PROVE OneCall'
  BY <1>4, <1>5, <1>6, SyncDataSendCases
<1>7. ASSUME NEW c \in Caller, SyncDataReturn(c) \/ SyncDataFail(c) PROVE OneCall'
  BY <1>4, <1>7 DEF SyncDataReturn, SyncDataFail, history
<1>8. ASSUME Heartbeat \/ Environment \/ UNCHANGED vars PROVE OneCall'
  BY <1>1, <1>8 DEF Heartbeat, HbInitialize, HbWake, HbCall, HbVerdict, HbFail, HbReset,
     Environment, Handle, HandleOld, End, PeerTurns, vars, history
<1> QED
  BY <1>2, <1>3, <1>6, <1>7, <1>8 DEF Next, Application

LEMMA LastSentStep == TypeOK /\ Locks /\ LastSent /\ [Next]_vars => LastSent'
<1> SUFFICES ASSUME TypeOK, Locks, LastSent, [Next]_vars
             PROVE  LastSent'
  OBVIOUS
<1>1. ASSUME UNCHANGED <<app, sent>> PROVE LastSent'
  BY <1>1 DEF LastSent
<1>2. ASSUME NEW c \in Caller, app'[c].pc # "recv", UNCHANGED sent,
             \A e \in Caller \ {c} : app'[e] = app[e]
      PROVE  LastSent'
  BY <1>2 DEF LastSent
<1>3. ASSUME NEW c \in Caller, SyncData(c) \/ SyncDataLock(c) PROVE LastSent'
  <2>1. app'[c].pc # "recv" /\ UNCHANGED sent /\ \A e \in Caller \ {c} : app'[e] = app[e]
    BY <1>3 DEF SyncData, SyncDataLock, TypeOK, history
  <2> QED
    BY <1>2, <2>1
<1>4. ASSUME NEW c \in Caller, SyncDataReturn(c) \/ SyncDataFail(c) PROVE LastSent'
  BY <1>2, <1>4, ReturnFacts DEF SyncDataReturn, SyncDataFail, history
<1>5. ASSUME NEW c \in Caller, SyncDataSend(c) PROVE LastSent'
  <2>1. CASE Sends(c)
    <3>1. /\ clientLock = "free" /\ app'[c].data = app[c].data /\ sent' = Append(sent, app[c].data)
          /\ \A e \in Caller \ {c} : app'[e] = app[e]
      BY <1>5, <2>1, SyncDataSendCases, GoOnFacts DEF Sends
    <3>2. \A e \in Caller \ {c} : app'[e].pc # "recv"
      BY <3>1, ChannelAssumption DEF Locks
    <3>3. app[c].data \in Data
      BY <1>5, SyncDataSendCases DEF TypeOK
    <3>4. sent' # <<>> /\ sent'[Len(sent')] = app[c].data
      BY <3>1, <3>3, AppendFacts DEF TypeOK
    <3> QED
      BY <3>1, <3>2, <3>4 DEF LastSent
  <2>2. CASE Return(c) /\ UNCHANGED sent
    BY <1>2, <2>2, ReturnFacts
  <2> QED
    BY <1>5, <2>1, <2>2, SyncDataSendCases
<1>6. ASSUME Heartbeat \/ Environment \/ UNCHANGED vars PROVE LastSent'
  BY <1>1, <1>6 DEF Heartbeat, HbInitialize, HbWake, HbCall, HbVerdict, HbFail, HbReset,
     Environment, Handle, HandleOld, End, PeerTurns, vars, history
<1> QED
  BY <1>3, <1>4, <1>5, <1>6 DEF Next, Application

(* Handling a datum takes it from the connection, where it was once. *)
LEMMA PendingAfterHandle ==
  ASSUME TypeOK, OnePlace, Handle
  PROVE  /\ Pending' = Pending \ {Head(requests)}
         /\ Head(requests) # "ask" => Head(requests) \in Pending /\ Head(requests) \in Data
         /\ \A i, j \in DOMAIN requests' :
              requests'[i] = requests'[j] /\ requests'[i] # "ask" => i = j
<1>1. requests # <<>> /\ requests' = Tail(requests)
  BY DEF Handle
<1>2. /\ Len(requests) \in Nat \ {0} /\ DOMAIN requests = 1 .. Len(requests)
      /\ DOMAIN requests' = 1 .. Len(requests) - 1
      /\ \A i \in 1 .. Len(requests) - 1 : requests'[i] = requests[i + 1] /\ i + 1 \in 1 .. Len(requests)
      /\ Head(requests) = requests[1] /\ 1 \in DOMAIN requests /\ Head(requests) \in Request
      /\ ToSet(requests) = ToSet(requests') \cup {Head(requests)}
  BY <1>1, TailFacts DEF TypeOK
<1>3. ASSUME NEW i \in DOMAIN requests', requests'[i] # "ask" PROVE requests'[i] # requests[1]
  <2>1. i + 1 # 1 /\ i + 1 \in DOMAIN requests /\ requests'[i] = requests[i + 1]
    BY <1>2
  <2> QED
    BY <1>2, <1>3, <2>1 DEF OnePlace
<1>4. ASSUME NEW i \in DOMAIN requests', NEW j \in DOMAIN requests',
             requests'[i] = requests'[j], requests'[i] # "ask"
      PROVE  i = j
  <2>1. i + 1 = j + 1 /\ i \in Int /\ j \in Int
    BY <1>2, <1>4 DEF OnePlace
  <2> QED
    BY <2>1
<1>5. Head(requests) # "ask" => Head(requests) \notin ToSet(requests')
  BY <1>2, <1>3 DEF ToSet
<1> QED
  BY <1>2, <1>4, <1>5 DEF Pending, Request

LEMMA OnePlaceStep == TypeOK /\ OneCall /\ OnePlace /\ [Next]_vars => OnePlace'
<1> SUFFICES ASSUME TypeOK, OneCall, OnePlace, [Next]_vars
             PROVE  OnePlace'
  OBVIOUS
<1>1. ASSUME UNCHANGED <<requests, old, sent, accepted>> PROVE OnePlace'
  BY <1>1 DEF OnePlace, Pending
<1>2. ASSUME requests' = <<>>, old' = old \cup Pending, UNCHANGED <<sent, accepted>> PROVE OnePlace'
  <2>1. Pending' = {} /\ DOMAIN requests' = {}
    BY <1>2, EmptyFacts DEF Pending
  <2> QED
    BY <1>2, <2>1 DEF OnePlace
<1>3. ASSUME HbInitialize \/ HbReset \/ End PROVE OnePlace'
  BY <1>2, <1>3 DEF HbInitialize, HbReset, Connect, End, history
<1>4. CASE HbCall
  <2>1. CASE requests' = Append(requests, "ask") /\ UNCHANGED <<old, sent, accepted>>
    <3>1. /\ DOMAIN requests' = 1 .. Len(requests) + 1 /\ DOMAIN requests = 1 .. Len(requests)
          /\ Len(requests) \in Nat
          /\ \A i \in 1 .. Len(requests) : requests'[i] = requests[i]
          /\ requests'[Len(requests) + 1] = "ask"
          /\ ToSet(requests') = ToSet(requests) \cup {"ask"}
      <4>1. "ask" \in Request
        BY DEF Request
      <4> QED
        BY <2>1, <4>1, AppendFacts DEF TypeOK
    <3>2. Pending' = Pending
      BY <3>1 DEF Pending
    <3>3. \A i, j \in DOMAIN requests' : requests'[i] = requests'[j] /\ requests'[i] # "ask" => i = j
      BY <3>1 DEF OnePlace
    <3> QED
      BY <2>1, <3>2, <3>3 DEF OnePlace
  <2> QED
    BY <1>1, <1>4, <2>1, SendFacts DEF HbCall, history, connVars
<1>5. ASSUME NEW c \in Caller, SyncDataSend(c), Sends(c) PROVE OnePlace'
  <2> DEFINE d == app[c].data
  <2>1. d \in Data /\ d \in Request /\ d \notin ToSet(sent) /\ d # "ask"
    BY <1>5, SyncDataSendCases, ChannelAssumption DEF OneCall, TypeOK, Request
  <2>2. ToSet(sent') = ToSet(sent) \cup {d} /\ UNCHANGED <<old, accepted>>
    <3>1. sent \in Seq(Data)
      BY DEF TypeOK
    <3>2. ToSet(Append(sent, d)) = ToSet(sent) \cup {d}
      BY <2>1, <3>1, AppendFacts
    <3>3. sent' = Append(sent, d) /\ UNCHANGED <<old, accepted>>
      BY <1>5, SyncDataSendCases, SendFacts DEF Sends
    <3> QED
      BY <3>2, <3>3
  <2>3. d \notin Pending /\ d \notin old /\ d \notin ToSet(accepted)
    BY <2>1 DEF OnePlace
  <2>4. CASE UNCHANGED requests
    BY <2>2, <2>4 DEF OnePlace, Pending
  <2>5. CASE requests' = Append(requests, d)
    <3>1. /\ DOMAIN requests' = 1 .. Len(requests) + 1 /\ DOMAIN requests = 1 .. Len(requests)
          /\ Len(requests) \in Nat
          /\ \A i \in 1 .. Len(requests) : requests'[i] = requests[i] /\ requests[i] \in ToSet(requests)
          /\ requests'[Len(requests) + 1] = d
          /\ ToSet(requests') = ToSet(requests) \cup {d}
      BY <2>1, <2>5, AppendFacts, ElementFacts DEF TypeOK
    <3>2. Pending' = Pending \cup {d}
      BY <2>1, <3>1 DEF Pending
    <3>3. \A i, j \in DOMAIN requests' : requests'[i] = requests'[j] /\ requests'[i] # "ask" => i = j
      BY <2>1, <2>3, <3>1 DEF OnePlace, Pending
    <3> QED
      BY <2>2, <2>3, <3>2, <3>3 DEF OnePlace
  <2> QED
    BY <1>5, <2>4, <2>5, SendFacts DEF Sends
<1>6. ASSUME NEW c \in Caller, SyncDataSend(c) PROVE OnePlace'
  BY <1>1, <1>5, <1>6, SyncDataSendCases DEF connVars
<1>7. CASE Handle
  <2>1. UNCHANGED <<old, sent>>
    BY <1>7 DEF Handle
  <2>2. CASE Head(requests) = "ask"
    BY <1>7, <2>1, <2>2, PendingAfterHandle DEF Handle, OnePlace
  <2>3. CASE Head(requests) # "ask"
    <3>1. PICK result \in Result : Head(requests) \in Data /\ RecvData(Head(requests), result)
      BY <1>7, <2>3, HandleCases
    <3>2. ToSet(accepted') \subseteq ToSet(accepted) \cup {Head(requests)}
      BY <3>1, RecvDataFacts DEF TypeOK
    <3> QED
      BY <1>7, <2>1, <2>3, <3>2, PendingAfterHandle DEF OnePlace
  <2> QED
    BY <2>2, <2>3
<1>8. ASSUME NEW d \in Data, HandleOld(d) PROVE OnePlace'
  <2>1. /\ d \in old /\ old' = old \ {d} /\ UNCHANGED <<requests, sent>>
        /\ ToSet(accepted') \subseteq ToSet(accepted) \cup {d}
    BY <1>8, RecvDataFacts DEF HandleOld, TypeOK
  <2> QED
    BY <2>1 DEF OnePlace, Pending
<1>9. ASSUME NEW c \in Caller, SyncDataReturn(c) \/ SyncDataFail(c) PROVE OnePlace'
  BY <1>1, <1>9, ReadFacts DEF SyncDataReturn, SyncDataFail, history
<1>10. ASSUME HbVerdict \/ HbFail PROVE OnePlace'
  BY <1>1, <1>10, ReadFacts DEF HbVerdict, HbFail, history
<1>11. ASSUME NEW c \in Caller, SyncData(c) \/ SyncDataLock(c) PROVE OnePlace'
  BY <1>1, <1>11 DEF SyncData, SyncDataLock, connVars, history
<1>12. ASSUME HbWake \/ PeerTurns \/ UNCHANGED vars PROVE OnePlace'
  BY <1>1, <1>12 DEF HbWake, PeerTurns, vars, connVars, history
<1> QED
  BY <1>3, <1>4, <1>6, <1>7, <1>8, <1>9, <1>10, <1>11, <1>12
     DEF Next, Heartbeat, Application, Environment

(* What was accepted stays accepted. *)
LEMMA AcceptedGrows == TypeOK /\ [Next]_vars => ToSet(accepted) \subseteq ToSet(accepted')
<1> SUFFICES ASSUME TypeOK, [Next]_vars
             PROVE  ToSet(accepted) \subseteq ToSet(accepted')
  OBVIOUS
<1>1. CASE Handle
  <2>1. PICK result \in Result :
          /\ Head(requests) = "ask" => UNCHANGED accepted
          /\ Head(requests) # "ask" =>
               Head(requests) \in Data /\ RecvData(Head(requests), result)
    BY <1>1, HandleCases
  <2> QED
    BY <2>1, RecvDataFacts DEF TypeOK
<1>2. ASSUME NEW d \in Data, HandleOld(d) PROVE ToSet(accepted) \subseteq ToSet(accepted')
  BY <1>2, RecvDataFacts DEF HandleOld, TypeOK
<1>3. ASSUME UNCHANGED accepted PROVE ToSet(accepted) \subseteq ToSet(accepted')
  BY <1>3
<1>4. ASSUME Heartbeat \/ UNCHANGED vars \/ End \/ PeerTurns PROVE UNCHANGED accepted
  BY <1>4 DEF Heartbeat, HbInitialize, HbWake, HbCall, HbVerdict, HbFail, HbReset, End, PeerTurns,
     vars, history
<1>5. ASSUME NEW c \in Caller, Application(c) PROVE UNCHANGED accepted
  BY <1>5 DEF Application, SyncData, SyncDataLock, SyncDataSend, SyncDataReturn, SyncDataFail, history
<1> QED
  BY <1>1, <1>2, <1>3, <1>4, <1>5 DEF Next, Environment

LEMMA TruthfulStep == TypeOK /\ Locks /\ Truthful /\ [Next]_vars => Truthful'
<1> SUFFICES ASSUME TypeOK, Locks, Truthful, [Next]_vars
             PROVE  Truthful'
  OBVIOUS
<1> DEFINE OkIsTrue == \A i \in DOMAIN replies :
             replies[i].to # "ask" /\ replies[i].result = "ok" => replies[i].to \in ToSet(accepted)
           Meets(c) == /\ \A i \in DOMAIN requests : requests[i] = app[c].data
                       /\ \A i \in DOMAIN replies : replies[i].to = app[c].data
           Clean(c) == app[c].pc = "recv" /\ app[c].data \notin suspect
<1>a. ToSet(accepted) \subseteq ToSet(accepted')
  BY AcceptedGrows
<1>b. clientLock = "free" => \A c \in Caller : app[c].pc # "recv"
  BY ChannelAssumption DEF Locks
<1>1. ASSUME UNCHANGED <<requests, replies>>,
             \A c \in Caller : Clean(c)' => Clean(c) /\ app'[c].data = app[c].data
      PROVE  Truthful'
  BY <1>1, <1>a DEF Truthful
<1>2. ASSUME requests' = <<>>, replies' \in {replies, <<>>}, UNCHANGED <<app, suspect>>
      PROVE  Truthful'
  BY <1>2, <1>a, EmptyFacts DEF Truthful
<1>3. ASSUME HbInitialize \/ HbReset \/ End PROVE Truthful'
  BY <1>2, <1>3 DEF HbInitialize, HbReset, Connect, End, history
<1>4. CASE HbCall
  <2>1. (\A c \in Caller : app[c].pc # "recv") /\ UNCHANGED <<app, replies>>
    BY <1>4, <1>b, SendFacts DEF HbCall, connVars
  <2> QED
    BY <2>1, <1>a DEF Truthful
<1>5. ASSUME NEW kind, Receive(kind) \/ ReceiveFails(kind), UNCHANGED suspect,
             \A c \in Caller : app'[c].pc = "recv" => app'[c] = app[c]
      PROVE  Truthful'
  <2>1. CASE UNCHANGED <<requests, replies>>
    BY <1>1, <1>5, <2>1
  <2>2. CASE UNCHANGED requests /\ replies # <<>> /\ replies' = Tail(replies)
    <3>1. /\ DOMAIN replies = 1 .. Len(replies) /\ DOMAIN replies' = 1 .. Len(replies) - 1
          /\ \A i \in 1 .. Len(replies) - 1 :
               replies'[i] = replies[i + 1] /\ i + 1 \in 1 .. Len(replies)
      BY <2>2, TailFacts DEF TypeOK
    <3>2. \A i \in DOMAIN replies' : \E j \in DOMAIN replies : replies'[i] = replies[j]
      BY <3>1
    <3>3. OkIsTrue'
      BY <1>a, <3>2 DEF Truthful
    <3>4. ASSUME NEW c \in Caller, Clean(c)' PROVE Meets(c)'
      <4>1. Clean(c) /\ app'[c].data = app[c].data
        BY <1>5, <3>4
      <4>2. Meets(c)
        BY <4>1 DEF Truthful
      <4> QED
        BY <2>2, <3>2, <4>1, <4>2
    <3> QED
      BY <3>3, <3>4 DEF Truthful
  <2> QED
    BY <1>5, <2>1, <2>2, ReadFacts
<1>6. ASSUME HbVerdict \/ HbFail PROVE Truthful'
  BY <1>5, <1>6 DEF HbVerdict, HbFail, history
<1>7. ASSUME NEW c \in Caller, SyncDataReturn(c) \/ SyncDataFail(c) PROVE Truthful'
  <2>1. Return(c) /\ (Receive("SyncData") \/ ReceiveFails("SyncData")) /\ UNCHANGED suspect
    BY <1>7 DEF SyncDataReturn, SyncDataFail, history
  <2>2. \A e \in Caller : app'[e].pc = "recv" => app'[e] = app[e]
    BY <2>1, ReturnFacts
  <2> QED
    BY <1>5, <2>1, <2>2
<1>8. ASSUME NEW c \in Caller, SyncData(c) \/ SyncDataLock(c) PROVE Truthful'
  <2>1. UNCHANGED <<requests, replies, suspect>>
    BY <1>8 DEF SyncData, SyncDataLock, connVars, history
  <2>2. app'[c].pc # "recv" /\ \A e \in Caller \ {c} : app'[e] = app[e]
    BY <1>8 DEF SyncData, SyncDataLock, TypeOK
  <2> QED
    BY <1>1, <2>1, <2>2
<1>9. ASSUME NEW c \in Caller, SyncDataSend(c), Sends(c) PROVE Truthful'
  <2>1. /\ app'[c].data = app[c].data /\ UNCHANGED replies
        /\ \A e \in Caller \ {c} : app'[e] = app[e] /\ app[e].pc # "recv"
    BY <1>9, <1>b, SyncDataSendCases, GoOnFacts, SendFacts DEF Sends
  <2>2. ASSUME app[c].data \notin suspect' PROVE Meets(c)'
    <3>1. requests = <<>> /\ replies = <<>>
      BY <1>9, <2>2 DEF Sends
    <3>2. app[c].data \in Request
      BY <1>9, SyncDataSendCases DEF TypeOK, Request
    <3>3. Append(requests, app[c].data) = <<app[c].data>>
      BY <3>1, <3>2
    <3>4. requests' = <<>> \/ requests' = <<app[c].data>>
      BY <1>9, <3>1, <3>3, SendFacts DEF Sends
    <3>5. \A i \in DOMAIN requests' : requests'[i] = app[c].data
      BY <3>4
    <3>6. DOMAIN replies' = {}
      BY <2>1, <3>1, EmptyFacts
    <3> QED
      BY <2>1, <3>5, <3>6
  <2>3. OkIsTrue'
    BY <1>a, <2>1 DEF Truthful
  <2> QED
    BY <2>1, <2>2, <2>3 DEF Truthful
<1>10. ASSUME NEW c \in Caller, SyncDataSend(c), Return(c), UNCHANGED <<connVars, suspect>>
       PROVE  Truthful'
  <2>1. \A e \in Caller : app'[e].pc = "recv" => app'[e] = app[e]
    BY <1>10, ReturnFacts
  <2> QED
    BY <1>1, <1>10, <2>1 DEF connVars
<1>11. ASSUME NEW c \in Caller, SyncDataSend(c) PROVE Truthful'
  BY <1>9, <1>10, <1>11, SyncDataSendCases DEF connVars
<1>12. CASE Handle
  <2> DEFINE request == Head(requests)
  <2>a. PICK result \in Result :
          /\ [to |-> request, result |-> result] \in Reply
          /\ replies' = Append(replies, [to |-> request, result |-> result])
          /\ request # "ask" => request \in Data /\ RecvData(request, result)
    BY <1>12, HandleCases
  <2> DEFINE reply == [to |-> request, result |-> result]
  <2>1. /\ requests # <<>> /\ requests' = Tail(requests) /\ replies' = Append(replies, reply)
        /\ UNCHANGED <<app, suspect>>
    BY <1>12, <2>a DEF Handle
  <2>2. request \in Request /\ reply \in Reply
    BY <1>12, <2>a, HandleCases
  <2>3. /\ DOMAIN replies' = 1 .. Len(replies) + 1 /\ DOMAIN replies = 1 .. Len(replies)
        /\ Len(replies) \in Nat
        /\ \A i \in 1 .. Len(replies) : replies'[i] = replies[i]
        /\ replies'[Len(replies) + 1] = reply
    BY <2>1, <2>2, AppendFacts DEF TypeOK
  <2>4. /\ \A i \in DOMAIN requests' : \E j \in DOMAIN requests : requests'[i] = requests[j]
        /\ \E j \in DOMAIN requests : request = requests[j]
    <3>1. requests # <<>> /\ requests' = Tail(requests) /\ requests \in Seq(Request)
      BY <2>1 DEF TypeOK
    <3>2. /\ DOMAIN requests = 1 .. Len(requests) /\ DOMAIN requests' = 1 .. Len(requests) - 1
          /\ \A i \in 1 .. Len(requests) - 1 :
               requests'[i] = requests[i + 1] /\ i + 1 \in 1 .. Len(requests)
          /\ request = requests[1] /\ 1 \in DOMAIN requests
      BY <3>1, TailFacts
    <3> QED
      BY <3>2
  <2>5. ASSUME reply.to # "ask", reply.result = "ok" PROVE reply.to \in ToSet(accepted')
    <3>1. request \in Data /\ RecvData(request, result) /\ result = "ok"
      BY <2>5, <2>a
    <3> QED
      BY <3>1, RecvDataFacts DEF TypeOK
  <2>6. OkIsTrue'
    <3>1. ASSUME NEW i \in DOMAIN replies', replies'[i].to # "ask", replies'[i].result = "ok"
          PROVE  replies'[i].to \in ToSet(accepted')
      <4>1. CASE i = Len(replies) + 1
        BY <2>3, <2>5, <3>1, <4>1
      <4>2. CASE i \in DOMAIN replies
        BY <1>a, <2>3, <3>1, <4>2 DEF Truthful
      <4> QED
        BY <2>3, <4>1, <4>2
    <3> QED
      BY <3>1
  <2>7. ASSUME NEW c \in Caller, Clean(c)' PROVE Meets(c)'
    <3>1. Meets(c)
      BY <2>1, <2>7 DEF Truthful
    <3>2. reply.to = app[c].data
      BY <2>4, <3>1
    <3>3. \A i \in DOMAIN replies' : replies'[i].to = app[c].data
      BY <2>3, <3>1, <3>2
    <3> QED
      BY <2>1, <2>4, <3>1, <3>3
  <2> QED
    BY <2>6, <2>7 DEF Truthful
<1>13. ASSUME NEW d \in Data, HandleOld(d) PROVE Truthful'
  BY <1>1, <1>13 DEF HandleOld
<1>14. ASSUME HbWake \/ PeerTurns \/ UNCHANGED vars PROVE Truthful'
  BY <1>1, <1>14 DEF HbWake, PeerTurns, vars, connVars, history
<1> QED
  BY <1>3, <1>4, <1>6, <1>7, <1>8, <1>11, <1>12, <1>13, <1>14
     DEF Next, Heartbeat, Application, Environment

(* A call that reads an OK on a clean connection reads it for its own datum. *)
LEMMA OkIsOwn ==
  ASSUME TypeOK, Truthful, NEW c \in Caller, SyncDataReturn(c), Head(replies).result = "ok",
         app[c].data \notin suspect
  PROVE  app[c].data \in ToSet(accepted)
<1>1. /\ app[c].pc = "recv" /\ replies # <<>>
      /\ Kind(Head(replies).to) = "SyncData"
  BY DEF SyncDataReturn, Receive, Expected
<1>2. 1 \in DOMAIN replies /\ Head(replies) = replies[1]
  BY <1>1, TailFacts DEF TypeOK
<1>3. replies[1].to = app[c].data /\ replies[1].to # "ask"
  BY <1>1, <1>2 DEF Truthful, Kind
<1> QED
  BY <1>2, <1>3 DEF Truthful

(* Only a call that reads an OK adds to acked, and nothing takes from suspect. *)
LEMMA AckedGrows ==
  ASSUME TypeOK, [Next]_vars
  PROVE  /\ suspect \subseteq suspect'
         /\ \/ UNCHANGED acked
            \/ \E c \in Caller : /\ SyncDataReturn(c) /\ Head(replies).result = "ok"
                                 /\ acked' = acked \cup {app[c].data} /\ UNCHANGED suspect
<1>1. ASSUME Heartbeat \/ UNCHANGED vars \/ Environment PROVE UNCHANGED <<acked, suspect>>
  BY <1>1 DEF Heartbeat, HbInitialize, HbWake, HbCall, HbVerdict, HbFail, HbReset, Environment,
     Handle, HandleOld, End, PeerTurns, vars, history
<1>2. ASSUME NEW c \in Caller, SyncData(c) \/ SyncDataLock(c) \/ SyncDataFail(c)
      PROVE  UNCHANGED <<acked, suspect>>
  BY <1>2 DEF SyncData, SyncDataLock, SyncDataFail, history
<1>3. ASSUME NEW c \in Caller, SyncDataSend(c) PROVE UNCHANGED acked /\ suspect \subseteq suspect'
  BY <1>3 DEF SyncDataSend
<1>4. ASSUME NEW c \in Caller, SyncDataReturn(c)
      PROVE  /\ UNCHANGED suspect
             /\ UNCHANGED acked \/ (Head(replies).result = "ok" /\ acked' = acked \cup {app[c].data})
  BY <1>4 DEF SyncDataReturn
<1> QED
  BY <1>1, <1>2, <1>3, <1>4 DEF Next, Application

LEMMA AckedStep == TypeOK /\ Truthful /\ AckedIsAccepted /\ [Next]_vars => AckedIsAccepted'
<1> SUFFICES ASSUME TypeOK, Truthful, AckedIsAccepted, [Next]_vars
             PROVE  AckedIsAccepted'
  OBVIOUS
<1>1. ToSet(accepted) \subseteq ToSet(accepted')
  BY AcceptedGrows
<1>2. suspect \subseteq suspect'
  BY AckedGrows
<1>3. CASE UNCHANGED acked
  BY <1>1, <1>2, <1>3 DEF AckedIsAccepted
<1>4. ASSUME NEW c \in Caller, SyncDataReturn(c), Head(replies).result = "ok",
             acked' = acked \cup {app[c].data}, UNCHANGED suspect
      PROVE  AckedIsAccepted'
  <2>1. app[c].data \in suspect \/ app[c].data \in ToSet(accepted)
    BY <1>4, OkIsOwn
  <2> QED
    BY <1>1, <1>4, <2>1 DEF AckedIsAccepted
<1> QED
  BY <1>3, <1>4, AckedGrows

(* The last datum sent was sent before no other. *)
LEMMA LastIsBeforeNone ==
  ASSUME TypeOK, OneCall, LastSent, NEW c \in Caller, app[c].pc = "recv"
  PROVE  \A e : ~SentBefore(app[c].data, e)
<1>1. sent # <<>> /\ sent[Len(sent)] = app[c].data /\ DOMAIN sent = 1 .. Len(sent) /\ Len(sent) \in Nat \ {0}
  BY TailFacts DEF LastSent, TypeOK
<1>2. ASSUME NEW i \in DOMAIN sent, NEW j \in DOMAIN sent, i < j, sent[i] = app[c].data PROVE FALSE
  <2>1. i = Len(sent)
    BY <1>1, <1>2 DEF OneCall
  <2> QED
    BY <1>1, <1>2, <2>1
<1> QED
  BY <1>2 DEF SentBefore

LEMMA OvertakenStep == Inv /\ [Next]_vars => OvertakenIsNotAcked'
<1> SUFFICES ASSUME Inv, [Next]_vars
             PROVE  OvertakenIsNotAcked'
  OBVIOUS
<1> USE DEF Inv
<1>1. ASSUME UNCHANGED <<sent, accepted>> PROVE OvertakenIsNotAcked'
  <2>1. CASE UNCHANGED acked
    BY <1>1, <2>1, AckedGrows DEF OvertakenIsNotAcked, SentBefore
  <2>2. ASSUME NEW c \in Caller, SyncDataReturn(c), acked' = acked \cup {app[c].data}, UNCHANGED suspect
        PROVE  OvertakenIsNotAcked'
    <3>1. \A e : ~SentBefore(app[c].data, e)
      BY <2>2, LastIsBeforeNone DEF SyncDataReturn
    <3>2. \A d, e : SentBefore(d, e)' <=> SentBefore(d, e)
      BY <1>1 DEF SentBefore
    <3> QED
      BY <1>1, <2>2, <3>1, <3>2 DEF OvertakenIsNotAcked
  <2> QED
    BY <2>1, <2>2, AckedGrows
<1>2. ASSUME NEW d \in Data, d \notin ToSet(accepted), NEW result, RecvData(d, result),
             UNCHANGED <<sent, acked, suspect>>
      PROVE  OvertakenIsNotAcked'
  <2>1. CASE UNCHANGED accepted
    BY <1>1, <1>2, <2>1
  <2>2. CASE accepted' = Append(accepted, d)
    <3>1. /\ DOMAIN accepted' = 1 .. Len(accepted) + 1 /\ DOMAIN accepted = 1 .. Len(accepted)
          /\ Len(accepted) \in Nat
          /\ \A i \in 1 .. Len(accepted) : accepted'[i] = accepted[i]
          /\ accepted'[Len(accepted) + 1] = d
      BY <2>2, AppendFacts DEF TypeOK
    <3>2. d \notin acked \ suspect
      BY <1>2 DEF AckedIsAccepted
    <3>3. \A x, y : SentBefore(x, y)' <=> SentBefore(x, y)
      BY <1>2 DEF SentBefore
    <3>4. ASSUME NEW i \in DOMAIN accepted', NEW j \in DOMAIN accepted', i < j,
                 SentBefore(accepted'[j], accepted'[i])
          PROVE  accepted'[j] \notin acked \ suspect
      <4>1. CASE j = Len(accepted) + 1
        BY <3>1, <3>2, <4>1
      <4>2. CASE j \in DOMAIN accepted
        <5>1. i \in DOMAIN accepted
          BY <3>1, <3>4, <4>2
        <5> QED
          BY <3>1, <3>4, <4>2, <5>1 DEF OvertakenIsNotAcked
      <4> QED
        BY <3>1, <4>1, <4>2
    <3> QED
      BY <1>2, <3>3, <3>4 DEF OvertakenIsNotAcked
  <2> QED
    BY <1>2, <2>1, <2>2 DEF RecvData
<1>3. CASE Handle
  <2>1. CASE Head(requests) = "ask"
    BY <1>1, <1>3, <2>1 DEF Handle
  <2>2. CASE Head(requests) # "ask"
    <3>1. Head(requests) \in Data /\ Head(requests) \in Pending
      BY <1>3, <2>2, PendingAfterHandle
    <3>2. Head(requests) \notin ToSet(accepted)
      BY <3>1 DEF OnePlace
    <3>3. PICK result \in Result : RecvData(Head(requests), result)
      BY <1>3, <2>2, HandleCases
    <3>4. UNCHANGED <<sent, acked, suspect>>
      BY <1>3 DEF Handle
    <3> QED
      BY <1>2, <3>1, <3>2, <3>3, <3>4
  <2> QED
    BY <2>1, <2>2
<1>4. ASSUME NEW d \in Data, HandleOld(d) PROVE OvertakenIsNotAcked'
  <2>1. d \notin ToSet(accepted)
    BY <1>4 DEF HandleOld, OnePlace
  <2> QED
    BY <1>2, <1>4, <2>1 DEF HandleOld
<1>5. ASSUME NEW c \in Caller, SyncDataSend(c) PROVE OvertakenIsNotAcked'
  <2>1. CASE Sends(c)
    <3>1. app[c].data \in Data /\ app[c].data \notin ToSet(sent)
      BY <1>5, SyncDataSendCases DEF TypeOK, OneCall
    <3>2. UNCHANGED <<accepted, acked>> /\ suspect \subseteq suspect' /\ sent' = Append(sent, app[c].data)
      BY <1>5, <2>1, SyncDataSendCases, AckedGrows DEF Sends
    <3>3. /\ DOMAIN sent' = 1 .. Len(sent) + 1 /\ DOMAIN sent = 1 .. Len(sent) /\ Len(sent) \in Nat
          /\ \A i \in 1 .. Len(sent) : sent'[i] = sent[i]
          /\ sent'[Len(sent) + 1] = app[c].data
      BY <3>1, <3>2, AppendFacts DEF TypeOK
    <3>4. \A x \in ToSet(accepted) : x # app[c].data
      BY <3>1 DEF OnePlace
    <3>5. ASSUME NEW x \in ToSet(accepted), NEW y \in ToSet(accepted), SentBefore(x, y)'
          PROVE  SentBefore(x, y)
      <4>1. PICK i \in DOMAIN sent', j \in DOMAIN sent' : i < j /\ sent'[i] = x /\ sent'[j] = y
        BY <3>5 DEF SentBefore
      <4>2. i # Len(sent) + 1 /\ j # Len(sent) + 1
        BY <3>3, <3>4, <4>1
      <4>3. i \in DOMAIN sent /\ j \in DOMAIN sent
        BY <3>3, <4>2
      <4>4. sent[i] = x /\ sent[j] = y
        BY <3>3, <4>1, <4>3
      <4> QED
        BY <4>1, <4>3, <4>4 DEF SentBefore
    <3>6. \A i \in DOMAIN accepted : accepted[i] \in ToSet(accepted)
      BY ElementFacts DEF TypeOK
    <3> QED
      BY <3>2, <3>5, <3>6 DEF OvertakenIsNotAcked
  <2> QED
    BY <1>1, <1>5, <2>1, SyncDataSendCases
<1>6. ASSUME Heartbeat \/ UNCHANGED vars \/ End \/ PeerTurns PROVE OvertakenIsNotAcked'
  BY <1>1, <1>6 DEF Heartbeat, HbInitialize, HbWake, HbCall, HbVerdict, HbFail, HbReset, End,
     PeerTurns, vars, history
<1>7. ASSUME NEW c \in Caller, SyncData(c) \/ SyncDataLock(c) \/ SyncDataReturn(c) \/ SyncDataFail(c)
      PROVE  OvertakenIsNotAcked'
  BY <1>1, <1>7 DEF SyncData, SyncDataLock, SyncDataReturn, SyncDataFail, history
<1> QED
  BY <1>3, <1>4, <1>5, <1>6, <1>7 DEF Next, Application, Environment
-----------------------------------------------------------------------------
(* The invariants hold when the heartbeat thread starts. *)
LEMMA InitInv == Init => Inv /\ VerdictIsOwn
<1> SUFFICES ASSUME Init
             PROVE  Inv /\ VerdictIsOwn
  OBVIOUS
<1>1. TypeOK /\ Locks
  BY EmptyFacts, ChannelAssumption DEF Init, TypeOK, Locks
<1>2. OneCall /\ LastSent
  BY EmptyFacts DEF Init, OneCall, LastSent
<1>3. OnePlace /\ Truthful
  BY EmptyFacts DEF Init, OnePlace, Truthful, Pending
<1>4. AckedIsAccepted /\ OvertakenIsNotAcked /\ VerdictIsOwn
  BY EmptyFacts DEF Init, AckedIsAccepted, OvertakenIsNotAcked, VerdictIsOwn, Asked, Answered
<1> QED
  BY <1>1, <1>2, <1>3, <1>4 DEF Inv

(***************************************************************************)
(* CanYouActivateMe never gets the answer to an earlier question, however  *)
(* many threads call SyncData on the same client and whatever the          *)
(* connection loses: ReInitialize after every failed heartbeat is enough.  *)
(***************************************************************************)
THEOREM VerdictsAreOwn == Spec => []VerdictIsOwn
<1>1. TypeOK /\ VerdictIsOwn /\ [Next]_vars => (TypeOK /\ VerdictIsOwn)'
  BY TypeStep, VerdictStep
<1>2. Init => TypeOK /\ VerdictIsOwn
  BY InitInv DEF Inv
<1> QED
  BY <1>1, <1>2, PTL DEF Spec

(* The strengthened invariant of the two theorems below. *)
LEMMA InvHolds == Spec => []Inv
<1>1. Inv /\ [Next]_vars => Inv'
  BY TypeStep, LocksStep, OneCallStep, LastSentStep, OnePlaceStep, TruthfulStep, AckedStep,
     OvertakenStep DEF Inv
<1> QED
  BY <1>1, InitInv, PTL DEF Spec

(***************************************************************************)
(* SinbohaNetClient::SyncData returns OK only for data that RecvData of a  *)
(* STANDBY peer took and its callback did not throw at, for calls that     *)
(* found the connection clean: any number of callers and of data, lost     *)
(* connections, handlers that throw and changes of the peer's status       *)
(* included.                                                               *)
(***************************************************************************)
THEOREM AckedDataIsAccepted == Spec => []AckedIsAccepted
<1>1. Inv => AckedIsAccepted
  BY DEF Inv
<1> QED
  BY <1>1, InvHolds, PTL

(***************************************************************************)
(* Data that RecvData takes after newer data, from a connection that       *)
(* ReInitialize gave up, is never data whose SyncData returned OK for its  *)
(* own reply.                                                              *)
(***************************************************************************)
THEOREM AckedDataIsInOrder == Spec => []OvertakenIsNotAcked
<1>1. Inv => OvertakenIsNotAcked
  BY DEF Inv
<1> QED
  BY <1>1, InvHolds, PTL
=============================================================================
