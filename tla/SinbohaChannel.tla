--------------------------- MODULE SinbohaChannel ---------------------------
(***************************************************************************)
(* One link of a node: a SinbohaSync with its SinbohaNetClient, the TCP    *)
(* connection under it and the peer's server thread for that connection.   *)
(* Two kinds of threads share the client: the heartbeat thread             *)
(* (SyncHeartbeat) and the application threads that call SyncData.  Every  *)
(* call writes a request and reads the next reply of the connection; the   *)
(* generated client does not compare sequence numbers, so a call that      *)
(* timed out leaves its reply to the call after it.                        *)
(*                                                                         *)
(* The status rules of the two nodes are those of SinbohaPair; here the    *)
(* peer's status changes at any moment, and a verdict has no content.      *)
(***************************************************************************)
EXTENDS Naturals, Sequences, SequencesExt

CONSTANTS
  Caller,   \* the application threads that call SyncData
  Data      \* the data they send, each at most once

ASSUME ChannelAssumption ==
  "heartbeat" \notin Caller /\ "free" \notin Caller /\ "ask" \notin Data /\ "none" \notin Data

VARIABLES
  hb,          \* where the heartbeat thread is
  app,         \* app[c]: where thread c is in SyncData, and its argument
  syncLock,    \* the owner of SinbohaSync::m_Lock
  clientLock,  \* the owner of SinbohaNetClient::m_Lock
  conn,        \* the connection: no client, not connected, connected, ended by the peer
  garbled,     \* the reader is no longer at the start of a reply
  requests,    \* requests on the connection the peer has not handled
  replies,     \* replies on the connection the client has not read
  old,         \* data in requests of former connections
  peer,        \* the peer's m_Status
  unsent,      \* data no call has been made for
  sent,        \* history: data put on a connection, in this order
  accepted,    \* history: data RecvData took, in this order
  refused,     \* history: data RecvData refused, or the callback threw at
  acked,       \* history: data whose SyncData returned OK
  suspect      \* history: data sent while older calls were still in the connection

connVars == <<conn, garbled, requests, replies, old>>
history == <<sent, accepted, refused, acked, suspect>>
vars == <<hb, app, syncLock, clientLock, connVars, peer, unsent, history>>

Status == {"PENDING", "ACTIVE", "STANDBY"}

(* A request is its content: a datum, or "ask" for CanYouActivateMe. *)
Request == Data \cup {"ask"}
(* A reply says OK or FAIL, or is the exception of a handler that threw. *)
Result == {"ok", "fail", "exception"}
Reply == [to : Request, result : Result]
Kind(request) == IF request = "ask" THEN "CanYouActivateMe" ELSE "SyncData"

Init ==
  /\ hb = "init"
  /\ app = [c \in Caller |-> [pc |-> "idle", data |-> "none"]]
  /\ syncLock = "free"
  /\ clientLock = "free"
  /\ conn = "none"
  /\ garbled = FALSE
  /\ requests = <<>>
  /\ replies = <<>>
  /\ old = {}
  /\ peer = "PENDING"
  /\ unsent = Data
  /\ sent = <<>>
  /\ accepted = <<>>
  /\ refused = {}
  /\ acked = {}
  /\ suspect = {}

-----------------------------------------------------------------------------
(* The client.  Sending on a connection the peer has ended fails or is lost. *)
CanSend == conn \in {"open", "ended"}

Send(request) ==
  /\ requests' = IF conn = "open" THEN Append(requests, request) ELSE requests
  /\ UNCHANGED <<conn, garbled, replies, old>>

(***************************************************************************)
(* The generated recv functions.  The next reply is taken if it has the    *)
(* name of the call; an exception is taken whatever its name, and thrown.  *)
(* If a reply has the other name, its body is skipped and what follows is  *)
(* read as the result: the header of another reply, which parses as a      *)
(* result without a value and leaves the reader in the middle of that      *)
(* reply, or nothing until the timeout.  In the middle of a reply no       *)
(* header is recognised.                                                   *)
(***************************************************************************)
Thrown == Head(replies).result = "exception"

Expected(kind) == ~garbled /\ replies # <<>> /\ ~Thrown /\ Kind(Head(replies).to) = kind

Receive(kind) ==
  /\ Expected(kind)
  /\ replies' = Tail(replies)
  /\ UNCHANGED <<conn, garbled, requests, old>>

ReceiveFails(kind) ==
  /\ ~Expected(kind)
  /\ IF garbled \/ replies = <<>>
     THEN UNCHANGED <<garbled, replies>>
     ELSE garbled' = (~Thrown /\ Len(replies) > 1) /\ replies' = Tail(replies)
  /\ UNCHANGED <<conn, requests, old>>

(* The data among the requests of the connection. *)
Pending == ToSet(requests) \ {"ask"}

(* ReleaseClient, then InitializeClient, which may fail to connect. *)
Connect ==
  /\ conn' \in {"open", "closed"}
  /\ garbled' = FALSE
  /\ requests' = <<>>
  /\ replies' = <<>>
  /\ old' = old \cup Pending
-----------------------------------------------------------------------------
(* SyncHeartbeat, before its loop: SinbohaNetClient::Initialize. *)
HbInitialize ==
  /\ hb = "init"
  /\ clientLock = "free"
  /\ Connect
  /\ hb' = "wait"
  /\ UNCHANGED <<app, syncLock, clientLock, peer, unsent, history>>

(* SyncHeartbeat: wait_for ends, which takes m_Lock again. *)
HbWake ==
  /\ hb = "wait"
  /\ syncLock = "free"
  /\ hb' = "call"
  /\ UNCHANGED <<app, syncLock, clientLock, connVars, peer, unsent, history>>

(* CanYouActivateMe takes the client's lock, and sends or fails at once. *)
HbCall ==
  /\ hb = "call"
  /\ clientLock = "free"
  /\ \/ CanSend /\ Send("ask") /\ hb' = "recv" /\ clientLock' = "heartbeat"
     \/ conn # "open" /\ hb' = "failed" /\ UNCHANGED <<clientLock, connVars>>
  /\ UNCHANGED <<app, syncLock, peer, unsent, history>>

(* CanYouActivateMe returns OK and the verdict is applied. *)
HbVerdict ==
  /\ hb = "recv"
  /\ Receive("CanYouActivateMe")
  /\ hb' = "wait"
  /\ clientLock' = "free"
  /\ UNCHANGED <<app, syncLock, peer, unsent, history>>

(* Fault: the early return leaves the client locked. *)
FaultHbFail ==
  /\ hb = "recv"
  /\ ReceiveFails("CanYouActivateMe")
  /\ hb' = "failed"
  /\ UNCHANGED <<app, syncLock, clientLock, peer, unsent, history>>

(* CanYouActivateMe returns FAIL: the lock is free before ReInitialize. *)
HbFail ==
  /\ hb = "recv"
  /\ ReceiveFails("CanYouActivateMe")
  /\ hb' = "failed"
  /\ clientLock' = "free"
  /\ UNCHANGED <<app, syncLock, peer, unsent, history>>

(* Fault: the connection is kept. *)
FaultHbReset ==
  /\ hb = "failed"
  /\ clientLock = "free"
  /\ hb' = "wait"
  /\ UNCHANGED <<app, syncLock, clientLock, connVars, peer, unsent, history>>

(* ReInitialize: a new connection. *)
HbReset ==
  /\ hb = "failed"
  /\ clientLock = "free"
  /\ Connect
  /\ hb' = "wait"
  /\ UNCHANGED <<app, syncLock, clientLock, peer, unsent, history>>
-----------------------------------------------------------------------------
(* SinbohaImp::SyncData found the node ACTIVE (otherwise nothing happens). *)
SyncData(c) ==
  /\ app[c].pc = "idle"
  /\ \E d \in unsent :
       /\ app' = [app EXCEPT ![c] = [pc |-> "called", data |-> d]]
       /\ unsent' = unsent \ {d}
  /\ UNCHANGED <<hb, syncLock, clientLock, connVars, peer, history>>

(* SinbohaSync::SyncData takes m_Lock and keeps it until it returns. *)
SyncDataLock(c) ==
  /\ app[c].pc = "called"
  /\ syncLock = "free"
  /\ syncLock' = c
  /\ app' = [app EXCEPT ![c].pc = "locked"]
  /\ UNCHANGED <<hb, clientLock, connVars, peer, unsent, history>>

(* The call of c is over and its locks are free. *)
Return(c) ==
  /\ app' = [app EXCEPT ![c] = [pc |-> "idle", data |-> "none"]]
  /\ syncLock' = "free"
  /\ clientLock' = "free"

(* SinbohaNetClient::SyncData takes the client's lock, and sends or fails. *)
SyncDataSend(c) ==
  /\ app[c].pc = "locked"
  /\ clientLock = "free"
  /\ \/ /\ CanSend /\ Send(app[c].data)
        /\ app' = [app EXCEPT ![c].pc = "recv"]
        /\ clientLock' = c
        /\ suspect' = IF requests = <<>> /\ replies = <<>>
                      THEN suspect ELSE suspect \cup {app[c].data}
        /\ sent' = Append(sent, app[c].data)
        /\ UNCHANGED syncLock
     \/ conn # "open" /\ Return(c) /\ UNCHANGED <<connVars, suspect, sent>>
  /\ UNCHANGED <<hb, peer, unsent, accepted, refused, acked>>

(* Fault: the error the peer returned is not looked at. *)
FaultSyncDataReturn(c) ==
  /\ app[c].pc = "recv"
  /\ Receive("SyncData")
  /\ acked' = acked \cup {app[c].data}
  /\ Return(c)
  /\ UNCHANGED <<hb, peer, unsent, sent, accepted, refused, suspect>>

(* It reads a reply, and returns what the reply says. *)
SyncDataReturn(c) ==
  /\ app[c].pc = "recv"
  /\ Receive("SyncData")
  /\ acked' = IF Head(replies).result = "ok" THEN acked \cup {app[c].data} ELSE acked
  /\ Return(c)
  /\ UNCHANGED <<hb, peer, unsent, sent, accepted, refused, suspect>>

(* Fault: a call that timed out returns OK. *)
FaultSyncDataFail(c) ==
  /\ app[c].pc = "recv"
  /\ ReceiveFails("SyncData")
  /\ acked' = acked \cup {app[c].data}
  /\ Return(c)
  /\ UNCHANGED <<hb, peer, unsent, sent, accepted, refused, suspect>>

(* It reads none, and returns FAIL; the connection stays as it is. *)
SyncDataFail(c) ==
  /\ app[c].pc = "recv"
  /\ ReceiveFails("SyncData")
  /\ Return(c)
  /\ UNCHANGED <<hb, peer, unsent, history>>
-----------------------------------------------------------------------------
(***************************************************************************)
(* RecvData on the peer: a STANDBY node gives the datum to OnReceiveData   *)
(* of its callback, if one is registered, which may throw; any other node  *)
(* returns FAIL.  The note on OnReceiveData in SinboHA.h says that a node  *)
(* which is not active is not called back; the code calls back only        *)
(* STANDBY nodes.                                                          *)
(***************************************************************************)
RecvData(d, result) ==
  /\ result = "fail" <=> peer # "STANDBY"
  /\ accepted' = IF result = "ok" THEN Append(accepted, d) ELSE accepted
  /\ refused' = IF result = "ok" THEN refused ELSE refused \cup {d}

(* The peer's thread for the connection handles the next request. *)
Handle ==
  /\ requests # <<>>
  /\ \E result \in Result :
       /\ replies' = Append(replies, [to |-> Head(requests), result |-> result])
       /\ IF Head(requests) = "ask" THEN result = "ok" /\ UNCHANGED <<accepted, refused>>
          ELSE RecvData(Head(requests), result)
  /\ requests' = Tail(requests)
  /\ UNCHANGED <<hb, app, syncLock, clientLock, conn, garbled, old, peer, unsent,
                 sent, acked, suspect>>

(* A thread of a former connection handles a request; nobody reads the reply. *)
HandleOld(d) ==
  /\ d \in old
  /\ \E result \in Result : RecvData(d, result)
  /\ old' = old \ {d}
  /\ UNCHANGED <<hb, app, syncLock, clientLock, conn, garbled, requests, replies, peer,
                 unsent, sent, acked, suspect>>

(***************************************************************************)
(* The peer or the network ends the connection; replies under way arrive   *)
(* or are lost.                                                            *)
(***************************************************************************)
End ==
  /\ conn = "open"
  /\ conn' = "ended"
  /\ requests' = <<>>
  /\ replies' \in {replies, <<>>}
  /\ old' = old \cup Pending
  /\ peer' \in {peer, "PENDING"}
  /\ UNCHANGED <<hb, app, syncLock, clientLock, garbled, unsent, history>>

(* The peer's status changes. *)
PeerTurns ==
  /\ peer' \in {"ACTIVE", "STANDBY"} \ {peer}
  /\ UNCHANGED <<hb, app, syncLock, clientLock, connVars, unsent, history>>
-----------------------------------------------------------------------------
Heartbeat == HbInitialize \/ HbWake \/ HbCall \/ HbVerdict \/ HbFail \/ HbReset

Application(c) ==
  \/ SyncData(c) \/ SyncDataLock(c) \/ SyncDataSend(c)
  \/ SyncDataReturn(c) \/ SyncDataFail(c)

Environment == Handle \/ (\E d \in Data : HandleOld(d)) \/ End \/ PeerTurns

Next == Heartbeat \/ (\E c \in Caller : Application(c)) \/ Environment

Spec == Init /\ [][Next]_vars

(***************************************************************************)
(* Fairness.  Threads run and calls end, by a reply or by the timeout.     *)
(* Nothing is assumed of the peer or of the network, and no thread is      *)
(* favoured when a lock becomes free.                                      *)
(***************************************************************************)
Fairness ==
  /\ WF_vars(Heartbeat)
  /\ \A c \in Caller :
       /\ WF_vars(SyncDataLock(c))
       /\ WF_vars(SyncDataSend(c))
       /\ WF_vars(SyncDataReturn(c) \/ SyncDataFail(c))

FairSpec == Spec /\ Fairness
-----------------------------------------------------------------------------
(***************************************************************************)
(* A verdict the heartbeat thread reads answers the question it has just   *)
(* asked, never an earlier one: outside a call the connection carries no   *)
(* trace of a heartbeat, and during one at most its own.  That is what     *)
(* ReInitialize after every failed heartbeat is for.                       *)
(***************************************************************************)
Asked == {i \in DOMAIN requests : requests[i] = "ask"}
Answered == {i \in DOMAIN replies : replies[i].to = "ask"}

VerdictIsOwn ==
  /\ hb \notin {"recv", "failed"} => Asked = {} /\ Answered = {}
  /\ \A i, j \in Asked : i = j
  /\ \A i, j \in Answered : i = j
  /\ Asked = {} \/ Answered = {}

(***************************************************************************)
(* SyncData returns OK only for data that RecvData of a STANDBY peer took, *)
(* which means that its callback, if one is registered, got it and did not *)
(* throw; except after a call that failed on the same connection.          *)
(***************************************************************************)
AckedIsAccepted ==
  acked \ suspect \subseteq ToSet(accepted)

(***************************************************************************)
(* Data can overtake data: what is left in a connection that was given up  *)
(* reaches the peer after newer data.  It is never data whose SyncData     *)
(* returned OK for its own reply: what a caller saw succeed arrived in the *)
(* order it was sent.                                                      *)
(***************************************************************************)
SentBefore(d, e) == \E i, j \in DOMAIN sent : i < j /\ sent[i] = d /\ sent[j] = e

OvertakenIsNotAcked ==
  \A i, j \in DOMAIN accepted :
    (i < j /\ SentBefore(accepted[j], accepted[i])) => accepted[j] \notin acked \ suspect

(***************************************************************************)
(* SINBOHA_ERROR_OK means success: data the peer refused is not reported   *)
(* as OK to the caller of SyncData.                                        *)
(***************************************************************************)
RefusedIsNotAcked == acked \cap refused = {}

(***************************************************************************)
(* Replies left over by failed calls do not stay: a heartbeat fails on     *)
(* them and replaces the connection.                                       *)
(***************************************************************************)
LeftOver ==
  \/ garbled
  \/ \E r \in ToSet(replies) : r.to # "ask" /\ \A c \in Caller :
       ~(app[c].pc = "recv" /\ app[c].data = r.to)

LeftOverIsCleared == LeftOver ~> ~LeftOver

(***************************************************************************)
(* The two locks never hold up anybody for ever: every SyncData returns,   *)
(* and heartbeats go on.                                                   *)
(***************************************************************************)
CallsReturn ==
  /\ \A c \in Caller : app[c].pc # "idle" ~> app[c].pc = "idle"
  /\ []<>(hb = "call")
=============================================================================
