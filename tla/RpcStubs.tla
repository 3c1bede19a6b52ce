------------------------------ MODULE RpcStubs ------------------------------
(***************************************************************************)
(* The generated Thrift stubs (gen-cpp), between the handlers and the      *)
(* client of this library and the bytes: what is read from a struct, what  *)
(* is written, how a call is dispatched and answered, and how the client   *)
(* takes the answer.  At one end of the connection, or at none, is a peer  *)
(* of another version, which sends any fields in well-formed messages.     *)
(*                                                                         *)
(* A stream is the sequence of all tokens that were ever sent: the head of *)
(* a message, the fields of its struct, the stop.  A reader reads one      *)
(* token after the other and keeps its position.                           *)
(***************************************************************************)
EXTENDS Naturals, Sequences

CONSTANTS
  Values,       \* the values of fields; the constructors set 0
  PeerNames,    \* the names of a peer's messages
  PeerSeqid,    \* their number
  PeerFields,   \* PeerFields[p]: the fields of a peer's structs
  MaxTokens,    \* bound on what a peer sends
  MaxCalls      \* bound on the calls of the client of this library

TType == {"BOOL", "I16", "I32", "I64", "STRING"}
TMessageType == {"CALL", "REPLY", "EXCEPTION"}

Message(name, type, seqid) == [token |-> "message", name |-> name, type |-> type, seqid |-> seqid]
Field(id, type, value) == [token |-> "field", id |-> id, type |-> type, value |-> value]
Stop == [token |-> "stop"]

Peers == {"client", "server", "none"}
FieldTokens == [token : {"field"}, id : Nat, type : TType, value : Values]

ASSUME StubsAssumption ==
  /\ 0 \in Values /\ PeerSeqid \in Nat
  /\ \A p \in {"client", "server"} : PeerFields[p] \subseteq FieldTokens

VARIABLES
  peer,      \* the end of the connection that is not of this library
  request,   \* the stream to the server
  reply,     \* the stream to the client
  server,    \* the thread of the server: where it is and what it reads
  client,    \* the caller: its call and what it reads
  log        \* the calls that were answered: where each begins, and its answer

stubVars == <<peer, request, reply, server, client, log>>

(* What the structs declare: the type of every field by its id. *)
CanYouActivateMe_args == [id \in 1 .. 2 |-> IF id = 1 THEN "I64" ELSE "I16"]
CanYouActivateMe_pargs == CanYouActivateMe_args
CanYouActivateMe_result == [id \in 0 .. 0 |-> "BOOL"]
CanYouActivateMe_presult == CanYouActivateMe_result
SyncData_args == [id \in 1 .. 1 |-> "STRING"]
SyncData_pargs == SyncData_args
SyncData_result == [id \in 0 .. 0 |-> "I16"]
SyncData_presult == SyncData_result

(* The processMap_, and what is read and written at both ends. *)
Method == {"CanYouActivateMe", "SyncData"}
ArgsOf(m) == IF m = "CanYouActivateMe" THEN CanYouActivateMe_args ELSE SyncData_args
PargsOf(m) == IF m = "CanYouActivateMe" THEN CanYouActivateMe_pargs ELSE SyncData_pargs
ResultOf(m) == IF m = "CanYouActivateMe" THEN CanYouActivateMe_result ELSE SyncData_result
PresultOf(m) == IF m = "CanYouActivateMe" THEN CanYouActivateMe_presult ELSE SyncData_presult

(* A struct in memory: the values, and which of them were set (__isset). *)
Blank(decl) == [value |-> [id \in DOMAIN decl |-> 0], isset |-> {}]

(* Fault: the type of a field is not compared. *)
FaultReadField(decl, s, f) ==
  IF f.id \in DOMAIN decl
  THEN [s EXCEPT !.value[f.id] = f.value, !.isset = @ \cup {f.id}]
  ELSE s

(* A field that is not declared, or has another type, is skipped. *)
ReadField(decl, s, f) ==
  IF f.id \in DOMAIN decl /\ decl[f.id] = f.type
  THEN [s EXCEPT !.value[f.id] = f.value, !.isset = @ \cup {f.id}]
  ELSE s

(* The fields that are written: all arguments in the order of their ids, and the result. *)
WriteArgs(m, values) == [id \in DOMAIN PargsOf(m) |-> Field(id, PargsOf(m)[id], values[id])]
WriteResult(m, value) == <<Field(0, ResultOf(m)[0], value)>>

(* TApplicationException, which both sides read and write with the library. *)
ApplicationException == <<Field(1, "STRING", 0), Field(2, "I32", 0)>>

Whole(head, fields) == <<head>> \o fields \o <<Stop>>

StubsInit ==
  /\ peer \in Peers
  /\ request = <<>> /\ reply = <<>> /\ log = <<>>
  /\ server = [phase |-> "head", at |-> 1, head |-> 0, args |-> Blank(<<>>)]
  /\ client = [phase |-> "idle", at |-> 1, head |-> 0, skips |-> 0, calls |-> 0, method |-> "none",
               values |-> <<>>, result |-> Blank(<<>>), got |-> "nothing", value |-> 0]
-----------------------------------------------------------------------------
(***************************************************************************)
(* The server.  It reads the head of a message (phase "head"), then the    *)
(* arguments ("args") or, of an unknown method, a struct to skip ("skip"), *)
(* and when that has ended calls the handler ("handler") or refuses        *)
(* ("unknown").  A token that cannot be what is read makes it throw; there *)
(* is no way on from "broken".                                             *)
(***************************************************************************)
Serving(phase, head, args) == server' = [phase |-> phase, at |-> server.at + 1, head |-> head, args |-> args]
Called == request[server.head]

(* Fault: the arguments of an unknown method are not read. *)
FaultDispatchCall(name) == IF name \in Method THEN "args" ELSE "unknown"

dispatchCall(name) == IF name \in Method THEN "args" ELSE "skip"

ReadCall ==
  /\ peer # "server" /\ server.phase = "head" /\ server.at <= Len(request)
  /\ LET t == request[server.at] IN
     IF t.token = "message"
     THEN Serving(dispatchCall(t.name), server.at, Blank(IF t.name \in Method THEN ArgsOf(t.name) ELSE <<>>))
     ELSE Serving("broken", 0, Blank(<<>>))
  /\ UNCHANGED <<peer, request, reply, client, log>>

(* read: a field ... *)
ReadArg ==
  /\ peer # "server" /\ server.phase \in {"args", "skip"} /\ server.at <= Len(request)
  /\ LET t == request[server.at] IN
     /\ t.token = "field"
     /\ Serving(server.phase, server.head,
                IF server.phase = "args" THEN ReadField(ArgsOf(Called.name), server.args, t) ELSE server.args)
  /\ UNCHANGED <<peer, request, reply, client, log>>

(* ... or the stop. *)
EndArgs ==
  /\ peer # "server" /\ server.phase \in {"args", "skip"} /\ server.at <= Len(request)
  /\ LET t == request[server.at] IN
     /\ t.token # "field"
     /\ Serving(IF t.token # "stop" THEN "broken" ELSE IF server.phase = "args" THEN "handler" ELSE "unknown",
                server.head, server.args)
  /\ UNCHANGED <<peer, request, reply, client, log>>

(* The answer has the name and the number of the call. *)
Answer(type, fields, got, value) ==
  /\ reply' = reply \o Whole(Message(Called.name, type, Called.seqid), fields)
  /\ log' = Append(log, [call |-> server.head, answer |-> Len(reply) + 1, got |-> got, value |-> value])
  /\ server' = [phase |-> "head", at |-> server.at, head |-> 0, args |-> Blank(<<>>)]
  /\ UNCHANGED <<peer, request, client>>

(* process_: the handler returns or throws. *)
Return(value) ==
  /\ server.phase = "handler"
  /\ Answer("REPLY", WriteResult(Called.name, value), "returned", value)

Throw ==
  /\ server.phase = "handler"
  /\ Answer("EXCEPTION", ApplicationException, "exception", 0)

Refuse ==
  /\ server.phase = "unknown"
  /\ Answer("EXCEPTION", ApplicationException, "exception", 0)
-----------------------------------------------------------------------------
(***************************************************************************)
(* The client.  It waits for a message (phase "reply") and reads its       *)
(* struct as an exception or as a result; before a result there are skips  *)
(* structs to skip.                                                        *)
(***************************************************************************)
send_(m, values) ==
  /\ peer # "client" /\ client.phase = "idle" /\ client.calls < MaxCalls
  /\ request' = request \o Whole(Message(m, "CALL", 0), WriteArgs(m, values))
  /\ client' = [phase |-> "reply", at |-> client.at, head |-> 0, skips |-> 0, calls |-> client.calls + 1,
                method |-> m, values |-> values, result |-> Blank(PresultOf(m)), got |-> "nothing", value |-> 0]
  /\ UNCHANGED <<peer, reply, server, log>>

(* Fault: the answer is not compared with the call. *)
FaultRecv(m, t) ==
  [phase |-> IF t.type = "EXCEPTION" THEN "exception" ELSE "result", skips |-> 0]

(***************************************************************************)
(* An answer that is no reply, or the reply to another method, is skipped, *)
(* and the result is read from what comes after it.                        *)
(***************************************************************************)
recv_(m, t) ==
  IF t.type = "EXCEPTION" THEN [phase |-> "exception", skips |-> 0]
  ELSE [phase |-> "result", skips |-> (IF t.type = "REPLY" THEN 0 ELSE 1) + (IF t.name = m THEN 0 ELSE 1)]

ReadReply ==
  /\ peer # "client" /\ client.phase = "reply" /\ client.at <= Len(reply)
  /\ LET t == reply[client.at]
         next == IF t.token = "message" THEN recv_(client.method, t) ELSE [phase |-> "broken", skips |-> 0]
     IN client' = [client EXCEPT !.phase = next.phase, !.skips = next.skips, !.at = @ + 1, !.head = client.at]
  /\ UNCHANGED <<peer, request, reply, server, log>>

ReadResult ==
  /\ peer # "client" /\ client.phase \in {"exception", "result"} /\ client.at <= Len(reply)
  /\ LET t == reply[client.at]
         read == ReadField(PresultOf(client.method), client.result, t)
     IN /\ t.token = "field"
        /\ client' = [client EXCEPT !.at = @ + 1, !.result = IF client.phase = "result" /\ client.skips = 0 THEN read ELSE @]
  /\ UNCHANGED <<peer, request, reply, server, log>>

(* The end of a struct: of one that is skipped, or of the exception or the result. *)
EndResult ==
  /\ peer # "client" /\ client.phase \in {"exception", "result"} /\ client.at <= Len(reply)
  /\ LET t == reply[client.at]
         returned == client.phase = "result" /\ 0 \in client.result.isset
     IN /\ t.token # "field"
        /\ client' = IF t.token # "stop" THEN [client EXCEPT !.phase = "broken"]
                     ELSE IF client.skips > 0 THEN [client EXCEPT !.at = @ + 1, !.skips = @ - 1]
                     ELSE [client EXCEPT !.phase = "idle", !.at = @ + 1,
                                         !.got = IF returned THEN "returned" ELSE "exception",
                                         !.value = IF returned THEN client.result.value[0] ELSE 0]
  /\ UNCHANGED <<peer, request, reply, server, log>>
-----------------------------------------------------------------------------
(* A peer sends its messages token by token; what it reads does not matter. *)
NextTokens(stream, types) ==
  IF stream = <<>> \/ stream[Len(stream)].token = "stop"
  THEN {Message(name, type, PeerSeqid) : name \in PeerNames, type \in types}
  ELSE PeerFields[peer] \cup {Stop}

PeerCalls ==
  /\ peer = "client" /\ Len(request) < MaxTokens
  /\ \E t \in NextTokens(request, {"CALL"}) : request' = Append(request, t)
  /\ UNCHANGED <<peer, reply, server, client, log>>

PeerAnswers ==
  /\ peer = "server" /\ Len(reply) < MaxTokens
  /\ \E t \in NextTokens(reply, TMessageType) : reply' = Append(reply, t)
  /\ UNCHANGED <<peer, request, server, client, log>>

StubsNext ==
  \/ ReadCall \/ ReadArg \/ EndArgs \/ Throw \/ Refuse
  \/ \E value \in Values : Return(value)
  \/ \E m \in Method : \E values \in [DOMAIN PargsOf(m) -> Values] : send_(m, values)
  \/ ReadReply \/ ReadResult \/ EndResult
  \/ PeerCalls \/ PeerAnswers

StubsSpec == StubsInit /\ [][StubsNext]_stubVars
-----------------------------------------------------------------------------
(* The fields with this id and this type between two positions of a stream. *)
Matching(stream, from, to, id, type) ==
  {i \in from .. to : stream[i].token = "field" /\ stream[i].id = id /\ stream[i].type = type}

(* Of every declared field the last one counts, and 0 if there is none. *)
IsRead(decl, s, stream, from, to) ==
  \A id \in DOMAIN decl :
    LET at == Matching(stream, from, to, id, decl[id]) IN
    /\ id \in s.isset <=> at # {}
    /\ at = {} => s.value[id] = 0
    /\ at # {} => \E i \in at : (\A j \in at : j <= i) /\ s.value[id] = stream[i].value

(***************************************************************************)
(* Whatever fields a peer sends, in whatever order, twice or with other    *)
(* types, the handler gets for every argument the last value that was sent *)
(* with its id and its type in this call, and 0 if there is none; and it   *)
(* gets what the client of this library was called with.                   *)
(***************************************************************************)
ArgsAreRead ==
  server.phase = "handler" =>
    /\ Called.name \in Method
    /\ IsRead(ArgsOf(Called.name), server.args, request, server.head + 1, server.at - 1)
    /\ peer = "none" => /\ Called.name = client.method /\ server.args.value = client.values
                        /\ server.args.isset = DOMAIN ArgsOf(client.method)

(* The k-th call and its answer. *)
IsAnswered(k) ==
  LET call == request[log[k].call] IN
  /\ reply[log[k].answer] =
       Message(call.name, IF log[k].got = "returned" THEN "REPLY" ELSE "EXCEPTION", call.seqid)
  /\ log[k].got = "returned" => call.name \in Method

(***************************************************************************)
(* The server answers every call it has read once, in their order, with    *)
(* the name and the number of the call, and sends nothing else; it always  *)
(* finds the start of the next call.  A client of this library returns     *)
(* what the handler returned, throws if the handler threw, and has then    *)
(* read all there is.                                                      *)
(***************************************************************************)
AnsweredOnce ==
  peer # "server" =>
    /\ server.phase # "broken"
    /\ \A k \in 1 .. Len(log) : IsAnswered(k)
    /\ \A j, k \in 1 .. Len(log) : j < k => log[j].call < log[k].call /\ log[j].answer < log[k].answer
    /\ \A i \in 1 .. server.at - 1 : request[i].token = "message" =>
         (server.phase # "head" /\ i = server.head) \/ \E k \in 1 .. Len(log) : log[k].call = i
    /\ \A i \in 1 .. Len(reply) : reply[i].token = "message" => \E k \in 1 .. Len(log) : log[k].answer = i
    /\ peer = "none" /\ client.phase = "idle" =>
         /\ Len(log) = client.calls /\ client.at = Len(reply) + 1
         /\ client.calls > 0 => client.got = log[client.calls].got /\ client.value = log[client.calls].value

(***************************************************************************)
(* The client returns a value only from the first message it finds, if     *)
(* that is a reply to the method it called and holds a result of its type, *)
(* and then the last one; otherwise it throws.  It is at the start of a    *)
(* message again, unless it had to skip one.                               *)
(***************************************************************************)
OnlyRepliesReturn ==
  peer # "client" /\ client.phase \in {"idle", "broken"} /\ client.calls > 0 =>
    LET t == reply[client.head]
        fits == t.type = "REPLY" /\ t.name = client.method
        result == PresultOf(client.method)
        at == Matching(reply, client.head + 1, client.at - 1, 0, result[0])
    IN /\ t.token = "message"
       /\ client.phase = "broken" <=> ~fits /\ t.type # "EXCEPTION"
       /\ client.got = "returned" <=> client.phase = "idle" /\ fits /\ at # {}
       /\ client.got = "returned" => \E i \in at : (\A j \in at : j <= i) /\ client.value = reply[i].value
       /\ client.phase = "idle" /\ client.at <= Len(reply) => reply[client.at].token = "message"
=============================================================================
