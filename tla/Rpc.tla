-------------------------------- MODULE Rpc --------------------------------
(***************************************************************************)
(* A remote call (rpc/rpcchannelimpl.cc, rpc/rpcprovider.cc): CallMethod   *)
(* of a caller looks the method's address up, connects, sends a package    *)
(* and runs its loop until the connection is closed; onMessage of the      *)
(* provider takes the package apart, runs the method and closes.  Each     *)
(* caller is a thread with a channel and a controller of its own.          *)
(*                                                                         *)
(* The TcpClient and TcpServer below are what their own modules say of     *)
(* them: a connection that is refused is tried again, what is sent arrives *)
(* in order, in one or (Pieces) more messageCallback_s, and a peer's end   *)
(* is seen after what it had sent.  A provider may die at any time; what   *)
(* its connections had in flight arrives or is lost.                       *)
(***************************************************************************)
EXTENDS RpcRegistry, Message

CONSTANTS Caller,
          Asked,      \* the <<service, method>> that are called
          MaxCalls,   \* bound: calls of each caller
          NewChannel, \* whether a caller takes a new channel for each
          Pieces,     \* whether bytes may arrive in more than one piece
          MaxCrashes, \* bound: providers killed from outside
          None

ASSUME RpcAssumption ==
  /\ {Pieces, NewChannel} \subseteq BOOLEAN
  /\ MaxCalls \in [Caller -> Nat] /\ MaxCrashes \in Nat

\* The message types, as their default instances: the fields of rpcheader.proto and,
\* of the service that is called, of user.proto.  The result of a response is a
\* ResultCode or, as long as it has none, None.
RpcHeader     == <<None, None, 0>>   \* service_name, method_name, args_size
ResultCode    == <<0, None>>         \* errcode, errmsg
LoginRequest  == <<None, 0>>         \* name, pwd
LoginResponse == <<None, FALSE>>     \* result, success

SetServiceName(m, v) == Set(m, 1, v)
SetMethodName(m, v)  == Set(m, 2, v)
SetArgsSize(m, v)    == Set(m, 3, v)
SetErrcode(m, v)     == Set(m, 1, v)
SetErrmsg(m, v)      == Set(m, 2, v)
SetName(m, v)        == Set(m, 1, v)
SetPwd(m, v)         == Set(m, 2, v)
SetResult(m, v)      == Set(m, 1, v)
SetSuccess(m, v)     == Set(m, 2, v)

SizeBytes == 2   \* of headerSize: 4 in the code

VARIABLES
  calls,    \* how many calls each caller has made
  pc,       \* of each caller: "idle", "lookup", "connecting", "up"
  method,   \* what it calls
  conn,     \* its connection: the provider, the bytes on the way to and from
            \* it, and whether the provider has shut its side down or died
  result_,
  outcome,  \* of its last call: failed_, and the response object
  ran,      \* history: the requests methods ran with, as often as they did
  crashes

callVars == <<calls, pc, method, conn, result_, outcome, ran>>
vars == <<registryVars, callVars, crashes>>

NoConn == [to |-> None, out |-> <<>>, in |-> <<>>, fin |-> FALSE]

Init ==
  /\ RegistryInit
  /\ calls = [c \in Caller |-> 0]
  /\ pc = [c \in Caller |-> "idle"]
  /\ method = [c \in Caller |-> None]
  /\ conn = [c \in Caller |-> NoConn]
  /\ result_ = [c \in Caller |-> <<>>]
  /\ outcome = [c \in Caller |-> [failed |-> FALSE, response |-> LoginResponse]]
  /\ ran = <<>>
  /\ crashes = 0

-----------------------------------------------------------------------------
(* Packages *)

\* The request names the call it is made for.
Request(c) == SetPwd(SetName(LoginRequest, c), calls[c])

\* UserService::Login: success, with a code whose text says which request it answers.
Answer(request) ==
  SetSuccess(SetResult(LoginResponse, SetErrmsg(SetErrcode(ResultCode, 0), request)), TRUE)

Header(target, size) ==
  SetArgsSize(SetMethodName(SetServiceName(RpcHeader, target[1]), target[2]), size)

RequestBytes(request) == Serialize(LoginRequest, request)
ResultBytes(code)     == Serialize(ResultCode, code)

\* The value of field 1 is the bytes of the ResultCode.
ResponseBytes(response) ==
  Serialize(LoginResponse,
            IF response[1] = None THEN response
            ELSE SetResult(response, ResultBytes(response[1])))

\* CallMethod: the 4 bytes of the header's size, the header, the arguments
Package(target, request) ==
  LET args   == RequestBytes(request)
      header == Serialize(RpcHeader, Header(target, Len(args)))
  IN  [i \in 1 .. SizeBytes |-> <<"size", Len(header)>>] \o header \o args

ParseRequest(args) == Parse(LoginRequest, args)
ParseResult(bytes) == Parse(ResultCode, bytes)

\* of bytes that are WellFormed, into the response
ParseResponse(response, bytes) ==
  LET parsed == ParseFromString(LoginResponse, response, bytes)
  IN  IF At(1, bytes) = {} THEN parsed ELSE SetResult(parsed, ParseResult(parsed[1]))

\* What onMessage reads as headerSize: any number, if the bytes are others
HeaderSizes(message) ==
  IF \A i \in 1 .. SizeBytes : message[i][1] = "size" THEN {message[1][2]}
  ELSE 0 .. Len(message)

\* std::string::substr(from, n), counting from 0, where from <= size
Substr(s, from, n) == SubSeq(s, from + 1, IF from + n < Len(s) THEN from + n ELSE Len(s))

\* What RpcProvider::onMessage comes to: substr throws beyond the end of the
\* message; an unknown method, or bytes that do not parse, are logged; or the
\* method runs.
Outcomes(message) ==
  IF Len(message) < SizeBytes THEN {[is |-> "throws"]}
  ELSE {LET content == Substr(message, SizeBytes, size)
            header  == Parse(RpcHeader, content)
            args    == Substr(message, SizeBytes + size, header[3])
        IN  IF ~WellFormed(content) THEN [is |-> "ignored"]
            ELSE IF SizeBytes + size > Len(message) THEN [is |-> "throws"]
            ELSE IF ~(header[1] \in Service /\ header[2] \in Method /\ WellFormed(args))
                 THEN [is |-> "ignored"]
            ELSE [is |-> "runs", request |-> ParseRequest(args)]
        : size \in HeaderSizes(message)}

-----------------------------------------------------------------------------
(* The caller *)

\* CallMethod, with the package it builds
CallMethod(c, target) ==
  /\ pc[c] = "idle" /\ calls[c] < MaxCalls[c]
  /\ calls' = [calls EXCEPT ![c] = @ + 1]
  /\ pc' = [pc EXCEPT ![c] = "lookup"]
  /\ method' = [method EXCEPT ![c] = target]
  /\ result_' = [result_ EXCEPT ![c] = IF NewChannel THEN <<>> ELSE @]
  /\ UNCHANGED <<registryVars, conn, outcome, ran, crashes>>

Return(c, failed, response) ==
  /\ pc' = [pc EXCEPT ![c] = "idle"]
  /\ outcome' = [outcome EXCEPT ![c] = [failed |-> failed, response |-> response]]

\* getData: the address, or the call fails.
Lookup(c) ==
  /\ pc[c] = "lookup"
  /\ LET found == GetData(method[c])
     IN  \/ /\ found = {}
            /\ Return(c, TRUE, outcome[c].response)
            /\ UNCHANGED conn
         \/ \E p \in found :
              /\ pc' = [pc EXCEPT ![c] = "connecting"]
              /\ conn' = [conn EXCEPT ![c] = [NoConn EXCEPT !.to = p]]
              /\ UNCHANGED outcome
  /\ UNCHANGED <<registryVars, calls, method, result_, ran, crashes>>

\* The TcpClient connects to a provider that listens, and onConnection sends the
\* package; refused, it tries again later.
Connect(c) ==
  /\ pc[c] = "connecting" /\ phase[conn[c].to] = "serving"
  /\ pc' = [pc EXCEPT ![c] = "up"]
  /\ conn' = [conn EXCEPT ![c].out = Package(method[c], Request(c))]
  /\ UNCHANGED <<registryVars, calls, method, result_, outcome, ran, crashes>>

\* How many of the bytes a read finds
Arrived(bytes) == IF Pieces THEN 1 .. Len(bytes) ELSE {Len(bytes)}

\* onMessage of the channel: result_, and client->disconnect()
OnMessage(c) ==
  /\ pc[c] = "up" /\ conn[c].in # <<>>
  /\ \E n \in Arrived(conn[c].in) :
       /\ result_' = [result_ EXCEPT ![c] = SubSeq(conn[c].in, 1, n)]
       /\ conn' = [conn EXCEPT ![c].in = SubSeq(@, n + 1, Len(@))]
  /\ UNCHANGED <<registryVars, calls, pc, method, outcome, ran, crashes>>

\* response->ParseFromString(result_)
Parsed(c) == ParseResponse(outcome[c].response, result_[c])

\* Mutant: a connection that ends before the answer is made again.
ClosedMutant(c) ==
  IF result_[c] = <<>> THEN pc' = [pc EXCEPT ![c] = "connecting"] /\ UNCHANGED outcome
  ELSE Return(c, FALSE, Parsed(c))

\* The loop has been quit: the response is parsed from result_.
Closed(c) ==
  IF WellFormed(result_[c]) THEN Return(c, FALSE, Parsed(c))
  ELSE Return(c, TRUE, LoginResponse)

\* onConnection at the end of the stream
OnConnectionDown(c) ==
  /\ pc[c] = "up" /\ conn[c].in = <<>> /\ conn[c].fin
  /\ conn' = [conn EXCEPT ![c] = [NoConn EXCEPT !.to = conn[c].to]]
  /\ Closed(c)
  /\ UNCHANGED <<registryVars, calls, method, result_, ran, crashes>>

-----------------------------------------------------------------------------
(* The provider *)

\* Its connections when it dies
Reset(p, lost) ==
  [c \in Caller |->
     IF conn[c].to # p \/ pc[c] # "up" THEN conn[c]
     ELSE [conn[c] EXCEPT !.out = <<>>, !.in = IF lost THEN <<>> ELSE @, !.fin = TRUE]]

\* Mutant: the provider does not shut the connection down.
EndMutant(c) == conn[c].fin

\* sendRpcResponse ends with conn->shutdown().
End(c) == TRUE

\* What comes of it, where rest is conn with the message taken off: the process
\* ends, nothing, or the method runs and its done->Run() sends the response, unless
\* the connection is shut down.
Handled(c, rest, o) ==
  CASE o.is = "throws" ->
         /\ Dies(conn[c].to)
         /\ conn' \in {Reset(conn[c].to, lost) : lost \in BOOLEAN}
         /\ UNCHANGED <<zkVars, ran>>
    [] o.is = "ignored" ->
         conn' = rest /\ UNCHANGED <<registryVars, ran>>
    [] o.is = "runs" ->
         /\ ran' = Append(ran, o.request)
         /\ conn' = [rest EXCEPT
              ![c].in = IF conn[c].fin THEN @ ELSE @ \o ResponseBytes(Answer(o.request)),
              ![c].fin = End(c)]
         /\ UNCHANGED registryVars

\* onMessage of the provider, in the loop of the connection
ProviderOnMessage(c) ==
  /\ pc[c] = "up" /\ conn[c].out # <<>>
  /\ \E n \in Arrived(conn[c].out) :
     \E o \in Outcomes(SubSeq(conn[c].out, 1, n)) :
       Handled(c, [conn EXCEPT ![c].out = SubSeq(@, n + 1, Len(@))], o)
  /\ UNCHANGED <<calls, pc, method, result_, outcome, crashes>>

\* A provider is killed.
Crash(p) ==
  /\ phase[p] # "down" /\ crashes < MaxCrashes
  /\ crashes' = crashes + 1
  /\ Dies(p)
  /\ conn' \in {Reset(p, lost) : lost \in BOOLEAN}
  /\ UNCHANGED <<zkVars, calls, pc, method, result_, outcome, ran>>

CallerNext(c) ==
  \/ \E target \in Asked : CallMethod(c, target)
  \/ Lookup(c) \/ Connect(c) \/ OnMessage(c) \/ OnConnectionDown(c)

Next ==
  \/ RegistryNext /\ UNCHANGED <<callVars, crashes>>
  \/ \E c \in Caller : CallerNext(c) \/ ProviderOnMessage(c)
  \/ \E p \in Provider : Crash(p)

Spec == Init /\ [][Next]_vars

-----------------------------------------------------------------------------
(* Properties *)

\* A method runs only with the arguments of a call that was made, and at most once
\* for each, however often connecting is tried and providers die.
RunsWhatWasAsked ==
  /\ \A i \in DOMAIN ran : ran[i][1] \in Caller /\ ran[i][2] \in 1 .. calls[ran[i][1]]
  /\ \A i, j \in DOMAIN ran : ran[i] = ran[j] => i = j

Returned(c) == pc[c] = "idle" /\ calls[c] > 0

\* What a call that has not failed hands over is the answer to its own request, or,
\* when the provider died before it answered, a response no field of which is set.
AnswersOwnRequest ==
  \A c \in Caller : Returned(c) /\ ~outcome[c].failed =>
                      outcome[c].response \in {LoginResponse, Answer(Request(c))}

\* A caller whose loop runs is never left to wait for nothing: its package, bytes
\* for it or the end of its connection are on the way.
NoneForgotten ==
  \A c \in Caller : pc[c] = "up" => conn[c].out # <<>> \/ conn[c].in # <<>> \/ conn[c].fin

\* A call that has not failed was answered.
SuccessIsAnswered ==
  \A c \in Caller : Returned(c) /\ ~outcome[c].failed => outcome[c].response # LoginResponse
=============================================================================
