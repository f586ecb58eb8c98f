------------------------------ MODULE RemoteCall ------------------------------
(***************************************************************************)
(* One call from end to end: a client composes a request with the library, *)
(* or sends a line somebody typed (src/client.cpp); the server reads it    *)
(* (handleConnection in src/transport/server.cpp), runs one of the         *)
(* handlers of src/main.cpp or one that throws, and answers; the client    *)
(* reads the answer.  The client may also get its answer from a server of  *)
(* another make.  The conversions are those of JsonProtocol.tla; that the  *)
(* registry may change during the call is the subject of Dispatcher.tla.   *)
(***************************************************************************)
EXTENDS JsonProtocol

CONSTANTS
  Requests,  \* bound: the RpcRequests a client composes
  Lines,     \* bound: the lines it sends as they are
  Answers,   \* bound: the lines a server of another make answers
  Codes      \* bound: the codes a handler passes to makeServerError

ASSUME RemoteCallAssumption ==
  /\ \A req \in Requests : IsRequest(req)
  /\ \A j \in Lines \cup Answers : IsText(j)
  /\ Codes \subseteq Ints
  /\ {"echo", "add", "fail", "failed", "Unhandled exception", "Method not found"} \subseteq Strings

VARIABLES
  stage,     \* how far the call has got; "failed" if to_json threw
  composed,  \* the RpcRequest the client composed, if it did
  line,      \* what the server reads
  received,  \* the request the server made of it, if it could
  response,  \* the RpcResponse of the server
  answer,    \* what the client reads
  reply      \* what from_json_response made of it

vars == <<stage, composed, line, received, response, answer, reply>>

Init ==
  /\ stage = "start"
  /\ composed = {}
  /\ line = Garbage(TRUE)
  /\ received = {}
  /\ response = {}
  /\ answer = Garbage(TRUE)
  /\ reply = Rejected("")

Goto(from, to) == stage = from /\ stage' = to

-------------------------------------------------------------------------------
Compose(req) ==
  /\ Goto("start", "composed")
  /\ composed' = {req}
  /\ UNCHANGED <<line, received, response, answer, reply>>

SendRequest ==
  LET j == RequestToJson(The(composed))
  IN  /\ Goto("composed", IF Dumps(j) THEN "sent" ELSE "failed")
      /\ line' = IF Dumps(j) THEN Reread(j) ELSE line
      /\ UNCHANGED <<composed, received, response, answer, reply>>

SendLine(j) ==
  /\ Goto("start", "sent")
  /\ line' = j
  /\ UNCHANGED <<composed, received, response, answer, reply>>

-------------------------------------------------------------------------------
ParseError     == -32700
MethodNotFound == -32601
InternalError  == -32603

(* core::RpcResponse::success and failure *)
Success(v, id) == [result |-> {v}, error |-> {}, id |-> id]
Failure(code, text, data, id) ==
  [result |-> {}, error |-> {[code |-> code, text |-> text, data |-> data]}, id |-> id]

(* Mutant of MessageOf: the first bytes of a line are quoted, whether they *)
(* end with a character or not.                                            *)
MessageCut(why) == IF why \in {"JSON parse error: notUtf8", "JSON parse error"} THEN "notUtf8" ELSE why

(* The message of a parse error is what from_json_request left. *)
MessageOf(why) == IF why = "JSON parse error: notUtf8" THEN "notUtf8" ELSE why

ReadRequest ==
  LET r == FromJsonRequest(line)
  IN  /\ Goto("sent", IF r.message = {} THEN "answering" ELSE "dispatching")
      /\ received' = r.message
      /\ response' = IF r.message = {} THEN {Failure(ParseError, MessageOf(r.error), {}, {})}
                                       ELSE response
      /\ UNCHANGED <<composed, line, answer, reply>>

(* The handlers of main(). *)
Echo(params) == IF Has(params, "0") THEN Child(params, "0") ELSE VNull

AreInts(params) ==
  /\ Has(params, "0") /\ params[<<"0">>].type = "Int"
  /\ Has(params, "1") /\ params[<<"1">>].type = "Int"

(* What the addition of two int64_t may give: C++ leaves it undefined when *)
(* the sum does not fit.                                                   *)
Sums(m, n) == IF m + n \in MinInt .. MaxInt THEN {m + n} ELSE MinInt .. MaxInt

(* Mutant of Add: a test for overflow that is off by one at the top. *)
AddGuarded(params) ==
  IF AreInts(params) /\ params[<<"0">>].int + params[<<"1">>].int \in MinInt .. MaxInt - 1
    THEN {VInt(params[<<"0">>].int + params[<<"1">>].int)}
    ELSE {VNull}

(* The Values that "add" may return. *)
Add(params) ==
  IF AreInts(params)
    THEN {VInt(n) : n \in Sums(params[<<"0">>].int, params[<<"1">>].int)}
    ELSE {VNull}

ServerErrors == -32099 .. -32000

(* What becomes of makeServerError(code, ...) thrown by a handler: out of  *)
(* range, it is an std::invalid_argument that gets thrown instead.         *)
ServerError(code, data, id) ==
  IF code \in ServerErrors
    THEN Failure(code, "failed", data, id)
    ELSE Failure(InternalError, "Unhandled exception", {}, id)

(* Mutant of Respond: the error of a handler is answered without the id. *)
RespondNoId(req, code) ==
  CASE req.method = "echo" -> {Success(Echo(req.params), req.id)}
    [] req.method = "add"  -> {Success(v, req.id) : v \in Add(req.params)}
    [] req.method = "fail" -> {ServerError(code, {Echo(req.params)}, {})}
    [] OTHER               -> {Failure(MethodNotFound, "Method not found", {}, req.id)}

(* What dispatch() may answer, with a handler "fail" that throws a server  *)
(* error with its first parameter as data.                                 *)
Respond(req, code) ==
  CASE req.method = "echo" -> {Success(Echo(req.params), req.id)}
    [] req.method = "add"  -> {Success(v, req.id) : v \in Add(req.params)}
    [] req.method = "fail" -> {ServerError(code, {Echo(req.params)}, req.id)}
    [] OTHER               -> {Failure(MethodNotFound, "Method not found", {}, req.id)}

Dispatch(code) ==
  /\ Goto("dispatching", "answering")
  /\ \E res \in Respond(The(received), code) : response' = {res}
  /\ UNCHANGED <<composed, line, received, answer, reply>>

SendAnswer ==
  LET j == ResponseToJson(The(response))
  IN  /\ Goto("answering", IF Dumps(j) THEN "answered" ELSE "failed")
      /\ answer' = IF Dumps(j) THEN Reread(j) ELSE answer
      /\ UNCHANGED <<composed, line, received, response, reply>>

-------------------------------------------------------------------------------
(* Another server answers. *)
GetAnswer(j) ==
  /\ Goto("start", "answered")
  /\ answer' = j
  /\ UNCHANGED <<composed, line, received, response, reply>>

ReadAnswer ==
  /\ Goto("answered", "done")
  /\ reply' = FromJsonResponse(answer)
  /\ UNCHANGED <<composed, line, received, response, answer>>

Next ==
  \/ \E req \in Requests : Compose(req)
  \/ SendRequest
  \/ \E j \in Lines : SendLine(j)
  \/ ReadRequest
  \/ \E code \in Codes : Dispatch(code)
  \/ SendAnswer
  \/ \E j \in Answers : GetAnswer(j)
  \/ ReadAnswer

Spec == Init /\ [][Next]_vars

-------------------------------------------------------------------------------
(* What JSON keeps of a Value: a type it does not have, and NaN, are null. *)
CarriedNode(v) ==
  IF v.type \in {"Binary", "DateTime"} \/ (v.type = "Double" /\ v.double = "NaN")
    THEN [type |-> "Null"] ELSE v

Carried(v) == [p \in DOMAIN v |-> CarriedNode(v[p])]

CarriedOption(o) == {Carried(v) : v \in o}

(* A request that was composed and sent is read, unless it names no        *)
(* method, and is what was composed up to what JSON cannot carry: the      *)
(* same Int, not an unsigned number or a Double; an id that is null is     *)
(* still an id, and a notification is still one (json_protocol.cpp:17-28,  *)
(* 30-71).                                                                 *)
RequestArrives ==
  stage \notin {"start", "composed", "sent", "failed"} =>
    \A req \in composed :
      received = {[method |-> req.method,
                   params |-> Carried(req.params),
                   id     |-> CarriedOption(req.id)] : x \in {req.method} \ {""}}

(* Whatever a server has read it can pass on: written and read once more   *)
(* it is the same request, and so is a response that is valid              *)
(* (RpcResponse::isValid, message.h:44).  Only a response with neither     *)
(* result nor error, which from_json_response lets pass, comes out as      *)
(* another one (json_protocol.cpp:86).                                     *)
ForwardingIsTransparent ==
  /\ \A req \in received : FromJsonRequest(Reread(RequestToJson(req))) = Accepted(req)
  /\ \A res \in reply.message :
       LET again == FromJsonResponse(Reread(ResponseToJson(res)))
       IN  (again = Accepted(res)) = ((res.result = {}) # (res.error = {}))

IsWhole(j) == j.kind \in {"integer", "unsigned"}

(* Every number in a document fits an int64_t. *)
Fits(j) == \A p \in DOMAIN j : IsWhole(j[p]) => j[p].num \in MinInt .. MaxInt

(* The client of a request that was run finds the id it sent in the        *)
(* answer, of whatever type it was, and none if it sent none, as far as    *)
(* the numbers in the id fit an int64_t: of larger ones nothing is said    *)
(* (message.h:31; json_protocol.cpp:56, 89, 175).                          *)
IdComesBack ==
  stage = "done" /\ received # {} =>
    /\ Has(line, "id") = Has(answer, "id")
    /\ Has(line, "id") /\ Fits(Child(line, "id")) => Child(answer, "id") = Child(line, "id")

(* The sum that "add" sends back is that of the numbers on the line, up to *)
(* the ends of the range of an int64_t, which the parameters and the sum   *)
(* may reach but not leave (main.cpp:37-44, json_protocol.cpp:175).        *)
AddIsExact ==
  stage = "done" /\ received # {} =>
    LET a == <<"params", "0">>
        b == <<"params", "1">>
        Fit(n) == n \in MinInt .. MaxInt
    IN  line[<<"method">>].string = "add" /\ {<<"params">>, a, b} \subseteq DOMAIN line
          /\ IsWhole(line[a]) /\ IsWhole(line[b])
          /\ Fit(line[a].num) /\ Fit(line[b].num) /\ Fit(line[a].num + line[b].num)
        => /\ IsWhole(answer[<<"result">>])
           /\ answer[<<"result">>].num = line[a].num + line[b].num

(* What the client reads is the response the server made, up to what JSON  *)
(* cannot carry: a result that is null is still a result, an error keeps   *)
(* its code and its data, and exactly one of both is there                 *)
(* (json_protocol.cpp:73-91, 93-141).                                      *)
AnswerArrives ==
  stage = "done" =>
    \A res \in response :
      /\ reply = Accepted([result |-> CarriedOption(res.result),
                           error  |-> {[e EXCEPT !.data = CarriedOption(@)] : e \in res.error},
                           id     |-> CarriedOption(res.id)])
      /\ (res.result = {}) # (res.error = {})

(* The server has an answer to whatever it reads: the one response it      *)
(* cannot write is the one to a line that is not JSON and whose parse      *)
(* error quotes half a character or other bytes (json_protocol.cpp:62, 90; *)
(* server.cpp:86, 94).  What comes back from a parsed line, as a result,   *)
(* an id or the data of an error, can be written again.                    *)
OnlyBytesGoUnanswered ==
  \A res \in response : Dumps(ResponseToJson(res)) <=> line # Garbage(FALSE)

(* Nothing of a call is lost on the way out or back but what JSON has no   *)
(* words for, and no answer but one that quotes bytes that are not text    *)
(* (json_protocol.cpp:17-141).                                             *)
NothingIsLost == RequestArrives /\ AnswerArrives /\ OnlyBytesGoUnanswered
===============================================================================
