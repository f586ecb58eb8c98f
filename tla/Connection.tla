------------------------------ MODULE Connection ------------------------------
(***************************************************************************)
(* One connection of the server: Server::Impl::handleConnection            *)
(* (src/transport/server.cpp) on its thread, the TCP stream, and a client  *)
(* that sends lines, several at a time or in pieces, without waiting for   *)
(* the answers, and may close its side at any moment.                      *)
(*                                                                         *)
(* A line is known by its number; what it holds is its kind.  The stream   *)
(* carries the text of a line as one token, its number, and its end of     *)
(* line as another.                                                        *)
(*                                                                         *)
(* pc, the place of the connection thread:                                 *)
(*   read       in read_until                                              *)
(*   parse      holding a line                                             *)
(*   dispatch   holding the request                                        *)
(*   serialize  holding the response                                       *)
(*   write      holding the text of the response                           *)
(*   closed     the socket is closed, the thread has ended                 *)
(* The fairness and the client program are in ClientSession.tla.           *)
(***************************************************************************)
EXTENDS Naturals, Sequences, SequencesExt

CONSTANTS
  MaxLines,  \* bound: how many lines the client sends
  Window     \* how many responses the stream holds that the client has not read

ASSUME ConnectionAssumption == MaxLines \in Nat /\ Window \in Nat \ {0}

VARIABLES
  sent,      \* sent[n]: the kind of line n
  partial,   \* the end of the last line has not been sent yet
  wire,      \* tokens on their way to the server
  client,    \* "open", "halfClosed" (sends no more) or "gone" (closed)
  taken,     \* how many responses the client has read
  buffer,    \* the streambuf
  pc,
  line,      \* the number of the line being answered
  res,       \* the response to it
  executed,  \* history: the lines that were dispatched
  replies    \* the responses on their way to the client, or read by it

clientVars == <<sent, partial, client, taken>>
serverVars == <<buffer, pc, line, res, executed, replies>>

vars == <<clientVars, wire, serverVars>>

-------------------------------------------------------------------------------
Lines     == 1 .. MaxLines
EndOfLine == 0
Tokens    == Lines \cup {EndOfLine}

(* What from_json_request makes of a line: a request, a request without    *)
(* id, or a failure.  The message of a failure quotes the text it could    *)
(* not read, which need not be UTF-8.                                      *)
Parsable == {"request", "notification"}
Kinds    == Parsable \cup {"malformed", "notUtf8"}

(* What dispatch() makes of a request: a handler may answer with text that *)
(* is not UTF-8, in its result or in its error.                            *)
Outcomes == {"result", "error", "answerNotUtf8"}

(* A response as its JSON text shows it: to_json leaves the id out when    *)
(* there is none.                                                          *)
Omitted == 0
NoResponse == [line |-> 0, body |-> "none", id |-> Omitted]
Responses  == [line : Lines, id : Lines \cup {Omitted},
               body : {"result", "error", "answerNotUtf8", "parseError", "parseErrorNotUtf8"}]

(* nlohmann's dump() throws type_error on text that is not UTF-8. *)
Serializable(r) == r.body \notin {"answerNotUtf8", "parseErrorNotUtf8"}

Init ==
  /\ sent = <<>>
  /\ partial = FALSE
  /\ wire = <<>>
  /\ client = "open"
  /\ taken = 0
  /\ buffer = <<>>
  /\ pc = "read"
  /\ line = 0
  /\ res = NoResponse
  /\ executed = <<>>
  /\ replies = <<>>

-------------------------------------------------------------------------------
(* The client. *)
SendText(kind) ==
  /\ client = "open"
  /\ ~partial
  /\ Len(sent) < MaxLines
  /\ sent' = Append(sent, kind)
  /\ partial' = TRUE
  /\ wire' = Append(wire, Len(sent) + 1)
  /\ UNCHANGED <<client, taken, serverVars>>

SendEndOfLine ==
  /\ client = "open"
  /\ partial
  /\ partial' = FALSE
  /\ wire' = Append(wire, EndOfLine)
  /\ UNCHANGED <<sent, client, taken, serverVars>>

(* shutdown(send), close() or death. *)
Leave(how) ==
  /\ client = "open" \/ (client = "halfClosed" /\ how = "gone")
  /\ client' = how
  /\ UNCHANGED <<sent, partial, wire, taken, serverVars>>

(* One read takes any number of the responses that have come. *)
Read(k) ==
  /\ client # "gone"
  /\ k \in 1 .. Len(replies) - taken
  /\ taken' = taken + k
  /\ UNCHANGED <<sent, partial, wire, client, serverVars>>

-------------------------------------------------------------------------------
(* Mutant of HasLine: an end of line is seen at the end of a piece only.   *)
HasLineAtEnd == buffer # <<>> /\ Last(buffer) = EndOfLine

(* read_until reads, in pieces of any size, until the buffer has an end of *)
(* line; it may read more than that.                                       *)
HasLine == Contains(buffer, EndOfLine)

Receive(k) ==
  /\ pc = "read"
  /\ ~HasLine
  /\ k \in 1 .. Len(wire)
  /\ buffer' = buffer \o SubSeq(wire, 1, k)
  /\ wire' = SubSeq(wire, k + 1, Len(wire))
  /\ UNCHANGED <<clientVars, pc, line, res, executed, replies>>

(* Mutants of GetLine: the lines that came with the first are thrown away; *)
(* the end of the line stays in the streambuf.                             *)
GetLineDropRest ==
  /\ pc = "read"
  /\ HasLine
  /\ line' = Head(buffer)
  /\ buffer' = IF Last(buffer) = EndOfLine THEN <<>> ELSE <<Last(buffer)>>
  /\ pc' = "parse"
  /\ UNCHANGED <<clientVars, wire, res, executed, replies>>

GetLineKeepEnd ==
  /\ pc = "read"
  /\ HasLine
  /\ line' = Head(buffer)
  /\ buffer' = Tail(buffer)
  /\ pc' = "parse"
  /\ UNCHANGED <<clientVars, wire, res, executed, replies>>

(* getline takes the first line out of the streambuf and leaves the rest.  *)
GetLine ==
  /\ pc = "read"
  /\ HasLine
  /\ line' = Head(buffer)
  /\ buffer' = Tail(Tail(buffer))
  /\ pc' = "parse"
  /\ UNCHANGED <<clientVars, wire, res, executed, replies>>

(* Mutant of EndOfStream: what was read before the end is taken for a line. *)
EndOfStreamAsLine ==
  /\ pc = "read"
  /\ ~HasLine
  /\ client = "gone" \/ (client = "halfClosed" /\ wire = <<>>)
  /\ IF buffer = <<>>
       THEN pc' = "closed" /\ UNCHANGED <<buffer, line>>
       ELSE pc' = "parse" /\ line' = Head(buffer) /\ buffer' = <<>>
  /\ UNCHANGED <<clientVars, wire, res, executed, replies>>

(* read_until fails: the stream has ended, or the connection was reset and *)
(* what was in flight is lost.  A line without its end is dropped.         *)
EndOfStream ==
  /\ pc = "read"
  /\ ~HasLine
  /\ client = "gone" \/ (client = "halfClosed" /\ wire = <<>>)
  /\ pc' = "closed"
  /\ UNCHANGED <<clientVars, wire, buffer, line, res, executed, replies>>

ParseRequest ==
  /\ pc = "parse"
  /\ sent[line] \in Parsable
  /\ pc' = "dispatch"
  /\ UNCHANGED <<clientVars, wire, buffer, line, res, executed, replies>>

(* The response is res, to be serialized. *)
Respond(at, body, id) ==
  /\ pc = at
  /\ res' = [line |-> line, body |-> body, id |-> id]
  /\ pc' = "serialize"
  /\ UNCHANGED <<clientVars, wire, buffer, line, replies>>

ParseErrorBody == IF sent[line] = "malformed" THEN "parseError" ELSE "parseErrorNotUtf8"

(* Mutant of ParseFails: the id left in the response of the line before. *)
ParseFailsStaleId ==
  /\ Respond("parse", ParseErrorBody, res.id)
  /\ sent[line] \notin Parsable
  /\ UNCHANGED executed

(* No id is known of a line that is not a request. *)
ParseFails ==
  /\ Respond("parse", ParseErrorBody, Omitted)
  /\ sent[line] \notin Parsable
  /\ UNCHANGED executed

Dispatch(outcome) ==
  /\ Respond("dispatch", outcome, IF sent[line] = "request" THEN line ELSE Omitted)
  /\ executed' = Append(executed, line)

Serialize ==
  /\ pc = "serialize"
  /\ Serializable(res)
  /\ pc' = "write"
  /\ UNCHANGED <<clientVars, wire, buffer, line, res, executed, replies>>

(* The exception of to_json ends the loop: the connection is closed without *)
(* a word.                                                                 *)
SerializeThrows ==
  /\ pc = "serialize"
  /\ ~Serializable(res)
  /\ pc' = "closed"
  /\ UNCHANGED <<clientVars, wire, buffer, line, res, executed, replies>>

(* The client is there and does not read, and the stream is full of what   *)
(* it has not read: write blocks until it reads or is gone.                *)
Stalled == client # "gone" /\ Len(replies) - taken >= Window

(* The error code of write is not looked at: the thread goes on reading    *)
(* although nobody will get its answers.                                   *)
Write ==
  /\ pc = "write"
  /\ ~Stalled
  /\ replies' = IF client = "gone" THEN replies ELSE Append(replies, res)
  /\ pc' = "read"
  /\ UNCHANGED <<clientVars, wire, buffer, line, res, executed>>

-------------------------------------------------------------------------------
ClientStep ==
  \/ \E kind \in Kinds : SendText(kind)
  \/ SendEndOfLine
  \/ \E how \in {"halfClosed", "gone"} : Leave(how)
  \/ \E k \in 1 .. Len(replies) : Read(k)

ServerStep ==
  \/ \E k \in 1 .. Len(wire) : Receive(k)
  \/ GetLine
  \/ EndOfStream
  \/ ParseRequest
  \/ ParseFails
  \/ \E outcome \in Outcomes : Dispatch(outcome)
  \/ Serialize
  \/ SerializeThrows
  \/ Write

Next == ClientStep \/ ServerStep

Spec == Init /\ [][Next]_vars

-------------------------------------------------------------------------------
TypeOK ==
  /\ sent \in Seq(Kinds) /\ Len(sent) <= MaxLines
  /\ partial \in BOOLEAN
  /\ wire \in Seq(Tokens)
  /\ client \in {"open", "halfClosed", "gone"}
  /\ buffer \in Seq(Tokens)
  /\ pc \in {"read", "parse", "dispatch", "serialize", "write", "closed"}
  /\ line \in 0 .. Len(sent) /\ (pc \notin {"read", "closed"} => line # 0)
  /\ res \in Responses \cup {NoResponse}
  /\ executed \in Seq(Lines)
  /\ replies \in Seq(Responses)
  /\ taken \in 0 .. Len(replies)

(* The client has sent all of line n. *)
Ended(n) == n \in DOMAIN sent /\ (n = Len(sent) => ~partial)

(* However the lines are cut and batched on the way, the i-th response the *)
(* client gets answers the i-th line it sent: a client that pipelines can  *)
(* match them by position, as it must where the id is missing              *)
(* (server.cpp:73-96).                                                     *)
RepliesInOrder == \A i \in DOMAIN replies : replies[i].line = i

(* A response carries the id of the request it answers; an answer to       *)
(* anything else carries none, not even that of an earlier request on the  *)
(* connection (server.cpp:86-92).                                          *)
IdsMatch ==
  \A i \in DOMAIN replies :
    LET r == replies[i]
    IN  r.id = IF sent[r.line] = "request" THEN r.line ELSE Omitted

(* No request is executed twice, or before its end of line has come: a     *)
(* connection that is cut in the middle of a line executes nothing of it   *)
(* (server.cpp:75-82).                                                     *)
ExecutedOnceAndWhole ==
  /\ \A i, j \in DOMAIN executed : i < j => executed[i] < executed[j]
  /\ \A i \in DOMAIN executed : Ended(executed[i])

(* A server that closes on a client that has not closed had one reason:    *)
(* its last response could not be serialized.  No other line, and no       *)
(* client that only stopped sending before its answers were written, loses *)
(* the connection with answers outstanding (server.cpp:73-107).            *)
ClosedForCause ==
  pc = "closed" /\ client # "gone" /\ Serializable(res) =>
    /\ client = "halfClosed"
    /\ \A n \in DOMAIN sent : Ended(n) => n <= Len(replies)

(* Every complete line that is to be answered, which a notification is not *)
(* (message.h:18-19), is answered as long as its client is there, even one *)
(* that sends no more, unless the client leaves so many answers unread     *)
(* that write blocks for ever (server.cpp:95), or a response cannot be     *)
(* serialized and the connection is closed (server.cpp:73-106).            *)
LinesAreAnswered ==
  \A n \in Lines :
    Ended(n) /\ sent[n] # "notification" /\ client # "gone"
      ~> \/ n <= Len(replies)
         \/ pc = "closed" /\ ~Serializable(res)
         \/ client = "gone"
         \/ []Stalled

(* "If it is absent, the message is a notification and no response should  *)
(* be sent" (message.h:19).                                                *)
NotificationsGetNoReply ==
  \A i \in DOMAIN replies : sent[replies[i].line] # "notification"
===============================================================================
