----------------------------- MODULE ClientSession -----------------------------
(***************************************************************************)
(* The client of a connection is either the interactive client program     *)
(* (src/client.cpp) or any other client, which Connection.tla leaves free. *)
(* The program types one line at a time: it writes the line, waits for one *)
(* line of answer, read into a streambuf of its own that is thrown away    *)
(* with what else it holds, and shows it.                                  *)
(*                                                                         *)
(* program, the place of the client program:                               *)
(*   other   the client is not client.cpp                                  *)
(*   test    before while (running)                                        *)
(*   getline waiting for the user                                          *)
(*   write   the text of a line is written, its end is not                 *)
(*   await   in read_until                                                 *)
(*   ended   the socket is closed                                          *)
(***************************************************************************)
EXTENDS Connection

VARIABLES
  program,
  running,  \* the flag signalHandler resets
  shown     \* the responses printed, in order

sessionVars == <<vars, program, running, shown>>

SessionInit ==
  /\ Init
  /\ program \in {"other", "test"}
  /\ running = TRUE
  /\ shown = <<>>

-------------------------------------------------------------------------------
Goes(from, to) ==
  /\ program = from
  /\ program' = to
  /\ UNCHANGED running

Signal ==
  /\ program \notin {"other", "ended"}
  /\ running
  /\ running' = FALSE
  /\ UNCHANGED <<vars, program, shown>>

(* Mutant of TestRunning: the flag is not looked at. *)
TestNothing ==
  /\ Goes("test", "getline")
  /\ UNCHANGED <<vars, shown>>

TestRunning ==
  /\ running
  /\ Goes("test", "getline")
  /\ UNCHANGED <<vars, shown>>

(* The end: shutdown and close after the loop, or the destructor of the    *)
(* socket when an exception has left it.                                   *)
EndFrom(place) ==
  /\ Goes(place, "ended")
  /\ Leave("gone")
  /\ UNCHANGED shown

Interrupted == ~running /\ EndFrom("test")

(* "exit", or the end of the input *)
TypeExit == EndFrom("getline")

TypeEmpty ==
  /\ Goes("getline", "test")
  /\ UNCHANGED <<vars, shown>>

TypeLine(kind) ==
  /\ Goes("getline", "write")
  /\ SendText(kind)
  /\ UNCHANGED shown

(* Mutant of FinishLine: no answer is awaited to a notification. *)
FinishLineOnly ==
  /\ Goes("write", IF Last(sent) = "notification" THEN "test" ELSE "await")
  /\ SendEndOfLine
  /\ UNCHANGED shown

FinishLine ==
  /\ Goes("write", "await")
  /\ SendEndOfLine
  /\ UNCHANGED shown

(* read_until takes whatever has come, one line at least; getline takes    *)
(* the first line, and the rest goes with the streambuf.                   *)
ReadAnswer(k) ==
  /\ Goes("await", "test")
  /\ Read(k)
  /\ shown' = Append(shown, replies[taken + 1])

(* The server has closed: write or read_until throws. *)
ConnectionLost ==
  /\ pc = "closed"
  /\ EndFrom("write") \/ (taken = Len(replies) /\ EndFrom("await"))

-------------------------------------------------------------------------------
(* What the program does by itself, and what the user does. *)
ProgramStep ==
  \/ TestRunning
  \/ Interrupted
  \/ FinishLine
  \/ \E k \in 1 .. Len(replies) : ReadAnswer(k)
  \/ ConnectionLost

UserStep ==
  \/ Signal
  \/ TypeExit
  \/ TypeEmpty
  \/ \E kind \in Kinds : TypeLine(kind)

Elsewhere == ServerStep \/ (program = "other" /\ ClientStep)

SessionNext ==
  \/ ProgramStep
  \/ UserStep
  \/ Elsewhere /\ UNCHANGED <<program, running, shown>>

(* The programs run, the kernel delivers and handlers return; neither the  *)
(* user nor another client need do anything.                               *)
SessionSpec ==
  /\ SessionInit
  /\ [][SessionNext]_sessionVars
  /\ WF_sessionVars(ServerStep /\ UNCHANGED <<program, running, shown>>)
  /\ WF_sessionVars(ProgramStep)

-------------------------------------------------------------------------------
SessionTypeOK ==
  /\ TypeOK
  /\ program \in {"other", "test", "getline", "write", "await", "ended"}
  /\ running \in BOOLEAN
  /\ shown \in Seq(Responses)

(* The i-th answer the user sees is the one to the i-th line typed, and    *)
(* none was thrown away with the streambuf it came in: that holds because  *)
(* the server answers every line, once, and the client waits for it        *)
(* (client.cpp:43-50).                                                     *)
AnswersAreOwn ==
  /\ program # "other" => taken = Len(shown)
  /\ \A i \in DOMAIN shown : shown[i].line = i

(* After a signal the client ends as soon as it has its answer, without    *)
(* asking for another line (client.cpp:32).                                *)
SignalEndsSession == program \notin {"other", "getline"} /\ ~running ~> program = "ended"
===============================================================================
