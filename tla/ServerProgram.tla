----------------------------- MODULE ServerProgram -----------------------------
(***************************************************************************)
(* Who controls the server of Server.tla: the server program (src/main.cpp) *)
(* or any other thread, like the body of the integration test.  The        *)
(* program starts its server, polls the flag that a signal resets, stops   *)
(* the server and returns, which destroys it.                              *)
(*                                                                         *)
(* program, the place of main():                                           *)
(*   other    the controlling thread is not that of main.cpp               *)
(*   start    the server is constructed                                    *)
(*   poll     in while (running), when start() has returned                *)
(*   stop     before server.stop()                                         *)
(*   return   before the end of main(), when stop() has returned           *)
(*   end      returned                                                     *)
(***************************************************************************)
EXTENDS Server

CONSTANT Controllers  \* who may control the server: "other", "start" or both

ASSUME ControllersAssumption == Controllers \subseteq {"other", "start"}

VARIABLES
  program,
  running  \* the flag signalHandler resets

programVars == <<vars, program, running>>

ProgramInit ==
  /\ Init
  /\ program \in Controllers
  /\ running = TRUE

-------------------------------------------------------------------------------
Goes(from, place) ==
  /\ program = from
  /\ program' = place

Signal ==
  /\ program \notin {"other", "end"}
  /\ running' = FALSE
  /\ UNCHANGED <<vars, program>>

(* Mutant of StartServer: the flag is set here and not where it is defined. *)
StartSetsFlag ==
  /\ Goes("start", "poll")
  /\ Start
  /\ running' = TRUE

StartServer ==
  /\ Goes("start", "poll")
  /\ Start
  /\ UNCHANGED running

Poll ==
  /\ Goes("poll", "stop")
  /\ At("idle") /\ ~running
  /\ UNCHANGED <<vars, running>>

StopServer ==
  /\ Goes("stop", "return")
  /\ Stop
  /\ UNCHANGED running

Return ==
  /\ Goes("return", "end")
  /\ Destroy
  /\ UNCHANGED running

ProgramStep == StartServer \/ Poll \/ StopServer \/ Return

Elsewhere ==
  \/ program = "other" /\ (Start \/ Stop \/ Destroy)
  \/ MainStep
  \/ LoopStep
  \/ IoRun
  \/ Fault
  \/ \E c \in Clients : ClientStep(c)

ProgramNext ==
  \/ ProgramStep
  \/ Signal
  \/ Elsewhere /\ UNCHANGED <<program, running>>

(* The threads run when they can, main() too; no other controlling thread  *)
(* has to start or stop the server, no client has to come, speak or go,    *)
(* nothing has to fail and nobody has to send a signal.                    *)
ProgramSpec ==
  /\ ProgramInit
  /\ [][ProgramNext]_programVars
  /\ WF_programVars(ProgramStep)
  /\ WF_programVars(MainStep /\ UNCHANGED <<program, running>>)
  /\ WF_programVars(LoopStep /\ UNCHANGED <<program, running>>)
  /\ WF_programVars(IoRun /\ UNCHANGED <<program, running>>)

-------------------------------------------------------------------------------
(* A signal ends the program, whenever it comes, while start() runs or     *)
(* with clients in the backlog (main.cpp:23-25, 55-60), where closing the  *)
(* acceptor ends a blocked accept.                                         *)
SignalEndsProgram == program # "other" /\ ~running ~> main = "gone"
===============================================================================
