----------------------------- MODULE ServerProofs -----------------------------
(***************************************************************************)
(* Theorems about the lifecycle of Server, for any set of clients, any     *)
(* number of restarts, both platforms and (but for NoTerminate) all the    *)
(* failures of the model.  The argument is about who owns the two threads: *)
(* a thread runs only while its std::thread is joinable, and the places of *)
(* the controlling thread say which of the two is joinable there.  At the  *)
(* end, theorems about the programs that control a server (ServerProgram). *)
(***************************************************************************)
EXTENDS ServerProgram, TLAPS

(* A thread whose std::thread is not joinable does not run. *)
HandleInv ==
  /\ ~acceptThread => loop \in {"none", "finished"}
  /\ ~ioThread => io \in {"none", "finished"}

(* What the place of the controlling thread says of is_running_ and of the *)
(* two std::thread objects.                                                *)
PlaceInv ==
  /\ main \in {"launch", "launchIo"} => isRunning
  /\ main \in {"close", "stopIo", "joinAccept", "joinIo", "destroy", "gone"} => ~isRunning
  /\ main = "launch" \/ (main \in {"idle", "destroy", "gone"} /\ ~isRunning)
       => ~acceptThread /\ ~ioThread
  /\ main = "launchIo" => ~ioThread
  /\ main = "joinIo" => ~acceptThread

(* Only a connection thread that cannot be created terminates the process. *)
TerminateInv == terminated => "thread" \in Faults

IInv == TypeOK /\ HandleInv /\ PlaceInv /\ TerminateInv

-------------------------------------------------------------------------------
(* The flags are only ever set, reset, left alone or combined. *)
LEMMA FlagsInitially == Init => FlagsOK
BY DEF Init, FlagsOK

LEMMA FlagsStep ==
  ASSUME FlagsOK, [Next]_vars
  PROVE  FlagsOK'
<1>1. CASE Start \/ Stop \/ Destroy
  BY <1>1 DEF FlagsOK, Start, Stop, Destroy, threads
<1>2. CASE MainStep
  BY <1>2
     DEF FlagsOK, MainStep, LaunchAccept, LaunchIo, CloseAcceptor, StopIo, JoinAccept, JoinIo,
         DestroyMembers, threads
<1>3. CASE LoopStep
  BY <1>3
     DEF FlagsOK, LoopStep, TestRunning, EnterAccept, AcceptAborted, AcceptConnection, Spawn,
         LoopTo
<1>4. CASE IoRun
  BY <1>4 DEF FlagsOK, IoRun
<1>5. CASE Fault
  BY <1>5 DEF FlagsOK, Fault, LaunchFails, AcceptFails, SpawnFails, LoopTo, threads
<1>6. CASE \E c \in Clients : ClientStep(c)
  BY <1>6
     DEF FlagsOK, ClientStep, Connect, ReadRequest, WriteAnswer, EndConnection, ConnectionTo,
         threads
<1>7. CASE UNCHANGED vars
  BY <1>7 DEF FlagsOK, vars
<1> QED
  BY <1>1, <1>2, <1>3, <1>4, <1>5, <1>6, <1>7 DEF Next

-------------------------------------------------------------------------------
LEMMA ResetType ==
  ASSUME TypeOK
  PROVE  Reset(conn) \in [Clients -> {"away", "queued", "refused", "accepted", "serving",
                                      "dispatching", "closed"}]
BY DEF TypeOK, Reset

LEMMA Initially == Init => IInv
<1> SUFFICES ASSUME Init
             PROVE  IInv
  OBVIOUS
<1>1. TypeOK
  BY FlagsInitially, ServerAssumption DEF Init, TypeOK
<1>2. HandleInv /\ PlaceInv /\ TerminateInv
  BY DEF Init, HandleInv, PlaceInv, TerminateInv
<1> QED
  BY <1>1, <1>2 DEF IInv

LEMMA CallStep ==
  ASSUME IInv, FlagsOK', Start \/ Stop \/ Destroy
  PROVE  IInv'
<1>1. TypeOK'
  BY ServerAssumption DEF IInv, TypeOK, Start, Stop, Destroy, At, threads
<1>2. HandleInv' /\ PlaceInv' /\ TerminateInv'
  BY DEF IInv, TypeOK, FlagsOK, HandleInv, PlaceInv, TerminateInv, Start, Stop, Destroy, At,
         threads
<1> QED
  BY <1>1, <1>2 DEF IInv

LEMMA LaunchStep ==
  ASSUME IInv, FlagsOK', LaunchAccept \/ LaunchIo
  PROVE  IInv'
<1>1. TypeOK'
  BY DEF IInv, TypeOK, LaunchAccept, LaunchIo, At
<1>2. HandleInv' /\ PlaceInv' /\ TerminateInv'
  BY DEF IInv, TypeOK, FlagsOK, HandleInv, PlaceInv, TerminateInv, LaunchAccept, LaunchIo, At
<1> QED
  BY <1>1, <1>2 DEF IInv

LEMMA StopStep ==
  ASSUME IInv, FlagsOK', CloseAcceptor \/ StopIo \/ JoinAccept \/ JoinIo \/ DestroyMembers
  PROVE  IInv'
<1>1. TypeOK'
  BY ResetType
     DEF IInv, TypeOK, CloseAcceptor, StopIo, JoinAccept, JoinIo, DestroyMembers, At, threads
<1>2. HandleInv' /\ PlaceInv' /\ TerminateInv'
  BY DEF IInv, TypeOK, FlagsOK, HandleInv, PlaceInv, TerminateInv, CloseAcceptor, StopIo,
         JoinAccept, JoinIo, DestroyMembers, At, threads
<1> QED
  BY <1>1, <1>2 DEF IInv

(* The accept thread runs, so its std::thread is joinable, so the          *)
(* controlling thread is not at a place where it must not be.              *)
LEMMA AcceptThreadStep ==
  ASSUME IInv, FlagsOK', LoopStep
  PROVE  IInv'
<1>1. loop \notin {"none", "finished"} => acceptThread
  BY DEF IInv, HandleInv
<1>2. CASE TestRunning \/ EnterAccept \/ AcceptAborted
  BY <1>1, <1>2
     DEF IInv, TypeOK, HandleInv, PlaceInv, TerminateInv, TestRunning, EnterAccept,
         AcceptAborted, LoopTo
<1>3. ASSUME NEW c \in Clients, AcceptConnection(c)
      PROVE  IInv'
  <2>1. conn' \in [Clients -> {"away", "queued", "refused", "accepted", "serving",
                               "dispatching", "closed"}]
    BY <1>3 DEF AcceptConnection, IInv, TypeOK, Reset
  <2> QED
    BY <1>1, <1>3, <2>1
       DEF IInv, TypeOK, HandleInv, PlaceInv, TerminateInv, AcceptConnection, LoopTo
<1>4. ASSUME NEW c \in Clients, Spawn(c)
      PROVE  IInv'
  BY <1>1, <1>4 DEF IInv, TypeOK, HandleInv, PlaceInv, TerminateInv, Spawn, LoopTo
<1> QED
  BY <1>2, <1>3, <1>4 DEF LoopStep

LEMMA FaultStep ==
  ASSUME IInv, FlagsOK', Fault
  PROVE  IInv'
BY ResetType
   DEF IInv, TypeOK, HandleInv, PlaceInv, TerminateInv, Fault, LaunchFails, AcceptFails,
       SpawnFails, LoopTo, At, threads

LEMMA OtherStep ==
  ASSUME IInv, FlagsOK', IoRun \/ \E c \in Clients : ClientStep(c)
  PROVE  IInv'
BY DEF IInv, TypeOK, HandleInv, PlaceInv, TerminateInv, IoRun, ClientStep, Connect,
       ReadRequest, WriteAnswer, EndConnection, ConnectionTo, threads

LEMMA Inductive == IInv /\ [Next]_vars => IInv'
<1>1. IInv /\ UNCHANGED vars => IInv'
  BY DEF vars, IInv, TypeOK, FlagsOK, HandleInv, PlaceInv, TerminateInv
<1>2. IInv /\ [Next]_vars => FlagsOK'
  BY FlagsStep DEF IInv, TypeOK
<1> QED
  BY <1>1, <1>2, CallStep, LaunchStep, StopStep, AcceptThreadStep, FaultStep, OtherStep
     DEF Next, MainStep

LEMMA Invariance == Spec => []IInv
BY Initially, Inductive, PTL DEF Spec

(* Every variable keeps its type: the two threads are only ever at the     *)
(* places of acceptLoop and io_ctx_.run() (server.cpp:39-67).              *)
THEOREM TypeCorrect == Spec => []TypeOK
BY Invariance, PTL DEF IInv

(* No sequence of start(), stop() and destruction by one thread terminates *)
(* the process, as long as threads can be created (server.cpp:35-52).      *)
THEOREM NeverTerminates ==
  ASSUME "thread" \notin Faults
  PROVE  Spec => []NoTerminate
<1>1. IInv => NoTerminate
  BY DEF IInv, TerminateInv, NoTerminate
<1> QED
  BY <1>1, Invariance, PTL

(* After stop() has returned, neither thread of the server is left,        *)
(* whatever failed before (server.cpp:45-52).                              *)
THEOREM StopIsClean == Spec => []StopLeavesNothing
<1>1. IInv => StopLeavesNothing
  BY DEF IInv, HandleInv, PlaceInv, StopLeavesNothing
<1> QED
  BY <1>1, Invariance, PTL

(* A connection is accepted only while the server runs or stop() is        *)
(* waiting for the accept thread (server.cpp:48-58).                       *)
THEOREM AcceptsEnd == Spec => NoAcceptAfterStop
<1> DEFINE Quiet(c) == conn[c] = "queued" /\ conn'[c] = "accepted"
                         => isRunning \/ main \in {"close", "stopIo", "joinAccept"}
<1>1. ASSUME IInv, [Next]_vars, NEW c \in Clients
      PROVE  Quiet(c)
  <2> SUFFICES ASSUME conn[c] = "queued", conn'[c] = "accepted"
               PROVE  isRunning \/ main \in {"close", "stopIo", "joinAccept"}
    OBVIOUS
  <2>1. loop = "blocked"
    <3>1. conn' # conn
      OBVIOUS
    <3>2. Reset(conn)[c] # "accepted"
      BY DEF Reset
    <3>3. ~(Start \/ Stop \/ Destroy \/ MainStep \/ Fault \/ IoRun)
      BY <3>1, <3>2
         DEF Start, Stop, Destroy, MainStep, LaunchAccept, LaunchIo, CloseAcceptor, StopIo,
             JoinAccept, JoinIo, DestroyMembers, Fault, LaunchFails, AcceptFails, SpawnFails,
             IoRun
    <3>4. \A d \in Clients : ~ClientStep(d)
      BY <1>1
         DEF IInv, TypeOK, ClientStep, Connect, ReadRequest, WriteAnswer, EndConnection,
             ConnectionTo
    <3>5. \A d \in Clients : ~Spawn(d)
      BY <1>1 DEF IInv, TypeOK, Spawn
    <3>6. LoopStep
      BY <1>1, <3>1, <3>3, <3>4 DEF Next, vars
    <3> QED
      BY <3>1, <3>5, <3>6
         DEF LoopStep, TestRunning, EnterAccept, AcceptAborted, AcceptConnection
  <2> QED
    BY <1>1, <2>1 DEF IInv, TypeOK, HandleInv, PlaceInv
<1>2. IInv /\ [Next]_vars => [\A c \in Clients : Quiet(c)]_vars
  BY <1>1
<1> QED
  BY <1>2, Invariance, PTL DEF Spec, NoAcceptAfterStop

-------------------------------------------------------------------------------
(* Without failures, until the server is stopped for the first time: the   *)
(* acceptor is open, and the accept loop finds it open and is_running_ set *)
(* on every turn.                                                          *)
ListenInv ==
  /\ launches = 0 => ~isRunning /\ main \in Outside
  /\ launches = 0 /\ main = "idle" => acceptor = "listening"
  /\ launches = 1 /\ isRunning => acceptor = "listening"
  /\ launches = 1 /\ isRunning /\ main # "launch" => loop \notin {"none", "finished"}

LEMMA ListenInitially == Init => ListenInv
BY DEF Init, ListenInv, Outside

LEMMA ListenStep ==
  ASSUME Faults = {}, IInv, ListenInv, [Next]_vars
  PROVE  ListenInv'
<1>1. CASE Start \/ Stop \/ Destroy
  BY <1>1, ServerAssumption
     DEF IInv, TypeOK, PlaceInv, ListenInv, Outside, Start, Stop, Destroy, At, threads
<1>2. CASE MainStep
  BY <1>2
     DEF IInv, TypeOK, PlaceInv, ListenInv, Outside, MainStep, LaunchAccept, LaunchIo,
         CloseAcceptor, StopIo, JoinAccept, JoinIo, DestroyMembers, At, threads
<1>3. CASE LoopStep
  <2>1. UNCHANGED <<isRunning, acceptor, main, launches>>
    BY <1>3 DEF LoopStep, TestRunning, EnterAccept, AcceptAborted, AcceptConnection, Spawn, LoopTo
  <2>2. ASSUME launches = 1, isRunning, main # "launch"
        PROVE  loop' \notin {"none", "finished"}
    <3>1. acceptor = "listening"
      BY <2>2 DEF ListenInv
    <3>2. CASE TestRunning \/ EnterAccept \/ AcceptAborted
      BY <2>2, <3>1, <3>2 DEF TestRunning, EnterAccept, AcceptAborted, Listening, LoopTo
    <3>3. CASE \E c \in Clients : AcceptConnection(c) \/ Spawn(c)
      BY <3>3 DEF AcceptConnection, Spawn, LoopTo
    <3> QED
      BY <1>3, <3>2, <3>3 DEF LoopStep
  <2> QED
    BY <2>1, <2>2 DEF ListenInv, Outside
<1>4. CASE IoRun
  BY <1>4 DEF ListenInv, Outside, IoRun
<1>5. ~Fault
  BY DEF Fault, LaunchFails, AcceptFails, SpawnFails
<1>6. CASE \E c \in Clients : ClientStep(c)
  BY <1>6
     DEF ListenInv, Outside, ClientStep, Connect, ReadRequest, WriteAnswer, EndConnection,
         ConnectionTo, threads
<1>7. CASE UNCHANGED vars
  BY <1>7 DEF ListenInv, Outside, vars
<1> QED
  BY <1>1, <1>2, <1>3, <1>4, <1>5, <1>6, <1>7 DEF Next

(* As long as nothing fails, a server that was started and not stopped     *)
(* listens and has its accept loop, whatever clients do                    *)
(* (server.cpp:39-43, 54-67).                                              *)
THEOREM FirstRun ==
  ASSUME Faults = {}
  PROVE  Spec => []FirstRunListens
<1>1. IInv /\ ListenInv /\ [Next]_vars => ListenInv'
  BY ListenStep
<1>2. ListenInv => FirstRunListens
  BY DEF ListenInv, FirstRunListens, RunningMeansListening
<1> QED
  BY <1>1, <1>2, ListenInitially, Invariance, PTL DEF Spec

-------------------------------------------------------------------------------
(* Clients are in the backlog of a socket that listens only, and stop()    *)
(* leaves the acceptor closed for good.                                    *)
BacklogInv ==
  /\ ~Listening => \A c \in Clients : conn[c] # "queued"
  /\ main \in {"stopIo", "joinAccept", "joinIo"} => acceptor = "closed"
  /\ main \in Outside /\ ~isRunning /\ launches > 0 => acceptor = "closed"

LEMMA ResetQueue ==
  \A c \in Clients : Reset(conn)[c] # "queued"
BY DEF Reset

LEMMA BacklogInitially == Init => BacklogInv
BY DEF Init, BacklogInv, Listening

LEMMA BacklogStep ==
  ASSUME IInv, BacklogInv, [Next]_vars
  PROVE  BacklogInv'
<1>1. CASE Start \/ Stop \/ Destroy
  BY <1>1
     DEF IInv, TypeOK, PlaceInv, BacklogInv, Listening, Outside, Start, Stop, Destroy, At,
         threads
<1>2. CASE MainStep
  <2>1. CASE LaunchAccept \/ LaunchIo
    BY <2>1
       DEF IInv, TypeOK, HandleInv, PlaceInv, BacklogInv, Listening, Outside, LaunchAccept,
           LaunchIo, At
  <2>2. CASE CloseAcceptor \/ DestroyMembers
    BY <2>2, ResetQueue
       DEF IInv, TypeOK, PlaceInv, BacklogInv, Listening, Outside, CloseAcceptor,
           DestroyMembers, At, threads
  <2>3. CASE StopIo \/ JoinAccept \/ JoinIo
    BY <2>3
       DEF IInv, TypeOK, PlaceInv, BacklogInv, Listening, Outside, StopIo, JoinAccept, JoinIo,
           At, threads
  <2> QED
    BY <1>2, <2>1, <2>2, <2>3 DEF MainStep
<1>3. CASE LoopStep
  <2>1. CASE TestRunning \/ EnterAccept \/ AcceptAborted
    BY <2>1
       DEF IInv, TypeOK, BacklogInv, Listening, Outside, TestRunning, EnterAccept,
           AcceptAborted, LoopTo
  <2>2. ASSUME NEW c \in Clients, AcceptConnection(c)
        PROVE  BacklogInv'
    <3>1. acceptor = "closed" => \A d \in Clients : conn'[d] # "queued"
      BY <2>2 DEF AcceptConnection, Reset
    <3> QED
      BY <2>2, <3>1
         DEF IInv, TypeOK, BacklogInv, Listening, Outside, AcceptConnection, LoopTo
  <2>3. ASSUME NEW c \in Clients, Spawn(c)
        PROVE  BacklogInv'
    BY <2>3 DEF IInv, TypeOK, BacklogInv, Listening, Outside, Spawn, LoopTo
  <2> QED
    BY <1>3, <2>1, <2>2, <2>3 DEF LoopStep
<1>4. CASE IoRun
  BY <1>4 DEF BacklogInv, Listening, Outside, IoRun
<1>5. CASE Fault
  BY <1>5, ResetQueue
     DEF IInv, TypeOK, PlaceInv, BacklogInv, Listening, Outside, Fault, LaunchFails,
         AcceptFails, SpawnFails, LoopTo, At, threads
<1>6. ASSUME NEW c \in Clients, ClientStep(c)
      PROVE  BacklogInv'
  BY <1>6
     DEF IInv, TypeOK, BacklogInv, Listening, Outside, ClientStep, Connect, ReadRequest,
         WriteAnswer, EndConnection, ConnectionTo, threads
<1>7. CASE UNCHANGED vars
  BY <1>7 DEF BacklogInv, Listening, Outside, vars
<1> QED
  BY <1>1, <1>2, <1>3, <1>4, <1>5, <1>6, <1>7 DEF Next

(* Once stop() has returned, nobody waits in a backlog, whatever failed    *)
(* while the server ran and whichever socket close() left open for a while *)
(* (server.cpp:48, 59-64).                                                 *)
THEOREM BacklogIsEmptied == Spec => []NobodyLeftQueued
<1>1. IInv /\ BacklogInv /\ [Next]_vars => BacklogInv'
  BY BacklogStep
<1>2. IInv /\ BacklogInv => NobodyLeftQueued
  BY DEF IInv, HandleInv, PlaceInv, BacklogInv, Listening, Outside, NobodyLeftQueued
<1> QED
  BY <1>1, <1>2, BacklogInitially, Invariance, PTL DEF Spec

-------------------------------------------------------------------------------
(* Theorems about ServerProgram: whoever controls the server, it is the    *)
(* server of Server, with all that is shown of it above; and the server    *)
(* program, which starts its server once, never meets the restart that     *)
(* leaves a server deaf.                                                   *)

(* Every step of the program is a step of the server, or none. *)
LEMMA StepIsServerStep == [ProgramNext]_programVars => [Next]_vars
<1> SUFFICES ASSUME [ProgramNext]_programVars
             PROVE  [Next]_vars
  OBVIOUS
<1>1. CASE ProgramStep
  BY <1>1 DEF ProgramStep, StartServer, Poll, StopServer, Return, Next
<1>2. CASE Signal
  BY <1>2 DEF Signal
<1>3. CASE Elsewhere
  BY <1>3 DEF Elsewhere, Next
<1>4. CASE UNCHANGED programVars
  BY <1>4 DEF programVars
<1> QED
  BY <1>1, <1>2, <1>3, <1>4 DEF ProgramNext

(* The server program, and any other controlling thread, only does what    *)
(* Server lets a controlling thread do (main.cpp:46-62).                   *)
THEOREM ProgramIsServer == ProgramSpec => Spec
<1>1. ProgramInit => Init
  BY DEF ProgramInit
<1> QED
  BY <1>1, StepIsServerStep, PTL DEF ProgramSpec, Spec

(* What is proved of the server holds under any controlling thread         *)
(* (server.cpp:30-67).                                                     *)
THEOREM ProgramKeepsPromises ==
  ProgramSpec => [](TypeOK /\ StopLeavesNothing /\ NobodyLeftQueued) /\ NoAcceptAfterStop
<1> QED
  BY ProgramIsServer, TypeCorrect, StopIsClean, BacklogIsEmptied, AcceptsEnd, PTL

-------------------------------------------------------------------------------
(* The server program launches the threads of its server once. *)
OnceInv ==
  /\ program \in {"start", "poll", "stop", "return", "end"}
  /\ launches = IF program = "start" THEN 0 ELSE 1

LEMMA OnceStep ==
  ASSUME OnceInv, [ProgramNext]_programVars
  PROVE  OnceInv'
<1>1. CASE ProgramStep
  BY <1>1
     DEF OnceInv, ProgramStep, StartServer, Poll, StopServer, Return, Goes, Start, Stop, Destroy,
         vars
<1>2. CASE Signal
  BY <1>2 DEF OnceInv, Signal, vars
<1>3. CASE Elsewhere /\ UNCHANGED <<program, running>>
  <2>1. MainStep => UNCHANGED launches
    BY DEF MainStep, LaunchAccept, LaunchIo, CloseAcceptor, StopIo, JoinAccept, JoinIo,
           DestroyMembers
  <2>2. LoopStep \/ IoRun \/ Fault => UNCHANGED launches
    BY DEF LoopStep, TestRunning, EnterAccept, AcceptAborted, AcceptConnection, Spawn, LoopTo,
           IoRun, Fault, LaunchFails, AcceptFails, SpawnFails
  <2>3. \A c \in Clients : ClientStep(c) => UNCHANGED launches
    BY DEF ClientStep, Connect, ReadRequest, WriteAnswer, EndConnection, ConnectionTo
  <2> QED
    BY <1>3, <2>1, <2>2, <2>3 DEF OnceInv, Elsewhere
<1>4. CASE UNCHANGED programVars
  BY <1>4 DEF OnceInv, programVars, vars
<1> QED
  BY <1>1, <1>2, <1>3, <1>4 DEF ProgramNext

(* As long as nothing fails, the server of the server program listens, and *)
(* its accept loop runs, from the end of start() to the beginning of       *)
(* stop(): the first run of a server is the only one it has                *)
(* (main.cpp:51-60, server.cpp:39-43).                                     *)
THEOREM ProgramListens ==
  ASSUME Faults = {}, Controllers = {"start"}
  PROVE  ProgramSpec => []RunningMeansListening
<1>1. ProgramInit => OnceInv
  BY DEF ProgramInit, Init, OnceInv
<1>2. ProgramSpec => []OnceInv
  BY <1>1, OnceStep, PTL DEF ProgramSpec
<1>3. IInv /\ ListenInv /\ [Next]_vars => ListenInv'
  BY ListenStep
<1>4. Spec => []ListenInv
  BY <1>3, ListenInitially, Invariance, PTL DEF Spec
<1>5. OnceInv /\ ListenInv => RunningMeansListening
  BY DEF OnceInv, ListenInv, RunningMeansListening
<1> QED
  BY <1>2, <1>4, <1>5, ProgramIsServer, PTL
===============================================================================
