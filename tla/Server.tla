-------------------------------- MODULE Server --------------------------------
(***************************************************************************)
(* The lifecycle of skitter::transport::Server (src/transport/server.cpp): *)
(* one controlling thread (main() in src/main.cpp, the test body in the    *)
(* integration test) that constructs, starts, stops and destroys the       *)
(* server; the accept thread; the io thread; one detached thread for each  *)
(* connection; and the clients.  What a connection thread does with the    *)
(* lines it reads is in Connection.tla.                                    *)
(*                                                                         *)
(* main, the place of the controlling thread:                              *)
(*   idle        outside the server                                        *)
(*   launch      in start(): is_running_ set, accept_thread_ not assigned  *)
(*   launchIo    in start(): io_thread_ not assigned                       *)
(*   close       in stop(): is_running_ reset, acceptor_ not closed        *)
(*   stopIo, joinAccept, joinIo    the rest of stop()                      *)
(*   destroy     in ~Impl after stop(): members not destroyed yet          *)
(*   gone        the Server object does not exist any more                 *)
(*                                                                         *)
(* loop, the place of the accept thread:                                   *)
(*   none        never started                                             *)
(*   check       before the test of while (is_running_)                    *)
(*   enter       before the accept system call                             *)
(*   blocked     in the accept system call                                 *)
(*   spawn       holding an accepted socket                                *)
(*   finished    acceptLoop returned                                       *)
(***************************************************************************)
EXTENDS Naturals

CONSTANTS
  Clients,          \* connections clients try to make, each at most once
  MaxLaunches,      \* bound: how many times start() launches the threads
  CloseWakesAccept, \* does closing a socket end an accept() blocked on it?
  Faults            \* what may fail: "accept" (the system call), "thread" (its creation)

ASSUME ServerAssumption ==
  /\ MaxLaunches \in Nat
  /\ CloseWakesAccept \in BOOLEAN
  /\ Faults \subseteq {"accept", "thread"}

VARIABLES
  isRunning,     \* is_running_
  acceptor,      \* acceptor_: "listening" or "closed"
  ioStopped,     \* io_ctx_ is stopped
  acceptThread,  \* accept_thread_ is joinable
  ioThread,      \* io_thread_ is joinable
  loop,
  io,            \* the io thread: "none", "running" or "finished"
  main,
  launches,      \* how many times start() has got past the exchange
  dying,         \* ~Impl has begun
  terminated,    \* std::terminate was called
  conn           \* conn[c]: how far client c has got

vars == <<isRunning, acceptor, ioStopped, acceptThread, ioThread, loop, io, main, launches,
          dying, terminated, conn>>

threads == <<acceptThread, ioThread, loop, io>>

(* The constructor has opened, bound and set listening the acceptor. *)
Init ==
  /\ isRunning = FALSE
  /\ acceptor = "listening"
  /\ ioStopped = FALSE
  /\ acceptThread = FALSE
  /\ ioThread = FALSE
  /\ loop = "none"
  /\ io = "none"
  /\ main = "idle"
  /\ launches = 0
  /\ dying = FALSE
  /\ terminated = FALSE
  /\ conn = [c \in Clients |-> "away"]

-------------------------------------------------------------------------------
(* The kernel.  An accept() that close() does not wake holds on to the     *)
(* listening socket until a connection comes.                              *)
Listening == acceptor = "listening" \/ (loop = "blocked" /\ ~CloseWakesAccept)

(* The connections in the backlog of a listening socket that goes away are *)
(* reset.                                                                  *)
Reset(cs) == [c \in Clients |-> IF cs[c] = "queued" THEN "refused" ELSE cs[c]]

-------------------------------------------------------------------------------
(* The controlling thread is at a place of a process that still runs. *)
At(place) == ~terminated /\ main = place

(* Server::start.  On a running server it returns at once, like stop() on  *)
(* a stopped one: neither changes anything.                                *)
Start ==
  /\ At("idle")
  /\ ~isRunning
  /\ launches < MaxLaunches
  /\ isRunning' = TRUE
  /\ main' = "launch"
  /\ launches' = launches + 1
  /\ UNCHANGED <<acceptor, ioStopped, threads, dying, terminated, conn>>

(* Assigning a thread to a std::thread that is joinable is std::terminate. *)
LaunchAccept ==
  /\ At("launch")
  /\ terminated' = acceptThread
  /\ acceptThread' = TRUE
  /\ loop' = "check"
  /\ main' = "launchIo"
  /\ UNCHANGED <<isRunning, acceptor, ioStopped, ioThread, io, launches, dying, conn>>

(* Mutant of LaunchIo: the second thread runs the first one's function. *)
LaunchLoopTwice ==
  /\ At("launchIo")
  /\ terminated' = ioThread
  /\ ioThread' = TRUE
  /\ io' = "check"
  /\ main' = "idle"
  /\ UNCHANGED <<isRunning, acceptor, ioStopped, acceptThread, loop, launches, dying, conn>>

LaunchIo ==
  /\ At("launchIo")
  /\ terminated' = ioThread
  /\ ioThread' = TRUE
  /\ io' = "running"
  /\ main' = "idle"
  /\ UNCHANGED <<isRunning, acceptor, ioStopped, acceptThread, loop, launches, dying, conn>>

(* A thread cannot be created: std::system_error leaves start(), which     *)
(* undoes nothing.                                                         *)
LaunchFails ==
  /\ "thread" \in Faults
  /\ At("launch") \/ At("launchIo")
  /\ main' = "idle"
  /\ UNCHANGED <<isRunning, acceptor, ioStopped, threads, launches, dying, terminated, conn>>

(* Server::stop *)
Stop ==
  /\ At("idle")
  /\ isRunning
  /\ isRunning' = FALSE
  /\ main' = "close"
  /\ UNCHANGED <<acceptor, ioStopped, threads, launches, dying, terminated, conn>>

(* Mutant of CloseAcceptor: the acceptor stays open. *)
KeepAcceptorOpen ==
  /\ At("close")
  /\ main' = "stopIo"
  /\ UNCHANGED <<isRunning, acceptor, ioStopped, threads, launches, dying, terminated, conn>>

CloseAcceptor ==
  /\ At("close")
  /\ acceptor' = "closed"
  /\ conn' = IF loop = "blocked" /\ ~CloseWakesAccept THEN conn ELSE Reset(conn)
  /\ main' = "stopIo"
  /\ UNCHANGED <<isRunning, ioStopped, threads, launches, dying, terminated>>

StopIo ==
  /\ At("stopIo")
  /\ ioStopped' = TRUE
  /\ main' = "joinAccept"
  /\ UNCHANGED <<isRunning, acceptor, threads, launches, dying, terminated, conn>>

(* Mutant of JoinAccept: the thread is not joined. *)
ForgetAccept ==
  /\ At("joinAccept")
  /\ main' = "joinIo"
  /\ UNCHANGED <<isRunning, acceptor, ioStopped, threads, launches, dying, terminated, conn>>

JoinAccept ==
  /\ At("joinAccept")
  /\ acceptThread => loop = "finished"
  /\ acceptThread' = FALSE
  /\ main' = "joinIo"
  /\ UNCHANGED <<isRunning, acceptor, ioStopped, ioThread, loop, io, launches, dying,
                 terminated, conn>>

(* stop() ends, and returns to its caller, or to ~Impl. *)
JoinIo ==
  /\ At("joinIo")
  /\ ioThread => io = "finished"
  /\ ioThread' = FALSE
  /\ main' = IF dying THEN "destroy" ELSE "idle"
  /\ UNCHANGED <<isRunning, acceptor, ioStopped, acceptThread, loop, io, launches, dying,
                 terminated, conn>>

(* ~Server: ~Impl calls stop(), then the members are destroyed.            *)
Destroy ==
  /\ At("idle")
  /\ dying' = TRUE
  /\ isRunning' = FALSE
  /\ main' = IF isRunning THEN "close" ELSE "destroy"
  /\ UNCHANGED <<acceptor, ioStopped, threads, launches, terminated, conn>>

(* Destroying a std::thread that is joinable is std::terminate. *)
DestroyMembers ==
  /\ At("destroy")
  /\ terminated' = (acceptThread \/ ioThread)
  /\ acceptor' = "closed"
  /\ conn' = Reset(conn)
  /\ main' = "gone"
  /\ UNCHANGED <<isRunning, ioStopped, threads, launches, dying>>

-------------------------------------------------------------------------------
(* acceptLoop *)
LoopTo(place) ==
  /\ ~terminated
  /\ loop' = place
  /\ UNCHANGED <<isRunning, ioStopped, acceptThread, ioThread, io, main, launches, dying>>

TestRunning ==
  /\ loop = "check"
  /\ LoopTo(IF isRunning THEN "enter" ELSE "finished")
  /\ UNCHANGED <<acceptor, terminated, conn>>

(* accept() on a closed acceptor fails (bad_descriptor) and ends the loop. *)
EnterAccept ==
  /\ loop = "enter"
  /\ LoopTo(IF acceptor = "listening" THEN "blocked" ELSE "finished")
  /\ UNCHANGED <<acceptor, terminated, conn>>

(* The last accept on a socket closed meanwhile lets it go. *)
AcceptConnection(c) ==
  /\ loop = "blocked"
  /\ Listening
  /\ conn[c] = "queued"
  /\ LET accepted == [conn EXCEPT ![c] = "accepted"]
     IN  conn' = IF acceptor = "listening" THEN accepted ELSE Reset(accepted)
  /\ LoopTo("spawn")
  /\ UNCHANGED <<acceptor, terminated>>

AcceptAborted ==
  /\ loop = "blocked"
  /\ ~Listening
  /\ LoopTo("finished")
  /\ UNCHANGED <<acceptor, terminated, conn>>

(* accept() fails for another reason (no descriptor left, say): the loop   *)
(* ends although is_running_ is set.                                       *)
AcceptFails ==
  /\ "accept" \in Faults
  /\ loop = "blocked"
  /\ conn' = IF acceptor = "listening" THEN conn ELSE Reset(conn)
  /\ LoopTo("finished")
  /\ UNCHANGED <<acceptor, terminated>>

(* Mutant of Spawn: only one connection is accepted. *)
SpawnOnce(c) ==
  /\ loop = "spawn"
  /\ conn[c] = "accepted"
  /\ conn' = [conn EXCEPT ![c] = "serving"]
  /\ LoopTo("finished")
  /\ UNCHANGED <<acceptor, terminated>>

(* A detached thread runs handleConnection. *)
Spawn(c) ==
  /\ loop = "spawn"
  /\ conn[c] = "accepted"
  /\ conn' = [conn EXCEPT ![c] = "serving"]
  /\ LoopTo("check")
  /\ UNCHANGED <<acceptor, terminated>>

(* std::system_error leaves the thread function. *)
SpawnFails ==
  /\ "thread" \in Faults
  /\ loop = "spawn"
  /\ terminated' = TRUE
  /\ LoopTo("spawn")
  /\ UNCHANGED <<acceptor, conn>>

(* io_ctx_.run(): there is never any asynchronous work, so it stops the    *)
(* context and returns.                                                    *)
IoRun ==
  /\ ~terminated
  /\ io = "running"
  /\ io' = "finished"
  /\ ioStopped' = TRUE
  /\ UNCHANGED <<isRunning, acceptor, acceptThread, ioThread, loop, main, launches, dying,
                 terminated, conn>>

-------------------------------------------------------------------------------
ConnectionTo(c, from, to) ==
  /\ ~terminated
  /\ conn[c] = from
  /\ conn' = [conn EXCEPT ![c] = to]
  /\ UNCHANGED <<isRunning, acceptor, ioStopped, threads, main, launches, dying, terminated>>

(* The kernel completes the connection if somebody listens. *)
Connect(c) == ConnectionTo(c, "away", IF Listening THEN "queued" ELSE "refused")

(* The thread of c has read a request and uses dispatcher_ of Impl. *)
ReadRequest(c) == ConnectionTo(c, "serving", "dispatching")

WriteAnswer(c) == ConnectionTo(c, "dispatching", "serving")

(* The client is gone, or the answer cannot be serialized: the thread      *)
(* closes the socket and ends.                                             *)
EndConnection(c) ==
  ConnectionTo(c, "serving", "closed") \/ ConnectionTo(c, "dispatching", "closed")

-------------------------------------------------------------------------------
MainStep ==
  \/ LaunchAccept \/ LaunchIo
  \/ CloseAcceptor \/ StopIo \/ JoinAccept \/ JoinIo
  \/ DestroyMembers

LoopStep ==
  \/ TestRunning
  \/ EnterAccept
  \/ AcceptAborted
  \/ \E c \in Clients : AcceptConnection(c) \/ Spawn(c)

Fault == LaunchFails \/ AcceptFails \/ SpawnFails

ClientStep(c) == Connect(c) \/ ReadRequest(c) \/ WriteAnswer(c) \/ EndConnection(c)

Next ==
  \/ Start \/ Stop \/ Destroy
  \/ MainStep
  \/ LoopStep
  \/ IoRun
  \/ Fault
  \/ \E c \in Clients : ClientStep(c)

Spec == Init /\ [][Next]_vars

-------------------------------------------------------------------------------
FlagsOK ==
  /\ isRunning \in BOOLEAN /\ dying \in BOOLEAN /\ terminated \in BOOLEAN
  /\ ioStopped \in BOOLEAN /\ acceptThread \in BOOLEAN /\ ioThread \in BOOLEAN

TypeOK ==
  /\ FlagsOK
  /\ acceptor \in {"listening", "closed"}
  /\ loop \in {"none", "check", "enter", "blocked", "spawn", "finished"}
  /\ io \in {"none", "running", "finished"}
  /\ main \in {"idle", "launch", "launchIo", "close", "stopIo", "joinAccept", "joinIo",
               "destroy", "gone"}
  /\ launches \in 0 .. MaxLaunches
  /\ conn \in [Clients -> {"away", "queued", "refused", "accepted", "serving", "dispatching",
                           "closed"}]

(* Starting, stopping, restarting and destroying the server never assigns  *)
(* to or destroys a thread that was not joined, which would be             *)
(* std::terminate (server.cpp:35-52, 114-115).                             *)
NoTerminate == ~terminated

(* Once stop() has returned, no thread of the server is left but those of  *)
(* the connections it had accepted, even if start() had failed half-way    *)
(* (server.cpp:39-52).                                                     *)
StopLeavesNothing ==
  main \in {"idle", "destroy", "gone"} /\ ~isRunning =>
    /\ ~acceptThread /\ loop \in {"none", "finished"}
    /\ ~ioThread /\ io \in {"none", "finished"}

(* A server that was started and not stopped listens for connections, and  *)
(* its accept loop is there to take them (server.h:15-16).                 *)
RunningMeansListening ==
  main = "idle" /\ isRunning => acceptor = "listening" /\ loop \notin {"none", "finished"}

(* That holds until the server is stopped for the first time, whatever     *)
(* clients do (server.cpp:39-43, 54-67).                                   *)
FirstRunListens == launches = 1 => RunningMeansListening

(* No connection is accepted any more once stop() has returned, not even   *)
(* by an accept that was blocked when the acceptor was closed              *)
(* (server.cpp:48-50).                                                     *)
NoAcceptAfterStop ==
  [][\A c \in Clients :
       conn[c] = "queued" /\ conn'[c] = "accepted"
         => isRunning \/ main \in {"close", "stopIo", "joinAccept"}]_vars

(* No connection thread outlives the server it refers to ("clean           *)
(* shutdown", main.cpp:23).                                                *)
CleanShutdown == main = "gone" => \A c \in Clients : conn[c] \notin {"serving", "dispatching"}

(* stop() returns (server.h:16, server_integration_test.cpp:63), where     *)
(* closing the acceptor ends a blocked accept.                             *)
Stopping == {"close", "stopIo", "joinAccept", "joinIo"}
Outside  == {"idle", "destroy", "gone"}
StopReturns == main \in Stopping ~> main \in Outside

(* Where closing it does not, and whatever fails, an accept that nobody    *)
(* connects to is the one thing stop() may wait for: the next client ends  *)
(* it, an error of accept too (server.cpp:45-52).                          *)
StopWaitsOnlyForClient ==
  main \in Stopping ~>
    \/ main \in Outside
    \/ terminated
    \/ main = "joinAccept" /\ loop = "blocked" /\ \A c \in Clients : conn[c] # "queued"

(* Once stop() has returned no client is left in a backlog nobody empties, *)
(* even if the accept loop had ended long before on an error               *)
(* (server.cpp:48, 59-64).                                                 *)
NobodyLeftQueued ==
  main \in Outside /\ ~isRunning /\ launches > 0 => \A c \in Clients : conn[c] # "queued"

(* A client that is in the backlog of a running server gets a thread to    *)
(* serve it, or is refused because the server is stopped: it does not wait *)
(* forever (server.cpp:54-67).                                             *)
QueuedIsResolved ==
  \A c \in Clients :
    isRunning /\ conn[c] \in {"queued", "accepted"} ~> conn[c] \notin {"queued", "accepted"}
===============================================================================
