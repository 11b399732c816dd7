------------------------------- MODULE Server -------------------------------
(* owserver as a whole: the accept loop and its shutdown (NetServer) with    *)
(* Handler as the routine that every handler thread runs.  A handler thread  *)
(* is in its routine while thread[c] = "working": the routine is entered     *)
(* when the thread begins, and the descriptor is closed when it has returned.*)
EXTENDS Handler

CONSTANT None

VARIABLES main, cur, inline, thread, open, handler_thread_count,
          shutdown_in_progress, pipe, pipe_ok, interrupted, monitor, up

Listener == INSTANCE NetServer

listener == <<main, cur, inline, thread, open, handler_thread_count,
              shutdown_in_progress, pipe, pipe_ok, interrupted, monitor, up>>
all == <<vars, listener>>

ServerInit == Init /\ Listener!Init

\* ProcessAcceptSocket calls the routine ...
BeginHandler(c) == Listener!Begin(c) /\ Enter(c)

\* ... and goes on when it has returned.
EndHandler(c) == at[c] = "none" /\ Listener!Done(c) /\ UNCHANGED vars

\* The routine works by itself, or on what its client sends.
Inside(c) == up /\ thread[c] = "working" /\ UNCHANGED listener
Routine(c) == Inside(c) /\ Server(c)
Chat(c) == Inside(c) /\ (Readable(c) \/ \E w \in BOOLEAN : ReadRequest(c, w))

\* Steps of the accept loop, of the shutdown and of the restart.
Loop == Listener!Main /\ UNCHANGED vars
CountOff(c) == (Listener!CountOff(c) \/ Listener!Leave(c)) /\ UNCHANGED vars
Outside ==
    /\ \/ Listener!ListenFails \/ Listener!ReadInterrupted \/ Listener!InterruptListening
       \/ Listener!FreeOutAll \/ Listener!Exec \/ Listener!Ended
       \/ \E c \in Conn : Listener!Accept(c)
    /\ UNCHANGED vars

Thread(c) == BeginHandler(c) \/ Routine(c) \/ EndHandler(c) \/ CountOff(c)

ServerNext == Loop \/ Outside \/ \E c \in Conn : Thread(c) \/ Chat(c)

\* Threads are scheduled, and a wait for the client ends when its time is up;
\* clients, signals and changes of the configuration need not come.
ServerSpec ==
    /\ ServerInit /\ [][ServerNext]_all
    /\ WF_all(Loop) /\ \A c \in Conn : WF_all(Thread(c))

-----------------------------------------------------------------------------
(* Properties *)

\* The clients fall silent in the end.
Silence == <>[][\A c \in Conn : ~Chat(c)]_all

\* When ServerProcess closes down, all handlers are complete: "Make sure all
\* the handler threads are complete before closing down", whoever set
\* shutdown_in_progress and whenever the last handler ended.  No connection is
\* in Handler any more, and every persistent slot has been given back.  (If a
\* further signal comes while the main thread waits for the pipe, it closes down
\* with handlers at work.)
AllServed ==
    /\ Listener!AllServed
    /\ pipe_ok /\ ~interrupted /\ main \in {"closing", "returned"} =>
           persistent_connections = 0 /\ \A c \in Conn : at[c] = "none"

\* The byte in the pipe is the last word: it comes once, and no handler is
\* running or started after it.
LastWord == Listener!LastWord

\* A main thread that has left its loop returns once the clients are silent: it
\* waits neither for a byte nobody writes nor for a connection kept open for
\* ever.  (A client that goes on asking on its persistent connection does keep
\* it waiting: Handler does not look at shutdown_in_progress.)
ShutsDown == Silence => (main = "leaving" ~> main = "returned" \/ ~up)

\* An accepted connection, also one whose thread could not be created, is closed
\* in the end and its slot for persistence is free again, unless the program is
\* closing down or its client goes on asking.  (No action tells connections
\* apart, so that one stands for all of them.)
Answered ==
    LET c == CHOOSE one \in Conn : TRUE
    IN  Silence => (c \in open ~> (c \notin open /\ ~persistent[c]) \/ shutdown_in_progress \/ ~up)
=============================================================================
