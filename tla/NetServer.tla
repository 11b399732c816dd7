----------------------------- MODULE NetServer -----------------------------
(* The loop that accepts connections for owserver and owhttpd, and how it    *)
(* stops (ow_net_server.c, ow_exec.c).  The main thread accepts and starts   *)
(* one handler thread per connection.  A signal makes select fail and ends   *)
(* the loop; the thread that watches the configuration file stops it from    *)
(* outside and runs the program anew.  Before it closes down the main thread *)
(* waits for a byte in shutdown_pipe from the last handler; a further signal *)
(* ends that wait.                                                           *)
(*                                                                           *)
(* shutdown_mutex_rw is held for reading by a main thread that is starting a *)
(* handler and by a handler that is counting itself off.  A reader waits     *)
(* only for a writer that has it, which is what pthread_rwlock does by       *)
(* default; a writer's section is one step.                                  *)
EXTENDS Integers, FiniteSets

CONSTANTS
    Conn,       \* accepted descriptors
    None

VARIABLES
    main,       \* where the main thread is in ServerProcess
    cur,        \* the connection ProcessListenSocket is busy with
    inline,     \* it runs ProcessAcceptSocket itself: pthread_create failed
    thread,     \* ProcessAcceptSocket, by connection
    open,       \* accepted descriptors not closed
    handler_thread_count,
    shutdown_in_progress,
    pipe,       \* bytes in shutdown_pipe
    pipe_ok,    \* pipe() went well
    interrupted, \* history: a signal has ended the wait for the pipe
    monitor,    \* the thread in StopProgram and RestartProgram
    up          \* the process runs this program

vars == <<main, cur, inline, thread, open, handler_thread_count,
          shutdown_in_progress, pipe, pipe_ok, interrupted, monitor, up>>

TypeOK ==
    /\ main \in {"listen", "accepted", "launched", "leaving", "waiting", "closing", "returned"}
    /\ cur \in Conn \cup {None} /\ (cur # None <=> main \in {"accepted", "launched"})
    /\ inline \in BOOLEAN
    /\ thread \in [Conn -> {"none", "started", "working", "closed", "counted"}]
    /\ open \subseteq Conn
    /\ handler_thread_count \in 0..Cardinality(Conn)
    /\ shutdown_in_progress \in BOOLEAN
    /\ pipe \in Nat /\ pipe_ok \in BOOLEAN /\ interrupted \in BOOLEAN
    /\ monitor \in {"watch", "stopped", "freed"}
    /\ up \in BOOLEAN

Init ==
    /\ main = "listen" /\ cur = None /\ inline = FALSE
    /\ thread = [c \in Conn |-> "none"] /\ open = {}
    /\ handler_thread_count = 0 /\ shutdown_in_progress = FALSE
    /\ pipe = 0 /\ pipe_ok \in BOOLEAN /\ interrupted = FALSE
    /\ monitor = "watch" /\ up = TRUE

\* Handlers that have not counted themselves off.
Running == {c \in Conn : thread[c] \in {"started", "working", "closed"}}

\* handler_thread_mutex is free, and so is shutdown_mutex_rw of readers.
MutexFree == \A c \in Conn : thread[c] # "counted"
NoReader == main # "launched" /\ MutexFree

-----------------------------------------------------------------------------
(* The main thread *)

\* ListenCycle, and ProcessListenSocket up to the lock.  (A connection that is
\* closed at once for want of memory leaves no trace here.)
Accept(c) ==
    /\ up /\ main = "listen" /\ monitor # "freed"
    /\ c \notin open /\ thread[c] = "none"
    /\ main' = "accepted" /\ cur' = c /\ open' = open \cup {c}
    /\ UNCHANGED <<inline, thread, handler_thread_count, shutdown_in_progress, pipe, pipe_ok, interrupted, monitor, up>>

\* Variant: shutdown_in_progress is not looked at again.
Launch_NoTest ==
    /\ up /\ main = "accepted" /\ MutexFree
    /\ main' = "launched" /\ thread' = [thread EXCEPT ![cur] = "started"]
    /\ handler_thread_count' = handler_thread_count + 1
    /\ inline' \in BOOLEAN
    /\ UNCHANGED <<cur, open, shutdown_in_progress, pipe, pipe_ok, interrupted, monitor, up>>

\* ProcessListenSocket under the read lock.  During a shutdown the connection
\* is dropped, and its descriptor stays open.
Launch ==
    /\ up /\ main = "accepted" /\ MutexFree
    /\ IF shutdown_in_progress
       THEN main' = "listen" /\ cur' = None /\ UNCHANGED <<inline, thread, handler_thread_count>>
       ELSE /\ main' = "launched" /\ thread' = [thread EXCEPT ![cur] = "started"]
            /\ handler_thread_count' = handler_thread_count + 1
            /\ inline' \in BOOLEAN /\ UNCHANGED cur
    /\ UNCHANGED <<open, shutdown_in_progress, pipe, pipe_ok, interrupted, monitor, up>>

\* It gives the read lock back, after the handler if it runs that itself.
Launched ==
    /\ up /\ main = "launched" /\ (inline => thread[cur] = "none")
    /\ main' = "listen" /\ cur' = None /\ inline' = FALSE
    /\ UNCHANGED <<thread, open, handler_thread_count, shutdown_in_progress, pipe, pipe_ok, interrupted, monitor, up>>

\* select fails: a signal, or there is no socket left.
ListenFails ==
    /\ up /\ main = "listen"
    /\ main' = "leaving"
    /\ UNCHANGED <<cur, inline, thread, open, handler_thread_count, shutdown_in_progress, pipe, pipe_ok, interrupted, monitor, up>>

\* Variant: a shutdown that is under way already is not waited for.
Shutdown_OnlyFirst ==
    /\ up /\ main = "leaving" /\ NoReader
    /\ shutdown_in_progress' = TRUE
    /\ main' = IF ~shutdown_in_progress /\ handler_thread_count > 0 /\ pipe_ok THEN "waiting" ELSE "closing"
    /\ UNCHANGED <<cur, inline, thread, open, handler_thread_count, pipe, pipe_ok, interrupted, monitor, up>>

\* ServerProcess under the write lock: is there a handler to wait for?
Shutdown ==
    /\ up /\ main = "leaving" /\ NoReader
    /\ shutdown_in_progress' = TRUE
    /\ main' = IF handler_thread_count > 0 /\ pipe_ok THEN "waiting" ELSE "closing"
    /\ UNCHANGED <<cur, inline, thread, open, handler_thread_count, pipe, pipe_ok, interrupted, monitor, up>>

\* read() of shutdown_pipe: there is a byte, ...
ReadPipe ==
    /\ up /\ main = "waiting" /\ pipe > 0
    /\ pipe' = pipe - 1 /\ main' = "closing"
    /\ UNCHANGED <<cur, inline, thread, open, handler_thread_count, shutdown_in_progress, pipe_ok, interrupted, monitor, up>>

\* ... or a signal interrupts it: the handlers of signals are installed without
\* SA_RESTART, and the result of read() is not looked at.
ReadInterrupted ==
    /\ up /\ main = "waiting"
    /\ main' = "closing" /\ interrupted' = TRUE
    /\ UNCHANGED <<cur, inline, thread, open, handler_thread_count, shutdown_in_progress, pipe, pipe_ok, monitor, up>>

\* The pipe is closed, and the locks are destroyed: while the last handler has
\* them still, that is undefined, and the process may end here.
Close ==
    /\ up /\ main = "closing"
    /\ main' = "returned" /\ pipe' = 0
    /\ up' \in IF MutexFree THEN {TRUE} ELSE BOOLEAN
    /\ UNCHANGED <<cur, inline, thread, open, handler_thread_count, shutdown_in_progress, pipe_ok, interrupted, monitor>>

\* ow_exit
Exit ==
    /\ up /\ main = "returned"
    /\ up' = FALSE
    /\ UNCHANGED <<main, cur, inline, thread, open, handler_thread_count, shutdown_in_progress, pipe, pipe_ok, interrupted, monitor>>

-----------------------------------------------------------------------------
(* A handler: ProcessAcceptSocket *)

\* asd->out is followed to the handler routine; if StopProgram has freed it,
\* that is undefined, and the process may end here.
Begin(c) ==
    /\ up /\ thread[c] = "started"
    /\ thread' = [thread EXCEPT ![c] = "working"]
    /\ up' \in IF monitor = "freed" THEN BOOLEAN ELSE {TRUE}
    /\ UNCHANGED <<main, cur, inline, open, handler_thread_count, shutdown_in_progress, pipe, pipe_ok, interrupted, monitor>>

\* Variant: the descriptor is left to the handler routine to close.
Done_NoClose(c) ==
    /\ up /\ thread[c] = "working"
    /\ thread' = [thread EXCEPT ![c] = "closed"]
    /\ UNCHANGED <<main, cur, inline, open, handler_thread_count, shutdown_in_progress, pipe, pipe_ok, interrupted, monitor, up>>

\* The handler routine ends and the descriptor is closed.
Done(c) ==
    /\ up /\ thread[c] = "working"
    /\ thread' = [thread EXCEPT ![c] = "closed"] /\ open' = open \ {c}
    /\ UNCHANGED <<main, cur, inline, handler_thread_count, shutdown_in_progress, pipe, pipe_ok, interrupted, monitor, up>>

\* Variant: the test comes before the decrement.
CountOff_TestFirst(c) ==
    /\ up /\ thread[c] = "closed" /\ MutexFree
    /\ thread' = [thread EXCEPT ![c] = "counted"]
    /\ handler_thread_count' = handler_thread_count - 1
    /\ pipe' = IF shutdown_in_progress /\ handler_thread_count = 0 /\ pipe_ok /\ main # "returned" THEN pipe + 1 ELSE pipe
    /\ up' \in IF main = "returned" THEN BOOLEAN ELSE {TRUE}
    /\ UNCHANGED <<main, cur, inline, open, shutdown_in_progress, pipe_ok, interrupted, monitor>>

\* Under both locks the handler counts itself off, and the last one says so,
\* as long as there is a pipe.  After ServerProcess has destroyed the locks that
\* is undefined, and the process may end here.
CountOff(c) ==
    /\ up /\ thread[c] = "closed" /\ MutexFree
    /\ thread' = [thread EXCEPT ![c] = "counted"]
    /\ handler_thread_count' = handler_thread_count - 1
    /\ pipe' = IF shutdown_in_progress /\ handler_thread_count' = 0 /\ pipe_ok /\ main # "returned" THEN pipe + 1 ELSE pipe
    /\ up' \in IF main = "returned" THEN BOOLEAN ELSE {TRUE}
    /\ UNCHANGED <<main, cur, inline, open, shutdown_in_progress, pipe_ok, interrupted, monitor>>

\* It gives the locks back and is gone.
Leave(c) ==
    /\ up /\ thread[c] = "counted"
    /\ thread' = [thread EXCEPT ![c] = "none"]
    /\ UNCHANGED <<main, cur, inline, open, handler_thread_count, shutdown_in_progress, pipe, pipe_ok, interrupted, monitor, up>>

-----------------------------------------------------------------------------
(* The configuration file has changed *)

\* The write lock of InterruptListening; afterwards shutdown_mutex_rw may be
\* one that ServerProcess has destroyed, and it is not waited for.
InterruptListening ==
    /\ up /\ monitor = "watch" /\ (main # "returned" => NoReader)
    /\ shutdown_in_progress' = TRUE /\ monitor' = "stopped"
    /\ UNCHANGED <<main, cur, inline, thread, open, handler_thread_count, pipe, pipe_ok, interrupted, up>>

\* StopProgram closes and frees what the main thread listens to, which may be
\* looking at it.
FreeOutAll ==
    /\ up /\ monitor = "stopped"
    /\ monitor' = "freed"
    /\ up' \in IF main = "listen" THEN BOOLEAN ELSE {TRUE}
    /\ UNCHANGED <<main, cur, inline, thread, open, handler_thread_count, shutdown_in_progress, pipe, pipe_ok, interrupted>>

\* RestartProgram: execvp, or exit if that fails.
Exec ==
    /\ up /\ monitor = "freed"
    /\ up' = FALSE
    /\ UNCHANGED <<main, cur, inline, thread, open, handler_thread_count, shutdown_in_progress, pipe, pipe_ok, interrupted, monitor>>

Ended == ~up /\ UNCHANGED vars

-----------------------------------------------------------------------------
Main == Launch \/ Launched \/ Shutdown \/ ReadPipe \/ Close \/ Exit
Handler(c) == Begin(c) \/ Done(c) \/ CountOff(c) \/ Leave(c)

Next ==
    \/ Main \/ ListenFails \/ ReadInterrupted \/ \E c \in Conn : Accept(c) \/ Handler(c)
    \/ InterruptListening \/ FreeOutAll \/ Exec \/ Ended

Spec == Init /\ [][Next]_vars

-----------------------------------------------------------------------------
(* Properties *)

\* When ServerProcess closes down, all handlers are complete: "Make sure all
\* the handler threads are complete before closing down", whoever set
\* shutdown_in_progress and whenever the last handler ended, as long as no
\* further signal ends the wait for them.
AllServed == pipe_ok /\ ~interrupted /\ main \in {"closing", "returned"} => Running = {}

\* The byte in the pipe is the last word: it comes once, and no handler is
\* running or started after it.
LastWord == pipe > 0 => pipe = 1 /\ shutdown_in_progress /\ Running = {}
=============================================================================
