------------------------------ MODULE PingLoop ------------------------------
(***************************************************************************)
(* owserver's handling of one request after another on one connection:     *)
(* SingleHandler and PingLoop (handler.c, loop.c) in the connection's      *)
(* thread, and DataHandler (data.c, dir.c) in a thread of its own.  Both   *)
(* write to the client's socket.  The connection's thread sends delay      *)
(* messages while the data thread is busy with the 1-wire bus; the data    *)
(* thread tells it through a pipe that the answer has been sent.           *)
(***************************************************************************)
EXTENDS Naturals, Sequences

CONSTANTS MaxPings,     \* bound on the delay messages of one request
          MaxEntries    \* bound on the elements of one directory

ASSUME PingsAssumption == MaxPings \in Nat /\ MaxEntries \in Nat

VARIABLES
    loop,      \* where the connection's thread is
    data,      \* where DataHandler is
    inline,    \* DataHandler runs in the connection's thread
    dir,       \* the request is msg_dir
    toclient,  \* hd->toclient
    current,   \* current_toclient, the loop's own view
    selected,  \* what select returned
    pipe,      \* bytes in hd->ping_pipe
    mutex,     \* holder of hd->to_client
    wire,      \* what has been written to the socket for this request
    sent       \* history: the data thread wrote since the last select began

pvars == <<loop, data, inline, dir, toclient, current, selected, pipe, mutex, wire, sent>>

Sent(m) == Len(SelectSeq(wire, LAMBDA x : x = m))

PTypeOK ==
    /\ loop \in {"start", "select", "returned", "locked", "join", "done", "failed"}
    /\ data \in {"none", "work", "element", "final", "ended"}
    /\ inline \in BOOLEAN /\ dir \in BOOLEAN /\ sent \in BOOLEAN
    /\ toclient \in {"postping", "postmessage", "complete"}
    /\ current \in {"postping", "postmessage", "complete"}
    /\ selected \in {"ready", "timeout", "error"}
    /\ pipe \in 0..1
    /\ mutex \in {"free", "loop", "data"}
    /\ wire \in Seq({"ping", "element", "final"})

PInit ==
    /\ loop = "start" /\ data = "none" /\ inline = FALSE
    /\ dir \in BOOLEAN
    /\ toclient = "postping" /\ current = "postping"
    /\ selected = "timeout" /\ pipe = 0
    /\ mutex = "free" /\ wire = <<>> /\ sent = FALSE

-----------------------------------------------------------------------------
(* The connection's thread *)

\* Variant: LoopSetup leaves hd->toclient as the last request left it.
StartRequest_Stale(crazy, noThread) ==
    /\ loop = "start"
    /\ wire' = IF crazy THEN Append(wire, "ping") ELSE wire
    /\ current' = "postping" /\ pipe' = 0
    /\ data' = "work" /\ inline' = noThread
    /\ loop' = IF noThread THEN "join" ELSE "select"
    /\ sent' = FALSE
    /\ UNCHANGED <<dir, selected, mutex, toclient>>

\* SingleHandler's extra ping (pingcrazy) and LoopSetup; DataHandler gets a
\* thread, or runs here without pings when no thread can be created.
\* hd is reused from request to request, so LoopSetup resets hd->toclient.
StartRequest(crazy, noThread) ==
    /\ loop = "start"
    /\ wire' = IF crazy THEN Append(wire, "ping") ELSE wire
    /\ toclient' = "postping" /\ current' = "postping" /\ pipe' = 0
    /\ data' = "work" /\ inline' = noThread
    /\ loop' = IF noThread THEN "join" ELSE "select"
    /\ sent' = FALSE
    /\ UNCHANGED <<dir, selected, mutex>>

\* LoopSetup could not make the pipe: the request is dropped unanswered.
SetupFails(crazy) ==
    /\ loop = "start"
    /\ wire' = IF crazy THEN Append(wire, "ping") ELSE wire
    /\ loop' = "failed"
    /\ UNCHANGED <<data, inline, dir, toclient, current, selected, pipe, mutex, sent>>

\* select on the pipe: the data thread has signalled, half a second or a
\* second has passed, or the call was interrupted.
Select(result) ==
    /\ loop = "select"
    /\ result = "ready" => pipe > 0
    /\ result = "timeout" => pipe = 0
    /\ result # "ready" => Sent("ping") < MaxPings
    /\ selected' = result
    /\ loop' = "returned"
    /\ UNCHANGED <<data, inline, dir, toclient, current, pipe, mutex, wire, sent>>

\* Variant: the ping decision is taken without TOCLIENTLOCK.
LoopLock_NoLock ==
    /\ loop = "returned"
    /\ loop' = "locked"
    /\ current' = IF selected = "ready" THEN "complete" ELSE toclient
    /\ UNCHANGED <<data, inline, dir, toclient, selected, pipe, mutex, wire, sent>>

\* TOCLIENTLOCK; next_toclient = hd->toclient
LoopLock ==
    /\ loop = "returned" /\ mutex = "free"
    /\ mutex' = "loop" /\ loop' = "locked"
    /\ current' = IF selected = "ready" THEN "complete" ELSE toclient
    /\ UNCHANGED <<data, inline, dir, toclient, selected, pipe, wire, sent>>

\* Variant: the loop does not stop at toclient_complete.
PingOrSend_Spins ==
    /\ loop = "locked" /\ loop' = "select"
    /\ mutex' = "free" /\ sent' = FALSE
    /\ wire' = IF current = "complete" THEN wire ELSE Append(wire, "ping")
    /\ UNCHANGED <<data, inline, dir, toclient, current, selected, pipe>>

\* Ping, forestall the ping, or notice that the answer is out; TOCLIENTUNLOCK.
PingOrSend ==
    /\ loop = "locked"
    /\ mutex' = "free" /\ sent' = FALSE
    /\ loop' = IF current = "complete" THEN "join" ELSE "select"
    /\ \/ /\ current = "complete"
          /\ UNCHANGED <<toclient, current, wire>>
       \/ /\ current = "postmessage" /\ selected = "timeout"
          /\ toclient' = "postping"
          /\ UNCHANGED <<current, wire>>
       \/ /\ current # "complete"
          /\ current = "postmessage" => selected = "error"
          /\ wire' = Append(wire, "ping")
          /\ toclient' = "postping" /\ current' = "postping"
    /\ UNCHANGED <<data, inline, dir, selected, pipe>>

\* pthread_join, LoopCleanup, and the path of the request is freed.
Join ==
    /\ loop = "join" /\ data = "ended"
    /\ loop' = "done" /\ data' = "none" /\ pipe' = 0
    /\ UNCHANGED <<inline, dir, toclient, current, selected, mutex, wire, sent>>

\* Handler reads the client's next request on a persistent connection; a
\* client left without an answer times out, closes and connects again.
NextRequest ==
    /\ loop \in {"done", "failed"}
    /\ loop' = "start" /\ wire' = <<>> /\ dir' \in BOOLEAN
    /\ UNCHANGED <<data, inline, toclient, current, selected, pipe, mutex, sent>>

-----------------------------------------------------------------------------
(* DataHandler *)

\* DirHandlerCallback: TOCLIENTLOCK and ToClient for one directory element.
ElementToClient ==
    /\ data = "work" /\ dir /\ mutex = "free" /\ Sent("element") < MaxEntries
    /\ mutex' = "data" /\ data' = "element"
    /\ wire' = Append(wire, "element") /\ sent' = TRUE
    /\ UNCHANGED <<loop, inline, dir, toclient, current, selected, pipe>>

\* Variant: an element does not reset the ping state.
ElementDone_NoMark ==
    /\ data = "element"
    /\ mutex' = "free" /\ data' = "work"
    /\ UNCHANGED <<loop, inline, dir, toclient, current, selected, pipe, wire, sent>>

\* ... then hd->toclient = toclient_postmessage and TOCLIENTUNLOCK.
ElementDone ==
    /\ data = "element"
    /\ toclient' = "postmessage"
    /\ mutex' = "free" /\ data' = "work"
    /\ UNCHANGED <<loop, inline, dir, current, selected, pipe, wire, sent>>

\* TOCLIENTLOCK and the final ToClient or ErrorToClient, whatever the
\* request was and however it went.
FinalToClient ==
    /\ data = "work" /\ mutex = "free"
    /\ mutex' = "data" /\ data' = "final"
    /\ wire' = Append(wire, "final") /\ sent' = TRUE
    /\ UNCHANGED <<loop, inline, dir, toclient, current, selected, pipe>>

\* ... then toclient_complete, the byte in the pipe and TOCLIENTUNLOCK.
SignalDone ==
    /\ data = "final"
    /\ toclient' = "complete" /\ pipe' = pipe + 1
    /\ mutex' = "free" /\ data' = "ended"
    /\ UNCHANGED <<loop, inline, dir, current, selected, wire, sent>>

-----------------------------------------------------------------------------
LoopStep ==
    \/ \E crazy, noThread \in BOOLEAN : StartRequest(crazy, noThread)
    \/ \E crazy \in BOOLEAN : SetupFails(crazy)
    \/ \E result \in {"ready", "timeout", "error"} : Select(result)
    \/ LoopLock \/ PingOrSend \/ Join

DataStep == ElementToClient \/ ElementDone \/ FinalToClient \/ SignalDone

PNext == LoopStep \/ DataStep \/ NextRequest

PSpec == PInit /\ [][PNext]_pvars

\* Both threads keep running, and the 1-wire work of a request ends.
PFairSpec == PSpec /\ WF_pvars(LoopStep) /\ WF_pvars(DataStep)

-----------------------------------------------------------------------------
(* Properties *)

R == INSTANCE Reply WITH failed <- (loop = "failed")

\* The two threads together send what Reply allows: no delay message or
\* directory element follows the final message of a request, no request gets
\* two final messages, and no bytes of one answer are left for the next.
ImplementsReply == R!Spec

\* The connection's thread stops sending keep-alives for a request only when
\* the final message of that very request is on the wire, and it is the only
\* one.
PingsUntilAnswered ==
    \/ loop = "locked" /\ current = "complete"
    \/ loop = "join" /\ ~inline
    => \E i \in 1..Len(wire) : \A j \in 1..Len(wire) : wire[j] = "final" <=> j = i

\* A delay message after a timeout means that the client heard nothing for
\* the whole interval: an element sent meanwhile forestalls the ping.
PingMeansQuiet ==
    [][loop = "locked" /\ selected = "timeout" /\ wire' # wire => ~sent]_pvars

\* Every request is answered and the connection's thread becomes free again.
EveryRequestEnds == loop = "select" ~> loop = "done"
=============================================================================
