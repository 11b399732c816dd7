------------------------------- MODULE Reply -------------------------------
(***************************************************************************)
(* What owserver promises the client about the answer to one request: any  *)
(* number of delay messages (payload -1) and, for a directory request,     *)
(* directory elements, then one final message, then nothing more until the *)
(* client's next request on the same connection.  A server short of pipes  *)
(* may give up before its first element; the client then gets no answer.   *)
(***************************************************************************)
EXTENDS Naturals, Sequences

VARIABLES wire,   \* messages sent to the client for the current request
          dir,    \* is the current request a one-at-a-time directory (msg_dir)?
          failed  \* the server has given up on the request

Message == {"ping", "element", "final"}

Answered == wire # <<>> /\ wire[Len(wire)] = "final"

Init == wire = <<>> /\ dir \in BOOLEAN /\ failed = FALSE

Send(m) ==
    /\ ~Answered /\ ~failed
    /\ m = "element" => dir
    /\ wire' = Append(wire, m)
    /\ UNCHANGED <<dir, failed>>

GiveUp ==
    /\ ~Answered /\ ~failed /\ \A i \in 1..Len(wire) : wire[i] = "ping"
    /\ wire' \in {wire, Append(wire, "ping")} /\ failed' = TRUE
    /\ UNCHANGED dir

\* The client has read the whole answer and asks again, or connects anew.
NextRequest ==
    /\ Answered \/ failed
    /\ wire' = <<>> /\ dir' \in BOOLEAN /\ failed' = FALSE

Next == (\E m \in Message : Send(m)) \/ GiveUp \/ NextRequest

Spec == Init /\ [][Next]_<<wire, dir, failed>>
=============================================================================
