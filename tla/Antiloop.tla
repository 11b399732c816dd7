------------------------------ MODULE Antiloop ------------------------------
(***************************************************************************)
(* owservers that are clients of one another.  Every server has a unique   *)
(* token and adds it to each request it passes on (WriteToServer); a       *)
(* server that finds its own token in a request refuses it (FromClient).   *)
(* The model follows one request along one chain of servers.               *)
(*                                                                         *)
(* FromClient terminates the path of everything but a write with           *)
(* msg[payload] = '\0'.  The tokens start at msg[payload]: the first byte  *)
(* of the first token is lost, unless it was 0 anyway.                     *)
(*                                                                         *)
(* DataHandler parses the path of a request before it attaches the tokens  *)
(* that came with it.  To parse the path of a device means to look for it, *)
(* and the presence request that this sends to the next server starts a    *)
(* token list of its own.                                                  *)
(***************************************************************************)
EXTENDS Naturals, Sequences, FiniteSets

CONSTANTS Server,      \* owservers
          Mangled,     \* a token whose first byte has been overwritten
          ZeroFirst,   \* servers whose token starts with a zero byte
          MaxChain     \* bound on the chains that presence requests prolong

ASSUME ServerAssumption == IsFiniteSet(Server) /\ Mangled \notin Server
ASSUME ZeroFirstAssumption == ZeroFirst \subseteq Server

VARIABLES
    tokens,  \* token list of the message, oldest first
    chain,   \* history: servers that have accepted the request, or a presence
             \* request made for it, in order
    start,   \* history: the place in the chain before the first one in tokens
    type,    \* sm.type: "write", "presence", "other" (read, dir)
    state    \* "sent" to server to, "accepted" by it, "refused"
VARIABLE to  \* the server the message is at

avars == <<tokens, chain, start, type, state, to>>

Types == {"write", "presence", "other"}

ATypeOK ==
    /\ tokens \in Seq(Server \cup {Mangled})
    /\ chain \in Seq(Server) /\ start \in Nat
    /\ type \in Types
    /\ state \in {"sent", "accepted", "refused"}
    /\ to \in Server
    /\ Len(chain) = start + Len(tokens) + (IF state = "accepted" THEN 1 ELSE 0)

\* A program that is not a server sends a request, without tokens.
AInit ==
    /\ tokens = <<>> /\ chain = <<>> /\ start = 0
    /\ type \in Types /\ state = "sent" /\ to \in Server

Mangle(ts) ==
    IF ts = <<>> \/ ts[1] \in ZeroFirst THEN ts ELSE [ts EXCEPT ![1] = Mangled]

\* The tokens as FromClient compares them and hands them on.
Received(ts, t) == IF t = "write" THEN ts ELSE Mangle(ts)

\* Variant: the last token is not compared.
Carries_OffByOne(ts, s) == \E i \in 1..(Len(ts) - 1) : ts[i] = s

Carries(ts, s) == \E i \in 1..Len(ts) : ts[i] = s

\* FromClient: the request is refused if it bears this server's token.
FromClient ==
    /\ state = "sent"
    /\ LET ts == Received(tokens, type) IN
        /\ tokens' = ts
        /\ \/ ~Carries(ts, to) /\ state' = "accepted" /\ chain' = Append(chain, to)
           \/ Carries(ts, to) /\ state' = "refused" /\ UNCHANGED chain
    /\ UNCHANGED <<start, type, to>>

\* The path is parsed, and a presence request sent for it, before the tokens
\* of the request are attached: it bears only our own.
ParsePresence(next) ==
    /\ state = "accepted" /\ Len(chain) < MaxChain
    /\ tokens' = <<to>> /\ start' = Len(chain) - 1
    /\ type' = "presence" /\ state' = "sent" /\ to' = next
    /\ UNCHANGED chain

\* WriteToServer: prior tokens, then our own; any server may be a client of
\* any other, or of itself.  The request goes on as it is, or a device that
\* was not found is looked for again.  A presence request has been answered
\* once its path is parsed.
WriteToServer(next) ==
    /\ state = "accepted" /\ type # "presence"
    /\ tokens' = Append(tokens, to)
    /\ type' \in {type, "presence"} /\ state' = "sent" /\ to' = next
    /\ UNCHANGED <<chain, start>>

\* A program asks again once the request is refused or goes no further.
NewRequest(first) ==
    /\ state \in {"refused", "accepted"}
    /\ tokens' = <<>> /\ chain' = <<>> /\ start' = 0
    /\ type' \in Types /\ state' = "sent" /\ to' = first

Forward == FromClient \/ \E s \in Server : ParsePresence(s) \/ WriteToServer(s)

ANext == Forward \/ \E s \in Server : NewRequest(s)

ASpec == AInit /\ [][ANext]_avars

-----------------------------------------------------------------------------
(* Properties *)

\* Of the servers whose tokens a request should bear, none but the first
\* accepts it twice: their tokens are never the first of the list.  So a
\* request that is passed on visits its first server at most twice and every
\* other one at most once, however the servers are connected.  It does not
\* bound the presence requests made on the way: each starts a list of its own.
NoLoopBehindFirst ==
    \A i, j \in (start + 2)..Len(chain) : chain[i] = chain[j] => i = j

\* "make sure no loop": no server accepts a request that it has passed on.
NoLoop == \A i, j \in 1..Len(chain) : chain[i] = chain[j] => i = j
=============================================================================
