------------------------------ MODULE Serving ------------------------------
(***************************************************************************)
(* mem7 serve: the handlers of requests, the event streams of the clients   *)
(* that post to /messages, the calls posted to /rpc and /mcp, those a stdio *)
(* session forwards (runStdioProxy), and the shutdown                       *)
(* (internal/transport, cmd/mem7/main.go, cmd/mem7/proxy_stdio.go).         *)
(*                                                                         *)
(* Every handler is a goroutine.  A call does its work inside Store.mu; the *)
(* answer of a call posted to /messages goes into the queue of its stream,  *)
(* where the goroutine of the stream takes it from.                         *)
(***************************************************************************)
EXTENDS Integers, Sequences

CONSTANTS Streams,       \* event streams (sessions), each with its client
          Posted,        \* calls posted to /messages
          Of,            \* Of[c]: the stream whose client posts c
          Direct,        \* calls to /rpc and /mcp, answered on their own request
          Proxied,       \* those of Direct that one stdio session forwards
          Plain,         \* calls that do not enter the store: initialize, what is
                         \* refused or unreadable
          Nothing, Ping, \* no event; the comment that keeps a stream alive
          Capacity       \* of a stream's queue

Calls == Posted \cup Direct

ASSUME ServingAssumption ==
    /\ Of \in [Posted -> Streams]
    /\ Posted \cap Direct = {}
    /\ Proxied \subseteq Direct
    /\ Plain \subseteq Calls
    /\ Nothing \notin Calls /\ Ping \notin Calls /\ Nothing # Ping
    /\ Capacity \in Nat \ {0}

VARIABLES server,    \* "up", "draining", "exited"
          handler,   \* handler[c]: where the handler of c is
          proxy,     \* whether the stdio session's proxy runs
          session,   \* session[s]: "none", "open", "closing" (done is closed), "gone"
          client,    \* client[s]: "up", "stalled", "left"
          queue,     \* queue[s]: events
          writing,   \* writing[s]: what the goroutine of s is writing, or Nothing
          received   \* received[s]: the answers that reached the client

vars == <<server, handler, proxy, session, client, queue, writing, received>>

streamVars == <<session, client, queue, writing, received>>

TypeOK ==
    /\ server \in {"up", "draining", "exited"}
    /\ handler \in [Calls -> {"idle", "locking", "inside", "answering", "done", "refused"}]
    /\ proxy \in BOOLEAN
    /\ session \in [Streams -> {"none", "open", "closing", "gone"}]
    /\ client \in [Streams -> {"up", "stalled", "left"}]
    /\ queue \in [Streams -> Seq(Posted)]
    /\ writing \in [Streams -> Posted \cup {Nothing, Ping}]
    /\ received \in [Streams -> SUBSET Posted]

Init ==
    /\ server = "up"
    /\ handler = [c \in Calls |-> "idle"]
    /\ proxy = TRUE
    /\ session = [s \in Streams |-> "none"]
    /\ client = [s \in Streams |-> "up"]
    /\ queue = [s \in Streams |-> <<>>]
    /\ writing = [s \in Streams |-> Nothing]
    /\ received = [s \in Streams |-> {}]

Running == server # "exited"

Move(c, to) == handler' = [handler EXCEPT ![c] = to]

-----------------------------------------------------------------------------
(* Handlers: handleMessages, handleRPC, handleMCP.                          *)

Started(c) == IF c \in Plain THEN "answering" ELSE "locking"

\* A client may post after its stream is gone: the session is unknown then.
Post(c) ==
    /\ server = "up" /\ handler[c] = "idle" /\ c \in Posted
    /\ session[Of[c]] # "none"
    /\ Move(c, IF session[Of[c]] = "gone" THEN "refused" ELSE Started(c))
    /\ UNCHANGED <<server, proxy, streamVars>>

Under == {"locking", "inside", "answering"}

\* The proxy reads its next line once it has written the answer to the last.
Request(c) ==
    /\ server = "up" /\ handler[c] = "idle" /\ c \in Direct
    /\ c \in Proxied => proxy /\ \A d \in Proxied : handler[d] \notin Under
    /\ Move(c, Started(c))
    /\ UNCHANGED <<server, proxy, streamVars>>

\* The slip: the lock is kept until the answer is handed over.
MuFreeLate == \A c \in Calls \ Plain : handler[c] \notin {"inside", "answering"}

\* Store.mu is held by the call inside.
MuFree == \A c \in Calls : handler[c] # "inside"

Enter(c) ==
    /\ Running /\ handler[c] = "locking" /\ MuFree
    /\ Move(c, "inside")
    /\ UNCHANGED <<server, proxy, streamVars>>

\* The call does its work; the client's leaving does not stop it.
Leave(c) ==
    /\ Running /\ handler[c] = "inside"
    /\ Move(c, "answering")
    /\ UNCHANGED <<server, proxy, streamVars>>

Enqueued(s, c) == queue' = [queue EXCEPT ![s] = Append(@, c)]

\* The slip: what finds the queue full is dropped.
OfferOrDrop(s, c) == IF Len(queue[s]) < Capacity THEN Enqueued(s, c) ELSE UNCHANGED queue

Offer(s, c) == Len(queue[s]) < Capacity /\ Enqueued(s, c)

\* done is closed.
Done(s) == session[s] \in {"closing", "gone"}

\* sseRPCResult, sseRPCError: into the queue, or nowhere once done; then 202.
Answer(c) ==
    /\ Running /\ handler[c] = "answering" /\ c \in Posted
    /\ \/ Offer(Of[c], c)
       \/ Done(Of[c]) /\ UNCHANGED queue
    /\ Move(c, "done")
    /\ UNCHANGED <<server, proxy, session, client, writing, received>>

Reply(c) ==
    /\ Running /\ handler[c] = "answering" /\ c \in Direct
    /\ Move(c, "done")
    /\ UNCHANGED <<server, proxy, streamVars>>

\* The proxy waits 30 seconds for an answer; then, or when the server is gone,
\* it stops.  The handler goes on.
GiveUp(c) ==
    /\ c \in Proxied /\ proxy /\ handler[c] \in Under
    /\ proxy' = FALSE
    /\ UNCHANGED <<server, handler, streamVars>>

-----------------------------------------------------------------------------
(* Streams: handleSSE.                                                      *)

Open(s) ==
    /\ server = "up" /\ session[s] = "none"
    /\ session' = [session EXCEPT ![s] = "open"]
    /\ UNCHANGED <<server, handler, proxy, client, queue, writing, received>>

AtSelect(s) == Running /\ session[s] = "open" /\ writing[s] = Nothing

TakeEvent(s) ==
    /\ AtSelect(s) /\ queue[s] # <<>>
    /\ writing' = [writing EXCEPT ![s] = Head(queue[s])]
    /\ queue' = [queue EXCEPT ![s] = Tail(@)]
    /\ UNCHANGED <<server, handler, proxy, session, client, received>>

\* Every 30 seconds; where several cases are ready the others come first.
KeepAlive(s) ==
    /\ AtSelect(s) /\ queue[s] = <<>> /\ client[s] # "left"
    /\ writing' = [writing EXCEPT ![s] = Ping]
    /\ UNCHANGED <<server, handler, proxy, session, client, queue, received>>

\* The slip: the comment is taken for an answer.
DeliveredPing(s) ==
    IF client[s] = "up" THEN received[s] \cup {writing[s]} ELSE received[s]

\* What reached the client once the write is done.
Delivered(s) ==
    IF client[s] = "up" THEN received[s] \cup ({writing[s]} \ {Ping}) ELSE received[s]

\* A write waits for a client that stalls; to one that left it is lost.
Written(s) ==
    /\ Running /\ session[s] = "open" /\ writing[s] # Nothing /\ client[s] # "stalled"
    /\ received' = [received EXCEPT ![s] = Delivered(s)]
    /\ writing' = [writing EXCEPT ![s] = Nothing]
    /\ UNCHANGED <<server, handler, proxy, session, client, queue>>

\* The context of the request is done: done is closed, then the session is
\* forgotten.
Close(s) ==
    /\ AtSelect(s) /\ client[s] = "left"
    /\ session' = [session EXCEPT ![s] = "closing"]
    /\ UNCHANGED <<server, handler, proxy, client, queue, writing, received>>

Remove(s) ==
    /\ Running /\ session[s] = "closing"
    /\ session' = [session EXCEPT ![s] = "gone"]
    /\ UNCHANGED <<server, handler, proxy, client, queue, writing, received>>

-----------------------------------------------------------------------------
(* Clients of streams.                                                      *)

Client(s, from, to) ==
    /\ session[s] = "open" /\ client[s] \in from
    /\ client' = [client EXCEPT ![s] = to]
    /\ UNCHANGED <<server, handler, proxy, session, queue, writing, received>>

Stall(s) == Client(s, {"up"}, "stalled")
Resume(s) == Client(s, {"stalled"}, "up")
HangUp(s) == Client(s, {"up", "stalled"}, "left")

-----------------------------------------------------------------------------
(* Shutdown: srv.Shutdown waits for every handler, those of streams too,    *)
(* five seconds at most; then the store is closed and the process exits.    *)

Shutdown ==
    /\ server = "up"
    /\ server' = "draining"
    /\ UNCHANGED <<handler, proxy, streamVars>>

\* The wait is over, or nothing is left to wait for.  What the process kept is
\* gone with it, connections and calls included.
Exit ==
    /\ server = "draining"
    /\ server' = "exited"
    /\ handler' = [c \in Calls |-> "idle"]
    /\ proxy' = (proxy /\ \A c \in Proxied : handler[c] \notin Under)
    /\ session' = [s \in Streams |-> "gone"]
    /\ queue' = [s \in Streams |-> <<>>]
    /\ writing' = [s \in Streams |-> Nothing]
    /\ UNCHANGED <<client, received>>

-----------------------------------------------------------------------------

Next ==
    \/ \E c \in Calls :
          \/ Post(c) \/ Request(c) \/ Enter(c) \/ Leave(c)
          \/ Answer(c) \/ Reply(c) \/ GiveUp(c)
    \/ \E s \in Streams :
          \/ Open(s) \/ TakeEvent(s) \/ KeepAlive(s) \/ Written(s) \/ Close(s) \/ Remove(s)
          \/ Stall(s) \/ Resume(s) \/ HangUp(s)
    \/ Shutdown \/ Exit

Handle(c) == Enter(c) \/ Leave(c) \/ Answer(c) \/ Reply(c)

Loop(s) == TakeEvent(s) \/ Written(s) \/ Close(s) \/ Remove(s)

\* A goroutine that can go on again and again does: the lock goes to every
\* waiter, a send to every sender, and what is inside the store ends (the
\* services it asks are given timeouts).  The shutdown's clock runs.
Fairness ==
    /\ \A c \in Calls : SF_vars(Handle(c))
    /\ \A s \in Streams : SF_vars(Loop(s))
    /\ WF_vars(Exit)

Spec == Init /\ [][Next]_vars /\ Fairness

-----------------------------------------------------------------------------
(* Properties.                                                              *)

Ended(c) == handler[c] \in {"done", "refused"}

Absent(q, c) == \A i \in DOMAIN q : q[i] # c

Once(q, c) == \E i \in DOMAIN q : q[i] = c /\ \A j \in DOMAIN q : q[j] = c => j = i

\* A call acknowledged with 202 has its answer in exactly one place, the queue,
\* the goroutine's hands or the client's, as long as the client stays.
AcceptedAnswered ==
    \A c \in Posted :
        LET s == Of[c]
        IN  handler[c] = "done" /\ client[s] # "left" =>
                \/ Absent(queue[s], c) /\ (writing[s] = c) # (c \in received[s])
                \/ Once(queue[s], c) /\ writing[s] # c /\ c \notin received[s]

\* A client that does not read keeps nobody else waiting: every call to /rpc
\* and /mcp is answered; a call of a client that reads again and again has its
\* answer reach it or, when the client hung up, its handler ends, full queue or
\* not, and the session is forgotten; and the process ends once told, although
\* an open stream never does.
Served ==
    /\ \A c \in Direct : handler[c] \in Under ~> Ended(c) \/ ~Running
    /\ \A c \in Posted :
          []<>(client[Of[c]] # "stalled") =>
             (handler[c] \in Under ~>
                c \in received[Of[c]] \/ (Ended(c) /\ session[Of[c]] = "gone") \/ ~Running)
    /\ server = "draining" ~> ~Running
=============================================================================
