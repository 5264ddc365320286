---------------------------- MODULE ServingProofs ----------------------------
(***************************************************************************)
(* Whatever the streams, the calls and the capacity of the queues: the     *)
(* state keeps its type, and an accepted answer is in one place.           *)
(***************************************************************************)
EXTENDS Serving, TLAPS

-----------------------------------------------------------------------------
(* Answers in a queue.                                                      *)

\* A queue that gets one more event.
LEMMA AppendAnswer ==
    ASSUME NEW S, NEW q \in Seq(S), NEW d \in S, NEW c
    PROVE  /\ Append(q, d) \in Seq(S)
           /\ c = d /\ Absent(q, c) => Once(Append(q, d), c)
           /\ c # d /\ Absent(q, c) => Absent(Append(q, d), c)
           /\ c # d /\ Once(q, c) => Once(Append(q, d), c)
<1>1. /\ Append(q, d) \in Seq(S)
      /\ DOMAIN q = 1..Len(q) /\ DOMAIN Append(q, d) = 1..(Len(q) + 1)
      /\ Len(q) \in Nat
      /\ \A i \in 1..Len(q) : Append(q, d)[i] = q[i]
      /\ Append(q, d)[Len(q) + 1] = d
  OBVIOUS
<1>2. ASSUME c = d, Absent(q, c)
      PROVE  Once(Append(q, d), c)
  <2> DEFINE last == Len(q) + 1
  <2>1. \A j \in DOMAIN Append(q, d) : Append(q, d)[j] = c => j = last
    BY <1>1, <1>2 DEF Absent
  <2>2. last \in DOMAIN Append(q, d) /\ Append(q, d)[last] = c
    BY <1>1, <1>2
  <2> QED
    BY <2>1, <2>2 DEF Once
<1>3. c # d /\ Absent(q, c) => Absent(Append(q, d), c)
  BY <1>1 DEF Absent
<1>4. ASSUME c # d, Once(q, c)
      PROVE  Once(Append(q, d), c)
  <2>1. PICK i \in DOMAIN q : q[i] = c /\ \A j \in DOMAIN q : q[j] = c => j = i
    BY <1>4 DEF Once
  <2>2. i \in DOMAIN Append(q, d) /\ Append(q, d)[i] = c
    BY <1>1, <2>1
  <2>3. \A j \in DOMAIN Append(q, d) : Append(q, d)[j] = c => j = i
    BY <1>1, <1>4, <2>1
  <2> QED
    BY <2>2, <2>3 DEF Once
<1> QED
  BY <1>1, <1>2, <1>3, <1>4

\* A queue whose first event is taken.
LEMMA TakeAnswer ==
    ASSUME NEW S, NEW q \in Seq(S), q # <<>>, NEW c
    PROVE  /\ Head(q) \in S /\ Tail(q) \in Seq(S)
           /\ Absent(q, c) => Absent(Tail(q), c) /\ Head(q) # c
           /\ Head(q) = c /\ Once(q, c) => Absent(Tail(q), c)
           /\ Head(q) # c /\ Once(q, c) => Once(Tail(q), c)
<1>1. /\ Head(q) \in S /\ Tail(q) \in Seq(S)
      /\ Len(q) \in Nat \ {0} /\ DOMAIN q = 1..Len(q)
      /\ DOMAIN Tail(q) = 1..(Len(q) - 1)
      /\ Head(q) = q[1]
      /\ \A i \in 1..(Len(q) - 1) : Tail(q)[i] = q[i + 1]
  OBVIOUS
<1>2. Absent(q, c) => Absent(Tail(q), c) /\ Head(q) # c
  BY <1>1 DEF Absent
<1>3. Head(q) = c /\ Once(q, c) => Absent(Tail(q), c)
  BY <1>1 DEF Absent, Once
<1>4. ASSUME Head(q) # c, Once(q, c)
      PROVE  Once(Tail(q), c)
  <2>1. PICK i \in DOMAIN q : q[i] = c /\ \A j \in DOMAIN q : q[j] = c => j = i
    BY <1>4 DEF Once
  <2>2. i # 1 /\ i - 1 \in DOMAIN Tail(q) /\ Tail(q)[i - 1] = c
    BY <1>1, <1>4, <2>1
  <2>3. \A j \in DOMAIN Tail(q) : Tail(q)[j] = c => j = i - 1
    BY <1>1, <2>1
  <2> QED
    BY <2>2, <2>3 DEF Once
<1> QED
  BY <1>1, <1>2, <1>3, <1>4

-----------------------------------------------------------------------------
(* The inductive invariant.                                                 *)

\* While the server runs, the answer of a call that has not ended is nowhere
\* yet.
NotBefore ==
    Running => \A c \in Posted : handler[c] # "done" =>
        /\ Absent(queue[Of[c]], c)
        /\ writing[Of[c]] # c
        /\ c \notin received[Of[c]]

\* While the server runs, only the client's leaving closes a stream, and only
\* the client of a stream that was opened has posted.
StreamsFollow ==
    Running =>
        /\ \A s \in Streams : session[s] \in {"closing", "gone"} => client[s] = "left"
        /\ \A c \in Posted : handler[c] # "idle" => session[Of[c]] # "none"

\* Nothing goes on after the exit.
Over == ~Running => \A c \in Calls : handler[c] = "idle"

IInv == TypeOK /\ NotBefore /\ StreamsFollow /\ Over /\ AcceptedAnswered

\* IInv holds at the start.
LEMMA InitIInv == Init => IInv
<1> SUFFICES ASSUME Init
             PROVE  IInv
  OBVIOUS
<1> USE ServingAssumption
<1>1. TypeOK
  <2>1. <<>> \in Seq(Posted)
    OBVIOUS
  <2>2. queue \in [Streams -> Seq(Posted)]
    BY <2>1 DEF Init
  <2>3. handler \in [Calls -> {"idle", "locking", "inside", "answering", "done", "refused"}]
    BY DEF Init
  <2>4. /\ session \in [Streams -> {"none", "open", "closing", "gone"}]
        /\ client \in [Streams -> {"up", "stalled", "left"}]
        /\ writing \in [Streams -> Posted \cup {Nothing, Ping}]
        /\ received \in [Streams -> SUBSET Posted]
    BY DEF Init
  <2> QED
    BY <2>2, <2>3, <2>4 DEF Init, TypeOK
<1>2. NotBefore
  <2> SUFFICES ASSUME NEW c \in Posted
               PROVE  Absent(queue[Of[c]], c) /\ writing[Of[c]] # c /\ c \notin received[Of[c]]
    BY DEF NotBefore
  <2>1. Of[c] \in Streams /\ c # Nothing
    BY DEF Calls
  <2>2. queue[Of[c]] = <<>> /\ writing[Of[c]] = Nothing /\ received[Of[c]] = {}
    BY <2>1 DEF Init
  <2>3. Absent(<<>>, c)
    BY DEF Absent
  <2> QED
    BY <2>1, <2>2, <2>3
<1>3. StreamsFollow /\ Over /\ AcceptedAnswered
  BY DEF Init, StreamsFollow, Over, Running, AcceptedAnswered, Calls
<1> QED
  BY <1>1, <1>2, <1>3 DEF IInv

-----------------------------------------------------------------------------
(* The steps.                                                               *)

\* A handler starts or moves on, and touches no stream.
LEMMA HandlerStep ==
    ASSUME IInv, NEW c \in Calls, NEW to \in {"locking", "inside", "answering", "refused"},
           Running, handler[c] # "done", Move(c, to),
           c \in Posted => session[Of[c]] # "none",
           UNCHANGED <<server, proxy, streamVars>>
    PROVE  IInv'
<1> USE ServingAssumption
<1>1. /\ handler' = [handler EXCEPT ![c] = to]
      /\ handler \in [Calls -> {"idle", "locking", "inside", "answering", "done", "refused"}]
      /\ session' = session /\ client' = client /\ queue' = queue
      /\ writing' = writing /\ received' = received /\ server' = server
  BY DEF Move, streamVars, IInv, TypeOK
<1>2. TypeOK'
  BY <1>1 DEF IInv, TypeOK
<1>3. \A d \in Calls : (handler'[d] = "done") <=> (handler[d] = "done")
  BY <1>1
<1>4. \A d \in Posted : d \in Calls
  BY DEF Calls
<1>5. NotBefore'
  BY <1>1, <1>3, <1>4 DEF IInv, NotBefore, Running
<1>6. StreamsFollow'
  BY <1>1, <1>4 DEF IInv, StreamsFollow, Running
<1>7. Over'
  BY <1>1 DEF Over, Running
<1>8. AcceptedAnswered'
  BY <1>1, <1>3, <1>4 DEF IInv, AcceptedAnswered
<1> QED
  BY <1>2, <1>5, <1>6, <1>7, <1>8 DEF IInv

\* The answer goes into the queue, or nowhere when the stream closes.
LEMMA AnswerStep ==
    ASSUME IInv, NEW c \in Calls, Answer(c)
    PROVE  IInv'
<1> USE ServingAssumption
<1> DEFINE s == Of[c]
<1>1. /\ c \in Posted /\ s \in Streams /\ Running /\ handler[c] = "answering"
      /\ handler' = [handler EXCEPT ![c] = "done"]
      /\ handler \in [Calls -> {"idle", "locking", "inside", "answering", "done", "refused"}]
      /\ session' = session /\ client' = client
      /\ writing' = writing /\ received' = received /\ server' = server
  BY DEF Answer, Move, IInv, TypeOK
<1>2. \A d \in Posted : d \in Calls /\ Of[d] \in Streams
  BY DEF Calls
<1>3. \/ queue' = [queue EXCEPT ![s] = Append(@, c)]
      \/ queue' = queue /\ session[s] \in {"closing", "gone"}
  BY DEF Answer, Offer, Enqueued, Done
<1>4. queue \in [Streams -> Seq(Posted)]
  BY DEF IInv, TypeOK
<1>5. TypeOK'
  <2>1. Append(queue[s], c) \in Seq(Posted)
    BY <1>1, <1>4
  <2>2. queue' \in [Streams -> Seq(Posted)]
    BY <1>1, <1>3, <1>4, <2>1
  <2>3. handler' \in [Calls -> {"idle", "locking", "inside", "answering", "done", "refused"}]
    BY <1>1
  <2> QED
    BY <1>1, <2>2, <2>3 DEF IInv, TypeOK, Answer
<1>6. \A d \in Posted \ {c} : /\ Absent(queue[Of[d]], d) => Absent(queue'[Of[d]], d)
                              /\ Once(queue[Of[d]], d) => Once(queue'[Of[d]], d)
  <2> SUFFICES ASSUME NEW d \in Posted \ {c}
               PROVE  /\ Absent(queue[Of[d]], d) => Absent(queue'[Of[d]], d)
                      /\ Once(queue[Of[d]], d) => Once(queue'[Of[d]], d)
    OBVIOUS
  <2>1. CASE queue'[Of[d]] = queue[Of[d]]
    BY <2>1
  <2>2. CASE queue'[Of[d]] = Append(queue[Of[d]], c)
    BY <1>1, <1>2, <1>4, <2>2, AppendAnswer
  <2> QED
    BY <1>1, <1>2, <1>3, <1>4, <2>1, <2>2
<1>7. /\ Absent(queue[s], c) /\ writing[s] # c /\ c \notin received[s]
  BY <1>1 DEF IInv, NotBefore
<1>8. client[s] # "left" => Once(queue'[s], c)
  <2>1. client[s] # "left" => queue'[s] = Append(queue[s], c)
    BY <1>1, <1>3, <1>4 DEF IInv, StreamsFollow
  <2>2. queue[s] \in Seq(Posted)
    BY <1>1, <1>4
  <2>3. Once(Append(queue[s], c), c)
    BY <1>1, <1>7, <2>2, AppendAnswer
  <2> QED
    BY <2>1, <2>3
<1>9. NotBefore'
  BY <1>1, <1>2, <1>6 DEF IInv, NotBefore, Running
<1>10. StreamsFollow'
  BY <1>1, <1>2 DEF IInv, StreamsFollow, Running
<1>11. Over'
  BY <1>1 DEF Over, Running
<1>12. AcceptedAnswered'
  <2> SUFFICES ASSUME NEW d \in Posted, handler'[d] = "done", client'[Of[d]] # "left"
               PROVE  \/ Absent(queue'[Of[d]], d) /\ (writing'[Of[d]] = d) # (d \in received'[Of[d]])
                      \/ Once(queue'[Of[d]], d) /\ writing'[Of[d]] # d /\ d \notin received'[Of[d]]
    BY DEF AcceptedAnswered
  <2>1. CASE d = c
    BY <1>1, <1>7, <1>8, <2>1
  <2>2. CASE d # c
    BY <1>1, <1>2, <1>6, <2>2 DEF IInv, AcceptedAnswered
  <2> QED
    BY <2>1, <2>2
<1> QED
  BY <1>5, <1>9, <1>10, <1>11, <1>12 DEF IInv

\* The answer to a call on its own request.
LEMMA ReplyStep ==
    ASSUME IInv, NEW c \in Calls, Reply(c)
    PROVE  IInv'
<1> USE ServingAssumption
<1>1. /\ c \in Direct /\ Running /\ handler' = [handler EXCEPT ![c] = "done"]
      /\ handler \in [Calls -> {"idle", "locking", "inside", "answering", "done", "refused"}]
      /\ session' = session /\ client' = client /\ queue' = queue
      /\ writing' = writing /\ received' = received /\ server' = server
  BY DEF Reply, Move, streamVars, IInv, TypeOK
<1>2. \A d \in Posted : d \in Calls /\ d # c /\ handler'[d] = handler[d]
  BY <1>1 DEF Calls
<1>3. TypeOK'
  BY <1>1 DEF IInv, TypeOK, Reply
<1>4. NotBefore' /\ StreamsFollow' /\ AcceptedAnswered'
  BY <1>1, <1>2 DEF IInv, NotBefore, StreamsFollow, AcceptedAnswered, Running
<1>5. Over'
  BY <1>1 DEF Over, Running
<1> QED
  BY <1>3, <1>4, <1>5 DEF IInv

\* An answer goes from the queue to the goroutine of its stream.
LEMMA TakeEventStep ==
    ASSUME IInv, NEW s \in Streams, TakeEvent(s)
    PROVE  IInv'
<1> USE ServingAssumption
<1>1. /\ Running /\ session[s] = "open" /\ writing[s] = Nothing /\ queue[s] # <<>>
      /\ writing' = [writing EXCEPT ![s] = Head(queue[s])]
      /\ queue' = [queue EXCEPT ![s] = Tail(queue[s])]
      /\ handler' = handler /\ session' = session /\ client' = client
      /\ received' = received /\ server' = server
  BY DEF TakeEvent, AtSelect
<1>2. /\ queue \in [Streams -> Seq(Posted)]
      /\ writing \in [Streams -> Posted \cup {Nothing, Ping}]
      /\ \A d \in Posted : d \in Calls /\ Of[d] \in Streams /\ d # Nothing
  BY DEF IInv, TypeOK, Calls
<1>3. /\ queue[s] \in Seq(Posted) /\ queue'[s] = Tail(queue[s])
      /\ writing'[s] = Head(queue[s])
      /\ \A t \in Streams \ {s} : queue'[t] = queue[t] /\ writing'[t] = writing[t]
  BY <1>1, <1>2
<1>4. \A c : /\ Head(queue[s]) \in Posted /\ Tail(queue[s]) \in Seq(Posted)
             /\ Absent(queue[s], c) => Absent(Tail(queue[s]), c) /\ Head(queue[s]) # c
             /\ Head(queue[s]) = c /\ Once(queue[s], c) => Absent(Tail(queue[s]), c)
             /\ Head(queue[s]) # c /\ Once(queue[s], c) => Once(Tail(queue[s]), c)
  BY <1>1, <1>3, TakeAnswer
<1>5. TypeOK'
  <2>1. Head(queue[s]) \in Posted /\ Tail(queue[s]) \in Seq(Posted)
    BY <1>4
  <2> QED
    BY <1>1, <1>2, <2>1 DEF IInv, TypeOK, TakeEvent
<1>6. NotBefore'
  <2> SUFFICES ASSUME NEW c \in Posted, Running, handler[c] # "done"
               PROVE  /\ Absent(queue'[Of[c]], c) /\ writing'[Of[c]] # c
                      /\ c \notin received'[Of[c]]
    BY <1>1 DEF NotBefore, Running
  <2>1. Absent(queue[Of[c]], c) /\ writing[Of[c]] # c /\ c \notin received[Of[c]]
    BY DEF IInv, NotBefore
  <2> QED
    BY <1>1, <1>2, <1>3, <1>4, <2>1
<1>7. StreamsFollow' /\ Over'
  BY <1>1 DEF IInv, StreamsFollow, Over, Running
<1>8. AcceptedAnswered'
  <2> SUFFICES ASSUME NEW c \in Posted, handler[c] = "done", client[Of[c]] # "left"
               PROVE  \/ Absent(queue'[Of[c]], c) /\ (writing'[Of[c]] = c) # (c \in received[Of[c]])
                      \/ Once(queue'[Of[c]], c) /\ writing'[Of[c]] # c /\ c \notin received[Of[c]]
    BY <1>1 DEF AcceptedAnswered
  <2>1. \/ Absent(queue[Of[c]], c) /\ (writing[Of[c]] = c) # (c \in received[Of[c]])
        \/ Once(queue[Of[c]], c) /\ writing[Of[c]] # c /\ c \notin received[Of[c]]
    BY DEF IInv, AcceptedAnswered
  <2>2. CASE Of[c] # s
    BY <1>2, <1>3, <2>1, <2>2
  <2>3. CASE Of[c] = s
    <3>1. writing[s] # c
      BY <1>1, <1>2
    <3>2. CASE Absent(queue[s], c)
      BY <1>3, <1>4, <2>1, <2>3, <3>1, <3>2
    <3>3. CASE Once(queue[s], c) /\ c \notin received[s] /\ Head(queue[s]) = c
      BY <1>3, <1>4, <2>3, <3>3
    <3>4. CASE Once(queue[s], c) /\ c \notin received[s] /\ Head(queue[s]) # c
      BY <1>3, <1>4, <2>3, <3>4
    <3> QED
      BY <2>1, <2>3, <3>2, <3>3, <3>4
  <2> QED
    BY <2>2, <2>3
<1> QED
  BY <1>5, <1>6, <1>7, <1>8 DEF IInv

\* The comment is no answer.
LEMMA KeepAliveStep ==
    ASSUME IInv, NEW s \in Streams, KeepAlive(s)
    PROVE  IInv'
<1> USE ServingAssumption
<1>1. /\ Running /\ writing[s] = Nothing
      /\ writing' = [writing EXCEPT ![s] = Ping]
      /\ queue' = queue /\ handler' = handler /\ session' = session
      /\ client' = client /\ received' = received /\ server' = server
  BY DEF KeepAlive, AtSelect
<1>2. /\ writing \in [Streams -> Posted \cup {Nothing, Ping}]
      /\ \A d \in Posted : Of[d] \in Streams /\ d # Nothing /\ d # Ping
  BY DEF IInv, TypeOK, Calls
<1>3. \A d \in Posted : writing'[Of[d]] = d <=> writing[Of[d]] = d
  BY <1>1, <1>2
<1>4. TypeOK'
  BY <1>1, <1>2 DEF IInv, TypeOK, KeepAlive
<1>5. NotBefore' /\ StreamsFollow' /\ Over'
  BY <1>1, <1>3 DEF IInv, NotBefore, StreamsFollow, Over, Running
<1>6. AcceptedAnswered'
  BY <1>1, <1>3 DEF IInv, AcceptedAnswered
<1> QED
  BY <1>4, <1>5, <1>6 DEF IInv

\* An answer reaches the client, or its client has left.
LEMMA WrittenStep ==
    ASSUME IInv, NEW s \in Streams, Written(s)
    PROVE  IInv'
<1> USE ServingAssumption
<1>1. /\ Running /\ writing[s] # Nothing
      /\ received' = [received EXCEPT ![s] =
            IF client[s] = "up" THEN received[s] \cup ({writing[s]} \ {Ping}) ELSE received[s]]
      /\ writing' = [writing EXCEPT ![s] = Nothing]
      /\ client[s] # "stalled"
      /\ queue' = queue /\ handler' = handler /\ session' = session
      /\ client' = client /\ server' = server
  BY DEF Written, Delivered
<1>2. /\ writing \in [Streams -> Posted \cup {Nothing, Ping}]
      /\ received \in [Streams -> SUBSET Posted]
      /\ client \in [Streams -> {"up", "stalled", "left"}]
      /\ \A d \in Posted : Of[d] \in Streams /\ d # Nothing /\ d # Ping
  BY DEF IInv, TypeOK, Calls
<1>3. /\ writing'[s] = Nothing
      /\ client[s] # "left" => received'[s] = received[s] \cup ({writing[s]} \ {Ping})
      /\ client[s] = "left" => received'[s] = received[s]
      /\ \A t \in Streams \ {s} : writing'[t] = writing[t] /\ received'[t] = received[t]
  BY <1>1, <1>2
<1>4. TypeOK'
  BY <1>1, <1>2 DEF IInv, TypeOK, Written
<1>5. NotBefore'
  <2> SUFFICES ASSUME NEW c \in Posted, Running, handler[c] # "done"
               PROVE  /\ Absent(queue[Of[c]], c) /\ writing'[Of[c]] # c
                      /\ c \notin received'[Of[c]]
    BY <1>1 DEF NotBefore, Running
  <2>1. Absent(queue[Of[c]], c) /\ writing[Of[c]] # c /\ c \notin received[Of[c]]
    BY DEF IInv, NotBefore
  <2> QED
    BY <1>1, <1>2, <1>3, <2>1
<1>6. StreamsFollow' /\ Over'
  BY <1>1 DEF IInv, StreamsFollow, Over, Running
<1>7. AcceptedAnswered'
  <2> SUFFICES ASSUME NEW c \in Posted, handler[c] = "done", client[Of[c]] # "left"
               PROVE  \/ Absent(queue[Of[c]], c) /\ (writing'[Of[c]] = c) # (c \in received'[Of[c]])
                      \/ Once(queue[Of[c]], c) /\ writing'[Of[c]] # c /\ c \notin received'[Of[c]]
    BY <1>1 DEF AcceptedAnswered
  <2>1. \/ Absent(queue[Of[c]], c) /\ (writing[Of[c]] = c) # (c \in received[Of[c]])
        \/ Once(queue[Of[c]], c) /\ writing[Of[c]] # c /\ c \notin received[Of[c]]
    BY DEF IInv, AcceptedAnswered
  <2>2. CASE Of[c] # s
    BY <1>2, <1>3, <2>1, <2>2
  <2>3. CASE Of[c] = s
    BY <1>2, <1>3, <2>1, <2>3
  <2> QED
    BY <2>2, <2>3
<1> QED
  BY <1>4, <1>5, <1>6, <1>7 DEF IInv

\* The steps of sessions and clients that leave the events where they are.
LEMMA StreamStep ==
    ASSUME IInv, NEW s \in Streams,
           Open(s) \/ Close(s) \/ Remove(s) \/ Stall(s) \/ Resume(s) \/ HangUp(s)
    PROVE  IInv'
<1> USE ServingAssumption
<1>1. /\ queue' = queue /\ handler' = handler /\ writing' = writing
      /\ received' = received /\ server' = server
  BY DEF Open, Close, Remove, Stall, Resume, HangUp, Client
<1>2. /\ session \in [Streams -> {"none", "open", "closing", "gone"}]
      /\ client \in [Streams -> {"up", "stalled", "left"}]
      /\ \A d \in Posted : Of[d] \in Streams
  BY DEF IInv, TypeOK
<1>3. TypeOK'
  BY <1>2 DEF IInv, TypeOK, Open, Close, Remove, Stall, Resume, HangUp, Client
<1>4. \A t \in Streams : client[t] = "left" => client'[t] = "left"
  BY <1>2 DEF Open, Close, Remove, Stall, Resume, HangUp, Client
<1>5. \A t \in Streams : session[t] # "none" => session'[t] # "none"
  BY <1>2 DEF Open, Close, Remove, Stall, Resume, HangUp, Client
<1>6. Running => \A t \in Streams : session'[t] \in {"closing", "gone"} => client'[t] = "left"
  BY <1>2 DEF IInv, StreamsFollow, AtSelect, Open, Close, Remove, Stall, Resume, HangUp, Client
<1>7. NotBefore' /\ Over'
  BY <1>1 DEF IInv, NotBefore, Over, Running
<1>8. StreamsFollow'
  BY <1>1, <1>2, <1>5, <1>6 DEF IInv, StreamsFollow, Running
<1>9. AcceptedAnswered'
  BY <1>1, <1>2, <1>4 DEF IInv, AcceptedAnswered
<1> QED
  BY <1>3, <1>7, <1>8, <1>9 DEF IInv

\* The exit takes queues and goroutines away, and every call with them.
LEMMA ExitStep ==
    ASSUME IInv, Exit
    PROVE  IInv'
<1> USE ServingAssumption
<1>1. TypeOK'
  BY DEF IInv, TypeOK, Exit, Calls
<1>2. ~Running' /\ \A c \in Calls : handler'[c] = "idle"
  BY DEF Exit, Running
<1>3. NotBefore' /\ StreamsFollow' /\ Over'
  BY <1>2 DEF NotBefore, StreamsFollow, Over
<1>4. AcceptedAnswered'
  BY <1>2 DEF AcceptedAnswered, Calls
<1> QED
  BY <1>1, <1>3, <1>4 DEF IInv

\* Every step keeps IInv.
LEMMA NextIInv == IInv /\ [Next]_vars => IInv'
<1> SUFFICES ASSUME IInv, [Next]_vars
             PROVE  IInv'
  OBVIOUS
<1> USE ServingAssumption
<1>1. ASSUME NEW c \in Calls, Post(c)
      PROVE  IInv'
  BY <1>1, HandlerStep DEF Post, Started, Running
<1>2. ASSUME NEW c \in Calls, Request(c)
      PROVE  IInv'
  BY <1>2, HandlerStep DEF Request, Started, Running
<1>3. ASSUME NEW c \in Calls, Enter(c) \/ Leave(c)
      PROVE  IInv'
  BY <1>3, HandlerStep DEF Enter, Leave, IInv, StreamsFollow
<1>4. ASSUME NEW c \in Calls, GiveUp(c)
      PROVE  IInv'
  BY <1>4 DEF GiveUp, streamVars, IInv, TypeOK, NotBefore, StreamsFollow, Over,
              AcceptedAnswered, Running
<1>5. CASE Shutdown
  BY <1>5 DEF Shutdown, streamVars, IInv, TypeOK, NotBefore, StreamsFollow, Over,
              AcceptedAnswered, Running
<1>6. CASE UNCHANGED vars
  BY <1>6 DEF vars, IInv, TypeOK, NotBefore, StreamsFollow, Over, AcceptedAnswered, Running
<1> QED
  BY <1>1, <1>2, <1>3, <1>4, <1>5, <1>6, AnswerStep, ReplyStep, TakeEventStep,
     KeepAliveStep, WrittenStep, StreamStep, ExitStep DEF Next

\* IInv in every reachable state of the handlers, streams and shutdown.
THEOREM Invariance == Spec => []IInv
  BY InitIInv, NextIInv, PTL DEF Spec

-----------------------------------------------------------------------------
(* What follows from it.                                                    *)

\* Every variable keeps its type, for every instance.
THEOREM TypeCorrect == Spec => []TypeOK
<1>1. IInv => TypeOK
  BY DEF IInv
<1> QED
  BY <1>1, Invariance, PTL

\* An answer accepted with 202 is in one place as long as its client stays:
\* sseRPCResult and the loop of handleSSE neither lose nor double it.
THEOREM AnswersKept == Spec => []AcceptedAnswered
<1>1. IInv => AcceptedAnswered
  BY DEF IInv
<1> QED
  BY <1>1, Invariance, PTL
=============================================================================
