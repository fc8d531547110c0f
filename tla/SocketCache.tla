---------------------------- MODULE SocketCache -----------------------------
(***************************************************************************)
(* The benchmark's baseline, LocalSocketCache: one socket pair and one     *)
(* server thread per client, and one mutex around the map they share.      *)
(* This module has the cache's state and steps; Benchmark uses them.       *)
(*                                                                         *)
(* A stream is the sequence of messages its reader will find, which are    *)
(* not those written once a transfer has stopped in the middle of one.     *)
(* Writing never waits: only failing reads leave a message behind, and a   *)
(* socket's buffer holds hundreds.                                         *)
(* <Definition>_<Mistake> is <Definition> with a plausible mistake.        *)
(***************************************************************************)
EXTENDS Integers, Sequences

CONSTANTS
    Clients,        \* indices of clients, and of their server threads
    Keys, Values,
    Other,          \* stands for the keys that no operation is given
    Absent,         \* "no value"
    None,           \* "no message"
    Junk,           \* a request whose operation is none of those there are
    Rest,           \* the end of a response whose beginning has been read
    NoServer        \* holder of the free mutex

VARIABLES
    values,         \* values_
    mutex,          \* the server thread that holds mutex_
    client,         \* clients_: none, open or closed
    server,         \* servers_: place of each thread in serve
    request,        \* client to server
    torn,           \* the message whose beginning the client wrote last
    answer,         \* the response a server is about to send
    response        \* server to client

requestVars == <<request, torn>>
socketVars  == <<values, mutex, client, server, requestVars, answer, response>>

Operations == {"G", "P", "U"}
Requests   == [op : Operations, key : Keys, value : Values]
Quit       == [op |-> "Q"]
Messages   == Requests \cup {Quit, Junk}
Responses  == [status : {-1, 0, 1}, value : Values \cup {Absent}]

ASSUME MessagesAssumption == /\ Other \in Keys /\ Absent \notin Values
                             /\ None \notin Messages \cup Responses
                             /\ Junk \notin Requests \cup {Quit}
                             /\ Rest \notin Responses

Answered(s) == [status |-> s, value |-> Absent]

\* The response to r when the map is m, and the map after it.
AnswerTo(m, r) ==
    IF r = Junk THEN Answered(-1)
    ELSE IF r.op = "P" \/ m[r.key] # Absent
    THEN [status |-> 1, value |-> IF r.op = "G" THEN m[r.key] ELSE Absent]
    ELSE Answered(0)

MapAfter(m, r) ==
    IF r # Junk /\ (r.op = "P" \/ (r.op = "U" /\ m[r.key] # Absent))
    THEN [m EXCEPT ![r.key] = r.value]
    ELSE m

NoCache == /\ values = [k \in Keys |-> Absent]
           /\ mutex = NoServer
           /\ client = [c \in Clients |-> "none"]
           /\ server = [c \in Clients |-> "none"]
           /\ request = [c \in Clients |-> <<>>]
           /\ torn = [c \in Clients |-> None]
           /\ answer = [c \in Clients |-> None]
           /\ response = [c \in Clients |-> <<>>]

-----------------------------------------------------------------------------
\* The client's writes, in request and in shutdown_clients.

\* What can be read when the beginning of m is followed by the beginning of
\* another message: m's operation, on its key or on none that is used, with
\* any value.  After that, the reader finds operations in the middle of
\* keys and values, where there is no `G', `P', `U' or `Q'.
Mangled(m) == IF m \in Requests THEN {r \in Requests : r.op = m.op /\ r.key \in {m.key, Other}}
              ELSE {m}

\* The peer of client c's socket is closed: writing to it raises SIGPIPE.
PeerClosed(c) == server[c] \in {"ended", "joined"}

Appended(s, c, m) == [s EXCEPT ![c] = Append(@, m)]

Write(c, m) ==
    /\ client[c] = "open" /\ ~PeerClosed(c)
    /\ \E r \in IF torn[c] = None THEN {m} ELSE Mangled(torn[c]) :
          request' = Appended(request, c, r)
    /\ torn' = [torn EXCEPT ![c] = IF @ = None THEN None ELSE Junk]
    /\ UNCHANGED <<values, mutex, client, server, answer, response>>

\* An error after some bytes: too few for the server to read a message, or
\* enough to end the one begun before.
WriteFails(c, m) ==
    /\ client[c] = "open" /\ ~PeerClosed(c)
    /\ \/ UNCHANGED requestVars
       \/ torn[c] = None /\ torn' = [torn EXCEPT ![c] = m] /\ UNCHANGED request
       \/ /\ torn[c] # None
          /\ \E r \in Mangled(torn[c]) : request' = Appended(request, c, r)
          /\ \E t \in {None, Junk} : torn' = [torn EXCEPT ![c] = t]
    /\ UNCHANGED <<values, mutex, client, server, answer, response>>

-----------------------------------------------------------------------------
\* The client's reads, in request.

Misaligned(c) == response[c] # <<>> /\ Head(response[c]) = Rest

HasResponse(c) == Len(response[c]) > (IF Misaligned(c) THEN 1 ELSE 0)
EndOfFile(c)   == ~HasResponse(c) /\ PeerClosed(c)

\* What is read: out of step, a status from the middle of two responses,
\* which is never 1.
Results(c) == IF Misaligned(c) THEN {Answered(-1), Answered(0)} ELSE {Head(response[c])}

\* A message is read; out of step, it takes the beginning of the next.
AfterRead(c) == IF Misaligned(c) THEN <<Rest>> \o Tail(Tail(response[c])) ELSE Tail(response[c])

Receive(c) ==
    /\ HasResponse(c)
    /\ response' = [response EXCEPT ![c] = AfterRead(c)]
    /\ UNCHANGED <<values, mutex, client, server, requestVars, answer>>

ReceiveEnd(c) ==
    /\ EndOfFile(c)
    /\ response' = [response EXCEPT ![c] = <<>>]
    /\ UNCHANGED <<values, mutex, client, server, requestVars, answer>>

\* An error after none, some or all of the bytes up to the next message, or
\* also some of that.  The response stays for a later read to find.
ReceiveFails(c) ==
    /\ \/ UNCHANGED response
       \/ /\ response[c] # <<>>
          /\ response' = [response EXCEPT ![c] = <<Rest>> \o Tail(@)]
       \/ Misaligned(c) /\ response' = [response EXCEPT ![c] = Tail(@)]
       \/ Misaligned(c) /\ HasResponse(c) /\ response' = [response EXCEPT ![c] = AfterRead(c)]
    /\ UNCHANGED <<values, mutex, client, server, requestVars, answer>>

-----------------------------------------------------------------------------
\* Construction and destruction.

\* A new LocalSocketCache, with no client yet.
Construct ==
    /\ client' = [c \in Clients |-> "none"]
    /\ server' = [c \in Clients |-> "none"]
    /\ UNCHANGED <<values, mutex, requestVars, answer, response>>

\* socketpair and the start of the server thread.
Connect(c) ==
    /\ client' = [client EXCEPT ![c] = "open"]
    /\ server' = [server EXCEPT ![c] = "reading"]
    /\ UNCHANGED <<values, mutex, requestVars, answer, response>>

\* std::thread throws: the client's socket is in clients_, its peer is open
\* and nobody will read it.
ConnectWithoutThread(c) ==
    /\ client' = [client EXCEPT ![c] = "open"]
    /\ server' = [server EXCEPT ![c] = "orphan"]
    /\ UNCHANGED <<values, mutex, requestVars, answer, response>>

\* shutdown and close, after `Q' has been written.
HangUp(c) ==
    /\ client' = [client EXCEPT ![c] = "closed"]
    /\ UNCHANGED <<values, mutex, server, requestVars, answer, response>>

Joinable(c) == server[c] \in {"reading", "sending", "ended"}

\* The cache and what was in its sockets are gone.
Freed ==
    /\ values' = [k \in Keys |-> Absent]
    /\ request' = [c \in Clients |-> <<>>]
    /\ torn' = [c \in Clients |-> None]
    /\ response' = [c \in Clients |-> <<>>]

\* The destructor does not wait for the threads.
Join_Detaches ==
    /\ server' = [c \in Clients |-> IF server[c] = "ended" THEN "joined" ELSE server[c]]
    /\ Freed
    /\ UNCHANGED <<mutex, client, answer>>

\* Joins the servers in order; all of them have ended when the last is
\* joined.
Join ==
    /\ \A c \in Clients : Joinable(c) => server[c] = "ended"
    /\ server' = [c \in Clients |-> IF Joinable(c) THEN "joined" ELSE server[c]]
    /\ Freed
    /\ UNCHANGED <<mutex, client, answer>>

-----------------------------------------------------------------------------
\* serve.

\* A request is read, the mutex taken and the map used.  The mutex stays
\* held until the response is sent.
Handle(c) ==
    /\ server[c] = "reading" /\ request[c] # <<>> /\ Head(request[c]) # Quit
    /\ mutex = NoServer
    /\ mutex' = c
    /\ values' = MapAfter(values, Head(request[c]))
    /\ answer' = [answer EXCEPT ![c] = AnswerTo(values, Head(request[c]))]
    /\ request' = [request EXCEPT ![c] = Tail(@)]
    /\ server' = [server EXCEPT ![c] = "sending"]
    /\ UNCHANGED <<client, torn, response>>

Respond(c) ==
    /\ server[c] = "sending" /\ client[c] # "closed"
    /\ response' = Appended(response, c, answer[c])
    /\ answer' = [answer EXCEPT ![c] = None]
    /\ mutex' = NoServer
    /\ server' = [server EXCEPT ![c] = "reading"]
    /\ UNCHANGED <<values, client, requestVars>>

\* The write fails: the loop is left, the guard releases the mutex, and the
\* socket is closed.  Some of the response may have been written.
RespondFails(c) ==
    /\ server[c] = "sending" /\ client[c] # "closed"
    /\ response' \in {response, Appended(response, c, Rest)}
    /\ answer' = [answer EXCEPT ![c] = None]
    /\ mutex' = NoServer
    /\ server' = [server EXCEPT ![c] = "ended"]
    /\ UNCHANGED <<values, client, requestVars>>

\* `Q' or the end of the stream is read (or, for a client that left responses
\* unread, ECONNRESET): the loop is left and the socket is closed.
EndServing(c) ==
    /\ server[c] = "reading"
    /\ IF request[c] = <<>> THEN client[c] = "closed" ELSE Head(request[c]) = Quit
    /\ server' = [server EXCEPT ![c] = "ended"]
    /\ UNCHANGED <<values, mutex, client, requestVars, answer, response>>

\* The read fails, at any byte: the loop is left as well.
ServeReadFails(c) ==
    /\ server[c] = "reading"
    /\ server' = [server EXCEPT ![c] = "ended"]
    /\ UNCHANGED <<values, mutex, client, requestVars, answer, response>>

ServerStep(c) == Handle(c) \/ Respond(c) \/ EndServing(c)

SocketTypeOK ==
    /\ values \in [Keys -> Values \cup {Absent}]
    /\ mutex \in Clients \cup {NoServer}
    /\ client \in [Clients -> {"none", "open", "closed"}]
    /\ server \in [Clients -> {"none", "reading", "sending", "ended", "joined", "orphan"}]
    /\ request \in [Clients -> Seq(Messages)]
    /\ torn \in [Clients -> Messages \cup {None}]
    /\ answer \in [Clients -> Responses \cup {None}]
    /\ response \in [Clients -> Seq(Responses \cup {Rest})]
=============================================================================
