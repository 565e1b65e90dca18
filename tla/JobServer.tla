------------------------------ MODULE JobServer -------------------------------
(***************************************************************************)
(* Clients (net/SocketClient.cpp), the server with its task handler (net/  *)
(* SocketServer.cpp) and the job agents (net/Agents.cpp) as tools/netknife.*)
(* cpp starts them.  The server is one loop: it accepts a connection,      *)
(* receives one job, shows it to its agents and closes the connection.     *)
(* The sockets are local ones, like the default address every client       *)
(* connects to, and a job that is sent is delivered in one piece, which    *)
(* its data guarantees up to 65503 bytes.  What may happen at any time is  *)
(* that a client goes away.                                                *)
(***************************************************************************)
EXTENDS Naturals, Sequences, SequencesExt, FiniteSets

CONSTANTS Clients,
          Texts,        \* the data of jobs and answers
          Empty,        \* the empty one
          TooLong,      \* those that do not fit into the buffer of a client
          Name, Value,  \* of a text: what is in front of its first line end and
                        \* behind it, None if there is no line end
          Left,         \* of a header and a text: what the header in the buffer
                        \* becomes when an answer with the text is built there
          Requests,     \* the jobs clients send
          None,         \* no text
          Backlog,      \* connections that wait for accept(), maxConnections
          MaxLinks      \* bound: connections in a run

Scopes == {"basic", "storage", "unknown"}
Jobs == {"put", "get", "echo", "time", "unknown"}

\* The header as far as the server reads it, and the data behind.
Header == [scope : Scopes, job : Jobs]
Request == [header : Header, data : Texts]

ASSUME TextsAssumption ==
  /\ Empty \in Texts /\ TooLong \subseteq Texts \ {Empty} /\ None \notin Texts
  /\ Name \in [Texts -> Texts \cup {None}]
  /\ Value \in [Texts -> Texts \cup {None}]
  /\ \A t \in Texts : Name[t] = None <=> Value[t] = None
  /\ Left \in [Header -> [Texts -> Header]]
  /\ \A h \in Header : Left[h][Empty] = h
ASSUME RequestsAssumption == Requests \subseteq Request
ASSUME BoundsAssumption   == Backlog \in Nat /\ MaxLinks \in Nat

VARIABLES
  phase,     \* of each client: "idle", "connected", "waiting", "gone"
  handle,    \* its _socketHandle: a connection, 0 if none
  links,     \* the connections: who opened it, what waits in it, is the
             \* server's end open; history: the job sent over it
  backlog,   \* the connections that wait for accept()
  server,    \* where the server is: "start", "accept", "receive", "down"
  serving,   \* connectionHandle
  header,    \* what _buffer holds as a header
  storage,   \* StorageJobAgent::_map
  executed   \* history: the executed jobs, each with its connection and agent

clientVars == <<phase, handle>>
serverVars == <<server, serving, header, storage, executed>>
vars == <<clientVars, links, backlog, serverVars>>

Garbage == [scope |-> "unknown", job |-> "unknown"]

Init ==
  /\ phase = [c \in Clients |-> "idle"]
  /\ handle = [c \in Clients |-> 0]
  /\ links = <<>>
  /\ backlog = <<>>
  /\ server = "start"
  /\ serving = 0
  /\ header = Garbage
  /\ storage = [t \in Texts |-> None]
  /\ executed = <<>>

------------------------------------------------------------------------------
(* The client: request() connects, sends and receives, send() does not     *)
(* receive.  No handle is closed before the program ends.                  *)

Listening == server \in {"accept", "receive"}

\* A connection waits in the backlog until the server accepts it.
Connect(c) ==
  /\ phase[c] = "idle"
  /\ Listening
  /\ Len(backlog) < Backlog
  /\ Len(links) < MaxLinks
  /\ links' = Append(links, [client |-> c, inbox |-> <<>>, open |-> TRUE, sent |-> {}])
  /\ backlog' = Append(backlog, Len(links'))
  /\ handle' = [handle EXCEPT ![c] = Len(links')]
  /\ phase' = [phase EXCEPT ![c] = "connected"]
  /\ UNCHANGED serverVars

\* Without a server request() logs three errors and returns "".
ConnectFails(c) ==
  /\ phase[c] = "idle"
  /\ ~Listening
  /\ handle' = [handle EXCEPT ![c] = 0]
  /\ UNCHANGED <<phase, links, backlog, serverVars>>

\* Then request() waits for the answer and send() returns.
Send(c) ==
  /\ phase[c] = "connected"
  /\ links[handle[c]].open
  /\ \E r \in Requests :
       /\ r.data \notin TooLong
       /\ links' = [links EXCEPT ![handle[c]].inbox = Append(@, r),
                                 ![handle[c]].sent = @ \cup {r}]
  /\ \E next \in {"waiting", "idle"} : phase' = [phase EXCEPT ![c] = next]
  /\ UNCHANGED <<handle, backlog, serverVars>>

\* Data that is too long is not sent.  request() does not look at that and waits as
\* well; the connection stays open.
SendNothing(c) ==
  /\ phase[c] = "connected"
  /\ \E r \in Requests : r.data \in TooLong
  /\ \E next \in {"waiting", "idle"} : phase' = [phase EXCEPT ![c] = next]
  /\ UNCHANGED <<handle, links, backlog, serverVars>>

\* Nothing is ever written into a connection by the server: recv() returns when it
\* is closed, and request() returns "".
Receive(c) ==
  /\ phase[c] = "waiting"
  /\ ~links[handle[c]].open
  /\ phase' = [phase EXCEPT ![c] = "idle"]
  /\ UNCHANGED <<handle, links, backlog, serverVars>>

\* The program of the client ends, or writing into a connection whose other end is
\* closed ends it.
Leave(c) ==
  /\ phase[c] # "gone"
  /\ phase' = [phase EXCEPT ![c] = "gone"]
  /\ UNCHANGED <<handle, links, backlog, serverVars>>

SendBroken(c) ==
  /\ phase[c] = "connected"
  /\ ~links[handle[c]].open
  /\ Leave(c)

------------------------------------------------------------------------------
(* The server *)

\* listen() has bound its address, or it returns false.
Start ==
  /\ server = "start"
  /\ server' \in {"accept", "down"}
  /\ UNCHANGED <<clientVars, links, backlog, serving, header, storage, executed>>

\* Mutant: the connection that came last is accepted first.
AcceptLast ==
  /\ server = "accept"
  /\ backlog # <<>>
  /\ serving' = Last(backlog)
  /\ backlog' = Front(backlog)
  /\ server' = "receive"
  /\ UNCHANGED <<clientVars, links, header, storage, executed>>

\* Mutant: the handle that accept() returns is not kept.
AcceptWithoutHandle ==
  /\ server = "accept"
  /\ backlog # <<>>
  /\ backlog' = Tail(backlog)
  /\ server' = "receive"
  /\ UNCHANGED <<clientVars, links, serving, header, storage, executed>>

Accept ==
  /\ server = "accept"
  /\ backlog # <<>>
  /\ serving' = Head(backlog)
  /\ backlog' = Tail(backlog)
  /\ server' = "receive"
  /\ UNCHANGED <<clientVars, links, header, storage, executed>>

\* The end of the program closes all connections.
Down ==
  /\ server' = "down"
  /\ links' = [n \in DOMAIN links |-> [links[n] EXCEPT !.open = FALSE]]
  /\ backlog' = <<>>

AcceptFails ==
  /\ server = "accept"
  /\ Down
  /\ UNCHANGED <<clientVars, serving, header, storage, executed>>

\* isResponsible() of the agents BasicJobAgent and StorageJobAgent
Responsible(h) == h.scope \in {"basic", "storage"}

\* The answers are built in _buffer, in front of the data: with more than 4 bytes they
\* overwrite scope and job.  BasicJobAgent answers with the data, the time or
\* "<unknown job>", StorageJobAgent with "OK", a value or "<unknown job>".
AfterBasic(h, data) == IF h.job = "echo" THEN Left[h][data] ELSE Garbage

AfterStorage(h, data) ==
  CASE h.job = "put" -> h
    [] h.job = "get" -> Left[h][IF storage[data] = None THEN Empty ELSE storage[data]]
    [] OTHER -> Garbage

\* Data without a line end is no name and value: nothing is stored.
Stored(h, data) ==
  IF h.job = "put" /\ Name[data] # None
  THEN [storage EXCEPT ![Name[data]] = Value[data]] ELSE storage

Entry(agent, h, data) == [link |-> serving, agent |-> agent, job |-> h.job, data |-> data]

(***************************************************************************)
(* The loop over the agents, BasicJobAgent and StorageJobAgent: it does    *)
(* not stop behind the first one that is responsible, and each agent looks *)
(* at the header in _buffer as the answer before has left it.  The data is *)
(* a copy.                                                                 *)
(***************************************************************************)
Agents(h, data) ==
  LET left == IF h.scope = "basic" THEN AfterBasic(h, data) ELSE h
  IN \/ /\ h.scope = "basic"
        /\ left.scope # "storage"
        /\ executed' = Append(executed, Entry("basic", h, data))
        /\ header' = left
        /\ UNCHANGED storage
     \/ /\ left.scope = "storage"
        /\ executed' = Append(IF h.scope = "basic"
                              THEN Append(executed, Entry("basic", h, data)) ELSE executed,
                              Entry("storage", left, data))
        /\ storage' = Stored(left, data)
        /\ header' = AfterStorage(left, data)

\* Mutant: a closed connection counts as one whose data is empty.
ServeStale ==
  /\ links[serving].inbox = <<>>
  /\ phase[links[serving].client] = "gone"
  /\ Responsible(header)
  /\ Agents(header, Empty)
  /\ links' = [links EXCEPT ![serving].open = FALSE]
  /\ server' = "accept"
  /\ UNCHANGED backlog

\* Mutant: the connection is not closed behind doIt().
ServeWithoutClose ==
  /\ links[serving].inbox # <<>>
  /\ LET r == Head(links[serving].inbox)
     IN Responsible(r.header) /\ Agents(r.header, r.data)
  /\ links' = [links EXCEPT ![serving].inbox = Tail(@)]
  /\ server' = "accept"
  /\ UNCHANGED backlog

\* doIt(): recv() returns a job, its length is not looked at.  The agents send their
\* answers into the listening socket, where they are lost.  The connection is closed.
Serve ==
  /\ links[serving].inbox # <<>>
  /\ LET r == Head(links[serving].inbox)
     IN Responsible(r.header) /\ Agents(r.header, r.data)
  /\ links' = [links EXCEPT ![serving].inbox = Tail(@), ![serving].open = FALSE]
  /\ server' = "accept"
  /\ UNCHANGED backlog

\* No agent is responsible: doIt() receives again.
ServeNobody ==
  /\ links[serving].inbox # <<>>
  /\ LET r == Head(links[serving].inbox)
     IN /\ ~Responsible(r.header)
        /\ header' = r.header
  /\ links' = [links EXCEPT ![serving].inbox = Tail(@)]
  /\ UNCHANGED <<backlog, server, storage, executed>>

\* The client has closed the connection, recv() returns 0, the header is the one of
\* the last job.  If an agent is responsible for it, the length of the data, 0 minus
\* the size of the header, makes the construction of the string throw.  Otherwise
\* doIt() goes on receiving 0 bytes for ever: no step.
ServeClosed ==
  /\ links[serving].inbox = <<>>
  /\ phase[links[serving].client] = "gone"
  /\ Responsible(header)
  /\ Down
  /\ UNCHANGED <<header, storage, executed>>

DoIt ==
  /\ server = "receive"
  /\ Serve \/ ServeNobody \/ ServeClosed
  /\ UNCHANGED <<clientVars, serving>>

ClientStep(c) ==
  \/ Connect(c) \/ ConnectFails(c)
  \/ Send(c) \/ SendNothing(c) \/ SendBroken(c)
  \/ Receive(c)
ServerStep == Start \/ Accept \/ DoIt

Next ==
  \/ ServerStep
  \/ AcceptFails
  \/ \E c \in Clients : ClientStep(c) \/ Leave(c)

Spec == Init /\ [][Next]_vars

------------------------------------------------------------------------------
(* Properties *)

Link == [client : Clients, inbox : Seq(Requests), open : BOOLEAN,
         sent : SUBSET Requests]

Executed(L) == [link : L, agent : {"basic", "storage"}, job : Jobs, data : Texts]

\* Type invariant.
TypeOK ==
  /\ phase \in [Clients -> {"idle", "connected", "waiting", "gone"}]
  /\ handle \in [Clients -> 0 .. Len(links)]
  /\ \A c \in Clients : phase[c] \in {"connected", "waiting"} => handle[c] # 0
  /\ links \in Seq(Link)
  /\ backlog \in Seq(DOMAIN links)
  /\ server \in {"start", "accept", "receive", "down"}
  /\ serving \in 0 .. Len(links)
  /\ server = "receive" => serving # 0
  /\ header \in Header
  /\ storage \in [Texts -> Texts \cup {None}]
  /\ executed \in Seq(Executed(DOMAIN links))

\* A job comes from r: r is that job, or the header that the echo of r leaves is.
ComesFrom(e, r) ==
  /\ e.data = r.data
  /\ \/ r.header = [scope |-> e.agent, job |-> e.job]
     \/ /\ r.header = [scope |-> "basic", job |-> "echo"]
        /\ e.agent = "storage"
        /\ Left[r.header][r.data] = [scope |-> "storage", job |-> e.job]

\* Whatever earlier jobs have left in the one buffer (SocketServer.cpp:219), what is
\* executed comes from a job sent over the connection that is served: it is that job
\* with its data, or the one that the answer of an echo holds in the place of a header.
JobsComeFromLink ==
  \A i \in DOMAIN executed :
    \E r \in links[executed[i].link].sent : ComesFrom(executed[i], r)

\* Jobs are executed in the order of the connections (SocketServer.cpp:151), so that a
\* client that sends without waiting is served in its order; for each connection every
\* agent runs at most once, the basic one first.
InOrder ==
  \A i, j \in DOMAIN executed : i < j =>
    \/ executed[i].link < executed[j].link
    \/ /\ executed[i].link = executed[j].link
       /\ executed[i].agent = "basic" /\ executed[j].agent = "storage"

\* Clients and server run on; nobody has to open a connection, to leave or to fail.
Fairness ==
  /\ WF_vars(ServerStep)
  /\ \A c \in Clients : WF_vars(Send(c) \/ SendNothing(c) \/ Receive(c) \/ SendBroken(c))

FairSpec == Spec /\ Fairness

Gone == \E c \in Clients : phase[c] = "gone"
UnknownScope ==
  \E n \in DOMAIN links : \E r \in links[n].sent : ~Responsible(r.header)

\* Nothing was sent over a connection, and nothing will be.
Silent ==
  \E n \in DOMAIN links :
    /\ links[n].sent = {}
    /\ ~\E c \in Clients : handle[c] = n /\ phase[c] = "connected"

\* Every request() returns, as long as no client goes away and every connection gets a
\* job of a known scope: data too long to be sent (SocketClient.cpp:190) keeps this
\* client and all others waiting.
RequestReturns ==
  [](~Gone /\ ~UnknownScope /\ ~Silent) =>
    \A c \in Clients : phase[c] = "waiting" ~> phase[c] = "idle"

==============================================================================
