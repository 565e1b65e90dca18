---------------------------- MODULE JobServerProofs ----------------------------
(***************************************************************************)
(* What a client may rely on for any number of clients, jobs and           *)
(* connections, and whatever an answer leaves in the buffer: the server    *)
(* executes only what comes from a job sent over the connection it serves, *)
(* in the order of the connections.                                        *)
(***************************************************************************)
EXTENDS JobServer, SequenceTheorems, TLAPS

\* What waits in a connection was sent over it.
InboxSent ==
  \A n \in DOMAIN links : \A i \in DOMAIN links[n].inbox :
    links[n].inbox[i] \in links[n].sent

\* The connections were made in the order in which they are executed, served, wait.
QueueOrder ==
  /\ \A i \in DOMAIN executed : executed[i].link <= serving
  /\ server = "receive" => \A i \in DOMAIN executed : executed[i].link < serving
  /\ \A i \in DOMAIN backlog : serving < backlog[i]
  /\ \A i, j \in DOMAIN backlog : i < j => backlog[i] < backlog[j]

LEMMA TypeInit == Init => TypeOK
BY DEF Init, TypeOK, Link, Garbage, Header, Scopes, Jobs, Executed

\* The fields of a connection.
LEMMA LinkFacts ==
  ASSUME links \in Seq(Link), NEW n \in DOMAIN links
  PROVE  /\ links[n] \in Link
         /\ links[n].client \in Clients
         /\ links[n].inbox \in Seq(Requests)
         /\ links[n].open \in BOOLEAN
         /\ links[n].sent \in SUBSET Requests
<1>1. links[n] \in Link
  OBVIOUS
<1> QED BY <1>1 DEF Link

\* A connection that is closed.
LEMMA LinkClosed ==
  ASSUME NEW l \in Link
  PROVE  [l EXCEPT !.open = FALSE] \in Link
BY DEF Link

\* A connection with another inbox.
LEMMA LinkInbox ==
  ASSUME NEW l \in Link, NEW i \in Seq(Requests)
  PROVE  /\ [l EXCEPT !.inbox = i] \in Link
         /\ [l EXCEPT !.inbox = i, !.open = FALSE] \in Link
BY DEF Link

\* A connection a job is sent over.
LEMMA LinkSent ==
  ASSUME NEW l \in Link, NEW i \in Seq(Requests), NEW s \in SUBSET Requests
  PROVE  [l EXCEPT !.inbox = i, !.sent = s] \in Link
BY DEF Link

\* A connection that is changed keeps its type.
LEMMA LinkType ==
  ASSUME links \in Seq(Link), NEW n \in DOMAIN links, NEW l \in Link
  PROVE  [links EXCEPT ![n] = l] \in Seq(Link) /\ Len([links EXCEPT ![n] = l]) = Len(links)
OBVIOUS

\* The connections of a server that is down.
LEMMA ClosedType ==
  ASSUME links \in Seq(Link), Down
  PROVE  links' \in Seq(Link) /\ Len(links') = Len(links)
<1>1. \A n \in DOMAIN links : [links[n] EXCEPT !.open = FALSE] \in Link
  <2>1. TAKE n \in DOMAIN links
  <2>2. links[n] \in Link
    BY LinkFacts
  <2> QED BY <2>2, LinkClosed
<1>2. DOMAIN links = 1 .. Len(links) /\ Len(links) \in Nat
  OBVIOUS
<1>3. links' \in [1 .. Len(links) -> Link]
  BY <1>1, <1>2 DEF Down
<1> QED BY <1>2, <1>3

\* A sequence over a set is one over a larger set.
LEMMA LargerSet ==
  ASSUME NEW S, NEW T, S \subseteq T, NEW s \in Seq(S)
  PROVE  s \in Seq(T)
OBVIOUS

\* The history of executed jobs, when the connections only grow.
LEMMA ExecutedType ==
  ASSUME TypeOK, executed' = executed, links' \in Seq(Link), Len(links) <= Len(links')
  PROVE  executed' \in Seq(Executed(DOMAIN links'))
<1> DEFINE S == Executed(DOMAIN links)
           T == Executed(DOMAIN links')
<1>1. DOMAIN links \subseteq DOMAIN links'
  BY DEF TypeOK
<1>2. S \subseteq T
  BY <1>1 DEF Executed
<1>3. executed \in Seq(S)
  BY DEF TypeOK
<1> HIDE DEF S, T
<1>4. executed \in Seq(T)
  BY <1>2, <1>3, LargerSet
<1> QED BY <1>4 DEF T

\* Client steps keep the types.
LEMMA TypeClient ==
  ASSUME TypeOK, NEW c \in Clients, ClientStep(c) \/ Leave(c)
  PROVE  TypeOK'
<1> USE DEF TypeOK
<1>1. CASE Connect(c)
  <2> DEFINE l == [client |-> c, inbox |-> <<>>, open |-> TRUE, sent |-> {}]
  <2>1. l \in Link
    BY DEF Link
  <2>2. links' = Append(links, l)
    BY <1>1 DEF Connect
  <2>3. links' \in Seq(Link) /\ Len(links') = Len(links) + 1 /\ DOMAIN links' = 1 .. (Len(links) + 1)
    BY <2>1, <2>2
  <2> HIDE DEF l
  <2>4. backlog' \in Seq(DOMAIN links')
    BY <1>1, <2>3 DEF Connect
  <2>5. executed' \in Seq(Executed(DOMAIN links'))
    BY <1>1, <2>3, ExecutedType DEF Connect, serverVars
  <2> QED BY <1>1, <2>3, <2>4, <2>5 DEF Connect, serverVars
<1>2. CASE ConnectFails(c)
  BY <1>2 DEF ConnectFails, serverVars
<1>3. CASE Send(c)
  <2> DEFINE n == handle[c]
  <2>1. PICK r \in Requests :
          links' = [links EXCEPT ![n].inbox = Append(@, r), ![n].sent = @ \cup {r}]
    BY <1>3 DEF Send
  <2>2. n \in DOMAIN links
    BY <1>3 DEF Send
  <2>3. links[n] \in Link /\ links[n].inbox \in Seq(Requests) /\ links[n].sent \in SUBSET Requests
    BY <2>2, LinkFacts
  <2> DEFINE l == [links[n] EXCEPT !.inbox = Append(@, r), !.sent = @ \cup {r}]
  <2>4. l \in Link /\ links' = [links EXCEPT ![n] = l]
    <3>1. Append(links[n].inbox, r) \in Seq(Requests) /\ links[n].sent \cup {r} \in SUBSET Requests
      BY <2>3
    <3>2. l \in Link
      BY <2>3, <3>1, LinkSent
    <3>3. links' = [links EXCEPT ![n] = l]
      BY <2>1
    <3> QED BY <3>2, <3>3
  <2>5. links' \in Seq(Link) /\ Len(links') = Len(links) /\ DOMAIN links' = DOMAIN links
    BY <2>4, <2>2, LinkType
  <2> QED BY <1>3, <2>5 DEF Send, serverVars
<1>4. CASE Receive(c)
  BY <1>4 DEF Receive, serverVars
<1>5. CASE SendBroken(c) \/ Leave(c)
  BY <1>5 DEF SendBroken, Leave, serverVars
<1>6. CASE SendNothing(c)
  BY <1>6 DEF SendNothing, serverVars
<1> QED BY <1>1, <1>2, <1>3, <1>4, <1>5, <1>6 DEF ClientStep

\* The connection that is served.
LEMMA Served ==
  ASSUME TypeOK, server = "receive"
  PROVE  serving \in DOMAIN links
BY DEF TypeOK

\* Taking a job from a connection keeps the types of the connections.
LEMMA TypeTaken ==
  ASSUME TypeOK, server = "receive", links[serving].inbox # <<>>,
         \/ links' = [links EXCEPT ![serving].inbox = Tail(@), ![serving].open = FALSE]
         \/ links' = [links EXCEPT ![serving].inbox = Tail(@)]
  PROVE  /\ Head(links[serving].inbox) \in Requests
         /\ links' \in Seq(Link) /\ Len(links') = Len(links) /\ DOMAIN links' = DOMAIN links
<1>1. serving \in DOMAIN links /\ links \in Seq(Link)
  BY Served DEF TypeOK
<1>2. /\ links[serving] \in Link
      /\ links[serving].inbox \in Seq(Requests)
  BY <1>1, LinkFacts
<1>3. Tail(links[serving].inbox) \in Seq(Requests) /\ Head(links[serving].inbox) \in Requests
  BY <1>2
<1> DEFINE t == Tail(links[serving].inbox)
           l == [links[serving] EXCEPT !.inbox = t, !.open = FALSE]
           k == [links[serving] EXCEPT !.inbox = t]
<1>4. l \in Link /\ k \in Link
  <2> HIDE DEF t
  <2> QED BY <1>2, <1>3, LinkInbox DEF t
<1>5. links' = [links EXCEPT ![serving] = l] \/ links' = [links EXCEPT ![serving] = k]
  BY <1>1, <1>2
<1> HIDE DEF l, k
<1>6. links' \in Seq(Link) /\ Len(links') = Len(links)
  BY <1>1, <1>4, <1>5, LinkType
<1> QED BY <1>1, <1>3, <1>6

\* What the agents leave of the header is one.
LEMMA LeftHeader ==
  ASSUME NEW h \in Header, NEW t \in Texts
  PROVE  Left[h][t] \in Header
BY TextsAssumption

\* What the agents store and leave in the buffer.
LEMMA AgentsType ==
  ASSUME TypeOK, NEW r \in Requests, Agents(r.header, r.data)
  PROVE  storage' \in [Texts -> Texts \cup {None}] /\ header' \in Header
<1>1. r.header \in Header /\ r.data \in Texts
  BY RequestsAssumption DEF Request
<1>2. Garbage \in Header
  BY DEF Garbage, Header, Scopes, Jobs
<1>3. AfterBasic(r.header, r.data) \in Header
  BY <1>1, <1>2, LeftHeader DEF AfterBasic
<1>4. ASSUME NEW h \in Header
      PROVE  /\ AfterStorage(h, r.data) \in Header
             /\ Stored(h, r.data) \in [Texts -> Texts \cup {None}]
  <2>1. storage \in [Texts -> Texts \cup {None}]
    BY DEF TypeOK
  <2>2. (IF storage[r.data] = None THEN Empty ELSE storage[r.data]) \in Texts
    BY <1>1, <2>1, TextsAssumption
  <2>3. AfterStorage(h, r.data) \in Header
    BY <1>2, <2>2, LeftHeader DEF AfterStorage
  <2>4. Stored(h, r.data) \in [Texts -> Texts \cup {None}]
    BY <1>1, <2>1, TextsAssumption DEF Stored
  <2> QED BY <2>3, <2>4
<1> QED BY <1>1, <1>3, <1>4 DEF Agents, TypeOK

\* What the agents execute: one job that comes from r, or two, the basic agent first.
LEMMA AgentsEntries ==
  ASSUME TypeOK, server = "receive", NEW r \in Requests, Agents(r.header, r.data)
  PROVE  /\ \/ \E e \in Executed(DOMAIN links) :
                /\ executed' = Append(executed, e)
                /\ e.link = serving /\ ComesFrom(e, r)
            \/ \E d, e \in Executed(DOMAIN links) :
                /\ executed' = Append(Append(executed, d), e)
                /\ d.link = serving /\ d.agent = "basic" /\ ComesFrom(d, r)
                /\ e.link = serving /\ e.agent = "storage" /\ ComesFrom(e, r)
         /\ executed' \in Seq(Executed(DOMAIN links))
<1> DEFINE h == r.header
           left == IF h.scope = "basic" THEN AfterBasic(h, r.data) ELSE h
           d == Entry("basic", h, r.data)
           e == Entry("storage", left, r.data)
<1>1. /\ h \in Header /\ r.data \in Texts /\ serving \in DOMAIN links
      /\ h.scope \in Scopes /\ h.job \in Jobs /\ h = [scope |-> h.scope, job |-> h.job]
  BY Served, RequestsAssumption DEF Request, Header
<1>2. /\ d \in Executed(DOMAIN links) /\ d.link = serving /\ d.agent = "basic"
      /\ d.job = h.job /\ d.data = r.data
  BY <1>1 DEF Entry, Executed
<1>3. h.scope = "basic" => ComesFrom(d, r)
  BY <1>1, <1>2 DEF ComesFrom
<1>4. left \in Header
  BY <1>1, LeftHeader DEF AfterBasic, Garbage, Header, Scopes, Jobs
<1>5. left.job \in Jobs /\ left = [scope |-> left.scope, job |-> left.job]
  <2> HIDE DEF left
  <2> QED BY <1>4 DEF Header
<1>6. /\ e \in Executed(DOMAIN links) /\ e.link = serving /\ e.agent = "storage"
      /\ e.job = left.job /\ e.data = r.data
  <2> HIDE DEF left
  <2> QED BY <1>1, <1>5 DEF Entry, Executed
<1>7. ASSUME left.scope = "storage" PROVE ComesFrom(e, r)
  <2>1. CASE h.scope = "basic"
    <3>1. h.job = "echo" /\ left = Left[h][r.data]
      BY <2>1, <1>7 DEF AfterBasic, Garbage
    <3>2. h = [scope |-> "basic", job |-> "echo"]
      BY <2>1, <1>1, <3>1
    <3>3. Left[r.header][r.data] = [scope |-> "storage", job |-> e.job]
      BY <1>5, <1>6, <1>7, <3>1
    <3> QED BY <3>2, <3>3, <1>6 DEF ComesFrom
  <2>2. CASE h.scope # "basic"
    BY <2>2, <1>1, <1>6, <1>7 DEF ComesFrom
  <2> QED BY <2>1, <2>2
<1>8. \/ h.scope = "basic" /\ executed' = Append(executed, d)
      \/ /\ left.scope = "storage"
         /\ executed' = Append(IF h.scope = "basic" THEN Append(executed, d) ELSE executed, e)
  BY DEF Agents
<1>9. executed \in Seq(Executed(DOMAIN links))
  BY DEF TypeOK
<1> HIDE DEF h, left, d, e
<1>10. executed' \in Seq(Executed(DOMAIN links))
  BY <1>2, <1>6, <1>8, <1>9
<1> QED BY <1>2, <1>3, <1>6, <1>7, <1>8, <1>10

\* Steps of the server keep the types.
LEMMA TypeServer ==
  ASSUME TypeOK, ServerStep \/ AcceptFails
  PROVE  TypeOK'
<1> USE DEF TypeOK, clientVars
<1>1. CASE Start
  BY <1>1 DEF Start
<1>2. CASE Accept
  BY <1>2 DEF Accept
<1>3. CASE AcceptFails
  <2>1. links' \in Seq(Link) /\ Len(links') = Len(links)
    BY <1>3, ClosedType DEF AcceptFails
  <2>2. executed' \in Seq(Executed(DOMAIN links'))
    BY <1>3, <2>1, ExecutedType DEF AcceptFails
  <2> QED BY <1>3, <2>1, <2>2 DEF AcceptFails, Down
<1>4. CASE DoIt
  <2>1. server = "receive" /\ UNCHANGED <<clientVars, serving>>
    BY <1>4 DEF DoIt
  <2>2. CASE Serve
    <3> DEFINE r == Head(links[serving].inbox)
    <3>1. links[serving].inbox # <<>> /\ links' = [links EXCEPT ![serving].inbox = Tail(@), ![serving].open = FALSE]
      BY <2>2 DEF Serve
    <3>2. /\ r \in Requests
          /\ links' \in Seq(Link) /\ Len(links') = Len(links) /\ DOMAIN links' = DOMAIN links
      BY <2>1, <3>1, TypeTaken
    <3>3. Agents(r.header, r.data)
      BY <2>2 DEF Serve
    <3>4. storage' \in [Texts -> Texts \cup {None}] /\ header' \in Header
      BY <3>2, <3>3, AgentsType
    <3>5. executed' \in Seq(Executed(DOMAIN links'))
      BY <2>1, <3>2, <3>3, AgentsEntries
    <3>6. server' = "accept" /\ backlog' \in Seq(DOMAIN links')
      BY <2>2, <3>2 DEF Serve
    <3> QED BY <2>1, <3>2, <3>3, <3>4, <3>5, <3>6
  <2>3. CASE ServeNobody
    <3>1. links[serving].inbox # <<>> /\ links' = [links EXCEPT ![serving].inbox = Tail(@)]
      BY <2>3 DEF ServeNobody
    <3>2. /\ Head(links[serving].inbox) \in Requests
          /\ links' \in Seq(Link) /\ Len(links') = Len(links) /\ DOMAIN links' = DOMAIN links
      BY <2>1, <3>1, TypeTaken
    <3>3. header' \in Header /\ UNCHANGED <<backlog, server, storage, executed>>
      BY <2>3, <3>2, RequestsAssumption DEF ServeNobody, Request
    <3> QED BY <2>1, <3>2, <3>3
  <2>4. CASE ServeClosed
    <3>1. links' \in Seq(Link) /\ Len(links') = Len(links)
      BY <2>4, ClosedType DEF ServeClosed
    <3>2. executed' \in Seq(Executed(DOMAIN links'))
      BY <2>4, <3>1, ExecutedType DEF ServeClosed
    <3> QED BY <2>1, <2>4, <3>1, <3>2 DEF ServeClosed, Down
  <2> QED BY <1>4, <2>2, <2>3, <2>4 DEF DoIt
<1> QED BY <1>1, <1>2, <1>3, <1>4 DEF ServerStep

\* The type invariant holds for any number of clients, jobs and connections.
THEOREM JobServerType == Spec => []TypeOK
<1>1. TypeOK /\ [Next]_vars => TypeOK'
  <2> SUFFICES ASSUME TypeOK, [Next]_vars PROVE TypeOK'
    OBVIOUS
  <2>1. CASE ServerStep \/ AcceptFails
    BY <2>1, TypeServer
  <2>2. CASE \E c \in Clients : ClientStep(c) \/ Leave(c)
    BY <2>2, TypeClient
  <2>3. CASE UNCHANGED vars
    BY <2>3 DEF vars, clientVars, serverVars, TypeOK
  <2> QED BY <2>1, <2>2, <2>3 DEF Next
<1> QED BY <1>1, TypeInit, PTL DEF Spec

------------------------------------------------------------------------------
(* Only jobs that were sent *)

\* What a step of a client or of the server may do with a connection.
Grows(n) ==
  /\ n \in DOMAIN links'
  /\ links[n].sent \subseteq links'[n].sent
  /\ \A i \in DOMAIN links'[n].inbox : links'[n].inbox[i] \in links'[n].sent

\* The fields of a connection that is closed.
LEMMA ClosedFields ==
  ASSUME NEW l \in Link
  PROVE  LET k == [l EXCEPT !.open = FALSE]
         IN k.inbox = l.inbox /\ k.sent = l.sent
BY DEF Link

\* The fields of one with another inbox.
LEMMA InboxFields ==
  ASSUME NEW l \in Link, NEW i \in Seq(Requests)
  PROVE  /\ [l EXCEPT !.inbox = i].inbox = i
         /\ [l EXCEPT !.inbox = i].sent = l.sent
         /\ [l EXCEPT !.inbox = i, !.open = FALSE].inbox = i
         /\ [l EXCEPT !.inbox = i, !.open = FALSE].sent = l.sent
BY DEF Link

\* The fields of one a job is sent over.
LEMMA SentFields ==
  ASSUME NEW l \in Link, NEW i \in Seq(Requests), NEW s \in SUBSET Requests
  PROVE  /\ [l EXCEPT !.inbox = i, !.sent = s].inbox = i
         /\ [l EXCEPT !.inbox = i, !.sent = s].sent = s
BY DEF Link

\* A job that is appended is sent.
LEMMA AppendSent ==
  ASSUME NEW q \in Seq(Requests), NEW s \in SUBSET Requests, NEW r \in Requests,
         \A i \in DOMAIN q : q[i] \in s
  PROVE  \A i \in DOMAIN Append(q, r) : Append(q, r)[i] \in s \cup {r}
OBVIOUS

\* A job that is taken was sent, as well as the rest.
LEMMA TailSent ==
  ASSUME NEW q \in Seq(Requests), NEW s, q # <<>>, \A i \in DOMAIN q : q[i] \in s
  PROVE  Head(q) \in s /\ \A i \in DOMAIN Tail(q) : Tail(q)[i] \in s
OBVIOUS

\* Closing all connections changes no job.
LEMMA DownGrows ==
  ASSUME TypeOK, InboxSent, Down
  PROVE  \A n \in DOMAIN links : Grows(n)
<1>1. TAKE n \in DOMAIN links
<1>2. links \in Seq(Link)
  BY DEF TypeOK
<1>3. links[n] \in Link
  BY <1>2, LinkFacts
<1>4. n \in DOMAIN links' /\ links'[n] = [links[n] EXCEPT !.open = FALSE]
  BY DEF Down
<1>5. links'[n].inbox = links[n].inbox /\ links'[n].sent = links[n].sent
  BY <1>3, <1>4, ClosedFields
<1> QED BY <1>4, <1>5 DEF InboxSent, Grows

\* A job is taken from a connection: it was sent over it.
LEMMA TakenGrows ==
  ASSUME TypeOK, InboxSent, server = "receive", links[serving].inbox # <<>>,
         \/ links' = [links EXCEPT ![serving].inbox = Tail(@), ![serving].open = FALSE]
         \/ links' = [links EXCEPT ![serving].inbox = Tail(@)]
  PROVE  /\ \A n \in DOMAIN links : Grows(n)
         /\ DOMAIN links' = DOMAIN links
         /\ Head(links[serving].inbox) \in links[serving].sent
<1>1. serving \in DOMAIN links /\ links \in Seq(Link)
  BY Served DEF TypeOK
<1>2. links[serving] \in Link /\ links[serving].inbox \in Seq(Requests)
  BY <1>1, LinkFacts
<1> DEFINE q == links[serving].inbox
           t == Tail(q)
           l == [links[serving] EXCEPT !.inbox = t, !.open = FALSE]
           k == [links[serving] EXCEPT !.inbox = t]
<1>3. t \in Seq(Requests)
  BY <1>2
<1>4. /\ l.inbox = t /\ l.sent = links[serving].sent
      /\ k.inbox = t /\ k.sent = links[serving].sent
  <2> HIDE DEF t
  <2> QED BY <1>2, <1>3, InboxFields
<1>5. links' = [links EXCEPT ![serving] = l] \/ links' = [links EXCEPT ![serving] = k]
  BY <1>1, <1>2
<1>6. Head(q) \in links[serving].sent /\ \A i \in DOMAIN t : t[i] \in links[serving].sent
  <2>1. \A i \in DOMAIN q : q[i] \in links[serving].sent
    BY <1>1 DEF InboxSent
  <2> HIDE DEF q
  <2> QED BY <2>1, <1>2, TailSent DEF q
<1> HIDE DEF l, k, t
<1>7. /\ links'[serving].inbox = t /\ links'[serving].sent = links[serving].sent
      /\ \A n \in DOMAIN links : n # serving => links'[n] = links[n]
      /\ DOMAIN links' = DOMAIN links
  BY <1>1, <1>4, <1>5
<1>8. ASSUME NEW n \in DOMAIN links PROVE Grows(n)
  <2>1. CASE n = serving
    BY <2>1, <1>1, <1>6, <1>7 DEF Grows
  <2>2. CASE n # serving
    <3>1. links'[n] = links[n] /\ n \in DOMAIN links'
      BY <2>2, <1>7
    <3> QED BY <3>1 DEF Grows, InboxSent
  <2> QED BY <2>1, <2>2
<1> QED BY <1>6, <1>7, <1>8

\* An entry of a sequence.
LEMMA EntryOf ==
  ASSUME NEW S, NEW s \in Seq(S), NEW i \in DOMAIN s
  PROVE  s[i] \in S
OBVIOUS

\* An entry of a sequence and the one behind.
LEMMA AppendAt ==
  ASSUME NEW S, NEW s \in Seq(S), NEW x
  PROVE  /\ DOMAIN Append(s, x) = 1 .. (Len(s) + 1)
         /\ DOMAIN s = 1 .. Len(s) /\ Len(s) \in Nat
         /\ \A i \in DOMAIN s : Append(s, x)[i] = s[i]
         /\ Append(s, x)[Len(s) + 1] = x
OBVIOUS

\* The connection of an executed job.
LEMMA ExecutedLink ==
  ASSUME TypeOK, NEW i \in DOMAIN executed
  PROVE  executed[i].link \in DOMAIN links
<1> DEFINE S == Executed(DOMAIN links)
<1>1. executed \in Seq(S)
  BY DEF TypeOK
<1> HIDE DEF S
<1>2. executed[i] \in S
  BY <1>1, EntryOf
<1> QED BY <1>2 DEF S, Executed

\* What was executed before was sent, and a connection that grows keeps that.
LEMMA ExecutedStays ==
  ASSUME TypeOK, JobsComeFromLink, \A n \in DOMAIN links : Grows(n), executed' = executed
  PROVE  JobsComeFromLink'
<1>1. SUFFICES ASSUME NEW i \in DOMAIN executed
               PROVE  \E r \in links'[executed[i].link].sent : ComesFrom(executed[i], r)
  BY DEF JobsComeFromLink, ComesFrom
<1>2. executed[i].link \in DOMAIN links
  BY ExecutedLink
<1> QED BY <1>2 DEF JobsComeFromLink, Grows

\* Each entry of s comes from a job sent over its connection of l.
AllSent(s, l) ==
  \A i \in DOMAIN s : \E r \in l[s[i].link].sent : ComesFrom(s[i], r)

\* One entry more.
LEMMA AppendAllSent ==
  ASSUME NEW S, NEW s \in Seq(S), NEW l, AllSent(s, l),
         NEW e \in S, NEW r \in l[e.link].sent, ComesFrom(e, r)
  PROVE  AllSent(Append(s, e), l) /\ Append(s, e) \in Seq(S)
<1>1. /\ DOMAIN Append(s, e) = 1 .. (Len(s) + 1)
      /\ DOMAIN s = 1 .. Len(s) /\ Len(s) \in Nat
      /\ \A i \in DOMAIN s : Append(s, e)[i] = s[i]
      /\ Append(s, e)[Len(s) + 1] = e
  BY AppendAt
<1>2. ASSUME NEW i \in 1 .. (Len(s) + 1)
      PROVE  \E q \in l[Append(s, e)[i].link].sent : ComesFrom(Append(s, e)[i], q)
  <2>1. CASE i \in DOMAIN s
    BY <1>1, <2>1 DEF AllSent
  <2>2. CASE i = Len(s) + 1
    BY <1>1, <2>2
  <2> QED BY <1>1, <2>1, <2>2
<1> QED BY <1>1, <1>2 DEF AllSent

\* The inboxes, when no connection is opened.
LEMMA InboxStays ==
  ASSUME \A n \in DOMAIN links : Grows(n), DOMAIN links' = DOMAIN links
  PROVE  InboxSent'
BY DEF Grows, InboxSent

SentInv == TypeOK /\ InboxSent /\ JobsComeFromLink

\* The steps of a client.
LEMMA SentClient ==
  ASSUME SentInv, NEW c \in Clients, ClientStep(c) \/ Leave(c)
  PROVE  InboxSent' /\ JobsComeFromLink'
<1> USE DEF SentInv
<1>0. links \in Seq(Link) /\ DOMAIN links = 1 .. Len(links) /\ Len(links) \in Nat
  BY DEF TypeOK
<1>1. CASE Connect(c)
  <2> DEFINE l == [client |-> c, inbox |-> <<>>, open |-> TRUE, sent |-> {}]
  <2>1. links' = Append(links, l) /\ l.inbox = <<>>
    BY <1>1 DEF Connect
  <2> HIDE DEF l
  <2>2. /\ DOMAIN links' = 1 .. (Len(links) + 1)
        /\ \A n \in DOMAIN links : links'[n] = links[n]
        /\ links'[Len(links) + 1] = l
    BY <1>0, <2>1
  <2>3. \A n \in DOMAIN links : Grows(n)
    BY <1>0, <2>2 DEF Grows, InboxSent
  <2>4. InboxSent'
    BY <1>0, <2>1, <2>2 DEF InboxSent
  <2>5. executed' = executed
    BY <1>1 DEF Connect, serverVars
  <2> QED BY <2>3, <2>4, <2>5, ExecutedStays
<1>2. CASE Send(c)
  <2> DEFINE n == handle[c]
  <2>1. PICK r \in Requests :
          links' = [links EXCEPT ![n].inbox = Append(@, r), ![n].sent = @ \cup {r}]
    BY <1>2 DEF Send
  <2>2. n \in DOMAIN links
    BY <1>2 DEF Send, TypeOK
  <2>3. links[n] \in Link /\ links[n].inbox \in Seq(Requests) /\ links[n].sent \in SUBSET Requests
    BY <1>0, <2>2, LinkFacts
  <2> DEFINE q == Append(links[n].inbox, r)
             s == links[n].sent \cup {r}
             l == [links[n] EXCEPT !.inbox = q, !.sent = s]
  <2>4. q \in Seq(Requests) /\ s \in SUBSET Requests
    BY <2>3
  <2>5. l.inbox = q /\ l.sent = s
    <3> HIDE DEF q, s
    <3> QED BY <2>3, <2>4, SentFields
  <2>6. links' = [links EXCEPT ![n] = l]
    BY <2>1
  <2>7. \A i \in DOMAIN q : q[i] \in s
    <3>1. \A i \in DOMAIN links[n].inbox : links[n].inbox[i] \in links[n].sent
      BY <2>2 DEF InboxSent
    <3> QED BY <2>3, <3>1, AppendSent
  <2> HIDE DEF l, q, n
  <2>8. /\ links'[n].inbox = q /\ links'[n].sent = s
        /\ \A m \in DOMAIN links : m # n => links'[m] = links[m]
        /\ DOMAIN links' = DOMAIN links
    BY <1>0, <2>2, <2>5, <2>6
  <2>9. ASSUME NEW m \in DOMAIN links PROVE Grows(m)
    <3>1. CASE m = n
      BY <3>1, <2>2, <2>7, <2>8 DEF Grows
    <3>2. CASE m # n
      <4>1. links'[m] = links[m] /\ m \in DOMAIN links'
        BY <3>2, <2>8
      <4> QED BY <4>1 DEF Grows, InboxSent
    <3> QED BY <3>1, <3>2
  <2>10. executed' = executed
    BY <1>2 DEF Send, serverVars
  <2> QED BY <2>8, <2>9, <2>10, ExecutedStays, InboxStays
<1>3. CASE UNCHANGED <<links, executed>>
  BY <1>3 DEF InboxSent, JobsComeFromLink
<1> QED
  BY <1>1, <1>2, <1>3
  DEF ClientStep, ConnectFails, SendNothing, Receive, SendBroken, Leave, serverVars

\* The steps of the server.
LEMMA SentServer ==
  ASSUME SentInv, ServerStep \/ AcceptFails
  PROVE  InboxSent' /\ JobsComeFromLink'
<1> USE DEF SentInv
<1>1. CASE Down /\ executed' = executed
  <2>1. \A n \in DOMAIN links : Grows(n)
    BY <1>1, DownGrows
  <2>2. DOMAIN links' = DOMAIN links
    BY <1>1 DEF Down
  <2> QED BY <1>1, <2>1, <2>2, ExecutedStays, InboxStays
<1>2. CASE server = "receive" /\ Serve
  <2> DEFINE r == Head(links[serving].inbox)
  <2>1. /\ links[serving].inbox # <<>>
        /\ links' = [links EXCEPT ![serving].inbox = Tail(@), ![serving].open = FALSE]
    BY <1>2 DEF Serve
  <2>2. /\ \A n \in DOMAIN links : Grows(n)
        /\ DOMAIN links' = DOMAIN links
        /\ r \in links[serving].sent
        /\ serving \in DOMAIN links
    BY <1>2, <2>1, TakenGrows, Served
  <2>3. r \in Requests /\ Agents(r.header, r.data) /\ r \in links'[serving].sent
    BY <1>2, <2>1, <2>2, TypeTaken DEF Serve, Grows
  <2>4. AllSent(executed, links')
    <3> SUFFICES ASSUME NEW i \in DOMAIN executed
                 PROVE  \E q \in links'[executed[i].link].sent : ComesFrom(executed[i], q)
      BY DEF AllSent
    <3>1. executed[i].link \in DOMAIN links
      BY ExecutedLink
    <3> QED BY <2>2, <3>1 DEF JobsComeFromLink, Grows
  <2> DEFINE S == Executed(DOMAIN links)
  <2>5. executed \in Seq(S)
    BY DEF TypeOK
  <2>6. \/ \E e \in S : /\ executed' = Append(executed, e)
                        /\ e.link = serving /\ ComesFrom(e, r)
        \/ \E d, e \in S : /\ executed' = Append(Append(executed, d), e)
                           /\ d.link = serving /\ ComesFrom(d, r)
                           /\ e.link = serving /\ ComesFrom(e, r)
    BY <1>2, <2>3, AgentsEntries
  <2> HIDE DEF r, S
  <2>7. AllSent(executed', links')
    <3>1. CASE \E e \in S : /\ executed' = Append(executed, e)
                           /\ e.link = serving /\ ComesFrom(e, r)
      BY <3>1, <2>3, <2>4, <2>5, AppendAllSent
    <3>2. CASE \E d, e \in S : /\ executed' = Append(Append(executed, d), e)
                              /\ d.link = serving /\ ComesFrom(d, r)
                              /\ e.link = serving /\ ComesFrom(e, r)
      <4>1. PICK d \in S, e \in S : /\ executed' = Append(Append(executed, d), e)
                                   /\ d.link = serving /\ ComesFrom(d, r)
                                   /\ e.link = serving /\ ComesFrom(e, r)
        BY <3>2
      <4>2. AllSent(Append(executed, d), links') /\ Append(executed, d) \in Seq(S)
        BY <4>1, <2>3, <2>4, <2>5, AppendAllSent
      <4> QED BY <4>1, <4>2, <2>3, AppendAllSent
    <3> QED BY <2>6, <3>1, <3>2
  <2>8. JobsComeFromLink'
    BY <2>7 DEF AllSent, JobsComeFromLink, ComesFrom
  <2> QED BY <2>2, <2>8, InboxStays
<1>3. CASE server = "receive" /\ ServeNobody
  <2>1. /\ links[serving].inbox # <<>>
        /\ links' = [links EXCEPT ![serving].inbox = Tail(@)]
        /\ executed' = executed
    BY <1>3 DEF ServeNobody
  <2> QED BY <1>3, <2>1, TakenGrows, ExecutedStays, InboxStays
<1>4. CASE UNCHANGED <<links, executed>>
  BY <1>4 DEF InboxSent, JobsComeFromLink
<1> QED
  BY <1>1, <1>2, <1>3, <1>4
  DEF ServerStep, Start, Accept, AcceptFails, DoIt, ServeClosed

\* The server executes only what comes from a job sent over the connection it serves,
\* whatever answers and earlier jobs have left in its buffer (SocketServer.cpp:219).
THEOREM ExecutedJobsSent == Spec => []JobsComeFromLink
<1>1. Init => SentInv
  BY TypeInit DEF Init, SentInv, InboxSent, JobsComeFromLink
<1>2. SentInv /\ [Next]_vars => SentInv'
  <2> SUFFICES ASSUME SentInv, [Next]_vars PROVE SentInv'
    OBVIOUS
  <2>1. CASE ServerStep \/ AcceptFails
    BY <2>1, SentServer, TypeServer DEF SentInv
  <2>2. CASE \E c \in Clients : ClientStep(c) \/ Leave(c)
    BY <2>2, SentClient, TypeClient DEF SentInv
  <2>3. CASE UNCHANGED vars
    <3>1. TypeOK'
      BY <2>3 DEF vars, clientVars, serverVars, TypeOK, SentInv
    <3>2. InboxSent' /\ JobsComeFromLink'
      BY <2>3 DEF vars, serverVars, InboxSent, JobsComeFromLink, SentInv
    <3> QED BY <3>1, <3>2 DEF SentInv
  <2> QED BY <2>1, <2>2, <2>3 DEF Next
<1>3. SentInv => JobsComeFromLink
  BY DEF SentInv
<1> QED BY <1>1, <1>2, <1>3, PTL DEF Spec

------------------------------------------------------------------------------
(* The order of the connections *)

OrderInv == TypeOK /\ QueueOrder /\ InOrder

\* InOrder of any history.
InSequence(s) ==
  \A i, j \in DOMAIN s : i < j =>
    \/ s[i].link < s[j].link
    \/ /\ s[i].link = s[j].link
       /\ s[i].agent = "basic" /\ s[j].agent = "storage"

\* A step that changes neither the queue nor the history.
LEMMA OrderStays ==
  ASSUME OrderInv, UNCHANGED <<executed, serving>>, server' = "receive" => server = "receive",
         backlog' = backlog \/ backlog' = <<>>
  PROVE  QueueOrder' /\ InOrder'
BY DEF OrderInv, QueueOrder, InOrder

\* A connection that is opened waits behind all others.
LEMMA OrderConnect ==
  ASSUME OrderInv, NEW c \in Clients, Connect(c)
  PROVE  QueueOrder' /\ InOrder'
<1> USE DEF OrderInv
<1>1. /\ Len(links') = Len(links) + 1 /\ Len(links) \in Nat
      /\ backlog' = Append(backlog, Len(links) + 1)
      /\ UNCHANGED <<executed, serving, server>>
  BY DEF Connect, TypeOK, serverVars
<1>2. backlog \in Seq(1 .. Len(links)) /\ serving \in 0 .. Len(links)
  BY DEF TypeOK
<1>3. /\ DOMAIN backlog' = 1 .. (Len(backlog) + 1)
      /\ DOMAIN backlog = 1 .. Len(backlog) /\ Len(backlog) \in Nat
      /\ \A i \in DOMAIN backlog : backlog'[i] = backlog[i] /\ backlog[i] \in 1 .. Len(links)
      /\ backlog'[Len(backlog) + 1] = Len(links) + 1
  BY <1>1, <1>2, AppendAt, EntryOf
<1>4. \A i \in DOMAIN backlog' : serving' < backlog'[i]
  BY <1>1, <1>2, <1>3 DEF QueueOrder
<1>5. \A i, j \in DOMAIN backlog' : i < j => backlog'[i] < backlog'[j]
  BY <1>1, <1>3 DEF QueueOrder
<1> QED BY <1>1, <1>4, <1>5 DEF QueueOrder, InOrder

\* The connection that is accepted came after all that were served.
LEMMA OrderAccept ==
  ASSUME OrderInv, Accept
  PROVE  QueueOrder' /\ InOrder'
<1> USE DEF OrderInv
<1>1. /\ backlog # <<>> /\ serving' = Head(backlog) /\ backlog' = Tail(backlog)
      /\ server' = "receive" /\ executed' = executed
  BY DEF Accept
<1>2. backlog \in Seq(1 .. Len(links)) /\ Len(links) \in Nat
  BY DEF TypeOK
<1>3. /\ DOMAIN backlog' = 1 .. (Len(backlog) - 1) /\ DOMAIN backlog = 1 .. Len(backlog)
      /\ Len(backlog) \in Nat \ {0} /\ serving' = backlog[1]
      /\ \A i \in DOMAIN backlog' : backlog'[i] = backlog[i + 1]
  BY <1>1, <1>2
<1>4. \A i \in DOMAIN backlog' : i + 1 \in DOMAIN backlog
  BY <1>3
<1>5. \A i \in DOMAIN backlog' : serving' < backlog'[i]
  BY <1>3, <1>4 DEF QueueOrder
<1>6. \A i, j \in DOMAIN backlog' : i < j => backlog'[i] < backlog'[j]
  BY <1>3, <1>4 DEF QueueOrder
<1>7. serving < serving' /\ serving \in Nat /\ serving' \in Nat
  <2>1. backlog[1] \in 1 .. Len(links) /\ 1 \in DOMAIN backlog
    BY <1>2, <1>3
  <2>2. serving \in 0 .. Len(links) /\ serving < backlog[1]
    BY <2>1 DEF QueueOrder, TypeOK
  <2> QED BY <1>2, <1>3, <2>1, <2>2
<1>8. \A i \in DOMAIN executed : executed[i].link \in Nat /\ executed[i].link <= serving
  BY <1>2, ExecutedLink DEF QueueOrder
<1>9. \A i \in DOMAIN executed : executed[i].link < serving'
  BY <1>7, <1>8
<1> QED BY <1>1, <1>5, <1>6, <1>7, <1>8, <1>9 DEF QueueOrder, InOrder

\* The history s is in order and ends before the connection n, or with an entry of it
\* of the basic agent.
Ordered(s, n) ==
  /\ \A i \in DOMAIN s : /\ s[i].link \in Nat
                         /\ s[i].link < n \/ (s[i].link = n /\ s[i].agent = "basic")
  /\ InSequence(s)

\* An entry of the connection n may follow.
LEMMA AppendOrdered ==
  ASSUME NEW S, NEW s \in Seq(S), NEW n \in Nat, Ordered(s, n), NEW e \in S, e.link = n,
         \/ e.agent = "storage"
         \/ \A i \in DOMAIN s : s[i].link < n
  PROVE  /\ InSequence(Append(s, e)) /\ Append(s, e) \in Seq(S)
         /\ e.agent = "basic" => Ordered(Append(s, e), n)
         /\ \A i \in DOMAIN Append(s, e) : Append(s, e)[i].link <= n
<1> DEFINE t == Append(s, e)
<1>1. /\ DOMAIN t = 1 .. (Len(s) + 1) /\ DOMAIN s = 1 .. Len(s) /\ Len(s) \in Nat
      /\ \A i \in DOMAIN s : t[i] = s[i]
      /\ t[Len(s) + 1] = e
  BY AppendAt
<1> HIDE DEF t
<1>2. \A i \in DOMAIN s : t[i].link \in Nat /\ t[i].link <= n
  BY <1>1 DEF Ordered
<1>3. InSequence(t)
  <2> SUFFICES ASSUME NEW i \in DOMAIN t, NEW j \in DOMAIN t, i < j
               PROVE  \/ t[i].link < t[j].link
                      \/ /\ t[i].link = t[j].link
                         /\ t[i].agent = "basic" /\ t[j].agent = "storage"
    BY DEF InSequence
  <2>1. i \in DOMAIN s
    BY <1>1
  <2>2. CASE j \in DOMAIN s
    BY <1>1, <2>1, <2>2 DEF Ordered, InSequence
  <2>3. CASE j = Len(s) + 1
    BY <1>1, <2>1, <2>3 DEF Ordered
  <2> QED BY <1>1, <2>2, <2>3
<1>4. \A i \in DOMAIN t : t[i].link <= n
  BY <1>1, <1>2
<1>5. e.agent = "basic" => Ordered(t, n)
  BY <1>1, <1>3 DEF Ordered
<1>6. t \in Seq(S)
  BY DEF t
<1> QED BY <1>3, <1>4, <1>5, <1>6 DEF t

\* Jobs are executed for the connection that is served, the last of all.
LEMMA OrderServe ==
  ASSUME OrderInv, server = "receive", serving' = serving, Serve
  PROVE  QueueOrder' /\ InOrder'
<1> USE DEF OrderInv
<1> DEFINE r == Head(links[serving].inbox)
           S == Executed(DOMAIN links)
<1>1. server' = "accept" /\ backlog' = backlog /\ Agents(r.header, r.data)
  BY DEF Serve
<1>2. executed \in Seq(S) /\ serving \in Nat
  BY DEF TypeOK
<1>3. r \in Requests
  BY TypeTaken DEF Serve
<1>4. \/ \E e \in S : executed' = Append(executed, e) /\ e.link = serving
      \/ \E d, e \in S : /\ executed' = Append(Append(executed, d), e)
                         /\ d.link = serving /\ d.agent = "basic"
                         /\ e.link = serving /\ e.agent = "storage"
  BY <1>1, <1>3, AgentsEntries
<1>5. \A i \in DOMAIN executed : executed[i].link \in Nat /\ executed[i].link < serving
  BY ExecutedLink DEF QueueOrder, TypeOK
<1>6. Ordered(executed, serving)
  BY <1>5 DEF Ordered, InOrder, InSequence
<1> HIDE DEF r, S
<1>7. InSequence(executed') /\ \A i \in DOMAIN executed' : executed'[i].link <= serving
  <2>1. CASE \E e \in S : executed' = Append(executed, e) /\ e.link = serving
    BY <2>1, <1>2, <1>5, <1>6, AppendOrdered
  <2>2. CASE \E d, e \in S : /\ executed' = Append(Append(executed, d), e)
                            /\ d.link = serving /\ d.agent = "basic"
                            /\ e.link = serving /\ e.agent = "storage"
    <3>1. PICK d \in S, e \in S : /\ executed' = Append(Append(executed, d), e)
                                 /\ d.link = serving /\ d.agent = "basic"
                                 /\ e.link = serving /\ e.agent = "storage"
      BY <2>2
    <3>2. Ordered(Append(executed, d), serving) /\ Append(executed, d) \in Seq(S)
      BY <3>1, <1>2, <1>5, <1>6, AppendOrdered
    <3> QED BY <3>1, <3>2, <1>2, AppendOrdered
  <2> QED BY <1>4, <2>1, <2>2
<1> QED BY <1>1, <1>7 DEF QueueOrder, InOrder, InSequence

\* The jobs of a client that sends without waiting are executed in its order; for each
\* connection every agent runs at most once, the basic one first (SocketServer.cpp:151).
THEOREM JobsInOrder == Spec => []InOrder
<1>1. Init => OrderInv
  BY TypeInit DEF Init, OrderInv, QueueOrder, InOrder
<1>2. OrderInv /\ [Next]_vars => OrderInv'
  <2> SUFFICES ASSUME OrderInv, [Next]_vars PROVE OrderInv'
    OBVIOUS
  <2>1. TypeOK'
    BY TypeClient, TypeServer DEF OrderInv, Next, TypeOK, vars, clientVars, serverVars
  <2> SUFFICES QueueOrder' /\ InOrder'
    BY <2>1 DEF OrderInv
  <2>2. CASE ServerStep \/ AcceptFails
    <3>1. CASE Start
      BY <3>1, OrderStays DEF Start
    <3>2. CASE Accept
      BY <3>2, OrderAccept
    <3>3. CASE AcceptFails
      BY <3>3, OrderStays DEF AcceptFails, Down
    <3>4. CASE DoIt
      <4>1. server = "receive" /\ serving' = serving
        BY <3>4 DEF DoIt
      <4>2. CASE Serve
        BY <4>1, <4>2, OrderServe
      <4>3. CASE ServeNobody
        BY <4>1, <4>3, OrderStays DEF ServeNobody
      <4>4. CASE ServeClosed
        BY <4>1, <4>4, OrderStays DEF ServeClosed, Down
      <4> QED BY <3>4, <4>2, <4>3, <4>4 DEF DoIt
    <3> QED BY <2>2, <3>1, <3>2, <3>3, <3>4 DEF ServerStep
  <2>3. CASE \E c \in Clients : ClientStep(c) \/ Leave(c)
    <3>1. PICK c \in Clients : ClientStep(c) \/ Leave(c)
      BY <2>3
    <3>2. CASE Connect(c)
      BY <3>2, OrderConnect
    <3>3. CASE UNCHANGED <<executed, serving, server, backlog>>
      BY <3>3, OrderStays
    <3> QED
      BY <3>1, <3>2, <3>3
      DEF ClientStep, ConnectFails, Send, SendNothing, Receive, SendBroken, Leave, serverVars
  <2>4. CASE UNCHANGED vars
    BY <2>4, OrderStays DEF vars, serverVars
  <2> QED BY <2>2, <2>3, <2>4 DEF Next
<1>3. OrderInv => InOrder
  BY DEF OrderInv
<1> QED BY <1>1, <1>2, <1>3, PTL DEF Spec

==============================================================================
