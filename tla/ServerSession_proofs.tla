------------------------- MODULE ServerSession_proofs -------------------------
(***************************************************************************)
(* Safety of ServerSession for any number of connections, renegotiations   *)
(* and faults.                                                             *)
(*                                                                         *)
(* Which attempt an answer or a candidate is of is known by its tag and    *)
(* its socket: NamesItsAttempt says of everything under way to the server  *)
(* that the two agree, or that the message was made for an earlier socket. *)
(* In the other direction OfferOrder says of the page's socket that the    *)
(* offers reach the page in order and none is skipped, so a candidate read *)
(* by the page is of an offer it has already taken.  Worker threads are    *)
(* started and told to stop by their task alone, so NoOrphanWorker needs   *)
(* only that a socket which was never accepted has no task.                *)
(***************************************************************************)
EXTENDS ServerSession, TLAPS

\* The types of the model's records: which offer an attempt answers, the page's
\* peer connection, messages in both directions, a connection's task.
Attempt    == [conn : Conn \cup {0}, session : Nat]
Connection == [of : Attempt, local : BOOLEAN, trickled : BOOLEAN,
               added : SUBSET Attempt]
Negotiating == [type : {"answer", "candidate"}, of : Attempt, tag : Nat]
UpMsg      == [type : {"auth"}, token : {"good", "bad"}] \cup Negotiating
Tagged     == [type : {"offer", "candidate"}, session : Nat]
DownMsg    == [type : {"upgraded", "hello", "unauthorized", "close"}] \cup Tagged
Phase      == {"none", "upgrade", "auth", "reject", "negotiate", "answer", "channel",
               "stream", "detach", "join", "ended", "closed"}
Task       == [at : Phase, session : Nat, remote : Attempt,
               pending : SUBSET Attempt, added : SUBSET Attempt, gone : BOOLEAN]

\* The page and what it still computes.
PageType ==
  /\ page \in [ws : Conn \cup {0}, at : {"wait", "opening", "open", "left"},
               authed : BOOLEAN, token : {"good", "bad"}, saved : BOOLEAN,
               session : Nat, pc : Connection]
  /\ page.at # "wait" => page.ws \in Conn
  /\ handlers \subseteq [of : Attempt, at : {"describe", "gather"}]

\* Messages under way.
QueueType ==
  /\ up \in [Conn -> Seq(UpMsg)]
  /\ down \in [Conn -> Seq(DownMsg)]

\* Sockets and the tasks that serve them.
ServerType ==
  /\ link \in [Conn -> {"none", "open", "cut"}]
  /\ srv \in [Conn -> Task]

\* Threads and forwarding tasks belong to a connection.
WorkerType ==
  /\ forwarders \subseteq [of : Attempt, left : BOOLEAN]
  /\ \A f \in forwarders : f.of.conn \in Conn
  /\ threads \subseteq [kind : Workers, of : Attempt, told : BOOLEAN]
  /\ \A t \in threads : t.of.conn \in Conn

\* The variables' types.
TypeOK == PageType /\ QueueType /\ ServerType /\ WorkerType /\ faults \in Nat

-----------------------------------------------------------------------------
\* Connections are numbered from 1.
LEMMA ConnNat == Conn \subseteq Nat \ {0}
BY FaultAssumption DEF Conn

\* Sequences, for any set of elements.
LEMMA QueueOps ==
  ASSUME NEW S, NEW q \in Seq(S)
  PROVE  /\ Len(q) \in Nat
         /\ q # <<>> => /\ Head(q) \in S /\ Head(q) = q[1] /\ Len(q) > 0
                        /\ Tail(q) \in Seq(S) /\ Len(Tail(q)) = Len(q) - 1
                        /\ \A i \in 1 .. Len(q) - 1 : Tail(q)[i] = q[i + 1]
         /\ \A i \in 1 .. Len(q) : q[i] \in S
OBVIOUS

\* One element more at a sequence's end.
LEMMA AppendOps ==
  ASSUME NEW S, NEW q \in Seq(S), NEW e \in S
  PROVE  /\ Append(q, e) \in Seq(S) /\ Len(Append(q, e)) = Len(q) + 1
         /\ \A i \in 1 .. Len(q) : Append(q, e)[i] = q[i]
         /\ Append(q, e)[Len(q) + 1] = e
OBVIOUS

\* The page takes a message.
LEMMA TakeType ==
  ASSUME TypeOK, NEW m, Take(m)
  PROVE  down' \in [Conn -> Seq(DownMsg)] /\ m \in DownMsg /\ page.ws \in Conn
<1>1. page.ws \in Conn
  BY DEF Take, TypeOK, PageType
<1>2. down[page.ws] \in Seq(DownMsg) /\ down[page.ws] # <<>>
  BY <1>1 DEF Take, TypeOK, QueueType
<1>3. m \in DownMsg /\ Tail(down[page.ws]) \in Seq(DownMsg)
  BY <1>2, QueueOps DEF Take
<1> QED BY <1>1, <1>3 DEF Take, TypeOK, QueueType

\* The server sends a message, or finds the socket cut.
LEMMA SendType ==
  ASSUME TypeOK, NEW k \in Conn, NEW m \in DownMsg, Send(k, m)
  PROVE  down' \in [Conn -> Seq(DownMsg)]
<1>1. Append(down[k], m) \in Seq(DownMsg)
  BY AppendOps DEF TypeOK, QueueType
<1> QED BY <1>1 DEF Send, TypeOK, QueueType

\* The page sends a message.
LEMMA PageSendsType ==
  ASSUME TypeOK, NEW m \in UpMsg, PageSends(m)
  PROVE  up' \in [Conn -> Seq(UpMsg)]
<1>1. CASE page.at = "open"
  <2>1. page.ws \in Conn
    BY <1>1 DEF TypeOK, PageType
  <2>2. Append(up[page.ws], m) \in Seq(UpMsg)
    BY <2>1, AppendOps DEF TypeOK, QueueType
  <2> QED BY <1>1, <2>1, <2>2 DEF PageSends, TypeOK, QueueType
<1>2. CASE page.at # "open"
  BY <1>2 DEF PageSends, TypeOK, QueueType
<1> QED BY <1>1, <1>2

\* The server task reads a message.
LEMMA ReadType ==
  ASSUME TypeOK, NEW k \in Conn, up[k] # <<>>, up' = [up EXCEPT ![k] = Tail(@)]
  PROVE  up' \in [Conn -> Seq(UpMsg)] /\ Head(up[k]) \in UpMsg
<1>1. up[k] \in Seq(UpMsg)
  BY DEF TypeOK, QueueType
<1>2. Tail(up[k]) \in Seq(UpMsg) /\ Head(up[k]) \in UpMsg
  BY <1>1, QueueOps
<1> QED BY <1>2 DEF TypeOK, QueueType

\* A task moves on.
LEMMA ToType ==
  ASSUME TypeOK, NEW k \in Conn, NEW at \in Phase, To(k, at)
  PROVE  srv' \in [Conn -> Task]
BY DEF To, TypeOK, ServerType, Task

\* A step of the page keeps the types.
LEMMA PageTypesStep ==
  ASSUME TypeOK, Page \/ Trickle \/ Cut \/ Leave \/ \E h \in handlers : Describe(h) \/ Answer(h)
  PROVE  TypeOK'
<1> USE ConnNat DEF Fault, NoFault
<1>1. CASE Connect
  <2>1. PageType'
    BY <1>1 DEF Connect, TypeOK, PageType
  <2> QED BY <1>1, <2>1 DEF Connect, TypeOK, QueueType, ServerType, WorkerType
<1>2. CASE Opened
  <2>1. PageType'
    BY <1>2, TakeType DEF Opened, TypeOK, PageType
  <2>2. Append(up[page.ws], [type |-> "auth", token |-> page.token]) \in Seq(UpMsg)
    BY <1>2, TakeType, AppendOps DEF Opened, TypeOK, PageType, QueueType, UpMsg
  <2>3. QueueType'
    BY <1>2, <2>2, TakeType DEF Opened, TypeOK, QueueType
  <2> QED BY <1>2, <2>1, <2>3 DEF Opened, TypeOK, ServerType, WorkerType
<1>3. CASE ReceiveHello
  <2>1. QueueType'
    BY <1>3, TakeType DEF ReceiveHello, TypeOK, QueueType
  <2> QED BY <1>3, <2>1 DEF ReceiveHello, TypeOK, PageType, ServerType, WorkerType
<1>4. CASE ReceiveOffer
  <2> PICK s \in 1 .. srv[page.ws].session :
        /\ Take([type |-> "offer", session |-> s])
        /\ page' = [page EXCEPT !.session = s, !.pc = NewPc([conn |-> page.ws, session |-> s])]
        /\ handlers' = {h \in handlers : h.at = "gather"}
                          \cup {[of |-> [conn |-> page.ws, session |-> s], at |-> "describe"]}
        /\ UNCHANGED <<link, up, srv, forwarders, threads, faults>>
    BY <1>4 DEF ReceiveOffer
  <2>1. page.ws \in Conn /\ s \in Nat
    BY TakeType DEF TypeOK, ServerType, Task
  <2>2. [conn |-> page.ws, session |-> s] \in Attempt
    BY <2>1 DEF Attempt
  <2>3. NewPc([conn |-> page.ws, session |-> s]) \in Connection
    BY <2>2 DEF NewPc, Connection
  <2> DEFINE pc == NewPc([conn |-> page.ws, session |-> s])
             h  == [of |-> [conn |-> page.ws, session |-> s], at |-> "describe"]
  <2>a. h \in [of : Attempt, at : {"describe", "gather"}] /\ pc \in Connection
    BY <2>2, <2>3
  <2>b. page' = [page EXCEPT !.session = s, !.pc = pc]
    OBVIOUS
  <2>c. handlers' = {g \in handlers : g.at = "gather"} \cup {h}
    OBVIOUS
  <2> HIDE DEF pc, h
  <2>4. PageType'
    BY <2>1, <2>a, <2>b, <2>c DEF TypeOK, PageType
  <2>5. QueueType'
    BY TakeType DEF TypeOK, QueueType
  <2> QED BY <2>4, <2>5 DEF TypeOK, ServerType, WorkerType
<1>5. CASE ReceiveCandidate
  <2> PICK s \in 1 .. srv[page.ws].session :
        /\ Take([type |-> "candidate", session |-> s])
        /\ page' = [page EXCEPT !.pc.added = @ \cup {[conn |-> page.ws, session |-> s]}]
        /\ UNCHANGED <<handlers, link, up, srv, forwarders, threads, faults>>
    BY <1>5 DEF ReceiveCandidate
  <2>1. page.ws \in Conn /\ s \in Nat
    BY TakeType DEF TypeOK, ServerType, Task
  <2>2. [conn |-> page.ws, session |-> s] \in Attempt
    BY <2>1 DEF Attempt
  <2>3. [page.pc EXCEPT !.added = @ \cup {[conn |-> page.ws, session |-> s]}] \in Connection
    BY <2>2 DEF TypeOK, PageType, Connection
  <2>4. PageType'
    BY <2>1, <2>3 DEF TypeOK, PageType
  <2>5. QueueType'
    BY TakeType DEF TypeOK, QueueType
  <2> QED BY <2>4, <2>5 DEF TypeOK, ServerType, WorkerType
<1>6. CASE Closed
  <2>1. QueueType'
    BY <1>6, TakeType DEF Closed, TypeOK, QueueType
  <2>2. PageType'
    BY <1>6 DEF Closed, TypeOK, PageType
  <2> QED BY <1>6, <2>1, <2>2 DEF Closed, TypeOK, ServerType, WorkerType
<1>7. CASE Trickle
  <2>1. [page.pc EXCEPT !.trickled = TRUE] \in Connection
    BY DEF TypeOK, PageType, Connection
  <2>2. [type |-> "candidate", of |-> page.pc.of, tag |-> page.session] \in UpMsg
    BY DEF TypeOK, PageType, Connection, UpMsg, Negotiating
  <2>3. QueueType'
    BY <1>7, <2>2, PageSendsType DEF Trickle, TypeOK, QueueType
  <2>4. PageType'
    BY <1>7, <2>1 DEF Trickle, TypeOK, PageType
  <2> QED BY <1>7, <2>3, <2>4 DEF Trickle, TypeOK, ServerType, WorkerType
<1>8. ASSUME NEW h \in handlers, Describe(h) PROVE TypeOK'
  <2>1. [page.pc EXCEPT !.local = TRUE] \in Connection
    BY DEF TypeOK, PageType, Connection
  <2>2. PageType'
    BY <1>8, <2>1 DEF Describe, TypeOK, PageType
  <2> QED BY <1>8, <2>2 DEF Describe, TypeOK, QueueType, ServerType, WorkerType
<1>9. ASSUME NEW h \in handlers, Answer(h) PROVE TypeOK'
  <2>1. [type |-> "answer", of |-> page.pc.of, tag |-> page.session] \in UpMsg
    BY DEF TypeOK, PageType, Connection, UpMsg, Negotiating
  <2>2. QueueType'
    BY <1>9, <2>1, PageSendsType DEF Answer, TypeOK, QueueType
  <2> QED BY <1>9, <2>2 DEF Answer, TypeOK, PageType, ServerType, WorkerType
<1>10. CASE Cut
  <2>1. PageType'
    BY <1>10 DEF Cut, TypeOK, PageType
  <2>2. ServerType'
    BY <1>10 DEF Cut, TypeOK, PageType, ServerType
  <2> QED BY <1>10, <2>1, <2>2 DEF Cut, TypeOK, QueueType, WorkerType
<1>11. CASE Leave
  <2>1. NoPc \in Connection
    BY DEF NoPc, NewPc, NoAttempt, Attempt, Connection
  <2>2. PageType'
    BY <1>11, <2>1 DEF Leave, TypeOK, PageType
  <2>3. ServerType'
    BY <1>11 DEF Leave, TypeOK, PageType, ServerType
  <2> QED BY <1>11, <2>2, <2>3 DEF Leave, TypeOK, QueueType, WorkerType
<1> QED
  BY <1>1, <1>2, <1>3, <1>4, <1>5, <1>6, <1>7, <1>8, <1>9, <1>10, <1>11 DEF Page

\* A step of the server keeps the types.
LEMMA ServerTypesStep ==
  ASSUME TypeOK, NEW k \in Conn, Serve(k) \/ StreamReads(k)
  PROVE  TypeOK'
<1> USE ConnNat DEF Fault, NoFault
<1>1. CASE Accept(k)
  <2>1. ServerType'
    BY <1>1, ToType DEF Accept, Phase, TypeOK, ServerType
  <2> QED BY <1>1, <2>1 DEF Accept, TypeOK, PageType, QueueType, WorkerType
<1>2. CASE \/ UpgradeFails(k) \/ AuthGone(k) \/ NegotiateFails(k) \/ NoAnswer(k) \/ NoChannel(k)
  <2>1. ServerType'
    BY <1>2, ToType DEF UpgradeFails, AuthGone, NegotiateFails, NoAnswer, NoChannel, Return, Phase,
                        TypeOK, ServerType
  <2> QED BY <1>2, <2>1 DEF UpgradeFails, AuthGone, NegotiateFails, NoAnswer, NoChannel, Return,
                        TypeOK, PageType, QueueType, WorkerType
<1>3. CASE Upgrade(k) \/ Hangup(k) \/ Reject(k)
  <2>1. ServerType'
    BY <1>3, ToType DEF Upgrade, Hangup, Reject, Phase, TypeOK, ServerType
  <2>2. PICK m \in DownMsg : Send(k, m)
    BY <1>3 DEF Upgrade, Hangup, Reject, DownMsg
  <2>3. QueueType'
    BY <1>3, <2>2, SendType DEF Upgrade, Hangup, Reject, TypeOK, QueueType
  <2> QED BY <1>3, <2>1, <2>3 DEF Upgrade, Hangup, Reject, TypeOK, PageType, WorkerType
<1>4. CASE Authenticate(k)
  <2>1. ServerType'
    BY <1>4, ToType DEF Authenticate, Phase, TypeOK, ServerType
  <2>2. [type |-> "hello"] \in DownMsg
    BY DEF DownMsg
  <2>3. down' \in [Conn -> Seq(DownMsg)]
    BY <1>4, <2>2, SendType DEF Authenticate, TypeOK, QueueType
  <2>4. QueueType'
    BY <1>4, <2>3, ReadType DEF Authenticate, QueueType
  <2> QED BY <1>4, <2>1, <2>4 DEF Authenticate, TypeOK, PageType, WorkerType
<1>5. CASE Negotiate(k)
  <2>1. srv[k].session + 1 \in Nat
    BY DEF TypeOK, ServerType, Task
  <2>2. ServerType'
    BY <1>5, <2>1 DEF Negotiate, TypeOK, ServerType, Task, Phase, NoAttempt, Attempt
  <2>3. [type |-> "offer", session |-> srv[k].session + 1] \in DownMsg
    BY <2>1 DEF DownMsg, Tagged
  <2>4. QueueType'
    BY <1>5, <2>3, SendType DEF Negotiate, StartForwarding, TypeOK, QueueType
  <2> DEFINE f == [of |-> [conn |-> k, session |-> srv[k].session + 1], left |-> TRUE]
  <2>a. f \in [of : Attempt, left : BOOLEAN] /\ f.of.conn = k
    BY <2>1 DEF Attempt
  <2>b. forwarders' = forwarders \cup {f}
    BY <1>5 DEF Negotiate, StartForwarding
  <2> HIDE DEF f
  <2>5. WorkerType'
    BY <1>5, <2>a, <2>b DEF Negotiate, TypeOK, WorkerType
  <2> QED BY <1>5, <2>2, <2>4, <2>5 DEF Negotiate, TypeOK, PageType
<1>6. CASE WaitForAnswer(k)
  <2>1. Head(up[k]) \in UpMsg
    BY <1>6, ReadType DEF WaitForAnswer
  <2>2. IsForMe(k, Head(up[k])) => Head(up[k]).of \in Attempt
    BY <2>1 DEF IsForMe, UpMsg, Negotiating
  <2>d. UNCHANGED link
    BY <1>6 DEF WaitForAnswer
  <2> DEFINE m == Head(up[k])
  <2>a. ASSUME IsForMe(k, m), m.type = "candidate" PROVE ServerType'
    <3>1. srv' = [srv EXCEPT ![k].pending = @ \cup {m.of}]
      BY <1>6, <2>a DEF WaitForAnswer
    <3> HIDE DEF m
    <3>2. m.of \in Attempt
      BY <2>2, <2>a DEF m
    <3> QED BY <3>1, <3>2, <2>d DEF TypeOK, ServerType, Task
  <2>b. ASSUME IsForMe(k, m), m.type = "answer" PROVE ServerType'
    <3>1. m.type # "candidate"
      BY <2>b
    <3>2. srv' = [srv EXCEPT ![k].at = "channel", ![k].remote = m.of,
                             ![k].added = srv[k].pending, ![k].pending = {}]
      BY <1>6, <2>b, <3>1 DEF WaitForAnswer
    <3> HIDE DEF m
    <3>3. m.of \in Attempt
      BY <2>2, <2>b DEF m
    <3> DEFINE r == [srv[k] EXCEPT !.at = "channel", !.remote = m.of,
                                   !.added = srv[k].pending, !.pending = {}]
    <3>4. r \in Task
      BY <3>3 DEF TypeOK, ServerType, Task, Phase
    <3>5. srv' = [srv EXCEPT ![k] = r]
      BY <3>2 DEF TypeOK, ServerType, Task
    <3> HIDE DEF r
    <3> QED BY <3>4, <3>5, <2>d DEF TypeOK, ServerType
  <2>c. ASSUME ~IsForMe(k, m) PROVE ServerType'
    <3>1. UNCHANGED srv
      BY <1>6, <2>c DEF WaitForAnswer
    <3> QED BY <3>1, <2>d DEF TypeOK, ServerType
  <2>3. ServerType'
    BY <2>a, <2>b, <2>c DEF IsForMe
  <2>4. QueueType'
    BY <1>6, ReadType DEF WaitForAnswer, TypeOK, QueueType
  <2> QED BY <1>6, <2>3, <2>4 DEF WaitForAnswer, TypeOK, PageType, WorkerType
<1>7. CASE ChannelOpens(k)
  <2>1. ServerType'
    BY <1>7, ToType DEF ChannelOpens, Phase, TypeOK, ServerType
  <2>2. Own(k) \in Attempt /\ Own(k).conn = k
    BY DEF Own, Attempt, TypeOK, ServerType, Task
  <2>3. WorkerType'
    BY <1>7, <2>2 DEF ChannelOpens, TypeOK, WorkerType
  <2> QED BY <1>7, <2>1, <2>3 DEF ChannelOpens, TypeOK, PageType, QueueType
<1>8. CASE StreamEnds(k) \/ ClientGone(k)
  <2>1. ServerType'
    BY <1>8 DEF StreamEnds, ClientGone, TypeOK, ServerType, Task, Phase
  <2> QED BY <1>8, <2>1 DEF StreamEnds, ClientGone, TypeOK, PageType, QueueType, WorkerType
<1>9. CASE Detach(k)
  <2>1. ServerType'
    BY <1>9, ToType DEF Detach, Phase, TypeOK, ServerType
  <2>2. WorkerType'
    BY <1>9 DEF Detach, Told, TypeOK, WorkerType
  <2> QED BY <1>9, <2>1, <2>2 DEF Detach, TypeOK, PageType, QueueType
<1>10. CASE Join(k)
  <2>1. ServerType'
    BY <1>10, ToType DEF Join, Return, Phase, TypeOK, ServerType
  <2> QED BY <1>10, <2>1 DEF Join, Return, TypeOK, PageType, QueueType, WorkerType
<1>11. CASE StreamReads(k)
  <2>1. QueueType'
    BY <1>11, ReadType DEF StreamReads, TypeOK, QueueType
  <2> QED BY <1>11, <2>1 DEF StreamReads, TypeOK, PageType, ServerType, WorkerType
<1> QED
  BY <1>1, <1>2, <1>3, <1>4, <1>5, <1>6, <1>7, <1>8, <1>9, <1>10, <1>11 DEF Serve

\* Every step keeps the types.
LEMMA TypesStep ==
  ASSUME TypeOK, [Next]_vars
  PROVE  TypeOK'
<1>1. ASSUME NEW f \in forwarders, Forward(f) PROVE TypeOK'
  <2>1. f.of \in Attempt /\ f.of.conn \in Conn /\ f.of.session \in Nat
    BY DEF TypeOK, WorkerType, Attempt
  <2>2. [type |-> "candidate", session |-> f.of.session] \in DownMsg
    BY <2>1 DEF DownMsg, Tagged
  <2>3. QueueType'
    BY <1>1, <2>1, <2>2, SendType DEF Forward, TypeOK, QueueType
  <2>4. WorkerType'
    BY <1>1, <2>1 DEF Forward, TypeOK, WorkerType
  <2> QED BY <1>1, <2>3, <2>4 DEF Forward, TypeOK, PageType, ServerType
<1>2. ASSUME NEW f \in forwarders, ForwardEnds(f) PROVE TypeOK'
  BY <1>2 DEF ForwardEnds, TypeOK, PageType, QueueType, ServerType, WorkerType
<1>3. ASSUME NEW t \in threads, ThreadEnds(t) PROVE TypeOK'
  BY <1>3 DEF ThreadEnds, Fault, NoFault, TypeOK, PageType, QueueType, ServerType, WorkerType
<1>4. CASE UNCHANGED vars
  BY <1>4 DEF vars, TypeOK, PageType, QueueType, ServerType, WorkerType
<1> QED
  BY <1>1, <1>2, <1>3, <1>4, PageTypesStep, ServerTypesStep DEF Next
-----------------------------------------------------------------------------
\* The two messages that name an attempt.
Offer(x)     == [type |-> "offer", session |-> x]
Candidate(x) == [type |-> "candidate", session |-> x]

\* Seen by a page that answered offer c last, with messages d under way and x
\* offers sent: the offers under way are newer than c and in order, and every
\* offer of 1 .. x was answered, or overtaken, or is under way.
Orderly(c, d, x) ==
  /\ c <= x
  /\ \A i \in 1 .. Len(d) : d[i].type = "offer" =>
       /\ c < d[i].session /\ d[i].session <= x
       /\ \A j \in 1 .. i - 1 : d[j].type = "offer" => d[j].session < d[i].session
  /\ \A y \in 1 .. x : y <= c \/ \E j \in 1 .. Len(d) : d[j] = Offer(y)
  /\ \A i \in 1 .. Len(d) : d[i].type = "candidate" =>
       d[i].session <= c \/ \E j \in 1 .. i - 1 : d[j] = Offer(d[i].session)

\* A message that is no offer and no candidate.
LEMMA OrderlyPlain ==
  ASSUME NEW c \in Nat, NEW x \in Nat, NEW d \in Seq(DownMsg), Orderly(c, d, x),
         NEW m \in DownMsg, m.type \notin {"offer", "candidate"}
  PROVE  Orderly(c, Append(d, m), x)
<1> DEFINE e == Append(d, m)
<1>1. Len(d) \in Nat /\ Len(e) = Len(d) + 1 /\ e[Len(d) + 1] = m
      /\ \A i \in 1 .. Len(d) : e[i] = d[i]
  BY AppendOps
<1>2. \A i \in 1 .. Len(e) : e[i].type \in {"offer", "candidate"} => i \in 1 .. Len(d)
  BY <1>1
<1> HIDE DEF e
<1>3. \A y \in 1 .. x : y <= c \/ \E j \in 1 .. Len(e) : e[j] = Offer(y)
  BY <1>1 DEF Orderly
<1> QED BY <1>1, <1>2, <1>3 DEF Orderly, e

\* The next offer.
LEMMA OrderlyOffer ==
  ASSUME NEW c \in Nat, NEW x \in Nat, NEW d \in Seq(DownMsg), Orderly(c, d, x),
         Offer(x + 1) \in DownMsg
  PROVE  Orderly(c, Append(d, Offer(x + 1)), x + 1)
<1> DEFINE e == Append(d, Offer(x + 1))
<1>1. Len(d) \in Nat /\ Len(e) = Len(d) + 1 /\ e[Len(d) + 1] = Offer(x + 1)
      /\ \A i \in 1 .. Len(d) : e[i] = d[i]
  BY AppendOps
<1>2. Offer(x + 1).type = "offer" /\ Offer(x + 1).session = x + 1
  BY DEF Offer
<1>3. \A i \in 1 .. Len(d) : d[i].type = "offer" => d[i].session \in Nat
  BY QueueOps DEF DownMsg, Tagged
<1> HIDE DEF e
<1>4. \A i \in 1 .. Len(e) : e[i].type = "offer" =>
        /\ c < e[i].session /\ e[i].session <= x + 1
        /\ \A j \in 1 .. i - 1 : e[j].type = "offer" => e[j].session < e[i].session
  <2> TAKE i \in 1 .. Len(e)
  <2> HAVE e[i].type = "offer"
  <2>1. CASE i = Len(d) + 1
    <3>1. e[i].session = x + 1
      BY <1>1, <1>2, <2>1
    <3>2. \A j \in 1 .. i - 1 : e[j] = d[j] /\ (d[j].type = "offer" => d[j].session \in Nat /\ d[j].session <= x)
      BY <1>1, <1>3, <2>1 DEF Orderly
    <3> QED BY <3>1, <3>2 DEF Orderly
  <2>2. CASE i \in 1 .. Len(d)
    <3>1. e[i] = d[i] /\ \A j \in 1 .. i - 1 : e[j] = d[j]
      BY <1>1, <2>2
    <3>2. d[i].session \in Nat /\ c < d[i].session /\ d[i].session <= x
          /\ \A j \in 1 .. i - 1 : d[j].type = "offer" => d[j].session < d[i].session
      BY <1>3, <2>2, <3>1 DEF Orderly
    <3> QED BY <3>1, <3>2
  <2> QED BY <1>1, <2>1, <2>2
<1>5. \A y \in 1 .. x + 1 : y <= c \/ \E j \in 1 .. Len(e) : e[j] = Offer(y)
  BY <1>1 DEF Orderly
<1>6. \A i \in 1 .. Len(e) : e[i].type = "candidate" =>
        e[i].session <= c \/ \E j \in 1 .. i - 1 : e[j] = Offer(e[i].session)
  BY <1>1, <1>2 DEF Orderly
<1> QED BY <1>4, <1>5, <1>6 DEF Orderly, e

\* A candidate of an offer already sent.
LEMMA OrderlyCandidate ==
  ASSUME NEW c \in Nat, NEW x \in Nat, NEW d \in Seq(DownMsg), Orderly(c, d, x),
         NEW y \in 1 .. x, Candidate(y) \in DownMsg
  PROVE  Orderly(c, Append(d, Candidate(y)), x)
<1> DEFINE e == Append(d, Candidate(y))
<1>1. Len(d) \in Nat /\ Len(e) = Len(d) + 1 /\ e[Len(d) + 1] = Candidate(y)
      /\ \A i \in 1 .. Len(d) : e[i] = d[i]
  BY AppendOps
<1>2. Candidate(y).type = "candidate" /\ Candidate(y).session = y
  BY DEF Candidate
<1> HIDE DEF e
<1>3. \A i \in 1 .. Len(e) : e[i].type = "offer" =>
        /\ c < e[i].session /\ e[i].session <= x
        /\ \A j \in 1 .. i - 1 : e[j].type = "offer" => e[j].session < e[i].session
  <2> TAKE i \in 1 .. Len(e)
  <2> HAVE e[i].type = "offer"
  <2>1. i \in 1 .. Len(d) /\ e[i] = d[i] /\ \A j \in 1 .. i - 1 : e[j] = d[j]
    BY <1>1, <1>2
  <2> QED BY <2>1 DEF Orderly
<1>4. \A z \in 1 .. x : z <= c \/ \E j \in 1 .. Len(e) : e[j] = Offer(z)
  BY <1>1 DEF Orderly
<1>5. \A i \in 1 .. Len(e) : e[i].type = "candidate" =>
        e[i].session <= c \/ \E j \in 1 .. i - 1 : e[j] = Offer(e[i].session)
  BY <1>1, <1>2, SMTT(20) DEF Orderly
<1> QED BY <1>3, <1>4, <1>5 DEF Orderly, e

\* The page takes a message that is no offer.
LEMMA OrderlyTail ==
  ASSUME NEW c \in Nat, NEW x \in Nat, NEW d \in Seq(DownMsg), Orderly(c, d, x), d # <<>>,
         Head(d).type # "offer"
  PROVE  Orderly(c, Tail(d), x)
<1> DEFINE e == Tail(d)
<1>1. Len(d) \in Nat \ {0} /\ Len(e) = Len(d) - 1 /\ d[1].type # "offer"
      /\ \A i \in 1 .. Len(e) : e[i] = d[i + 1]
  BY QueueOps
<1> HIDE DEF e
<1>2. \A y : d[1] # Offer(y)
  BY <1>1 DEF Offer
<1>3. \A i \in 1 .. Len(e) : e[i].type = "offer" =>
        /\ c < e[i].session /\ e[i].session <= x
        /\ \A j \in 1 .. i - 1 : e[j].type = "offer" => e[j].session < e[i].session
  <2> TAKE i \in 1 .. Len(e)
  <2> HAVE e[i].type = "offer"
  <2>1. i + 1 \in 1 .. Len(d) /\ e[i] = d[i + 1]
    BY <1>1
  <2>2. \A j \in 1 .. i - 1 : e[j] = d[j + 1] /\ j + 1 \in 1 .. (i + 1) - 1
    BY <1>1
  <2> QED BY <2>1, <2>2 DEF Orderly
<1>4. ASSUME NEW j \in 1 .. Len(d), NEW y, d[j] = Offer(y)
      PROVE  j - 1 \in 1 .. Len(e) /\ e[j - 1] = Offer(y)
  BY <1>1, <1>2, <1>4
<1>5. \A z \in 1 .. x : z <= c \/ \E j \in 1 .. Len(e) : e[j] = Offer(z)
  BY <1>4 DEF Orderly
<1>6. ASSUME NEW i \in 1 .. Len(e), e[i].type = "candidate", ~(e[i].session <= c)
      PROVE  \E j \in 1 .. i - 1 : e[j] = Offer(e[i].session)
  <2>1. i + 1 \in 1 .. Len(d) /\ e[i] = d[i + 1]
    BY <1>1
  <2>2. PICK j \in 1 .. i : d[j] = Offer(e[i].session)
    BY <1>6, <2>1 DEF Orderly
  <2>3. j - 1 \in 1 .. i - 1 /\ e[j - 1] = Offer(e[i].session)
    BY <1>2, <1>4, <2>1, <2>2
  <2> QED BY <2>3
<1> QED BY <1>3, <1>5, <1>6 DEF Orderly, e

\* The page takes an offer.
LEMMA OrderlyTakesOffer ==
  ASSUME NEW c \in Nat, NEW x \in Nat, NEW d \in Seq(DownMsg), Orderly(c, d, x), d # <<>>,
         NEW y \in Nat, Head(d) = Offer(y)
  PROVE  Orderly(y, Tail(d), x)
<1> DEFINE e == Tail(d)
<1>1. Len(d) \in Nat \ {0} /\ Len(e) = Len(d) - 1 /\ d[1] = Offer(y)
      /\ \A i \in 1 .. Len(e) : e[i] = d[i + 1]
  BY QueueOps
<1>2. d[1].type = "offer" /\ d[1].session = y
  BY <1>1 DEF Offer
<1>a. \A i \in 1 .. Len(d) : d[i].type \in {"offer", "candidate"} => d[i].session \in Nat
  BY QueueOps DEF DownMsg, Tagged
<1> HIDE DEF e
<1>3. c < y /\ y <= x
  BY <1>1, <1>2 DEF Orderly
<1>4. \A i \in 1 .. Len(e) : e[i].type = "offer" =>
        /\ y < e[i].session /\ e[i].session <= x
        /\ \A j \in 1 .. i - 1 : e[j].type = "offer" => e[j].session < e[i].session
  <2> TAKE i \in 1 .. Len(e)
  <2> HAVE e[i].type = "offer"
  <2>1. i + 1 \in 1 .. Len(d) /\ e[i] = d[i + 1] /\ 1 \in 1 .. (i + 1) - 1
    BY <1>1
  <2>2. d[i + 1].session <= x /\ \A j \in 1 .. (i + 1) - 1 : d[j].type = "offer" => d[j].session < d[i + 1].session
    BY <2>1 DEF Orderly
  <2>3. \A j \in 1 .. i - 1 : e[j] = d[j + 1] /\ j + 1 \in 1 .. (i + 1) - 1
    BY <1>1
  <2> QED BY <1>2, <2>1, <2>2, <2>3
<1>5. ASSUME NEW j \in 1 .. Len(d), NEW z \in Nat, d[j] = Offer(z), z # y
      PROVE  j - 1 \in 1 .. Len(e) /\ e[j - 1] = Offer(z)
  <2>1. d[j].session = z
    BY <1>5 DEF Offer
  <2> QED BY <1>1, <1>2, <1>5, <2>1
<1>6. ASSUME NEW z \in 1 .. x, ~(z <= y)
      PROVE  \E j \in 1 .. Len(e) : e[j] = Offer(z)
  <2>1. PICK j \in 1 .. Len(d) : d[j] = Offer(z)
    BY <1>3, <1>6 DEF Orderly
  <2> QED BY <1>5, <1>6, <2>1
<1>7. ASSUME NEW i \in 1 .. Len(e), e[i].type = "candidate", ~(e[i].session <= y)
      PROVE  \E j \in 1 .. i - 1 : e[j] = Offer(e[i].session)
  <2>1. i + 1 \in 1 .. Len(d) /\ e[i] = d[i + 1] /\ e[i].session \in Nat
    BY <1>1, <1>a, <1>7
  <2>2. PICK j \in 1 .. i : d[j] = Offer(e[i].session)
    BY <1>3, <1>7, <2>1 DEF Orderly
  <2>3. j - 1 \in 1 .. i - 1 /\ e[j - 1] = Offer(e[i].session)
    BY <1>5, <1>7, <2>1, <2>2, SMTT(20)
  <2> QED BY <2>3
<1> QED BY <1>3, <1>4, <1>6, <1>7 DEF Orderly, e

\* A candidate the page takes is of an offer it took before, or that one.
LEMMA OrderlyHeadCandidate ==
  ASSUME NEW c \in Nat, NEW x \in Nat, NEW d \in Seq(DownMsg), Orderly(c, d, x), d # <<>>,
         NEW y \in Nat, Head(d) = Candidate(y)
  PROVE  y <= c
<1>1. d[1] = Candidate(y) /\ 1 \in 1 .. Len(d)
  BY QueueOps
<1>2. d[1].type = "candidate" /\ d[1].session = y
  BY <1>1 DEF Candidate
<1> QED BY <1>1, <1>2 DEF Orderly
-----------------------------------------------------------------------------
\* A socket the page has not opened yet is untouched.
Unopened ==
  \A k \in Conn : k > page.ws =>
    /\ srv[k].at = "none" /\ srv[k].session = 0 /\ link[k] = "none"
    /\ down[k] = <<>> /\ up[k] = <<>>

\* A socket the server has not accepted has no task.
Unaccepted == \A k \in Conn : link[k] = "none" => srv[k].at = "none"

\* The page's peer connection is of its socket or an older one.
PageAttempt ==
  /\ page.pc.of.conn <= page.ws
  /\ page.pc.of.conn = page.ws => page.pc.of.session = page.session

\* An answer or candidate names the attempt it is of, or is of an older socket.
Named(k, m) ==
  m.type \in {"answer", "candidate"} =>
    m.of.conn < k \/ m.of = [conn |-> k, session |-> m.tag]

\* So does everything under way to the server.
NamesItsAttempt == \A k \in Conn : \A i \in 1 .. Len(up[k]) : Named(k, up[k][i])

\* The offer the page answered last on its socket.
Current == IF page.pc.of.conn = page.ws THEN page.pc.of.session ELSE 0

\* The offers reach the page in order.
OfferOrder ==
  page.at # "left" /\ page.ws # 0 =>
    Orderly(Current, down[page.ws], srv[page.ws].session)

\* What is forwarded is of an offer the server has made.
Forwarding == \A f \in forwarders : f.of.session \in 1 .. srv[f.of.conn].session

\* The inductive invariant.
IInv ==
  /\ TypeOK /\ Unopened /\ Unaccepted /\ PageAttempt /\ NamesItsAttempt /\ OfferOrder /\ Forwarding
  /\ AppliedIsOwnOrOlder /\ NoOrphanWorker

\* It holds initially.
LEMMA InitIInv == Init => IInv
<1> SUFFICES ASSUME Init PROVE IInv
  OBVIOUS
<1> USE ConnNat DEF Init
<1>1. TypeOK
  <2>1. NoPc \in Connection
    BY DEF NoPc, NewPc, NoAttempt, Attempt, Connection
  <2>2. NoAttempt \in Attempt
    BY DEF NoAttempt, Attempt
  <2>3. PageType
    BY <2>1 DEF PageType
  <2>4. ServerType
    BY <2>2 DEF ServerType, Task, Phase
  <2> QED BY <2>3, <2>4 DEF TypeOK, QueueType, WorkerType
<1>2. Unopened /\ Unaccepted /\ PageAttempt /\ NamesItsAttempt /\ OfferOrder /\ Forwarding
  BY DEF Unopened, Unaccepted, PageAttempt, NoPc, NewPc, NoAttempt, NamesItsAttempt, OfferOrder, Forwarding
<1>3. AppliedIsOwnOrOlder
  BY DEF AppliedIsOwnOrOlder, NoPc, NewPc
<1> QED BY <1>1, <1>2, <1>3 DEF IInv, NoOrphanWorker

\* A server task touches its own socket only, once the page has opened that.
LEMMA ServeFrame ==
  ASSUME TypeOK, NEW k \in Conn, Serve(k) \/ StreamReads(k)
  PROVE  /\ UNCHANGED <<page, handlers>>
         /\ \A j \in Conn \ {k} : /\ srv'[j] = srv[j] /\ link'[j] = link[j]
                                  /\ up'[j] = up[j] /\ down'[j] = down[j]
         /\ srv[k].at # "none" \/ k = page.ws
         /\ up'[k] = up[k] \/ (up[k] # <<>> /\ up'[k] = Tail(up[k]))
<1> USE DEF To, Return, Send
<1>0. /\ DOMAIN srv = Conn /\ DOMAIN up = Conn /\ DOMAIN down = Conn /\ DOMAIN link = Conn
      /\ k \in Conn /\ \A j \in Conn \ {k} : j \in Conn /\ j # k
  BY DEF TypeOK, QueueType, ServerType
<1>a. UNCHANGED <<page, handlers>>
  BY DEF Serve, Accept, Upgrade, UpgradeFails, Hangup, Authenticate, AuthGone, Reject, Negotiate,
         NegotiateFails, WaitForAnswer, NoAnswer, ChannelOpens, NoChannel, StreamEnds, ClientGone,
         Detach, Join, StreamReads
<1>b. srv[k].at # "none" \/ k = page.ws
  BY DEF Serve, Accept, Upgrade, UpgradeFails, Hangup, Authenticate, AuthGone, Reject, Negotiate,
         NegotiateFails, WaitForAnswer, NoAnswer, ChannelOpens, NoChannel, StreamEnds, ClientGone,
         Detach, Join, StreamReads
<1>c. \A j \in Conn \ {k} : srv'[j] = srv[j]
  <2>1. CASE WaitForAnswer(k)
    BY <1>0, <2>1 DEF WaitForAnswer
  <2>2. CASE ~WaitForAnswer(k)
    BY <1>0, <2>2 DEF Serve, Accept, Upgrade, UpgradeFails, Hangup, Authenticate, AuthGone, Reject,
         Negotiate, NegotiateFails, NoAnswer, ChannelOpens, NoChannel, StreamEnds, ClientGone,
         Detach, Join, StreamReads
  <2> QED BY <2>1, <2>2
<1>d. \A j \in Conn \ {k} : link'[j] = link[j]
  BY <1>0 DEF Serve, Accept, Upgrade, UpgradeFails, Hangup, Authenticate, AuthGone, Reject, Negotiate,
         NegotiateFails, WaitForAnswer, NoAnswer, ChannelOpens, NoChannel, StreamEnds, ClientGone,
         Detach, Join, StreamReads
<1>e. up' = up \/ (up[k] # <<>> /\ up' = [up EXCEPT ![k] = Tail(@)])
  <2>1. CASE Authenticate(k)
    BY <2>1 DEF Authenticate
  <2>2. CASE WaitForAnswer(k)
    BY <2>2 DEF WaitForAnswer
  <2>3. CASE StreamReads(k)
    BY <2>3 DEF StreamReads
  <2>4. ASSUME \/ Accept(k) \/ Upgrade(k) \/ UpgradeFails(k) \/ Hangup(k) \/ AuthGone(k) \/ Reject(k)
               \/ Negotiate(k) \/ NegotiateFails(k) \/ NoAnswer(k) \/ ChannelOpens(k) \/ NoChannel(k)
               \/ StreamEnds(k) \/ ClientGone(k) \/ Detach(k) \/ Join(k)
        PROVE  UNCHANGED up
    BY <2>4, Zenon DEF Accept, Upgrade, UpgradeFails, Hangup, AuthGone, Reject, Negotiate, NegotiateFails,
               NoAnswer, ChannelOpens, NoChannel, StreamEnds, ClientGone, Detach, Join
  <2> QED BY <2>1, <2>2, <2>3, <2>4, Zenon DEF Serve
<1>f. down' = down \/ \E m : down' = [down EXCEPT ![k] = Append(@, m)]
  BY DEF Serve, Accept, Upgrade, UpgradeFails, Hangup, Authenticate, AuthGone, Reject, Negotiate,
         NegotiateFails, WaitForAnswer, NoAnswer, ChannelOpens, NoChannel, StreamEnds, ClientGone,
         Detach, Join, StreamReads, StartForwarding
<1> QED BY <1>0, <1>a, <1>b, <1>c, <1>d, <1>e, <1>f

\* A connection not opened yet stays untouched.
LEMMA UnopenedStep ==
  ASSUME IInv, [Next]_vars
  PROVE  Unopened'
<1> USE ConnNat DEF IInv, Unopened, TypeOK
<1>1. CASE Connect
  BY <1>1 DEF Connect, PageType
<1>2. CASE Opened \/ ReceiveHello \/ ReceiveOffer \/ ReceiveCandidate \/ Closed \/ Trickle \/ Cut \/ Leave
  <2>1. \A k \in Conn : k > page.ws => up'[k] = up[k] /\ down'[k] = down[k]
    BY <1>2, ZenonT(40) DEF Opened, ReceiveHello, ReceiveOffer, ReceiveCandidate, Closed, Trickle, Cut, Leave, Take,
                PageSends, PageType, QueueType
  <2>a. link' = link \/ link' = [link EXCEPT ![page.ws] = "cut"]
    BY <1>2 DEF Opened, ReceiveHello, ReceiveOffer, ReceiveCandidate, Closed, Trickle, Cut, Leave
  <2>2. \A k \in Conn : k > page.ws => link'[k] = link[k]
    BY <2>a DEF PageType, ServerType
  <2>3. srv' = srv /\ page'.ws = page.ws
    BY <1>2 DEF Opened, ReceiveHello, ReceiveOffer, ReceiveCandidate, Closed, Trickle, Cut, Leave, PageType
  <2> QED BY <2>1, <2>2, <2>3
<1>3. ASSUME NEW h \in handlers, Describe(h) \/ Answer(h) PROVE Unopened'
  BY <1>3 DEF Describe, Answer, PageSends, PageType, QueueType
<1>4. ASSUME NEW k \in Conn, Serve(k) \/ StreamReads(k) PROVE Unopened'
  BY <1>4, ServeFrame DEF PageType
<1>5. ASSUME NEW f \in forwarders, Forward(f) \/ ForwardEnds(f) PROVE Unopened'
  <2>1. f.of.conn \in Conn /\ f.of.session \in 1 .. srv[f.of.conn].session
    BY DEF Forwarding, WorkerType
  <2>a. ~(f.of.session \in 1 .. 0)
    OBVIOUS
  <2>2. ~(f.of.conn > page.ws)
    BY <2>1, <2>a
  <2> QED BY <1>5, <2>1, <2>2 DEF Forward, ForwardEnds, Send, QueueType
<1>6. ASSUME NEW t \in threads, ThreadEnds(t) PROVE Unopened'
  BY <1>6 DEF ThreadEnds
<1>7. CASE UNCHANGED vars
  BY <1>7 DEF vars
<1> QED BY <1>1, <1>2, <1>3, <1>4, <1>5, <1>6, <1>7 DEF Next, Page

\* So does a task of a socket that was not accepted.
LEMMA UnacceptedStep ==
  ASSUME IInv, [Next]_vars
  PROVE  Unaccepted'
<1> USE DEF IInv, Unaccepted, TypeOK
<1>1. CASE \/ Page \/ Trickle \/ Cut \/ Leave \/ \E h \in handlers : Describe(h) \/ Answer(h)
           \/ \E f \in forwarders : Forward(f) \/ ForwardEnds(f)
           \/ \E t \in threads : ThreadEnds(t)
           \/ UNCHANGED vars
  <2>1. UNCHANGED srv /\ (link' = link \/ link' = [link EXCEPT ![page.ws] = "cut"])
    BY <1>1 DEF Page, Connect, Opened, ReceiveHello, ReceiveOffer, ReceiveCandidate, Closed, Trickle, Cut,
              Leave, Describe, Answer, Forward, ForwardEnds, ThreadEnds, vars
  <2> QED BY <2>1 DEF ServerType
<1>2. ASSUME NEW k \in Conn, Serve(k) \/ StreamReads(k) PROVE Unaccepted'
  <2>1. \A j \in Conn \ {k} : srv'[j] = srv[j] /\ link'[j] = link[j]
    BY <1>2, ServeFrame
  <2>2. link'[k] # "none"
    <3>1. CASE Accept(k)
      BY <3>1 DEF Accept, ServerType
    <3>2. CASE ~Accept(k)
      <4>1. srv[k].at # "none" /\ UNCHANGED link
        BY <1>2, <3>2 DEF Serve, Upgrade, UpgradeFails, Hangup, Authenticate, AuthGone, Reject, Negotiate,
              NegotiateFails, WaitForAnswer, NoAnswer, ChannelOpens, NoChannel, StreamEnds, ClientGone,
              Detach, Join, StreamReads
      <4> QED BY <4>1
    <3> QED BY <3>1, <3>2
  <2> QED BY <2>1, <2>2
<1> QED BY <1>1, <1>2 DEF Next

\* The page's own attempt.
LEMMA PageStep ==
  ASSUME IInv, [Next]_vars
  PROVE  /\ PageAttempt'
         /\ \A a \in page'.pc.added : a.conn = page'.pc.of.conn /\ a.session <= page'.pc.of.session
<1> USE ConnNat DEF IInv, PageAttempt, TypeOK
<1>0. \A a \in page.pc.added : a.conn = page.pc.of.conn /\ a.session <= page.pc.of.session
  BY DEF AppliedIsOwnOrOlder
<1>t. page.ws \in Nat /\ page.session \in Nat /\ page.pc \in Connection /\ page.pc.of \in Attempt
      /\ page.pc.of.conn \in Nat
  <2>1. page.ws \in Conn \cup {0} /\ page.session \in Nat /\ page.pc \in Connection
    BY DEF PageType
  <2>2. page.pc.of \in Attempt
    BY <2>1 DEF Connection
  <2>3. page.pc.of.conn \in Conn \cup {0}
    BY <2>2 DEF Attempt
  <2>4. Conn \cup {0} \subseteq Nat
    BY ConnNat
  <2> HIDE DEF IInv, TypeOK, PageAttempt
  <2> QED BY <2>1, <2>2, <2>3, <2>4
<1>1. CASE ReceiveOffer
  BY <1>1 DEF ReceiveOffer, NewPc, PageType
<1>2. CASE ReceiveCandidate
  <2> PICK s \in 1 .. srv[page.ws].session :
        /\ Take([type |-> "candidate", session |-> s])
        /\ page' = [page EXCEPT !.pc.added = @ \cup {[conn |-> page.ws, session |-> s]}]
    BY <1>2 DEF ReceiveCandidate
  <2>1. page.ws \in Conn /\ s \in Nat /\ srv[page.ws].session \in Nat /\ page.at # "left"
    BY TakeType DEF ServerType, Task, Take
  <2>2. down[page.ws] # <<>> /\ Head(down[page.ws]) = Candidate(s) /\ down[page.ws] \in Seq(DownMsg)
    BY <2>1 DEF Take, Candidate, QueueType
  <2>3. Current \in Nat /\ Orderly(Current, down[page.ws], srv[page.ws].session)
    BY <1>t, <2>1 DEF OfferOrder, Current, Attempt
  <2>4. s <= Current
    BY <2>1, <2>2, <2>3, OrderlyHeadCandidate
  <2>5. page.pc.of.conn = page.ws /\ s <= page.pc.of.session
    BY <2>1, <2>4 DEF Current
  <2>6. /\ page'.pc.added = page.pc.added \cup {[conn |-> page.ws, session |-> s]}
        /\ page'.pc.of = page.pc.of /\ page'.ws = page.ws /\ page'.session = page.session
    BY DEF PageType, Connection
  <2>7. PageAttempt'
    BY <2>6
  <2> HIDE DEF IInv, PageAttempt, TypeOK
  <2>8. \A a \in page'.pc.added : a.conn = page.pc.of.conn /\ a.session <= page.pc.of.session
    BY <1>0, <2>5, <2>6
  <2> QED BY <2>6, <2>7, <2>8
<1>3. CASE Leave
  BY <1>3, <1>t DEF Leave, NoPc, NewPc, NoAttempt, PageType
<1>4. CASE /\ page'.pc.of = page.pc.of /\ page'.pc.added = page.pc.added
           /\ page'.session = page.session /\ page'.ws \in {page.ws, page.ws + 1}
  BY <1>0, <1>4, <1>t DEF PageType
<1>5. ASSUME Connect \/ Opened \/ ReceiveHello \/ Closed \/ Trickle \/ Cut
      PROVE  /\ page'.pc.of = page.pc.of /\ page'.pc.added = page.pc.added
             /\ page'.session = page.session /\ page'.ws \in {page.ws, page.ws + 1}
  <2>1. CASE Connect
    BY <2>1 DEF Connect, PageType
  <2>2. CASE Trickle
    BY <2>2 DEF Trickle, PageType, Connection
  <2>3. CASE Opened \/ ReceiveHello \/ Closed \/ Cut
    BY <2>3 DEF Opened, ReceiveHello, Closed, Cut, PageType
  <2> QED BY <1>5, <2>1, <2>2, <2>3
<1>6. ASSUME NEW h \in handlers, Describe(h) \/ Answer(h)
      PROVE  page'.pc.of = page.pc.of /\ page'.pc.added = page.pc.added
             /\ page'.session = page.session /\ page'.ws = page.ws
  BY <1>6 DEF Describe, Answer, PageType, Connection
<1>7. ASSUME \/ \E k \in Conn : Serve(k) \/ StreamReads(k)
             \/ \E f \in forwarders : Forward(f) \/ ForwardEnds(f)
             \/ \E t \in threads : ThreadEnds(t)
             \/ UNCHANGED vars
      PROVE  page' = page
  BY <1>7, ServeFrame DEF Forward, ForwardEnds, ThreadEnds, vars
<1> QED BY <1>1, <1>2, <1>3, <1>4, <1>5, <1>6, <1>7 DEF Next, Page
\* What the server task does to the session and to the messages it sends.
LEMMA ServeSends ==
  ASSUME TypeOK, NEW k \in Conn, Serve(k) \/ StreamReads(k)
  PROVE  \/ /\ srv'[k].session = srv[k].session /\ UNCHANGED forwarders
            /\ \/ down' = down
               \/ \E m \in DownMsg : m.type \notin {"offer", "candidate"} /\ Send(k, m)
         \/ Negotiate(k)
<1> USE DEF To, Return
<1>0. \A at : [srv EXCEPT ![k].at = at][k].session = srv[k].session
  BY DEF TypeOK, ServerType, Task
<1>1. CASE \/ Accept(k) \/ UpgradeFails(k) \/ AuthGone(k) \/ NegotiateFails(k)
           \/ NoAnswer(k) \/ NoChannel(k)
  BY <1>0, <1>1, ZenonT(40) DEF Accept, UpgradeFails, AuthGone, NegotiateFails, NoAnswer, NoChannel
<1>5. CASE ChannelOpens(k) \/ Detach(k) \/ Join(k)
  BY <1>0, <1>5 DEF ChannelOpens, Detach, Join
<1>2. CASE Upgrade(k) \/ Hangup(k) \/ Reject(k) \/ Authenticate(k)
  <2>1. srv'[k].session = srv[k].session /\ UNCHANGED forwarders
    BY <1>0, <1>2 DEF Upgrade, Hangup, Reject, Authenticate
  <2>2. \A t \in {"upgraded", "hello", "unauthorized", "close"} :
          [type |-> t] \in DownMsg /\ [type |-> t].type \notin {"offer", "candidate"}
    BY DEF DownMsg
  <2> QED BY <1>2, <2>1, <2>2 DEF Upgrade, Hangup, Reject, Authenticate
<1>3. CASE WaitForAnswer(k)
  <2>1. srv'[k].session = srv[k].session
    BY <1>3 DEF WaitForAnswer, TypeOK, ServerType, Task
  <2> QED BY <1>3, <2>1 DEF WaitForAnswer
<1>4. CASE StreamEnds(k) \/ ClientGone(k) \/ StreamReads(k)
  BY <1>4 DEF StreamEnds, ClientGone, StreamReads, TypeOK, ServerType, Task
<1> QED BY <1>1, <1>2, <1>3, <1>4, <1>5 DEF Serve

\* Forwarding tasks come from offers.
LEMMA ForwardingStep ==
  ASSUME IInv, [Next]_vars
  PROVE  Forwarding'
<1> USE DEF IInv, Forwarding
<1>0. \A k \in Conn : srv[k].session \in Nat
  BY DEF TypeOK, ServerType, Task
<1>1. ASSUME NEW k \in Conn, Serve(k) \/ StreamReads(k) PROVE Forwarding'
  <2>1. CASE Negotiate(k)
    <3>1. srv'[k].session = srv[k].session + 1
      BY <2>1 DEF Negotiate, TypeOK, ServerType, Task
    <3>2. forwarders' = forwarders \cup {[of |-> [conn |-> k, session |-> srv[k].session + 1], left |-> TRUE]}
      BY <2>1 DEF Negotiate, StartForwarding
    <3>3. \A j \in Conn \ {k} : srv'[j] = srv[j]
      BY <1>1, ServeFrame
    <3> QED BY <1>0, <3>1, <3>2, <3>3 DEF TypeOK, WorkerType
  <2>2. CASE ~Negotiate(k)
    BY <1>1, <2>2, ServeFrame, ServeSends DEF TypeOK, WorkerType
  <2> QED BY <2>1, <2>2
<1>2. ASSUME NEW f \in forwarders, Forward(f) \/ ForwardEnds(f) PROVE Forwarding'
  <2>1. [f EXCEPT !.left = FALSE].of = f.of
    BY DEF TypeOK, WorkerType
  <2>2. \A g \in forwarders' : \E h \in forwarders : g.of = h.of
    BY <1>2, <2>1 DEF Forward, ForwardEnds
  <2> QED BY <1>2, <2>2 DEF Forward, ForwardEnds
<1>3. ASSUME NEW h \in handlers, Describe(h) \/ Answer(h) PROVE Forwarding'
  BY <1>3 DEF Describe, Answer
<1>4. ASSUME NEW t \in threads, ThreadEnds(t) PROVE Forwarding'
  BY <1>4 DEF ThreadEnds
<1>5. CASE Page \/ Trickle \/ Cut \/ Leave \/ UNCHANGED vars
  BY <1>5 DEF Page, Connect, Opened, ReceiveHello, ReceiveOffer, ReceiveCandidate, Closed, Trickle, Cut,
              Leave, vars
<1> QED BY <1>1, <1>2, <1>3, <1>4, <1>5 DEF Next

\* A message the page sends names the attempt of the page's connection under
\* its current session.
LEMMA PageNames ==
  ASSUME IInv, page.at = "open", NEW m \in Negotiating,
         m.of = page.pc.of, m.tag = page.session
  PROVE  page.ws \in Conn /\ Named(page.ws, m)
<1>1. page.ws \in Conn /\ page.pc.of \in Attempt
  BY DEF IInv, TypeOK, PageType, Connection
<1>2. page.ws \in Nat /\ page.pc.of.conn \in Nat
  <2>1. page.pc.of.conn \in Conn \cup {0}
    BY <1>1 DEF Attempt
  <2>2. Conn \cup {0} \subseteq Nat
    BY ConnNat
  <2> QED BY <1>1, <2>1, <2>2
<1>3. page.pc.of = [conn |-> page.pc.of.conn, session |-> page.pc.of.session]
  BY <1>1 DEF Attempt
<1>4. page.pc.of.conn < page.ws \/ page.pc.of = [conn |-> page.ws, session |-> page.session]
  BY <1>2, <1>3 DEF IInv, PageAttempt
<1> QED BY <1>1, <1>4 DEF Named

\* The three things that can happen to a queue to the server.
UpStep(k) ==
  \/ up'[k] = up[k]
  \/ up[k] # <<>> /\ up'[k] = Tail(up[k])
  \/ \E m \in UpMsg : Named(k, m) /\ up'[k] = Append(up[k], m)

\* Every step does one of these to a socket's messages.
LEMMA UpSteps ==
  ASSUME IInv, [Next]_vars
  PROVE  \A k \in Conn : UpStep(k)
<1>0. up \in [Conn -> Seq(UpMsg)] /\ TypeOK
  BY DEF IInv, TypeOK, QueueType
<1>1. CASE Opened
  <2> DEFINE m == [type |-> "auth", token |-> page.token]
  <2>1. page.ws \in Conn /\ m \in UpMsg /\ Named(page.ws, m)
    BY <1>0, <1>1, TakeType DEF Opened, TypeOK, PageType, UpMsg, Named
  <2>2. up' = [up EXCEPT ![page.ws] = Append(@, m)]
    BY <1>1 DEF Opened
  <2> HIDE DEF m
  <2> QED BY <1>0, <2>1, <2>2 DEF UpStep
<1>2. ASSUME NEW m \in Negotiating, PageSends(m), m.of = page.pc.of, m.tag = page.session
      PROVE  \A k \in Conn : UpStep(k)
  <2>1. CASE page.at = "open" /\ link[page.ws] = "open"
    <3>1. page.ws \in Conn /\ Named(page.ws, m) /\ m \in UpMsg
      BY <1>2, <2>1, PageNames DEF UpMsg
    <3>2. up' = [up EXCEPT ![page.ws] = Append(@, m)]
      BY <1>2, <2>1 DEF PageSends
    <3> QED BY <1>0, <3>1, <3>2 DEF UpStep
  <2>2. CASE ~(page.at = "open" /\ link[page.ws] = "open")
    BY <1>2, <2>2 DEF PageSends, UpStep
  <2> QED BY <2>1, <2>2
<1>3. \A t \in {"answer", "candidate"} :
        [type |-> t, of |-> page.pc.of, tag |-> page.session] \in Negotiating
  BY <1>0 DEF TypeOK, PageType, Connection, Negotiating
<1>4. CASE Trickle
  BY <1>2, <1>3, <1>4 DEF Trickle
<1>5. ASSUME NEW h \in handlers, Describe(h) \/ Answer(h) PROVE \A k \in Conn : UpStep(k)
  BY <1>2, <1>3, <1>5 DEF Describe, Answer, UpStep
<1>6. ASSUME NEW k \in Conn, Serve(k) \/ StreamReads(k) PROVE \A j \in Conn : UpStep(j)
  BY <1>0, <1>6, ServeFrame DEF UpStep
<1>7. ASSUME \/ Connect \/ ReceiveHello \/ ReceiveOffer \/ ReceiveCandidate \/ Closed \/ Cut \/ Leave
             \/ \E f \in forwarders : Forward(f) \/ ForwardEnds(f)
             \/ \E t \in threads : ThreadEnds(t)
             \/ UNCHANGED vars
      PROVE  UNCHANGED up
  BY <1>7 DEF Connect, ReceiveHello, ReceiveOffer, ReceiveCandidate, Closed, Cut, Leave, Forward,
              ForwardEnds, ThreadEnds, vars
<1>8. UNCHANGED up => \A k \in Conn : UpStep(k)
  BY DEF UpStep
<1> QED BY <1>1, <1>4, <1>5, <1>6, <1>7, <1>8 DEF Next, Page

\* Every step names its attempt.
LEMMA NamesStep ==
  ASSUME IInv, [Next]_vars
  PROVE  NamesItsAttempt'
<1> SUFFICES ASSUME NEW k \in Conn PROVE \A i \in 1 .. Len(up'[k]) : Named(k, up'[k][i])
  BY DEF NamesItsAttempt, Named
<1>1. up[k] \in Seq(UpMsg) /\ \A i \in 1 .. Len(up[k]) : Named(k, up[k][i])
  BY DEF IInv, TypeOK, QueueType, NamesItsAttempt
<1> DEFINE q == up[k]
<1>2. UpStep(k)
  BY UpSteps
<1>3. CASE up'[k] = up[k]
  BY <1>1, <1>3
<1>4. CASE up[k] # <<>> /\ up'[k] = Tail(up[k])
  <2>1. Len(q) \in Nat /\ Len(up'[k]) = Len(q) - 1 /\ \A i \in 1 .. Len(q) - 1 : up'[k][i] = q[i + 1]
    BY <1>1, <1>4, QueueOps
  <2> QED BY <1>1, <2>1
<1>5. ASSUME NEW m \in UpMsg, Named(k, m), up'[k] = Append(up[k], m)
      PROVE  \A i \in 1 .. Len(up'[k]) : Named(k, up'[k][i])
  <2>1. Len(q) \in Nat /\ Len(up'[k]) = Len(q) + 1 /\ up'[k][Len(q) + 1] = m
        /\ \A i \in 1 .. Len(q) : up'[k][i] = q[i]
    BY <1>1, <1>5, QueueOps, AppendOps
  <2> QED BY <1>1, <1>5, <2>1
<1> QED BY <1>2, <1>3, <1>4, <1>5 DEF UpStep

\* The part of AppliedIsOwnOrOlder that is about the server.
ServerApplied(k) ==
  /\ srv[k].remote \in {NoAttempt, Own(k)} \/ srv[k].remote.conn < k
  /\ \A a \in srv[k].added \cup srv[k].pending : a = Own(k) \/ a.conn < k
  /\ srv[k].at = "stream" => srv[k].remote = Own(k)

\* What a step of the server applies to its connection is of its offer or of an
\* older socket.
LEMMA ServerAppliedStep ==
  ASSUME IInv, NEW k \in Conn, Serve(k) \/ StreamReads(k)
  PROVE  ServerApplied(k)'
<1>0. srv \in [Conn -> Task] /\ ServerApplied(k)
  BY DEF IInv, TypeOK, ServerType, AppliedIsOwnOrOlder, ServerApplied
<1>1. ASSUME NEW at \in Phase \ {"stream"}, To(k, at) PROVE ServerApplied(k)'
  BY <1>0, <1>1 DEF To, ServerApplied, Own, Task
<1>2. CASE \/ Accept(k) \/ Upgrade(k) \/ UpgradeFails(k) \/ Hangup(k) \/ Authenticate(k) \/ AuthGone(k)
           \/ Reject(k) \/ NegotiateFails(k) \/ NoAnswer(k) \/ NoChannel(k) \/ Detach(k) \/ Join(k)
  <2>1. \E at \in Phase \ {"stream"} : To(k, at)
    BY <1>2 DEF Accept, Upgrade, UpgradeFails, Hangup, Authenticate, AuthGone, Reject, NegotiateFails,
                NoAnswer, NoChannel, Detach, Join, Return, Phase
  <2> QED BY <1>1, <2>1
<1>3. CASE Negotiate(k)
  BY <1>0, <1>3 DEF Negotiate, ServerApplied, Task
<1>4. CASE WaitForAnswer(k)
  <2> DEFINE m == Head(up[k])
  <2>1. m \in UpMsg /\ Named(k, m)
    <3>1. up[k] # <<>> /\ up[k] \in Seq(UpMsg) /\ \A i \in 1 .. Len(up[k]) : Named(k, up[k][i])
      BY <1>4 DEF WaitForAnswer, IInv, TypeOK, QueueType, NamesItsAttempt
    <3>2. m \in UpMsg /\ m = up[k][1] /\ 1 \in 1 .. Len(up[k])
      BY <3>1, QueueOps
    <3> QED BY <3>1, <3>2
  <2>2. ASSUME IsForMe(k, m) PROVE m.of.conn < k \/ m.of = Own(k)
    BY <2>1, <2>2 DEF IsForMe, Named, Own
  <2>3. CASE IsForMe(k, m) /\ m.type = "candidate"
    <3>1. srv' = [srv EXCEPT ![k].pending = @ \cup {m.of}]
      BY <1>4, <2>3 DEF WaitForAnswer
    <3> HIDE DEF m
    <3>2. srv'[k] = [srv[k] EXCEPT !.pending = @ \cup {m.of}]
      BY <1>0, <3>1
    <3>3. /\ srv'[k].pending = srv[k].pending \cup {m.of} /\ srv'[k].added = srv[k].added
          /\ srv'[k].remote = srv[k].remote /\ srv'[k].at = srv[k].at
          /\ srv'[k].session = srv[k].session
      BY <1>0, <3>2 DEF Task
    <3> QED BY <1>0, <2>2, <2>3, <3>3 DEF ServerApplied, Own
  <2>4. CASE IsForMe(k, m) /\ m.type = "answer"
    <3>1. srv' = [srv EXCEPT ![k].at = "channel", ![k].remote = m.of,
                             ![k].added = srv[k].pending, ![k].pending = {}]
      BY <1>4, <2>4 DEF WaitForAnswer
    <3> HIDE DEF m
    <3>3. /\ srv'[k].pending = {} /\ srv'[k].added = srv[k].pending
          /\ srv'[k].remote = m.of /\ srv'[k].at = "channel"
          /\ srv'[k].session = srv[k].session
      BY <1>0, <3>1 DEF Task
    <3> QED BY <1>0, <2>2, <2>4, <3>3 DEF ServerApplied, Own
  <2>5. CASE ~IsForMe(k, m)
    <3>1. UNCHANGED srv
      BY <1>4, <2>5 DEF WaitForAnswer
    <3> QED BY <1>0, <3>1 DEF ServerApplied, Own
  <2> QED BY <2>3, <2>4, <2>5 DEF IsForMe
<1>5. CASE ChannelOpens(k)
  BY <1>0, <1>5 DEF ChannelOpens, Connected, To, ServerApplied, Own, Task
<1>6. CASE StreamEnds(k) \/ ClientGone(k)
  BY <1>0, <1>6 DEF StreamEnds, ClientGone, ServerApplied, Own, Task
<1>7. CASE StreamReads(k)
  BY <1>0, <1>7 DEF StreamReads, ServerApplied, Own
<1> QED BY <1>2, <1>3, <1>4, <1>5, <1>6, <1>7 DEF Serve

\* Every step keeps what both ends applied in order.
LEMMA AppliedStep ==
  ASSUME IInv, [Next]_vars
  PROVE  AppliedIsOwnOrOlder'
<1>0. \A k \in Conn : ServerApplied(k)
  BY DEF IInv, AppliedIsOwnOrOlder, ServerApplied
<1>1. ASSUME NEW k \in Conn, Serve(k) \/ StreamReads(k) PROVE \A j \in Conn : ServerApplied(j)'
  <2>1. ServerApplied(k)'
    BY <1>1, ServerAppliedStep
  <2>2. \A j \in Conn \ {k} : srv'[j] = srv[j]
    BY <1>1, ServeFrame DEF IInv
  <2>3. \A j \in Conn \ {k} : ServerApplied(j)'
    BY <1>0, <2>2 DEF ServerApplied, Own
  <2> QED BY <2>1, <2>3
<1>2. ASSUME \/ Page \/ Trickle \/ Cut \/ Leave \/ \E h \in handlers : Describe(h) \/ Answer(h)
             \/ \E f \in forwarders : Forward(f) \/ ForwardEnds(f)
             \/ \E t \in threads : ThreadEnds(t)
             \/ UNCHANGED vars
      PROVE  UNCHANGED srv
  BY <1>2 DEF Page, Connect, Opened, ReceiveHello, ReceiveOffer, ReceiveCandidate, Closed, Trickle, Cut,
              Leave, Describe, Answer, Forward, ForwardEnds, ThreadEnds, vars
<1>3. UNCHANGED srv => \A j \in Conn : ServerApplied(j)'
  BY <1>0 DEF ServerApplied, Own
<1>4. \A j \in Conn : ServerApplied(j)'
  BY <1>1, <1>2, <1>3 DEF Next
<1>5. \A a \in page'.pc.added : a.conn = page'.pc.of.conn /\ a.session <= page'.pc.of.session
  BY PageStep
<1> QED BY <1>4, <1>5 DEF AppliedIsOwnOrOlder, ServerApplied

\* Every step keeps the offers in order.
LEMMA OfferOrderStep ==
  ASSUME IInv, [Next]_vars
  PROVE  OfferOrder'
<1> DEFINE d == down[page.ws]
           x == srv[page.ws].session
<1>0. /\ TypeOK /\ down \in [Conn -> Seq(DownMsg)] /\ srv \in [Conn -> Task]
      /\ page.ws \in Conn \cup {0} /\ page.session \in Nat /\ page.pc.of \in Attempt
  BY DEF IInv, TypeOK, PageType, QueueType, ServerType, Connection
<1>a. Current \in Nat
  BY <1>0 DEF Current, Attempt
<1>b. ASSUME page.at # "left", page.ws # 0
      PROVE  page.ws \in Conn /\ d \in Seq(DownMsg) /\ x \in Nat /\ Orderly(Current, d, x)
  BY <1>0, <1>b DEF IInv, OfferOrder, Task
<1>1. CASE Connect
  <2>1. /\ page' \in [ws : Conn \cup {0}, at : {"wait", "opening", "open", "left"},
                      authed : BOOLEAN, token : {"good", "bad"}, saved : BOOLEAN,
                      session : Nat, pc : Connection]
        /\ page'.ws = page.ws + 1 /\ page'.pc = page.pc /\ page.ws + 1 \in Conn
    BY <1>1, TypesStep DEF IInv, Connect, TypeOK, PageType
  <2>2. page.ws + 1 > page.ws /\ page.pc.of.conn # page.ws + 1
    <3>1. page.ws \in Nat /\ page.pc.of.conn \in Nat
      <4>1. page.pc.of.conn \in Conn \cup {0}
        BY <1>0 DEF Attempt
      <4>2. Conn \cup {0} \subseteq Nat
        BY ConnNat
      <4> QED BY <1>0, <4>1, <4>2
    <3> QED BY <3>1 DEF IInv, PageAttempt
  <2>3. down'[page.ws + 1] = <<>> /\ srv'[page.ws + 1].session = 0
    BY <1>1, <2>1, <2>2 DEF Connect, IInv, Unopened
  <2>4. Current' = 0
    BY <2>1, <2>2 DEF Current
  <2>5. Orderly(0, <<>>, 0)
    BY DEF Orderly
  <2> QED BY <2>1, <2>3, <2>4, <2>5 DEF OfferOrder
<1>2. ASSUME NEW m, Take(m)
      PROVE  /\ m \in DownMsg /\ m = Head(d) /\ d # <<>> /\ down'[page.ws] = Tail(d)
             /\ page.at # "left" /\ page.ws # 0
  <2>1. page.ws \in Conn /\ m \in DownMsg
    BY <1>0, <1>2, TakeType
  <2> QED BY <1>0, <1>2, <2>1, ConnNat DEF Take
<1>3. ASSUME NEW m, Take(m), m.type # "offer", UNCHANGED srv,
             page'.ws = page.ws, page'.pc.of = page.pc.of
      PROVE  OfferOrder'
  <2>1. Orderly(Current, Tail(d), x)
    BY <1>a, <1>b, <1>2, <1>3, OrderlyTail
  <2>2. Current' = Current
    BY <1>3 DEF Current
  <2> QED BY <1>2, <1>3, <2>1, <2>2 DEF OfferOrder
<1>4. CASE ReceiveOffer
  <2> PICK s \in 1 .. x :
        /\ Take(Offer(s))
        /\ page' = [page EXCEPT !.session = s, !.pc = NewPc([conn |-> page.ws, session |-> s])]
        /\ UNCHANGED srv
    BY <1>4 DEF ReceiveOffer, Offer
  <2>1. x \in Nat /\ s \in Nat
    BY <1>b, <1>2
  <2>2. Orderly(s, Tail(d), x)
    BY <1>a, <1>b, <1>2, <2>1, OrderlyTakesOffer
  <2>3. page'.ws = page.ws /\ page'.pc.of = [conn |-> page.ws, session |-> s]
    BY <1>0 DEF NewPc, TypeOK, PageType
  <2>4. Current' = s
    BY <2>3 DEF Current
  <2> QED BY <1>2, <2>2, <2>3, <2>4 DEF OfferOrder
<1>5. CASE ReceiveCandidate
  <2> PICK s \in 1 .. x :
        /\ Take(Candidate(s))
        /\ page' = [page EXCEPT !.pc.added = @ \cup {[conn |-> page.ws, session |-> s]}]
        /\ UNCHANGED srv
    BY <1>5 DEF ReceiveCandidate, Candidate
  <2>1. page'.ws = page.ws /\ page'.pc.of = page.pc.of
    BY <1>0 DEF TypeOK, PageType, Connection
  <2>2. Candidate(s).type # "offer"
    BY DEF Candidate
  <2> QED BY <1>3, <2>1, <2>2
<1>6. CASE Opened \/ ReceiveHello \/ Closed
  <2>1. page'.ws = page.ws /\ page'.pc.of = page.pc.of /\ UNCHANGED srv
    BY <1>0, <1>6 DEF Opened, ReceiveHello, Closed, TypeOK, PageType
  <2>2. \A t \in {"upgraded", "hello", "unauthorized", "close"} : [type |-> t].type # "offer"
    OBVIOUS
  <2>3. CASE page.at = "open" /\ page' = [page EXCEPT !.at = "wait"] /\ UNCHANGED down
    <3>1. Current' = Current /\ page.at # "left"
      BY <2>1, <2>3 DEF Current
    <3> QED BY <1>b, <2>1, <2>3, <3>1 DEF OfferOrder
  <2> QED BY <1>3, <1>6, <2>1, <2>2, <2>3 DEF Opened, ReceiveHello, Closed
<1>7. CASE Leave
  <2>1. page'.at = "left"
    BY <1>0, <1>7 DEF Leave, TypeOK, PageType
  <2> QED BY <2>1 DEF OfferOrder
<1>8. ASSUME UNCHANGED <<down, srv>>, page'.ws = page.ws, page'.pc.of = page.pc.of,
             page.at = "left" => page'.at = "left"
      PROVE  OfferOrder'
  BY <1>b, <1>8 DEF OfferOrder, Current
<1>9. CASE Trickle \/ Cut
  BY <1>0, <1>8, <1>9 DEF Trickle, Cut, TypeOK, PageType, Connection
<1>10. ASSUME NEW h \in handlers, Describe(h) \/ Answer(h) PROVE OfferOrder'
  BY <1>0, <1>8, <1>10 DEF Describe, Answer, TypeOK, PageType, Connection
<1>11. CASE (\E t \in threads : ThreadEnds(t)) \/ (\E f \in forwarders : ForwardEnds(f)) \/ UNCHANGED vars
  BY <1>8, <1>11 DEF ThreadEnds, ForwardEnds, vars
<1>12. ASSUME NEW f \in forwarders, Forward(f) PROVE OfferOrder'
  <2>1. f.of.conn \in Conn /\ f.of.session \in 1 .. srv[f.of.conn].session /\ f.of.session \in Nat
    BY <1>0 DEF TypeOK, WorkerType, IInv, Forwarding, Attempt
  <2>2. /\ down' = [down EXCEPT ![f.of.conn] = Append(@, Candidate(f.of.session))]
        /\ UNCHANGED <<page, srv>>
    BY <1>12 DEF Forward, Send, Candidate
  <2>3. Candidate(f.of.session) \in DownMsg
    BY <2>1 DEF Candidate, DownMsg, Tagged
  <2>4. CASE f.of.conn = page.ws /\ page.at # "left" /\ page.ws # 0
    <3>1. Orderly(Current, Append(d, Candidate(f.of.session)), x)
      BY <1>a, <1>b, <2>1, <2>3, <2>4, OrderlyCandidate
    <3> QED BY <1>0, <2>1, <2>2, <2>4, <3>1 DEF OfferOrder, Current
  <2>5. CASE ~(f.of.conn = page.ws /\ page.at # "left" /\ page.ws # 0)
    BY <1>0, <1>b, <2>1, <2>2, <2>5 DEF OfferOrder, Current
  <2> QED BY <2>4, <2>5
<1>13. ASSUME NEW k \in Conn, Serve(k) \/ StreamReads(k) PROVE OfferOrder'
  <2>0. page' = page /\ Current' = Current
    BY <1>0, <1>13, ServeFrame DEF Current
  <2>1. CASE ~(k = page.ws /\ page.at # "left" /\ page.ws # 0)
    BY <1>0, <1>13, <1>b, <2>0, <2>1, ServeFrame DEF OfferOrder
  <2>2. CASE k = page.ws /\ page.at # "left" /\ page.ws # 0 /\ Negotiate(k)
    <3>1. srv'[k].session = x + 1
      BY <1>0, <2>2 DEF Negotiate, Task
    <3>2. down'[k] = Append(d, Offer(x + 1))
      BY <1>0, <2>2 DEF Negotiate, StartForwarding, Send, Offer
    <3>3. Offer(x + 1) \in DownMsg
      BY <1>b, <2>2 DEF Offer, DownMsg, Tagged
    <3>4. Orderly(Current, Append(d, Offer(x + 1)), x + 1)
      BY <1>a, <1>b, <2>2, <3>3, OrderlyOffer
    <3> QED BY <2>0, <2>2, <3>1, <3>2, <3>4 DEF OfferOrder
  <2>3. CASE k = page.ws /\ page.at # "left" /\ page.ws # 0 /\ ~Negotiate(k)
    <3>1. /\ srv'[k].session = x
          /\ \/ down' = down
             \/ \E m \in DownMsg : m.type \notin {"offer", "candidate"} /\ Send(k, m)
      BY <1>0, <1>13, <2>3, ServeSends
    <3>2. CASE down' = down
      BY <1>b, <2>0, <2>3, <3>1, <3>2 DEF OfferOrder
    <3>3. ASSUME NEW m \in DownMsg, m.type \notin {"offer", "candidate"}, Send(k, m)
          PROVE  OfferOrder'
      <4>1. down'[k] = Append(d, m)
        BY <1>0, <2>3, <3>3 DEF Send
      <4>2. Orderly(Current, Append(d, m), x)
        BY <1>a, <1>b, <2>3, <3>3, OrderlyPlain
      <4> QED BY <2>0, <2>3, <3>1, <4>1, <4>2 DEF OfferOrder
    <3> QED BY <3>1, <3>2, <3>3
  <2> QED BY <2>1, <2>2, <2>3
<1> QED
  BY <1>1, <1>4, <1>5, <1>6, <1>7, <1>9, <1>10, <1>11, <1>12, <1>13 DEF Next, Page

\* Every step leaves each worker thread with its task, or told to stop.
LEMMA OrphanStep ==
  ASSUME TypeOK, Unaccepted, NoOrphanWorker, [Next]_vars
  PROVE  NoOrphanWorker'
<1>0. /\ srv \in [Conn -> Task] /\ \A t \in threads : t.of.conn \in Conn
      /\ threads \subseteq [kind : Workers, of : Attempt, told : BOOLEAN]
  BY DEF TypeOK, ServerType, WorkerType
<1>1. ASSUME UNCHANGED srv, threads' \subseteq threads PROVE NoOrphanWorker'
  BY <1>0, <1>1 DEF NoOrphanWorker, Own
<1>2. CASE \/ Page \/ Trickle \/ Cut \/ Leave \/ \E h \in handlers : Describe(h) \/ Answer(h)
           \/ \E f \in forwarders : Forward(f) \/ ForwardEnds(f)
           \/ \E t \in threads : ThreadEnds(t)
           \/ UNCHANGED vars
  <2>1. UNCHANGED srv /\ threads' \subseteq threads
    BY <1>2 DEF Page, Connect, Opened, ReceiveHello, ReceiveOffer, ReceiveCandidate, Closed, Trickle, Cut,
              Leave, Describe, Answer, Forward, ForwardEnds, ThreadEnds, vars
  <2> QED BY <1>1, <2>1
<1>3. ASSUME NEW k \in Conn, Serve(k) \/ StreamReads(k) PROVE NoOrphanWorker'
  <2>0. \A j \in Conn \ {k} : srv'[j] = srv[j]
    BY <1>3, ServeFrame
  <2>1. ASSUME srv[k].at \notin {"stream", "detach"}, UNCHANGED threads PROVE NoOrphanWorker'
    BY <1>0, <2>0, <2>1 DEF NoOrphanWorker, Own
  <2>2. CASE \/ Accept(k) \/ Upgrade(k) \/ UpgradeFails(k) \/ Hangup(k) \/ Authenticate(k) \/ AuthGone(k)
             \/ Reject(k) \/ Negotiate(k) \/ NegotiateFails(k) \/ WaitForAnswer(k) \/ NoAnswer(k)
             \/ NoChannel(k) \/ Join(k)
    <3>1. UNCHANGED threads
      BY <2>2 DEF Accept, Upgrade, UpgradeFails, Hangup, Authenticate, AuthGone, Reject, Negotiate,
              NegotiateFails, WaitForAnswer, NoAnswer, NoChannel, Join
    <3>2. srv[k].at \notin {"stream", "detach"}
      BY <2>2 DEF Unaccepted, Accept, Upgrade, UpgradeFails, Hangup, Authenticate, AuthGone, Reject,
              Negotiate, NegotiateFails, WaitForAnswer, NoAnswer, NoChannel, Join
    <3> QED BY <2>1, <3>1, <3>2
  <2>3. CASE ChannelOpens(k)
    <3>1. threads' = threads \cup [kind : Workers, of : {Own(k)}, told : {FALSE}] /\ srv[k].at = "channel"
      BY <2>3 DEF ChannelOpens
    <3>2. srv'[k].at = "stream" /\ srv'[k].session = srv[k].session
      BY <1>0, <2>3 DEF ChannelOpens, To, Task
    <3>3. Own(k).conn = k /\ Own(k)' = Own(k)
      BY <3>2 DEF Own
    <3>4. \A t \in threads : ~t.told => t.of.conn # k
      BY <3>1 DEF NoOrphanWorker
    <3>5. \A t \in threads' : t \in threads \/ t.of = Own(k)
      BY <3>1
    <3> QED BY <1>0, <2>0, <3>2, <3>3, <3>4, <3>5 DEF NoOrphanWorker, Own
  <2>4. CASE StreamEnds(k) \/ ClientGone(k)
    <3>1. srv'[k].at = "detach" /\ srv'[k].session = srv[k].session /\ UNCHANGED threads
      BY <1>0, <2>4 DEF StreamEnds, ClientGone, Task
    <3> QED BY <1>0, <2>0, <3>1 DEF NoOrphanWorker, Own
  <2>5. CASE Detach(k)
    <3>1. threads' = Told(k, Kind)
      BY <2>5 DEF Detach
    <3>2. \A t \in threads : t.kind \in Kind
      BY <1>0, WorkerAssumption DEF Kind
    <3>3. ASSUME NEW t \in threads', ~t.told PROVE t \in threads /\ t.of # Own(k)
      <4>1. PICK u \in threads : t = IF u.of = Own(k) /\ u.kind \in Kind THEN [u EXCEPT !.told = TRUE] ELSE u
        BY <3>1 DEF Told
      <4>2. [u EXCEPT !.told = TRUE].told
        BY <1>0
      <4> QED BY <3>2, <3>3, <4>1, <4>2
    <3>4. \A t \in threads' : ~t.told => t.of.conn # k
      BY <1>0, <3>3 DEF NoOrphanWorker
    <3> QED BY <1>0, <2>0, <3>3, <3>4 DEF NoOrphanWorker, Own
  <2>6. CASE StreamReads(k)
    BY <1>1, <2>6 DEF StreamReads
  <2> QED BY <1>3, <2>2, <2>3, <2>4, <2>5, <2>6 DEF Serve
<1> QED BY <1>2, <1>3 DEF Next

\* Every step keeps the invariant.
LEMMA Inductive == IInv /\ [Next]_vars => IInv'
<1> SUFFICES ASSUME IInv, [Next]_vars PROVE IInv'
  OBVIOUS
<1>1. TypeOK' /\ NoOrphanWorker'
  BY TypesStep, OrphanStep DEF IInv
<1> QED
  BY <1>1, UnopenedStep, UnacceptedStep, PageStep, NamesStep, OfferOrderStep, ForwardingStep, AppliedStep
  DEF IInv

\* Variables keep their types, for any number of sockets, renegotiations and
\* faults.
THEOREM TypeCorrect == Spec => []TypeOK
<1>1. IInv => TypeOK
  BY DEF IInv
<1> QED BY <1>1, InitIInv, Inductive, PTL DEF Spec

\* The server applies an answer or a candidate only to the attempt it is of,
\* unless it was made for an earlier socket, and streams to none but its own; the
\* page is given candidates of its own or of earlier attempts of its socket.
THEOREM AppliedCorrect == Spec => []AppliedIsOwnOrOlder
<1>1. IInv => AppliedIsOwnOrOlder
  BY DEF IInv
<1> QED BY <1>1, InitIInv, Inductive, PTL DEF Spec

\* A worker that was not told to stop belongs to the stream its task runs or is
\* tearing down, however the client left.
THEOREM WorkersCorrect == Spec => []NoOrphanWorker
<1>1. IInv => NoOrphanWorker
  BY DEF IInv
<1> QED BY <1>1, InitIInv, Inductive, PTL DEF Spec
=============================================================================
