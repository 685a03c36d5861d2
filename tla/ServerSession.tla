---------------------------- MODULE ServerSession ----------------------------
(***************************************************************************)
(* From opening the page to a running stream and back: the server's task   *)
(* for one connection (main.rs, server.rs, auth.rs, signaling.rs,          *)
(* webrtc_connection.rs) and the page's connect() (client.html), over as   *)
(* many WebSockets as the page opens.                                      *)
(*                                                                         *)
(*   page                                server task of one WebSocket      *)
(*     new WebSocket                       accept, sniff, upgrade          *)
(*     open, auth                          authenticate, hello             *)
(*     offer -> new RTCPeerConnection      offer, tagged with its session, *)
(*     candidates -> that connection         then its candidates           *)
(*     describe, gather (at most 3 s)      wait for the answer (30 s)      *)
(*     answer, candidates                  wait for the channel (30 s)     *)
(*     reconnect when the socket closes    stream; tear down; renegotiate  *)
(*                                                                         *)
(* An attempt is one offer: the WebSocket's number and the session number  *)
(* the server tags it with.  Each direction of a WebSocket is FIFO.  A     *)
(* forwarding task per attempt sends the server's candidates and holds the *)
(* sending half of the socket until its peer connection is closed.  The    *)
(* page's handlers are asynchronous: after each await they go on with      *)
(* whatever the page's globals (ws, pc, currentSession) hold by then.      *)
(*                                                                         *)
(* Time is abstracted: a timeout whose event cannot come any more expires; *)
(* one that expires although its event was on the way, a dropped socket, a *)
(* request head that arrives in pieces, a wrong password and a lost stream *)
(* are faults, of which there are at most MaxFaults.                       *)
(***************************************************************************)
EXTENDS Integers, Sequences

CONSTANTS
  Workers,     \* what a stream starts: a capture thread and, with --control, the
               \* injector and clipboard workers of their own data channels
  MaxFaults    \* bound: things that go wrong

Kind == {"input", "clipboard", "capture"}

ASSUME WorkerAssumption == Workers \in {{"capture"}, Kind}
ASSUME FaultAssumption == MaxFaults \in Nat

\* A connection ends by a fault or because an answer left over from an
\* earlier fault was taken for its own: no more than this many are opened.
Conn == 1 .. 2 * MaxFaults + 1

VARIABLES
  page,      \* the page's globals: ws (number of its socket) and its state at,
             \* the token typed or remembered (saved), authed, session
             \* (currentSession, the offer's tag) and pc
  handlers,  \* offer handlers under way: their attempt, and where they await
             \* ("describe" or "gather")
  link,      \* socket -> "none", "open" or "cut"
  up, down,  \* socket -> messages to the server ("auth" with a token, "answer"
             \* and "candidate" with their attempt and the tag they carry) and
             \* to the page ("upgraded", "hello", "unauthorized", "close", and
             \* "offer" and "candidate" with their session)
  srv,       \* socket -> the server task: where it is, its session counter, the
             \* attempts whose answer (remote) and candidates it has applied
             \* (added) or holds back (pending), whether its client is gone
  forwarders,\* tasks that forward the server's candidates: their attempt, and
             \* whether one is left (it stands for all)
  threads,   \* capture, injector and clipboard workers that run, whose attempt
             \* they serve and whether they were told to stop
  faults

vars == <<page, handlers, link, up, down, srv, forwarders, threads, faults>>

NoAttempt == [conn |-> 0, session |-> 0]
\* A new RTCPeerConnection of the page: its attempt, whether its description is
\* set, whether it has sent a candidate, and the attempts whose candidates were
\* added to it.
NewPc(a) == [of |-> a, local |-> FALSE, trickled |-> FALSE, added |-> {}]
NoPc     == NewPc(NoAttempt)

Init ==
  /\ page = [ws |-> 0, at |-> "wait", authed |-> FALSE, token |-> "good",
             saved |-> FALSE, session |-> 0, pc |-> NoPc]
  /\ handlers = {}
  /\ link = [k \in Conn |-> "none"]
  /\ up = [k \in Conn |-> <<>>]
  /\ down = [k \in Conn |-> <<>>]
  /\ srv = [k \in Conn |-> [at |-> "none", session |-> 0, remote |-> NoAttempt,
                            pending |-> {}, added |-> {}, gone |-> FALSE]]
  /\ forwarders = {}
  /\ threads = {}
  /\ faults = 0

Fault    == faults < MaxFaults /\ faults' = faults + 1
NoFault  == UNCHANGED faults

Own(k) == [conn |-> k, session |-> srv[k].session]

-----------------------------------------------------------------------------
(* The page. *)

\* connect(): the remembered token, or one the user types, on a new socket.
Connect ==
  /\ page.at = "wait"
  /\ page.ws + 1 \in Conn
  /\ \E token \in {"good", "bad"} :
       /\ page.saved => token = page.token
       /\ page' = [page EXCEPT !.ws = @ + 1, !.at = "opening", !.authed = FALSE,
                              !.token = token]
       /\ IF token = "bad" THEN Fault ELSE NoFault
  /\ UNCHANGED <<handlers, link, up, down, srv, forwarders, threads>>

\* A negotiation message goes out on the current socket, if that is OPEN.
PageSends(m) ==
  up' = IF page.at = "open" /\ link[page.ws] = "open"
        THEN [up EXCEPT ![page.ws] = Append(@, m)] ELSE up

\* The page takes the next message of its socket.
Take(m) ==
  /\ page.at \in {"opening", "open"}
  /\ down[page.ws] # <<>>
  /\ Head(down[page.ws]) = m
  /\ down' = [down EXCEPT ![page.ws] = Tail(@)]

\* ws.onopen: the token is the first message.
Opened ==
  /\ Take([type |-> "upgraded"])
  /\ page' = [page EXCEPT !.at = "open"]
  /\ up' = [up EXCEPT ![page.ws] = Append(@, [type |-> "auth", token |-> page.token])]
  /\ UNCHANGED <<handlers, link, srv, forwarders, threads, faults>>

ReceiveHello ==
  /\ Take([type |-> "hello"])
  /\ page' = [page EXCEPT !.authed = TRUE, !.saved = TRUE]
  /\ UNCHANGED <<handlers, link, up, srv, forwarders, threads, faults>>

\* An existing RTCPeerConnection is used again (mutant).
ReceiveOffer_KeepsPc ==
  page.at = "open" /\ \E s \in 1 .. srv[page.ws].session :
    LET a == [conn |-> page.ws, session |-> s]
    IN  /\ Take([type |-> "offer", session |-> s])
        /\ page' = [page EXCEPT !.session = s,
                       !.pc = IF @ = NoPc THEN NewPc(a) ELSE @]
        /\ handlers' = handlers \cup {[of |-> page'.pc.of, at |-> "describe"]}
        /\ UNCHANGED <<link, up, srv, forwarders, threads, faults>>

\* A new RTCPeerConnection replaces the old one, which is closed: a handler
\* that waits for one of its operations waits for ever.
ReceiveOffer ==
  page.at = "open" /\ \E s \in 1 .. srv[page.ws].session :
    LET a == [conn |-> page.ws, session |-> s]
    IN  /\ Take([type |-> "offer", session |-> s])
        /\ page' = [page EXCEPT !.session = s, !.pc = NewPc(a)]
        /\ handlers' = {h \in handlers : h.at = "gather"}
                          \cup {[of |-> a, at |-> "describe"]}
        /\ UNCHANGED <<link, up, srv, forwarders, threads, faults>>

\* A candidate goes to whatever pc is current; its tag is not looked at.
ReceiveCandidate ==
  page.at = "open" /\ \E s \in 1 .. srv[page.ws].session :
    /\ Take([type |-> "candidate", session |-> s])
    /\ page' = [page EXCEPT !.pc.added = @ \cup {[conn |-> page.ws, session |-> s]}]
    /\ UNCHANGED <<handlers, link, up, srv, forwarders, threads, faults>>

\* setRemoteDescription, createAnswer, setLocalDescription.
Describe(h) ==
  /\ h.at = "describe"
  /\ page.pc.of = h.of
  /\ page' = [page EXCEPT !.pc.local = TRUE]
  /\ handlers' = (handlers \ {h}) \cup {[h EXCEPT !.at = "gather"]}
  /\ UNCHANGED <<link, up, down, srv, forwarders, threads, faults>>

\* pc.onicecandidate; one candidate stands for all.
Trickle ==
  /\ page.pc.local /\ ~page.pc.trickled
  /\ page' = [page EXCEPT !.pc.trickled = TRUE]
  /\ PageSends([type |-> "candidate", of |-> page.pc.of, tag |-> page.session])
  /\ UNCHANGED <<handlers, link, down, srv, forwarders, threads, faults>>

\* Gathering completed, or 3 s passed: the description of whatever pc is now
\* current goes out under whatever session is now current; a pc that has no
\* description yet makes the handler throw.
Answer(h) ==
  /\ h.at = "gather"
  /\ handlers' = handlers \ {h}
  /\ IF page.pc.local
     THEN PageSends([type |-> "answer", of |-> page.pc.of, tag |-> page.session])
     ELSE UNCHANGED up
  /\ UNCHANGED <<page, link, down, srv, forwarders, threads, faults>>

\* ws.onclose: 4001 forgets the token.  Neither pc nor the handlers under way
\* are touched.
Closed ==
  \/ /\ Take([type |-> "unauthorized"])
     /\ page' = [page EXCEPT !.at = "wait", !.saved = FALSE]
     /\ link' = [link EXCEPT ![page.ws] = "cut"]
     /\ UNCHANGED <<handlers, up, srv, forwarders, threads, faults>>
  \/ /\ Take([type |-> "close"])
     /\ page' = [page EXCEPT !.at = "wait"]
     /\ link' = [link EXCEPT ![page.ws] = "cut"]
     /\ UNCHANGED <<handlers, up, srv, forwarders, threads, faults>>
  \/ /\ page.at = "open"
     /\ link[page.ws] = "cut"
     /\ page' = [page EXCEPT !.at = "wait"]
     /\ UNCHANGED <<handlers, link, up, down, srv, forwarders, threads, faults>>

-----------------------------------------------------------------------------
(* The server task of socket k. *)

To(k, at) == srv' = [srv EXCEPT ![k].at = at]

\* The task returns, and drops what it holds of the socket.
Return(k) == To(k, "ended") /\ UNCHANGED down

Send(k, m) == down' = [down EXCEPT ![k] = Append(@, m)]

\* The accept loop, and the TLS handshake when TLS is on: a task of its own for
\* the connection the page has opened.
Accept(k) ==
  /\ page.at = "opening" /\ page.ws = k
  /\ link[k] = "none"
  /\ link' = [link EXCEPT ![k] = "open"]
  /\ To(k, "upgrade")
  /\ UNCHANGED <<page, handlers, up, down, forwarders, threads, faults>>

\* The first bytes are looked at once.  A request head that holds the Upgrade
\* header becomes a WebSocket, which reads those bytes again.
Upgrade(k) ==
  /\ srv[k].at = "upgrade"
  /\ To(k, "auth")
  /\ Send(k, [type |-> "upgraded"])
  /\ UNCHANGED <<page, handlers, link, up, forwarders, threads, faults>>

\* A head whose Upgrade header has not arrived yet is answered with the HTML
\* page, which is no WebSocket for the browser; or the socket is gone.
UpgradeFails(k) ==
  /\ srv[k].at = "upgrade"
  /\ IF link[k] = "cut" THEN NoFault ELSE Fault
  /\ Return(k)
  /\ UNCHANGED <<page, handlers, link, up, forwarders, threads>>

\* The socket is closed when its sending half goes too: the task that sends
\* ends with the last forwarder.
Hangup(k) ==
  /\ srv[k].at = "ended"
  /\ ~\E f \in forwarders : f.of.conn = k
  /\ To(k, "closed")
  /\ Send(k, [type |-> "close"])
  /\ UNCHANGED <<page, handlers, link, up, forwarders, threads, faults>>

\* authenticate(): the first message decides.
Authenticate(k) ==
  /\ srv[k].at = "auth"
  /\ up[k] # <<>>
  /\ up' = [up EXCEPT ![k] = Tail(@)]
  /\ IF Head(up[k]) = [type |-> "auth", token |-> "good"]
     THEN /\ To(k, "negotiate")
          /\ Send(k, [type |-> "hello"])
     ELSE To(k, "reject") /\ UNCHANGED down
  /\ UNCHANGED <<page, handlers, link, forwarders, threads, faults>>

\* AUTH_TIMEOUT, or the socket is gone.
AuthGone(k) ==
  /\ srv[k].at = "auth"
  /\ IF link[k] = "cut" THEN NoFault ELSE Fault
  /\ Return(k)
  /\ UNCHANGED <<page, handlers, link, up, forwarders, threads>>

\* After FAILURE_DELAY.
Reject(k) ==
  /\ srv[k].at = "reject"
  /\ To(k, "closed")
  /\ Send(k, [type |-> "unauthorized"])
  /\ UNCHANGED <<page, handlers, link, up, forwarders, threads, faults>>

\* The forwarder starts before the offer is sent (mutant).
StartForwarding_First(k, s) ==
  /\ forwarders' = forwarders \cup {[of |-> [conn |-> k, session |-> s], left |-> FALSE]}
  /\ down' = [down EXCEPT ![k] = @ \o <<[type |-> "candidate", session |-> s],
                                        [type |-> "offer", session |-> s]>>]

\* send_offer_and_start_forwarding: the offer first.
StartForwarding(k, s) ==
  /\ Send(k, [type |-> "offer", session |-> s])
  /\ forwarders' = forwarders \cup {[of |-> [conn |-> k, session |-> s], left |-> TRUE]}

\* The head of the loop: a fresh peer connection, whose offer is tagged.
Negotiate(k) ==
  /\ srv[k].at = "negotiate"
  /\ srv' = [srv EXCEPT ![k].at = "answer", ![k].session = @ + 1,
                        ![k].remote = NoAttempt, ![k].pending = {}, ![k].added = {}]
  /\ StartForwarding(k, srv[k].session + 1)
  /\ UNCHANGED <<page, handlers, link, up, threads, faults>>

\* A candidate of the server's goes out, be its attempt over or not.
Forward(f) ==
  /\ f.left
  /\ Send(f.of.conn, [type |-> "candidate", session |-> f.of.session])
  /\ forwarders' = (forwarders \ {f}) \cup {[f EXCEPT !.left = FALSE]}
  /\ UNCHANGED <<page, handlers, link, up, srv, threads, faults>>

\* An attempt that is over drops its peer connection, which closes it and with
\* it the queue its forwarder reads.
ForwardEnds(f) ==
  /\ \/ f.of.session # srv[f.of.conn].session
     \/ srv[f.of.conn].at \in {"negotiate", "ended"}
  /\ forwarders' = forwarders \ {f}
  /\ UNCHANGED <<page, handlers, link, up, down, srv, threads, faults>>

\* ws_tx is closed, or building the connection or its offer failed.
NegotiateFails(k) ==
  /\ srv[k].at = "negotiate"
  /\ IF link[k] = "cut" THEN NoFault ELSE Fault
  /\ Return(k)
  /\ UNCHANGED <<page, handlers, link, up, forwarders, threads>>

\* Every message is taken for this negotiation's (mutant).
IsForMe_Untagged(k, m) == m.type \in {"answer", "candidate"}

\* Messages under another session's tag are ignored.
IsForMe(k, m) == m.type \in {"answer", "candidate"} /\ m.tag = srv[k].session

\* wait_for_answer: candidates wait for the answer, which applies them.
WaitForAnswer(k) ==
  /\ srv[k].at = "answer"
  /\ up[k] # <<>>
  /\ up' = [up EXCEPT ![k] = Tail(@)]
  /\ LET m == Head(up[k])
     IN  CASE IsForMe(k, m) /\ m.type = "candidate" ->
                srv' = [srv EXCEPT ![k].pending = @ \cup {m.of}]
           [] IsForMe(k, m) /\ m.type = "answer" ->
                srv' = [srv EXCEPT ![k].at = "channel", ![k].remote = m.of,
                                   ![k].added = srv[k].pending, ![k].pending = {}]
           [] OTHER -> UNCHANGED srv
  /\ UNCHANGED <<page, handlers, link, down, forwarders, threads, faults>>

\* The page is still at work on an offer of this or an earlier socket, which
\* takes it 3 s.
PageBusy(k) ==
  \/ \E h \in handlers : h.of.conn <= k
  \/ link[k] = "open" /\ \E i \in 1 .. Len(down[k]) : down[k][i].type = "offer"

AnswerUnderWay(k) ==
  /\ link[k] = "open"
  /\ PageBusy(k) \/ \E i \in 1 .. Len(up[k]) : up[k][i].type = "answer"

\* 30 s without an answer, a closed socket, or a description that
\* set_remote_description refuses.
NoAnswer(k) ==
  /\ srv[k].at = "answer"
  /\ IF AnswerUnderWay(k) THEN Fault ELSE NoFault
  /\ Return(k)
  /\ UNCHANGED <<page, handlers, link, up, forwarders, threads>>

\* Both ends hold each other's description.
Connected(k) ==
  /\ srv[k].remote = Own(k)
  /\ page.pc.of = Own(k)
  /\ page.pc.local

\* The screen channel opens: capture, injector and clipboard start.
ChannelOpens(k) ==
  /\ srv[k].at = "channel"
  /\ Connected(k)
  /\ To(k, "stream")
  /\ threads' = threads \cup [kind : Workers, of : {Own(k)}, told : {FALSE}]
  /\ UNCHANGED <<page, handlers, link, up, down, forwarders, faults>>

\* The wait for the channel has no timeout (mutant).
NoChannel_Waits(k) ==
  /\ srv[k].at = "channel"
  /\ Fault
  /\ Return(k)
  /\ UNCHANGED <<page, handlers, link, up, forwarders, threads>>

\* 30 s without a channel; the socket is not read meanwhile.
NoChannel(k) ==
  /\ srv[k].at = "channel"
  /\ IF Connected(k) \/ PageBusy(k) THEN Fault ELSE NoFault
  /\ Return(k)
  /\ UNCHANGED <<page, handlers, link, up, forwarders, threads>>

\* Mid-stream messages are read and ignored.
StreamReads(k) ==
  /\ srv[k].at = "stream"
  /\ up[k] # <<>>
  /\ up' = [up EXCEPT ![k] = Tail(@)]
  /\ UNCHANGED <<page, handlers, link, down, srv, forwarders, threads, faults>>

ThreadsOf(k) == {t \in threads : t.of = Own(k)}

\* run_session returns: the capture thread died, or the peer is lost.
StreamEnds(k) ==
  /\ srv[k].at = "stream"
  /\ IF (\E t \in ThreadsOf(k) : t.kind = "capture") /\ Connected(k)
     THEN Fault ELSE NoFault
  /\ srv' = [srv EXCEPT ![k].at = "detach", ![k].gone = FALSE]
  /\ UNCHANGED <<page, handlers, link, up, down, forwarders, threads>>

\* The socket reports a close or an error: the stream is dropped.
ClientGone(k) ==
  /\ srv[k].at = "stream"
  /\ link[k] = "cut"
  /\ srv' = [srv EXCEPT ![k].at = "detach", ![k].gone = TRUE]
  /\ UNCHANGED <<page, handlers, link, up, down, forwarders, threads, faults>>

Told(k, kinds) ==
  {IF t.of = Own(k) /\ t.kind \in kinds THEN [t EXCEPT !.told = TRUE] ELSE t
     : t \in threads}

\* A client that left ends the task before the teardown (mutant).
Detach_OnlyToRenegotiate(k) ==
  /\ srv[k].at = "detach"
  /\ IF srv[k].gone THEN To(k, "ended") /\ UNCHANGED threads
     ELSE To(k, "join") /\ threads' = Told(k, Kind)
  /\ UNCHANGED <<page, handlers, link, up, down, forwarders, faults>>

\* input.detach and clipboard.detach, each waiting at most 2 s, then stop.
Detach(k) ==
  /\ srv[k].at = "detach"
  /\ To(k, "join")
  /\ threads' = Told(k, Kind)
  /\ UNCHANGED <<page, handlers, link, up, down, forwarders, faults>>

\* The capture thread is joined, or abandoned after 5 s; then the client is
\* gone, or the next negotiation starts after 500 ms.
Join(k) ==
  /\ srv[k].at = "join"
  /\ IF srv[k].gone THEN Return(k)
     ELSE To(k, "negotiate") /\ UNCHANGED down
  /\ UNCHANGED <<page, handlers, link, up, forwarders, threads, faults>>

-----------------------------------------------------------------------------
(* The environment. *)

\* A thread that was told to end does so sooner or later; a capture thread
\* may also fail.
ThreadEnds(t) ==
  /\ IF t.told THEN NoFault ELSE t.kind = "capture" /\ Fault
  /\ threads' = threads \ {t}
  /\ UNCHANGED <<page, handlers, link, up, down, srv, forwarders>>

\* The network drops the page's socket, or the server was not reachable.
Cut ==
  /\ page.at \in {"opening", "open"}
  /\ link[page.ws] # "cut"
  /\ Fault
  /\ link' = [link EXCEPT ![page.ws] = "cut"]
  /\ page' = IF page.at = "opening" THEN [page EXCEPT !.at = "wait"] ELSE page
  /\ UNCHANGED <<handlers, up, down, srv, forwarders, threads>>

\* The user closes the tab.
Leave ==
  /\ page.at = "open"
  /\ Fault
  /\ link' = [link EXCEPT ![page.ws] = "cut"]
  /\ page' = [page EXCEPT !.at = "left", !.pc = NoPc]
  /\ handlers' = {}
  /\ UNCHANGED <<up, down, srv, forwarders, threads>>

Page ==
  \/ Connect \/ Opened \/ Closed
  \/ ReceiveHello \/ ReceiveOffer \/ ReceiveCandidate

Serve(k) ==
  \/ Accept(k) \/ Upgrade(k) \/ UpgradeFails(k) \/ Hangup(k)
  \/ Authenticate(k) \/ AuthGone(k) \/ Reject(k)
  \/ Negotiate(k) \/ NegotiateFails(k)
  \/ WaitForAnswer(k) \/ NoAnswer(k)
  \/ ChannelOpens(k) \/ NoChannel(k)
  \/ StreamEnds(k) \/ ClientGone(k)
  \/ Detach(k) \/ Join(k)

Next ==
  \/ Page
  \/ Trickle
  \/ \E h \in handlers : Describe(h) \/ Answer(h)
  \/ \E k \in Conn : Serve(k) \/ StreamReads(k)
  \/ \E f \in forwarders : Forward(f) \/ ForwardEnds(f)
  \/ \E t \in threads : ThreadEnds(t)
  \/ Cut
  \/ Leave

Spec == Init /\ [][Next]_vars

\* The page's events are delivered, its awaits resolve, each server task is
\* polled and its timers fire, a peer connection that is closed lets its
\* forwarder go, and a channel both ends agree on opens.
FairSpec ==
  /\ Spec
  /\ WF_vars(Page)
  /\ WF_vars(\E h \in handlers : Describe(h) \/ Answer(h))
  /\ \A k \in Conn : WF_vars(Serve(k))
  /\ WF_vars(\E f \in forwarders : ForwardEnds(f))

-----------------------------------------------------------------------------
\* signaling.rs: "a late message from an abandoned attempt must not be applied
\* to this peer_connection".  Within one socket the tags keep attempts apart,
\* however late messages arrive.  Only a message made for an earlier socket,
\* whose sessions were numbered from 1 as well, can be applied to a foreign
\* attempt, and then no stream comes of it.  The page does not look at the tags
\* of candidates, yet its connection is only ever given those of its own or of
\* earlier attempts of the same socket, none before its offer.
AppliedIsOwnOrOlder ==
  /\ \A k \in Conn :
       /\ srv[k].remote \in {NoAttempt, Own(k)} \/ srv[k].remote.conn < k
       /\ \A a \in srv[k].added \cup srv[k].pending : a = Own(k) \/ a.conn < k
       /\ srv[k].at = "stream" => srv[k].remote = Own(k)
  /\ \A a \in page.pc.added :
       a.conn = page.pc.of.conn /\ a.session <= page.pc.of.session

\* At every step of every teardown and failure, a worker that was not told to
\* stop belongs to the stream its server task runs or is just tearing down:
\* nothing keeps capturing or injecting for a client that left, and the next
\* stream never shares the input or the screen with a worker not told to stop.
NoOrphanWorker ==
  \A t \in threads : ~t.told =>
    srv[t.of.conn].at \in {"stream", "detach"} /\ t.of = Own(t.of.conn)

Streaming ==
  /\ page.ws # 0
  /\ srv[page.ws].at = "stream"
  /\ Connected(page.ws)

\* Whatever goes wrong a bounded number of times, in the end the page shows a
\* stream, or the user has left.
EventuallyStreams == <>[](Streaming \/ page.at = "left")

\* A client that is gone is noticed in every phase of its server task.
ClientGoneIsNoticed == \A k \in Conn : link[k] = "cut" ~> srv[k].at \in {"none", "closed"}

=============================================================================
