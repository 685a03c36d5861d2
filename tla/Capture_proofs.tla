--------------------------- MODULE Capture_proofs ---------------------------
(***************************************************************************)
(* Theorems about the two ways the screen is captured: the portal session, *)
(* for every number of sessions and tries, and the feed of wlr-screencopy  *)
(* frames, for every output size and buffer format.                        *)
(*                                                                         *)
(* What the invariants of the portal have in common is that a call belongs *)
(* to one thread (CallsApart) and that a call that is over stays over:     *)
(* what was abandoned, closed or is being closed concerns finished calls   *)
(* only, so a running call still has its session and has sent no Close.    *)
(*                                                                         *)
(* What the capture loop must not do is mix up frames: fi, the buffers and *)
(* the screen change independently.  FrameOwn says what each place of the  *)
(* loop knows of them: until a copy is asked for nothing is ready, from    *)
(* then on the buffer is one that fits, and once it is ready its content   *)
(* is newer than the frame.                                                *)
(***************************************************************************)
EXTENDS PortalSession, CaptureFeed, TLAPS

-----------------------------------------------------------------------------
(* The portal session. *)

\* Calls are numbered as they come, and each is one thread's.
CallsApart ==
  /\ \A t \in Thread : n[t] <= calls /\ (at[t] # "idle" => n[t] # 0)
  /\ \A t, u \in Thread : n[t] = n[u] /\ n[t] # 0 => t = u

\* Only finished calls have been abandoned or have a Close under way.
EndedIsOver == \A c \in abandoned \cup closing : Over(c)

\* A good Response tells the truth, for as long as its call runs.
GoodResponse(m) ==
  m.result = "ok" =>
    /\ m.req.step = "create" => m.req.call \in sessions \/ Over(m.req.call)
    /\ m.req.step = "start" => m.req.call \in granted

QueueIsTrue == \A i \in 1 .. Len(queue) : GoodResponse(queue[i])

\* A call that got past CreateSession has its session.
SessionKnown ==
  \A t \in Thread :
    /\ at[t] # "idle" /\ step[t] # "create" => n[t] \in sessions
    /\ at[t] \in {"open", "stream"} => step[t] = "start" /\ n[t] \in granted

IInv ==
  /\ TypeOK /\ CallsApart /\ EndedIsOver /\ QueueIsTrue /\ SessionKnown
  /\ ClosedExactlyOnce /\ NoAnswerMissed

-----------------------------------------------------------------------------
\* Sequences, for any set of elements.
LEMMA QueueOps ==
  ASSUME NEW S, NEW q \in Seq(S)
  PROVE  /\ q # <<>> => Head(q) \in S /\ Tail(q) \in Seq(S)
         /\ \A e \in S : Append(q, e) \in Seq(S)
         /\ \A i \in 1 .. Len(q) : q[i] \in S
OBVIOUS

\* The main loop and its watcher are no business of the portal.
LEMMA LoopApart ==
  ASSUME NEW t \in Thread, LoopStep(t)
  PROVE  UNCHANGED <<at, step, n, calls, stop, matches, queue, requests, sessions, closing,
                     closes, abandoned, granted, stolen>>
BY DEF LoopStep, StartWatcher, RunLoop, WatcherQuits, FrameQuits, busVars, portalVars, ghosts

\* They keep their types.
LEMMA LoopTypes ==
  ASSUME TypeOK, NEW t \in Thread, LoopStep(t)
  PROVE  loop' \in [Thread -> Loop] /\ watcher' \in [Thread -> Watcher]
<1>t. loop \in [Thread -> Loop] /\ watcher \in [Thread -> Watcher]
  BY DEF TypeOK
<1>1. CASE StartWatcher(t)
  BY <1>1, <1>t DEF StartWatcher, Watcher
<1>2. CASE RunLoop(t)
  <2>1. PICK l \in Loop : loop' = [loop EXCEPT ![t] = l]
    BY <1>2 DEF RunLoop, Loop
  <2> QED BY <2>1, <1>2, <1>t DEF RunLoop
<1>3. CASE WatcherQuits(t)
  BY <1>3, <1>t DEF WatcherQuits, Loop, Watcher
<1>4. CASE FrameQuits(t)
  BY <1>4, <1>t DEF FrameQuits, Loop
<1> QED BY <1>1, <1>2, <1>3, <1>4 DEF LoopStep

\* A finished call never runs again.
LEMMA OverStays ==
  ASSUME IInv, [Next]_vars, NEW c \in Call, Over(c)
  PROVE  Over(c)'
<1> USE DEF IInv, TypeOK, CallsApart, Over, Call
<1>1. ASSUME NEW t \in Thread, Start(t) PROVE Over(c)'
  BY <1>1 DEF Start
<1>2. ASSUME NEW t \in Thread, Run(t) PROVE Over(c)'
  BY <1>2, LoopApart DEF Run, CallPortal, Replied, CallFails, Pop, WaitEnds, OpenRemote, OpenFails,
             StreamFails, StreamStops, GiveUp, CloseSession, Advance
<1>3. CASE UNCHANGED <<at, n, calls>>
  BY <1>3
<1> QED
  BY <1>1, <1>2, <1>3 DEF Next, Stop, PortalAnswers, PortalCloses, vars

\* A call goes to one thread only: pw_capture_start takes the next number.
LEMMA CallsStep ==
  ASSUME IInv, [Next]_vars
  PROVE  CallsApart'
<1> USE DEF IInv, TypeOK, CallsApart, Call
<1>1. ASSUME NEW t \in Thread, Start(t) PROVE CallsApart'
  BY <1>1 DEF Start
<1>2. ASSUME NEW t \in Thread, Run(t) PROVE CallsApart'
  BY <1>2, LoopApart DEF Run, CallPortal, Replied, CallFails, Pop, WaitEnds, OpenRemote, OpenFails,
             StreamFails, StreamStops, GiveUp, CloseSession, Advance
<1>3. CASE UNCHANGED <<at, n, calls>>
  BY <1>3
<1> QED
  BY <1>1, <1>2, <1>3 DEF Next, Stop, PortalAnswers, PortalCloses, vars

\* What a call ends with, and which calls that concerns.
LEMMA CloseTypes ==
  ASSUME TypeOK, NEW t \in Thread, at[t] # "idle", n[t] # 0, GiveUp(t) \/ CloseSession(t)
  PROVE  /\ at' = [at EXCEPT ![t] = "idle"]
         /\ closing' \subseteq Call /\ closes' \in [Call -> Nat] /\ abandoned' \subseteq Call
         /\ closing' \subseteq closing \cup {n[t]}
         /\ abandoned' \subseteq abandoned \cup {n[t]}
<1>1. n[t] \in Call /\ closes \in [Call -> Nat] /\ closing \subseteq Call /\ abandoned \subseteq Call
  BY CallAssumption DEF TypeOK, Call
<1>2. CASE CloseSession(t)
  <2>1. closes[n[t]] + 1 \in Nat
    BY <1>1
  <2> QED BY <1>1, <1>2, <2>1 DEF CloseSession
<1>3. CASE GiveUp(t) /\ ~CloseSession(t)
  BY <1>1, <1>3 DEF GiveUp
<1> QED
  BY <1>2, <1>3

\* The variables' types.
Types ==
  /\ at \in [Thread -> {"idle", "begin", "reply", "wait", "open", "stream"}]
  /\ step \in [Thread -> Step]
  /\ n \in [Thread -> 0 .. MaxCalls]
  /\ calls \in 0 .. MaxCalls
  /\ stop \in [Thread -> BOOLEAN]
  /\ loop \in [Thread -> Loop]
  /\ watcher \in [Thread -> Watcher]
  /\ matches \subseteq Request
  /\ queue \in Seq([req : Request, result : Answer])
  /\ requests \subseteq Request
  /\ sessions \subseteq Call
  /\ closing \subseteq Call
  /\ closes \in [Call -> Nat]
  /\ abandoned \subseteq Call
  /\ granted \subseteq Call
  /\ stolen \subseteq Request

\* A running call's request is one.
LEMMA MineType ==
  ASSUME IInv, NEW t \in Thread, at[t] # "idle"
  PROVE  Mine(t) \in Request /\ n[t] \in Call
BY DEF IInv, TypeOK, CallsApart, Mine, Request, Call

\* Every step keeps the types.
LEMMA TypesStep ==
  ASSUME IInv, [Next]_vars
  PROVE  Types'
<1> USE CallAssumption DEF Types
<1>t. Types /\ MaxCalls \in Nat
  BY DEF IInv, TypeOK
<1>1. ASSUME NEW t \in Thread, Start(t) PROVE Types'
  BY <1>1, <1>t DEF Start, busVars, portalVars, ghosts, Step, Loop, Watcher
<1>2. ASSUME NEW t \in Thread, Run(t) PROVE Types'
  <2>m. at[t] # "idle" => Mine(t) \in Request /\ n[t] \in Call /\ n[t] # 0
    BY MineType, <1>2 DEF IInv, CallsApart
  <2>c. ASSUME at[t] # "idle", GiveUp(t) \/ CloseSession(t)
        PROVE  /\ at' \in [Thread -> {"idle", "begin", "reply", "wait", "open", "stream"}]
               /\ closing' \subseteq Call /\ closes' \in [Call -> Nat] /\ abandoned' \subseteq Call
    BY <2>c, <2>m, <1>t, CloseTypes DEF IInv
  <2>1. CASE CallPortal(t)
    BY <2>1, <2>m, <1>t DEF CallPortal, streamVars, portalVars, ghosts
  <2>2. CASE Replied(t)
    BY <2>2, <1>t DEF Replied, streamVars, busVars, portalVars, ghosts
  <2>3. CASE CallFails(t)
    BY <2>3, <2>c, <1>t DEF CallFails, streamVars
  <2>4. CASE Pop(t)
    <3> DEFINE m == Head(queue)
    <3>q. m \in [req : Request, result : Answer] /\ queue' \in Seq([req : Request, result : Answer])
      <4> DEFINE S == [req : Request, result : Answer]
      <4>1. queue \in Seq(S) /\ queue # <<>> /\ queue' = Tail(queue)
        BY <2>4, <1>t DEF Pop
      <4> HIDE DEF S
      <4>2. m \in S /\ queue' \in Seq(S)
        BY <4>1, QueueOps
      <4> QED BY <4>2 DEF S
    <3>1. CASE IsMine(t, m.req) /\ m.result = "ok"
      BY <3>1, <3>q, <2>4, <1>t DEF Pop, Advance, Step, streamVars
    <3>2. CASE IsMine(t, m.req) /\ m.result # "ok"
      BY <3>2, <3>q, <2>4, <2>c, <1>t DEF Pop, streamVars
    <3>3. CASE ~IsMine(t, m.req)
      BY <3>3, <3>q, <2>4, <1>t DEF Pop, streamVars
    <3> QED BY <3>1, <3>2, <3>3
  <2>5. CASE WaitEnds(t)
    BY <2>5, <2>c, <1>t DEF WaitEnds, streamVars
  <2>6. CASE OpenRemote(t)
    BY <2>6, <1>t DEF OpenRemote, streamVars, busVars, portalVars, ghosts
  <2>7. CASE OpenFails(t) \/ StreamFails(t) \/ StreamStops(t)
    BY <2>7, <2>c, <1>t DEF OpenFails, StreamFails, StreamStops, streamVars, busVars
  <2>8. CASE LoopStep(t)
    BY <2>8, <1>t, LoopApart, LoopTypes DEF IInv
  <2> QED
    BY <1>2, <2>1, <2>2, <2>3, <2>4, <2>5, <2>6, <2>7, <2>8 DEF Run
<1>3. ASSUME NEW t \in Thread, Stop(t) PROVE Types'
  BY <1>3, <1>t DEF Stop, streamVars, busVars, portalVars, ghosts
<1>4. ASSUME NEW req \in requests, NEW result \in Answer, PortalAnswers(req, result) PROVE Types'
  <2>1. req \in Request /\ req.call \in Call /\ [req |-> req, result |-> result] \in [req : Request, result : Answer]
    BY <1>4, <1>t DEF Request
  <2>2. queue' \in Seq([req : Request, result : Answer])
    <3> DEFINE S == [req : Request, result : Answer]
    <3>1. /\ queue \in Seq(S) /\ [req |-> req, result |-> result] \in S
          /\ queue' = Append(queue, [req |-> req, result |-> result]) \/ queue' = queue
      BY <1>4, <1>t, <2>1 DEF PortalAnswers
    <3> HIDE DEF S
    <3>2. queue' \in Seq(S)
      BY <3>1, QueueOps
    <3> QED BY <3>2 DEF S
  <2> QED
    BY <1>4, <1>t, <2>1, <2>2 DEF PortalAnswers, streamVars
<1>5. ASSUME NEW call \in closing, PortalCloses(call) PROVE Types'
  BY <1>5, <1>t DEF PortalCloses, streamVars, busVars, ghosts
<1>6. CASE UNCHANGED vars
  BY <1>6, <1>t DEF vars
<1> QED
  BY <1>1, <1>2, <1>3, <1>4, <1>5, <1>6 DEF Next

\* The threads that have a match rule, and what a step does to that.
Waiting == {t \in Thread : at[t] \in {"reply", "wait"}}

MatchesMine == matches = {Mine(t) : t \in Waiting}

\* Two running calls never wait for the same Response.
LEMMA MineApart ==
  ASSUME IInv, NEW t \in Thread, NEW u \in Thread, at[t] # "idle", Mine(t) = Mine(u)
  PROVE  t = u
BY DEF IInv, CallsApart, Mine

\* A match rule comes and goes with the wait it is for.
LEMMA MatchesStep ==
  ASSUME IInv, [Next]_vars
  PROVE  MatchesMine'
<1>t. /\ TypeOK /\ MatchesMine
      /\ \A t, u \in Thread : at[t] # "idle" /\ Mine(t) = Mine(u) => t = u
  BY MineApart DEF IInv, TypeOK, MatchesMine, Waiting, Mine
<1>0. ASSUME UNCHANGED <<at, step, n, matches>> PROVE MatchesMine'
  BY <1>0, <1>t DEF MatchesMine, Waiting, Mine
<1>1. ASSUME NEW t \in Thread, Start(t) PROVE MatchesMine'
  <2>1. /\ Waiting' = Waiting
        /\ \A u \in Waiting : Mine(u)' = Mine(u)
    BY <1>1, <1>t DEF Start, Waiting, Mine, TypeOK
  <2> QED BY <2>1, <1>1, <1>t DEF MatchesMine, Start, busVars
<1>2. ASSUME NEW t \in Thread, t \in Waiting, matches' = matches \ {Mine(t)},
             \A u \in Thread : u # t => at'[u] = at[u] /\ step'[u] = step[u],
             at'[t] \notin {"reply", "wait"}, n' = n
      PROVE  MatchesMine'
  <2>1. /\ Waiting' = Waiting \ {t}
        /\ \A u \in Waiting' : Mine(u)' = Mine(u) /\ Mine(u) # Mine(t)
    BY <1>2, <1>t DEF Waiting, Mine
  <2> QED BY <2>1, <1>2, <1>t DEF MatchesMine
<1>3. ASSUME NEW t \in Thread, Run(t) PROVE MatchesMine'
  <2>g. ASSUME at[t] # "idle", GiveUp(t) \/ CloseSession(t) PROVE at' = [at EXCEPT ![t] = "idle"]
    BY <2>g DEF GiveUp, CloseSession
  <2>1. CASE CallPortal(t)
    <3>1. /\ Waiting' = Waiting \cup {t}
          /\ \A u \in Waiting' : Mine(u)' = Mine(u)
      BY <2>1, <1>t DEF CallPortal, Waiting, Mine, TypeOK
    <3> QED BY <3>1, <2>1, <1>t DEF MatchesMine, CallPortal
  <2>2. CASE Replied(t)
    <3>1. /\ Waiting' = Waiting
          /\ \A u \in Waiting' : Mine(u)' = Mine(u)
      BY <2>2, <1>t DEF Replied, Waiting, Mine, TypeOK
    <3> QED BY <3>1, <2>2, <1>t DEF MatchesMine, Replied, busVars
  <2>3. CASE CallFails(t) \/ WaitEnds(t)
    BY <2>3, <2>g, <1>2, <1>t DEF CallFails, WaitEnds, Waiting, TypeOK
  <2>4. CASE Pop(t)
    <3>1. CASE IsMine(t, Head(queue).req) /\ Head(queue).result = "ok"
      BY <3>1, <2>4, <1>2, <1>t DEF Pop, Advance, Waiting, TypeOK
    <3>2. CASE IsMine(t, Head(queue).req) /\ Head(queue).result # "ok"
      BY <3>2, <2>4, <2>g, <1>2, <1>t DEF Pop, Waiting, TypeOK
    <3>3. CASE ~IsMine(t, Head(queue).req)
      BY <3>3, <2>4, <1>0 DEF Pop
    <3> QED BY <3>1, <3>2, <3>3
  <2>5. CASE OpenRemote(t) \/ OpenFails(t) \/ StreamFails(t) \/ StreamStops(t)
    <3>1. /\ Waiting' = Waiting /\ matches' = matches
          /\ \A u \in Waiting' : Mine(u)' = Mine(u)
      BY <2>5, <2>g, <1>t DEF OpenRemote, OpenFails, StreamFails, StreamStops, busVars,
                              Waiting, Mine, TypeOK
    <3> QED BY <3>1, <1>t DEF MatchesMine
  <2>6. CASE LoopStep(t)
    BY <2>6, <1>0, LoopApart
  <2> QED
    BY <1>3, <2>1, <2>2, <2>3, <2>4, <2>5, <2>6 DEF Run
<1> QED
  BY <1>0, <1>1, <1>3 DEF Next, Stop, PortalAnswers, PortalCloses, busVars, vars

\* The type invariant is those two.
LEMMA TypeStep ==
  ASSUME IInv, [Next]_vars
  PROVE  TypeOK'
<1>1. Types' /\ MatchesMine'
  BY TypesStep, MatchesStep
<1> QED
  BY <1>1 DEF Types, MatchesMine, Waiting, Mine, TypeOK

-----------------------------------------------------------------------------
\* A step abandons or closes only the call it ends.
LEMMA EndedStep ==
  ASSUME IInv, [Next]_vars
  PROVE  EndedIsOver'
<1>1. SUFFICES ASSUME NEW c \in (abandoned \cup closing)', c \notin abandoned \cup closing
               PROVE  Over(c)'
  <2>1. \A c \in abandoned \cup closing : c \in Call /\ Over(c)
    BY DEF IInv, EndedIsOver, TypeOK
  <2> QED BY <2>1, OverStays DEF EndedIsOver
<1>2. ASSUME NEW t \in Thread, Run(t) PROVE Over(c)'
  <2>1. c = n[t] /\ at' = [at EXCEPT ![t] = "idle"] /\ n' = n /\ calls' = calls /\ at[t] # "idle"
    BY <1>1, <1>2, LoopApart DEF Run, CallPortal, Replied, CallFails, Pop, WaitEnds, OpenRemote, OpenFails,
          StreamFails, StreamStops, GiveUp, CloseSession, Advance, portalVars, ghosts
  <2> QED BY <2>1 DEF Over, IInv, CallsApart, TypeOK
<1> QED
  BY <1>1, <1>2 DEF Next, Start, Stop, PortalAnswers, PortalCloses, portalVars, ghosts, vars

\* Responses are only added by the portal, which tells the truth; a session
\* ends only after its call.
LEMMA QueueStep ==
  ASSUME IInv, [Next]_vars
  PROVE  QueueIsTrue'
<1>t. TypeOK /\ QueueIsTrue /\ EndedIsOver
  BY DEF IInv
<1>s. \A c \in sessions : c \in sessions' \/ Over(c)
  BY <1>t, LoopApart DEF Next, Start, Run, CallPortal, Replied, CallFails, Pop, WaitEnds, OpenRemote, OpenFails,
          StreamFails, StreamStops, Stop, PortalAnswers, PortalCloses, EndedIsOver,
          portalVars, vars
<1>g. granted \subseteq granted'
  BY LoopApart DEF Next, Start, Run, CallPortal, Replied, CallFails, Pop, WaitEnds, OpenRemote, OpenFails,
          StreamFails, StreamStops, Stop, PortalAnswers, PortalCloses, ghosts, vars
<1>k. ASSUME NEW m \in [req : Request, result : Answer], GoodResponse(m) PROVE GoodResponse(m)'
  <2>1. m.req.call \in Call
    BY DEF Request
  <2> QED BY <1>k, <1>s, <1>g, <2>1, OverStays DEF GoodResponse
<1>q. \A i \in 1 .. Len(queue) : queue[i] \in [req : Request, result : Answer]
  <2> DEFINE S == [req : Request, result : Answer]
  <2>1. queue \in Seq(S)
    BY <1>t DEF TypeOK
  <2> HIDE DEF S
  <2>2. \A i \in 1 .. Len(queue) : queue[i] \in S
    BY <2>1, QueueOps
  <2> QED BY <2>2 DEF S
<1>1. CASE queue' = queue
  BY <1>1, <1>t, <1>q, <1>k DEF QueueIsTrue, GoodResponse
<1>2. CASE queue # <<>> /\ queue' = Tail(queue)
  BY <1>2, <1>t, <1>q, <1>k DEF QueueIsTrue, TypeOK
<1>3. ASSUME NEW req \in requests, NEW result \in Answer, PortalAnswers(req, result)
      PROVE  QueueIsTrue'
  <2> DEFINE m == [req |-> req, result |-> result]
  <2>1. GoodResponse(m)'
    BY <1>3 DEF PortalAnswers, GoodResponse
  <2>2. CASE queue' = Append(queue, m)
    BY <2>1, <2>2, <1>t, <1>q, <1>k DEF QueueIsTrue, TypeOK
  <2> QED BY <1>1, <1>3, <2>2 DEF PortalAnswers
<1> QED
  BY <1>1, <1>2, <1>3, LoopApart DEF Next, Start, Run, CallPortal, Replied, CallFails, Pop, WaitEnds, OpenRemote,
          OpenFails, StreamFails, StreamStops, Stop, PortalCloses, busVars, vars

\* The session of a running call stays, and its Start's grant too.
LEMMA SessionStep ==
  ASSUME IInv, [Next]_vars
  PROVE  SessionKnown'
<1>t. TypeOK /\ SessionKnown /\ CallsApart /\ QueueIsTrue
  BY DEF IInv
<1>s. \A t \in Thread : at[t] # "idle" /\ n[t] \in sessions => n[t] \in sessions'
  <2>1. \A t \in Thread : at[t] # "idle" => n[t] \notin closing
    BY DEF IInv, EndedIsOver, Over
  <2> QED
    BY <2>1, LoopApart DEF Next, Start, Run, CallPortal, Replied, CallFails, Pop, WaitEnds, OpenRemote, OpenFails,
          StreamFails, StreamStops, Stop, PortalAnswers, PortalCloses, portalVars, vars
<1>g. granted \subseteq granted'
  BY LoopApart DEF Next, Start, Run, CallPortal, Replied, CallFails, Pop, WaitEnds, OpenRemote, OpenFails,
          StreamFails, StreamStops, Stop, PortalAnswers, PortalCloses, ghosts, vars
<1>1. ASSUME NEW t \in Thread, Start(t) PROVE SessionKnown'
  BY <1>1, <1>t, <1>s, <1>g DEF SessionKnown, Start, TypeOK
<1>2. ASSUME NEW t \in Thread, Run(t) PROVE SessionKnown'
  <2>0. /\ \A u \in Thread : u # t => at'[u] = at[u] /\ step'[u] = step[u]
        /\ n' = n
    BY <1>2, <1>t, LoopApart DEF Run, CallPortal, Replied, CallFails, Pop, WaitEnds, OpenRemote, OpenFails,
          StreamFails, StreamStops, GiveUp, CloseSession, Advance, TypeOK
  <2>1. SUFFICES
          /\ at'[t] # "idle" /\ step'[t] # "create" => n[t] \in sessions'
          /\ at'[t] \in {"open", "stream"} => step'[t] = "start" /\ n[t] \in granted'
    BY <2>0, <2>1, <1>t, <1>s, <1>g DEF SessionKnown
  <2>2. CASE Pop(t)
    <3> DEFINE m == Head(queue)
    <3>1. CASE IsMine(t, m.req) /\ m.result = "ok"
      <4>1. GoodResponse(m) /\ m.req = Mine(t)
        BY <3>1, <2>2, <1>t DEF QueueIsTrue, Pop, TypeOK, IsMine
      <4>2. ~Over(n[t]) /\ sessions' = sessions /\ granted' = granted
        BY <2>2 DEF Over, Pop
      <4>3. /\ step[t] = "create" => n[t] \in sessions
            /\ step[t] = "start" => n[t] \in granted
        BY <4>1, <4>2, <3>1 DEF GoodResponse, Mine
      <4>4. /\ at'[t] = IF step[t] = "start" THEN "open" ELSE "begin"
            /\ step'[t] = IF step[t] = "create" THEN "select" ELSE "start"
        BY <3>1, <2>2, <1>t DEF Pop, Advance, TypeOK
      <4> QED BY <4>2, <4>3, <4>4, <2>2, <1>t DEF SessionKnown, Pop
    <3>2. CASE ~(IsMine(t, m.req) /\ m.result = "ok")
      BY <3>2, <2>2, <1>t, <1>s DEF Pop, GiveUp, CloseSession, SessionKnown, TypeOK
    <3> QED BY <3>1, <3>2
  <2>3. CASE ~Pop(t)
    BY <2>3, <1>2, <1>t, <1>s, <1>g, LoopApart
       DEF Run, CallPortal, Replied, CallFails, WaitEnds, OpenRemote, OpenFails, StreamFails,
           StreamStops, GiveUp, CloseSession, SessionKnown, TypeOK
  <2> QED BY <2>2, <2>3
<1>3. CASE UNCHANGED <<at, step, n>>
  BY <1>3, <1>t, <1>s, <1>g DEF SessionKnown
<1> QED
  BY <1>1, <1>2, <1>3 DEF Next, Stop, PortalAnswers, PortalCloses, vars

\* A call sends its Close in the step in which it becomes over.
LEMMA CloseStep ==
  ASSUME IInv, [Next]_vars
  PROVE  ClosedExactlyOnce'
<1>t. /\ TypeOK /\ CallsApart /\ ClosedExactlyOnce
      /\ \A c \in Call : c \in abandoned => Over(c)
  BY DEF IInv, EndedIsOver
<1>1. ASSUME NEW t \in Thread, Start(t) PROVE ClosedExactlyOnce'
  <2>1. \A c \in Call : Over(c)' <=> Over(c)
    BY <1>1, <1>t DEF Start, Over, CallsApart, TypeOK, Call
  <2> QED BY <2>1, <1>1, <1>t DEF ClosedExactlyOnce, Start, ghosts
<1>2. ASSUME NEW t \in Thread, at[t] # "idle", at' = [at EXCEPT ![t] = "idle"],
             n' = n, calls' = calls,
             \/ /\ closes' = [closes EXCEPT ![n[t]] = @ + 1]
                /\ abandoned' = abandoned
             \/ /\ closes' = closes
                /\ abandoned' = abandoned \cup {n[t]}
      PROVE  ClosedExactlyOnce'
  <2>1. \A c \in Call : c # n[t] => (Over(c)' <=> Over(c))
    BY <1>2, <1>t DEF Over, TypeOK
  <2>2. ~Over(n[t]) /\ Over(n[t])' /\ n[t] \in Call
    BY <1>2, <1>t, CallAssumption DEF Over, CallsApart, TypeOK, Call
  <2>3. n[t] \notin abandoned /\ closes[n[t]] = 0
    BY <2>2, <1>t DEF ClosedExactlyOnce
  <2>4. closes \in [Call -> Nat]
    BY <1>t DEF TypeOK
  <2> QED BY <2>1, <2>2, <2>3, <2>4, <1>2, <1>t DEF ClosedExactlyOnce
<1>3. ASSUME UNCHANGED <<n, calls, closes, abandoned>>,
             \A t \in Thread : at'[t] = "idle" <=> at[t] = "idle"
      PROVE  ClosedExactlyOnce'
  BY <1>3, <1>t DEF ClosedExactlyOnce, Over
<1>4. ASSUME NEW t \in Thread, Run(t) PROVE ClosedExactlyOnce'
  <2>g. ASSUME at[t] # "idle", n' = n, calls' = calls, GiveUp(t) \/ CloseSession(t)
        PROVE  ClosedExactlyOnce'
    BY <2>g, <1>2 DEF GiveUp, CloseSession
  <2>1. CASE CallPortal(t) \/ Replied(t) \/ OpenRemote(t)
    BY <2>1, <1>3, <1>t DEF CallPortal, Replied, OpenRemote, ghosts, TypeOK
  <2>2. CASE CallFails(t) \/ WaitEnds(t) \/ OpenFails(t) \/ StreamFails(t) \/ StreamStops(t)
    BY <2>2, <2>g DEF CallFails, WaitEnds, OpenFails, StreamFails, StreamStops
  <2>3. CASE Pop(t)
    <3>1. CASE IsMine(t, Head(queue).req) /\ Head(queue).result = "ok"
      BY <3>1, <2>3, <1>3, <1>t DEF Pop, Advance, TypeOK
    <3>2. CASE IsMine(t, Head(queue).req) /\ Head(queue).result # "ok"
      BY <3>2, <2>3, <2>g DEF Pop
    <3>3. CASE ~IsMine(t, Head(queue).req)
      BY <3>3, <2>3, <1>3 DEF Pop
    <3> QED BY <3>1, <3>2, <3>3
  <2>4. CASE LoopStep(t)
    BY <2>4, <1>3, LoopApart
  <2> QED
    BY <1>4, <2>1, <2>2, <2>3, <2>4 DEF Run
<1> QED
  BY <1>1, <1>3, <1>4 DEF Next, Stop, PortalAnswers, PortalCloses, ghosts, vars

\* An answer a thread waits for leaves the connection only by that thread's own
\* Pop, or is marked stolen.
Reachable(r) ==
  \/ r \in requests \cup stolen
  \/ \E i \in 1 .. Len(queue) : queue[i].req = r

\* No step of any thread makes a waiting thread miss its answer.
LEMMA AnswerStep ==
  ASSUME IInv, [Next]_vars
  PROVE  NoAnswerMissed'
<1>t. /\ TypeOK /\ CallsApart
      /\ \A t \in Thread : at[t] \in {"reply", "wait"} => Reachable(Mine(t))
  BY DEF IInv, NoAnswerMissed, Reachable
<1>0. SUFFICES \A t \in Thread : at'[t] \in {"reply", "wait"} => Reachable(Mine(t))'
  BY DEF NoAnswerMissed, Reachable
<1>1. ASSUME NEW r, Reachable(r), requests' = requests, stolen' = stolen, queue' = queue
      PROVE  Reachable(r)'
  BY <1>1 DEF Reachable
<1>2. ASSUME NEW t \in Thread, Start(t)
      PROVE  \A u \in Thread : at'[u] \in {"reply", "wait"} => Reachable(Mine(u))'
  <2>1. \A u \in Thread : at'[u] \in {"reply", "wait"} =>
          at[u] \in {"reply", "wait"} /\ Mine(u)' = Mine(u)
    BY <1>2, <1>t DEF Start, Mine, TypeOK
  <2> QED BY <2>1, <1>1, <1>2, <1>t DEF Start, busVars, ghosts, Reachable
<1>3. ASSUME NEW t \in Thread, Run(t)
      PROVE  \A u \in Thread : at'[u] \in {"reply", "wait"} => Reachable(Mine(u))'
  <2>0. \A u \in Thread : u # t => at'[u] = at[u] /\ Mine(u)' = Mine(u)
    BY <1>3, <1>t, LoopApart DEF Run, CallPortal, Replied, CallFails, Pop, WaitEnds, OpenRemote, OpenFails,
          StreamFails, StreamStops, GiveUp, CloseSession, Advance, TypeOK, Mine
  <2>1. SUFFICES
          /\ \A u \in Thread : u # t /\ at[u] \in {"reply", "wait"} /\ Reachable(Mine(u))
               => Reachable(Mine(u))'
          /\ at'[t] \in {"reply", "wait"} => Reachable(Mine(t))'
    BY <2>0, <2>1, <1>t DEF Reachable
  <2>2. CASE CallPortal(t)
    BY <2>2, <2>0 DEF CallPortal, Reachable, Mine, ghosts
  <2>3. CASE Replied(t)
    BY <2>3, <2>0, <1>t DEF Replied, Reachable, Mine, busVars, ghosts
  <2>4. CASE CallFails(t)
    <3>1. \A u \in Thread : u # t /\ at[u] \in {"reply", "wait"} => Mine(u) # Mine(t)
      BY <2>4, MineApart DEF CallFails
    <3>2. at'[t] = "idle"
      BY <2>4, <1>t DEF CallFails, GiveUp, CloseSession, TypeOK
    <3> QED BY <3>1, <3>2, <2>4, <2>0 DEF CallFails, Reachable
  <2>5. CASE WaitEnds(t) \/ OpenRemote(t) \/ OpenFails(t) \/ StreamFails(t) \/ StreamStops(t)
    BY <2>5, <2>0, <1>t DEF WaitEnds, OpenRemote, OpenFails, StreamFails, StreamStops, GiveUp,
          CloseSession, Reachable, busVars, ghosts, TypeOK
  <2>6. CASE Pop(t)
    <3> DEFINE m == Head(queue)
    <3>q. /\ queue # <<>> /\ queue' = Tail(queue) /\ requests' = requests
          /\ m = queue[1]
          /\ \A i \in 1 .. Len(queue) : i # 1 => i - 1 \in 1 .. Len(queue') /\ queue'[i - 1] = queue[i]
      BY <2>6, <1>t DEF Pop, TypeOK
    <3>1. ASSUME NEW r, Reachable(r), m.req # r, stolen \subseteq stolen' PROVE Reachable(r)'
      BY <3>1, <3>q DEF Reachable
    <3>2. stolen \subseteq stolen'
      BY <2>6 DEF Pop
    <3>3. CASE IsMine(t, m.req)
      <4>1. at'[t] \notin {"reply", "wait"}
        BY <3>3, <2>6, <1>t DEF Pop, Advance, GiveUp, CloseSession, TypeOK
      <4>2. \A u \in Thread : u # t /\ at[u] \in {"reply", "wait"} => Mine(u) # m.req
        BY <3>3, <2>6, MineApart DEF Pop, IsMine
      <4> QED BY <4>1, <4>2, <3>1, <3>2, <2>0
    <3>4. CASE ~IsMine(t, m.req)
      <4>1. /\ stolen' = stolen \cup {m.req}
            /\ at' = at /\ Mine(t)' = Mine(t)
        BY <3>4, <2>6 DEF Pop, Mine
      <4>2. \A r : Reachable(r) => Reachable(r)'
        BY <4>1, <3>q, <3>1, <3>2 DEF Reachable
      <4> QED BY <4>1, <4>2, <2>0, <2>6, <1>t DEF Pop
    <3> QED BY <3>3, <3>4
  <2>7. CASE LoopStep(t)
    BY <2>7, <1>1, <1>t, LoopApart DEF Mine, Reachable
  <2> QED
    BY <1>3, <2>2, <2>3, <2>4, <2>5, <2>6, <2>7 DEF Run
<1>4. ASSUME NEW req \in requests, NEW result \in Answer, PortalAnswers(req, result)
      PROVE  \A u \in Thread : at'[u] \in {"reply", "wait"} => Reachable(Mine(u))'
  <2> SUFFICES ASSUME NEW u \in Thread, at[u] \in {"reply", "wait"}
               PROVE  Reachable(Mine(u))'
    BY <1>4 DEF PortalAnswers
  <2>1. Mine(u)' = Mine(u) /\ Reachable(Mine(u)) /\ Mine(u) \in matches
    BY <1>4, <1>t DEF PortalAnswers, Mine, TypeOK
  <2>2. CASE Mine(u) = req
    <3>1. queue' = Append(queue, [req |-> req, result |-> result])
      BY <2>1, <2>2, <1>4 DEF PortalAnswers
    <3>2. queue'[Len(queue')].req = req /\ Len(queue') \in 1 .. Len(queue')
      BY <3>1, <1>t DEF TypeOK
    <3> QED BY <3>2, <2>1, <2>2 DEF Reachable
  <2>3. CASE Mine(u) # req
    <3>1. \A i \in 1 .. Len(queue) : i \in 1 .. Len(queue') /\ queue'[i] = queue[i]
      BY <1>4, <1>t DEF PortalAnswers, TypeOK
    <3> QED BY <3>1, <2>1, <2>3, <1>4 DEF PortalAnswers, Reachable
  <2> QED BY <2>2, <2>3
<1>5. CASE UNCHANGED <<at, step, n, requests, stolen, queue>>
  BY <1>5, <1>t, <1>1 DEF Mine, Reachable
<1> QED
  BY <1>2, <1>3, <1>4, <1>5 DEF Next, Stop, PortalCloses, busVars, ghosts, vars

-----------------------------------------------------------------------------
\* Nothing has happened yet.
LEMMA InitIInv ==
  Init => IInv
BY CallAssumption DEF Init, IInv, TypeOK, CallsApart, EndedIsOver, QueueIsTrue, SessionKnown,
     ClosedExactlyOnce, NoAnswerMissed, Over, Step, Request, Call, Answer, Loop, Watcher

\* Calls apart, sessions known, Responses true: the invariant of pw_capture_start
\* as a whole.
THEOREM Inductive == Spec => []IInv
<1>1. IInv /\ [Next]_vars => IInv'
  BY TypeStep, CallsStep, EndedStep, QueueStep, SessionStep, CloseStep, AnswerStep DEF IInv
<1> QED
  BY InitIInv, <1>1, PTL DEF Spec

\* The types of the variables; and a match rule is there exactly while its
\* call is.
THEOREM TypeCorrect == Spec => []TypeOK
<1>1. IInv => TypeOK
  BY DEF IInv
<1> QED BY Inductive, <1>1, PTL

\* Every portal session is closed exactly once, on every exit path of
\* pw_capture_start, unless the call gave up on CreateSession.
THEOREM SessionsAreClosed == Spec => []ClosedExactlyOnce
<1>1. IInv => ClosedExactlyOnce
  BY DEF IInv
<1> QED BY Inductive, <1>1, PTL

\* A thread misses an answer only to another thread of the process.
THEOREM AnswersReachTheirThread == Spec => []NoAnswerMissed
<1>1. IInv => NoAnswerMissed
  BY DEF IInv
<1> QED BY Inductive, <1>1, PTL

\* The screen is captured only with the grant of the call's own Start.
THEOREM CaptureIsGranted == Spec => []CapturesByGrant
<1>1. IInv => CapturesByGrant
  BY DEF IInv, SessionKnown, CapturesByGrant
<1> QED BY Inductive, <1>1, PTL

-----------------------------------------------------------------------------
(* The feed of captured frames. *)

ShmRecord == [size : Size, content : Content \cup {None}]
DmaRecord == [size : Size, fmt : Format, content : Content \cup {None}]

\* No copy was asked for yet; one was.
BeforeCopy == pc \in {"hint", "rehint", "shm"} => copies = 0 /\ ~fi.ready
OneCopy    == pc \in {"dmacopy", "shmcopy"} => copies = 1

\* The buffer being copied into is there and fits, and what it holds once the
\* copy is ready is no older than the frame.
FrameOwn ==
  /\ pc = "shmcopy" =>
       /\ shmBuf \in ShmRecord
       /\ fi.ready => shmBuf.content \in since .. screen.content
  /\ pc = "dmacopy" =>
       /\ dmaBuf \in DmaRecord
       /\ fi.ready => dmaBuf.content \in since .. screen.content
  /\ since <= screen.content

FeedIInv ==
  /\ FeedTypeOK /\ BeforeCopy /\ OneCopy /\ FrameOwn /\ FrameProtocol /\ BufferFitsHints

-----------------------------------------------------------------------------
\* The session's part, the screen and the thread's sleep touch no frame.
LEMMA Apart ==
  ASSUME FeedIInv, UNCHANGED <<fi, bufs, screen, feedGhosts>>, FeedTypeOK',
         pc' \in {"top", "sleep", "ended"} \/ pc' = pc,
         (pc' \in {"shm"} \cup AwaitsFrame) <=> (pc \in {"shm"} \cup AwaitsFrame)
  PROVE  FeedIInv'
BY DEF FeedIInv, FeedTypeOK, BeforeCopy, OneCopy, FrameOwn, FrameProtocol, BufferFitsHints, bufs, feedGhosts,
   AwaitsFrame, ShmRecord, DmaRecord

\* capture_output with a frame object of its own.
LEMMA CaptureStep ==
  ASSUME FeedIInv, Capture
  PROVE  FeedIInv'
BY FeedAssumption DEF Capture, CaptureOutput, Clear, FeedIInv, FeedTypeOK, BeforeCopy, OneCopy, FrameOwn, FrameProtocol,
   BufferFitsHints, bufs, feed, world, AwaitsFrame, Picture, Content

\* The fallback's frame object takes the place of the rejected one.
LEMMA RejectedStep ==
  ASSUME FeedIInv, DmaRejected
  PROVE  FeedIInv'
BY FeedAssumption DEF DmaRejected, CaptureOutput, Clear, FeedIInv, FeedTypeOK, BeforeCopy, OneCopy, FrameOwn,
   FrameProtocol, BufferFitsHints, feed, world, AwaitsFrame, Picture, Content

\* The frame object is destroyed and the loop ends.
LEMMA FailedStep ==
  ASSUME FeedIInv, FrameFailed, pc \in {"shm"} \cup AwaitsFrame
  PROVE  FeedIInv'
BY DEF FrameFailed, FeedIInv, FeedTypeOK, BeforeCopy, OneCopy, FrameOwn, FrameProtocol,
   BufferFitsHints, bufs, feed, world, AwaitsFrame

\* A DMA-BUF is kept when it fits, and made to fit otherwise.
LEMMA HintForDmaStep ==
  ASSUME FeedIInv, HintForDma
  PROVE  FeedIInv'
<1>t. /\ FeedTypeOK /\ pc = "hint" /\ fi.dma \in DmaHint
      /\ copies = 0 /\ ~fi.ready
  BY DEF FeedIInv, FeedTypeOK, HintForDma, TryDma, BeforeCopy
<1>1. dmaBuf' # None => dmaBuf' \in DmaRecord /\ dmaBuf'.size = fi.dma.size /\ dmaBuf'.fmt = fi.dma.fmt
  BY <1>t DEF HintForDma, DmaFits, NewDma, FeedTypeOK, DmaRecord, DmaHint
<1>2. CASE dmaBuf' # None
  BY <1>t, <1>1, <1>2 DEF HintForDma, FeedIInv, FeedTypeOK, BeforeCopy, OneCopy, FrameOwn, FrameProtocol,
     BufferFitsHints, feed, world, AwaitsFrame, DmaRecord
<1>3. CASE dmaBuf' = None
  BY <1>t, <1>3 DEF HintForDma, FeedIInv, FeedTypeOK, BeforeCopy, OneCopy, FrameOwn, FrameProtocol,
     BufferFitsHints, feed, world, AwaitsFrame
<1> QED BY <1>2, <1>3

\* The choice of shared memory touches nothing but the place in the loop.
LEMMA HintForShmStep ==
  ASSUME FeedIInv, HintForShm
  PROVE  FeedIInv'
BY DEF HintForShm, FeedIInv, FeedTypeOK, BeforeCopy, OneCopy, FrameOwn, FrameProtocol,
   BufferFitsHints, bufs, feed, world, feedGhosts, AwaitsFrame

\* Without a hint the frame object is destroyed and the loop starts again.
LEMMA NoShmStep ==
  ASSUME FeedIInv, NoShm
  PROVE  FeedIInv'
BY DEF NoShm, FeedIInv, FeedTypeOK, BeforeCopy, OneCopy, FrameOwn, FrameProtocol,
   BufferFitsHints, bufs, feed, world, AwaitsFrame

\* The shared-memory buffer is kept when its size fits, and made anew otherwise.
LEMMA ShmCopyStep ==
  ASSUME FeedIInv, ShmCopy
  PROVE  FeedIInv'
<1>t. FeedTypeOK /\ pc = "shm" /\ fi.shm \in Size /\ copies = 0 /\ ~fi.ready
  BY DEF FeedIInv, FeedTypeOK, ShmCopy, BeforeCopy
<1>1. shmBuf' \in ShmRecord /\ shmBuf'.size = fi.shm
  BY <1>t DEF ShmCopy, ShmFits, FeedTypeOK, ShmRecord
<1> QED
  BY <1>t, <1>1 DEF ShmCopy, FeedIInv, FeedTypeOK, BeforeCopy, OneCopy, FrameOwn, FrameProtocol,
     BufferFitsHints, feed, world, AwaitsFrame, ShmRecord

\* What is sent is what the frame's own buffer holds.
LEMMA DeliverStep ==
  ASSUME FeedIInv, DmaReady \/ ShmReady
  PROVE  FeedIInv' /\ (slot' \notin {slot, None} => slot'.content \in since .. screen.content)
<1>1. PICK buf \in ShmRecord \cup DmaRecord :
        Deliver(buf) /\ buf.content \in since .. screen.content
  BY DEF DmaReady, ShmReady, Deliver, FeedIInv, FrameOwn
<1>2. /\ since \in Nat /\ screen.content \in 0 .. MaxChanges
      /\ since .. screen.content \subseteq Content
  BY FeedAssumption DEF FeedIInv, FeedTypeOK, Picture, Content
<1>3. [content |-> buf.content, size |-> buf.size] \in Picture
  BY <1>1, <1>2 DEF Picture, ShmRecord, DmaRecord
<1>4. /\ slot' \in Picture \cup {None}
      /\ slot' \notin {slot, None} => slot'.content \in since .. screen.content
      /\ pc' \in {"ended", "sleep"}
  BY <1>1, <1>3 DEF Deliver, SendFrame, FeedIInv, FeedTypeOK
<1>5. pc \in AwaitsFrame
  BY DEF DmaReady, ShmReady, AwaitsFrame
<1> QED
  BY <1>1, <1>4, <1>5 DEF Deliver, FeedIInv, FeedTypeOK, BeforeCopy, OneCopy, FrameOwn, FrameProtocol,
     BufferFitsHints, bufs, world, AwaitsFrame

\* Hints arrive before any copy.
LEMMA HintsStep ==
  ASSUME FeedIInv, Hints \/ HintsRefused
  PROVE  FeedIInv'
BY ZenonT(40) DEF Hints, HintsRefused, Answering, FeedIInv, FeedTypeOK, BeforeCopy, OneCopy, FrameOwn, FrameProtocol,
   BufferFitsHints, bufs, feed, world, feedGhosts, AwaitsFrame, Picture, DmaHint

\* The compositor copies what the screen shows now, or refuses.
LEMMA CopyStep ==
  ASSUME FeedIInv, CopyReady \/ CopyRefused
  PROVE  FeedIInv'
<1> USE DEF FeedIInv, BeforeCopy, OneCopy, FrameOwn, FrameProtocol, BufferFitsHints, feed, world,
            feedGhosts, AwaitsFrame
<1>t. FeedTypeOK
  OBVIOUS
<1>c. /\ screen.content \in Content
      /\ screen.content \in since .. screen.content
  BY <1>t, FeedAssumption DEF FeedTypeOK, Picture, Content
<1>1. CASE CopyRefused
  <2>1. /\ fi' = [fi EXCEPT !.failed = TRUE]
        /\ UNCHANGED <<pc, bufs, feed, world, feedGhosts>>
    BY <1>1 DEF CopyRefused
  <2>2. fi'.ready = fi.ready /\ fi'.shm = fi.shm /\ fi'.dma = fi.dma
    BY <2>1, <1>t DEF FeedTypeOK
  <2>3. fi' \in [shm : Size \cup {None}, dma : DmaHint \cup {None},
               done : BOOLEAN, ready : BOOLEAN, failed : BOOLEAN]
    BY <2>1, <1>t DEF FeedTypeOK
  <2>4. FeedTypeOK'
    BY <2>1, <2>3, <1>t DEF FeedTypeOK, bufs
  <2> QED BY <2>1, <2>2, <2>4 DEF bufs
<1>2. CASE CopyReady /\ pc = "dmacopy"
  <2>1. /\ fi' = [fi EXCEPT !.ready = TRUE]
        /\ dmaBuf' = [dmaBuf EXCEPT !.content = screen.content] /\ dmaBuf \in DmaRecord
        /\ UNCHANGED <<pc, shmBuf, feed, world, feedGhosts>>
    BY <1>2 DEF CopyReady
  <2>2. dmaBuf' \in DmaRecord /\ dmaBuf'.content = screen.content
        /\ dmaBuf'.size = dmaBuf.size /\ dmaBuf'.fmt = dmaBuf.fmt
    BY <2>1, <1>c DEF DmaRecord
  <2>3. FeedTypeOK'
    BY <2>1, <2>2, <1>t, ZenonT(40) DEF FeedTypeOK, DmaRecord
  <2> QED BY <2>1, <2>2, <2>3, <1>2, <1>t, <1>c DEF FeedTypeOK
<1>3. CASE CopyReady /\ pc = "shmcopy"
  <2>1. /\ fi' = [fi EXCEPT !.ready = TRUE]
        /\ shmBuf' = [shmBuf EXCEPT !.content = screen.content] /\ shmBuf \in ShmRecord
        /\ UNCHANGED <<pc, dmaBuf, feed, world, feedGhosts>>
    BY <1>3 DEF CopyReady
  <2>2. shmBuf' \in ShmRecord /\ shmBuf'.content = screen.content
        /\ shmBuf'.size = shmBuf.size
    BY <2>1, <1>c DEF ShmRecord
  <2>3. FeedTypeOK'
    BY <2>1, <2>2, <1>t, ZenonT(40) DEF FeedTypeOK, ShmRecord
  <2> QED BY <2>1, <2>2, <2>3, <1>3, <1>t, <1>c DEF FeedTypeOK
<1> QED
  BY <1>1, <1>2, <1>3 DEF CopyReady, Copying

\* The screen only moves on: what was fresh stays fresh.
LEMMA ScreenStep ==
  ASSUME FeedIInv, NEW size \in Size, ScreenChanges(size)
  PROVE  FeedIInv'
BY FeedAssumption DEF ScreenChanges, FeedIInv, FeedTypeOK, BeforeCopy, OneCopy, FrameOwn, FrameProtocol,
   BufferFitsHints, bufs, feed, feedGhosts, AwaitsFrame, Picture, Content

\* The frame object dies with its connection.
LEMMA ConnectionStep ==
  ASSUME FeedIInv, ConnectionLost
  PROVE  FeedIInv'
BY DEF ConnectionLost, FeedIInv, FeedTypeOK, BeforeCopy, OneCopy, FrameOwn, FrameProtocol,
   BufferFitsHints, bufs, feed, world, AwaitsFrame

\* Sleeping, taking a frame and the two ways to stop.
LEMMA QuietStep ==
  ASSUME FeedIInv, Stopped \/ Wake \/ Take \/ ConsumerGone \/ StopCapture \/ UNCHANGED feedVars
  PROVE  FeedIInv'
<1>1. FeedTypeOK'
  BY DEF FeedIInv, FeedTypeOK, Stopped, Wake, Take, ConsumerGone, StopCapture, feedVars, bufs, feed, world, feedGhosts
<1>2. UNCHANGED <<fi, bufs, screen, feedGhosts>>
  BY DEF Stopped, Wake, Take, ConsumerGone, StopCapture, feedVars, bufs, world, feedGhosts
<1>3. /\ pc' \in {"top", "sleep", "ended"} \/ pc' = pc
      /\ (pc' \in {"shm"} \cup AwaitsFrame) <=> (pc \in {"shm"} \cup AwaitsFrame)
  BY DEF Stopped, Wake, Take, ConsumerGone, StopCapture, feedVars, AwaitsFrame
<1> QED BY <1>1, <1>2, <1>3, Apart

-----------------------------------------------------------------------------
\* A session begins before the loop's first capture.
LEMMA FeedInitIInv ==
  FeedInit => FeedIInv
<1> SUFFICES ASSUME FeedInit
             PROVE  FeedIInv
  OBVIOUS
<1>1. 0 \in Content /\ screen \in Picture /\ screen.content = 0
  BY FeedAssumption DEF FeedInit, Picture, Content
<1>2. fi = Clear /\ fi.ready = FALSE /\ Clear \in [shm : Size \cup {None}, dma : DmaHint \cup {None},
             done : BOOLEAN, ready : BOOLEAN, failed : BOOLEAN]
  BY DEF FeedInit, Clear
<1>3. /\ pc = "top" /\ shmBuf = None /\ dmaBuf = None /\ slot = None /\ taken = None
      /\ stopFlag = FALSE /\ gone = FALSE /\ gpu \in BOOLEAN /\ shmOffered \in BOOLEAN
      /\ live = 0 /\ copies = 0 /\ since = 0
  BY DEF FeedInit
<1>4. FeedTypeOK
  <2>1. fi \in [shm : Size \cup {None}, dma : DmaHint \cup {None},
               done : BOOLEAN, ready : BOOLEAN, failed : BOOLEAN]
    BY <1>2, Zenon
  <2>2. live \in Int /\ copies \in Nat /\ since \in Content
    BY <1>1, <1>3
  <2>3. pc \in {"top", "shm", "sleep", "ended"} \cup AwaitsFrame
    BY <1>3
  <2>4. /\ shmBuf \in [size : Size, content : Content \cup {None}] \cup {None}
        /\ dmaBuf \in [size : Size, fmt : Format, content : Content \cup {None}] \cup {None}
        /\ slot \in Picture \cup {None} /\ taken \in Picture \cup {None}
        /\ stopFlag \in BOOLEAN /\ gone \in BOOLEAN
    BY <1>3, Zenon
  <2> QED BY <2>1, <2>2, <2>3, <2>4, <1>1, <1>3, Zenon DEF FeedTypeOK
<1> QED
  BY <1>1, <1>2, <1>3, <1>4 DEF FeedIInv, BeforeCopy, OneCopy, FrameOwn, FrameProtocol,
     BufferFitsHints, AwaitsFrame

\* Every step keeps the invariant.
LEMMA StepIInv ==
  ASSUME FeedIInv, [FeedNext]_feedVars
  PROVE  FeedIInv'
<1>1. HintFailed \/ ShmFailed => FeedIInv'
  BY FailedStep DEF HintFailed, ShmFailed, AwaitsFrame
<1> QED
  BY <1>1, CaptureStep, RejectedStep, HintForDmaStep, HintForShmStep, NoShmStep, ShmCopyStep,
     DeliverStep, HintsStep, CopyStep, ScreenStep, ConnectionStep, QuietStep DEF FeedNext, CaptureRun

\* Every place of the loop knows its own frame and no other.
THEOREM FeedInductive == FeedSpec => []FeedIInv
<1>1. FeedIInv /\ [FeedNext]_feedVars => FeedIInv'
  BY StepIInv
<1> QED
  BY FeedInitIInv, <1>1, PTL DEF FeedSpec

\* The types of the variables.
THEOREM FeedTypeCorrect == FeedSpec => []FeedTypeOK
<1>1. FeedIInv => FeedTypeOK
  BY DEF FeedIInv
<1> QED BY FeedInductive, <1>1, PTL

\* The wlr-screencopy protocol is kept on every way through the loop.
THEOREM ProtocolIsKept == FeedSpec => []FrameProtocol
<1>1. FeedIInv => FrameProtocol
  BY DEF FeedIInv
<1> QED BY FeedInductive, <1>1, PTL

\* A copy is asked for into a buffer the compositor hinted for this frame.
THEOREM BuffersFit == FeedSpec => []BufferFitsHints
<1>1. FeedIInv => BufferFitsHints
  BY DEF FeedIInv
<1> QED BY FeedInductive, <1>1, PTL

\* No frame reaches the session with pixels older than its capture.
THEOREM FramesAreFresh == FeedSpec => FreshlyCopied
<1>1. FeedIInv /\ [FeedNext]_feedVars =>
        [slot' \notin {slot, None} => slot'.content \in since .. screen.content]_feedVars
  <2> SUFFICES ASSUME FeedIInv, FeedNext
               PROVE  slot' \notin {slot, None} => slot'.content \in since .. screen.content
    OBVIOUS
  <2>1. CASE DmaReady \/ ShmReady
    BY <2>1, DeliverStep
  <2>2. CASE ~(DmaReady \/ ShmReady)
    <3>1. slot' \in {slot, None}
      BY <2>2 DEF FeedNext, CaptureRun, Capture, Stopped, HintFailed, HintForDma, HintForShm, NoShm, ShmCopy,
            DmaRejected, ShmFailed, Wake, FrameFailed, ConnectionLost, Hints, HintsRefused,
            CopyReady, CopyRefused, ScreenChanges, Take, ConsumerGone, StopCapture, feed
    <3> QED BY <3>1
  <2> QED BY <2>1, <2>2
<1> QED
  BY FeedInductive, <1>1, PTL DEF FeedSpec, FreshlyCopied

=============================================================================
