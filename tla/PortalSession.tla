---------------------------- MODULE PortalSession ----------------------------
(***************************************************************************)
(* The PipeWire backend's way to a stream (pw_capture.c, pipewire.rs):     *)
(* CreateSession, SelectSources and Start, each a D-Bus method whose real  *)
(* answer is a later Response signal, then OpenPipeWireRemote and the      *)
(* stream, until the capture is stopped or fails.                          *)
(*                                                                         *)
(* Several capture threads may do this at once - one per client, or one    *)
(* that missed its join next to its successor - and dbus_bus_get gives     *)
(* them all one connection, with one queue of incoming messages.  Every    *)
(* thread that waits pops whatever is there and drops what is not its own. *)
(*                                                                         *)
(* The portal is the environment: it answers a request at any time, also   *)
(* when nobody waits any more, or never.  A wait may end at any time.      *)
(***************************************************************************)
EXTENDS Integers, Sequences

CONSTANTS Thread,      \* capture threads that run at a time
          MaxCalls     \* bound: calls of pw_capture_start, numbered as they come

ASSUME CallAssumption == MaxCalls \in Nat

Step    == {"create", "select", "start"}
Call    == 1 .. MaxCalls
Request == [call : Call, step : Step]
Answer  == {"ok", "refused", "garbled"}    \* garbled: a success the parser rejects

\* A main loop is made, runs, and is told to quit.  "early": told before it ran;
\* "lost": it runs, and has forgotten that.
Loop    == {"made", "early", "running", "lost", "quit"}
Watcher == {"none", "polling", "gone"}

VARIABLES
  at,         \* thread -> where it is in pw_capture_start
  step,       \* thread -> the portal call it is in
  n,          \* thread -> its current or last call
  calls,      \* number of calls so far
  stop,       \* thread -> its stop flag
  loop,       \* thread -> its main loop, see Loop
  watcher,    \* thread -> its stop-flag watcher
  matches,    \* match rules installed on the connection
  queue,      \* the connection's incoming Response signals
  requests,   \* requests the portal has taken and not answered
  sessions,   \* sessions that live in the portal, named by their call
  closing,    \* Close messages under way
  \* ghosts
  closes,     \* call -> Close messages sent for it
  abandoned,  \* calls that ended without learning of their session
  granted,    \* calls whose Start the portal granted
  stolen      \* requests whose Response another thread dropped

vars == <<at, step, n, calls, stop, loop, watcher, matches, queue, requests, sessions,
          closing, closes, abandoned, granted, stolen>>
streamVars == <<loop, watcher>>
busVars    == <<matches, queue, requests>>
portalVars == <<sessions, closing>>
ghosts     == <<closes, abandoned, granted, stolen>>

TypeOK ==
  /\ at \in [Thread -> {"idle", "begin", "reply", "wait", "open", "stream"}]
  /\ step \in [Thread -> Step]
  /\ n \in [Thread -> 0 .. MaxCalls]
  /\ calls \in 0 .. MaxCalls
  /\ stop \in [Thread -> BOOLEAN]
  /\ loop \in [Thread -> Loop]
  /\ watcher \in [Thread -> Watcher]
  /\ matches \subseteq Request
  /\ queue \in Seq([req : Request, result : Answer])
  /\ requests \subseteq Request
  /\ sessions \subseteq Call
  /\ closing \subseteq Call
  /\ closes \in [Call -> Nat]
  /\ abandoned \subseteq Call
  /\ granted \subseteq Call
  /\ stolen \subseteq Request
  \* a match rule is there exactly while its call is
  /\ matches = {[call |-> n[t], step |-> step[t]] :
                  t \in {u \in Thread : at[u] \in {"reply", "wait"}}}

Init ==
  /\ at = [t \in Thread |-> "idle"]
  /\ step = [t \in Thread |-> "create"]
  /\ n = [t \in Thread |-> 0]
  /\ calls = 0
  /\ stop = [t \in Thread |-> FALSE]
  /\ loop = [t \in Thread |-> "made"]
  /\ watcher = [t \in Thread |-> "none"]
  /\ matches = {} /\ queue = <<>> /\ requests = {}
  /\ sessions = {} /\ closing = {}
  /\ closes = [c \in Call |-> 0]
  /\ abandoned = {} /\ granted = {} /\ stolen = {}

Mine(t) == [call |-> n[t], step |-> step[t]]

-----------------------------------------------------------------------------
(* A capture thread. *)

\* pw_capture_start is called (again).
Start(t) ==
  /\ at[t] = "idle"
  /\ calls < MaxCalls
  /\ calls' = calls + 1
  /\ n' = [n EXCEPT ![t] = calls + 1]
  /\ at' = [at EXCEPT ![t] = "begin"]
  /\ step' = [step EXCEPT ![t] = "create"]
  /\ stop' = [stop EXCEPT ![t] = FALSE]
  /\ loop' = [loop EXCEPT ![t] = "made"]
  /\ watcher' = [watcher EXCEPT ![t] = "none"]
  /\ UNCHANGED <<busVars, portalVars, ghosts>>

\* The match rule is added once the method has returned (mutant).
CallPortal_SubscribesLate(t) ==
  /\ at[t] = "begin"
  /\ at' = [at EXCEPT ![t] = "reply"]
  /\ requests' = requests \cup {Mine(t)}
  /\ UNCHANGED <<step, n, calls, stop, streamVars, matches, queue, portalVars, ghosts>>

\* portal_call: subscribe to the Response, then call the method.
CallPortal(t) ==
  /\ at[t] = "begin"
  /\ at' = [at EXCEPT ![t] = "reply"]
  /\ matches' = matches \cup {Mine(t)}
  /\ requests' = requests \cup {Mine(t)}
  /\ UNCHANGED <<step, n, calls, stop, streamVars, queue, portalVars, ghosts>>

\* The method returned its request handle.
Replied(t) ==
  /\ at[t] = "reply"
  /\ at' = [at EXCEPT ![t] = "wait"]
  /\ UNCHANGED <<step, n, calls, stop, streamVars, busVars, portalVars, ghosts>>

\* Only the error paths close the session (mutant).
CloseSession_OnlyOnError(t) ==
  /\ at' = [at EXCEPT ![t] = "idle"]
  /\ IF at[t] = "stream" THEN UNCHANGED <<closing, closes>>
     ELSE /\ closing' = closing \cup {n[t]}
          /\ closes' = [closes EXCEPT ![n[t]] = @ + 1]
  /\ UNCHANGED abandoned

\* close_portal_session, fire and forget, and the call returns.
CloseSession(t) ==
  /\ at' = [at EXCEPT ![t] = "idle"]
  /\ closing' = closing \cup {n[t]}
  /\ closes' = [closes EXCEPT ![n[t]] = @ + 1]
  /\ UNCHANGED abandoned

\* The call returns with an error: without a session path there is nothing it
\* could close.
GiveUp(t) ==
  IF step[t] = "create"
  THEN /\ at' = [at EXCEPT ![t] = "idle"]
       /\ abandoned' = abandoned \cup {n[t]}
       /\ UNCHANGED <<closing, closes>>
  ELSE CloseSession(t)

\* No reply within 10 s (the portal has the request all the same), or an error.
CallFails(t) ==
  /\ at[t] = "reply"
  /\ \/ UNCHANGED requests
     \/ requests' = requests \ {Mine(t)}
  /\ matches' = matches \ {Mine(t)}
  /\ GiveUp(t)
  /\ UNCHANGED <<step, n, calls, stop, streamVars, queue, sessions, granted, stolen>>

\* The signal's path names the request.
IsMine(t, req) == req = Mine(t)

Advance(t) ==
  /\ at' = [at EXCEPT ![t] = IF step[t] = "start" THEN "open" ELSE "begin"]
  /\ step' = [step EXCEPT ![t] = IF @ = "create" THEN "select" ELSE "start"]
  /\ UNCHANGED <<closing, closes, abandoned>>

\* wait_for_response pops one message: its own ends the wait, others are dropped.
Pop(t) ==
  /\ at[t] = "wait"
  /\ queue # <<>>
  /\ queue' = Tail(queue)
  /\ LET m == Head(queue)
     IN  IF IsMine(t, m.req)
         THEN /\ matches' = matches \ {Mine(t)}
              /\ IF m.result = "ok" THEN Advance(t)
                 ELSE GiveUp(t) /\ UNCHANGED step
              /\ UNCHANGED stolen
         ELSE /\ stolen' = stolen \cup {m.req}
              /\ UNCHANGED <<at, step, matches, closing, closes, abandoned>>
  /\ UNCHANGED <<n, calls, stop, streamVars, requests, sessions, granted>>

\* The deadline passed, the stop flag is set, or the bus disconnected.
WaitEnds(t) ==
  /\ at[t] = "wait"
  /\ matches' = matches \ {Mine(t)}
  /\ GiveUp(t)
  /\ UNCHANGED <<step, n, calls, stop, streamVars, queue, requests, sessions, granted, stolen>>

\* OpenPipeWireRemote: a plain call with a plain reply.
OpenRemote(t) ==
  /\ at[t] = "open"
  /\ at' = [at EXCEPT ![t] = "stream"]
  /\ UNCHANGED <<step, n, calls, stop, streamVars, busVars, portalVars, ghosts>>

OpenFails(t) ==
  /\ at[t] = "open"
  /\ CloseSession(t)
  /\ UNCHANGED <<step, n, calls, stop, streamVars, busVars, sessions, granted, stolen>>

\* run_pw_stream returns: one of its set-up calls failed.
StreamFails(t) ==
  /\ at[t] = "stream"
  /\ watcher[t] = "none"
  /\ CloseSession(t)
  /\ UNCHANGED <<step, n, calls, stop, streamVars, busVars, sessions, granted, stolen>>

\* pthread_create, after the set-up and before the loop runs.
StartWatcher(t) ==
  /\ at[t] = "stream"
  /\ watcher[t] = "none"
  /\ watcher' = [watcher EXCEPT ![t] = "polling"]
  /\ UNCHANGED <<at, step, n, calls, stop, loop, busVars, portalVars, ghosts>>

\* pw_main_loop_run marks the loop running; whether that overwrites an earlier
\* quit is PipeWire's affair.
RunLoop(t) ==
  /\ at[t] = "stream"
  /\ watcher[t] # "none"
  /\ loop[t] \in {"made", "early"}
  /\ \E l \in IF loop[t] = "early" THEN {"lost", "quit"} ELSE {"running"} :
       loop' = [loop EXCEPT ![t] = l]
  /\ UNCHANGED <<at, step, n, calls, stop, watcher, busVars, portalVars, ghosts>>

\* The watcher looks at the flag once (mutant).
WatcherQuits_Once(t) ==
  /\ watcher[t] = "polling"
  /\ watcher' = [watcher EXCEPT ![t] = "gone"]
  /\ loop' = IF ~stop[t] THEN loop
             ELSE [loop EXCEPT ![t] = IF @ = "made" THEN "early" ELSE "quit"]
  /\ UNCHANGED <<at, step, n, calls, stop, busVars, portalVars, ghosts>>

\* stop_watcher sees the flag, calls pw_main_loop_quit - at whatever moment of
\* the other thread - and ends.
WatcherQuits(t) ==
  /\ watcher[t] = "polling"
  /\ stop[t]
  /\ watcher' = [watcher EXCEPT ![t] = "gone"]
  /\ loop' = [loop EXCEPT ![t] = IF @ = "made" THEN "early" ELSE "quit"]
  /\ UNCHANGED <<at, step, n, calls, stop, busVars, portalVars, ghosts>>

\* on_process of a frame that arrives after the flag was set.
FrameQuits(t) ==
  /\ loop[t] \in {"running", "lost"}
  /\ stop[t]
  /\ loop' = [loop EXCEPT ![t] = "quit"]
  /\ UNCHANGED <<at, step, n, calls, stop, watcher, busVars, portalVars, ghosts>>

\* pw_main_loop_run returned and the watcher was joined.
StreamStops(t) ==
  /\ at[t] = "stream"
  /\ loop[t] = "quit"
  /\ watcher[t] = "gone"
  /\ CloseSession(t)
  /\ UNCHANGED <<step, n, calls, stop, streamVars, busVars, sessions, granted, stolen>>

-----------------------------------------------------------------------------
(* The environment. *)

\* The server sets the capture's stop flag; pipewire.rs's watcher passes it on.
Stop(t) ==
  /\ at[t] # "idle"
  /\ stop' = [stop EXCEPT ![t] = TRUE]
  /\ UNCHANGED <<at, step, n, calls, streamVars, busVars, portalVars, ghosts>>

\* The portal answers a request; the bus delivers the signal only to a
\* connection that subscribed to it.
PortalAnswers(req, result) ==
  /\ requests' = requests \ {req}
  /\ queue' = IF req \in matches
              THEN Append(queue, [req |-> req, result |-> result]) ELSE queue
  /\ sessions' = IF req.step = "create" /\ result # "refused"
                 THEN sessions \cup {req.call} ELSE sessions
  /\ granted' = IF req.step = "start" /\ result = "ok"
                THEN granted \cup {req.call} ELSE granted
  /\ UNCHANGED <<at, step, n, calls, stop, streamVars, matches, closing, closes, abandoned,
                 stolen>>

PortalCloses(call) ==
  /\ closing' = closing \ {call}
  /\ sessions' = sessions \ {call}
  /\ UNCHANGED <<at, step, n, calls, stop, streamVars, busVars, ghosts>>

\* What happens on the main loop's account, to the main loop alone.
LoopStep(t) == StartWatcher(t) \/ RunLoop(t) \/ WatcherQuits(t) \/ FrameQuits(t)

Run(t) ==
  \/ CallPortal(t) \/ Replied(t) \/ CallFails(t)
  \/ Pop(t) \/ WaitEnds(t)
  \/ OpenRemote(t) \/ OpenFails(t) \/ StreamFails(t)
  \/ LoopStep(t) \/ StreamStops(t)

Next ==
  \/ \E t \in Thread : Start(t) \/ Run(t) \/ Stop(t)
  \/ \E req \in requests, result \in Answer : PortalAnswers(req, result)
  \/ \E call \in closing : PortalCloses(call)

Spec == Init /\ [][Next]_vars

\* A capture thread that can go on does; every wait has a deadline and the
\* watchers poll the stop flag.  Frames come only when the screen changes.
FairSpec == Spec /\ \A t \in Thread :
  /\ WF_vars(CallPortal(t)) /\ WF_vars(Replied(t) \/ CallFails(t))
  /\ WF_vars(WaitEnds(t)) /\ WF_vars(OpenRemote(t) \/ OpenFails(t))
  /\ WF_vars(StartWatcher(t) \/ StreamFails(t)) /\ WF_vars(RunLoop(t))
  /\ WF_vars(WatcherQuits(t)) /\ WF_vars(StreamStops(t))

-----------------------------------------------------------------------------
Over(call) ==
  /\ call <= calls
  /\ \A t \in Thread : n[t] = call => at[t] = "idle"

\* The comment at close_portal_session: every session created is matched by
\* exactly one Close, on every exit path.  It holds from the moment
\* CreateSession's Response was read: one Close at the end of the call, none
\* before, never a second; only a call that gave up on CreateSession sends none.
ClosedExactlyOnce ==
  \A call \in Call :
    closes[call] = IF Over(call) /\ call \notin abandoned THEN 1 ELSE 0

\* What the comment says, without the exception: a session the portal created
\* for a call that is over has been sent its Close.
NoSessionLingers == \A call \in sessions : Over(call) => closes[call] = 1

\* The screen is captured only with the portal's grant of this very call's
\* Start, while its session lives - not with the answer to another thread's
\* request on the shared connection.
CapturesByGrant ==
  \A t \in Thread : at[t] \in {"open", "stream"} =>
    n[t] \in granted \cap sessions

\* A thread that waits misses no answer: its request is still open, its
\* Response is in the queue, or another thread of this process dropped it.
NoAnswerMissed ==
  \A t \in Thread : at[t] \in {"reply", "wait"} =>
    \/ Mine(t) \in requests \cup stolen
    \/ \E i \in 1 .. Len(queue) : queue[i].req = Mine(t)

\* The comment in run_pw_stream: the watcher thread quits the main loop when the
\* stop flag is set.  It does not hold: the flag can be set by the time the
\* watcher starts, and its only quit can come before the loop is marked running.
WatcherEndsStream == \A t \in Thread : stop[t] ~> at[t] = "idle"

\* A stop request ends the call wherever it is - in a portal wait, while the
\* stream is set up, while the watcher and the loop start, or with the loop
\* idle on a still screen - unless the watcher's quit was lost to the start of
\* the loop.  Then the next frame ends it.
StopIsHonoured == \A t \in Thread :
  /\ stop[t] ~> (at[t] = "idle" \/ loop[t] = "lost")
  /\ WF_vars(FrameQuits(t)) => (stop[t] ~> at[t] = "idle")

=============================================================================
