------------------------------ MODULE Clipboard ------------------------------
(***************************************************************************)
(* Clipboard sync between the host (clipboard.rs) and the page             *)
(* (client.html) over the `clipboard' channel.  Both ends poll their own   *)
(* clipboard, push a text that differs from the one they have last seen,   *)
(* and write a text they receive.  On the host one task does either; in    *)
(* the page the poll and the message handler interleave at their awaits.   *)
(*                                                                         *)
(* A text is the number of the copy it came from; 0 is a clipboard without *)
(* text.  The channel is reliable and ordered while it is open.            *)
(***************************************************************************)
EXTENDS Integers, Sequences

CONSTANTS MaxCopies,    \* bound: texts copied by the two users
          MaxSessions   \* bound: sessions

ASSUME ClipboardAssumption == MaxCopies \in Nat /\ MaxSessions \in Nat \ {0}

None == -1
Text == 0 .. MaxCopies

VARIABLES
  host, hostSeen,     \* the host's clipboard, run()'s last_seen
  page, pageSeen,     \* the browser's, clipboardLastSeen (which outlives sessions)
  toHost, toPage,     \* messages under way
  writes,             \* texts the page is writing (awaiting writeText)
  poll,               \* what the page's poll has read (None: no poll under way)
  focused, open,      \* the page has focus, the channel is open
  copied, sessions,   \* counters
  crossed, failed,    \* ghosts: pushes met, or a write failed, in this session
  received            \* ghost: texts the host was sent in this session

vars == <<host, hostSeen, page, pageSeen, toHost, toPage, writes, poll,
          focused, open, copied, sessions, crossed, failed, received>>
counters == <<copied, sessions>>

TypeOK ==
  /\ host \in Text /\ hostSeen \in Text \cup {None}
  /\ page \in Text /\ pageSeen \in Text \cup {None}
  /\ toHost \in Seq(Text \ {0}) /\ toPage \in Seq(Text \ {0})
  /\ writes \in Seq(Text \ {0})
  /\ poll \in Text \cup {None}
  /\ focused \in BOOLEAN /\ open \in BOOLEAN
  /\ copied \in Text /\ sessions \in 0 .. MaxSessions
  /\ crossed \in BOOLEAN /\ failed \in BOOLEAN /\ received \subseteq Text

Init ==
  /\ host = 0 /\ hostSeen = None
  /\ page = 0 /\ pageSeen = None
  /\ toHost = <<>> /\ toPage = <<>> /\ writes = <<>>
  /\ poll = None
  /\ focused = TRUE /\ open = FALSE
  /\ copied = 0 /\ sessions = 0
  /\ crossed = FALSE /\ failed = FALSE /\ received = {}

\* Both directions carry a text at once.
Meet == crossed' = (crossed \/ (toHost' # <<>> /\ (toPage' # <<>> \/ writes' # <<>>)))

-----------------------------------------------------------------------------
(* The host's task. *)

\* recv: set the host's clipboard and remember the text.
HostTakes ==
  /\ open /\ toHost # <<>>
  /\ toHost' = Tail(toHost)
  /\ host' = Head(toHost)
  /\ received' = received \cup {Head(toHost)}
  /\ hostSeen' = Head(toHost)
  /\ UNCHANGED <<page, pageSeen, toPage, writes, poll, focused, open, counters,
                 crossed, failed>>

HostSetFails ==
  /\ open /\ toHost # <<>>
  /\ toHost' = Tail(toHost)
  /\ failed' = TRUE
  /\ UNCHANGED <<host, hostSeen, page, pageSeen, toPage, writes, poll, focused,
                 open, counters, crossed, received>>

\* tick: push a text that is there and is not the one last seen.
HostPolls ==
  /\ open /\ host # 0 /\ host # hostSeen
  /\ hostSeen' = host
  /\ toPage' = Append(toPage, host)
  /\ UNCHANGED <<host, page, pageSeen, toHost, writes, poll, focused, open,
                 counters, failed, received>>
  /\ Meet

-----------------------------------------------------------------------------
(* The page. *)

\* onmessage up to its await.
PageReceives ==
  /\ toPage # <<>>
  /\ toPage' = Tail(toPage)
  /\ pageSeen' = Head(toPage)
  /\ writes' = Append(writes, Head(toPage))
  /\ UNCHANGED <<host, hostSeen, page, toHost, poll, focused, open, counters,
                 failed, received>>
  /\ Meet

PageWrites ==
  /\ writes # <<>> /\ focused
  /\ writes' = Tail(writes)
  /\ page' = Head(writes)
  /\ UNCHANGED <<host, hostSeen, pageSeen, toHost, toPage, poll, focused, open,
                 counters, crossed, failed, received>>

\* No focus, no permission: the text is only gone from here.
PageWriteFails ==
  /\ writes # <<>>
  /\ writes' = Tail(writes)
  /\ failed' = TRUE
  /\ UNCHANGED <<host, hostSeen, page, pageSeen, toHost, toPage, poll, focused,
                 open, counters, crossed, received>>

\* The interval fires: readText returns what the clipboard holds.
PollReads ==
  /\ open /\ focused /\ poll = None
  /\ poll' = page
  /\ UNCHANGED <<host, hostSeen, page, pageSeen, toHost, toPage, writes, focused,
                 open, counters, crossed, failed, received>>

\* The pushed text is not remembered (mutant).
PollSends_Forgets ==
  /\ poll # None
  /\ poll' = None
  /\ toHost' = IF poll \notin {0, pageSeen} /\ open THEN Append(toHost, poll) ELSE toHost
  /\ UNCHANGED <<host, hostSeen, page, pageSeen, toPage, writes, focused, open,
                 counters, failed, received>>
  /\ Meet

\* ... and what comes after its await, possibly in another session or in none.
PollSends ==
  /\ poll # None
  /\ poll' = None
  /\ IF poll \in {0, pageSeen} THEN UNCHANGED <<pageSeen, toHost>>
     ELSE /\ pageSeen' = poll
          /\ toHost' = IF open THEN Append(toHost, poll) ELSE toHost
  /\ UNCHANGED <<host, hostSeen, page, toPage, writes, focused, open, counters,
                 failed, received>>
  /\ Meet

-----------------------------------------------------------------------------
(* The users and the session. *)

HostCopies ==
  /\ copied < MaxCopies
  /\ copied' = copied + 1
  /\ host' = copied + 1
  /\ UNCHANGED <<hostSeen, page, pageSeen, toHost, toPage, writes, poll, focused,
                 open, sessions, crossed, failed, received>>

PageCopies ==
  /\ copied < MaxCopies
  /\ copied' = copied + 1
  /\ page' = copied + 1
  /\ UNCHANGED <<host, hostSeen, pageSeen, toHost, toPage, writes, poll, focused,
                 open, sessions, crossed, failed, received>>

Focus ==
  /\ focused' = ~focused
  /\ UNCHANGED <<host, hostSeen, page, pageSeen, toHost, toPage, writes, poll,
                 open, counters, crossed, failed, received>>

\* The new task goes on with what the last one had seen (mutant).
Attach_KeepsSeen ==
  /\ ~open /\ sessions < MaxSessions
  /\ open' = TRUE
  /\ sessions' = sessions + 1
  /\ crossed' = FALSE /\ received' = {}
  /\ failed' = FALSE
  /\ UNCHANGED <<host, hostSeen, page, pageSeen, toHost, toPage, writes, poll,
                 focused, copied>>

\* attach: a new task, which has seen nothing.
Attach ==
  /\ ~open /\ sessions < MaxSessions
  /\ open' = TRUE
  /\ sessions' = sessions + 1
  /\ hostSeen' = None
  /\ crossed' = FALSE /\ received' = {}
  /\ failed' = FALSE
  /\ UNCHANGED <<host, page, pageSeen, toHost, toPage, writes, poll, focused, copied>>

\* detach: what is under way is lost.
Detach ==
  /\ open
  /\ open' = FALSE
  /\ toHost' = <<>> /\ toPage' = <<>>
  /\ UNCHANGED <<host, hostSeen, page, pageSeen, writes, poll, focused, counters,
                 crossed, failed, received>>

Next ==
  \/ HostTakes \/ HostSetFails \/ HostPolls
  \/ PageReceives \/ PageWrites \/ PageWriteFails \/ PollReads \/ PollSends
  \/ HostCopies \/ PageCopies \/ Focus \/ Attach \/ Detach

Spec == Init /\ [][Next]_vars

\* The host's task runs, the channel delivers, the page's promises settle and
\* its interval fires while it has the focus.
FairSpec ==
  /\ Spec
  /\ WF_vars(HostTakes \/ HostSetFails) /\ WF_vars(HostPolls)
  /\ WF_vars(PageReceives) /\ WF_vars(PageWrites \/ PageWriteFails)
  /\ SF_vars(PollReads) /\ WF_vars(PollSends)

-----------------------------------------------------------------------------
\* Nothing is under way and neither poll would push.
Quiet ==
  /\ toHost = <<>> /\ toPage = <<>> /\ writes = <<>> /\ poll = None
  /\ host \in {0, hostSeen} /\ page \in {0, pageSeen}

\* Once a session has nothing left to say, both sides hold the same text -
\* unless two pushes met, which swaps the texts for good, or a write failed; or
\* the host has no text, when a push lost with an earlier session is not
\* repeated.  Whatever else earlier sessions lost or mixed up does not matter.
QuietMeansSame ==
  open /\ Quiet /\ ~crossed /\ ~failed /\ host # 0 => host = page

\* The two ends never send each other's texts back and forth for ever.
FallsSilent == <>[](toHost = <<>> /\ toPage = <<>>)

\* The comment at last_seen: what was written for the browser is not read back
\* at a later poll and pushed to the browser as if the host had changed it.
NeverEchoed ==
  [][Len(toPage') > Len(toPage) => toPage'[Len(toPage')] \notin received]_vars

=============================================================================
