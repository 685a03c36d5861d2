--------------------------- MODULE Browser_proofs ---------------------------
(***************************************************************************)
(* Theorems about what the page shares with the server: the two            *)
(* clipboards, for any number of copied texts, and the canvas, for any     *)
(* number of batches and channels and any set of cells.                    *)
(*                                                                         *)
(* That the two clipboards agree once they are silent says nothing of the  *)
(* states in which they are not.  LastWord follows the text that was sent  *)
(* last through the channel and the page's pending writes: as long as      *)
(* pushes have not met, everything under way flows one way, and the        *)
(* receiving end will come to hold its last text.                          *)
(*                                                                         *)
(* That an acknowledgement is honest rests on Counts: an entry's remaining *)
(* is the size of its batch less the decoded tiles counted on it, so it    *)
(* reaches zero, unless other tiles were mixed in, only with the last of   *)
(* its own.                                                                *)
(*                                                                         *)
(* That a header wipes nothing but what is sent again or overtook it rests *)
(* on Headed: what was drawn in its turn has no header still to come, so a *)
(* header that does come is of a later batch, and that batch covers all.   *)
(***************************************************************************)
EXTENDS Clipboard, ClientCanvas, FiniteSetTheorems, WellFoundedInduction, TLAPS

-----------------------------------------------------------------------------
(* The clipboards. *)

Copied == 1 .. copied

\* Texts come from copies only.
Numbered ==
  /\ host \in Copied \cup {0} /\ page \in Copied \cup {0}
  /\ poll \in Copied \cup {0, None}
  /\ toHost \in Seq(Copied) /\ toPage \in Seq(Copied) /\ writes \in Seq(Copied)
  /\ received \subseteq Copied

\* What the host was sent and still holds, it has seen.
OwnText == host \in received => hostSeen = host

\* A closed channel is empty.
ClosedIsEmpty == ~open => toHost = <<>> /\ toPage = <<>>

\* A page that sends something holds something.
PageHasText == (poll \notin {None, 0} \/ toHost # <<>>) => page # 0

LastWord ==
  open /\ ~crossed =>
    /\ toHost # <<>> => /\ toPage = <<>> /\ writes = <<>>
                        /\ toHost[Len(toHost)] = pageSeen
    /\ toHost = <<>> /\ hostSeen # None /\ ~failed =>
         \/ toPage # <<>> /\ toPage[Len(toPage)] = hostSeen
         \/ /\ toPage = <<>> /\ pageSeen = hostSeen
            /\ \/ writes # <<>> /\ writes[Len(writes)] = hostSeen
               \/ writes = <<>> /\ page # 0

Seen == hostSeen \in Text \cup {None} /\ pageSeen \in Text \cup {None}
Flags == /\ focused \in BOOLEAN /\ open \in BOOLEAN
         /\ copied \in Text /\ sessions \in 0 .. MaxSessions
         /\ crossed \in BOOLEAN /\ failed \in BOOLEAN

IInv == /\ Numbered /\ Seen /\ Flags
        /\ OwnText /\ ClosedIsEmpty /\ PageHasText /\ LastWord

-----------------------------------------------------------------------------
\* The two ends of a sequence.
LEMMA Ends ==
  ASSUME NEW S, NEW q \in Seq(S), q # <<>>
  PROVE  /\ Head(q) \in S /\ Tail(q) \in Seq(S)
         /\ Tail(q) = <<>> => Head(q) = q[Len(q)]
         /\ Tail(q) # <<>> => Tail(q)[Len(Tail(q))] = q[Len(q)]
<1>1. /\ Len(q) \in Nat /\ Len(q) > 0 /\ Head(q) = q[1]
      /\ Tail(q) \in Seq(S) /\ Len(Tail(q)) = Len(q) - 1
      /\ \A i \in 1 .. Len(q) - 1 : Tail(q)[i] = q[i + 1]
  OBVIOUS
<1>e. \A r \in Seq(S) : r = <<>> <=> Len(r) = 0
  OBVIOUS
<1>t. Tail(q) = <<>> <=> Len(Tail(q)) = 0
  BY <1>1, <1>e, Zenon
<1>2. Tail(q) = <<>> <=> Len(q) = 1
  BY <1>1, <1>t
<1>3. Len(q) # 1 => Tail(q)[Len(q) - 1] = q[(Len(q) - 1) + 1]
  BY <1>1
<1> QED BY <1>1, <1>2, <1>3

\* One more text at the end.
LEMMA Added ==
  ASSUME NEW S, NEW q \in Seq(S), NEW e \in S
  PROVE  /\ Append(q, e) \in Seq(S) /\ Append(q, e) # <<>>
         /\ Append(q, e)[Len(Append(q, e))] = e
OBVIOUS

\* A sequence over a set is one over a larger set.
LEMMA Larger ==
  ASSUME NEW S, NEW T, S \subseteq T, NEW q \in Seq(S)
  PROVE  q \in Seq(T)
<1>1. /\ Len(q) \in Nat /\ DOMAIN q = 1 .. Len(q) /\ \A i \in 1 .. Len(q) : q[i] \in T
      /\ q = [i \in 1 .. Len(q) |-> q[i]]
  OBVIOUS
<1>2. q \in [1 .. Len(q) -> T]
  BY <1>1
<1> QED BY <1>1, <1>2

\* Numbers of copies are texts, and none is None or 0.
LEMMA CopiedAreTexts ==
  ASSUME Flags
  PROVE  /\ Copied \subseteq Text \ {0} /\ 0 \in Text
         /\ \A t \in Copied : t \in Nat /\ t # 0 /\ t # None
BY ClipboardAssumption DEF Flags, Copied, Text, None

-----------------------------------------------------------------------------
\* What the host's task does.
LEMMA HostStep ==
  ASSUME IInv, HostTakes \/ HostSetFails \/ HostPolls
  PROVE  IInv'
<1> DEFINE S == Copied
<1>f. /\ Flags /\ S \subseteq Text \ {0} /\ \A t \in S : t # 0 /\ t # None
      /\ toHost \in Seq(S) /\ toPage \in Seq(S) /\ writes \in Seq(S)
      /\ host \in S \cup {0} /\ received \subseteq S
  BY CopiedAreTexts DEF IInv, Numbered
<1>s. S' = S
  BY DEF HostTakes, HostSetFails, HostPolls, counters, Copied
<1> HIDE DEF S
<1>n. Numbered <=> /\ host \in S \cup {0} /\ page \in S \cup {0} /\ poll \in S \cup {0, None}
                   /\ toHost \in Seq(S) /\ toPage \in Seq(S) /\ writes \in Seq(S)
                   /\ received \subseteq S
  BY DEF Numbered, S
<1>m. Numbered' <=> /\ host' \in S \cup {0} /\ page' \in S \cup {0} /\ poll' \in S \cup {0, None}
                    /\ toHost' \in Seq(S) /\ toPage' \in Seq(S) /\ writes' \in Seq(S)
                    /\ received' \subseteq S
  BY <1>s DEF Numbered, S
<1>1. CASE HostTakes
  <2>1. /\ open /\ toHost # <<>> /\ toHost' = Tail(toHost) /\ host' = Head(toHost)
        /\ hostSeen' = Head(toHost) /\ received' = received \cup {Head(toHost)}
        /\ UNCHANGED <<page, pageSeen, toPage, writes, poll, focused, open, copied, sessions,
                       crossed, failed>>
    BY <1>1 DEF HostTakes, counters
  <2>2. /\ Head(toHost) \in S /\ Tail(toHost) \in Seq(S)
        /\ Tail(toHost) = <<>> => Head(toHost) = toHost[Len(toHost)]
        /\ Tail(toHost) # <<>> => Tail(toHost)[Len(Tail(toHost))] = toHost[Len(toHost)]
    BY <1>f, <2>1, Ends
  <2>3. Numbered' /\ Seen' /\ Flags' /\ OwnText' /\ ClosedIsEmpty' /\ PageHasText'
    BY <1>f, <1>n, <1>m, <2>1, <2>2 DEF IInv, Seen, Flags, OwnText, ClosedIsEmpty, PageHasText
  <2>4. LastWord'
    BY <1>f, <2>1, <2>2 DEF IInv, LastWord, PageHasText
  <2> QED BY <2>3, <2>4 DEF IInv
<1>2. CASE HostSetFails
  <2>1. /\ open /\ toHost # <<>> /\ toHost' = Tail(toHost) /\ failed'
        /\ UNCHANGED <<host, hostSeen, page, pageSeen, toPage, writes, poll, focused, open,
                       copied, sessions, crossed, received>>
        /\ failed' \in BOOLEAN
    BY <1>2 DEF HostSetFails, counters
  <2>2. /\ Tail(toHost) \in Seq(S)
        /\ Tail(toHost) # <<>> => Tail(toHost)[Len(Tail(toHost))] = toHost[Len(toHost)]
    BY <1>f, <2>1, Ends
  <2>3. Numbered' /\ Seen' /\ Flags' /\ OwnText' /\ ClosedIsEmpty' /\ PageHasText'
    BY <1>f, <1>n, <1>m, <2>1, <2>2 DEF IInv, Seen, Flags, OwnText, ClosedIsEmpty, PageHasText
  <2>4. LastWord'
    BY <2>1, <2>2 DEF IInv, LastWord
  <2> QED BY <2>3, <2>4 DEF IInv
<1>3. CASE HostPolls
  <2>1. /\ open /\ host # 0 /\ hostSeen' = host /\ toPage' = Append(toPage, host)
        /\ UNCHANGED <<host, page, pageSeen, toHost, writes, poll, focused, open, copied,
                       sessions, failed, received>>
        /\ crossed' = (crossed \/ (toHost' # <<>> /\ (toPage' # <<>> \/ writes' # <<>>)))
    BY <1>3 DEF HostPolls, counters, Meet
  <2>2. /\ toPage' \in Seq(S) /\ toPage' # <<>> /\ toPage'[Len(toPage')] = host
    BY <1>f, <2>1, Added
  <2>3. Numbered' /\ Seen' /\ Flags' /\ OwnText' /\ ClosedIsEmpty' /\ PageHasText'
    BY <1>f, <1>n, <1>m, <2>1, <2>2 DEF IInv, Seen, Flags, OwnText, ClosedIsEmpty, PageHasText
  <2>4. LastWord'
    BY <2>1, <2>2 DEF IInv, LastWord
  <2> QED BY <2>3, <2>4 DEF IInv
<1> QED BY <1>1, <1>2, <1>3

\* What the page does with the host's texts.
LEMMA PageTakesStep ==
  ASSUME IInv, PageReceives \/ PageWrites \/ PageWriteFails
  PROVE  IInv'
<1> DEFINE S == Copied
<1>f. /\ Flags /\ S \subseteq Text \ {0} /\ \A t \in S : t # 0 /\ t # None
      /\ toHost \in Seq(S) /\ toPage \in Seq(S) /\ writes \in Seq(S)
      /\ host \in S \cup {0} /\ received \subseteq S
  BY CopiedAreTexts DEF IInv, Numbered
<1>s. S' = S
  BY DEF PageReceives, PageWrites, PageWriteFails, counters, Copied
<1> HIDE DEF S
<1>n. Numbered <=> /\ host \in S \cup {0} /\ page \in S \cup {0} /\ poll \in S \cup {0, None}
                   /\ toHost \in Seq(S) /\ toPage \in Seq(S) /\ writes \in Seq(S)
                   /\ received \subseteq S
  BY DEF Numbered, S
<1>m. Numbered' <=> /\ host' \in S \cup {0} /\ page' \in S \cup {0} /\ poll' \in S \cup {0, None}
                    /\ toHost' \in Seq(S) /\ toPage' \in Seq(S) /\ writes' \in Seq(S)
                    /\ received' \subseteq S
  BY <1>s DEF Numbered, S
<1>1. CASE PageReceives
  <2>1. /\ toPage # <<>> /\ toPage' = Tail(toPage) /\ pageSeen' = Head(toPage)
        /\ writes' = Append(writes, Head(toPage))
        /\ UNCHANGED <<host, hostSeen, page, toHost, poll, focused, open, copied, sessions,
                       failed, received>>
        /\ crossed' = (crossed \/ (toHost' # <<>> /\ (toPage' # <<>> \/ writes' # <<>>)))
    BY <1>1 DEF PageReceives, counters, Meet
  <2>2. /\ Head(toPage) \in S /\ Tail(toPage) \in Seq(S)
        /\ Tail(toPage) = <<>> => Head(toPage) = toPage[Len(toPage)]
        /\ Tail(toPage) # <<>> => Tail(toPage)[Len(Tail(toPage))] = toPage[Len(toPage)]
    BY <1>f, <2>1, Ends
  <2>3. writes' \in Seq(S) /\ writes' # <<>> /\ writes'[Len(writes')] = Head(toPage)
    <3>1. PICK h \in S : h = Head(toPage)
      BY <2>2
    <3>2. writes' = Append(writes, h)
      BY <2>1, <3>1
    <3> QED BY <1>f, <3>1, <3>2, Added
  <2>4. Numbered' /\ Seen' /\ Flags' /\ OwnText' /\ ClosedIsEmpty' /\ PageHasText'
    BY <1>f, <1>n, <1>m, <2>1, <2>2, <2>3
       DEF IInv, Seen, Flags, OwnText, ClosedIsEmpty, PageHasText
  <2>5. LastWord'
    BY <2>1, <2>2, <2>3 DEF IInv, LastWord
  <2> QED BY <2>4, <2>5 DEF IInv
<1>2. CASE PageWrites
  <2>1. /\ writes # <<>> /\ writes' = Tail(writes) /\ page' = Head(writes)
        /\ UNCHANGED <<host, hostSeen, pageSeen, toHost, toPage, poll, focused, open, copied,
                       sessions, crossed, failed, received>>
    BY <1>2 DEF PageWrites, counters
  <2>2. /\ Head(writes) \in S /\ Tail(writes) \in Seq(S)
        /\ Tail(writes) # <<>> => Tail(writes)[Len(Tail(writes))] = writes[Len(writes)]
    BY <1>f, <2>1, Ends
  <2>3. Numbered' /\ Seen' /\ Flags' /\ OwnText' /\ ClosedIsEmpty' /\ PageHasText'
    BY <1>f, <1>n, <1>m, <2>1, <2>2 DEF IInv, Seen, Flags, OwnText, ClosedIsEmpty, PageHasText
  <2>4. LastWord'
    BY <1>f, <2>1, <2>2 DEF IInv, LastWord
  <2> QED BY <2>3, <2>4 DEF IInv
<1>3. CASE PageWriteFails
  <2>1. /\ writes # <<>> /\ writes' = Tail(writes) /\ failed' /\ failed' \in BOOLEAN
        /\ UNCHANGED <<host, hostSeen, page, pageSeen, toHost, toPage, poll, focused, open,
                       copied, sessions, crossed, received>>
    BY <1>3 DEF PageWriteFails, counters
  <2>2. Tail(writes) \in Seq(S)
    BY <1>f, <2>1, Ends
  <2>3. Numbered' /\ Seen' /\ Flags' /\ OwnText' /\ ClosedIsEmpty' /\ PageHasText'
    BY <1>f, <1>n, <1>m, <2>1, <2>2 DEF IInv, Seen, Flags, OwnText, ClosedIsEmpty, PageHasText
  <2>4. LastWord'
    BY <2>1 DEF IInv, LastWord
  <2> QED BY <2>3, <2>4 DEF IInv
<1> QED BY <1>1, <1>2, <1>3

\* The page's poll.
LEMMA PollStep ==
  ASSUME IInv, PollReads \/ PollSends
  PROVE  IInv'
<1> DEFINE S == Copied
<1>f. /\ Flags /\ S \subseteq Text \ {0} /\ \A t \in S : t # 0 /\ t # None
      /\ toHost \in Seq(S) /\ poll \in S \cup {0, None} /\ 0 # None
  BY CopiedAreTexts DEF IInv, Numbered, None
<1>s. S' = S
  BY DEF PollReads, PollSends, counters, Copied
<1> HIDE DEF S
<1>n. Numbered <=> /\ host \in S \cup {0} /\ page \in S \cup {0} /\ poll \in S \cup {0, None}
                   /\ toHost \in Seq(S) /\ toPage \in Seq(S) /\ writes \in Seq(S)
                   /\ received \subseteq S
  BY DEF Numbered, S
<1>m. Numbered' <=> /\ host' \in S \cup {0} /\ page' \in S \cup {0} /\ poll' \in S \cup {0, None}
                    /\ toHost' \in Seq(S) /\ toPage' \in Seq(S) /\ writes' \in Seq(S)
                    /\ received' \subseteq S
  BY <1>s DEF Numbered, S
<1>1. CASE PollReads
  <2>1. /\ poll' = page
        /\ UNCHANGED <<host, hostSeen, page, pageSeen, toHost, toPage, writes, focused, open,
                       copied, sessions, crossed, failed, received>>
    BY <1>1 DEF PollReads, counters
  <2> QED
    BY <1>f, <1>n, <1>m, <2>1
       DEF IInv, Seen, Flags, OwnText, ClosedIsEmpty, PageHasText, LastWord
<1>2. CASE PollSends /\ (poll \in {0, pageSeen} \/ ~open)
  <2>1. /\ poll # None /\ poll' = None
        /\ UNCHANGED <<host, hostSeen, page, toHost, toPage, writes, focused, open, copied,
                       sessions, failed, received>>
        /\ pageSeen' = pageSeen \/ (~open /\ pageSeen' = poll)
        /\ crossed' = (crossed \/ (toHost' # <<>> /\ (toPage' # <<>> \/ writes' # <<>>)))
    BY <1>2 DEF PollSends, counters, Meet
  <2>2. poll \in Text /\ pageSeen' \in Text \cup {None}
    BY <1>f, <2>1, CopiedAreTexts DEF IInv, Seen
  <2> QED
    BY <1>f, <1>n, <1>m, <2>1, <2>2
       DEF IInv, Seen, Flags, OwnText, ClosedIsEmpty, PageHasText, LastWord
<1>3. CASE PollSends /\ poll \notin {0, pageSeen} /\ open
  <2>1. /\ poll # None /\ poll' = None /\ pageSeen' = poll /\ toHost' = Append(toHost, poll)
        /\ UNCHANGED <<host, hostSeen, page, toPage, writes, focused, open, copied, sessions,
                       failed, received>>
        /\ crossed' = (crossed \/ (toHost' # <<>> /\ (toPage' # <<>> \/ writes' # <<>>)))
    BY <1>3 DEF PollSends, counters, Meet
  <2>2. poll \in S
    BY <1>f, <1>3, <2>1
  <2>3. toHost' \in Seq(S) /\ toHost' # <<>> /\ toHost'[Len(toHost')] = poll
    BY <1>f, <2>1, <2>2, Added
  <2>4. Numbered' /\ Seen' /\ Flags' /\ OwnText' /\ ClosedIsEmpty' /\ PageHasText'
    BY <1>f, <1>n, <1>m, <1>3, <2>1, <2>2, <2>3
       DEF IInv, Seen, Flags, OwnText, ClosedIsEmpty, PageHasText
  <2>5. LastWord'
    BY <1>3, <2>1, <2>3 DEF IInv, LastWord
  <2> QED BY <2>4, <2>5 DEF IInv
<1> QED BY <1>1, <1>2, <1>3

\* A user copies a text nobody has seen.
LEMMA CopiesStep ==
  ASSUME IInv, HostCopies \/ PageCopies
  PROVE  IInv'
<1>1. /\ copied \in Text /\ copied < MaxCopies /\ copied' = copied + 1
      /\ UNCHANGED <<hostSeen, pageSeen, toHost, toPage, writes, poll, focused, open, sessions,
                     crossed, failed, received>>
      /\ \/ host' = copied + 1 /\ page' = page
         \/ page' = copied + 1 /\ host' = host
  BY DEF IInv, Flags, HostCopies, PageCopies
<1>2. /\ Copied \subseteq Copied' /\ copied + 1 \in Copied' /\ copied + 1 \notin Copied
      /\ copied' \in Text /\ copied + 1 # 0
  BY <1>1, ClipboardAssumption DEF Text, Copied
<1>3. toHost' \in Seq(Copied') /\ toPage' \in Seq(Copied') /\ writes' \in Seq(Copied')
  BY <1>1, <1>2, Larger DEF IInv, Numbered
<1>4. Numbered'
  BY <1>1, <1>2, <1>3 DEF IInv, Numbered
<1>5. OwnText'
  BY <1>1, <1>2 DEF IInv, Numbered, OwnText
<1>6. Seen' /\ Flags' /\ ClosedIsEmpty' /\ PageHasText' /\ LastWord'
  BY <1>1, <1>2 DEF IInv, Seen, Flags, ClosedIsEmpty, PageHasText, LastWord
<1> QED BY <1>4, <1>5, <1>6 DEF IInv

\* Focus, and a session's two ends.
LEMMA SessionStep ==
  ASSUME IInv, Focus \/ Attach \/ Detach \/ UNCHANGED vars
  PROVE  IInv'
<1>1. CASE Focus \/ UNCHANGED vars
  <2>1. Copied' = Copied
    BY <1>1 DEF Focus, vars, counters, Copied
  <2>2. /\ UNCHANGED <<host, hostSeen, page, pageSeen, toHost, toPage, writes, poll, open,
                       copied, sessions, crossed, failed, received>>
        /\ focused' = focused \/ focused' = ~focused
    BY <1>1 DEF Focus, vars, counters
  <2>3. Numbered'
    BY <2>1, <2>2 DEF IInv, Numbered
  <2>4. Seen' /\ Flags' /\ OwnText' /\ ClosedIsEmpty' /\ PageHasText' /\ LastWord'
    BY <2>2 DEF IInv, Seen, Flags, OwnText, ClosedIsEmpty, PageHasText, LastWord
  <2> QED BY <2>3, <2>4 DEF IInv
<1>2. CASE Attach
  <2>1. Copied' = Copied /\ sessions' \in 0 .. MaxSessions /\ hostSeen' = None
    BY <1>2, ClipboardAssumption DEF Attach, IInv, Flags, Copied
  <2>2. Numbered' /\ Seen' /\ Flags'
    BY <1>2, <2>1 DEF Attach, IInv, Numbered, Seen, Flags
  <2> QED
    BY <1>2, <2>1, <2>2 DEF Attach, IInv, OwnText, ClosedIsEmpty, PageHasText, LastWord
<1>3. CASE Detach
  <2>1. <<>> \in Seq(Copied)
    OBVIOUS
  <2> QED
    BY <1>3, <2>1 DEF Detach, counters, IInv, Numbered, Copied, Seen, Flags, OwnText,
       ClosedIsEmpty, PageHasText, LastWord
<1> QED BY <1>1, <1>2, <1>3

\* Nothing was copied yet.
LEMMA InitIInv == Init => IInv
<1> SUFFICES ASSUME Init PROVE IInv
  OBVIOUS
<1>1. <<>> \in Seq(Copied) /\ 0 \in Text /\ 0 \in 0 .. MaxSessions
  BY ClipboardAssumption DEF Text
<1>2. Numbered
  BY <1>1 DEF Init, Numbered
<1> QED
  BY <1>1, <1>2 DEF Init, IInv, Seen, Flags, OwnText, ClosedIsEmpty, PageHasText, LastWord

\* The last word is followed through every step.
THEOREM Inductive == Spec => []IInv
<1>1. IInv /\ [Next]_vars => IInv'
  BY HostStep, PageTakesStep, PollStep, CopiesStep, SessionStep DEF Next
<1> QED BY InitIInv, <1>1, PTL DEF Spec

\* The types of the variables.
THEOREM TypeCorrect == Spec => []TypeOK
<1>1. IInv => TypeOK
  <2> SUFFICES ASSUME IInv PROVE TypeOK
    OBVIOUS
  <2>1. /\ Copied \subseteq Text \ {0} /\ 0 \in Text
        /\ toHost \in Seq(Copied) /\ toPage \in Seq(Copied) /\ writes \in Seq(Copied)
    BY CopiedAreTexts DEF IInv, Numbered
  <2>2. toHost \in Seq(Text \ {0}) /\ toPage \in Seq(Text \ {0}) /\ writes \in Seq(Text \ {0})
    BY <2>1, Larger
  <2> QED BY <2>1, <2>2 DEF IInv, Numbered, Seen, Flags, TypeOK
<1> QED BY Inductive, <1>1, PTL

\* Ends that have fallen silent hold the same text.
THEOREM SilentEndsAgree == Spec => []QuietMeansSame
<1>1. IInv => QuietMeansSame
  BY CopiedAreTexts DEF IInv, Numbered, LastWord, QuietMeansSame, Quiet
<1> QED BY Inductive, <1>1, PTL

\* A text the page sent is never pushed back to it.
THEOREM NothingIsEchoed == Spec => NeverEchoed
<1>1. IInv /\ [Next]_vars =>
        [Len(toPage') > Len(toPage) => toPage'[Len(toPage')] \notin received]_vars
  <2> SUFFICES ASSUME IInv, Next, Len(toPage') > Len(toPage)
               PROVE  toPage'[Len(toPage')] \notin received
    OBVIOUS
  <2>1. toPage \in Seq(Copied)
    BY DEF IInv, Numbered
  <2>2. /\ Len(toPage) \in Nat /\ Len(<<>>) = 0
        /\ toPage # <<>> => Len(Tail(toPage)) = Len(toPage) - 1
    BY <2>1
  <2>3. HostPolls
    BY <2>2 DEF Next, HostTakes, HostSetFails, PageReceives, PageWrites, PageWriteFails, PollReads,
       PollSends, HostCopies, PageCopies, Focus, Attach, Detach
  <2>4. host \in Copied /\ toPage' = Append(toPage, host) /\ host # hostSeen
    BY <2>3 DEF HostPolls, IInv, Numbered
  <2>5. toPage'[Len(toPage')] = host
    BY <2>1, <2>4, Added
  <2> QED BY <2>4, <2>5 DEF IInv, OwnText
<1> QED BY Inductive, <1>1, PTL DEF Spec, NeverEchoed

-----------------------------------------------------------------------------
(* The canvas. *)

\* The types of a batch sent and of a message on its way.
Batches == [session : Nat, seq : Nat, size : Size, cells : SUBSET Cell]
Message == [kind : {"header", "marker", "tiles"}, batch : DOMAIN batches, cells : SUBSET Cell]

\* Types, and which entries of the tables a batch has.
CanvasTypeOK ==
  /\ batches \in Seq(Batches)
  /\ wire \subseteq Message
  /\ session \in Nat /\ channelOpen \in BOOLEAN
  /\ screen \in Size \cup {NoSize}
  /\ entry \in {0} \cup DOMAIN remaining
  /\ DOMAIN remaining \subseteq DOMAIN batches
  /\ remaining \in [DOMAIN remaining -> Int]
  /\ DOMAIN attributed \subseteq (DOMAIN batches) \X Cell
  /\ attributed \in [DOMAIN attributed -> {0} \cup DOMAIN remaining]
  /\ pending \in Seq((DOMAIN batches) \X Cell)
  /\ rafId \in BOOLEAN /\ modeDue \in BOOLEAN
  /\ canvas \in [Cell -> {0} \cup DOMAIN batches]
  /\ decoded \subseteq DOMAIN attributed /\ IsFiniteSet(decoded)
  /\ undecoded \subseteq DOMAIN attributed /\ IsFiniteSet(undecoded)
  /\ framed \in {0} \cup DOMAIN batches /\ overtook \subseteq decoded
  /\ acked \subseteq [by : DOMAIN remaining, session : Nat]

\* A marker is on its way once, a tile at most once, and none was counted before.
Once ==
  \A m \in wire :
    /\ m.kind = "marker" => m.batch \notin DOMAIN remaining /\ m.cells = {}
    /\ m.kind = "tiles" => \A c \in m.cells : <<m.batch, c>> \notin DOMAIN attributed
    /\ m.kind = "tiles" => \A n \in wire :
         n.kind = "tiles" /\ n.batch = m.batch /\ n # m => m.cells \cap n.cells = {}

\* A message carries cells of its batch, and so does what was counted.
OfItsBatch ==
  /\ \A m \in wire : m.cells \subseteq batches[m.batch].cells
  /\ \A t \in DOMAIN attributed : t[2] \in batches[t[1]].cells

\* The decoded tiles that were counted on batch k.
CountedOn(k) == {t \in decoded : attributed[t] = k}

\* remaining is what is left of a batch.
Counts ==
  \A k \in DOMAIN remaining :
    remaining[k] = Cardinality(batches[k].cells) - Cardinality(CountedOn(k))

\* Only decoded tiles wait to be drawn.
PendingIsDecoded == ToSet(pending) \subseteq decoded

\* A header's batch covers the screen, and no header is to come for what was drawn
\* in its turn.
Headed ==
  /\ \A m \in wire : m.kind = "header" => batches[m.batch].cells = Cell
  /\ framed # 0 => batches[framed].cells = Cell
  /\ \A t \in decoded : t \in ToSet(pending) \/ t \in overtook \/ ~HeaderToCome(t)

\* The inductive invariant.
CanvasIInv ==
  /\ CanvasTypeOK /\ Once /\ OfItsBatch /\ Counts /\ PendingIsDecoded
  /\ Headed /\ UnmixedAckIsHonest /\ DecodedIsNotLost

\* A set of positions that is not empty has a last one.
LEMMA LastOne ==
  ASSUME NEW n \in Nat, NEW S \in SUBSET (1 .. n), S # {}
  PROVE  Max(S) \in S
<1> DEFINE Above == {k \in 1 .. n : \A i \in S : i <= k}
           Less == {p \in Nat \X Nat : p[1] < p[2]}
<1>1. PICK s \in S : TRUE
  OBVIOUS
<1>2. n \in Above /\ Above \subseteq Nat
  BY <1>1
<1>3. \E m \in Above : \A k \in Above : <<k, m>> \notin Less
  <2>1. IsWellFoundedOn(Less, Nat)
    BY NatLessThanWellFounded DEF OpToRel
  <2> HIDE DEF Above, Less
  <2> QED BY <1>2, <2>1, WFMin
<1>4. PICK m \in Above : \A k \in Above : ~(k < m)
  <2>1. \A k, m \in Nat : <<k, m>> \in Less <=> k < m
    OBVIOUS
  <2> HIDE DEF Above, Less
  <2> QED BY <1>2, <1>3, <2>1
<1>5. m \in S
  <2>1. SUFFICES ASSUME m \notin S PROVE FALSE
    OBVIOUS
  <2>2. \A i \in S : i <= m - 1
    BY <2>1
  <2>3. m - 1 \in Above
    BY <2>2, <1>1
  <2> QED BY <2>3, <1>4
<1>6. \E x \in S : \A y \in S : x >= y
  BY <1>5
<1> QED BY <1>6 DEF Max

\* What is known of one batch.
LEMMA BatchIs ==
  ASSUME CanvasTypeOK, NEW k \in DOMAIN batches
  PROVE  /\ k \in Nat /\ k # 0 /\ batches[k] \in Batches /\ batches[k].size \in Size
         /\ batches[k].cells \subseteq Cell /\ IsFiniteSet(batches[k].cells)
         /\ Cardinality(batches[k].cells) \in Nat
<1>1. k \in Nat /\ k # 0 /\ batches[k] \in Batches
  BY DEF CanvasTypeOK
<1>2. batches[k].size \in Size /\ batches[k].cells \subseteq Cell
  BY <1>1 DEF Batches
<1> QED BY <1>1, <1>2, ClientAssumption, FS_Subset, FS_CardinalityType

\* The invariant holds initially.
LEMMA InitCanvasIInv == ASSUME CanvasInit PROVE CanvasIInv
<1> USE DEF CanvasInit
<1>1. CanvasTypeOK
  <2>1. IsFiniteSet({})
    BY FS_EmptySet
  <2>2. \A S : <<>> \in Seq(S)
    OBVIOUS
  <2> QED BY <2>1, <2>2 DEF CanvasTypeOK
<1>2. /\ Once /\ OfItsBatch /\ Counts /\ PendingIsDecoded /\ Headed
      /\ UnmixedAckIsHonest /\ DecodedIsNotLost
  BY DEF Once, OfItsBatch, Counts, PendingIsDecoded, Headed, UnmixedAckIsHonest,
         DecodedIsNotLost, ToSet
<1> QED BY <1>1, <1>2 DEF CanvasIInv

\* What no step but the arrival of a marker or a decode touches.
LEMMA CountsStay ==
  ASSUME CanvasTypeOK, Counts, UNCHANGED <<remaining, attributed, decoded>>,
         \A k \in DOMAIN batches : batches'[k] = batches[k]
  PROVE  Counts'
BY DEF Counts, CountedOn, CanvasTypeOK

\* Where nothing is counted or acknowledged, acknowledgements stay honest.
LEMMA AcksStay ==
  ASSUME CanvasTypeOK, UnmixedAckIsHonest, UNCHANGED <<attributed, decoded>>, acked' = acked,
         \A k \in DOMAIN batches : batches'[k] = batches[k]
  PROVE  UnmixedAckIsHonest'
BY DEF UnmixedAckIsHonest, Mixed, TilesOf, CanvasTypeOK

\* Where nothing is decoded or drawn and no header is sent, none comes too late.
LEMMA HeadedStays ==
  ASSUME CanvasTypeOK, Headed, DecodedIsNotLost, wire' \subseteq wire,
         UNCHANGED <<batches, decoded, pending, canvas, framed, overtook>>
  PROVE  Headed' /\ DecodedIsNotLost'
<1>1. Headed'
  BY DEF Headed, HeaderToCome
<1>2. DecodedIsNotLost'
  BY DEF DecodedIsNotLost
<1> QED BY <1>1, <1>2

\* A channel opens or closes.
LEMMA SessionKeepsIInv ==
  ASSUME CanvasIInv, OpenChannel \/ CloseChannel
  PROVE  CanvasIInv'
<1> USE DEF CanvasIInv, OpenChannel, CloseChannel, decodeVars, headerVars
<1>1. CanvasTypeOK'
  <2>1. wire' \subseteq Message'
    BY DEF CanvasTypeOK, Message
  <2>2. session' \in Nat /\ channelOpen' \in BOOLEAN
    <3>1. session' \in Nat
      BY DEF CanvasTypeOK
    <3>2. channelOpen' = TRUE \/ channelOpen' = FALSE
      OBVIOUS
    <3> QED BY <3>1, <3>2
  <2>3. UNCHANGED <<batches, screen, entry, remaining, attributed, pending, rafId,
                    modeDue, canvas, decoded, undecoded, framed, overtook, acked>>
    OBVIOUS
  <2> QED BY <2>1, <2>2, <2>3 DEF CanvasTypeOK
<1>2. Once' /\ OfItsBatch'
  BY DEF Once, OfItsBatch
<1>3. Counts' /\ UnmixedAckIsHonest'
  BY CountsStay, AcksStay
<1>4. PendingIsDecoded' /\ Headed' /\ DecodedIsNotLost'
  BY HeadedStays DEF PendingIsDecoded, headerVars
<1> QED BY <1>1, <1>2, <1>3, <1>4

\* The server sends a batch.
LEMMA SendKeepsIInv ==
  ASSUME CanvasIInv, NEW size \in Size, NEW cells \in (SUBSET Cell) \ {{}},
         NEW packets \in {{cells}, {{c} : c \in cells}}, Send(size, cells, packets)
  PROVE  CanvasIInv'
<1> DEFINE k == Len(batches) + 1
           b == [session |-> session, seq |-> Cardinality(Current) + 1,
                 size |-> size, cells |-> cells]
           new == (IF NeedsHeader(size)
                 THEN {[kind |-> "header", batch |-> k, cells |-> {}]} ELSE {})
           \cup {[kind |-> "marker", batch |-> k, cells |-> {}]}
           \cup {[kind |-> "tiles", batch |-> k, cells |-> p] : p \in packets}
<1>1. /\ batches' = Append(batches, b) /\ wire' = wire \cup new
      /\ UNCHANGED <<session, channelOpen, screen, entry, remaining, attributed, pending,
                     rafId, modeDue, canvas, decoded, undecoded, framed, overtook, acked>>
  BY DEF Send, decodeVars, headerVars
<1>2. CanvasTypeOK /\ batches \in Seq(Batches) /\ Len(batches) \in Nat
  BY DEF CanvasIInv, CanvasTypeOK
<1>3. b \in Batches
  <2>1. Current \subseteq 1 .. Len(batches)
    BY <1>2 DEF Current
  <2>2. IsFiniteSet(1 .. Len(batches))
    <3>1. Len(batches) \in Int /\ 1 \in Int
      BY <1>2
    <3> QED BY <3>1, FS_Interval
  <2>3. Cardinality(Current) \in Nat
    BY <2>1, <2>2, FS_Subset, FS_CardinalityType
  <2> QED BY <2>3, <1>2 DEF Batches, CanvasTypeOK
<1> HIDE DEF b
<1>4. /\ batches' \in Seq(Batches) /\ batches'[k] = b /\ DOMAIN batches' = DOMAIN batches \cup {k}
      /\ k \in DOMAIN batches' /\ k \notin DOMAIN batches
      /\ \A j \in DOMAIN batches : batches'[j] = batches[j]
  BY <1>1, <1>2, <1>3
<1> HIDE DEF k
<1>5. \A m \in new : /\ m \in [kind : {"header", "marker", "tiles"}, batch : {k}, cells : SUBSET Cell]
                     /\ m.kind = "marker" => m.cells = {}
                     /\ m.kind = "tiles" => m.cells \in packets
                     /\ m.cells \subseteq b.cells
  <2>1. packets \subseteq SUBSET Cell /\ \A p \in packets : p \subseteq cells
    OBVIOUS
  <2>2. b.cells = cells
    BY DEF b
  <2> QED BY <2>1, <2>2
<1>6. \A p, q \in packets : p # q => p \cap q = {}
  OBVIOUS
<1> HIDE DEF new
<1>7. CanvasTypeOK'
  <2>1. wire' \subseteq Message'
    <3>1. \A m \in wire : m \in Message'
      BY <1>2, <1>4 DEF CanvasTypeOK, Message
    <3>2. \A m \in new : m \in Message'
      BY <1>5, <1>4 DEF Message
    <3> QED BY <3>1, <3>2, <1>1
  <2>2. pending' \in Seq((DOMAIN batches') \X Cell)
    <3>1. pending \in Seq((DOMAIN batches) \X Cell)
      BY <1>2 DEF CanvasTypeOK
    <3>2. (DOMAIN batches) \X Cell \subseteq (DOMAIN batches') \X Cell
      BY <1>4
    <3> HIDE DEF k
    <3> QED BY <3>1, <3>2, <1>1
  <2>3. canvas' \in [Cell -> {0} \cup DOMAIN batches']
    BY <1>1, <1>2, <1>4 DEF CanvasTypeOK
  <2>4. DOMAIN attributed' \subseteq (DOMAIN batches') \X Cell
    BY <1>1, <1>2, <1>4 DEF CanvasTypeOK
  <2>5. DOMAIN remaining' \subseteq DOMAIN batches'
    BY <1>1, <1>2, <1>4 DEF CanvasTypeOK
  <2> QED BY <1>1, <1>2, <1>4, <2>1, <2>2, <2>3, <2>4, <2>5 DEF CanvasTypeOK
<1>8. Once'
  <2>1. \A m \in wire : m.batch # k
    BY <1>2, <1>4 DEF CanvasTypeOK, Message
  <2>2. \A m \in new : m.batch = k
    BY <1>5
  <2>3. \A m, n \in new : m.kind = "tiles" /\ n.kind = "tiles" /\ m # n => m.cells # n.cells
    BY <1>5
  <2>4. k \notin DOMAIN remaining /\ \A c \in Cell : <<k, c>> \notin DOMAIN attributed
    BY <1>2, <1>4 DEF CanvasTypeOK
  <2>5. ASSUME NEW m \in wire'
        PROVE  m.kind = "marker" => m.batch \notin DOMAIN remaining /\ m.cells = {}
    BY <2>4, <2>2, <1>1, <1>5 DEF CanvasIInv, Once
  <2>6. ASSUME NEW m \in wire', m.kind = "tiles", NEW c \in m.cells
        PROVE  <<m.batch, c>> \notin DOMAIN attributed
    <3>1. CASE m \in wire
      BY <3>1, <2>6 DEF CanvasIInv, Once
    <3>2. CASE m \in new
      BY <3>2, <2>2, <2>4, <1>5
    <3> QED BY <3>1, <3>2, <1>1
  <2>7. ASSUME NEW m \in wire', NEW n \in wire', m.kind = "tiles", n.kind = "tiles",
               n.batch = m.batch, n # m
        PROVE  m.cells \cap n.cells = {}
    <3>1. CASE m \in wire
      BY <3>1, <2>7, <2>1, <2>2, <1>1 DEF CanvasIInv, Once
    <3>2. CASE m \in new
      BY <3>2, <2>7, <2>1, <2>2, <2>3, <1>1, <1>5, <1>6
    <3> QED BY <3>1, <3>2, <1>1
  <2> QED BY <2>5, <2>6, <2>7, <1>1 DEF Once
<1>9. Counts' /\ UnmixedAckIsHonest'
  BY <1>1, <1>2, <1>4, CountsStay, AcksStay DEF CanvasIInv
<1>10. PendingIsDecoded' /\ Headed' /\ DecodedIsNotLost'
  <2>1. PendingIsDecoded'
    BY <1>1 DEF CanvasIInv, PendingIsDecoded
  <2>2. \A m \in wire : m.batch \in DOMAIN batches
    BY <1>2 DEF CanvasTypeOK, Message
  <2>3. \A t \in decoded : t[1] \in DOMAIN batches /\ ~(k <= t[1])
    <3>1. \A j \in DOMAIN batches : ~(k <= j)
      BY <1>2 DEF k
    <3> QED BY <3>1, <1>2 DEF CanvasTypeOK
  <2>4. \A m \in new : m.batch = k /\ (m.kind = "header" => b.cells = Cell)
    <3>1. b.cells = cells
      BY DEF b
    <3>2. NeedsHeader(size) => cells = Cell
      BY DEF Send
    <3> QED BY <3>1, <3>2 DEF new
  <2>5. Headed'
    <3>1. ASSUME NEW m \in wire', m.kind = "header" PROVE batches'[m.batch].cells = Cell
      BY <3>1, <2>2, <2>4, <1>1, <1>4 DEF CanvasIInv, Headed
    <3>2. framed' # 0 => batches'[framed'].cells = Cell
      BY <1>1, <1>2, <1>4 DEF CanvasIInv, Headed, CanvasTypeOK
    <3>3. \A t \in decoded : HeaderToCome(t)' => HeaderToCome(t)
      BY <2>3, <2>4, <1>1 DEF HeaderToCome
    <3> QED BY <3>1, <3>2, <3>3, <1>1 DEF CanvasIInv, Headed
  <2>6. DecodedIsNotLost'
    <3>1. framed # 0 => batches'[framed] = batches[framed]
      BY <1>2, <1>4 DEF CanvasTypeOK
    <3>2. \A t \in decoded : t[1] < framed => framed # 0
      BY <2>3, <1>2 DEF CanvasTypeOK
    <3> QED BY <3>1, <3>2, <1>1 DEF CanvasIInv, DecodedIsNotLost
  <2> QED BY <2>1, <2>5, <2>6
<1>11. OfItsBatch'
  <2>1. ASSUME NEW m \in wire' PROVE m.cells \subseteq batches'[m.batch].cells
    <3>1. CASE m \in wire
      <4>1. m.batch \in DOMAIN batches /\ m.cells \subseteq batches[m.batch].cells
        BY <3>1 DEF CanvasIInv, OfItsBatch, CanvasTypeOK, Message
      <4> QED BY <4>1, <1>4
    <3>2. CASE m \in new
      BY <3>2, <1>4, <1>5
    <3> QED BY <3>1, <3>2, <1>1
  <2>2. ASSUME NEW t \in DOMAIN attributed PROVE t[2] \in batches'[t[1]].cells
    <3>1. t[1] \in DOMAIN batches /\ t[2] \in batches[t[1]].cells
      BY DEF CanvasIInv, OfItsBatch, CanvasTypeOK
    <3> QED BY <3>1, <1>4
  <2> QED BY <2>1, <2>2, <1>1 DEF OfItsBatch
<1> QED BY <1>7, <1>8, <1>9, <1>10, <1>11 DEF CanvasIInv

\* Taking a message off the wire.
LEMMA WireShrinks ==
  ASSUME CanvasIInv, wire' \subseteq wire, UNCHANGED batches
  PROVE  wire' \subseteq Message'
BY DEF CanvasIInv, CanvasTypeOK, Message

\* The page reads a header.
LEMMA HeaderKeepsIInv ==
  ASSUME CanvasIInv, NEW msg \in wire, ReceiveHeader(msg)
  PROVE  CanvasIInv'
<1> USE DEF ReceiveHeader, decodeVars
<1>0. msg.batch \in DOMAIN batches /\ DOMAIN batches \subseteq Nat /\ CanvasTypeOK
  BY DEF CanvasIInv, CanvasTypeOK, Message
<1>1. CanvasTypeOK'
  <2>1. wire' \subseteq Message'
    BY WireShrinks
  <2>2. canvas' \in [Cell -> {0} \cup DOMAIN batches'] /\ modeDue' \in BOOLEAN
    OBVIOUS
  <2>3. screen' \in Size /\ framed' \in DOMAIN batches
    BY <1>0, BatchIs
  <2> QED BY <2>1, <2>2, <2>3 DEF CanvasTypeOK, CanvasIInv
<1>2. Once' /\ OfItsBatch'
  BY DEF Once, OfItsBatch, CanvasIInv
<1>3. Counts' /\ UnmixedAckIsHonest'
  BY CountsStay, AcksStay DEF CanvasIInv
<1>4. PendingIsDecoded' /\ Headed'
  BY DEF CanvasIInv, PendingIsDecoded, Headed, HeaderToCome
<1>5. DecodedIsNotLost'
  <2>1. ASSUME NEW t \in decoded, t \notin ToSet(pending), t \notin overtook
        PROVE  t[1] < msg.batch /\ t[2] \in batches[msg.batch].cells
    <3>1. t[1] \in Nat /\ t[2] \in Cell /\ msg.batch \in Nat
      BY <1>0 DEF CanvasTypeOK
    <3>2. ~(msg.batch <= t[1])
      BY <2>1 DEF CanvasIInv, Headed, HeaderToCome
    <3>3. batches[msg.batch].cells = Cell
      BY DEF CanvasIInv, Headed
    <3> QED BY <3>1, <3>2, <3>3
  <2> QED BY <2>1 DEF DecodedIsNotLost
<1> QED BY <1>1, <1>2, <1>3, <1>4, <1>5 DEF CanvasIInv

\* The page reads a sequence marker.
LEMMA MarkerKeepsIInv ==
  ASSUME CanvasIInv, NEW msg \in wire, ReceiveMarker(msg)
  PROVE  CanvasIInv'
<1> DEFINE k == msg.batch
<1>1. /\ msg.kind = "marker" /\ wire' = wire \ {msg} /\ entry' = k
      /\ remaining' = [j \in DOMAIN remaining \cup {k} |->
                     IF j = k THEN Cardinality(batches[j].cells) ELSE remaining[j]]
      /\ UNCHANGED <<batches, session, channelOpen, screen, attributed, pending, rafId,
                     modeDue, canvas, decoded, undecoded, framed, overtook, acked>>
  BY DEF ReceiveMarker, decodeVars, headerVars
<1>2. /\ msg \in Message /\ k \in DOMAIN batches /\ batches \in Seq(Batches)
      /\ k \notin DOMAIN remaining
  BY <1>1 DEF CanvasIInv, CanvasTypeOK, Once, Message
<1>3. k # 0 /\ IsFiniteSet(batches[k].cells) /\ Cardinality(batches[k].cells) \in Nat
  BY <1>2, BatchIs DEF CanvasIInv
<1>4. CountedOn(k) = {}
  BY <1>2, <1>3 DEF CanvasIInv, CanvasTypeOK, CountedOn
<1> HIDE DEF k
<1>5. CanvasTypeOK'
  <2>1. wire' \subseteq Message'
    BY <1>1, WireShrinks
  <2>2. /\ DOMAIN remaining' = DOMAIN remaining \cup {k}
        /\ remaining' \in [DOMAIN remaining' -> Int]
    BY <1>1, <1>3 DEF CanvasIInv, CanvasTypeOK
  <2>3. /\ entry' \in {0} \cup DOMAIN remaining'
        /\ DOMAIN remaining' \subseteq DOMAIN batches'
        /\ attributed' \in [DOMAIN attributed' -> {0} \cup DOMAIN remaining']
        /\ acked' \subseteq [by : DOMAIN remaining', session : Nat]
    BY <1>1, <1>2, <2>2 DEF CanvasIInv, CanvasTypeOK
  <2> QED BY <1>1, <2>1, <2>2, <2>3 DEF CanvasIInv, CanvasTypeOK
<1>6. Once'
  <2>1. \A m \in wire' : m.kind = "marker" => m.batch # k
    <3> SUFFICES ASSUME NEW m \in wire', m.kind = "marker", m.batch = k PROVE FALSE
      OBVIOUS
    <3>1. m \in Message /\ msg \in Message /\ m.cells = {} /\ msg.cells = {}
      BY <1>1 DEF CanvasIInv, CanvasTypeOK, Once
    <3>2. m = msg
      BY <3>1, <1>1 DEF Message, k
    <3> QED BY <3>2, <1>1
  <2> QED BY <1>1, <2>1 DEF CanvasIInv, Once
<1>7. Counts'
  <2>1. ASSUME NEW j \in DOMAIN remaining'
        PROVE  remaining'[j] = Cardinality(batches'[j].cells) - Cardinality(CountedOn(j)')
    <3>1. CountedOn(j)' = CountedOn(j)
      BY <1>1 DEF CountedOn
    <3>2. CASE j = k
      BY <3>1, <3>2, <1>1, <1>3, <1>4, FS_EmptySet
    <3>3. CASE j # k
      BY <3>1, <3>3, <1>1 DEF CanvasIInv, Counts
    <3> QED BY <3>2, <3>3
  <2> QED BY <2>1 DEF Counts
<1>8. UnmixedAckIsHonest'
  BY <1>1, AcksStay DEF CanvasIInv
<1>9. PendingIsDecoded' /\ Headed' /\ DecodedIsNotLost' /\ OfItsBatch'
  BY <1>1, HeadedStays DEF CanvasIInv, PendingIsDecoded, OfItsBatch
<1> QED BY <1>5, <1>6, <1>7, <1>8, <1>9 DEF CanvasIInv

\* The page reads a packet of tiles.
LEMMA TilesKeepIInv ==
  ASSUME CanvasIInv, NEW msg \in wire, ReceiveTiles(msg)
  PROVE  CanvasIInv'
<1> DEFINE tiles == {msg.batch} \X msg.cells
<1>1. /\ msg.kind = "tiles" /\ wire' = wire \ {msg}
      /\ attributed' = [t \in DOMAIN attributed \cup tiles |->
                          IF t \in tiles THEN entry ELSE attributed[t]]
      /\ UNCHANGED <<batches, session, channelOpen, screen, entry, remaining, pending,
                     rafId, modeDue, canvas, decoded, undecoded, framed, overtook, acked>>
  BY DEF ReceiveTiles, decodeVars, headerVars
<1>2. /\ tiles \subseteq (DOMAIN batches) \X Cell
      /\ \A t \in tiles : t \notin DOMAIN attributed
      /\ \A t \in tiles : t[2] \in batches[t[1]].cells
  BY <1>1 DEF CanvasIInv, CanvasTypeOK, Once, OfItsBatch, Message
<1>3. /\ DOMAIN attributed' = DOMAIN attributed \cup tiles
      /\ \A t \in DOMAIN attributed : attributed'[t] = attributed[t]
      /\ \A t \in tiles : attributed'[t] = entry
  BY <1>1, <1>2
<1>4. CanvasTypeOK'
  <2>1. wire' \subseteq Message'
    BY <1>1, WireShrinks
  <2>2. attributed' \in [DOMAIN attributed' -> {0} \cup DOMAIN remaining']
    <3> HIDE DEF tiles
    <3> QED BY <1>1, <1>3 DEF CanvasIInv, CanvasTypeOK
  <2>3. /\ DOMAIN attributed' \subseteq (DOMAIN batches') \X Cell
        /\ decoded' \subseteq DOMAIN attributed' /\ undecoded' \subseteq DOMAIN attributed'
    <3> HIDE DEF tiles
    <3> QED BY <1>1, <1>2, <1>3 DEF CanvasIInv, CanvasTypeOK
  <2> QED BY <1>1, <2>1, <2>2, <2>3 DEF CanvasIInv, CanvasTypeOK
<1>5. Once'
  <2>1. ASSUME NEW m \in wire', m.kind = "tiles", NEW c \in m.cells
        PROVE  <<m.batch, c>> \notin DOMAIN attributed'
    <3>1. <<m.batch, c>> \notin DOMAIN attributed
      BY <2>1, <1>1 DEF CanvasIInv, Once
    <3>2. <<m.batch, c>> \notin tiles
      BY <2>1, <1>1 DEF CanvasIInv, Once
    <3> QED BY <3>1, <3>2, <1>3
  <2> QED BY <1>1, <2>1 DEF CanvasIInv, Once
<1> HIDE DEF tiles
<1>6. Counts'
  <2>1. \A j : CountedOn(j)' = CountedOn(j)
    BY <1>1, <1>3 DEF CountedOn, CanvasIInv, CanvasTypeOK
  <2> QED BY <2>1, <1>1 DEF CanvasIInv, Counts
<1>7. UnmixedAckIsHonest'
  <2>1. \A k : Mixed(k)' <=> Mixed(k)
    BY <1>1, <1>3 DEF Mixed, CanvasIInv, CanvasTypeOK
  <2> QED BY <1>1, <2>1 DEF CanvasIInv, UnmixedAckIsHonest, TilesOf
<1>8. PendingIsDecoded' /\ Headed' /\ DecodedIsNotLost' /\ OfItsBatch'
  <2>1. PendingIsDecoded' /\ Headed' /\ DecodedIsNotLost'
    BY <1>1, HeadedStays DEF CanvasIInv, PendingIsDecoded
  <2>2. OfItsBatch'
    BY <1>1, <1>2, <1>3 DEF CanvasIInv, OfItsBatch
  <2> QED BY <2>1, <2>2
<1> QED BY <1>4, <1>5, <1>6, <1>7, <1>8 DEF CanvasIInv

\* The elements of a sequence with one more at its end.
LEMMA AppendedToo ==
  ASSUME NEW S, NEW s \in Seq(S), NEW t
  PROVE  ToSet(Append(s, t)) = ToSet(s) \cup {t}
<1>1. Len(s) \in Nat /\ DOMAIN s = 1 .. Len(s) /\ DOMAIN Append(s, t) = 1 .. Len(s) + 1
      /\ Append(s, t)[Len(s) + 1] = t /\ \A i \in DOMAIN s : Append(s, t)[i] = s[i]
  OBVIOUS
<1>2. \A x : x \in ToSet(Append(s, t)) <=> x \in ToSet(s) \cup {t}
  <2>1. \A x \in ToSet(Append(s, t)) : x \in ToSet(s) \cup {t}
    <3> TAKE x \in ToSet(Append(s, t))
    <3>1. PICK i \in 1 .. Len(s) + 1 : x = Append(s, t)[i]
      BY <1>1 DEF ToSet
    <3>2. i \in 1 .. Len(s) \/ i = Len(s) + 1
      BY <1>1
    <3> QED BY <1>1, <3>1, <3>2 DEF ToSet
  <2>2. \A x \in ToSet(s) : x \in ToSet(Append(s, t))
    <3> TAKE x \in ToSet(s)
    <3>1. PICK i \in 1 .. Len(s) : x = s[i]
      BY <1>1 DEF ToSet
    <3>2. i \in DOMAIN Append(s, t) /\ x = Append(s, t)[i]
      BY <1>1, <3>1
    <3> QED BY <3>2 DEF ToSet
  <2>3. t \in ToSet(Append(s, t))
    <3>1. Len(s) + 1 \in DOMAIN Append(s, t)
      BY <1>1
    <3> QED BY <1>1, <3>1 DEF ToSet
  <2> QED BY <2>1, <2>2, <2>3
<1> QED BY <1>2

\* Every tile of a batch is decoded once its count reaches zero, if no other tile
\* was counted on it.
LEMMA FullCount ==
  ASSUME NEW k, NEW S, NEW cells, IsFiniteSet(cells), IsFiniteSet(S), S \subseteq {k} \X cells,
         Cardinality(S) >= Cardinality(cells)
  PROVE  S = {k} \X cells
<1>1. /\ IsFiniteSet({k}) /\ Cardinality({k}) = 1
  BY FS_Singleton
<1>2. /\ IsFiniteSet({k} \X cells)
      /\ Cardinality({k} \X cells) = Cardinality({k}) * Cardinality(cells)
  BY <1>1, FS_Product
<1>3. Cardinality(cells) \in Nat /\ Cardinality(S) \in Nat
  BY FS_CardinalityType
<1>4. Cardinality({k} \X cells) = Cardinality(cells)
  BY <1>1, <1>2, <1>3
<1>5. SUFFICES ASSUME S # {k} \X cells PROVE FALSE
  OBVIOUS
<1>6. Cardinality(S) < Cardinality({k} \X cells)
  <2> DEFINE P == {k} \X cells
  <2>1. IsFiniteSet(P) /\ S \subseteq P /\ S # P
    BY <1>2, <1>5
  <2> HIDE DEF P
  <2>2. Cardinality(S) <= Cardinality(P) /\ Cardinality(S) # Cardinality(P)
    BY <2>1, FS_Subset
  <2> QED BY <2>2, <1>2, <1>3, <1>4 DEF P
<1> QED BY <1>3, <1>4, <1>6

\* A decode completes: the tile waits to be drawn and is counted.
LEMMA DecodeDoneKeepsIInv ==
  ASSUME CanvasIInv, NEW t \in Decoding, DecodeDone(t)
  PROVE  CanvasIInv'
<1>0. PICK e : e = attributed[t]
  OBVIOUS
<1>1. /\ decoded' = decoded \cup {t} /\ pending' = Append(pending, t) /\ rafId' = TRUE
      /\ UNCHANGED <<batches, wire, session, channelOpen, screen, entry, attributed,
                     modeDue, canvas, undecoded, framed, overtook>>
  BY DEF DecodeDone, headerVars
<1>2. /\ e = 0 => UNCHANGED <<remaining, acked>>
      /\ e # 0 => /\ remaining' = [remaining EXCEPT ![e] = @ - 1]
                  /\ \/ acked' = acked
                     \/ remaining[e] <= 1 /\ acked' = acked \cup {[by |-> e, session |-> session]}
  BY <1>0 DEF DecodeDone, MaybeAck, EntryOf
<1>3. /\ t \in DOMAIN attributed /\ t \notin decoded /\ t \in (DOMAIN batches) \X Cell
      /\ e \in {0} \cup DOMAIN remaining /\ 0 \notin DOMAIN remaining
  BY <1>0 DEF Decoding, CanvasIInv, CanvasTypeOK
<1>4. /\ DOMAIN remaining' = DOMAIN remaining /\ remaining' \in [DOMAIN remaining -> Int]
      /\ \A k \in DOMAIN remaining : remaining'[k] = IF k = e THEN remaining[k] - 1
                                                            ELSE remaining[k]
  <2>1. remaining \in [DOMAIN remaining -> Int]
    BY DEF CanvasIInv, CanvasTypeOK
  <2>2. CASE e = 0
    BY <2>1, <2>2, <1>2, <1>3
  <2>3. CASE e # 0
    BY <2>1, <2>3, <1>2, <1>3
  <2> QED BY <2>2, <2>3
<1>5. acked' \subseteq [by : DOMAIN remaining, session : Nat]
  <2>1. acked \subseteq [by : DOMAIN remaining, session : Nat] /\ session \in Nat
    BY DEF CanvasIInv, CanvasTypeOK
  <2> QED BY <2>1, <1>2, <1>3
<1>6. CanvasTypeOK'
  <2>1. wire' \subseteq Message'
    BY <1>1, WireShrinks
  <2>2. pending' \in Seq((DOMAIN batches) \X Cell)
    BY <1>1, <1>3 DEF CanvasIInv, CanvasTypeOK
  <2>3. decoded' \subseteq DOMAIN attributed /\ IsFiniteSet(decoded')
    BY <1>1, <1>3, FS_AddElement DEF CanvasIInv, CanvasTypeOK
  <2>4. overtook' \subseteq decoded' /\ rafId' \in BOOLEAN
    BY <1>1 DEF CanvasIInv, CanvasTypeOK
  <2> QED BY <1>1, <1>4, <1>5, <2>1, <2>2, <2>3, <2>4 DEF CanvasIInv, CanvasTypeOK
<1>7. Once'
  BY <1>1, <1>4 DEF CanvasIInv, Once
<1>8. \A k : CountedOn(k)' = IF k = e THEN CountedOn(k) \cup {t} ELSE CountedOn(k)
  BY <1>0, <1>1 DEF CountedOn
<1>9. \A k : IsFiniteSet(CountedOn(k)) /\ Cardinality(CountedOn(k)) \in Nat
            /\ t \notin CountedOn(k)
  BY <1>3, FS_Subset, FS_CardinalityType DEF CountedOn, CanvasIInv, CanvasTypeOK
<1>10. Counts'
  <2>1. ASSUME NEW k \in DOMAIN remaining
        PROVE  remaining'[k] = Cardinality(batches[k].cells) - Cardinality(CountedOn(k)')
    <3>1. remaining[k] = Cardinality(batches[k].cells) - Cardinality(CountedOn(k))
      BY DEF CanvasIInv, Counts
    <3>2. Cardinality(batches[k].cells) \in Nat
      BY BatchIs DEF CanvasIInv, CanvasTypeOK
    <3>3. CASE k = e
      <4>1. Cardinality(CountedOn(k)') = Cardinality(CountedOn(k)) + 1
        BY <3>3, <1>8, <1>9, FS_AddElement
      <4> QED BY <3>1, <3>2, <3>3, <4>1, <1>4, <1>9
    <3>4. CASE k # e
      BY <3>1, <3>4, <1>4, <1>8
    <3> QED BY <3>3, <3>4
  <2> QED BY <2>1, <1>1, <1>4 DEF Counts
<1>11. UnmixedAckIsHonest'
  <2>1. ASSUME NEW a \in acked', a.session = batches[a.by].session, ~Mixed(a.by)'
        PROVE  TilesOf(a.by)' \subseteq decoded'
    <3>1. TilesOf(a.by)' = TilesOf(a.by)
      BY <1>1 DEF TilesOf
    <3>2. CASE a \in acked
      <4>1. ~Mixed(a.by)
        BY <2>1, <1>1 DEF Mixed
      <4>2. TilesOf(a.by) \subseteq decoded
        BY <2>1, <3>2, <4>1 DEF CanvasIInv, UnmixedAckIsHonest
      <4> QED BY <3>1, <4>2, <1>1
    <3>3. CASE remaining[e] <= 1 /\ e # 0 /\ a.by = e
      <4>1. e \in DOMAIN remaining /\ e \in DOMAIN batches
        BY <3>3, <1>3 DEF CanvasIInv, CanvasTypeOK
      <4> DEFINE S == CountedOn(e)'
                 cells == batches[e].cells
      <4>3. IsFiniteSet(cells) /\ Cardinality(cells) \in Nat
        BY <4>1, BatchIs DEF CanvasIInv
      <4>4. IsFiniteSet(S) /\ Cardinality(S) = Cardinality(CountedOn(e)) + 1
        <5>1. S = CountedOn(e) \cup {t} /\ t \notin CountedOn(e) /\ IsFiniteSet(CountedOn(e))
          BY <1>8, <1>9
        <5> HIDE DEF S
        <5> QED BY <5>1, FS_AddElement
      <4>5. Cardinality(S) >= Cardinality(cells)
        <5>1. remaining[e] = Cardinality(cells) - Cardinality(CountedOn(e))
          BY <4>1 DEF CanvasIInv, Counts
        <5> QED BY <5>1, <4>3, <4>4, <3>3, <1>9
      <4>6. S \subseteq {e} \X cells
        <5>1. \A u \in decoded' : (attributed[u] = e => u[1] = e)
          BY <2>1, <3>3, <1>1 DEF Mixed
        <5>2. \A u \in S : u[1] = e /\ u \in DOMAIN attributed
          <6>1. decoded' \subseteq DOMAIN attributed
            BY <1>6, <1>1 DEF CanvasTypeOK
          <6>2. \A u \in S : u \in decoded' /\ attributed[u] = e
            <7>1. S = {u \in decoded' : attributed'[u] = e}
              BY <1>3, <3>3 DEF CountedOn
            <7> HIDE DEF S
            <7> QED BY <7>1, <1>1
          <6> HIDE DEF S
          <6> QED BY <5>1, <6>1, <6>2
        <5>3. \A u \in DOMAIN attributed : u = <<u[1], u[2]>> /\ u[2] \in batches[u[1]].cells
          BY DEF CanvasIInv, CanvasTypeOK, OfItsBatch
        <5> HIDE DEF S
        <5> QED BY <5>2, <5>3
      <4>7. S = {e} \X cells
        BY <4>3, <4>4, <4>5, <4>6, FullCount
      <4>8. TilesOf(e) = {e} \X cells
        BY DEF TilesOf
      <4>9. S \subseteq decoded'
        BY <4>4 DEF CountedOn
      <4> QED BY <4>7, <4>8, <4>9, <3>1, <3>3
    <3> QED BY <3>2, <3>3, <1>2
  <2> QED BY <2>1, <1>1 DEF UnmixedAckIsHonest
<1>13. OfItsBatch'
  BY <1>1 DEF CanvasIInv, OfItsBatch
<1>12. PendingIsDecoded' /\ Headed' /\ DecodedIsNotLost'
  <2>1. ToSet(pending') = ToSet(pending) \cup {t}
    BY <1>1, AppendedToo DEF CanvasIInv, CanvasTypeOK
  <2>2. Headed'
    BY <2>1, <1>1 DEF CanvasIInv, Headed, HeaderToCome
  <2> QED BY <2>1, <2>2, <1>1 DEF CanvasIInv, PendingIsDecoded, DecodedIsNotLost
<1> QED BY <1>6, <1>7, <1>10, <1>11, <1>12, <1>13 DEF CanvasIInv

\* A decode fails.
LEMMA DecodeFailsKeepsIInv ==
  ASSUME CanvasIInv, NEW t \in Decoding, DecodeFails(t)
  PROVE  CanvasIInv'
<1>1. /\ undecoded' = undecoded \cup {t}
      /\ UNCHANGED <<batches, wire, session, channelOpen, screen, entry, remaining,
                     attributed, pending, rafId, modeDue, canvas, decoded, framed, overtook, acked>>
  BY DEF DecodeFails, headerVars
<1>2. CanvasTypeOK'
  <2>1. undecoded' \subseteq DOMAIN attributed /\ IsFiniteSet(undecoded')
    BY <1>1, FS_AddElement DEF CanvasIInv, CanvasTypeOK, Decoding
  <2>2. wire' \subseteq Message'
    BY <1>1, WireShrinks
  <2> QED BY <1>1, <2>1, <2>2 DEF CanvasIInv, CanvasTypeOK
<1>3. Once' /\ OfItsBatch' /\ PendingIsDecoded' /\ Headed' /\ DecodedIsNotLost'
  BY <1>1, HeadedStays DEF CanvasIInv, Once, OfItsBatch, PendingIsDecoded
<1>4. Counts' /\ UnmixedAckIsHonest'
  BY <1>1, CountsStay, AcksStay DEF CanvasIInv
<1> QED BY <1>2, <1>3, <1>4 DEF CanvasIInv

\* An animation frame draws what waits.
LEMMA RenderKeepsIInv ==
  ASSUME CanvasIInv, RenderFrame
  PROVE  CanvasIInv'
<1>1. /\ rafId' = FALSE
      /\ UNCHANGED <<batches, wire, session, channelOpen, screen, entry, remaining,
                     attributed, modeDue, decoded, undecoded, framed, acked>>
      /\ \/ UNCHANGED <<pending, canvas, overtook>>
         \/ /\ pending' = <<>>
            /\ canvas' = [c \in Cell |-> Drawn(c)]
            /\ overtook' = overtook \cup {t \in ToSet(pending) : HeaderToCome(t)}
  BY DEF RenderFrame, DrawPending, decodeVars
<1>2. \A c \in Cell :
        /\ Drawn(c) \in {0} \cup DOMAIN batches
        /\ canvas[c] # 0 \/ (\E t \in ToSet(pending) : t[2] = c) => Drawn(c) # 0
  <2> TAKE c \in Cell
  <2> DEFINE over == {i \in DOMAIN pending : pending[i][2] = c}
  <2>1. Len(pending) \in Nat /\ DOMAIN pending = 1 .. Len(pending)
        /\ \A i \in DOMAIN pending : pending[i] \in (DOMAIN batches) \X Cell
    BY DEF CanvasIInv, CanvasTypeOK
  <2>2. CASE over = {}
    BY <2>2 DEF Drawn, CanvasIInv, CanvasTypeOK, ToSet
  <2>3. CASE over # {}
    <3>1. Max(over) \in over
      <4>1. over \in SUBSET (1 .. Len(pending))
        BY <2>1
      <4> HIDE DEF over
      <4> QED BY <4>1, <2>1, <2>3, LastOne
    <3>2. Drawn(c) = pending[Max(over)][1]
      BY <2>3 DEF Drawn
    <3>3. pending[Max(over)] \in (DOMAIN batches) \X Cell
      BY <3>1, <2>1
    <3>4. 0 \notin DOMAIN batches
      BY DEF CanvasIInv, CanvasTypeOK
    <3> HIDE DEF over
    <3> QED BY <3>2, <3>3, <3>4
  <2> QED BY <2>2, <2>3
<1>3. CanvasTypeOK'
  <2>1. wire' \subseteq Message'
    BY <1>1, WireShrinks
  <2>2. canvas' \in [Cell -> {0} \cup DOMAIN batches']
    <3>1. canvas \in [Cell -> {0} \cup DOMAIN batches]
      BY DEF CanvasIInv, CanvasTypeOK
    <3>2. canvas' = canvas \/ canvas' = [c \in Cell |-> Drawn(c)]
      BY <1>1
    <3> QED BY <3>1, <3>2, <1>1, <1>2
  <2>3. pending' \in Seq((DOMAIN batches) \X Cell)
    <3>1. <<>> \in Seq((DOMAIN batches) \X Cell) /\ pending \in Seq((DOMAIN batches) \X Cell)
      BY DEF CanvasIInv, CanvasTypeOK
    <3>2. pending' = pending \/ pending' = <<>>
      BY <1>1
    <3> QED BY <3>1, <3>2
  <2>4. overtook' \subseteq decoded'
    BY <1>1 DEF CanvasIInv, CanvasTypeOK, PendingIsDecoded
  <2> QED BY <1>1, <2>1, <2>2, <2>3, <2>4 DEF CanvasIInv, CanvasTypeOK
<1>4. Once' /\ OfItsBatch' /\ PendingIsDecoded' /\ Headed' /\ DecodedIsNotLost'
  <2>1. ToSet(<<>>) = {}
    BY DEF ToSet
  <2>2. Once' /\ OfItsBatch'
    BY <1>1 DEF CanvasIInv, Once, OfItsBatch
  <2>3. PendingIsDecoded'
    BY <1>1, <2>1 DEF CanvasIInv, PendingIsDecoded
  <2>4. DecodedIsNotLost'
    <3>1. CASE UNCHANGED <<pending, canvas, overtook>>
      BY <3>1, <1>1 DEF CanvasIInv, DecodedIsNotLost
    <3>2. CASE canvas' = [c \in Cell |-> Drawn(c)] /\ overtook \subseteq overtook'
      <4>1. \A t \in decoded : t[2] \in Cell
        BY DEF CanvasIInv, CanvasTypeOK
      <4>2. \A t \in decoded : t \in ToSet(pending) \/ canvas[t[2]] # 0
                              => canvas'[t[2]] # 0
        BY <3>2, <4>1, <1>2
      <4> QED BY <4>2, <1>1 DEF CanvasIInv, DecodedIsNotLost
    <3> QED BY <3>1, <3>2, <1>1
  <2>5. Headed'
    <3>1. \A t \in decoded : HeaderToCome(t)' <=> HeaderToCome(t)
      BY <1>1 DEF HeaderToCome
    <3>2. \A t \in decoded : \/ t \in ToSet(pending') \/ t \in overtook'
                            \/ ~HeaderToCome(t)
      BY <1>1 DEF CanvasIInv, Headed
    <3> QED BY <3>1, <3>2, <1>1 DEF CanvasIInv, Headed
  <2> QED BY <2>2, <2>3, <2>4, <2>5
<1>5. Counts' /\ UnmixedAckIsHonest'
  BY <1>1, CountsStay, AcksStay DEF CanvasIInv
<1> QED BY <1>3, <1>4, <1>5 DEF CanvasIInv

\* The canvas is resized to the announced size.
LEMMA ModeKeepsIInv ==
  ASSUME CanvasIInv, ApplyMode
  PROVE  CanvasIInv'
<1>1. /\ modeDue' \in BOOLEAN /\ rafId' \in BOOLEAN
      /\ UNCHANGED <<batches, wire, session, channelOpen, screen, entry, remaining,
                     attributed, pending, canvas, decoded, undecoded, framed, overtook, acked>>
  BY DEF ApplyMode, decodeVars, headerVars, CanvasIInv, CanvasTypeOK
<1>2. wire' \subseteq Message'
  BY <1>1, WireShrinks
<1>3. CanvasTypeOK'
  BY <1>1, <1>2 DEF CanvasIInv, CanvasTypeOK
<1>4. Once' /\ OfItsBatch' /\ PendingIsDecoded' /\ Headed' /\ DecodedIsNotLost'
  BY <1>1, HeadedStays DEF CanvasIInv, Once, OfItsBatch, PendingIsDecoded
<1>5. Counts' /\ UnmixedAckIsHonest'
  BY <1>1, CountsStay, AcksStay DEF CanvasIInv
<1> QED BY <1>3, <1>4, <1>5 DEF CanvasIInv

\* A stuttering step.
LEMMA StutterKeepsIInv ==
  ASSUME CanvasIInv, UNCHANGED canvasVars
  PROVE  CanvasIInv'
<1>1. UNCHANGED <<batches, wire, session, channelOpen, screen, entry, remaining, attributed,
                  pending, rafId, modeDue, canvas, decoded, undecoded, framed, overtook, acked>>
  BY DEF canvasVars
<1>2. CanvasTypeOK'
  BY <1>1 DEF CanvasIInv, CanvasTypeOK, Message
<1>3. Once' /\ OfItsBatch' /\ PendingIsDecoded' /\ Headed' /\ DecodedIsNotLost'
  BY <1>1, HeadedStays DEF CanvasIInv, Once, OfItsBatch, PendingIsDecoded
<1>4. Counts' /\ UnmixedAckIsHonest'
  BY <1>1, CountsStay, AcksStay DEF CanvasIInv
<1> QED BY <1>2, <1>3, <1>4 DEF CanvasIInv

\* The invariant holds in every reachable state, for any number of batches and
\* channels.
THEOREM CanvasInvariant == CanvasSpec => []CanvasIInv
<1>1. CanvasIInv /\ [CanvasNext]_canvasVars => CanvasIInv'
  <2> SUFFICES ASSUME CanvasIInv, [CanvasNext]_canvasVars PROVE CanvasIInv'
    OBVIOUS
  <2>1. CASE OpenChannel \/ CloseChannel
    BY <2>1, SessionKeepsIInv
  <2>2. ASSUME NEW size \in Size, NEW cells \in (SUBSET Cell) \ {{}},
               NEW packets \in {{cells}, {{c} : c \in cells}}, Send(size, cells, packets)
        PROVE  CanvasIInv'
    BY <2>2, SendKeepsIInv
  <2>3. CASE Receive
    BY <2>3, HeaderKeepsIInv, MarkerKeepsIInv, TilesKeepIInv DEF Receive
  <2>4. CASE Decode
    BY <2>4, DecodeDoneKeepsIInv, DecodeFailsKeepsIInv DEF Decode
  <2>5. CASE RenderFrame
    BY <2>5, RenderKeepsIInv
  <2>6. CASE ApplyMode
    BY <2>6, ModeKeepsIInv
  <2>7. CASE UNCHANGED canvasVars
    BY <2>7, StutterKeepsIInv
  <2> QED BY <2>1, <2>2, <2>3, <2>4, <2>5, <2>6, <2>7 DEF CanvasNext
<1> QED BY InitCanvasIInv, <1>1, PTL DEF CanvasSpec

\* An acknowledgement of a batch no other was mixed into says that each of its
\* tiles was decoded.
THEOREM AckCorrect == CanvasSpec => []UnmixedAckIsHonest
BY CanvasInvariant, PTL DEF CanvasIInv

\* A decoded tile waits to be drawn or its place on the canvas is filled, whatever
\* reconnects and mode changes come between, unless a header renewed the canvas:
\* then the place is sent again with the header's batch, or the tile overtook a header.
THEOREM DecodedCorrect == CanvasSpec => []DecodedIsNotLost
BY CanvasInvariant, PTL DEF CanvasIInv

=============================================================================
