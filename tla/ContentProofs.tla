---------------------------- MODULE ContentProofs ----------------------------
(***************************************************************************)
(* Content over the AMQP side, for any number of connections and channels, *)
(* publications of any size and any cut of the frames: what is stored is   *)
(* what was published, and a channel never waits for a frame that will not *)
(* come.                                                                   *)
(*                                                                         *)
(* The frames of a connection not treated yet form a line.  The invariant  *)
(* says how a frame follows the one before it on its channel, what the     *)
(* state of a channel requires of the first frame in the line, and what    *)
(* its client still has to send behind the last one.                       *)
(***************************************************************************)
EXTENDS TrackerProtocolProofs

Line(c) == buffer[c] \o arriving[c]

Size(c, id) == BodySize[published[c][id].msg]

IsContent(f) == f.method \in {"HEADER", "BODY"}
Numbered(f) == f.method \in {"BASIC_PUBLISH", "HEADER", "BODY"}

\* A numbered frame is one of the publication it names.
Valid(c, f) ==
    /\ Numbered(f) => /\ f.id \in DOMAIN published[c]
                      /\ published[c][f.id].chan = f.chan
    /\ f.method = "BASIC_PUBLISH" => published[c][f.id].exchange = f.exchange
    /\ f.method = "BODY" => f.part \in 1 .. Size(c, f.id)

Unfinished(c, f) ==
    \/ f.method = "BASIC_PUBLISH"
    \/ f.method = "HEADER" /\ Size(c, f.id) > 0
    \/ f.method = "BODY" /\ f.part < Size(c, f.id)

\* g comes after f on a channel.
Follows(c, f, g) ==
    IF Unfinished(c, f)
    THEN /\ g.method = IF f.method = "BASIC_PUBLISH" THEN "HEADER" ELSE "BODY"
         /\ g.id = f.id
         /\ f.method = "HEADER" => g.part = 1
         /\ f.method = "BODY" => g.part = f.part + 1
    ELSE ~IsContent(g)

\* What the client has to send next on a channel, where it has to.
NoFrame == [method |-> "NONE"]
Upcoming(c, n) == IF pending[c][n] = <<>> THEN NoFrame ELSE Head(pending[c][n])

ChanOf(c, n) == IF n \in DOMAIN channels[c] THEN channels[c][n] ELSE NewChannel

\* All that is stored of the channel was published before.
Newer(c, n, id) ==
    \A i \in DOMAIN stored[c] : stored[c][i].chan = n => stored[c][i].id < id

Parts(id, k) == [i \in 1 .. k |-> <<id, i>>]

\* A message that will never be stored: it was refused, or announced as empty.
Stuck(c, msg) ==
    /\ Len(msg.content) >= Size(c, msg.id)
    /\ c \in closing \/ Size(c, msg.id) = 0

\* What a channel in this state may be given next.
Prepared(c, n, g) ==
    LET ch == ChanOf(c, n) IN
    /\ ch.state = "WAITING_HEADER" =>
          /\ g.method = "HEADER"
          /\ published[c][g.id].exchange = ch.exchange
          /\ Newer(c, n, g.id)
    /\ ch.state = "WAITING_BODY" =>
          \/ Stuck(c, ch.message)
          \/ /\ g.method = "BODY" /\ g.id = ch.message.id
             /\ ch.message.content = Parts(g.id, g.part - 1)
             /\ published[c][g.id].exchange = ch.exchange
             /\ Newer(c, n, g.id)
    /\ ch.state \in {"WAITING_OPEN", "OPENED"} /\ IsContent(g) => c \in closing

\* No frame of channel n among those from i to j; i and j with none of theirs between.
Free(s, n, i, j) == \A k \in i .. j : s[k].chan # n
Neighbours(s, i, j) == i < j /\ s[i].chan = s[j].chan /\ Free(s, s[i].chan, i + 1, j - 1)

LineFollows(c) ==
    LET s == Line(c) IN
    \A i, j \in DOMAIN s : Neighbours(s, i, j) /\ s[i].chan # 0 => Follows(c, s[i], s[j])

LinePrepared(c) ==
    LET s == Line(c) IN
    \A j \in DOMAIN s : s[j].chan # 0 /\ Free(s, s[j].chan, 1, j - 1)
                            => Prepared(c, s[j].chan, s[j])

LineContinued(c) ==
    LET s == Line(c) IN
    c \notin closing =>
        /\ \A i \in DOMAIN s : s[i].chan # 0 /\ Free(s, s[i].chan, i + 1, Len(s))
                                   => Follows(c, s[i], Upcoming(c, s[i].chan))
        /\ \A n \in Channels : Free(s, n, 1, Len(s)) => Prepared(c, n, Upcoming(c, n))

\* Publications are numbered in their order.
LineOrdered(c) ==
    LET s == Line(c) IN
    \A j \in DOMAIN s : s[j].method = "BASIC_PUBLISH" =>
        LET n == s[j].chan IN
        /\ \A i \in 1 .. j - 1 : Numbered(s[i]) /\ s[i].chan = n => s[i].id < s[j].id
        /\ Newer(c, n, s[j].id)
        /\ ChanOf(c, n).state = "WAITING_BODY" => ChanOf(c, n).message.id < s[j].id

LineValid(c) == \A i \in DOMAIN Line(c) : Valid(c, Line(c)[i])

\* What a client still has to send on a channel is the rest of a publication.
RestOK(c, n, p) ==
    /\ \A i \in DOMAIN p : p[i].chan = n /\ IsContent(p[i]) /\ Valid(c, p[i])
    /\ \A i \in 1 .. Len(p) - 1 : Follows(c, p[i], p[i + 1])
    /\ p # <<>> => ~Unfinished(c, p[Len(p)])

PendingOK(c) == \A n \in Channels : RestOK(c, n, pending[c][n])

StoredOK(c) ==
    \A i \in DOMAIN stored[c] :
        LET s == stored[c][i]
            p == published[c][s.id]
        IN  /\ s.id \in DOMAIN published[c]
            /\ s.chan = p.chan /\ s.exchange = p.exchange
            /\ s.content = Parts(s.id, Size(c, s.id))
            /\ \A j \in 1 .. i - 1 : stored[c][j].chan = s.chan => stored[c][j].id < s.id

Greeting(c) == parser_state[c] = "WAITING_PROTOCOL_HEADER" => buffer[c] = <<>>

ContentOf(c) ==
    /\ LineFollows(c) /\ LinePrepared(c) /\ LineContinued(c) /\ LineOrdered(c)
    /\ LineValid(c) /\ PendingOK(c) /\ StoredOK(c) /\ Greeting(c)

ContentInv == \A c \in Conns : ContentOf(c)

-----------------------------------------------------------------------------
(* What later publications and a closing transport leave true *)

Grows(c) ==
    /\ DOMAIN published[c] \subseteq DOMAIN published'[c]
    /\ \A id \in DOMAIN published[c] : published'[c][id] = published[c][id]
    /\ c \in closing => c \in closing'

LEMMA ValidKept ==
    ASSUME NEW c, NEW f, Grows(c), Valid(c, f)
    PROVE  /\ Valid(c, f)'
           /\ Numbered(f) => Size(c, f.id)' = Size(c, f.id)
<1>1. Numbered(f) => /\ f.id \in DOMAIN published'[c]
                     /\ published'[c][f.id] = published[c][f.id]
  BY DEF Grows, Valid
<1>2. Numbered(f) => Size(c, f.id)' = Size(c, f.id)
  BY <1>1 DEF Size
<1> QED BY <1>1, <1>2 DEF Valid, Numbered

LEMMA FollowsKept ==
    ASSUME NEW c, NEW f, NEW g, Grows(c), Valid(c, f), Follows(c, f, g)
    PROVE  Follows(c, f, g)'
<1>1. Numbered(f) => Size(c, f.id)' = Size(c, f.id)
  BY ValidKept
<1>2. Unfinished(c, f)' <=> Unfinished(c, f)
  BY <1>1 DEF Unfinished, Numbered
<1>3. IsContent(g)' <=> IsContent(g)
  BY DEF IsContent
<1> QED BY <1>2, <1>3 DEF Follows

\* The message under assembly, if any, is one of the client's.
LEMMA ChanOfTyped ==
    ASSUME ChannelsOK, NEW c \in Conns, NEW n
    PROVE  /\ ChanOf(c, n) \in Channel
           /\ ChanOf(c, n).state = "WAITING_BODY" =>
                 /\ ChanOf(c, n).message \in Message
                 /\ ChanOf(c, n).message.id \in DOMAIN published[c]
<1>1. NewChannel \in Channel /\ NewChannel.state # "WAITING_BODY"
  BY DEF NewChannel, Channel, ChannelState
<1> QED BY <1>1 DEF ChanOf, ChannelsOK, IsDict, UnderWay

LEMMA PreparedKept ==
    ASSUME ChannelsOK, NEW c \in Conns, NEW n, NEW g, Grows(c), Valid(c, g),
           ChanOf(c, n)' = ChanOf(c, n), Newer(c, n, g.id) => Newer(c, n, g.id)',
           Prepared(c, n, g)
    PROVE  Prepared(c, n, g)'
<1> DEFINE ch == ChanOf(c, n)
<1>1. ch.state = "WAITING_HEADER" =>
          /\ g.method = "HEADER"
          /\ (published[c][g.id].exchange = ch.exchange)'
          /\ Newer(c, n, g.id)'
  BY DEF Prepared, Grows, Valid, Numbered
<1>2. ch.state = "WAITING_BODY" /\ Stuck(c, ch.message) => Stuck(c, ch.message)'
  BY ChanOfTyped DEF Stuck, Size, Grows
<1>3. ch.state = "WAITING_BODY" /\ ~Stuck(c, ch.message) =>
          /\ g.method = "BODY" /\ g.id = ch.message.id
          /\ ch.message.content = Parts(g.id, g.part - 1)
          /\ (published[c][g.id].exchange = ch.exchange)'
          /\ Newer(c, n, g.id)'
  BY DEF Prepared, Grows, Valid, Numbered
<1>4. ch.state \in {"WAITING_OPEN", "OPENED"} /\ IsContent(g) => c \in closing'
  BY DEF Prepared, Grows
<1>5. ch' = ch
  OBVIOUS
<1> HIDE DEF ch
<1>6. LET h == ch' IN
      /\ h.state = "WAITING_HEADER" =>
          /\ g.method = "HEADER"
          /\ (published[c][g.id].exchange)' = h.exchange
          /\ Newer(c, n, g.id)'
      /\ h.state = "WAITING_BODY" =>
          \/ Stuck(c, ch.message)'
          \/ /\ g.method = "BODY" /\ g.id = h.message.id
             /\ h.message.content = Parts(g.id, g.part - 1)
             /\ (published[c][g.id].exchange)' = h.exchange
             /\ Newer(c, n, g.id)'
      /\ h.state \in {"WAITING_OPEN", "OPENED"} /\ IsContent(g) => c \in closing'
  BY <1>1, <1>2, <1>3, <1>4, <1>5
<1> QED BY <1>6 DEF Prepared, ch, Parts, IsContent

-----------------------------------------------------------------------------
(* The line *)

LEMMA LineTyped == ASSUME FramesOK, NEW c \in Conns PROVE Line(c) \in Seq(Frame)
BY ConcatProperties DEF FramesOK, Line

\* The frames of a channel, where the first of the line has been taken.
LEMMA TailNeighbours ==
    ASSUME NEW S, NEW s \in Seq(S), s # <<>>, NEW t, t = Tail(s)
    PROVE  /\ Len(t) \in Nat /\ Len(s) = Len(t) + 1
           /\ DOMAIN t = 1 .. Len(t) /\ DOMAIN s = 1 .. Len(s)
           /\ \A i \in 1 .. Len(t) : t[i] = s[i + 1]
           /\ \A n, i, j : i \in 1 .. Len(t) + 1 /\ j \in 0 .. Len(t) /\ Free(t, n, i, j)
                             => Free(s, n, i + 1, j + 1)
           /\ \A i, j \in 1 .. Len(t) : Neighbours(t, i, j) => Neighbours(s, i + 1, j + 1)
<1>1. /\ t \in Seq(S) /\ Len(s) \in Nat /\ Len(t) = Len(s) - 1 /\ Len(t) \in Nat
      /\ \A i \in 1 .. Len(t) : t[i] = s[i + 1]
  BY HeadTailProperties, LenProperties, EmptySeq
<1>2. DOMAIN t = 1 .. Len(t) /\ DOMAIN s = 1 .. Len(s)
  BY <1>1, LenProperties
<1>3. ASSUME NEW n, NEW i \in 1 .. Len(t) + 1, NEW j \in 0 .. Len(t), Free(t, n, i, j)
      PROVE  Free(s, n, i + 1, j + 1)
  <2> SUFFICES ASSUME NEW k \in i + 1 .. j + 1 PROVE s[k].chan # n
    BY DEF Free
  <2>1. k - 1 \in i .. j /\ k - 1 \in 1 .. Len(t) /\ s[(k - 1) + 1] = s[k]
    BY <1>1
  <2> QED BY <1>1, <1>3, <2>1 DEF Free
<1>4. ASSUME NEW i \in 1 .. Len(t), NEW j \in 1 .. Len(t), Neighbours(t, i, j)
      PROVE  Neighbours(s, i + 1, j + 1)
  <2>1. /\ i < j /\ t[i].chan = t[j].chan /\ Free(t, t[i].chan, i + 1, j - 1)
        /\ t[i] = s[i + 1] /\ t[j] = s[j + 1]
    BY <1>1, <1>4 DEF Neighbours
  <2>2. i + 1 \in 1 .. Len(t) + 1 /\ j - 1 \in 0 .. Len(t)
    BY <1>1
  <2>3. Free(s, s[i + 1].chan, (i + 1) + 1, (j - 1) + 1)
    BY <1>3, <2>1, <2>2
  <2>4. (j - 1) + 1 = (j + 1) - 1
    OBVIOUS
  <2> QED BY <2>1, <2>3, <2>4 DEF Neighbours
<1> QED BY <1>1, <1>2, <1>3, <1>4

\* The frames of a channel, where one has been added to the line.
LEMMA AppendNeighbours ==
    ASSUME NEW S, NEW s \in Seq(S), NEW f \in S, NEW t, t = Append(s, f)
    PROVE  /\ Len(s) \in Nat /\ Len(t) = Len(s) + 1
           /\ DOMAIN t = 1 .. Len(s) + 1 /\ DOMAIN s = 1 .. Len(s)
           /\ t[Len(s) + 1] = f
           /\ \A i \in 1 .. Len(s) : t[i] = s[i]
           /\ \A i, j \in 1 .. Len(s) : Neighbours(t, i, j) => Neighbours(s, i, j)
<1>1. /\ Len(s) \in Nat /\ Len(t) = Len(s) + 1 /\ t \in Seq(S)
      /\ t[Len(s) + 1] = f
      /\ \A i \in 1 .. Len(s) : t[i] = s[i]
  BY AppendProperties, LenProperties
<1>2. DOMAIN t = 1 .. Len(s) + 1 /\ DOMAIN s = 1 .. Len(s)
  BY <1>1, LenProperties
<1>3. ASSUME NEW n, NEW i \in 1 .. Len(s) + 1, NEW j \in 0 .. Len(s)
      PROVE  Free(t, n, i, j) <=> Free(s, n, i, j)
  <2>1. \A k \in i .. j : k \in 1 .. Len(s)
    BY <1>1
  <2> QED BY <1>1, <2>1 DEF Free
<1>4. ASSUME NEW i \in 1 .. Len(s), NEW j \in 1 .. Len(s), Neighbours(t, i, j)
      PROVE  Neighbours(s, i, j)
  <2>1. i + 1 \in 1 .. Len(s) + 1 /\ j - 1 \in 0 .. Len(s)
    BY <1>1
  <2> QED BY <1>1, <1>3, <1>4, <2>1 DEF Neighbours
<1> QED BY <1>1, <1>2, <1>3, <1>4

\* The line after its first frame f has been treated: the frame behind it on its
\* channel is what the new state of the channel requires.
Advances(c, f) ==
    f.chan # 0 =>
        /\ \A g : Follows(c, f, g) => Prepared(c, f.chan, g)'
        /\ \A g : /\ g.method = "BASIC_PUBLISH" /\ g.chan = f.chan
                  /\ Numbered(f) => f.id < g.id
                  /\ Newer(c, f.chan, g.id)
                  /\ ChanOf(c, f.chan).state = "WAITING_BODY" =>
                        ChanOf(c, f.chan).message.id < g.id
                  => /\ Newer(c, f.chan, g.id)'
                     /\ (ChanOf(c, f.chan).state = "WAITING_BODY" =>
                            ChanOf(c, f.chan).message.id < g.id)'

OtherChannels(c, m) ==
    \A n \in Channels \ {m} :
        /\ ChanOf(c, n)' = ChanOf(c, n)
        /\ \A id : Newer(c, n, id) => Newer(c, n, id)'

LineInv(c) ==
    /\ LineFollows(c) /\ LinePrepared(c) /\ LineContinued(c) /\ LineOrdered(c)
    /\ LineValid(c)

LEMMA UpcomingValid ==
    ASSUME FramesOK, NEW c \in Conns, PendingOK(c), NEW n \in Channels
    PROVE  Valid(c, Upcoming(c, n))
<1>1. CASE pending[c][n] = <<>>
  BY <1>1 DEF Upcoming, NoFrame, Valid, Numbered
<1>2. CASE pending[c][n] # <<>>
  <2>1. pending[c][n] \in Seq(HeaderFrame \cup BodyFrame)
    BY DEF FramesOK
  <2>2. 1 \in DOMAIN pending[c][n] /\ Head(pending[c][n]) = pending[c][n][1]
    BY <1>2, <2>1
  <2> QED BY <1>2, <2>2 DEF Upcoming, PendingOK, RestOK
<1> QED BY <1>1, <1>2

LEMMA LineTaken ==
    ASSUME FramesOK, ChannelsOK, NEW c \in Conns, LineInv(c), PendingOK(c), Grows(c),
           NEW f, Line(c) # <<>>, f = Head(Line(c)), Line(c)' = Tail(Line(c)),
           UNCHANGED pending[c], OtherChannels(c, f.chan), Advances(c, f)
    PROVE  LineInv(c)'
<1> PICK s, t : s = Line(c) /\ t = Line(c)'
  OBVIOUS
<1> DEFINE N == Len(t)
<1>0. s \in Seq(Frame) /\ s # <<>> /\ t = Tail(s) /\ f = Head(s)
  BY LineTyped
<1>1. /\ N \in Nat /\ Len(s) = N + 1
      /\ DOMAIN t = 1 .. N /\ DOMAIN s = 1 .. N + 1
      /\ \A i \in 1 .. N : t[i] = s[i + 1]
  BY <1>0, TailNeighbours
<1>2. \A n, i, j : i \in 1 .. N + 1 /\ j \in 0 .. N /\ Free(t, n, i, j)
                             => Free(s, n, i + 1, j + 1)
  BY <1>0, TailNeighbours
<1>3. \A i, j \in 1 .. N : Neighbours(t, i, j) => Neighbours(s, i + 1, j + 1)
  BY <1>0, TailNeighbours
<1>4. f = s[1] /\ f \in Frame /\ 1 \in DOMAIN s
  BY <1>0, <1>1, HeadTailProperties
<1>5. \A i \in 1 .. N : /\ Valid(c, t[i]) /\ Valid(c, t[i])'
                        /\ t[i] \in Frame /\ t[i].chan \in Channels \cup {0}
  <2> SUFFICES ASSUME NEW i \in 1 .. N
               PROVE  /\ Valid(c, t[i]) /\ Valid(c, t[i])'
                      /\ t[i] \in Frame /\ t[i].chan \in Channels \cup {0}
    OBVIOUS
  <2>1. i + 1 \in DOMAIN s /\ t[i] = s[i + 1]
    BY <1>1
  <2>2. Valid(c, s[i + 1]) /\ s[i + 1] \in Frame
    BY <1>0, <1>1, <2>1, ElementOfSeq DEF LineInv, LineValid
  <2>3. s[i + 1].chan \in Channels \cup {0}
    BY <2>2, FrameFields
  <2>4. Valid(c, s[i + 1])'
    BY <2>2, ValidKept
  <2> QED BY <2>1, <2>2, <2>3, <2>4
<1>6. LineValid(c)'
  BY <1>1, <1>5 DEF LineValid
<1>7. LineFollows(c)'
  <2> SUFFICES ASSUME NEW i \in 1 .. N, NEW j \in 1 .. N, Neighbours(t, i, j), t[i].chan # 0
               PROVE  Follows(c, t[i], t[j])'
    BY <1>1 DEF LineFollows
  <2>1. Neighbours(s, i + 1, j + 1) /\ i + 1 \in DOMAIN s /\ j + 1 \in DOMAIN s
    BY <1>1, <1>3
  <2>2. t[i] = s[i + 1] /\ t[j] = s[j + 1]
    BY <1>1
  <2>3. Follows(c, t[i], t[j])
    BY <2>1, <2>2 DEF LineInv, LineFollows
  <2> QED BY <1>5, <2>3, FollowsKept
<1>8. ASSUME NEW n \in Channels, n # f.chan, NEW g, Valid(c, g), Prepared(c, n, g)
      PROVE  Prepared(c, n, g)'
  BY <1>8, PreparedKept DEF OtherChannels
<1>9. LinePrepared(c)'
  <2> SUFFICES ASSUME NEW j \in 1 .. N, t[j].chan # 0, Free(t, t[j].chan, 1, j - 1)
               PROVE  Prepared(c, t[j].chan, t[j])'
    BY <1>1 DEF LinePrepared
  <2> DEFINE n == t[j].chan
  <2>1. /\ j + 1 \in DOMAIN s /\ t[j] = s[j + 1] /\ n \in Channels /\ n # 0
        /\ Free(s, n, 2, j)
    <3>1. 1 \in 1 .. N + 1 /\ j - 1 \in 0 .. N /\ (j - 1) + 1 = j /\ 1 + 1 = 2
      BY <1>1
    <3>2. Free(s, n, 1 + 1, (j - 1) + 1)
      BY <1>2, <3>1
    <3> QED BY <1>1, <1>5, <3>1, <3>2
  <2>2. CASE f.chan # n
    <3>1. Free(s, n, 1, (j + 1) - 1)
      <4>1. \A k \in 1 .. (j + 1) - 1 : k = 1 \/ k \in 2 .. j
        OBVIOUS
      <4> QED BY <1>4, <2>1, <2>2, <4>1 DEF Free
    <3>2. Prepared(c, n, s[j + 1])
      BY <2>1, <3>1 DEF LineInv, LinePrepared
    <3>3. Valid(c, t[j]) /\ Prepared(c, n, t[j])
      BY <1>5, <2>1, <3>2
    <3> QED BY <1>8, <2>1, <2>2, <3>3
  <2>3. CASE f.chan = n
    <3>1. Neighbours(s, 1, j + 1)
      <4>1. (j + 1) - 1 = j /\ 1 + 1 = 2 /\ 1 < j + 1
        OBVIOUS
      <4> QED BY <1>4, <2>1, <2>3, <4>1 DEF Neighbours
    <3>2. Follows(c, s[1], s[j + 1])
      BY <1>4, <2>1, <2>3, <3>1 DEF LineInv, LineFollows
    <3> QED BY <1>4, <2>1, <2>3, <3>2 DEF Advances
  <2> QED BY <2>2, <2>3
<1>10. LineOrdered(c)'
  <2> SUFFICES ASSUME NEW j \in 1 .. N, t[j].method = "BASIC_PUBLISH"
               PROVE  /\ \A i \in 1 .. j - 1 : Numbered(t[i]) /\ t[i].chan = t[j].chan
                                                  => t[i].id < t[j].id
                      /\ Newer(c, t[j].chan, t[j].id)'
                      /\ (ChanOf(c, t[j].chan).state = "WAITING_BODY" =>
                             ChanOf(c, t[j].chan).message.id < t[j].id)'
    BY <1>1 DEF LineOrdered, Numbered
  <2> DEFINE g == t[j]
             n == g.chan
  <2>1. j + 1 \in DOMAIN s /\ g = s[j + 1] /\ n \in Channels /\ n # 0
    <3>1. g \in PublishFrame
      BY <1>5, SMTT(60) DEF Frame, ConnectionFrame, ChannelFrame, HeaderFrame, BodyFrame, ProtocolHeader
    <3> QED BY <1>1, <3>1, TrackerAssumption DEF PublishFrame
  <2>2. /\ \A i \in 1 .. j : Numbered(s[i]) /\ s[i].chan = n => s[i].id < g.id
        /\ Newer(c, n, g.id)
        /\ ChanOf(c, n).state = "WAITING_BODY" => ChanOf(c, n).message.id < g.id
    <3>1. (j + 1) - 1 = j
      OBVIOUS
    <3> QED BY <2>1, <3>1 DEF LineInv, LineOrdered
  <2>3. \A i \in 1 .. j - 1 : i + 1 \in 1 .. j /\ t[i] = s[i + 1]
    BY <1>1
  <2>4. \A i \in 1 .. j - 1 : Numbered(t[i]) /\ t[i].chan = n => t[i].id < g.id
    BY <2>2, <2>3
  <2>5. CASE n # f.chan
    <3> HIDE DEF g
    <3> QED BY <2>1, <2>2, <2>4, <2>5 DEF OtherChannels, g
  <2>6. CASE n = f.chan
    <3>1. Numbered(f) => f.id < g.id
      <4>1. 1 \in 1 .. j /\ s[1] = f /\ s[1].chan = n
        BY <1>4, <2>6
      <4> HIDE DEF g, n
      <4> QED BY <2>2, <4>1
    <3> QED BY <2>1, <2>2, <2>4, <2>6, <3>1 DEF Advances
  <2> QED BY <2>5, <2>6
<1>11. LineContinued(c)'
  <2> SUFFICES ASSUME c \notin closing'
               PROVE  /\ \A i \in 1 .. N : t[i].chan # 0 /\ Free(t, t[i].chan, i + 1, N)
                                   => Follows(c, t[i], Upcoming(c, t[i].chan))'
                      /\ \A n \in Channels : Free(t, n, 1, N) => Prepared(c, n, Upcoming(c, n))'
    BY <1>1 DEF LineContinued
  <2>0. /\ c \notin closing
        /\ \A n : Upcoming(c, n)' = Upcoming(c, n)
    BY DEF Grows, Upcoming
  <2>1. ASSUME NEW i \in 1 .. N, t[i].chan # 0, Free(t, t[i].chan, i + 1, N)
        PROVE  Follows(c, t[i], Upcoming(c, t[i].chan))'
    <3>1. Free(s, t[i].chan, (i + 1) + 1, N + 1)
      BY <1>1, <1>2, <2>1
    <3>2. t[i] = s[i + 1] /\ i + 1 \in DOMAIN s
      BY <1>1
    <3>3. Follows(c, s[i + 1], Upcoming(c, s[i + 1].chan))
      BY <1>1, <2>0, <2>1, <3>1, <3>2 DEF LineInv, LineContinued
    <3> PICK u : u = Upcoming(c, t[i].chan)
      OBVIOUS
    <3>4. Follows(c, t[i], u)'
      BY <1>5, <3>2, <3>3, FollowsKept
    <3> QED BY <2>0, <3>4
  <2>2. ASSUME NEW n \in Channels, Free(t, n, 1, N)
        PROVE  Prepared(c, n, Upcoming(c, n))'
    <3> PICK u : u = Upcoming(c, n)
      OBVIOUS
    <3>0. Valid(c, u)
      BY UpcomingValid
    <3>1. Free(s, n, 2, N + 1) /\ n # 0
      <4>1. Free(s, n, 1 + 1, N + 1)
        BY <1>1, <1>2, <2>2
      <4> QED BY <4>1, TrackerAssumption
    <3>2. CASE f.chan # n
      <4>1. Free(s, n, 1, Len(s))
        <5>1. \A k \in 1 .. Len(s) : k = 1 \/ k \in 2 .. N + 1
          BY <1>1
        <5> QED BY <1>4, <3>1, <3>2, <5>1 DEF Free
      <4>2. Prepared(c, n, u)
        BY <2>0, <4>1 DEF LineInv, LineContinued
      <4>3. Prepared(c, n, u)'
        BY <1>8, <3>0, <3>2, <4>2
      <4> QED BY <2>0, <4>3
    <3>3. CASE f.chan = n
      <4>1. Follows(c, s[1], u)
        <5>1. Free(s, s[1].chan, 1 + 1, Len(s)) /\ s[1].chan # 0
          BY <1>1, <1>4, <3>1, <3>3
        <5> QED BY <1>4, <2>0, <3>3, <5>1 DEF LineInv, LineContinued
      <4>2. Prepared(c, n, u)'
        BY <1>4, <3>1, <3>3, <4>1 DEF Advances
      <4> QED BY <2>0, <4>2
    <3> QED BY <3>2, <3>3
  <2> QED BY <2>1, <2>2
<1> QED BY <1>6, <1>7, <1>9, <1>10, <1>11 DEF LineInv

\* The line of a connection no frame of which is treated or sent.
LEMMA LineKept ==
    ASSUME FramesOK, ChannelsOK, NEW c \in Conns, LineInv(c), PendingOK(c), Grows(c),
           Line(c)' = Line(c),
           UNCHANGED <<pending[c], channels[c], stored[c]>>
    PROVE  LineInv(c)'
<1> PICK s : s = Line(c)
  OBVIOUS
<1>0. s = Line(c)' /\ \A i \in DOMAIN s : Valid(c, s[i]) /\ Valid(c, s[i])'
  BY ValidKept DEF LineInv, LineValid
<1>1. \A n, id : Newer(c, n, id)' <=> Newer(c, n, id)
  BY DEF Newer
<1>2. \A n : ChanOf(c, n)' = ChanOf(c, n) /\ Upcoming(c, n)' = Upcoming(c, n)
  BY DEF ChanOf, Upcoming
<1>3. \A n, g : Valid(c, g) /\ Prepared(c, n, g) => Prepared(c, n, g)'
  BY <1>1, <1>2, PreparedKept
<1>4. \A n : Valid(c, Upcoming(c, n)) \/ n \notin Channels
  BY UpcomingValid
<1>5. LineFollows(c)'
  BY <1>0, FollowsKept DEF LineInv, LineFollows
<1>6. LinePrepared(c)'
  BY <1>0, <1>3 DEF LineInv, LinePrepared
<1>7. LineContinued(c)'
  <2> SUFFICES ASSUME c \notin closing'
               PROVE  /\ \A i \in DOMAIN s : s[i].chan # 0 /\ Free(s, s[i].chan, i + 1, Len(s))
                                   => Follows(c, s[i], Upcoming(c, s[i].chan))'
                      /\ \A n \in Channels : Free(s, n, 1, Len(s))
                                                => Prepared(c, n, Upcoming(c, n))'
    BY <1>0 DEF LineContinued
  <2>0. c \notin closing
    BY DEF Grows
  <2>1. ASSUME NEW i \in DOMAIN s, s[i].chan # 0, Free(s, s[i].chan, i + 1, Len(s))
        PROVE  Follows(c, s[i], Upcoming(c, s[i].chan))'
    <3> PICK u : u = Upcoming(c, s[i].chan)
      OBVIOUS
    <3>1. Follows(c, s[i], u)
      BY <2>0, <2>1 DEF LineInv, LineContinued
    <3>2. Follows(c, s[i], u)'
      BY <1>0, <3>1, FollowsKept
    <3> QED BY <1>2, <3>2
  <2>2. ASSUME NEW n \in Channels, Free(s, n, 1, Len(s)) PROVE Prepared(c, n, Upcoming(c, n))'
    <3> PICK u : u = Upcoming(c, n)
      OBVIOUS
    <3>1. Prepared(c, n, u) /\ Valid(c, u)
      BY <1>4, <2>0, <2>2 DEF LineInv, LineContinued
    <3>2. Prepared(c, n, u)'
      BY <1>3, <3>1
    <3> QED BY <1>2, <3>2
  <2> QED BY <2>1, <2>2
<1>8. LineOrdered(c)'
  BY <1>0, <1>1, <1>2 DEF LineInv, LineOrdered, Numbered
<1>9. LineValid(c)'
  BY <1>0 DEF LineValid
<1> QED BY <1>5, <1>6, <1>7, <1>8, <1>9 DEF LineInv

\* A frame f sent behind the others of its channel, and what is left to send.
LEMMA LineSent ==
    ASSUME FramesOK, ChannelsOK, NEW c \in Conns, LineInv(c), StoredOK(c), PendingOK(c),
           Grows(c), c \notin closing, NEW f \in Frame, Line(c)' = Append(Line(c), f),
           UNCHANGED <<channels[c], stored[c]>>,
           \A n \in Channels \ {f.chan} : pending'[c][n] = pending[c][n],
           Valid(c, f)',
           f.chan # 0 =>
               /\ \A h : Valid(c, h) /\ Follows(c, h, Upcoming(c, f.chan)) => Follows(c, h, f)
               /\ Prepared(c, f.chan, Upcoming(c, f.chan)) => Prepared(c, f.chan, f)'
               /\ Follows(c, f, Upcoming(c, f.chan))',
           f.method = "BASIC_PUBLISH" => \A id \in DOMAIN published[c] : id < f.id
    PROVE  LineInv(c)'
<1> PICK s, t : s = Line(c) /\ t = Line(c)'
  OBVIOUS
<1> DEFINE N == Len(s)
<1>0. s \in Seq(Frame) /\ t = Append(s, f)
  BY LineTyped
<1>1. /\ N \in Nat /\ Len(t) = N + 1
      /\ DOMAIN t = 1 .. N + 1 /\ DOMAIN s = 1 .. N
      /\ t[N + 1] = f
      /\ \A i \in 1 .. N : t[i] = s[i]
  BY <1>0, AppendNeighbours
<1>2. ASSUME NEW n, NEW i \in 1 .. N + 1, NEW j \in 0 .. N
      PROVE  Free(t, n, i, j) <=> Free(s, n, i, j)
  <2>1. \A k \in i .. j : k \in 1 .. N
    BY <1>1
  <2> QED BY <1>1, <2>1 DEF Free
<1>3. \A i, j \in 1 .. N : Neighbours(t, i, j) => Neighbours(s, i, j)
  BY <1>0, AppendNeighbours
<1>4. \A i \in 1 .. N : /\ Valid(c, s[i]) /\ Valid(c, s[i])'
                        /\ s[i] \in Frame /\ s[i].chan \in Channels \cup {0}
  <2> SUFFICES ASSUME NEW i \in 1 .. N
               PROVE  /\ Valid(c, s[i]) /\ Valid(c, s[i])'
                      /\ s[i] \in Frame /\ s[i].chan \in Channels \cup {0}
    OBVIOUS
  <2>1. Valid(c, s[i]) /\ s[i] \in Frame
    BY <1>0, <1>1, ElementOfSeq DEF LineInv, LineValid
  <2> QED BY <2>1, ValidKept, FrameFields
<1>5. \A n, id : Newer(c, n, id)' <=> Newer(c, n, id)
  BY DEF Newer
<1>6. \A n : ChanOf(c, n)' = ChanOf(c, n)
  BY DEF ChanOf
<1>7. \A n \in Channels \ {f.chan} : Upcoming(c, n)' = Upcoming(c, n)
  BY DEF Upcoming
<1>8. \A n, g : Valid(c, g) /\ Prepared(c, n, g) => Prepared(c, n, g)'
  BY <1>5, <1>6, PreparedKept
<1>9. \A i \in 1 .. N + 1 : i \in 1 .. N \/ i = N + 1
  BY <1>1
<1>10. LineValid(c)'
  BY <1>1, <1>4, <1>9 DEF LineValid
<1>11. ASSUME NEW i \in 1 .. N, s[i].chan # 0, Free(s, s[i].chan, i + 1, N)
       PROVE  Follows(c, s[i], Upcoming(c, s[i].chan))
  BY <1>1, <1>11 DEF LineInv, LineContinued
<1>12. LineFollows(c)'
  <2> SUFFICES ASSUME NEW i \in 1 .. N + 1, NEW j \in 1 .. N + 1, Neighbours(t, i, j),
                      t[i].chan # 0
               PROVE  Follows(c, t[i], t[j])'
    BY <1>1 DEF LineFollows
  <2>1. i \in 1 .. N /\ t[i] = s[i]
    BY <1>1 DEF Neighbours
  <2>2. Follows(c, s[i], t[j])
    <3>1. CASE j \in 1 .. N
      BY <1>1, <1>3, <2>1, <3>1 DEF LineInv, LineFollows
    <3>2. CASE j = N + 1
      <4>1. Free(s, s[i].chan, i + 1, N) /\ s[i].chan = f.chan
        <5>1. Free(t, s[i].chan, i + 1, (N + 1) - 1) /\ s[i].chan = t[N + 1].chan
          BY <2>1, <3>2 DEF Neighbours
        <5>2. i + 1 \in 1 .. N + 1 /\ N \in 0 .. N /\ (N + 1) - 1 = N
          BY <1>1, <2>1
        <5> QED BY <1>1, <1>2, <5>1, <5>2
      <4> QED BY <1>1, <1>4, <1>11, <2>1, <3>2, <4>1
    <3> QED BY <1>9, <3>1, <3>2
  <2> QED BY <1>4, <2>1, <2>2, FollowsKept
<1>13. ASSUME NEW n \in Channels, Free(s, n, 1, N)
       PROVE  Prepared(c, n, Upcoming(c, n))
  BY <1>13 DEF LineInv, LineContinued
<1>14. LinePrepared(c)'
  <2> SUFFICES ASSUME NEW j \in 1 .. N + 1, t[j].chan # 0, Free(t, t[j].chan, 1, j - 1)
               PROVE  Prepared(c, t[j].chan, t[j])'
    BY <1>1 DEF LinePrepared
  <2>1. Free(s, t[j].chan, 1, j - 1)
    <3>1. 1 \in 1 .. N + 1 /\ j - 1 \in 0 .. N
      BY <1>1
    <3> QED BY <1>2, <3>1
  <2>2. CASE j \in 1 .. N
    <3>1. Prepared(c, s[j].chan, s[j])
      BY <1>1, <2>1, <2>2 DEF LineInv, LinePrepared
    <3> QED BY <1>1, <1>4, <1>8, <2>2, <3>1
  <2>3. CASE j = N + 1
    <3>1. f.chan \in Channels /\ Free(s, f.chan, 1, N)
      <4>1. (N + 1) - 1 = N
        BY <1>1
      <4> QED BY <1>1, <2>1, <2>3, <4>1, FrameFields
    <3> QED BY <1>1, <1>13, <2>3, <3>1
  <2> QED BY <1>9, <2>2, <2>3
<1>15. LineOrdered(c)'
  <2> SUFFICES ASSUME NEW j \in 1 .. N + 1, t[j].method = "BASIC_PUBLISH"
               PROVE  /\ \A i \in 1 .. j - 1 : Numbered(t[i]) /\ t[i].chan = t[j].chan
                                                  => t[i].id < t[j].id
                      /\ Newer(c, t[j].chan, t[j].id)
                      /\ ChanOf(c, t[j].chan).state = "WAITING_BODY" =>
                             ChanOf(c, t[j].chan).message.id < t[j].id
    BY <1>1, <1>5, <1>6, ZenonT(60) DEF LineOrdered, Numbered
  <2>1. CASE j \in 1 .. N
    <3>1. \A i \in 1 .. j - 1 : t[i] = s[i]
      BY <1>1, <2>1
    <3>2. t[j] = s[j] /\ j \in DOMAIN s
      BY <1>1, <2>1
    <3> QED BY <3>1, <3>2 DEF LineInv, LineOrdered
  <2>2. CASE j = N + 1
    <3>1. t[j] = f /\ f.method = "BASIC_PUBLISH"
      BY <1>1, <2>2
    <3>2. ASSUME NEW i \in 1 .. j - 1, Numbered(t[i]) PROVE t[i].id < f.id
      <4>1. i \in 1 .. N /\ t[i] = s[i]
        BY <1>1, <2>2
      <4>2. t[i].id \in DOMAIN published[c]
        BY <1>4, <3>2, <4>1 DEF Valid
      <4> QED BY <3>1, <4>2
    <3>3. Newer(c, f.chan, f.id)
      BY <3>1 DEF Newer, StoredOK
    <3>4. ChanOf(c, f.chan).state = "WAITING_BODY" => ChanOf(c, f.chan).message.id < f.id
      BY <3>1, ChanOfTyped
    <3> QED BY <3>1, <3>2, <3>3, <3>4
  <2> QED BY <1>9, <2>1, <2>2
<1>16. LineContinued(c)'
  <2> SUFFICES
         /\ \A i \in 1 .. N + 1 : t[i].chan # 0 /\ Free(t, t[i].chan, i + 1, N + 1)
                                   => Follows(c, t[i], Upcoming(c, t[i].chan))'
         /\ \A n \in Channels : Free(t, n, 1, N + 1) => Prepared(c, n, Upcoming(c, n))'
    BY <1>1 DEF LineContinued
  <2>1. ASSUME NEW n, NEW i \in 1 .. N + 1, Free(t, n, i, N + 1)
        PROVE  n # f.chan /\ Free(s, n, i, N)
    <3>1. N + 1 \in i .. N + 1 /\ \A k \in i .. N : k \in i .. N + 1
      BY <1>1
    <3>2. n # f.chan /\ Free(t, n, i, N)
      BY <1>1, <2>1, <3>1 DEF Free
    <3>3. N \in 0 .. N
      BY <1>1
    <3> QED BY <1>2, <3>2, <3>3
  <2>2. ASSUME NEW i \in 1 .. N + 1, t[i].chan # 0, Free(t, t[i].chan, i + 1, N + 1)
        PROVE  Follows(c, t[i], Upcoming(c, t[i].chan))'
    <3>1. CASE i = N + 1
      BY <1>1, <2>2, <3>1
    <3>2. CASE i \in 1 .. N
      <4>1. t[i] = s[i] /\ i + 1 \in 1 .. N + 1
        BY <1>1, <3>2
      <4>2. s[i].chan # f.chan /\ Free(s, s[i].chan, i + 1, N)
        BY <2>1, <2>2, <4>1
      <4> PICK u : u = Upcoming(c, s[i].chan)
        OBVIOUS
      <4>3. Follows(c, s[i], u)
        BY <1>11, <2>2, <3>2, <4>1, <4>2
      <4>4. Follows(c, s[i], u)'
        BY <1>4, <3>2, <4>3, FollowsKept
      <4>5. Upcoming(c, s[i].chan)' = u
        BY <1>4, <1>7, <2>2, <3>2, <4>1, <4>2
      <4> QED BY <4>1, <4>4, <4>5
    <3> QED BY <1>9, <3>1, <3>2
  <2>3. ASSUME NEW n \in Channels, Free(t, n, 1, N + 1)
        PROVE  Prepared(c, n, Upcoming(c, n))'
    <3>1. n # f.chan /\ Free(s, n, 1, N)
      <4>1. 1 \in 1 .. N + 1
        BY <1>1
      <4> QED BY <2>1, <2>3, <4>1
    <3> PICK u : u = Upcoming(c, n)
      OBVIOUS
    <3>2. Prepared(c, n, u) /\ Valid(c, u)
      BY <1>13, <3>1, UpcomingValid
    <3>3. Prepared(c, n, u)'
      BY <1>8, <3>2
    <3> QED BY <1>7, <3>1, <3>3
  <2> QED BY <2>2, <2>3
<1> QED BY <1>10, <1>12, <1>14, <1>15, <1>16 DEF LineInv

-----------------------------------------------------------------------------
(* The frame under treatment *)

\* The conditions on the channel ch that the treatment of f leaves.
LEMMA AdvancesTo ==
    ASSUME NEW c, NEW f, NEW ch, ch = ChanOf(c, f.chan)', UNCHANGED published[c],
           f.method = "HEADER" => Size(c, f.id) \in Nat,
           ch.state \in {"WAITING_OPEN", "OPENED"} => c \in closing' \/ ~Unfinished(c, f),
           ch.state = "WAITING_HEADER" =>
               /\ f.method = "BASIC_PUBLISH" /\ published[c][f.id].exchange = ch.exchange
               /\ Newer(c, f.chan, f.id)',
           ch.state = "WAITING_BODY" =>
               /\ \/ Stuck(c, ch.message)'
                  \/ /\ IsContent(f) /\ Unfinished(c, f) /\ f.id = ch.message.id
                     /\ ch.message.content = Parts(f.id, IF f.method = "HEADER" THEN 0 ELSE f.part)
                     /\ f.method = "BODY" => f.part \in Nat
                     /\ published[c][f.id].exchange = ch.exchange
                     /\ Newer(c, f.chan, f.id)'
               /\ \/ Numbered(f) /\ f.id = ch.message.id
                  \/ /\ ChanOf(c, f.chan).state = "WAITING_BODY"
                     /\ ChanOf(c, f.chan).message.id = ch.message.id,
           \A id : /\ Newer(c, f.chan, id)
                   /\ ChanOf(c, f.chan).state = "WAITING_BODY" =>
                          ChanOf(c, f.chan).message.id < id
                   => Newer(c, f.chan, id)'
    PROVE  Advances(c, f)
<1>1. ASSUME NEW g, Follows(c, f, g) PROVE Prepared(c, f.chan, g)'
  <2>1. ASSUME ch.state = "WAITING_HEADER"
        PROVE  /\ g.method = "HEADER"
               /\ (published[c][g.id].exchange)' = ch.exchange
               /\ Newer(c, f.chan, g.id)'
    <3>1. g.method = "HEADER" /\ g.id = f.id
      BY <1>1, <2>1 DEF Follows, Unfinished
    <3> QED BY <2>1, <3>1
  <2>2. ASSUME ch.state = "WAITING_BODY", ~Stuck(c, ch.message)'
        PROVE  /\ g.method = "BODY" /\ g.id = ch.message.id
               /\ ch.message.content = Parts(g.id, g.part - 1)
               /\ (published[c][g.id].exchange)' = ch.exchange
               /\ Newer(c, f.chan, g.id)'
    <3>1. g.method = "BODY" /\ g.id = f.id
      BY <1>1, <2>2 DEF Follows, Unfinished, IsContent
    <3>2. g.part - 1 = IF f.method = "HEADER" THEN 0 ELSE f.part
      BY <1>1, <2>2 DEF Follows, Unfinished, IsContent
    <3> QED BY <2>2, <3>1, <3>2
  <2>3. ch.state \in {"WAITING_OPEN", "OPENED"} /\ IsContent(g) => c \in closing'
    BY <1>1 DEF Follows
  <2> QED BY <2>1, <2>2, <2>3 DEF Prepared, Parts, IsContent
<1>2. ASSUME NEW g, g.method = "BASIC_PUBLISH", g.chan = f.chan,
             Numbered(f) => f.id < g.id,
             Newer(c, f.chan, g.id),
             ChanOf(c, f.chan).state = "WAITING_BODY" =>
                   ChanOf(c, f.chan).message.id < g.id
      PROVE  /\ Newer(c, f.chan, g.id)'
             /\ (ChanOf(c, f.chan).state = "WAITING_BODY" =>
                    ChanOf(c, f.chan).message.id < g.id)'
  BY <1>2
<1> QED BY <1>1, <1>2 DEF Advances

\* The first of two parts gives way first.
LEMMA ConcatTail ==
    ASSUME NEW S, NEW b \in Seq(S), NEW a \in Seq(S), b # <<>>
    PROVE  /\ b \o a \in Seq(S) /\ b \o a # <<>>
           /\ Head(b \o a) = Head(b) /\ Tail(b \o a) = Tail(b) \o a
<1> PICK s \in Seq(S) : s = b \o a
  BY ConcatProperties
<1>1. Len(b) \in Nat \ {0} /\ Len(a) \in Nat /\ Len(s) = Len(b) + Len(a)
  BY LenProperties, EmptySeq, ConcatProperties
<1>2. \A i \in 1 .. Len(b) + Len(a) :
          s[i] = IF i <= Len(b) THEN b[i] ELSE a[i - Len(b)]
  BY ConcatProperties
<1>3. s # <<>> /\ Head(s) = s[1] /\ Head(b) = b[1]
  <2>1. s # <<>>
    BY <1>1, EmptySeq
  <2> QED BY <2>1, HeadTailProperties
<1>4. Head(s) = Head(b)
  <2>1. 1 \in 1 .. Len(b) + Len(a) /\ 1 <= Len(b)
    BY <1>1
  <2> QED BY <1>2, <1>3, <2>1
<1> PICK t \in Seq(S) : t = Tail(s)
  BY <1>3, HeadTailProperties
<1> PICK d \in Seq(S) : d = Tail(b)
  BY HeadTailProperties
<1> PICK u \in Seq(S) : u = d \o a
  BY ConcatProperties
<1>5. Len(t) = Len(s) - 1 /\ \A i \in 1 .. Len(t) : t[i] = s[i + 1]
  BY <1>3, HeadTailProperties
<1>6. Len(d) = Len(b) - 1 /\ \A i \in 1 .. Len(d) : d[i] = b[i + 1]
  BY HeadTailProperties
<1>7. /\ Len(u) = Len(d) + Len(a)
      /\ \A i \in 1 .. Len(d) + Len(a) : u[i] = IF i <= Len(d) THEN d[i] ELSE a[i - Len(d)]
  BY ConcatProperties
<1>8. Len(t) = Len(u) /\ Len(t) \in Nat /\ Len(d) \in Nat
  BY <1>1, <1>5, <1>6, <1>7
<1>9. ASSUME NEW i \in 1 .. Len(t) PROVE t[i] = u[i]
  <2>1. i \in Nat /\ i + 1 \in 1 .. Len(b) + Len(a) /\ i \in 1 .. Len(d) + Len(a)
    BY <1>1, <1>5, <1>7, <1>8
  <2>2. CASE i <= Len(d)
    <3>1. i + 1 <= Len(b) /\ i \in 1 .. Len(d)
      BY <1>1, <1>6, <1>8, <2>1, <2>2
    <3> QED BY <1>2, <1>5, <1>6, <1>7, <2>1, <2>2, <3>1
  <2>3. CASE ~(i <= Len(d))
    <3>1. ~(i + 1 <= Len(b)) /\ (i + 1) - Len(b) = i - Len(d)
      BY <1>1, <1>6, <1>8, <2>1, <2>3
    <3> QED BY <1>2, <1>5, <1>7, <2>1, <2>3, <3>1
  <2> QED BY <2>2, <2>3
<1>10. t = u
  BY <1>8, <1>9, SeqEqual
<1> QED BY <1>3, <1>4, <1>10

\* Taking a frame from the buffer (protocol.py:103-110) takes it from the line.
LEMMA TurnLine ==
    ASSUME FramesOK, NEW c \in Conns, Reading(c)
    PROVE  /\ Line(c) # <<>> /\ Head(Line(c)) = NextFrame(c)
           /\ Consume(c) /\ UNCHANGED arriving => Line(c)' = Tail(Line(c))
<1>1. buffer[c] \in Seq(Frame) /\ arriving[c] \in Seq(Frame) /\ buffer[c] # <<>>
  BY DEF FramesOK, Reading
<1>2. /\ Line(c) # <<>> /\ Head(Line(c)) = NextFrame(c)
      /\ Tail(Line(c)) = Tail(buffer[c]) \o arriving[c]
  BY <1>1, ConcatTail DEF Line, NextFrame
<1>3. Consume(c) => buffer'[c] = Tail(buffer[c])
  BY DEF Consume, FramesOK
<1> QED BY <1>2, <1>3 DEF Line

LEMMA SizeTyped ==
    ASSUME FramesOK, NEW c \in Conns, NEW id \in DOMAIN published[c]
    PROVE  Size(c, id) \in Nat /\ id \in Nat
<1>1. published[c] \in Seq(Publication)
  BY DEF FramesOK
<1>2. published[c][id] \in Publication /\ id \in Nat
  BY <1>1
<1> QED BY <1>2, TrackerAssumption DEF Size, Publication

\* The frame under treatment is what its channel is prepared for.
LEMMA TurnPrepared ==
    ASSUME FramesOK, ChannelsOK, NEW c \in Conns, LineInv(c), Reading(c),
           NEW f, f = NextFrame(c)
    PROVE  /\ f \in Frame /\ Valid(c, f)
           /\ Numbered(f) => f.id \in DOMAIN published[c] /\ f.id \in Nat /\ Size(c, f.id) \in Nat
           /\ f.chan # 0 => /\ f.chan \in Channels
                            /\ Prepared(c, f.chan, f)
                            /\ Chan(c) = ChanOf(c, f.chan)
           /\ f.method = "BASIC_PUBLISH" => Newer(c, f.chan, f.id)
<1> PICK s : s = Line(c)
  OBVIOUS
<1>1. s \in Seq(Frame) /\ s # <<>> /\ f = Head(s)
  BY LineTyped, TurnLine
<1>2. 1 \in DOMAIN s /\ f = s[1] /\ f \in Frame
  BY <1>1
<1>3. Valid(c, f)
  BY <1>2 DEF LineInv, LineValid
<1>4. Free(s, s[1].chan, 1, 1 - 1)
  BY DEF Free
<1>5. f.chan # 0 => Prepared(c, f.chan, f)
  BY <1>2, <1>4 DEF LineInv, LinePrepared
<1>6. f.method = "BASIC_PUBLISH" => Newer(c, f.chan, f.id)
  BY <1>2 DEF LineInv, LineOrdered
<1>7. f.chan # 0 => f.chan \in Channels
  BY <1>2, FrameFields
<1>8. Numbered(f) => f.id \in DOMAIN published[c] /\ f.id \in Nat /\ Size(c, f.id) \in Nat
  BY <1>3, SizeTyped DEF Valid
<1> QED BY <1>2, <1>3, <1>5, <1>6, <1>7, <1>8 DEF Chan, ChanOf

LEMMA ChannelSet ==
    ASSUME ChannelsOK, NEW c \in Conns, NEW f, f = NextFrame(c), NEW ch, SetChannel(c, ch)
    PROVE  /\ ChanOf(c, f.chan)' = ch
           /\ \A n : n # f.chan => ChanOf(c, n)' = ChanOf(c, n)
<1>1. channels'[c] = Put(channels[c], f.chan, ch)
  BY DEF SetChannel, ChannelsOK
<1> QED BY <1>1 DEF Put, ChanOf

LEMMA PartsGrow ==
    ASSUME NEW id \in Nat, NEW k \in Nat
    PROVE  /\ Parts(id, k) \in Seq(Nat \X Nat) /\ Len(Parts(id, k)) = k
           /\ Append(Parts(id, k), <<id, k + 1>>) = Parts(id, k + 1)
<1>1. ASSUME NEW j \in Nat
      PROVE  /\ Parts(id, j) \in Seq(Nat \X Nat) /\ Len(Parts(id, j)) = j
             /\ \A i \in 1 .. j : Parts(id, j)[i] = <<id, i>>
  BY DEF Parts
<1> PICK p : p = Parts(id, k)
  OBVIOUS
<1> PICK q : q = Parts(id, k + 1)
  OBVIOUS
<1> PICK e : e = <<id, k + 1>>
  OBVIOUS
<1>0. e \in Nat \X Nat
  OBVIOUS
<1>2. k + 1 \in Nat
  OBVIOUS
<1>3. /\ p \in Seq(Nat \X Nat) /\ Len(p) = k /\ \A i \in 1 .. k : p[i] = <<id, i>>
      /\ q \in Seq(Nat \X Nat) /\ Len(q) = k + 1
      /\ \A i \in 1 .. k + 1 : q[i] = <<id, i>>
  BY <1>1, <1>2
<1> PICK s \in Seq(Nat \X Nat) : s = Append(p, e)
  BY <1>0, <1>3, AppendProperties
<1>4. Len(s) = k + 1 /\ s[k + 1] = e /\ \A i \in 1 .. k : s[i] = p[i]
  BY <1>0, <1>3, AppendProperties, SMTT(60)
<1>5. ASSUME NEW i \in 1 .. k + 1 PROVE s[i] = q[i]
  <2>1. i \in 1 .. k \/ i = k + 1
    OBVIOUS
  <2> QED BY <1>3, <1>4, <2>1
<1>6. s = q
  BY <1>3, <1>4, <1>5, SeqEqual
<1> QED BY <1>3, <1>6

\* The treatment of f leaves its channel outside of a publication.
LEMMA IdleAfter ==
    ASSUME NEW c, NEW f, NEW ch, ch = ChanOf(c, f.chan)',
           published'[c] = published[c], stored'[c] = stored[c],
           f.method = "HEADER" => Size(c, f.id) \in Nat,
           ch.state \in {"WAITING_OPEN", "OPENED"},
           c \in closing' \/ ~Unfinished(c, f)
    PROVE  Advances(c, f)
<1>1. \A id : Newer(c, f.chan, id) => Newer(c, f.chan, id)'
  BY DEF Newer
<1> QED BY <1>1, AdvancesTo

\* A message stored behind those of its connection (state.py:194-228) is as it was
\* published, if the others are, and newer messages of a channel stay newer.
LEMMA StoredBehind ==
    ASSUME NEW c, NEW r \in Stored, stored[c] \in Seq(Stored),
           stored'[c] = Append(stored[c], r), UNCHANGED published[c], StoredOK(c),
           r.id \in DOMAIN published[c], r.chan = published[c][r.id].chan,
           r.exchange = published[c][r.id].exchange,
           r.content = Parts(r.id, Size(c, r.id)), Newer(c, r.chan, r.id)
    PROVE  /\ StoredOK(c)'
           /\ \A n, id : Newer(c, n, id) /\ (n = r.chan => r.id < id) => Newer(c, n, id)'
<1> PICK s : s = stored[c]
  OBVIOUS
<1> PICK t : t = stored'[c]
  OBVIOUS
<1> PICK p : p = published[c] /\ p = published'[c]
  OBVIOUS
<1> DEFINE Good(u, i) ==
               /\ u[i].id \in DOMAIN p
               /\ u[i].chan = p[u[i].id].chan /\ u[i].exchange = p[u[i].id].exchange
               /\ u[i].content = Parts(u[i].id, BodySize[p[u[i].id].msg])
               /\ \A j \in 1 .. i - 1 : u[j].chan = u[i].chan => u[j].id < u[i].id
<1>1. /\ Len(s) \in Nat /\ t[Len(s) + 1] = r
      /\ DOMAIN t = 1 .. Len(s) + 1 /\ DOMAIN s = 1 .. Len(s)
      /\ \A i \in 1 .. Len(s) : t[i] = s[i]
  BY AppendNeighbours, SMTT(60)
<1>2. \A i \in DOMAIN s : Good(s, i)
  BY DEF StoredOK, Size
<1>3. \A i \in DOMAIN s : s[i].chan = r.chan => s[i].id < r.id
  BY DEF Newer
<1>4. /\ r.id \in DOMAIN p /\ r.chan = p[r.id].chan /\ r.exchange = p[r.id].exchange
      /\ r.content = Parts(r.id, BodySize[p[r.id].msg])
  BY DEF Size
<1>5. ASSUME NEW i \in 1 .. Len(s) PROVE Good(t, i)
  <2>1. t[i] = s[i] /\ i \in DOMAIN s /\ \A j \in 1 .. i - 1 : t[j] = s[j]
    BY <1>1, SMTT(60)
  <2>2. Good(s, i)
    BY <1>2, <2>1
  <2> QED BY <2>1, <2>2, ZenonT(60)
<1>6. ASSUME NEW i, i = Len(s) + 1 PROVE Good(t, i)
  <2>1. t[i] = r /\ \A j \in 1 .. i - 1 : t[j] = s[j] /\ j \in DOMAIN s
    BY <1>1, <1>6
  <2>2. \A j \in 1 .. i - 1 : t[j].chan = r.chan => t[j].id < r.id
    BY <1>3, <2>1, Zenon
  <2> QED BY <1>4, <2>1, <2>2, Zenon
<1>7. \A i \in DOMAIN t : Good(t, i)
  <2>1. \A i \in DOMAIN t : i \in 1 .. Len(s) \/ i = Len(s) + 1
    BY <1>1
  <2> HIDE DEF Good
  <2> QED BY <1>5, <1>6, <2>1, Zenon
<1>8. StoredOK(c)'
  BY <1>7, ZenonT(60) DEF StoredOK, Size
<1>9. ASSUME NEW n, NEW id, Newer(c, n, id), n = r.chan => r.id < id
      PROVE  Newer(c, n, id)'
  <2>1. \A i \in DOMAIN s : s[i].chan = n => s[i].id < id
    BY <1>9 DEF Newer
  <2>2. \A i \in DOMAIN t : t[i] = r \/ (i \in DOMAIN s /\ t[i] = s[i])
    BY <1>1
  <2>3. \A i \in DOMAIN t : t[i].chan = n => t[i].id < id
    BY <1>9, <2>1, <2>2, Zenon
  <2> QED BY <2>3, Zenon DEF Newer
<1> QED BY <1>8, <1>9

\* The last body frame (protocol.py:365-377) hands its message over and closes the turn
\* of the channel.
LEMMA LastBody ==
    ASSUME ChannelsOK, NEW c \in Conns, NEW f, f = NextFrame(c), f.method = "BODY",
           ~Unfinished(c, f), UNCHANGED published[c], StoredOK(c),
           ChanOf(c, f.chan).state = "WAITING_BODY", ChanOf(c, f.chan).message.id = f.id,
           NEW o, o.state = "OPENED", SetChannel(c, o),
           NEW r \in Stored, r.chan = f.chan, r.id = f.id,
           stored[c] \in Seq(Stored), stored'[c] = Append(stored[c], r),
           r.id \in DOMAIN published[c], r.chan = published[c][r.id].chan,
           r.exchange = published[c][r.id].exchange,
           r.content = Parts(r.id, Size(c, r.id)), Newer(c, r.chan, r.id)
    PROVE  Advances(c, f) /\ OtherChannels(c, f.chan) /\ StoredOK(c)'
<1>1. ChanOf(c, f.chan)' = o /\ \A n : n # f.chan => ChanOf(c, n)' = ChanOf(c, n)
  BY ChannelSet, ZenonT(60)
<1>2. /\ StoredOK(c)'
      /\ \A n, id : Newer(c, n, id) /\ (n = r.chan => r.id < id) => Newer(c, n, id)'
  BY StoredBehind, ZenonT(60)
<1>3. \A n, id : Newer(c, n, id) /\ (n = f.chan => f.id < id) => Newer(c, n, id)'
  BY <1>2, Zenon
<1>4. OtherChannels(c, f.chan)
  BY <1>1, <1>3, Zenon DEF OtherChannels
<1>5. \A id : /\ Newer(c, f.chan, id)
              /\ ChanOf(c, f.chan).state = "WAITING_BODY" =>
                     ChanOf(c, f.chan).message.id < id
              => Newer(c, f.chan, id)'
  BY <1>3, Zenon
<1>6. Advances(c, f)
  <2>1. f.method # "HEADER"
    OBVIOUS
  <2>2. o.state \notin {"WAITING_HEADER", "WAITING_BODY"}
    OBVIOUS
  <2> QED BY <1>1, <1>5, <2>1, <2>2, AdvancesTo, ZenonT(60)
<1> QED BY <1>2, <1>4, <1>6

\* A body frame (protocol.py:357-377): either its message was given up, or it holds
\* exactly the parts before it.
LEMMA BodyTurn ==
    ASSUME TrackerInv, NEW c \in Conns, LineInv(c), StoredOK(c), Grows(c),
           ContentBody(c), NEW f, f = NextFrame(c)
    PROVE  Advances(c, f) /\ OtherChannels(c, f.chan) /\ StoredOK(c)'
<1>0. FramesOK /\ ChannelsOK /\ stored \in [Conns -> Seq(Stored)]
  BY DEF TrackerInv
<1> PICK ch : ch = Chan(c)
  OBVIOUS
<1> PICK e : e = <<f.id, f.part>>
  OBVIOUS
<1> PICK w : w = [ch.message EXCEPT !.content = Append(ch.message.content, e)]
  OBVIOUS
<1>1. /\ Reading(c) /\ f.chan # 0 /\ f.method = "BODY" /\ ch.state = "WAITING_BODY"
      /\ published' = published
  BY DEF ContentBody, OnChannel, client
<1>2. /\ f.chan \in Channels /\ Valid(c, f) /\ f \in Frame
      /\ f.id \in DOMAIN published[c] /\ f.id \in Nat /\ Size(c, f.id) \in Nat
      /\ Prepared(c, f.chan, f) /\ ch = ChanOf(c, f.chan)
  BY <1>0, <1>1, TurnPrepared DEF Numbered
<1>3. /\ ch \in Channel /\ ch.message \in Message /\ ch.message.id \in DOMAIN published[c]
  BY <1>0, <1>1, <1>2, ChanOfTyped
<1>4. f.part \in 1 .. Size(c, f.id)
  BY <1>1, <1>2 DEF Valid
<1>5. e \in Nat \X Nat
  BY <1>2, <1>4
<1>6. /\ w \in Message /\ w.id = ch.message.id
      /\ w.content = Append(ch.message.content, e)
      /\ Len(w.content) = Len(ch.message.content) + 1
      /\ Len(ch.message.content) \in Nat
  <2> PICK m \in Message : m = ch.message
    BY <1>3
  <2>1. m.content \in Seq(Nat \X Nat) /\ m = [id |-> m.id, content |-> m.content] /\ m.id \in Nat
    BY DEF Message
  <2> PICK k \in Seq(Nat \X Nat) : k = Append(m.content, e)
    BY <1>5, <2>1, AppendProperties
  <2>2. Len(k) = Len(m.content) + 1 /\ Len(m.content) \in Nat
    BY <1>5, <2>1, AppendProperties, LenProperties
  <2>3. w = [m EXCEPT !.content = k]
    OBVIOUS
  <2>4. w = [id |-> m.id, content |-> k]
    BY <2>1, <2>3
  <2> QED BY <2>1, <2>2, <2>4 DEF Message
<1>7. Size(c, w.id) \in Nat /\ Size(c, w.id)' = Size(c, w.id)
  BY <1>0, <1>1, <1>3, <1>6, SizeTyped DEF Size
<1>8. IF Len(w.content) # Size(c, w.id)
      THEN /\ SetChannel(c, [ch EXCEPT !.message = w])
           /\ UNCHANGED stored
      ELSE IF ch.exchange \in DOMAIN exchanges
           THEN /\ SetChannel(c, [ch EXCEPT !.state = "OPENED", !.message = None])
                /\ stored' = [stored EXCEPT ![c] = Append(@,
                       [chan |-> f.chan, exchange |-> ch.exchange,
                        id |-> w.id, content |-> w.content])]
           ELSE /\ SetChannel(c, [ch EXCEPT !.message = w])
                /\ closing' = closing \cup {c}
                /\ UNCHANGED stored
  BY <1>1, SMTT(60) DEF ContentBody, is_complete, add_content, Size
<1>9. ASSUME stored' = stored PROVE StoredOK(c)'
  BY <1>1, <1>9, ZenonT(60) DEF StoredOK, Size, Parts
<1>10. ASSUME stored' = stored, NEW d, SetChannel(c, d)
       PROVE  /\ OtherChannels(c, f.chan) /\ ChanOf(c, f.chan)' = d
              /\ \A id : Newer(c, f.chan, id) => Newer(c, f.chan, id)'
  <2>1. ChanOf(c, f.chan)' = d /\ \A n : n # f.chan => ChanOf(c, n)' = ChanOf(c, n)
    BY <1>0, <1>10, ChannelSet
  <2> QED BY <1>10, <2>1 DEF OtherChannels, Newer
<1> PICK d : d = [ch EXCEPT !.message = w]
  OBVIOUS
<1>11. d.state = "WAITING_BODY" /\ d.message = w /\ d.exchange = ch.exchange
  BY <1>1, <1>3 DEF Channel
<1>12. CASE Stuck(c, ch.message)
  <2>1. /\ Len(w.content) # Size(c, w.id) /\ Len(w.content) >= Size(c, w.id)
        /\ c \in closing \/ Size(c, w.id) = 0
    BY <1>6, <1>7, <1>12 DEF Stuck
  <2>2. SetChannel(c, d) /\ stored' = stored
    BY <1>8, <2>1
  <2>3. /\ OtherChannels(c, f.chan) /\ ChanOf(c, f.chan)' = d
        /\ \A id : Newer(c, f.chan, id) => Newer(c, f.chan, id)'
    BY <1>10, <2>2
  <2>4. Stuck(c, w)'
    BY <1>7, <2>1 DEF Stuck, Grows
  <2>5. Advances(c, f)
    BY <1>1, <1>2, <1>6, <1>11, <2>3, <2>4, AdvancesTo, ZenonT(60)
  <2> QED BY <1>9, <2>2, <2>3, <2>5
<1>13. CASE ~Stuck(c, ch.message)
  <2>1. /\ f.id = ch.message.id /\ ch.message.content = Parts(f.id, f.part - 1)
        /\ published[c][f.id].exchange = ch.exchange /\ Newer(c, f.chan, f.id)
    BY <1>1, <1>2, <1>13 DEF Prepared
  <2>2. w.id = f.id /\ w.content = Parts(f.id, f.part) /\ Len(w.content) = f.part
    <3>1. f.part - 1 \in Nat /\ (f.part - 1) + 1 = f.part /\ f.part \in Nat
      BY <1>2, <1>4
    <3>2. Append(Parts(f.id, f.part - 1), <<f.id, f.part>>) = Parts(f.id, f.part)
      BY <1>2, <3>1, PartsGrow, ZenonT(60)
    <3>3. w.id = f.id /\ w.content = Parts(f.id, f.part)
      BY <1>6, <2>1, <3>2
    <3>4. Len(Parts(f.id, f.part)) = f.part
      BY <1>2, <3>1, PartsGrow
    <3> QED BY <3>3, <3>4
  <2>3. CASE f.part # Size(c, f.id)
    <3>1. SetChannel(c, d) /\ stored' = stored
      BY <1>8, <2>2, <2>3
    <3>2. /\ OtherChannels(c, f.chan) /\ ChanOf(c, f.chan)' = d
          /\ \A id : Newer(c, f.chan, id) => Newer(c, f.chan, id)'
      BY <1>10, <3>1
    <3>3. Unfinished(c, f) /\ IsContent(f)
      BY <1>1, <1>2, <1>4, <2>3 DEF Unfinished, IsContent
    <3>4. /\ d.message.content = Parts(f.id, IF f.method = "HEADER" THEN 0 ELSE f.part)
          /\ f.id = d.message.id /\ f.part \in Nat
          /\ published[c][f.id].exchange = d.exchange
      <4>1. (IF f.method = "HEADER" THEN 0 ELSE f.part) = f.part /\ f.part \in Nat
        BY <1>1, <1>2, <1>4
      <4> QED BY <1>11, <2>1, <2>2, <4>1
    <3>5. Newer(c, f.chan, f.id)' /\ d = ChanOf(c, f.chan)'
      BY <2>1, <3>2
    <3>6. Advances(c, f)
      BY <1>1, <1>2, <1>11, <3>2, <3>3, <3>4, <3>5, AdvancesTo DEF Numbered
    <3> QED BY <1>9, <3>1, <3>2, <3>6
  <2>4. CASE f.part = Size(c, f.id) /\ ch.exchange \notin DOMAIN exchanges
    <3>1. SetChannel(c, d) /\ stored' = stored /\ c \in closing'
      BY <1>8, <2>2, <2>4
    <3>2. /\ OtherChannels(c, f.chan) /\ ChanOf(c, f.chan)' = d
          /\ \A id : Newer(c, f.chan, id) => Newer(c, f.chan, id)'
      BY <1>10, <3>1, SMTT(60)
    <3>3. Stuck(c, w)'
      <4>1. Size(c, w.id)' = Size(c, w.id) /\ Size(c, w.id) = Len(w.content)
        BY <1>7, <2>2, <2>4, ZenonT(60)
      <4>2. Size(c, w.id) \in Nat
        BY <1>7
      <4>3. Len(w.content) >= Size(c, w.id)'
        BY <4>1, <4>2
      <4> QED BY <3>1, <4>3, ZenonT(60) DEF Stuck
    <3>4. Advances(c, f)
      BY <1>1, <1>2, <1>6, <1>11, <3>2, <3>3, AdvancesTo
    <3> QED BY <1>9, <3>1, <3>2, <3>4
  <2>5. CASE f.part = Size(c, f.id) /\ ch.exchange \in DOMAIN exchanges
    <3> PICK o : o = [ch EXCEPT !.state = "OPENED", !.message = None]
      OBVIOUS
    <3> PICK r : r = [chan |-> f.chan, exchange |-> ch.exchange,
                      id |-> w.id, content |-> w.content]
      OBVIOUS
    <3>0. o.state = "OPENED"
      BY <1>3 DEF Channel
    <3>1. /\ SetChannel(c, o) /\ stored'[c] = Append(stored[c], r)
          /\ stored[c] \in Seq(Stored)
      <4>1. Len(w.content) = Size(c, w.id)
        BY <2>2, <2>5
      <4>2. /\ SetChannel(c, [ch EXCEPT !.state = "OPENED", !.message = None])
            /\ stored' = [stored EXCEPT ![c] = Append(@,
                    [chan |-> f.chan, exchange |-> ch.exchange,
                     id |-> w.id, content |-> w.content])]
        BY <1>8, <2>5, <4>1, ZenonT(60)
      <4>3. stored[c] \in Seq(Stored) /\ c \in DOMAIN stored
        BY <1>0
      <4>4. stored'[c] = Append(stored[c], [chan |-> f.chan, exchange |-> ch.exchange,
                                            id |-> w.id, content |-> w.content])
        BY <4>2, <4>3, ZenonT(60)
      <4> QED BY <4>2, <4>3, <4>4, ZenonT(60)
    <3>2. r \in Stored
      <4>1. published[c] \in Seq(Publication)
        BY <1>0 DEF FramesOK
      <4>2. published[c][f.id] \in Publication
        BY <1>2, <4>1
      <4>3. ch.exchange \in Exchanges
        BY <2>1, <4>2 DEF Publication
      <4> QED BY <1>2, <1>6, <2>2, <4>3, ZenonT(60) DEF Stored, Message
    <3>3. r.chan = f.chan /\ r.id = f.id /\ r.exchange = ch.exchange /\ r.content = w.content
      BY <2>2
    <3>4. f.chan = published[c][f.id].chan /\ published'[c] = published[c]
      BY <1>1, <1>2 DEF Valid, Numbered
    <3>5. w.content = Parts(f.id, Size(c, f.id))
      BY <2>2, <2>5
    <3>6. ~Unfinished(c, f)
      BY <1>1, <1>2, <2>5 DEF Unfinished
    <3>7. ChanOf(c, f.chan).state = "WAITING_BODY" /\ ChanOf(c, f.chan).message.id = f.id
      BY <1>1, <1>2, <2>1
    <3> QED BY <1>0, <1>1, <1>2, <2>1, <3>0, <3>1, <3>2, <3>3, <3>4, <3>5, <3>6, <3>7,
               LastBody, ZenonT(60)
  <2> QED BY <2>3, <2>4, <2>5
<1> QED BY <1>12, <1>13

LEMMA StoredKept ==
    ASSUME NEW c, Grows(c), StoredOK(c), stored'[c] = stored[c] PROVE StoredOK(c)'
<1> PICK s, p : s = stored[c] /\ p = published[c]
  OBVIOUS
<1>1. \A i \in DOMAIN s :
          /\ s[i].id \in DOMAIN p
          /\ s[i].chan = p[s[i].id].chan /\ s[i].exchange = p[s[i].id].exchange
          /\ s[i].content = Parts(s[i].id, BodySize[p[s[i].id].msg])
          /\ \A j \in 1 .. i - 1 : s[j].chan = s[i].chan => s[j].id < s[i].id
  BY DEF StoredOK, Size
<1>2. s = stored'[c]
  OBVIOUS
<1>3. \A id \in DOMAIN p : id \in DOMAIN published'[c] /\ published'[c][id] = p[id]
  BY DEF Grows
<1> QED BY <1>1, <1>2, <1>3, SMTT(60) DEF StoredOK, Size

\* What the treatment of a frame does on its connection.
Turned(c, f) ==
    /\ Reading(c) /\ Consume(c) /\ UNCHANGED client
    /\ Advances(c, f) /\ OtherChannels(c, f.chan) /\ StoredOK(c)'

\* Frames that leave the channels alone.
LEMMA QuietTurn ==
    ASSUME TrackerInv, NEW c \in Conns, LineInv(c), StoredOK(c), Grows(c),
           NEW f, f = NextFrame(c),
           \/ HeartBeat(c) \/ ConnectionClose(c) \/ StartOk(c) \/ TuneOk(c) \/ Open(c)
           \/ ConnectionIgnored(c) \/ ExchangeDeclare(c) \/ QueueDeclare(c) \/ QueueBind(c)
           \/ BasicConsume(c) \/ BasicAck(c) \/ BasicNack(c)
    PROVE  Turned(c, f)
<1>0. FramesOK /\ ChannelsOK
  BY DEF TrackerInv
<1>1. Reading(c) /\ Consume(c) /\ UNCHANGED client /\ UNCHANGED <<channels, stored>>
  BY DEF HeartBeat, ConnectionClose, StartOk, TuneOk, Open, Handshake, ConnectionIgnored,
         ExchangeDeclare, QueueDeclare, QueueBind, BasicConsume, BasicAck, BasicNack,
         OnConnection, OnOpened, OnChannel, Continue, Return
<1>2. OtherChannels(c, f.chan) /\ StoredOK(c)'
  BY <1>1, StoredKept DEF OtherChannels, ChanOf, Newer
<1>3. \/ f.chan = 0
      \/ ChanOf(c, f.chan).state = "OPENED" /\ ~Numbered(f)
  <2>1. CASE HeartBeat(c) \/ ConnectionClose(c)
    <3>1. f.method \in {"HEARTBEAT", "CLOSE"} /\ f \in Frame
      BY <1>0, <1>1, <2>1, TurnPrepared DEF HeartBeat, ConnectionClose
    <3>2. CASE f \in ConnectionFrame
      BY <3>2 DEF ConnectionFrame, ProtocolHeader
    <3>3. CASE f \in ChannelFrame
      BY <3>1, <3>3 DEF ChannelFrame
    <3>4. CASE f \in PublishFrame \cup HeaderFrame \cup BodyFrame
      BY <3>1, <3>4 DEF PublishFrame, HeaderFrame, BodyFrame
    <3> QED BY <3>1, <3>2, <3>3, <3>4 DEF Frame
  <2>2. CASE StartOk(c) \/ TuneOk(c) \/ Open(c) \/ ConnectionIgnored(c)
    BY <2>2 DEF StartOk, TuneOk, Open, Handshake, ConnectionIgnored, OnConnection
  <2>3. CASE \/ ExchangeDeclare(c) \/ QueueDeclare(c) \/ QueueBind(c)
             \/ BasicConsume(c) \/ BasicAck(c) \/ BasicNack(c)
    BY <2>3 DEF ExchangeDeclare, QueueDeclare, QueueBind, BasicConsume, BasicAck,
                BasicNack, OnOpened, OnChannel, ChanOf, Chan, Numbered
  <2> QED BY <2>1, <2>2, <2>3
<1>4. ASSUME f.chan # 0 PROVE Advances(c, f)
  <2> PICK ch : ch = ChanOf(c, f.chan)
    OBVIOUS
  <2>1. ch = ChanOf(c, f.chan)' /\ ch.state = "OPENED"
    BY <1>1, <1>3, <1>4 DEF ChanOf
  <2>2. ~Unfinished(c, f) /\ f.method # "HEADER"
    BY <1>3, <1>4 DEF Unfinished, Numbered
  <2> QED BY <1>1, <2>1, <2>2, IdleAfter DEF client
<1>5. Advances(c, f)
  BY <1>4 DEF Advances
<1> QED BY <1>1, <1>2, <1>5 DEF Turned

\* Opening and closing a channel.
LEMMA OpenCloseTurn ==
    ASSUME TrackerInv, NEW c \in Conns, LineInv(c), StoredOK(c), Grows(c),
           NEW f, f = NextFrame(c), ChannelOpen(c) \/ ChannelNotOpen(c) \/ ChannelClose(c)
    PROVE  Turned(c, f)
<1>0. FramesOK /\ ChannelsOK
  BY DEF TrackerInv
<1>1. /\ Reading(c) /\ Consume(c) /\ UNCHANGED client /\ UNCHANGED stored /\ f.chan # 0
  BY DEF ChannelOpen, ChannelNotOpen, ChannelClose, OnChannel, Continue
<1>2. StoredOK(c)' /\ \A n, id : Newer(c, n, id) => Newer(c, n, id)'
  BY <1>1, StoredKept DEF Newer
<1>3. \E ch : /\ ch = ChanOf(c, f.chan)' /\ ch.state \in {"WAITING_OPEN", "OPENED"}
              /\ \A n : n # f.chan => ChanOf(c, n)' = ChanOf(c, n)
  <2>1. CASE ChannelOpen(c) \/ ChannelNotOpen(c)
    <3> PICK ch : ch = Chan(c)
      OBVIOUS
    <3>1. ch \in Channel /\ ch.state = "WAITING_OPEN"
      BY <1>0, <1>1, <2>1, ChanTyped DEF ChannelOpen, ChannelNotOpen, OnChannel
    <3>2. SetChannel(c, ch) \/ SetChannel(c, [ch EXCEPT !.state = "OPENED"])
      BY <2>1 DEF ChannelOpen, ChannelNotOpen
    <3> PICK d : d = [ch EXCEPT !.state = "OPENED"]
      OBVIOUS
    <3>3. d.state = "OPENED"
      BY <3>1 DEF Channel
    <3> QED BY <1>0, <3>1, <3>2, <3>3, ChannelSet
  <2>2. CASE ChannelClose(c)
    <3>1. channels'[c] = [n \in DOMAIN channels[c] \ {f.chan} |-> channels[c][n]]
      BY <1>0, <2>2 DEF ChannelClose, ChannelsOK
    <3>2. ChanOf(c, f.chan)' = NewChannel
      BY <3>1 DEF ChanOf, NewChannel
    <3>3. \A n : n # f.chan => ChanOf(c, n)' = ChanOf(c, n)
      BY <3>1 DEF ChanOf, NewChannel
    <3> QED BY <3>2, <3>3 DEF NewChannel
  <2> QED BY <2>1, <2>2
<1>4. c \in closing' \/ ~Numbered(f)
  BY DEF ChannelOpen, ChannelNotOpen, ChannelClose, Numbered
<1>5. ~Numbered(f) => ~Unfinished(c, f)
  BY DEF Unfinished, Numbered
<1>6. f.method = "HEADER" => Size(c, f.id) \in Nat
  BY <1>0, <1>1, TurnPrepared DEF Numbered
<1>7. Advances(c, f)
  BY <1>1, <1>3, <1>4, <1>5, <1>6, IdleAfter DEF client
<1>8. OtherChannels(c, f.chan)
  BY <1>2, <1>3 DEF OtherChannels
<1> QED BY <1>1, <1>2, <1>7, <1>8 DEF Turned

\* The start of a publication, its header, and what is dropped.
LEMMA HeaderTurn ==
    ASSUME TrackerInv, NEW c \in Conns, LineInv(c), StoredOK(c), Grows(c),
           NEW f, f = NextFrame(c), BasicPublish(c) \/ ContentHeader(c) \/ NoEffect(c)
    PROVE  Turned(c, f)
<1>0. FramesOK /\ ChannelsOK
  BY DEF TrackerInv
<1>1. /\ Reading(c) /\ Consume(c) /\ UNCHANGED client /\ UNCHANGED stored /\ f.chan # 0
  BY DEF BasicPublish, ContentHeader, NoEffect, OnOpened, OnChannel, Continue
<1>2. StoredOK(c)' /\ \A n, id : Newer(c, n, id) => Newer(c, n, id)'
  BY <1>1, StoredKept DEF Newer
<1> PICK ch : ch = Chan(c)
  OBVIOUS
<1>3. /\ f \in Frame /\ Valid(c, f) /\ f.chan \in Channels
      /\ Numbered(f) => f.id \in DOMAIN published[c] /\ f.id \in Nat /\ Size(c, f.id) \in Nat
      /\ Prepared(c, f.chan, f) /\ ch = ChanOf(c, f.chan)
      /\ f.method = "BASIC_PUBLISH" => Newer(c, f.chan, f.id)
  BY <1>0, <1>1, TurnPrepared
<1>4. ch \in Channel
  BY <1>0, <1>3, ChanOfTyped
<1>5. published'[c] = published[c]
  BY <1>1 DEF client
<1>6. ASSUME NEW d, SetChannel(c, d)
      PROVE  OtherChannels(c, f.chan) /\ ChanOf(c, f.chan)' = d
  <2>1. ChanOf(c, f.chan)' = d /\ \A n : n # f.chan => ChanOf(c, n)' = ChanOf(c, n)
    BY <1>0, <1>6, ChannelSet
  <2> QED BY <1>2, <2>1 DEF OtherChannels
<1>7. CASE BasicPublish(c)
  <2> PICK d : d = [ch EXCEPT !.state = "WAITING_HEADER", !.exchange = f.exchange]
    OBVIOUS
  <2>1. d.state = "WAITING_HEADER" /\ d.exchange = f.exchange
    BY <1>4 DEF Channel
  <2>2. SetChannel(c, d) /\ f.method = "BASIC_PUBLISH"
    BY <1>7 DEF BasicPublish, OnOpened
  <2>3. OtherChannels(c, f.chan) /\ ChanOf(c, f.chan)' = d
    BY <1>6, <2>2
  <2>4. published[c][f.id].exchange = d.exchange /\ Newer(c, f.chan, f.id)'
    BY <1>2, <1>3, <2>1, <2>2 DEF Valid
  <2>5. Advances(c, f)
    BY <1>2, <1>5, <2>1, <2>2, <2>3, <2>4, AdvancesTo
  <2> QED BY <1>1, <1>2, <2>3, <2>5 DEF Turned
<1>8. CASE ContentHeader(c)
  <2> PICK m : m = [id |-> f.id, content |-> <<>>]
    OBVIOUS
  <2> PICK d : d = [ch EXCEPT !.state = "WAITING_BODY", !.message = m]
    OBVIOUS
  <2>1. /\ d.state = "WAITING_BODY" /\ d.message = m /\ d.exchange = ch.exchange
        /\ m.id = f.id /\ m.content = <<>>
    BY <1>4 DEF Channel
  <2>2. SetChannel(c, d) /\ f.method = "HEADER" /\ ch.state = "WAITING_HEADER"
    BY <1>8 DEF ContentHeader, OnChannel
  <2>3. OtherChannels(c, f.chan) /\ ChanOf(c, f.chan)' = d
    BY <1>6, <2>2
  <2>4. /\ published[c][f.id].exchange = d.exchange /\ Newer(c, f.chan, f.id)'
        /\ f.id \in Nat /\ Size(c, f.id) \in Nat
    BY <1>2, <1>3, <2>1, <2>2 DEF Prepared, Numbered
  <2>5. CASE Size(c, f.id) = 0
    <3>1. Len(m.content) = 0 /\ Size(c, m.id)' = 0
      BY <1>5, <2>1, <2>5 DEF Size
    <3>2. Stuck(c, m)'
      BY <3>1 DEF Stuck
    <3>3. Numbered(f)
      BY <2>2 DEF Numbered
    <3>4. Stuck(c, d.message)' /\ f.id = d.message.id
      BY <2>1, <3>2
    <3>5. Advances(c, f)
      BY <1>2, <1>5, <2>1, <2>2, <2>3, <2>4, <3>3, <3>4, AdvancesTo
    <3> QED BY <1>1, <1>2, <2>3, <3>5 DEF Turned
  <2>6. CASE Size(c, f.id) # 0
    <3>1. /\ Parts(f.id, 0) \in Seq(Nat \X Nat) /\ Len(Parts(f.id, 0)) = 0
      BY <2>4, PartsGrow
    <3>2. m.content = Parts(f.id, IF f.method = "HEADER" THEN 0 ELSE f.part)
      <4>1. Parts(f.id, 0) = <<>>
        BY <3>1, EmptySeq
      <4> QED BY <2>1, <2>2, <4>1
    <3>3. Unfinished(c, f) /\ IsContent(f) /\ Numbered(f)
      BY <2>2, <2>4, <2>6 DEF Unfinished, IsContent, Numbered
    <3>4. /\ d.message.content = Parts(f.id, IF f.method = "HEADER" THEN 0 ELSE f.part)
          /\ f.id = d.message.id
      BY <2>1, <3>2
    <3>5. Advances(c, f)
      BY <1>2, <1>5, <2>1, <2>2, <2>3, <2>4, <3>3, <3>4, AdvancesTo
    <3> QED BY <1>1, <1>2, <2>3, <3>5 DEF Turned
  <2> QED BY <2>5, <2>6
<1>9. CASE NoEffect(c)
  <2>1. channels' = channels
    BY <1>9 DEF NoEffect
  <2>2. OtherChannels(c, f.chan) /\ ChanOf(c, f.chan)' = ch
    BY <1>2, <1>3, <2>1 DEF OtherChannels, ChanOf
  <2>3. CASE ch.state \in {"WAITING_OPEN", "OPENED"}
    <3>1. f.method # "BASIC_PUBLISH" /\ (f.method = "HEADER" => Size(c, f.id) \in Nat)
      BY <1>3, <1>9, <2>3 DEF NoEffect, OnChannel, Numbered
    <3>2. c \in closing' \/ ~Unfinished(c, f)
      BY <1>3, <2>3, <3>1 DEF Prepared, Unfinished, IsContent, Grows
    <3>3. Advances(c, f)
      BY <1>1, <1>5, <2>2, <2>3, <3>1, <3>2, IdleAfter
    <3> QED BY <1>1, <1>2, <2>2, <3>3 DEF Turned
  <2>4. CASE ch.state = "WAITING_HEADER"
    BY <1>3, <1>9, <2>4 DEF Prepared, NoEffect, OnChannel
  <2>5. CASE ch.state = "WAITING_BODY"
    <3>1. Stuck(c, ch.message) /\ f.method \notin {"BODY", "CHANNEL_CLOSE"}
      BY <1>3, <1>9, <2>5 DEF Prepared, NoEffect, OnChannel
    <3>2. Stuck(c, ch.message)'
      BY <1>5, <3>1 DEF Stuck, Size, Grows
    <3>3. f.method = "HEADER" => Size(c, f.id) \in Nat
      BY <1>3 DEF Numbered
    <3>4. Advances(c, f)
      BY <1>2, <1>3, <1>5, <2>2, <2>5, <3>2, <3>3, AdvancesTo
    <3> QED BY <1>1, <1>2, <2>2, <3>4 DEF Turned
  <2>6. ch.state \in ChannelState
    BY <1>4 DEF Channel
  <2> QED BY <2>3, <2>4, <2>5, <2>6 DEF ChannelState
<1> QED BY <1>7, <1>8, <1>9

LEMMA TurnAdvances ==
    ASSUME TrackerInv, NEW c \in Conns, LineInv(c), StoredOK(c), Grows(c),
           TreatFrame(c), ~UndecodableFrame(c)
    PROVE  Turned(c, NextFrame(c))
<1> PICK f : f = NextFrame(c)
  OBVIOUS
<1>1. ASSUME ContentBody(c) PROVE Turned(c, f)
  BY <1>1, BodyTurn DEF Turned, ContentBody, OnChannel, Continue
<1> QED BY <1>1, QuietTurn, OpenCloseTurn, HeaderTurn DEF TreatFrame

-----------------------------------------------------------------------------
(* The client *)

Joined(b, a) == b \o a
Added(s, f) == Append(s, f)

LEMMA AppendConcat ==
    ASSUME NEW S, NEW b \in Seq(S), NEW a \in Seq(S), NEW f \in S
    PROVE  Joined(b, Added(a, f)) = Added(Joined(b, a), f)
BY SMT DEF Joined, Added

LEMMA SentLine ==
    ASSUME FramesOK, NEW c \in Conns, NEW f \in Frame, Send(c, f), UNCHANGED buffer
    PROVE  Line(c)' = Append(Line(c), f)
<1>1. buffer[c] \in Seq(Frame) /\ arriving[c] \in Seq(Frame)
  BY DEF FramesOK
<1>2. arriving'[c] = Append(arriving[c], f)
  BY DEF Send, FramesOK
<1>3. Joined(buffer[c], Added(arriving[c], f)) = Added(Joined(buffer[c], arriving[c]), f)
  BY <1>1, AppendConcat
<1> QED BY <1>2, <1>3 DEF Line, Joined, Added

\* A channel whose client has nothing to send is prepared for any new request.
LEMMA NothingUpcoming ==
    ASSUME ChannelsOK, NEW c \in Conns, NEW n, Grows(c), pending[c][n] = <<>>,
           channels'[c] = channels[c], NEW g, ~IsContent(g)
    PROVE  /\ \A h : Follows(c, h, Upcoming(c, n)) => Follows(c, h, g)
           /\ Prepared(c, n, Upcoming(c, n)) => Prepared(c, n, g)'
<1>1. Upcoming(c, n) = NoFrame /\ NoFrame.method = "NONE"
  BY DEF Upcoming, NoFrame
<1>2. \A h : Follows(c, h, Upcoming(c, n)) => Follows(c, h, g)
  BY <1>1 DEF Follows, IsContent
<1>3. ASSUME Prepared(c, n, NoFrame) PROVE Prepared(c, n, g)'
  <2> PICK ch : ch = ChanOf(c, n)
    OBVIOUS
  <2>1. ch = ChanOf(c, n)'
    BY DEF ChanOf
  <2>2. ch.state # "WAITING_HEADER"
    BY <1>1, <1>3 DEF Prepared
  <2>3. ch.state = "WAITING_BODY" => Stuck(c, ch.message)
    BY <1>1, <1>3 DEF Prepared
  <2>4. ch.state = "WAITING_BODY" => Stuck(c, ch.message)'
    BY <2>3, ChanOfTyped DEF Stuck, Size, Grows
  <2> QED BY <2>1, <2>2, <2>4 DEF Prepared, IsContent
<1> QED BY <1>1, <1>2, <1>3

LEMMA RestKept ==
    ASSUME NEW S, NEW p \in Seq(S), NEW c, NEW n, Grows(c), RestOK(c, n, p)
    PROVE  RestOK(c, n, p)'
<1>1. DOMAIN p = 1 .. Len(p) /\ Len(p) \in Nat
  BY LenProperties
<1>2. \A i \in 1 .. Len(p) : Valid(c, p[i]) /\ Valid(c, p[i])'
  BY <1>1, ValidKept DEF RestOK
<1>3. \A i \in 1 .. Len(p) - 1 : i \in 1 .. Len(p) /\ Follows(c, p[i], p[i + 1])'
  BY <1>1, <1>2, FollowsKept DEF RestOK
<1>4. ASSUME p # <<>> PROVE ~Unfinished(c, p[Len(p)])'
  <2>1. Len(p) \in 1 .. Len(p)
    BY <1>1, <1>4, EmptySeq
  <2> PICK f : f = p[Len(p)]
    OBVIOUS
  <2>2. Valid(c, f) /\ ~Unfinished(c, f)
    BY <1>2, <1>4, <2>1 DEF RestOK
  <2>3. Numbered(f) => Size(c, f.id)' = Size(c, f.id)
    BY <2>2, ValidKept
  <2>4. ~Unfinished(c, f)'
    BY <2>2, <2>3 DEF Unfinished, Numbered
  <2> QED BY <2>4
<1>5. \A i \in DOMAIN p : p[i].chan = n /\ IsContent(p[i])
  BY DEF RestOK
<1> QED BY <1>1, <1>2, <1>3, <1>4, <1>5 DEF RestOK, IsContent

LEMMA PendingKept ==
    ASSUME FramesOK, NEW c \in Conns, PendingOK(c), Grows(c),
           \A n \in Channels : pending'[c][n] = pending[c][n]
    PROVE  PendingOK(c)'
<1> SUFFICES ASSUME NEW n \in Channels PROVE RestOK(c, n, pending[c][n])'
  BY DEF PendingOK
<1> PICK p : p = pending[c][n]
  OBVIOUS
<1>1. p \in Seq(HeaderFrame \cup BodyFrame)
  BY DEF FramesOK
<1>2. RestOK(c, n, p)'
  BY <1>1, RestKept DEF PendingOK
<1> QED BY <1>2

\* The part of ContentInv that a step away from a connection keeps.
LEMMA ContentKept ==
    ASSUME FramesOK, ChannelsOK, NEW c \in Conns, ContentOf(c), Grows(c),
           Line(c)' = Line(c), UNCHANGED <<pending[c], channels[c], stored[c]>>,
           Greeting(c)'
    PROVE  ContentOf(c)'
<1>1. LineInv(c)'
  BY LineKept DEF ContentOf, LineInv
<1>2. PendingOK(c)'
  BY PendingKept DEF ContentOf
<1>3. StoredOK(c)'
  BY StoredKept DEF ContentOf
<1> QED BY <1>1, <1>2, <1>3 DEF ContentOf, LineInv

LEMMA RequestFrames ==
    ASSUME NEW f \in Requests PROVE f \in Frame /\ ~Numbered(f) /\ ~IsContent(f)
<1>1. f \in ConnectionFrame \cup ChannelFrame
  BY TrackerAssumption
<1>2. f.method \notin {"BASIC_PUBLISH", "HEADER", "BODY"}
  BY <1>1 DEF ConnectionFrame, ChannelFrame, ProtocolHeader
<1> QED BY <1>1, <1>2 DEF Frame, Numbered, IsContent

\* A method frame other than basic.publish.
LEMMA RequestContent ==
    ASSUME TrackerInv, NEW c \in Conns, ContentOf(c), Grows(c), SendRequest(c)
    PROVE  ContentOf(c)'
<1>0. FramesOK /\ ChannelsOK
  BY DEF TrackerInv
<1>1. PICK f \in Requests : Send(c, f) /\ (f.chan # 0 => pending[c][f.chan] = <<>>)
  BY DEF SendRequest
<1>2. f \in Frame /\ ~Numbered(f) /\ ~IsContent(f)
  BY RequestFrames
<1>3. /\ UNCHANGED <<buffer, parser_state, channels, stored, pending, published>>
      /\ c \notin closing
  BY DEF SendRequest, Connected
<1>4. Line(c)' = Append(Line(c), f)
  BY <1>0, <1>1, <1>2, <1>3, SentLine
<1>5. Valid(c, f)' /\ f.method # "BASIC_PUBLISH"
  BY <1>2 DEF Valid, Numbered
<1>6. ASSUME f.chan # 0
      PROVE  /\ \A h : Follows(c, h, Upcoming(c, f.chan)) => Follows(c, h, f)
             /\ Prepared(c, f.chan, Upcoming(c, f.chan)) => Prepared(c, f.chan, f)'
             /\ Follows(c, f, Upcoming(c, f.chan))'
  <2>1. pending[c][f.chan] = <<>> /\ pending'[c][f.chan] = <<>>
    BY <1>1, <1>3, <1>6
  <2>2. Upcoming(c, f.chan)' = NoFrame /\ ~IsContent(NoFrame)
    BY <2>1 DEF Upcoming, NoFrame, IsContent
  <2>3. Follows(c, f, Upcoming(c, f.chan))'
    BY <1>2, <2>2 DEF Follows, Unfinished, Numbered, IsContent
  <2> QED BY <1>0, <1>2, <1>3, <2>1, <2>3, NothingUpcoming
<1>7. LineInv(c)'
  BY <1>0, <1>2, <1>3, <1>4, <1>5, <1>6, LineSent DEF ContentOf, LineInv
<1>8. PendingOK(c)' /\ StoredOK(c)'
  BY <1>0, <1>3, PendingKept, StoredKept DEF ContentOf
<1>9. Greeting(c)'
  BY <1>3 DEF ContentOf, Greeting
<1> QED BY <1>7, <1>8, <1>9 DEF ContentOf, LineInv

Before(h, b) == <<h>> \o b

\* The frames of a publication: its header, then the parts of its body.
LEMMA ContentFrames ==
    ASSUME NEW n, NEW id, NEW m \in Messages, NEW p, p = Content(n, id, m)
    PROVE  /\ BodySize[m] \in Nat
           /\ Len(p) = BodySize[m] + 1 /\ DOMAIN p = 1 .. BodySize[m] + 1
           /\ p[1].method = "HEADER" /\ p[1].chan = n /\ p[1].id = id
           /\ \A i \in 1 .. BodySize[m] :
                 /\ p[i + 1].method = "BODY" /\ p[i + 1].chan = n /\ p[i + 1].id = id
                 /\ p[i + 1].part = i
<1> DEFINE k == BodySize[m]
           Body(i) == [method |-> "BODY", chan |-> n, id |-> id, part |-> i]
<1>0. k \in Nat
  BY TrackerAssumption
<1> HIDE DEF k
<1>1. \E S : \E h \in S, b \in Seq(S) :
         /\ p = Before(h, b) /\ Len(b) = k
         /\ h.method = "HEADER" /\ h.chan = n /\ h.id = id
         /\ \A i \in 1 .. k : /\ b[i].method = "BODY" /\ b[i].chan = n /\ b[i].id = id
                              /\ b[i].part = i
  <2> DEFINE h == [method |-> "HEADER", chan |-> n, id |-> id]
             b == [i \in 1 .. k |-> Body(i)]
             S == {h} \cup {Body(i) : i \in 1 .. k}
  <2>1. p = Before(h, b)
    BY DEF Content, Before, k
  <2>2. h.method = "HEADER" /\ h.chan = n /\ h.id = id /\ h \in S
    OBVIOUS
  <2>3. b \in [1 .. k -> S]
    OBVIOUS
  <2>4. \A i \in 1 .. k : /\ b[i].method = "BODY" /\ b[i].chan = n /\ b[i].id = id
                          /\ b[i].part = i
    OBVIOUS
  <2> HIDE DEF b, S, h, Body
  <2>5. b \in Seq(S) /\ Len(b) = k
    BY <1>0, <2>3
  <2> QED BY <2>1, <2>2, <2>4, <2>5
<1> HIDE DEF Body
<1>2. PICK S : \E h \in S, b \in Seq(S) :
         /\ p = Before(h, b) /\ Len(b) = k
         /\ h.method = "HEADER" /\ h.chan = n /\ h.id = id
         /\ \A i \in 1 .. k : /\ b[i].method = "BODY" /\ b[i].chan = n /\ b[i].id = id
                              /\ b[i].part = i
  BY <1>1
<1>3. PICK h \in S, b \in Seq(S) :
         /\ p = Before(h, b) /\ Len(b) = k
         /\ h.method = "HEADER" /\ h.chan = n /\ h.id = id
         /\ \A i \in 1 .. k : /\ b[i].method = "BODY" /\ b[i].chan = n /\ b[i].id = id
                              /\ b[i].part = i
  BY <1>2
<1>4. /\ p \in Seq(S) /\ Len(p) = 1 + k /\ p[1] = h
      /\ \A i \in 1 .. k : p[i + 1] = b[i]
  <2>1. PICK g \in Seq(S) : Len(g) = 1 /\ g[1] = h /\ p = Joined(g, b)
    <3>1. <<h>> \in Seq(S) /\ Len(<<h>>) = 1 /\ <<h>>[1] = h
      OBVIOUS
    <3>2. p = Joined(<<h>>, b)
      BY <1>3 DEF Before, Joined
    <3> QED BY <3>1, <3>2
  <2> PICK q \in Seq(S) : q = Joined(g, b)
    BY ConcatProperties DEF Joined
  <2>2. /\ Len(q) = Len(g) + Len(b)
        /\ \A i \in 1 .. Len(g) + Len(b) : q[i] = IF i <= Len(g) THEN g[i] ELSE b[i - Len(g)]
    BY ConcatProperties DEF Joined
  <2>3. q[1] = h
    <3>1. 1 \in 1 .. Len(g) + Len(b) /\ 1 <= Len(g)
      BY <1>0, <1>3, <2>1
    <3> QED BY <2>1, <2>2, <3>1
  <2>4. ASSUME NEW i \in 1 .. k PROVE q[i + 1] = b[i]
    <3>1. i + 1 \in 1 .. Len(g) + Len(b) /\ ~(i + 1 <= Len(g)) /\ (i + 1) - Len(g) = i
      BY <1>0, <1>3, <2>1
    <3> QED BY <2>2, <3>1
  <2> QED BY <1>3, <2>1, <2>2, <2>3, <2>4
<1>5. DOMAIN p = 1 .. k + 1 /\ Len(p) = k + 1
  BY <1>0, <1>4, LenProperties
<1> QED BY <1>0, <1>3, <1>4, <1>5 DEF k

\* They are the rest of a publication just made.
LEMMA ContentRest ==
    ASSUME NEW c, NEW n, NEW id, NEW m \in Messages,
           id \in DOMAIN published'[c], published'[c][id].chan = n,
           published'[c][id].msg = m
    PROVE  RestOK(c, n, Content(n, id, m))'
<1> PICK p : p = Content(n, id, m)
  OBVIOUS
<1> DEFINE k == BodySize[m]
<1>0. k \in Nat /\ Size(c, id)' = k /\ Len(p) = k + 1 /\ DOMAIN p = 1 .. k + 1
  BY ContentFrames DEF Size
<1>1. p[1].method = "HEADER" /\ p[1].chan = n /\ p[1].id = id
  BY ContentFrames
<1>2. ASSUME NEW i \in 1 .. k
      PROVE  /\ p[i + 1].method = "BODY" /\ p[i + 1].chan = n /\ p[i + 1].id = id
             /\ p[i + 1].part = i
  BY ContentFrames
<1> HIDE DEF k
<1>3. ASSUME NEW j \in 1 .. k + 1
      PROVE  \/ j = 1
             \/ /\ j - 1 \in 1 .. k
                /\ p[j].method = "BODY" /\ p[j].chan = n /\ p[j].id = id /\ p[j].part = j - 1
  <2>1. CASE j # 1
    <3>1. j - 1 \in 1 .. k /\ (j - 1) + 1 = j
      BY <1>0, <2>1
    <3> QED BY <1>2, <3>1
  <2> QED BY <2>1
<1>4. ASSUME NEW j \in 1 .. k + 1
      PROVE  p[j].chan = n /\ IsContent(p[j]) /\ Valid(c, p[j])'
  BY <1>0, <1>1, <1>3 DEF IsContent, Valid, Numbered, Size
<1>5. ASSUME NEW j \in 1 .. k PROVE Follows(c, p[j], p[j + 1])'
  <2>0. j \in 1 .. k + 1 /\ j \in Nat
    BY <1>0
  <2>1. CASE j = 1
    BY <1>0, <1>1, <1>2, <2>1 DEF Follows, Unfinished
  <2>2. CASE j # 1
    <3>1. p[j].method = "BODY" /\ p[j].id = id /\ p[j].part = j - 1 /\ j - 1 < k
      BY <1>0, <1>3, <2>0, <2>2
    <3>2. Unfinished(c, p[j])'
      BY <1>0, <3>1 DEF Unfinished
    <3>3. (j - 1) + 1 = j
      BY <2>0
    <3> QED BY <1>2, <3>1, <3>2, <3>3 DEF Follows
  <2> QED BY <2>1, <2>2
<1>6. ~Unfinished(c, p[k + 1])'
  <2>1. CASE k = 0
    BY <1>0, <1>1, <2>1 DEF Unfinished
  <2>2. CASE k # 0
    <3>1. k \in 1 .. k
      BY <1>0, <2>2
    <3> QED BY <1>0, <1>2, <3>1 DEF Unfinished
  <2> QED BY <2>1, <2>2
<1>7. (k + 1) - 1 = k
  BY <1>0
<1>8. RestOK(c, n, p)'
  BY <1>0, <1>4, <1>5, <1>6, <1>7 DEF RestOK, IsContent
<1> QED BY <1>8

\* basic.publish, with what its client then has to send.
LEMMA PublishContent ==
    ASSUME TrackerInv, NEW c \in Conns, ContentOf(c), Grows(c), FramesOK', SendPublish(c)
    PROVE  ContentOf(c)'
<1>0. /\ FramesOK /\ ChannelsOK
      /\ published \in [Conns -> Seq(Publication)]
      /\ pending \in [Conns -> [Channels -> Seq(HeaderFrame \cup BodyFrame)]]
  BY DEF TrackerInv, FramesOK
<1> PICK id : id = Len(published[c]) + 1
  OBVIOUS
<1>1. PICK n \in Channels, e \in Exchanges, m \in Messages :
         /\ pending[c][n] = <<>>
         /\ published' = [published EXCEPT ![c] =
                              Append(@, [chan |-> n, exchange |-> e, msg |-> m])]
         /\ pending' = [pending EXCEPT ![c][n] = Content(n, id, m)]
         /\ Send(c, [method |-> "BASIC_PUBLISH", chan |-> n, exchange |-> e, id |-> id])
  BY DEF SendPublish
<1> PICK f : f = [method |-> "BASIC_PUBLISH", chan |-> n, exchange |-> e, id |-> id]
  OBVIOUS
<1>2. UNCHANGED <<buffer, parser_state, channels, stored>> /\ c \notin closing
  BY DEF SendPublish, Connected
<1>3. /\ id \in DOMAIN published'[c] /\ published'[c][id].chan = n
      /\ published'[c][id].exchange = e /\ published'[c][id].msg = m
      /\ id \in Nat /\ \A x \in DOMAIN published[c] : x < id
  <2> PICK r : r = [chan |-> n, exchange |-> e, msg |-> m]
    OBVIOUS
  <2> PICK s \in Seq(Publication) : s = published[c]
    BY <1>0
  <2>1. r \in Publication /\ r.chan = n /\ r.exchange = e /\ r.msg = m
    BY DEF Publication
  <2> PICK t : t = Append(s, r)
    OBVIOUS
  <2>2. t = published'[c]
    BY <1>0, <1>1
  <2>3. /\ Len(s) \in Nat /\ DOMAIN t = 1 .. Len(s) + 1 /\ DOMAIN s = 1 .. Len(s)
        /\ t[Len(s) + 1] = r
    BY <2>1, AppendNeighbours
  <2>4. id = Len(s) + 1
    OBVIOUS
  <2>5. id \in DOMAIN t /\ t[id] = r /\ id \in Nat /\ \A x \in DOMAIN s : x < id
    BY <2>3, <2>4
  <2> QED BY <2>1, <2>2, <2>5
<1>4. /\ f \in Frame /\ f.method = "BASIC_PUBLISH" /\ f.chan = n /\ f.id = id
      /\ f.exchange = e
  BY <1>3 DEF Frame, PublishFrame
<1>5. Line(c)' = Append(Line(c), f)
  BY <1>0, <1>1, <1>2, <1>4, SentLine
<1>6. Valid(c, f)'
  BY <1>3, <1>4 DEF Valid, Numbered
<1>7. /\ pending'[c][n] = Content(n, id, m)
      /\ \A x \in Channels \ {n} : pending'[c][x] = pending[c][x]
  BY <1>0, <1>1
<1>8. Follows(c, f, Upcoming(c, n))'
  <2> PICK p : p = Content(n, id, m)
    OBVIOUS
  <2>1. /\ BodySize[m] \in Nat /\ Len(p) = BodySize[m] + 1
        /\ p[1].method = "HEADER" /\ p[1].id = id
    BY ContentFrames
  <2>2. p \in Seq(HeaderFrame \cup BodyFrame)
    BY <1>7 DEF FramesOK
  <2>3. p # <<>> /\ Head(p) = p[1]
    BY <2>1, <2>2, EmptySeq, HeadTailProperties
  <2>4. Upcoming(c, n)' = p[1]
    BY <1>7, <2>3 DEF Upcoming
  <2> QED BY <1>4, <2>1, <2>4 DEF Follows, Unfinished
<1>9. /\ \A h : Follows(c, h, Upcoming(c, n)) => Follows(c, h, f)
      /\ Prepared(c, n, Upcoming(c, n)) => Prepared(c, n, f)'
  <2>1. ~IsContent(f) /\ pending[c][n] = <<>> /\ channels'[c] = channels[c]
    BY <1>1, <1>2, <1>4 DEF IsContent
  <2> QED BY <1>0, <2>1, NothingUpcoming
<1>10. LineInv(c)'
  BY <1>0, <1>2, <1>3, <1>4, <1>5, <1>6, <1>7, <1>8, <1>9, LineSent DEF ContentOf, LineInv
<1>11. PendingOK(c)'
  <2> SUFFICES ASSUME NEW x \in Channels PROVE RestOK(c, x, pending[c][x])'
    BY DEF PendingOK
  <2>1. CASE x = n
    <3>1. RestOK(c, n, Content(n, id, m))'
      BY <1>3, ContentRest
    <3> QED BY <1>7, <2>1, <3>1
  <2>2. CASE x # n
    <3> PICK p \in Seq(HeaderFrame \cup BodyFrame) : p = pending[c][x]
      BY <1>0
    <3>1. RestOK(c, x, p)'
      BY RestKept DEF ContentOf, PendingOK
    <3> QED BY <1>7, <2>2, <3>1
  <2> QED BY <2>1, <2>2
<1>12. StoredOK(c)'
  BY <1>2, StoredKept DEF ContentOf
<1>13. Greeting(c)'
  BY <1>2 DEF ContentOf, Greeting
<1> QED BY <1>10, <1>11, <1>12, <1>13 DEF ContentOf, LineInv

\* The next frame of a content.
LEMMA ContentContent ==
    ASSUME TrackerInv, NEW c \in Conns, ContentOf(c), Grows(c), SendContent(c)
    PROVE  ContentOf(c)'
<1>0. /\ FramesOK /\ ChannelsOK
      /\ pending \in [Conns -> [Channels -> Seq(HeaderFrame \cup BodyFrame)]]
  BY DEF TrackerInv, FramesOK
<1>1. PICK n \in Channels : /\ pending[c][n] # <<>>
                            /\ Send(c, Head(pending[c][n]))
                            /\ pending' = [pending EXCEPT ![c][n] = Tail(@)]
  BY DEF SendContent
<1>2. /\ UNCHANGED <<buffer, parser_state, channels, stored, published>>
      /\ c \notin closing
  BY DEF SendContent, Connected
<1> PICK p \in Seq(HeaderFrame \cup BodyFrame) : p = pending[c][n]
  BY <1>0
<1> PICK f : f = Head(p)
  OBVIOUS
<1> PICK t : t = Tail(p)
  OBVIOUS
<1>3. /\ p # <<>> /\ f = p[1] /\ Len(p) \in Nat /\ 1 \in 1 .. Len(p) /\ DOMAIN p = 1 .. Len(p)
      /\ t \in Seq(HeaderFrame \cup BodyFrame) /\ Len(t) = Len(p) - 1
      /\ DOMAIN t = 1 .. Len(t)
      /\ \A i \in 1 .. Len(t) : t[i] = p[i + 1]
      /\ f \in HeaderFrame \cup BodyFrame
  <2>1. p # <<>>
    BY <1>1
  <2>2. Len(p) \in Nat /\ Len(p) # 0
    BY <2>1, LenProperties, EmptySeq
  <2>3. /\ f \in HeaderFrame \cup BodyFrame /\ f = p[1]
        /\ t \in Seq(HeaderFrame \cup BodyFrame) /\ Len(t) = Len(p) - 1
        /\ \A i \in 1 .. Len(t) : t[i] = p[i + 1]
    BY <2>1, HeadTailProperties
  <2> QED BY <2>1, <2>2, <2>3, LenProperties
<1>4. /\ pending'[c][n] = t
      /\ \A x \in Channels \ {n} : pending'[c][x] = pending[c][x]
  BY <1>0, <1>1
<1>5. RestOK(c, n, p)
  BY DEF ContentOf, PendingOK
<1>6. f.chan = n /\ IsContent(f) /\ Valid(c, f) /\ f \in Frame
  BY <1>3, <1>5 DEF RestOK, Frame
<1>7. Line(c)' = Append(Line(c), f)
  BY <1>0, <1>1, <1>2, <1>6, SentLine
<1>8. RestOK(c, n, p)' /\ Valid(c, f)'
  BY <1>5, <1>6, RestKept, ValidKept
<1>9. Follows(c, f, Upcoming(c, n))'
  <2>1. CASE t = <<>>
    <3>0. Len(t) = 0
      <4>1. \A u \in Seq(HeaderFrame \cup BodyFrame) : u = <<>> => Len(u) = 0
        BY EmptySeq
      <4> QED BY <1>3, <2>1, <4>1
    <3>1. Len(p) = 1
      BY <1>3, <3>0
    <3>2. ~Unfinished(c, f)'
      BY <1>3, <1>8, <3>1 DEF RestOK
    <3>3. Upcoming(c, n)' = NoFrame /\ ~IsContent(NoFrame)
      BY <1>4, <2>1 DEF Upcoming, NoFrame, IsContent
    <3> QED BY <3>2, <3>3 DEF Follows, IsContent
  <2>2. CASE t # <<>>
    <3>1. Head(t) = t[1] /\ 1 \in 1 .. Len(t)
      BY <1>3, <2>2, EmptySeq, HeadTailProperties
    <3>2. Upcoming(c, n)' = p[2]
      BY <1>3, <1>4, <2>2, <3>1 DEF Upcoming
    <3>3. 1 \in 1 .. Len(p) - 1 /\ 1 + 1 = 2
      BY <1>3, <3>1
    <3>4. Follows(c, p[1], p[2])'
      BY <1>8, <3>3 DEF RestOK
    <3> QED BY <1>3, <3>2, <3>4
  <2> QED BY <2>1, <2>2
<1>10. Upcoming(c, n) = f
  BY <1>3 DEF Upcoming
<1>11. Prepared(c, n, f) => Prepared(c, n, f)'
  <2>1. ChanOf(c, n)' = ChanOf(c, n) /\ (Newer(c, n, f.id) => Newer(c, n, f.id)')
    BY <1>2 DEF ChanOf, Newer
  <2> QED BY <1>0, <1>6, <2>1, PreparedKept
<1>12. LineInv(c)'
  <2>1. f.method # "BASIC_PUBLISH"
    BY <1>6 DEF IsContent
  <2> QED BY <1>0, <1>2, <1>4, <1>6, <1>7, <1>8, <1>9, <1>10, <1>11, <2>1, LineSent
          DEF ContentOf, LineInv
<1>13. PendingOK(c)'
  <2> SUFFICES ASSUME NEW x \in Channels PROVE RestOK(c, x, pending[c][x])'
    BY DEF PendingOK
  <2>1. CASE x = n
    <3>1. \A i \in 1 .. Len(t) : i + 1 \in DOMAIN p
      BY <1>3
    <3>2. \A i \in 1 .. Len(t) - 1 :
             /\ i + 1 \in 1 .. Len(p) - 1 /\ t[i] = p[i + 1] /\ t[i + 1] = p[(i + 1) + 1]
      BY <1>3
    <3>3. t # <<>> => Len(t) \in 1 .. Len(t) /\ t[Len(t)] = p[Len(p)]
      BY <1>3, EmptySeq, SMTT(60)
    <3>4. RestOK(c, n, t)'
      BY <1>3, <1>8, <3>1, <3>2, <3>3, SMTT(60) DEF RestOK
    <3> QED BY <1>4, <2>1, <3>4
  <2>2. CASE x # n
    <3> PICK q \in Seq(HeaderFrame \cup BodyFrame) : q = pending[c][x]
      BY <1>0
    <3>1. RestOK(c, x, q)'
      BY RestKept DEF ContentOf, PendingOK
    <3> QED BY <1>4, <2>2, <3>1
  <2> QED BY <2>1, <2>2
<1>14. StoredOK(c)'
  BY <1>2, StoredKept DEF ContentOf
<1>15. Greeting(c)'
  BY <1>2 DEF ContentOf, Greeting
<1> QED BY <1>12, <1>13, <1>14, <1>15 DEF ContentOf, LineInv

-----------------------------------------------------------------------------
(* Every step *)

LEMMA GrowsAlways == ASSUME TrackerInv, [Next]_vars, NEW c \in Conns PROVE Grows(c)
<1>0. closing \subseteq closing' /\ published \in [Conns -> Seq(Publication)]
  BY OpenedLife DEF TrackerInv, FramesOK
<1>1. CASE published' = published
  BY <1>0, <1>1 DEF Grows
<1>2. ASSUME NEW x \in Conns, SendPublish(x) PROVE Grows(c)
  <2>1. PICK r \in Publication : published' = [published EXCEPT ![x] = Append(@, r)]
    <3>1. \E n \in Channels, e \in Exchanges, m \in Messages :
             published' = [published EXCEPT ![x] =
                               Append(@, [chan |-> n, exchange |-> e, msg |-> m])]
      BY <1>2 DEF SendPublish
    <3> QED BY <3>1 DEF Publication
  <2>2. CASE x # c
    BY <1>0, <2>1, <2>2 DEF Grows
  <2>3. CASE x = c
    <3> PICK s \in Seq(Publication) : s = published[c]
      BY <1>0
    <3> PICK t : t = Append(s, r)
      OBVIOUS
    <3>1. t = published'[c]
      BY <1>0, <2>1, <2>3
    <3>2. /\ DOMAIN t = 1 .. Len(s) + 1 /\ DOMAIN s = 1 .. Len(s) /\ Len(s) \in Nat
          /\ \A i \in 1 .. Len(s) : t[i] = s[i]
      BY AppendNeighbours
    <3> QED BY <1>0, <3>1, <3>2 DEF Grows
  <2> QED BY <2>2, <2>3
<1>3. ASSUME NEW x \in Conns, TreatFrame(x) PROVE published' = published
  BY <1>3 DEF TreatFrame, UndecodableFrame, HeartBeat, ConnectionClose, StartOk, TuneOk, Open,
     Handshake, ConnectionIgnored, ChannelOpen, ChannelNotOpen, ChannelClose,
     ExchangeDeclare, QueueDeclare, QueueBind, BasicConsume, BasicAck, BasicNack,
     BasicPublish, ContentHeader, ContentBody, NoEffect, OnOpened, client
<1>4. CASE UNCHANGED vars \/ Backdoor
  BY <1>1, <1>4 DEF vars, trackerVars, client, Backdoor
<1>5. ASSUME NEW x \in Conns,
             SendRequest(x) \/ SendContent(x) \/ data_received(x) \/ connection_lost(x)
      PROVE  published' = published
  BY <1>5 DEF SendRequest, SendContent, data_received, connection_lost, trackerVars, client
<1> QED BY <1>1, <1>2, <1>3, <1>4, <1>5 DEF Next

\* An iteration of the loop, for its own connection.
LEMMA TurnContent ==
    ASSUME TrackerInv, NEW c \in Conns, ContentOf(c), Grows(c), TreatFrame(c)
    PROVE  ContentOf(c)'
<1>0. FramesOK /\ ChannelsOK /\ parser_state \in [Conns -> ConnectionState]
  BY DEF TrackerInv
<1>1. CASE UndecodableFrame(c)
  <2>1. UNCHANGED <<parser_state, buffer, channels, stored, arriving, pending>>
    BY <1>1 DEF UndecodableFrame, client
  <2>2. Line(c)' = Line(c) /\ Greeting(c)'
    BY <2>1 DEF Line, Greeting, ContentOf
  <2> QED BY <1>0, <2>1, <2>2, ContentKept
<1>2. CASE ~UndecodableFrame(c)
  <2> PICK f : f = NextFrame(c)
    OBVIOUS
  <2>1. LineInv(c) /\ StoredOK(c) /\ PendingOK(c)
    BY DEF ContentOf, LineInv
  <2>2. Turned(c, f)
    BY <1>2, <2>1, TurnAdvances
  <2>3. Reading(c) /\ Consume(c) /\ UNCHANGED <<arriving, pending>> /\ StoredOK(c)'
    BY <2>2 DEF Turned, client
  <2>4. Line(c) # <<>> /\ f = Head(Line(c)) /\ Line(c)' = Tail(Line(c))
    BY <1>0, <2>3, TurnLine
  <2>5. LineInv(c)'
    BY <1>0, <2>1, <2>2, <2>3, <2>4, LineTaken DEF Turned
  <2>6. PendingOK(c)'
    BY <1>0, <2>1, <2>3, PendingKept
  <2>7. Greeting(c)'
    <3>1. parser_state[c] # "WAITING_PROTOCOL_HEADER"
      BY <2>3 DEF ContentOf, Greeting, Reading
    <3>2. \/ parser_state' = parser_state
          \/ \E s \in {"WAITING_TUNE_OK", "WAITING_OPEN", "OPENED"} :
                parser_state' = [parser_state EXCEPT ![c] = s]
      BY DEF TreatFrame, UndecodableFrame, HeartBeat, ConnectionClose, StartOk, TuneOk, Open,
         Handshake, ConnectionIgnored, ChannelOpen, ChannelNotOpen, ChannelClose,
         ExchangeDeclare, QueueDeclare, QueueBind, BasicConsume, BasicAck, BasicNack,
         BasicPublish, ContentHeader, ContentBody, NoEffect, OnOpened
    <3>3. parser_state'[c] # "WAITING_PROTOCOL_HEADER"
      BY <1>0, <3>1, <3>2
    <3> QED BY <3>3 DEF Greeting
  <2> QED BY <2>3, <2>5, <2>6, <2>7 DEF ContentOf, LineInv
<1> QED BY <1>1, <1>2

\* What arrives moves to the buffer, except the protocol header, which is all of it
\* unless the transport closes (protocol.py:93-101).
LEMMA DataContent ==
    ASSUME TrackerInv, NEW c \in Conns, ContentOf(c), Grows(c), data_received(c)
    PROVE  ContentOf(c)'
<1>0. /\ FramesOK /\ ChannelsOK /\ parser_state \in [Conns -> ConnectionState]
      /\ buffer[c] \in Seq(Frame) /\ arriving[c] \in Seq(Frame)
      /\ buffer \in [Conns -> Seq(Frame)] /\ arriving \in [Conns -> Seq(Frame)]
  BY DEF TrackerInv, FramesOK
<1>1. /\ UNCHANGED <<channels, stored, pending, published>> /\ arriving'[c] = <<>>
      /\ c \notin closing
  BY <1>0 DEF data_received, Connected
<1>2. CASE parser_state[c] # "WAITING_PROTOCOL_HEADER"
  <2>1. buffer'[c] = buffer[c] \o arriving[c] /\ parser_state' = parser_state
    BY <1>0, <1>2 DEF data_received
  <2>2. Line(c)' = Line(c)
    <3> PICK s \in Seq(Frame) : s = buffer[c] \o arriving[c]
      BY <1>0, ConcatProperties
    <3>1. s \o <<>> = s
      BY ConcatEmptySeq
    <3> QED BY <1>1, <2>1, <3>1 DEF Line
  <2>3. Greeting(c)'
    BY <1>2, <2>1 DEF Greeting
  <2> QED BY <1>0, <1>1, <2>2, <2>3, ContentKept
<1>3. CASE parser_state[c] = "WAITING_PROTOCOL_HEADER"
  <2>1. /\ buffer[c] = <<>> /\ buffer'[c] = <<>>
        /\ arriving[c] = <<ProtocolHeader>> \/ c \in closing'
    BY <1>3 DEF data_received, check_protocol_header, ContentOf, Greeting
  <2>2. Line(c)' = <<>> /\ Len(<<>>) = 0
    BY <1>1, <2>1 DEF Line
  <2>3. Greeting(c)' /\ PendingOK(c)' /\ StoredOK(c)'
    BY <1>0, <1>1, <2>1, PendingKept, StoredKept DEF ContentOf, Greeting
  <2>4. LineFollows(c)' /\ LinePrepared(c)' /\ LineOrdered(c)' /\ LineValid(c)'
    BY <2>2 DEF LineFollows, LinePrepared, LineOrdered, LineValid
  <2>5. ASSUME c \notin closing', NEW n \in Channels PROVE Prepared(c, n, Upcoming(c, n))'
    <3>1. arriving[c] = <<ProtocolHeader>>
      BY <2>1, <2>5
    <3> PICK s : s = Line(c)
      OBVIOUS
    <3>2. Len(s) = 1 /\ s[1] = ProtocolHeader
      <4>1. s = arriving[c]
        BY <1>0, <2>1, ConcatEmptySeq DEF Line
      <4> QED BY <3>1, <4>1
    <3>3. Free(s, n, 1, Len(s))
      <4>1. s[1].chan = 0 /\ n # 0 /\ \A k \in 1 .. 1 : k = 1
        BY <3>2, TrackerAssumption DEF ProtocolHeader
      <4> QED BY <3>2, <4>1 DEF Free
    <3> PICK u : u = Upcoming(c, n)
      OBVIOUS
    <3>4. Prepared(c, n, u)
      BY <1>1, <3>3 DEF ContentOf, LineContinued
    <3>5. Valid(c, u)
      BY <1>0, UpcomingValid DEF ContentOf
    <3>6. ChanOf(c, n)' = ChanOf(c, n) /\ (Newer(c, n, u.id) => Newer(c, n, u.id)')
      BY <1>1 DEF ChanOf, Newer
    <3>7. Prepared(c, n, u)'
      BY <1>0, <3>4, <3>5, <3>6, PreparedKept
    <3>8. Upcoming(c, n)' = u
      BY <1>1 DEF Upcoming
    <3> QED BY <3>7, <3>8
  <2>6. LineContinued(c)'
    BY <2>2, <2>5 DEF LineContinued
  <2> QED BY <2>3, <2>4, <2>6 DEF ContentOf
<1> QED BY <1>2, <1>3

\* A step of one connection, for another.
LEMMA OtherContent ==
    ASSUME TrackerInv, NEW c \in Conns, NEW x \in Conns, x # c, ContentOf(x), Grows(x),
           \/ SendRequest(c) \/ SendPublish(c) \/ SendContent(c)
           \/ data_received(c) \/ TreatFrame(c)
    PROVE  ContentOf(x)'
<1>0. /\ FramesOK /\ ChannelsOK /\ parser_state \in [Conns -> ConnectionState]
      /\ buffer \in [Conns -> Seq(Frame)] /\ arriving \in [Conns -> Seq(Frame)]
      /\ pending \in [Conns -> [Channels -> Seq(HeaderFrame \cup BodyFrame)]]
      /\ stored \in [Conns -> Seq(Stored)]
  BY DEF TrackerInv, FramesOK
<1>1. /\ buffer'[x] = buffer[x] /\ arriving'[x] = arriving[x] /\ pending'[x] = pending[x]
      /\ channels'[x] = channels[x] /\ stored'[x] = stored[x]
      /\ parser_state'[x] = parser_state[x]
  <2>1. CASE SendRequest(c) \/ SendPublish(c) \/ SendContent(c)
    BY <1>0, <2>1 DEF SendRequest, SendPublish, SendContent, Send
  <2>2. CASE data_received(c)
    BY <1>0, <2>2 DEF data_received, check_protocol_header
  <2>3. CASE TreatFrame(c)
    <3>1. UNCHANGED <<arriving, pending>>
      BY <2>3 DEF TreatFrame, UndecodableFrame, HeartBeat, ConnectionClose, StartOk, TuneOk,
         Open, Handshake, ConnectionIgnored, ChannelOpen, ChannelNotOpen, ChannelClose,
         ExchangeDeclare, QueueDeclare, QueueBind, BasicConsume, BasicAck, BasicNack,
         BasicPublish, ContentHeader, ContentBody, NoEffect, OnOpened, client
    <3>2. stored' = stored \/ \E r : stored' = [stored EXCEPT ![c] = Append(@, r)]
      BY <2>3 DEF TreatFrame, UndecodableFrame, HeartBeat, ConnectionClose, StartOk, TuneOk,
         Open, Handshake, ConnectionIgnored, ChannelOpen, ChannelNotOpen, ChannelClose,
         ExchangeDeclare, QueueDeclare, QueueBind, BasicConsume, BasicAck, BasicNack,
         BasicPublish, ContentHeader, ContentBody, NoEffect, OnOpened
    <3>3. stored'[x] = stored[x]
      BY <1>0, <3>2
    <3> QED BY <2>3, <3>1, <3>3, TurnOfAnother
  <2> QED BY <2>1, <2>2, <2>3
<1>2. Line(x)' = Line(x) /\ Greeting(x)'
  BY <1>1 DEF Line, Greeting, ContentOf
<1> QED BY <1>0, <1>1, <1>2, ContentKept

LEMMA ContentInit == Init => ContentInv
<1> SUFFICES ASSUME Init, NEW c \in Conns PROVE ContentOf(c)
  BY DEF ContentInv
<1>1. /\ Line(c) = <<>> /\ stored[c] = <<>> /\ buffer[c] = <<>>
      /\ \A n \in Channels : pending[c][n] = <<>>
  BY DEF Init, Line
<1>2. LineFollows(c) /\ LinePrepared(c) /\ LineOrdered(c) /\ LineValid(c)
  BY <1>1 DEF LineFollows, LinePrepared, LineOrdered, LineValid
<1>3. LineContinued(c)
  <2>1. ASSUME NEW n \in Channels PROVE Prepared(c, n, Upcoming(c, n))
    <3>1. ChanOf(c, n).state = "WAITING_OPEN" /\ ~IsContent(Upcoming(c, n))
      BY <1>1 DEF Init, ChanOf, NewChannel, EmptyDict, Upcoming, NoFrame, IsContent
    <3> QED BY <3>1 DEF Prepared
  <2> QED BY <1>1, <2>1 DEF LineContinued
<1>4. PendingOK(c)
  BY <1>1 DEF PendingOK, RestOK
<1>5. StoredOK(c) /\ Greeting(c)
  BY <1>1 DEF StoredOK, Greeting
<1> QED BY <1>2, <1>3, <1>4, <1>5 DEF ContentOf

LEMMA ContentNext == TrackerInv /\ ContentInv /\ [Next]_vars => ContentInv'
<1> SUFFICES ASSUME TrackerInv, ContentInv, [Next]_vars, NEW x \in Conns
             PROVE  ContentOf(x)'
  BY DEF ContentInv
<1>0. ContentOf(x) /\ Grows(x) /\ FramesOK /\ ChannelsOK /\ FramesOK'
  BY GrowsAlways, TrackerNext DEF ContentInv, TrackerInv
<1>1. ASSUME UNCHANGED trackerVars PROVE ContentOf(x)'
  <2>1. UNCHANGED <<parser_state, buffer, channels, stored, arriving, pending>>
    BY <1>1 DEF trackerVars, client
  <2>2. Line(x)' = Line(x) /\ Greeting(x)'
    BY <1>0, <2>1 DEF Line, Greeting, ContentOf
  <2> QED BY <1>0, <2>1, <2>2, ContentKept
<1>2. CASE Backdoor \/ UNCHANGED vars \/ \E c \in Conns : connection_lost(c)
  BY <1>1, <1>2 DEF Backdoor, vars, connection_lost
<1>3. ASSUME NEW c \in Conns,
             \/ SendRequest(c) \/ SendPublish(c) \/ SendContent(c)
             \/ data_received(c) \/ TreatFrame(c)
      PROVE  ContentOf(x)'
  <2>1. CASE x # c
    BY <1>0, <1>3, <2>1, OtherContent
  <2>2. CASE x = c
    BY <1>0, <1>3, <2>2, RequestContent, PublishContent, ContentContent, DataContent,
       TurnContent
  <2> QED BY <2>1, <2>2
<1> QED BY <1>2, <1>3 DEF Next

\* The line of frames, the channels and the clients agree in every reachable state
\* (protocol.py:203-214, 306-377), whatever is sent and wherever segments are cut.
THEOREM ContentInvariant == Spec => []ContentInv
BY ContentInit, ContentNext, TrackerInvariant, PTL DEF Spec

\* What is kept for inspection (state.py:186) is one whole publication each, under its
\* own channel and exchange, in the order of its channel.
THEOREM StoredAsPublishedAlways == Spec => []StoredAsPublished
<1>1. ContentInv => StoredAsPublished
  BY ZenonT(60) DEF ContentInv, ContentOf, StoredOK, StoredAsPublished, Parts, Size
<1> QED BY <1>1, ContentInvariant, PTL

\* No channel of an open connection waits for content that will not come, as long as
\* no body is empty: a header of size 0 is not followed by a body frame, and
\* protocol.py:357 waits for one.
THEOREM InStepAlways ==
    ASSUME \A m \in Messages : BodySize[m] > 0
    PROVE  Spec => []InStep
<1>1. TrackerInv /\ ContentInv => InStep
  <2> SUFFICES ASSUME TrackerInv, ContentInv, NEW c \in Conns \ closing,
                      buffer[c] = <<>>, arriving[c] = <<>>, NEW n \in DOMAIN channels[c]
               PROVE  LET ch == channels[c][n] IN
                      IF pending[c][n] = <<>> THEN ch.state \in {"WAITING_OPEN", "OPENED"}
                      ELSE LET f == Head(pending[c][n]) IN
                           \/ f.method = "HEADER" /\ ch.state = "WAITING_HEADER"
                           \/ /\ f.method = "BODY" /\ ch.state = "WAITING_BODY"
                              /\ ch.message.id = f.id
                              /\ Len(ch.message.content) + 1 = f.part
    BY DEF InStep
  <2>0. /\ FramesOK /\ ChannelsOK /\ n \in Channels
        /\ LineContinued(c) /\ RestOK(c, n, pending[c][n])
        /\ published \in [Conns -> Seq(Publication)]
        /\ pending[c][n] \in Seq(HeaderFrame \cup BodyFrame)
    BY DEF TrackerInv, FramesOK, ChannelsOK, IsDict, ContentInv, ContentOf,
           PendingOK
  <2> PICK ch : ch = channels[c][n]
    OBVIOUS
  <2>1. ch = ChanOf(c, n) /\ ch \in Channel /\ ch.state \in ChannelState
    BY <2>0, ChanOfTyped DEF ChanOf, Channel
  <2>2. Prepared(c, n, Upcoming(c, n))
    <3>1. Line(c) = <<>> /\ Len(<<>>) = 0
      BY DEF Line
    <3> QED BY <2>0, <3>1 DEF LineContinued, Free
  <2>3. ch.state = "WAITING_BODY" => ~Stuck(c, ch.message)
    <3> SUFFICES ASSUME ch.state = "WAITING_BODY" PROVE Size(c, ch.message.id) # 0
      BY DEF Stuck
    <3>1. ch.message.id \in DOMAIN published[c] /\ published[c] \in Seq(Publication)
      BY <2>0, <2>1, ChanOfTyped
    <3>2. published[c][ch.message.id] \in Publication
      BY <3>1
    <3> QED BY <3>2, TrackerAssumption DEF Size, Publication
  <2>4. CASE pending[c][n] = <<>>
    <3>1. Upcoming(c, n).method = "NONE"
      BY <2>4, SMTT(60) DEF Upcoming, NoFrame
    <3> QED BY <2>1, <2>2, <2>3, <2>4, <3>1 DEF Prepared, ChannelState
  <2>5. CASE pending[c][n] # <<>>
    <3> PICK p \in Seq(HeaderFrame \cup BodyFrame) : p = pending[c][n]
      BY <2>0
    <3> PICK f : f = Head(p)
      OBVIOUS
    <3>1. f = p[1] /\ 1 \in DOMAIN p
      BY <2>5, HeadTailProperties, LenProperties, EmptySeq
    <3>2. IsContent(f) /\ Valid(c, f) /\ f = Upcoming(c, n)
      BY <2>0, <2>5, <3>1 DEF RestOK, Upcoming
    <3>3. ch.state = "WAITING_HEADER" => f.method = "HEADER"
      BY <2>1, <2>2, <3>2 DEF Prepared
    <3>4. ch.state = "WAITING_BODY" =>
              /\ f.method = "BODY" /\ f.id = ch.message.id
              /\ ch.message.content = Parts(f.id, f.part - 1)
      BY <2>1, <2>2, <2>3, <3>2 DEF Prepared
    <3>5. ch.state = "WAITING_BODY" => Len(ch.message.content) + 1 = f.part
      <4> SUFFICES ASSUME ch.state = "WAITING_BODY"
                   PROVE  Len(Parts(f.id, f.part - 1)) + 1 = f.part
        BY <3>4
      <4>1. f.id \in Nat /\ Size(c, f.id) \in Nat /\ f.part \in 1 .. Size(c, f.id)
        BY <2>0, <3>2, <3>4, SizeTyped DEF Valid, Numbered
      <4>2. f.part - 1 \in Nat
        BY <4>1
      <4>3. Len(Parts(f.id, f.part - 1)) = f.part - 1
        BY <4>1, <4>2, PartsGrow
      <4> QED BY <4>1, <4>3
    <3>6. ch.state \notin {"WAITING_OPEN", "OPENED"}
      BY <2>1, <2>2, <3>2 DEF Prepared
    <3> QED BY <2>1, <2>5, <3>3, <3>4, <3>5, <3>6 DEF ChannelState
  <2> QED BY <2>4, <2>5
<1> QED BY <1>1, TrackerInvariant, ContentInvariant, PTL
=============================================================================
