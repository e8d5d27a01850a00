----------------------------- MODULE SessionProofs -----------------------------
(***************************************************************************)
(* For any number of things read from either side, the two connections of  *)
(* a session keep their types, are freed once and in step with their       *)
(* contexts, one outlives the other only to send, and what is written to   *)
(* each is what the other sent.                                            *)
(*                                                                         *)
(* The callbacks are operators from pair to pair, and so are the lemmas    *)
(* about them.  Between two callbacks the two sides are Sound: both live,  *)
(* or one of them, which is then draining.  Draining with nothing left to  *)
(* send is a state only of the middle of a callback: Sound allows it,      *)
(* Settled does not.                                                       *)
(*                                                                         *)
(* The second half is about the docks client, whose two connections are a  *)
(* Session from the hand-over on, so that the lemmas of the first half     *)
(* hold of them.                                                           *)
(***************************************************************************)
EXTENDS SocksClient, StreamProofs

\* The two connections, when what passes through them is from S: in a Session
\* 0..MaxRead, but nothing below depends on it.
PairType(S) ==
  [live : [Sides -> BOOLEAN],
   context : [Sides -> {"live", "freed", "misfreed"}],
   mode : [Sides -> {"connecting", "replying", "relaying", "draining"}],
   in : [Sides -> Seq(S)], out : [Sides -> Seq(S)],
   enabled : BOOLEAN,
   got : [Sides -> Seq(S)], lost : [Sides -> BOOLEAN],
   misused : BOOLEAN]

\* Nothing was used after it was freed, contexts follow their events, and who is
\* alone is draining.
Sound(S, c) ==
  /\ c \in PairType(S) /\ c.mode["remote"] # "replying"
  /\ ~c.misused
  /\ \A e \in Sides : c.live[e] <=> c.context[e] = "live"
  /\ \A e \in Sides : c.live[e] /\ c.mode[e] # "draining" => c.live[Other(e)]
  /\ \A e \in Sides : c.live[e] /\ c.mode[e] = "draining" => ~c.live[Other(e)]

Settled(S, c) ==
  /\ Sound(S, c)
  /\ \A e \in Sides : c.live[e] /\ ~c.live[Other(e)] => c.out[e] # << >>

-----------------------------------------------------------------------------
(* Callbacks.                                                              *)

LEMMA OtherSide ==
  ASSUME NEW e \in Sides
  PROVE  Other(e) \in Sides /\ Other(e) # e /\ Other(Other(e)) = e /\ Sides = {e, Other(e)}
  BY DEF Sides, Other

LEMMA EventFreed ==
  ASSUME NEW S, NEW c \in PairType(S), NEW e \in Sides, c.live[e], ~c.misused
  PROVE  /\ FreeEvent(c, e) \in PairType(S) /\ ~FreeEvent(c, e).misused
         /\ ~FreeEvent(c, e).live[e]
         /\ FreeEvent(c, e).live[Other(e)] = c.live[Other(e)]
         /\ FreeEvent(c, e).out[Other(e)] = c.out[Other(e)]
         /\ FreeEvent(c, e).mode = c.mode /\ FreeEvent(c, e).context = c.context
<1>1. << >> \in Seq(S)
  OBVIOUS
<1>2. (c.misused \/ ~c.live[e]) = FALSE
  BY DEF PairType
<1>3. FreeEvent(c, e) = [c EXCEPT !.live[e] = FALSE, !.in[e] = << >>, !.out[e] = << >>,
                                  !.misused = FALSE]
  BY <1>2, Zenon DEF FreeEvent
<1> DEFINE d == [c EXCEPT !.live[e] = FALSE, !.in[e] = << >>, !.out[e] = << >>,
                         !.misused = FALSE]
<1>4. /\ d.live = [c.live EXCEPT ![e] = FALSE] /\ d.out = [c.out EXCEPT ![e] = << >>]
      /\ d.mode = c.mode /\ d.context = c.context /\ d.misused = FALSE
  BY DEF PairType
<1>6. d \in PairType(S)
  BY <1>1 DEF PairType
<1> HIDE DEF d
<1>7. ~d.live[e] /\ d.live[Other(e)] = c.live[Other(e)] /\ d.out[Other(e)] = c.out[Other(e)]
  BY <1>4, OtherSide DEF PairType
<1>8. FreeEvent(c, e) = d
  BY <1>3 DEF d
<1> QED
  BY <1>4, <1>6, <1>7, <1>8

LEMMA ContextFreed ==
  ASSUME NEW S, NEW c \in PairType(S), NEW e \in Sides, c.context[e] = "live", ~c.misused
  PROVE  /\ FreeContext(c, e) = [c EXCEPT !.context[e] = "freed", !.misused = FALSE]
         /\ FreeAsOther(c, e) = [c EXCEPT !.context[e] = "misfreed", !.misused = FALSE]
<1>1. (c.misused \/ c.context[e] # "live") = FALSE
  BY DEF PairType
<1> QED
  BY <1>1, Zenon DEF FreeContext, FreeAsOther

\* Giving back one side that lives leaves the other alone.
LEMMA GoneType ==
  ASSUME NEW S, NEW c \in PairType(S), NEW e \in Sides, c.live[e], c.context[e] = "live", ~c.misused
  PROVE  /\ Gone(c, e) \in PairType(S) /\ ~Gone(c, e).misused
         /\ ~Gone(c, e).live[e] /\ Gone(c, e).context[e] = "freed"
         /\ Gone(c, e).live[Other(e)] = c.live[Other(e)]
         /\ Gone(c, e).context[Other(e)] = c.context[Other(e)]
         /\ Gone(c, e).out[Other(e)] = c.out[Other(e)]
         /\ Gone(c, e).mode = c.mode
<1> DEFINE d == FreeEvent(c, e)
<1>1. /\ d \in PairType(S) /\ ~d.misused /\ ~d.live[e]
      /\ d.live[Other(e)] = c.live[Other(e)] /\ d.out[Other(e)] = c.out[Other(e)]
      /\ d.mode = c.mode /\ d.context = c.context
  BY EventFreed
<1> HIDE DEF d
<1>2. Gone(c, e) = [d EXCEPT !.context[e] = "freed", !.misused = FALSE]
  BY <1>1, ContextFreed DEF Gone, d
<1> DEFINE f == [d EXCEPT !.context[e] = "freed", !.misused = FALSE]
<1>3. /\ f \in PairType(S) /\ f.misused = FALSE /\ f.live = d.live /\ f.out = d.out
      /\ f.mode = d.mode /\ f.context = [d.context EXCEPT ![e] = "freed"]
  BY <1>1 DEF PairType
<1>4. f.context[e] = "freed" /\ f.context[Other(e)] = d.context[Other(e)]
  BY <1>1, <1>3, OtherSide DEF PairType
<1> HIDE DEF f
<1>5. Gone(c, e) = f
  BY <1>2 DEF f
<1> QED
  BY <1>1, <1>3, <1>4, <1>5

\* The last one goes.
LEMMA LastGone ==
  ASSUME NEW S, NEW c, Sound(S, c), NEW e \in Sides, c.live[e], c.mode[e] = "draining"
  PROVE  Settled(S, Gone(c, e))
  BY OtherSide, GoneType DEF Sound, Settled

\* Both go.
LEMMA BothGone ==
  ASSUME NEW S, NEW c, Sound(S, c), NEW e \in Sides, c.live[e], c.live[Other(e)]
  PROVE  Settled(S, Gone(Gone(c, e), Other(e)))
<1>1. Other(e) \in Sides
  BY OtherSide
<1>2. /\ c.context[e] = "live" /\ c.context[Other(e)] = "live"
      /\ c \in PairType(S) /\ ~c.misused
  BY <1>1 DEF Sound
<1>3. /\ Gone(c, e) \in PairType(S) /\ ~Gone(c, e).misused
      /\ ~Gone(c, e).live[e] /\ Gone(c, e).context[e] = "freed"
      /\ Gone(c, e).live[Other(e)] /\ Gone(c, e).context[Other(e)] = "live"
      /\ Gone(c, e).mode = c.mode
  BY <1>2, GoneType
<1> DEFINE d == Gone(Gone(c, e), Other(e))
<1>4. /\ d \in PairType(S) /\ ~d.misused
      /\ ~d.live[Other(e)] /\ d.context[Other(e)] = "freed"
      /\ ~d.live[e] /\ d.context[e] = "freed" /\ d.mode = c.mode
  BY <1>1, <1>3, GoneType, OtherSide
<1> QED
  BY <1>4, OtherSide DEF Sound, Settled

LEMMA DisconnectedSettled ==
  ASSUME NEW S, NEW c, Sound(S, c), NEW e \in Sides, c.live[e], c.live[Other(e)]
  PROVE  Settled(S, Disconnected(c, e))
<1> DEFINE d == Gone(c, e)
           f == [d EXCEPT !.mode[Other(e)] = "draining"]
<1>1. Other(e) \in Sides
  BY OtherSide
<1>2. /\ d \in PairType(S) /\ ~d.misused
      /\ ~d.live[e] /\ d.context[e] = "freed"
      /\ d.live[Other(e)] /\ d.context[Other(e)] = "live"
      /\ d.mode = c.mode
  BY <1>1, GoneType DEF Sound
<1>3. CASE d.out[Other(e)] = << >>
  <2>1. Disconnected(c, e) = Gone(d, Other(e))
    BY <1>3 DEF Disconnected
  <2> QED
    BY <2>1, BothGone
<1>4. CASE d.out[Other(e)] # << >>
  <2>1. Disconnected(c, e) = f
    BY <1>4 DEF Disconnected
  <2>2. /\ f \in PairType(S) /\ ~f.misused
        /\ ~f.live[e] /\ f.context[e] = "freed"
        /\ f.live[Other(e)] /\ f.context[Other(e)] = "live"
        /\ f.mode[e] = c.mode[e] /\ f.mode[Other(e)] = "draining"
        /\ f.out[Other(e)] # << >>
    BY <1>1, <1>2, <1>4, OtherSide DEF PairType
  <2>3. f.mode["remote"] # "replying"
    <3>1. e = "remote" \/ Other(e) = "remote"
      BY DEF Sides, Other
    <3> QED
      BY <2>2, <3>1 DEF Sound
  <2> QED
    BY <2>1, <2>2, <2>3, OtherSide DEF Sound, Settled
<1> QED
  BY <1>3, <1>4

\* An event that lives is closed by devent_close_internal.
LEMMA ClosedSettled ==
  ASSUME NEW S, NEW c, Sound(S, c), NEW e \in Sides, c.live[e]
  PROVE  Settled(S, Closed(c, e))
<1> DEFINE d == [c EXCEPT !.lost[e] = TRUE]
<1>1. Sound(S, d) /\ d.live = c.live /\ d.mode = c.mode /\ d.context = c.context
  BY DEF Sound, PairType
<1>2. CASE c.mode[e] \in {"connecting", "replying"}
  <2>1. Closed(c, e) = Gone(Gone(d, e), Other(e))
    BY <1>2 DEF Closed
  <2>2. d.live[e] /\ d.live[Other(e)]
    BY <1>1, <1>2 DEF Sound
  <2> HIDE DEF d
  <2> QED
    BY <1>1, <2>1, <2>2, BothGone
<1>3. CASE c.mode[e] = "relaying"
  <2>1. Closed(c, e) = Disconnected(d, e)
    BY <1>3 DEF Closed
  <2>2. d.live[e] /\ d.live[Other(e)]
    BY <1>1, <1>3 DEF Sound
  <2> HIDE DEF d
  <2> QED
    BY <1>1, <2>1, <2>2, DisconnectedSettled
<1>4. CASE c.mode[e] = "draining"
  <2> DEFINE f == FreeEvent(FreeAsOther(d, e), e)
  <2>1. Closed(c, e) = f
    BY <1>4 DEF Closed
  <2>2. /\ d \in PairType(S) /\ ~d.misused /\ d.live[e] /\ d.context[e] = "live"
        /\ ~d.live[Other(e)] /\ d.context[Other(e)] # "live"
    BY <1>1, <1>4, OtherSide DEF Sound
  <2> HIDE DEF d
  <2> DEFINE g == FreeAsOther(d, e)
  <2>3. g = [d EXCEPT !.context[e] = "misfreed", !.misused = FALSE]
    BY <2>2, ContextFreed
  <2>4. /\ g \in PairType(S) /\ ~g.misused /\ g.live = d.live /\ g.mode = d.mode
        /\ g.context[e] = "misfreed" /\ g.context[Other(e)] = d.context[Other(e)]
    <3> DEFINE h == [d EXCEPT !.context[e] = "misfreed", !.misused = FALSE]
    <3>1. /\ h \in PairType(S) /\ h.misused = FALSE /\ h.live = d.live /\ h.mode = d.mode
          /\ h.context = [d.context EXCEPT ![e] = "misfreed"]
      BY <2>2 DEF PairType
    <3>2. h.context[e] = "misfreed" /\ h.context[Other(e)] = d.context[Other(e)]
      BY <2>2, <3>1, OtherSide DEF PairType
    <3> QED
      BY <2>3, <3>1, <3>2
  <2> HIDE DEF g
  <2>5. /\ FreeEvent(g, e) \in PairType(S) /\ ~FreeEvent(g, e).misused
        /\ ~FreeEvent(g, e).live[e] /\ ~FreeEvent(g, e).live[Other(e)]
        /\ FreeEvent(g, e).mode = g.mode /\ FreeEvent(g, e).context = g.context
    BY <2>2, <2>4, EventFreed
  <2>6. f = FreeEvent(g, e)
    BY DEF g
  <2> HIDE DEF f
  <2>7. f.mode["remote"] # "replying"
    BY <1>1, <2>4, <2>5, <2>6 DEF Sound
  <2>8. \A h \in Sides : ~f.live[h] /\ f.context[h] # "live"
    BY <2>2, <2>4, <2>5, <2>6, OtherSide
  <2>9. Settled(S, f)
    BY <2>5, <2>6, <2>7, <2>8 DEF Sound, Settled
  <2> QED
    BY <2>1, <2>9 DEF f, g
<1>5. c.mode[e] \in {"connecting", "replying", "relaying", "draining"}
  BY DEF Sound, PairType
<1> QED
  BY <1>2, <1>3, <1>4, <1>5

\* The kernel takes something, and the write_cb runs.
LEMMA WrittenSettled ==
  ASSUME NEW S, NEW c, Sound(S, c), NEW e \in Sides, c.live[e],
         \A f \in Sides : f # e /\ c.live[f] /\ ~c.live[Other(f)] => c.out[f] # << >>
  PROVE  Settled(S, Written(c, e))
<1>1. CASE c.mode[e] = "replying" /\ c.out[e] = << >>
  <2> DEFINE d == StartRelay(c)
  <2>1. Written(c, e) = d
    BY <1>1 DEF Written
  <2>2. c.live[Other(e)] /\ e = "server"
    BY <1>1 DEF Sound, Sides
  <2>3. c.live["remote"] /\ c.live["server"]
    BY <2>2 DEF Other
  <2>4. /\ d \in PairType(S) /\ ~d.misused /\ d.mode = Both("relaying")
        /\ d.live = c.live /\ d.context = c.context
    BY <2>3 DEF StartRelay, Both, Sound, PairType
  <2> QED
    BY <2>1, <2>3, <2>4 DEF Sound, Settled, Both, Sides, Other
<1>2. CASE c.mode[e] = "draining" /\ c.out[e] = << >>
  <2>1. Written(c, e) = Gone(c, e)
    BY <1>2 DEF Written
  <2> QED
    BY <1>2, <2>1, LastGone
<1>3. CASE c.out[e] # << >> \/ c.mode[e] \notin {"replying", "draining"}
  <2>1. Written(c, e) = c
    BY <1>3 DEF Written
  <2> QED
    BY <1>3, <2>1, OtherSide DEF Sound, Settled
<1> QED
  BY <1>1, <1>2, <1>3

LEMMA PushSettled ==
  ASSUME NEW S, NEW c, Settled(S, c), NEW e \in Sides, c.live[e], NEW d \in Push(c, e)
  PROVE  Settled(S, d)
<1>1. CASE d = Closed(c, e)
  BY <1>1, ClosedSettled DEF Settled
<1>2. ASSUME NEW n \in 0..Len(c.out[e]), d = Written(Taken(c, e, n), e)
      PROVE  Settled(S, d)
  <2> DEFINE f == Taken(c, e, n)
  <2>1. c.out[e] \in Seq(S) /\ c.got[e] \in Seq(S)
    BY DEF Settled, Sound, PairType
  <2>2. /\ c.got[e] \o SubSeq(c.out[e], 1, n) \in Seq(S)
        /\ SubSeq(c.out[e], n + 1, Len(c.out[e])) \in Seq(S)
    <3>0. \A i \in 1..Len(c.out[e]) : c.out[e][i] \in S
      BY <2>1, ElementOfSeq
    <3>1. SubSeq(c.out[e], 1, n) \in Seq(S)
      BY <2>1, <3>0, SubSeqProperties, LenProperties
    <3>2. SubSeq(c.out[e], n + 1, Len(c.out[e])) \in Seq(S)
      BY <2>1, <3>0, SubSeqProperties, LenProperties
    <3> QED
      BY <2>1, <3>1, <3>2, ConcatProperties
  <2>3. /\ f \in PairType(S) /\ f.misused = c.misused
        /\ f.live = c.live /\ f.context = c.context /\ f.mode = c.mode
        /\ \A g \in Sides : g # e => f.out[g] = c.out[g]
    BY <2>2 DEF Taken, Settled, Sound, PairType
  <2>4. Sound(S, f)
    BY <2>3 DEF Settled, Sound
  <2>5. \A g \in Sides : g # e /\ f.live[g] /\ ~f.live[Other(g)] => f.out[g] # << >>
    BY <2>3 DEF Settled
  <2> HIDE DEF f
  <2> QED
    BY <1>2, <2>3, <2>4, <2>5, WrittenSettled DEF f
<1> QED
  BY <1>1, <1>2 DEF Push

-----------------------------------------------------------------------------
(* Steps.                                                                  *)

\* While DEVENT_CONNECT is to come both sides have their first callbacks, and
\* writing brings nothing else about.
Quiet(c) == c.mode = Both("connecting")

LEMMA ClosedQuiet ==
  ASSUME NEW S, NEW c, Settled(S, c), Quiet(c), NEW e \in Sides, c.live[e]
  PROVE  Quiet(Closed(c, e))
<1>0. c.mode[e] = "connecting"
  BY DEF Quiet, Both
<1> DEFINE f == [c EXCEPT !.lost[e] = TRUE]
<1>1. Closed(c, e) = Gone(Gone(f, e), Other(e))
  BY <1>0 DEF Closed
<1>2. Other(e) \in Sides
  BY OtherSide
<1>3. c.live[Other(e)] /\ c.context[e] = "live" /\ c.context[Other(e)] = "live"
  BY <1>0, <1>2 DEF Settled, Sound
<1>4. /\ f \in PairType(S) /\ ~f.misused /\ f.live = c.live /\ f.context = c.context
      /\ f.mode = c.mode
  BY DEF Settled, Sound, PairType
<1> HIDE DEF f
<1>5. /\ Gone(f, e) \in PairType(S) /\ ~Gone(f, e).misused
      /\ Gone(f, e).live[Other(e)] /\ Gone(f, e).context[Other(e)] = "live"
      /\ Gone(f, e).mode = c.mode
  BY <1>3, <1>4, GoneType
<1>6. Gone(Gone(f, e), Other(e)).mode = c.mode
  BY <1>2, <1>5, GoneType
<1> QED
  BY <1>1, <1>6 DEF Quiet

LEMMA PushQuiet ==
  ASSUME NEW S, NEW c, Settled(S, c), Quiet(c), NEW e \in Sides, c.live[e], NEW d \in Push(c, e)
  PROVE  Quiet(d)
<1>1. c.mode[e] = "connecting"
  BY DEF Quiet, Both
<1>2. ASSUME NEW n \in 0..Len(c.out[e]), d = Written(Taken(c, e, n), e)
      PROVE  Quiet(d)
  <2>1. Taken(c, e, n).mode = c.mode
    BY DEF Taken, Settled, Sound, PairType
  <2>2. Written(Taken(c, e, n), e) = Taken(c, e, n)
    BY <1>1, <2>1 DEF Written
  <2> QED
    BY <1>2, <2>1, <2>2 DEF Quiet
<1>3. CASE d = Closed(c, e)
  BY <1>3, ClosedQuiet
<1> QED
  BY <1>2, <1>3 DEF Push

LEMMA ReadCallbackSettled ==
  ASSUME NEW S, NEW c, Settled(S, c), NEW e \in Sides, c.live[e], NEW d \in ReadCallback(c, e)
  PROVE  Settled(S, d) /\ (Quiet(c) => Quiet(d))
<1>1. CASE c.mode[e] # "relaying"
  BY <1>1 DEF ReadCallback
<1>2. CASE c.mode[e] = "relaying"
  <2> DEFINE f == [c EXCEPT !.in[e] = << >>,
                            !.out[Other(e)] = c.out[Other(e)] \o c.in[e]]
  <2>1. Other(e) \in Sides /\ c.live[Other(e)]
    BY <1>2, OtherSide DEF Settled, Sound
  <2>2. << >> \in Seq(S) /\ c.out[Other(e)] \o c.in[e] \in Seq(S)
    BY <2>1, ConcatProperties DEF Settled, Sound, PairType
  <2>3. /\ f \in PairType(S) /\ f.live = c.live /\ f.mode = c.mode
        /\ f.context = c.context /\ f.misused = c.misused
    BY <2>1, <2>2 DEF Settled, Sound, PairType
  <2>4. f.live[Other(e)] /\ \A g \in Sides : f.live[g] => f.live[Other(g)]
    BY <2>1, <2>3, OtherSide
  <2>5. Settled(S, f)
    BY <2>3, <2>4 DEF Settled, Sound
  <2>6. d \in Push(f, Other(e))
    BY <1>2 DEF ReadCallback
  <2> HIDE DEF f
  <2>7. Settled(S, d)
    BY <2>1, <2>4, <2>5, <2>6, PushSettled
  <2> QED
    BY <1>2, <2>7 DEF Quiet, Both
<1> QED
  BY <1>1, <1>2

\* The reply is written while both live.
LEMMA AwaitsReplySettled ==
  ASSUME NEW S, REPLY \in S, NEW c, Settled(S, c), Quiet(c), c.live["remote"]
  PROVE  c.live["server"] /\ Settled(S, AwaitsReply(c)) /\ AwaitsReply(c).live["server"]
<1> DEFINE d == AwaitsReply(c)
<1>1. c.live["server"]
  BY DEF Quiet, Both, Settled, Sound, Sides, Other
<1>2. Append(c.out["server"], REPLY) \in Seq(S)
  BY DEF Settled, Sound, PairType, Sides
<1>3. /\ d \in PairType(S) /\ d.live = c.live /\ d.context = c.context
      /\ d.misused = c.misused /\ d.mode = [c.mode EXCEPT !["server"] = "replying"]
  BY <1>2 DEF AwaitsReply, Settled, Sound, PairType, Sides
<1> HIDE DEF d
<1>4. d.mode["server"] = "replying" /\ d.mode["remote"] = "connecting"
  BY <1>3 DEF Quiet, Both, Sides
<1>5. Settled(S, d)
  BY <1>1, <1>3, <1>4 DEF Settled, Sound, Sides, Other
<1> QED
  BY <1>1, <1>3, <1>5 DEF d

\* A step, whatever passes through the connections.
LEMMA ReadSettled ==
  ASSUME NEW S, Settled(S, pair), NEW e \in Sides, Read(e), given[e] + 1 \in S
  PROVE  Settled(S, pair') /\ (Quiet(pair) => Quiet(pair'))
<1> DEFINE b == [pair EXCEPT !.in[e] = Append(pair.in[e], given[e] + 1)]
<1>1. pair.live[e]
  BY DEF Read, Reads
<1>2. Append(pair.in[e], given[e] + 1) \in Seq(S)
  BY DEF Settled, Sound, PairType
<1>3. /\ b \in PairType(S) /\ b.live = pair.live /\ b.context = pair.context
      /\ b.mode = pair.mode /\ b.out = pair.out /\ b.misused = pair.misused
  BY <1>1, <1>2 DEF Settled, Sound, PairType
<1>4. Settled(S, b) /\ b.live[e] /\ (Quiet(pair) => Quiet(b))
  BY <1>1, <1>3 DEF Settled, Sound, Quiet
<1>5. PICK c \in ReadCallback(b, e) : pair' \in IF c.live[e] THEN Push(c, e) ELSE {c}
  BY DEF Read
<1> HIDE DEF b
<1>6. Settled(S, c) /\ (Quiet(b) => Quiet(c))
  BY <1>4, ReadCallbackSettled
<1>7. Settled(S, pair') /\ (Quiet(c) => Quiet(pair'))
  <2>1. CASE c.live[e]
    <3>1. pair' \in Push(c, e)
      BY <1>5, <2>1
    <3>2. Settled(S, pair')
      BY <1>6, <2>1, <3>1, PushSettled
    <3> QED
      BY <1>6, <2>1, <3>1, <3>2, PushQuiet
  <2>2. CASE ~c.live[e]
    BY <1>5, <1>6, <2>2
  <2> QED
    BY <2>1, <2>2
<1> QED
  BY <1>4, <1>6, <1>7

LEMMA EndSettled ==
  ASSUME NEW S, Settled(S, pair), NEW e \in Sides, End(e)
  PROVE  Settled(S, pair') /\ (Quiet(pair) => Quiet(pair'))
<1>1. pair.live[e]
  BY DEF End, Reads
<1>2. PICK c \in IF pair.in[e] = << >> THEN {pair} ELSE ReadCallback(pair, e) :
        pair' = IF c.live[e] THEN Closed(c, e) ELSE c
  BY DEF End
<1>3. Settled(S, c) /\ (Quiet(pair) => Quiet(c))
  BY <1>1, <1>2, ReadCallbackSettled
<1>4. Settled(S, pair') /\ (Quiet(c) => Quiet(pair'))
  BY <1>2, <1>3, ClosedSettled, ClosedQuiet DEF Settled
<1> QED
  BY <1>3, <1>4

\* The inductive invariant.
Symbols == 0..MaxRead

SessionInv ==
  /\ TypeOK
  /\ Settled(Symbols, pair)
  /\ ~connected => Quiet(pair)

LEMMA SessionInit == Init => SessionInv
<1> SUFFICES ASSUME Init PROVE SessionInv
  OBVIOUS
<1>1. << >> \in Seq(0..MaxRead) /\ 0 \in 0..MaxRead
  BY MaxReadAssumption
<1>2. pair \in PairType(Symbols) /\ pair.mode = Both("connecting") /\ ~pair.misused
  BY <1>1 DEF Init, PairType, Both, Symbols
<1>3. \A e \in Sides : pair.live[e] /\ pair.context[e] = "live" /\ pair.mode[e] = "connecting"
  BY DEF Init, Both
<1>4. Settled(Symbols, pair)
  BY <1>2, <1>3, OtherSide DEF Settled, Sound, Sides
<1>5. given \in [Sides -> 0..MaxRead] /\ connected = FALSE /\ early = FALSE
  BY <1>1 DEF Init, Both
<1> QED
  BY <1>2, <1>4, <1>5 DEF SessionInv, TypeOK, Settled, Sound, PairType, Quiet, Symbols

\* What a step must show.
LEMMA StepInv ==
  ASSUME Settled(Symbols, pair'), ~connected' => Quiet(pair'),
         connected' \in BOOLEAN, early' \in BOOLEAN, given' \in [Sides -> 0..MaxRead]
  PROVE  SessionInv'
  BY DEF SessionInv, TypeOK, Settled, Sound, PairType, Symbols

LEMMA ConnectInv == SessionInv /\ Connect => SessionInv'
<1> SUFFICES ASSUME SessionInv, Connect PROVE SessionInv'
  OBVIOUS
<1>1. Settled(Symbols, pair) /\ Quiet(pair) /\ pair.live["remote"]
  BY DEF SessionInv, Connect
<1>2. /\ pair.live["server"] /\ Settled(Symbols, AwaitsReply(pair))
      /\ AwaitsReply(pair).live["server"]
  <2>1. REPLY \in Symbols
    BY MaxReadAssumption DEF REPLY, Symbols
  <2> QED
    BY <1>1, <2>1, AwaitsReplySettled
<1>3. "remote" \in Sides /\ "server" \in Sides /\ Other("remote") = "server"
  BY DEF Sides, Other
<1>4. CASE pair' = Gone(Gone(pair, "remote"), "server")
  <2>1. Settled(Symbols, pair')
    BY <1>1, <1>2, <1>3, <1>4, BothGone DEF Settled
  <2> QED
    BY <2>1, StepInv DEF Connect, SessionInv, TypeOK
<1>5. CASE pair' \in Push(AwaitsReply(pair), "server")
  <2>1. Settled(Symbols, pair')
    BY <1>2, <1>3, <1>5, PushSettled
  <2> QED
    BY <2>1, StepInv DEF Connect, SessionInv, TypeOK
<1> QED
  BY <1>4, <1>5 DEF Connect

LEMMA ConnectFailsInv == SessionInv /\ ConnectFails => SessionInv'
<1> SUFFICES ASSUME SessionInv, ConnectFails PROVE SessionInv'
  OBVIOUS
<1>1. Settled(Symbols, pair) /\ Quiet(pair) /\ pair.live["remote"] /\ pair' = Closed(pair, "remote")
  BY DEF SessionInv, ConnectFails
<1>2. "remote" \in Sides
  BY DEF Sides
<1>3. Settled(Symbols, pair')
  BY <1>1, <1>2, ClosedSettled DEF Settled
<1>4. Quiet(pair')
  BY <1>1, <1>2, ClosedQuiet
<1> QED
  BY <1>3, <1>4, StepInv DEF ConnectFails, SessionInv, TypeOK

LEMMA ReadInv ==
  ASSUME SessionInv, NEW e \in Sides, Read(e)
  PROVE  SessionInv'
<1>1. given[e] \in 0..MaxRead /\ given[e] + 1 \in 0..MaxRead /\ Settled(Symbols, pair)
  BY MaxReadAssumption DEF SessionInv, Read, TypeOK
<1>2. Settled(Symbols, pair') /\ (Quiet(pair) => Quiet(pair'))
  BY <1>1, ReadSettled DEF Symbols
<1>3. given' \in [Sides -> 0..MaxRead] /\ connected' = connected /\ early' \in BOOLEAN
  BY <1>1 DEF Read, SessionInv, TypeOK
<1> QED
  BY <1>2, <1>3, StepInv DEF SessionInv, TypeOK

LEMMA EndInv ==
  ASSUME SessionInv, NEW e \in Sides, End(e)
  PROVE  SessionInv'
<1>1. Settled(Symbols, pair') /\ (Quiet(pair) => Quiet(pair'))
  BY EndSettled DEF SessionInv
<1> QED
  BY <1>1, StepInv DEF End, SessionInv, TypeOK

THEOREM SessionInvariant == Spec => []SessionInv
<1>1. SessionInv /\ [Next]_vars => SessionInv'
  <2> SUFFICES ASSUME SessionInv, [Next]_vars PROVE SessionInv'
    OBVIOUS
  <2>1. CASE UNCHANGED vars
    BY <2>1 DEF vars, SessionInv, TypeOK, Settled, Sound, Quiet, Both
  <2> QED
    BY <2>1, ConnectInv, ConnectFailsInv, ReadInv, EndInv DEF Next
<1> QED
  BY <1>1, SessionInit, PTL DEF Spec

-----------------------------------------------------------------------------
(* What passes through.                                                    *)
(*                                                                         *)
(* What was read from one side is with the kernel of the other (got), in   *)
(* its out_buffer, or in the in_buffer it was read into, in this order.    *)
(* The parameters are the history: G what was given by each side, f        *)
(* whether the host spoke early, k whether it was reported connected.      *)

Upto(n) == [i \in 1..n |-> i]
Due(G, e) == (IF e = "server" THEN <<REPLY>> ELSE << >>) \o Upto(G[Other(e)])
Sent(c, e) == c.got[e] \o c.out[e]
Begun(m) == m \in {"relaying", "draining"}

\* A side that is freed holds nothing, and one that drains is left alone by the
\* other; the relay begins for both; nothing out of order is ever sent; ...
Ends(c, e) ==
  /\ ~c.live[e] => c.in[e] = << >> /\ c.out[e] = << >>
  /\ c.mode[e] = "draining" => c.lost[Other(e)]
  /\ Begun(c.mode[e]) => Begun(c.mode[Other(e)])
InOrder(c, G, e) == IsPrefix(Sent(c, e), Due(G, e))

\* ... before the relay only the host has spoken, and all of it is in its
\* in_buffer; then everything is on its way, ...
Before(c, G, f, e) ==
  ~Begun(c.mode[e]) =>
    /\ c.got[e] = << >>
    /\ c.live[e] => /\ c.in[e] = Upto(G[e])
                    /\ c.out[e] = IF c.mode[e] = "replying" THEN <<REPLY>> ELSE << >>
    /\ e = "server" \/ ~f => G[e] = 0
Through(c, G, f, e) ==
  Begun(c.mode[e]) /\ ~c.lost[e] /\ ~(f /\ c.lost[Other(e)])
    => Sent(c, e) \o c.in[Other(e)] = Due(G, e)

Flows(c, G, f) ==
  \A e \in Sides :
    Ends(c, e) /\ InOrder(c, G, e) /\ Before(c, G, f, e) /\ Through(c, G, f, e)

\* ... and, between callbacks, nothing waits in an in_buffer of the relay but what
\* the host said early, no side that lives has ended, and the host is not read
\* while the reply is written.
Drained(c, f, e) == c.mode[e] = "relaying" /\ c.in[e] # << >> => e = "remote" /\ f
Unlost(c, e) == c.live[e] => ~c.lost[e]
Held(c, k) == k /\ c.live["remote"] /\ ~Begun(c.mode["remote"]) => ~c.enabled

Passing(c, G, f, k) ==
  /\ Flows(c, G, f)
  /\ \A e \in Sides : Drained(c, f, e) /\ Unlost(c, e)
  /\ Held(c, k)

LEMMA UptoType ==
  ASSUME NEW n \in Nat
  PROVE  /\ Upto(n) \in Seq(Int) /\ Len(Upto(n)) = n
         /\ Upto(n) \o <<n + 1>> = Upto(n + 1)
<1>1. \A i \in 1..n + 1 : i \in Int
  OBVIOUS
<1>2. Upto(n) \in Seq(Int) /\ Upto(n + 1) \in Seq(Int)
  BY <1>1, IsASeq DEF Upto
<1>3. Len(Upto(n)) = n /\ Len(Upto(n + 1)) = n + 1
  BY DEF Upto
<1>4. <<n + 1>> \in Seq(Int) /\ Len(<<n + 1>>) = 1 /\ <<n + 1>>[1] = n + 1
  OBVIOUS
<1>5. /\ Upto(n) \o <<n + 1>> \in Seq(Int) /\ Len(Upto(n) \o <<n + 1>>) = n + 1
      /\ \A i \in 1..n + 1 : (Upto(n) \o <<n + 1>>)[i]
                               = IF i <= n THEN Upto(n)[i] ELSE <<n + 1>>[i - n]
  BY <1>2, <1>3, <1>4, ConcatProperties
<1>6. \A i \in 1..n + 1 : (Upto(n) \o <<n + 1>>)[i] = Upto(n + 1)[i]
  <2>1. SUFFICES ASSUME NEW i \in 1..n + 1
                 PROVE  (Upto(n) \o <<n + 1>>)[i] = Upto(n + 1)[i]
    OBVIOUS
  <2>2. CASE i \in 1..n
    BY <1>5, <2>2 DEF Upto
  <2>3. CASE i = n + 1
    BY <1>4, <1>5, <2>3 DEF Upto
  <2>4. i \in 1..n \/ i = n + 1
    OBVIOUS
  <2> QED
    BY <2>2, <2>3, <2>4, Zenon
<1> QED
  BY <1>2, <1>3, <1>5, <1>6, SeqEqual

LEMMA DueType ==
  ASSUME NEW G \in [Sides -> Nat], NEW e \in Sides
  PROVE  Due(G, e) \in Seq(Int)
<1>1. (IF e = "server" THEN <<REPLY>> ELSE << >>) \in Seq(Int)
  BY DEF REPLY
<1>2. G[Other(e)] \in Nat
  BY OtherSide
<1> QED
  BY <1>1, <1>2, UptoType, ConcatProperties DEF Due

\* What the buffers hold, as sequences.
LEMMA Buffers ==
  ASSUME NEW c \in PairType(Int), NEW e \in Sides
  PROVE  c.got[e] \in Seq(Int) /\ c.out[e] \in Seq(Int) /\ c.in[e] \in Seq(Int)
         /\ Sent(c, e) \in Seq(Int)
<1>1. c.got[e] \in Seq(Int) /\ c.out[e] \in Seq(Int) /\ c.in[e] \in Seq(Int)
  BY DEF PairType
<1> QED
  BY <1>1, ConcatProperties DEF Sent

\* A side is freed, whichever way: Gone, or with its context as the other kind.
Without(c, e, d) ==
  /\ d.live = [c.live EXCEPT ![e] = FALSE]
  /\ d.in = [c.in EXCEPT ![e] = << >>] /\ d.out = [c.out EXCEPT ![e] = << >>]
  /\ d.mode = c.mode /\ d.got = c.got /\ d.lost = c.lost /\ d.enabled = c.enabled

LEMMA FreesAreWithout ==
  ASSUME NEW S, NEW c \in PairType(S), NEW e \in Sides
  PROVE  /\ Without(c, e, Gone(c, e))
         /\ Without(c, e, FreeEvent(FreeAsOther(c, e), e))
  BY Zenon DEF Gone, FreeContext, FreeAsOther, FreeEvent, Without, PairType

\* It takes nothing away that is due, if it has ended itself, if the relay has not
\* begun, or if it is left alone and has sent everything.
LEMMA WithoutFlows ==
  ASSUME NEW c \in PairType(Int), NEW G \in [Sides -> Nat], NEW f \in BOOLEAN,
         Flows(c, G, f), NEW e \in Sides, Drained(c, f, e), NEW d, Without(c, e, d),
         \/ c.lost[e]
         \/ ~Begun(c.mode[e])
         \/ c.out[e] = << >> /\ c.lost[Other(e)]
  PROVE  Flows(d, G, f)
<1> DEFINE o == Other(e)
<1>1. o \in Sides /\ o # e /\ Other(o) = e /\ Other(e) = o /\ Sides = {e, o}
  BY OtherSide
<1>2. /\ c.live \in [Sides -> BOOLEAN] /\ c.in \in [Sides -> Seq(Int)]
      /\ c.out \in [Sides -> Seq(Int)]
  BY DEF PairType
<1>3. /\ d.mode = c.mode /\ d.got = c.got /\ d.lost = c.lost
      /\ ~d.live[e] /\ d.in[e] = << >> /\ d.out[e] = << >>
      /\ d.live[o] = c.live[o] /\ d.in[o] = c.in[o] /\ d.out[o] = c.out[o]
  BY <1>1, <1>2 DEF Without
<1>4. /\ Ends(c, e) /\ InOrder(c, G, e) /\ Before(c, G, f, e) /\ Through(c, G, f, e)
      /\ Ends(c, o) /\ InOrder(c, G, o) /\ Before(c, G, f, o) /\ Through(c, G, f, o)
  BY <1>1 DEF Flows
<1> HIDE DEF o
<1>5. Ends(d, e) /\ Ends(d, o)
  BY <1>1, <1>3, <1>4 DEF Ends
<1>6. /\ Sent(d, o) = Sent(c, o) /\ Sent(d, e) = c.got[e]
      /\ c.out[e] = << >> => Sent(c, e) = c.got[e]
  <2>1. c.got[e] \o << >> = c.got[e]
    BY Buffers, ConcatEmptySeq
  <2> QED
    BY <1>3, <2>1 DEF Sent
<1>7. InOrder(d, G, e) /\ InOrder(d, G, o)
  <2>1. c.got[e] \in Seq(Int) /\ c.out[e] \in Seq(Int) /\ Due(G, e) \in Seq(Int)
    BY Buffers, DueType
  <2>2. IsPrefix(c.got[e] \o c.out[e], Due(G, e)) => IsPrefix(c.got[e], Due(G, e))
    BY <2>1, PrefixOfLonger
  <2> QED
    BY <1>4, <1>6, <2>2 DEF InOrder, Sent
<1>8. Before(d, G, f, e) /\ Before(d, G, f, o)
  BY <1>3, <1>4 DEF Before
<1>9. Through(d, G, f, e)
  <2>1. SUFFICES ASSUME Begun(c.mode[e]), ~c.lost[e], ~(f /\ c.lost[o])
                 PROVE  Sent(d, e) \o c.in[o] = Due(G, e)
    BY <1>1, <1>3 DEF Through
  <2>2. Sent(d, e) = Sent(c, e)
    BY <1>6, <2>1
  <2> QED
    BY <1>1, <1>4, <2>1, <2>2 DEF Through
<1>10. Through(d, G, f, o)
  <2>1. SUFFICES ASSUME Begun(c.mode[o]), ~c.lost[o], ~(f /\ c.lost[e])
                 PROVE  Sent(c, o) \o << >> = Due(G, o)
    BY <1>1, <1>3, <1>6 DEF Through
  <2>2. Begun(c.mode[e]) /\ c.mode[e] # "draining"
    BY <1>1, <1>4, <2>1 DEF Ends
  <2>3. c.lost[e] /\ ~f
    BY <1>1, <2>1, <2>2
  <2>4. c.in[e] = << >>
    BY <2>2, <2>3 DEF Drained, Begun
  <2> QED
    BY <1>1, <1>4, <2>1, <2>4 DEF Through
<1> QED
  BY <1>1, <1>5, <1>7, <1>8, <1>9, <1>10 DEF Flows

\* What is between callbacks is left as it was, too.
LEMMA WithoutPassing ==
  ASSUME NEW c \in PairType(Int), NEW f \in BOOLEAN, NEW k \in BOOLEAN, NEW e \in Sides,
         NEW d, Without(c, e, d), Held(c, k),
         \A x \in Sides : Drained(c, f, x) /\ (x # e => Unlost(c, x))
  PROVE  Held(d, k) /\ \A x \in Sides : Drained(d, f, x) /\ Unlost(d, x)
<1>1. "remote" \in Sides
  BY DEF Sides
<1>2. /\ c.live \in [Sides -> BOOLEAN] /\ c.in \in [Sides -> Seq(Int)]
  BY DEF PairType
<1>3. \A x \in Sides : /\ d.live[x] => c.live[x] /\ x # e
                       /\ d.in[x] = c.in[x] \/ d.in[x] = << >>
                       /\ d.mode[x] = c.mode[x] /\ d.lost[x] = c.lost[x]
  BY <1>2 DEF Without
<1>4. Held(d, k)
  BY <1>1, <1>3 DEF Held, Without
<1> QED
  BY <1>3, <1>4 DEF Drained, Unlost

\* devent_close_internal.
LEMMA ClosedPassing ==
  ASSUME NEW c, Sound(Int, c), NEW G \in [Sides -> Nat], NEW f \in BOOLEAN, NEW k \in BOOLEAN,
         Passing(c, G, f, k), NEW e \in Sides, c.live[e]
  PROVE  Passing(Closed(c, e), G, f, k)
<1> DEFINE d == [c EXCEPT !.lost[e] = TRUE]
           o == Other(e)
<1>1. o \in Sides /\ o # e /\ Other(o) = e /\ Other(e) = o /\ Sides = {e, o}
  BY OtherSide
<1>2. c \in PairType(Int)
  BY DEF Sound
<1>3. /\ d \in PairType(Int) /\ d.lost[e] /\ \A x \in Sides : x # e => d.lost[x] = c.lost[x]
      /\ d.live = c.live /\ d.in = c.in /\ d.out = c.out /\ d.mode = c.mode
      /\ d.got = c.got /\ d.enabled = c.enabled
  BY <1>2 DEF PairType
<1> HIDE DEF d, o
<1>4. Flows(d, G, f)
  <2>1. Ends(d, e) /\ Ends(d, o)
    <3>1. Ends(c, e) /\ Ends(c, o)
      BY <1>1 DEF Passing, Flows
    <3> QED
      BY <1>1, <1>3, <3>1 DEF Ends
  <2>2. \A x \in Sides : InOrder(d, G, x) /\ Before(d, G, f, x)
    BY <1>3 DEF Passing, Flows, InOrder, Before, Sent
  <2>3. \A x \in Sides : c.lost[x] => d.lost[x]
    BY <1>3
  <2>4. \A x \in Sides : Through(d, G, f, x)
    BY <1>1, <1>3, <2>3 DEF Passing, Flows, Through, Sent
  <2> QED
    BY <1>1, <2>1, <2>2, <2>4 DEF Flows
<1>5. /\ Held(d, k)
      /\ \A x \in Sides : Drained(d, f, x) /\ (x # e => Unlost(d, x))
  BY <1>3 DEF Passing, Held, Drained, Unlost
<1> DEFINE g == Gone(d, e)
<1>6. g \in PairType(Int) /\ Without(d, e, g)
  <2>1. d.live[e] /\ d.context[e] = "live" /\ ~d.misused
    <3>1. c.context[e] = "live" /\ ~c.misused
      BY DEF Sound
    <3>2. d.context = c.context /\ d.misused = c.misused
      BY <1>2 DEF d, PairType
    <3> QED
      BY <1>3, <3>1, <3>2
  <2> QED
    BY <1>3, <2>1, GoneType, FreesAreWithout
<1> HIDE DEF g
<1>7. Flows(g, G, f)
  BY <1>3, <1>4, <1>5, <1>6, WithoutFlows
<1>8. Held(g, k) /\ \A x \in Sides : Drained(g, f, x) /\ Unlost(g, x)
  BY <1>3, <1>5, <1>6, WithoutPassing
<1>9. g.mode = c.mode /\ g.lost[e] /\ (c.live[o] <=> g.live[o])
  BY <1>1, <1>3, <1>6 DEF Without, PairType
<1> DEFINE h == Gone(g, o)
<1>10. ASSUME ~Begun(g.mode[o]) \/ g.out[o] = << >>
       PROVE  Passing(h, G, f, k)
  <2>1. Without(g, o, h)
    BY <1>1, <1>6, FreesAreWithout
  <2> HIDE DEF h
  <2>2. Flows(h, G, f)
    BY <1>1, <1>6, <1>7, <1>8, <1>9, <1>10, <2>1, WithoutFlows
  <2>3. Held(h, k) /\ \A x \in Sides : Drained(h, f, x) /\ Unlost(h, x)
    BY <1>1, <1>6, <1>8, <2>1, WithoutPassing
  <2> QED
    BY <2>2, <2>3 DEF Passing
<1> HIDE DEF h
<1>11. CASE c.mode[e] \in {"connecting", "replying"}
  <2>1. Closed(c, e) = h
    BY <1>11 DEF Closed, d, g, h, o
  <2>2. ~Begun(g.mode[o])
    <3>1. Begun(g.mode[o]) => Begun(g.mode[e])
      BY <1>1, <1>7, Zenon DEF Flows, Ends
    <3> QED
      BY <1>9, <1>11, <3>1 DEF Begun
  <2> QED
    BY <1>10, <2>1, <2>2
<1>12. CASE c.mode[e] = "relaying" /\ g.out[o] = << >>
  <2>1. Closed(c, e) = h
    BY <1>12 DEF Closed, Disconnected, d, g, h, o
  <2> QED
    BY <1>10, <1>12, <2>1
<1>13. CASE c.mode[e] = "relaying" /\ g.out[o] # << >>
  <2> DEFINE i == [g EXCEPT !.mode[o] = "draining"]
  <2>1. Closed(c, e) = i
    BY <1>13 DEF Closed, Disconnected, d, g, o
  <2>2. /\ i.live = g.live /\ i.in = g.in /\ i.out = g.out /\ i.got = g.got
        /\ i.lost = g.lost /\ i.enabled = g.enabled
        /\ i.mode[o] = "draining" /\ i.mode[e] = g.mode[e]
    BY <1>1, <1>6 DEF PairType
  <2>3. Begun(g.mode[e]) /\ Begun(g.mode[o]) /\ Begun(i.mode[o])
    <3>1. Ends(g, e)
      BY <1>7 DEF Flows
    <3>2. Begun(g.mode[e]) /\ Begun(i.mode[o])
      BY <1>9, <1>13, <2>2 DEF Begun
    <3> QED
      BY <1>1, <3>1, <3>2 DEF Ends
  <2> HIDE DEF i
  <2>4. \A x \in Sides : Begun(i.mode[x]) <=> Begun(g.mode[x])
    BY <1>1, <2>2, <2>3
  <2>5. Ends(i, e) /\ Ends(i, o)
    <3>1. Ends(g, e) /\ Ends(g, o)
      BY <1>1, <1>7 DEF Flows
    <3> QED
      BY <1>1, <1>9, <2>2, <2>4, <3>1 DEF Ends
  <2>6. \A x \in Sides : InOrder(i, G, x) /\ Before(i, G, f, x) /\ Through(i, G, f, x)
    <3>1. SUFFICES ASSUME NEW x \in Sides
                   PROVE  InOrder(i, G, x) /\ Before(i, G, f, x) /\ Through(i, G, f, x)
      OBVIOUS
    <3>2. InOrder(g, G, x) /\ Before(g, G, f, x) /\ Through(g, G, f, x)
      BY <1>7 DEF Flows
    <3>3. Begun(i.mode[x]) /\ Begun(g.mode[x])
      BY <1>1, <2>3, <2>4
    <3> QED
      BY <2>2, <3>2, <3>3 DEF InOrder, Before, Through, Sent
  <2>7. Held(i, k) /\ \A x \in Sides : Drained(i, f, x) /\ Unlost(i, x)
    <3>1. "remote" \in Sides
      BY DEF Sides
    <3>2. \A x \in Sides : i.mode[x] = "relaying" => g.mode[x] = "relaying"
      BY <1>1, <2>2
    <3> QED
      BY <1>8, <2>2, <2>4, <3>1, <3>2 DEF Held, Drained, Unlost
  <2> QED
    BY <1>1, <2>1, <2>5, <2>6, <2>7 DEF Passing, Flows
<1>14. CASE c.mode[e] = "draining"
  <2> DEFINE i == FreeEvent(FreeAsOther(d, e), e)
  <2>1. Closed(c, e) = i
    BY <1>14 DEF Closed, d
  <2>2. Without(d, e, i)
    BY <1>3, FreesAreWithout
  <2> HIDE DEF i
  <2>3. Flows(i, G, f)
    BY <1>3, <1>4, <1>5, <2>2, WithoutFlows
  <2>4. Held(i, k) /\ \A x \in Sides : Drained(i, f, x) /\ Unlost(i, x)
    BY <1>3, <1>5, <2>2, WithoutPassing
  <2> QED
    BY <2>1, <2>3, <2>4 DEF Passing
<1>15. c.mode[e] \in {"connecting", "replying", "relaying", "draining"}
  BY <1>2 DEF PairType
<1> QED
  BY <1>11, <1>12, <1>13, <1>14, <1>15

\* The kernel takes the first n bytes of an out_buffer, and the write_cb runs.
LEMMA TakenFields ==
  ASSUME NEW c \in PairType(Int), NEW e \in Sides, NEW n \in 0..Len(c.out[e])
  PROVE  /\ Taken(c, e, n).live = c.live /\ Taken(c, e, n).in = c.in
         /\ Taken(c, e, n).mode = c.mode /\ Taken(c, e, n).lost = c.lost
         /\ Taken(c, e, n).enabled = c.enabled
         /\ Taken(c, e, n) \in PairType(Int)
         /\ \A x \in Sides : Sent(Taken(c, e, n), x) = Sent(c, x)
         /\ n = 0 => Taken(c, e, n).got = c.got /\ Taken(c, e, n).out = c.out
<1> DEFINE s == c.out[e]
           a == SubSeq(s, 1, n)
           b == SubSeq(s, n + 1, Len(s))
           z == c.got[e] \o a
           d == [c EXCEPT !.got[e] = z, !.out[e] = b]
<1>1. s \in Seq(Int) /\ c.got[e] \in Seq(Int) /\ Len(s) \in Nat
  BY Buffers, LenProperties
<1>2. n \in Nat /\ n <= Len(s)
  BY <1>1
<1> HIDE DEF s, z
<1>3. a \in Seq(Int) /\ b \in Seq(Int)
  <2>1. \A i \in 1..Len(s) : s[i] \in Int
    BY <1>1, ElementOfSeq
  <2>2. a \in Seq(Int)
    BY <1>1, <1>2, <2>1, SubSeqProperties
  <2>3. b \in Seq(Int)
    BY <1>1, <1>2, <2>1, SubSeqProperties
  <2> QED
    BY <2>2, <2>3
<1>4. a \o b = s
  <2>1. a \o b = SubSeq(s, 1, Len(s))
    <3>1. 1 \in 1..Len(s) + 1 /\ n \in 1 - 1..Len(s) /\ Len(s) \in n..Len(s)
      BY <1>1, <1>2
    <3> QED
      BY <1>1, <3>1, ConcatAdjacentSubSeq
  <2> QED
    BY <1>1, <2>1, SubSeqFull
<1>5. n = 0 => a = << >> /\ b = s
  BY <1>1, SubSeqEmpty, SubSeqFull
<1> HIDE DEF a, b
<1>6. c.got[e] \o a \in Seq(Int) /\ (c.got[e] \o a) \o b = c.got[e] \o s
  <2>1. c.got[e] \o a \in Seq(Int)
    BY <1>1, <1>3, ConcatProperties
  <2>2. (c.got[e] \o a) \o b = c.got[e] \o (a \o b)
    BY <1>1, <1>3, Associates, Zenon
  <2> QED
    BY <1>4, <2>1, <2>2
<1>7. n = 0 => c.got[e] \o a = c.got[e]
  BY <1>1, <1>5, ConcatEmptySeq
<1>0. z \in Seq(Int)
  BY <1>6 DEF z
<1>8. /\ d.live = c.live /\ d.in = c.in /\ d.mode = c.mode /\ d.lost = c.lost
      /\ d.enabled = c.enabled /\ d.got = [c.got EXCEPT ![e] = z]
      /\ d.out = [c.out EXCEPT ![e] = b]
  BY DEF PairType
<1>9. d \in PairType(Int)
  BY <1>3, <1>0 DEF PairType
<1>10. Taken(c, e, n) = d
  BY DEF Taken, a, b, s, z
<1> HIDE DEF d
<1>11. c.got \in [Sides -> Seq(Int)] /\ c.out \in [Sides -> Seq(Int)]
  BY DEF PairType
<1>12. \A x \in Sides : Sent(d, x) = Sent(c, x)
  <2>1. SUFFICES ASSUME NEW x \in Sides PROVE Sent(d, x) = Sent(c, x)
    OBVIOUS
  <2>2. CASE x = e
    BY <1>6, <1>8, <1>11, <2>2 DEF Sent, s, z
  <2>3. CASE x # e
    BY <1>8, <1>11, <2>3 DEF Sent
  <2> QED
    BY <2>2, <2>3
<1>13. n = 0 => d.got = c.got /\ d.out = c.out
  <2>1. SUFFICES ASSUME n = 0 PROVE d.got = c.got /\ d.out = c.out
    OBVIOUS
  <2>2. d.got = [c.got EXCEPT ![e] = c.got[e]] /\ d.out = [c.out EXCEPT ![e] = c.out[e]]
    BY <1>5, <1>7, <1>8, <2>1, Zenon DEF s, z
  <2> QED
    BY <1>11, <2>2
<1> QED
  BY <1>8, <1>9, <1>10, <1>12, <1>13

\* Before the relay only the reply is ever written, ...
LEMMA RelayStarts ==
  ASSUME NEW c, Sound(Int, c), NEW G \in [Sides -> Nat], NEW f \in BOOLEAN, NEW k \in BOOLEAN,
         Passing(c, G, f, k), NEW e \in Sides, c.live[e], c.mode[e] = "replying",
         NEW n \in 0..Len(c.out[e]), Taken(c, e, n).out[e] = << >>
  PROVE  Passing(StartRelay(Taken(c, e, n)), G, f, k)
<1> DEFINE d == Taken(c, e, n)
           h == StartRelay(d)
<1>1. c \in PairType(Int) /\ "remote" \in Sides /\ e = "server" /\ Other(e) = "remote"
      /\ Other("remote") = e /\ Sides = {e, "remote"}
  BY DEF Sound, Sides, Other
<1>2. /\ d.live = c.live /\ d.in = c.in /\ d.mode = c.mode /\ d.lost = c.lost
      /\ d \in PairType(Int) /\ \A x \in Sides : Sent(d, x) = Sent(c, x)
  BY <1>1, TakenFields
<1>3. d.out[e] = << >>
  OBVIOUS
<1> HIDE DEF d
<1>4. /\ h.live = d.live /\ h.in = d.in /\ h.out = d.out /\ h.got = d.got /\ h.lost = d.lost
      /\ h.mode = Both("relaying")
  BY <1>2 DEF StartRelay, PairType
<1> HIDE DEF h
<1>5. /\ Ends(c, e) /\ Before(c, G, f, e) /\ Ends(c, "remote") /\ Before(c, G, f, "remote")
      /\ InOrder(c, G, e) /\ InOrder(c, G, "remote")
  BY <1>1 DEF Passing, Flows
<1>6. ~Begun(c.mode[e]) /\ ~Begun(c.mode["remote"])
  BY <1>1, <1>5 DEF Ends, Begun
<1>7. c.live["remote"] /\ c.mode["remote"] # "replying"
  BY <1>1 DEF Sound
<1>8. /\ c.got[e] = << >> /\ c.in[e] = Upto(G[e]) /\ c.out[e] = <<REPLY>> /\ G[e] = 0
      /\ c.got["remote"] = << >> /\ c.in["remote"] = Upto(G["remote"])
      /\ c.out["remote"] = << >>
      /\ ~f => G["remote"] = 0
  BY <1>1, <1>5, <1>6, <1>7 DEF Before
<1>9. Upto(0) = << >>
  BY DEF Upto
<1>10. Sent(c, e) = <<REPLY>> /\ Sent(c, "remote") = << >>
  <2>1. << >> \o <<REPLY>> = <<REPLY>> /\ << >> \o << >> = << >>
    <3>1. <<REPLY>> \in Seq(Int) /\ << >> \in Seq(Int)
      BY DEF REPLY
    <3> QED
      BY <3>1, ConcatEmptySeq
  <2> QED
    BY <1>8, <2>1 DEF Sent
<1>11. Due(G, e) = <<REPLY>> \o Upto(G["remote"]) /\ Due(G, "remote") = << >> \o Upto(0)
  BY <1>1, <1>8 DEF Due
<1>12. /\ Through(h, G, f, e) /\ Through(h, G, f, "remote")
       /\ InOrder(h, G, e) /\ InOrder(h, G, "remote")
  <2>1. Sent(h, e) = Sent(c, e) /\ Sent(h, "remote") = Sent(c, "remote")
    BY <1>1, <1>2, <1>4 DEF Sent
  <2> QED
    BY <1>1, <1>2, <1>4, <1>5, <1>8, <1>10, <1>11, <2>1 DEF Through, InOrder
<1>13. /\ Ends(h, e) /\ Ends(h, "remote") /\ Before(h, G, f, e) /\ Before(h, G, f, "remote")
  BY <1>1, <1>2, <1>4, <1>7 DEF Ends, Before, Both, Begun
<1>14. Drained(h, f, e) /\ Drained(h, f, "remote")
  BY <1>2, <1>4, <1>8, <1>9 DEF Drained
<1>15. \A x \in Sides : Unlost(h, x)
  BY <1>2, <1>4 DEF Passing, Unlost
<1>16. Held(h, k)
  BY <1>1, <1>4 DEF Held, Both, Begun
<1>17. h = StartRelay(Taken(c, e, n))
  BY DEF h, d
<1> QED
  BY <1>1, <1>12, <1>13, <1>14, <1>15, <1>16, <1>17 DEF Passing, Flows

\* ... and a side that is left alone is freed when it has sent everything.
LEMMA WrittenPassing ==
  ASSUME NEW c, Sound(Int, c), NEW G \in [Sides -> Nat], NEW f \in BOOLEAN, NEW k \in BOOLEAN,
         Passing(c, G, f, k), NEW e \in Sides, c.live[e], NEW n \in 0..Len(c.out[e])
  PROVE  Passing(Written(Taken(c, e, n), e), G, f, k)
<1> DEFINE d == Taken(c, e, n)
           o == Other(e)
<1>1. o \in Sides /\ o # e /\ Other(o) = e /\ Other(e) = o /\ Sides = {e, o}
  BY OtherSide
<1>2. c \in PairType(Int)
  BY DEF Sound
<1>3. /\ d.live = c.live /\ d.in = c.in /\ d.mode = c.mode /\ d.lost = c.lost
      /\ d.enabled = c.enabled /\ d \in PairType(Int)
      /\ \A x \in Sides : Sent(d, x) = Sent(c, x)
      /\ n = 0 => d.got = c.got /\ d.out = c.out
  BY <1>2, TakenFields
<1>4. d.out[o] = c.out[o] /\ d.got[o] = c.got[o]
  BY <1>1, <1>2 DEF Taken, PairType
<1> HIDE DEF o
<1>5. CASE c.mode[e] = "replying" /\ d.out[e] = << >>
  <2>1. Written(d, e) = StartRelay(d)
    BY <1>3, <1>5 DEF Written
  <2> QED
    BY <1>5, <2>1, RelayStarts
<1>6. ASSUME ~(c.mode[e] = "replying" /\ d.out[e] = << >>)
      PROVE  Passing(d, G, f, k)
  <2>1. ASSUME ~Begun(c.mode[e])
        PROVE  n = 0
    <3>1. Before(c, G, f, e)
      BY DEF Passing, Flows
    <3>2. c.out[e] = IF c.mode[e] = "replying" THEN <<REPLY>> ELSE << >>
      BY <2>1, <3>1 DEF Before
    <3>3. CASE c.mode[e] # "replying"
      BY <3>2, <3>3
    <3>4. CASE c.mode[e] = "replying"
      <4>1. c.out[e] = <<REPLY>> /\ Len(c.out[e]) = 1 /\ REPLY \in Int
        BY <3>2, <3>4 DEF REPLY
      <4>2. n = 1 => SubSeq(c.out[e], n + 1, Len(c.out[e])) = << >>
        BY <4>1, SubSeqEmpty
      <4>3. d.out[e] = SubSeq(c.out[e], n + 1, Len(c.out[e]))
        BY <1>2 DEF Taken, PairType
      <4> QED
        BY <1>6, <3>4, <4>1, <4>2, <4>3
    <3> QED
      BY <3>3, <3>4
  <2> HIDE DEF d
  <2>2. \A x \in Sides : Drained(d, f, x) /\ Unlost(d, x)
    BY <1>3 DEF Passing, Drained, Unlost
  <2>3. Held(d, k)
    BY <1>3 DEF Passing, Held
  <2>4. /\ Ends(c, e) /\ InOrder(c, G, e) /\ Before(c, G, f, e) /\ Through(c, G, f, e)
        /\ Ends(c, o) /\ InOrder(c, G, o) /\ Before(c, G, f, o) /\ Through(c, G, f, o)
    BY <1>1 DEF Passing, Flows
  <2>5. Ends(d, e) /\ Ends(d, o)
    BY <1>1, <1>3, <1>4, <2>4 DEF Ends
  <2>6. /\ InOrder(d, G, e) /\ InOrder(d, G, o)
        /\ Through(d, G, f, e) /\ Through(d, G, f, o)
    BY <1>1, <1>3, <2>4 DEF InOrder, Through
  <2>7. Before(d, G, f, e) /\ Before(d, G, f, o)
    <3>1. Before(d, G, f, o)
      BY <1>3, <1>4, <2>4 DEF Before
    <3>2. CASE Begun(c.mode[e])
      BY <1>3, <3>1, <3>2 DEF Before
    <3>3. CASE ~Begun(c.mode[e])
      BY <1>3, <2>1, <2>4, <3>1, <3>3 DEF Before
    <3> QED
      BY <3>2, <3>3
  <2> QED
    BY <1>1, <2>2, <2>3, <2>5, <2>6, <2>7 DEF Passing, Flows
<1>7. CASE c.mode[e] = "draining" /\ d.out[e] = << >>
  <2>1. Written(d, e) = Gone(d, e)
    BY <1>3, <1>7 DEF Written
  <2>2. Passing(d, G, f, k)
    BY <1>6, <1>7
  <2>3. d.lost[o]
    BY <1>1, <1>3, <1>7, <2>2 DEF Passing, Flows, Ends
  <2>4. Without(d, e, Gone(d, e))
    BY <1>3, FreesAreWithout
  <2>5. d.out[e] = << >>
    BY <1>7
  <2> HIDE DEF d
  <2>6. \A x \in Sides : Drained(d, f, x) /\ Unlost(d, x)
    BY <2>2 DEF Passing
  <2>7. Flows(d, G, f) /\ Held(d, k)
    BY <2>2 DEF Passing
  <2>8. Flows(Gone(d, e), G, f)
    BY <1>1, <1>3, <2>3, <2>4, <2>5, <2>6, <2>7, WithoutFlows
  <2>9. /\ Held(Gone(d, e), k)
        /\ \A x \in Sides : Drained(Gone(d, e), f, x) /\ Unlost(Gone(d, e), x)
    BY <1>3, <2>4, <2>6, <2>7, WithoutPassing
  <2> QED
    BY <2>1, <2>8, <2>9 DEF Passing, d
<1>8. CASE ~(c.mode[e] \in {"replying", "draining"} /\ d.out[e] = << >>)
  <2>0. d.mode[e] = c.mode[e]
    BY <1>3
  <2> HIDE DEF d
  <2>1. Written(d, e) = d
    BY <1>8, <2>0 DEF Written
  <2>2. Passing(d, G, f, k)
    BY <1>6, <1>8
  <2> QED
    BY <2>1, <2>2 DEF d
<1> QED
  BY <1>5, <1>7, <1>8

LEMMA PushPassing ==
  ASSUME NEW c, Sound(Int, c), NEW G \in [Sides -> Nat], NEW f \in BOOLEAN, NEW k \in BOOLEAN,
         Passing(c, G, f, k), NEW e \in Sides, c.live[e], NEW d \in Push(c, e)
  PROVE  Passing(d, G, f, k)
<1>1. CASE d = Closed(c, e)
  BY <1>1, ClosedPassing
<1>2. ASSUME NEW n \in 0..Len(c.out[e]), d = Written(Taken(c, e, n), e)
      PROVE  Passing(d, G, f, k)
  BY <1>2, WrittenPassing
<1> QED
  BY <1>1, <1>2 DEF Push

\* The relay puts everything in the in_buffer of a side into the out_buffer of
\* the other.  (The in_buffer is not Drained when the callback begins.)
LEMMA ReadCallbackPassing ==
  ASSUME NEW c, Sound(Int, c), NEW G \in [Sides -> Nat], NEW f \in BOOLEAN, NEW k \in BOOLEAN,
         NEW e \in Sides, c.live[e], Flows(c, G, f), Held(c, k),
         \A x \in Sides : Unlost(c, x) /\ (x # e => Drained(c, f, x)),
         NEW d \in ReadCallback(c, e)
  PROVE  Passing(d, G, f, k)
<1> DEFINE o == Other(e)
<1>1. o \in Sides /\ o # e /\ Other(o) = e /\ Other(e) = o /\ Sides = {e, o}
  BY OtherSide
<1>2. c \in PairType(Int)
  BY DEF Sound
<1>3. CASE c.mode[e] # "relaying"
  <2>1. d = c
    BY <1>3 DEF ReadCallback
  <2> QED
    BY <1>3, <2>1 DEF Passing, Drained
<1>4. CASE c.mode[e] = "relaying"
  <2> DEFINE z == c.out[o] \o c.in[e]
             g == [c EXCEPT !.in[e] = << >>, !.out[o] = z]
  <2>1. d \in Push(g, o)
    BY <1>4 DEF ReadCallback
  <2>2. c.live[o] /\ c.mode[o] = "relaying"
    <3>1. c.live[o] /\ c.mode[o] # "draining"
      BY <1>1, <1>4 DEF Sound
    <3>2. Begun(c.mode[o])
      BY <1>1, <1>4 DEF Flows, Ends, Begun
    <3> QED
      BY <3>1, <3>2 DEF Begun
  <2>3. z \in Seq(Int) /\ << >> \in Seq(Int)
    BY <1>1, <1>2, Buffers, ConcatProperties
  <2> HIDE DEF o, z
  <2>4. /\ g \in PairType(Int) /\ g.live = c.live /\ g.mode = c.mode /\ g.lost = c.lost
        /\ g.got = c.got /\ g.enabled = c.enabled
        /\ g.context = c.context /\ g.misused = c.misused
        /\ g.in = [c.in EXCEPT ![e] = << >>] /\ g.out = [c.out EXCEPT ![o] = z]
    BY <1>1, <1>2, <2>3 DEF PairType
  <2>5. /\ g.in[e] = << >> /\ g.in[o] = c.in[o] /\ g.out[o] = z /\ g.out[e] = c.out[e]
    BY <1>1, <1>2, <2>4 DEF PairType
  <2> HIDE DEF g
  <2>6. Sound(Int, g)
    BY <2>4 DEF Sound
  <2>7. /\ Ends(c, e) /\ InOrder(c, G, e) /\ Before(c, G, f, e) /\ Through(c, G, f, e)
        /\ Ends(c, o) /\ InOrder(c, G, o) /\ Before(c, G, f, o) /\ Through(c, G, f, o)
    BY <1>1 DEF Flows
  <2>8. Begun(c.mode[e]) /\ Begun(c.mode[o]) /\ ~c.lost[e] /\ ~c.lost[o]
    BY <1>1, <1>4, <2>2 DEF Unlost, Begun
  <2>9. Sent(g, o) = Due(G, o) /\ Sent(g, e) = Sent(c, e)
    <3>1. Sent(c, o) \o c.in[e] = Due(G, o)
      BY <1>1, <2>7, <2>8 DEF Through
    <3>2. (c.got[o] \o c.out[o]) \o c.in[e] = c.got[o] \o (c.out[o] \o c.in[e])
      <4>1. c.got[o] \in Seq(Int) /\ c.out[o] \in Seq(Int) /\ c.in[e] \in Seq(Int)
        BY <1>1, <1>2, Buffers
      <4> QED
        BY <4>1, Associates
    <3>3. Sent(g, o) = c.got[o] \o z
      BY <2>4, <2>5 DEF Sent
    <3> QED
      BY <2>4, <2>5, <3>1, <3>2, <3>3 DEF Sent, z
  <2>10. Due(G, o) \in Seq(Int) /\ Due(G, o) \o << >> = Due(G, o) /\ IsPrefix(Due(G, o), Due(G, o))
    BY <1>1, DueType, ConcatEmptySeq, PrefixOfLonger
  <2>11. InOrder(g, G, o) /\ InOrder(g, G, e) /\ Through(g, G, f, o) /\ Through(g, G, f, e)
    BY <1>1, <2>4, <2>5, <2>7, <2>9, <2>10 DEF InOrder, Through
  <2>12. /\ Ends(g, e) /\ Ends(g, o) /\ Before(g, G, f, e) /\ Before(g, G, f, o)
    BY <1>1, <2>2, <2>4, <2>7, <2>8 DEF Ends, Before
  <2>13. \A x \in Sides : Drained(g, f, x) /\ Unlost(g, x)
    BY <1>1, <2>4, <2>5 DEF Drained, Unlost
  <2>14. Held(g, k)
    BY <2>4 DEF Held
  <2>15. Passing(g, G, f, k)
    BY <1>1, <2>11, <2>12, <2>13, <2>14 DEF Passing, Flows
  <2>16. g.live[o]
    BY <2>2, <2>4
  <2>17. d \in Push(g, o)
    BY <2>1 DEF g, o, z
  <2> QED
    BY <1>1, <2>6, <2>15, <2>16, <2>17, PushPassing
<1> QED
  BY <1>3, <1>4

\* The reply is put into the out_buffer of the client.
LEMMA AwaitsReplyPassing ==
  ASSUME NEW c, Sound(Int, c), Quiet(c), NEW G \in [Sides -> Nat], NEW f \in BOOLEAN,
         c.live["remote"], c.live["server"], Flows(c, G, f), \A x \in Sides : Unlost(c, x)
  PROVE  Passing(AwaitsReply(c), G, f, TRUE)
<1> DEFINE d == AwaitsReply(c)
<1>1. /\ "server" \in Sides /\ "remote" \in Sides /\ Other("server") = "remote"
      /\ Other("remote") = "server" /\ Sides = {"server", "remote"} /\ c \in PairType(Int)
  BY DEF Sides, Other, Sound
<1>2. c.mode["server"] = "connecting" /\ c.mode["remote"] = "connecting"
  BY <1>1 DEF Quiet, Both
<1>3. /\ Ends(c, "server") /\ Before(c, G, f, "server")
      /\ Ends(c, "remote") /\ Before(c, G, f, "remote") /\ InOrder(c, G, "remote")
  BY <1>1 DEF Flows
<1>4. c.out["server"] = << >> /\ c.got["server"] = << >>
  BY <1>2, <1>3 DEF Before, Begun
<1>5. <<REPLY>> \in Seq(Int) /\ Append(c.out["server"], REPLY) = <<REPLY>>
  BY <1>4 DEF REPLY
<1>6. d = [c EXCEPT !.enabled = FALSE, !.mode["server"] = "replying",
                    !.out["server"] = <<REPLY>>]
  BY <1>5 DEF AwaitsReply
<1>7. /\ d.live = c.live /\ d.in = c.in /\ d.got = c.got /\ d.lost = c.lost
      /\ d.enabled = FALSE /\ d.mode["server"] = "replying" /\ d.mode["remote"] = "connecting"
      /\ d.out["server"] = <<REPLY>> /\ d.out["remote"] = c.out["remote"]
  BY <1>1, <1>2, <1>6 DEF PairType
<1> HIDE DEF d
<1>8. InOrder(d, G, "server") /\ InOrder(d, G, "remote")
  <2>1. Sent(d, "server") = <<REPLY>>
    BY <1>4, <1>5, <1>7, ConcatEmptySeq DEF Sent
  <2>2. G["remote"] \in Nat
    BY <1>1
  <2>3. IsPrefix(<<REPLY>>, <<REPLY>> \o Upto(G["remote"]))
    BY <1>5, <2>2, UptoType, PrefixOfLonger
  <2>4. InOrder(d, G, "server")
    BY <1>1, <2>1, <2>3 DEF InOrder, Due
  <2> QED
    BY <1>3, <1>7, <2>4 DEF InOrder, Sent
<1>9. /\ Ends(d, "server") /\ Ends(d, "remote") /\ Before(d, G, f, "server")
      /\ Before(d, G, f, "remote") /\ Through(d, G, f, "server") /\ Through(d, G, f, "remote")
  BY <1>1, <1>2, <1>3, <1>7 DEF Ends, Before, Through, Begun
<1>10. \A x \in Sides : Drained(d, f, x) /\ Unlost(d, x)
  BY <1>1, <1>7 DEF Drained, Unlost
<1>11. Held(d, TRUE)
  BY <1>7 DEF Held
<1> QED
  BY <1>1, <1>8, <1>9, <1>10, <1>11 DEF Passing, Flows, d

\* Both sides go, whatever they hold, before the relay has begun.
LEMMA NothingPasses ==
  ASSUME NEW c, Sound(Int, c), Quiet(c), NEW G \in [Sides -> Nat], NEW f \in BOOLEAN,
         c.live["remote"], c.live["server"], Flows(c, G, f), \A x \in Sides : Unlost(c, x)
  PROVE  Passing(Gone(Gone(c, "remote"), "server"), G, f, TRUE)
<1>1. /\ "server" \in Sides /\ "remote" \in Sides /\ Other("server") = "remote"
      /\ Other("remote") = "server" /\ Sides = {"server", "remote"} /\ c \in PairType(Int)
      /\ c.context["remote"] = "live" /\ ~c.misused
  BY DEF Sides, Other, Sound
<1> DEFINE g == Gone(c, "remote")
           h == Gone(g, "server")
<1>2. g \in PairType(Int) /\ Without(c, "remote", g)
  BY <1>1, GoneType, FreesAreWithout
<1> HIDE DEF g
<1>3. Without(g, "server", h)
  BY <1>1, <1>2, FreesAreWithout
<1> HIDE DEF h
<1>4. c.mode["server"] = "connecting" /\ c.mode["remote"] = "connecting"
  BY <1>1 DEF Quiet, Both
<1>5. \A x \in Sides : ~Begun(c.mode[x]) /\ ~Begun(g.mode[x]) /\ ~Begun(h.mode[x])
  BY <1>1, <1>2, <1>3, <1>4 DEF Without, Begun
<1>6. \A x \in Sides : Drained(c, f, x) /\ Drained(g, f, x) /\ Drained(h, f, x)
  BY <1>5 DEF Drained, Begun
<1>7. Flows(g, G, f)
  BY <1>1, <1>2, <1>5, <1>6, WithoutFlows
<1>8. Flows(h, G, f)
  BY <1>1, <1>2, <1>3, <1>5, <1>6, <1>7, WithoutFlows
<1>9. ~h.live["remote"] /\ ~h.live["server"]
  BY <1>1, <1>2, <1>3 DEF Without, PairType
<1>10. Held(h, TRUE) /\ \A x \in Sides : Unlost(h, x)
  BY <1>1, <1>9 DEF Held, Unlost
<1> QED
  BY <1>6, <1>8, <1>10 DEF Passing, g, h

\* One more is due to the other side when a side is read.
LEMMA OneMoreDue ==
  ASSUME NEW G \in [Sides -> Nat], NEW e \in Sides
  PROVE  LET H == [G EXCEPT ![e] = G[e] + 1]
         IN  /\ H \in [Sides -> Nat] /\ H[e] = G[e] + 1 /\ H[Other(e)] = G[Other(e)]
             /\ Due(H, e) = Due(G, e)
             /\ Due(H, Other(e)) = Due(G, Other(e)) \o <<G[e] + 1>>
<1> DEFINE H == [G EXCEPT ![e] = G[e] + 1]
           o == Other(e)
           a == IF o = "server" THEN <<REPLY>> ELSE << >>
<1>1. o \in Sides /\ o # e /\ Other(o) = e /\ G[e] \in Nat
  BY OtherSide
<1> HIDE DEF o
<1>2. H \in [Sides -> Nat] /\ H[e] = G[e] + 1 /\ H[o] = G[o]
  BY <1>1
<1> HIDE DEF H
<1>3. Due(H, e) = Due(G, e)
  BY <1>2 DEF Due, o
<1>4. a \in Seq(Int) /\ <<G[e] + 1>> \in Seq(Int)
  BY <1>1 DEF REPLY
<1> HIDE DEF a
<1>5. /\ Upto(G[e]) \in Seq(Int) /\ Upto(G[e]) \o <<G[e] + 1>> = Upto(H[e])
  BY <1>1, <1>2, UptoType
<1>6. Due(H, o) = a \o Upto(H[e]) /\ Due(G, o) = a \o Upto(G[e])
  BY <1>1 DEF Due, a
<1>7. (a \o Upto(G[e])) \o <<G[e] + 1>> = a \o (Upto(G[e]) \o <<G[e] + 1>>)
  BY <1>4, <1>5, Associates
<1>8. Due(H, o) = Due(G, o) \o <<G[e] + 1>>
  BY <1>5, <1>6, <1>7
<1> QED
  BY <1>2, <1>3, <1>8 DEF H, o

LEMMA ReadPassing ==
  ASSUME Settled(Int, pair), given \in [Sides -> Nat], early \in BOOLEAN, connected \in BOOLEAN,
         Passing(pair, given, early, connected), NEW e \in Sides, Read(e)
  PROVE  Passing(pair', given', early', connected) /\ given' \in [Sides -> Nat]
<1> DEFINE n == given[e] + 1
           b == [pair EXCEPT !.in[e] = Append(pair.in[e], n)]
           o == Other(e)
           H == [given EXCEPT ![e] = given[e] + 1]
           f == (early \/ (e = "remote" /\ ~connected))
<1>1. o \in Sides /\ o # e /\ Other(o) = e /\ Other(e) = o /\ Sides = {e, o}
  BY OtherSide
<1>2. /\ pair.live[e] /\ pair \in PairType(Int) /\ n \in Nat /\ given' = H /\ early' = f
      /\ f \in BOOLEAN /\ (early => f)
  BY DEF Read, Reads, Settled, Sound
<1>3. /\ H \in [Sides -> Nat] /\ H[e] = n /\ H[o] = given[o]
      /\ Due(H, e) = Due(given, e) /\ Due(H, o) = Due(given, o) \o <<n>>
  BY OneMoreDue
<1>4. PICK c \in ReadCallback(b, e) : pair' \in IF c.live[e] THEN Push(c, e) ELSE {c}
  BY DEF Read
<1>5. /\ Ends(pair, e) /\ InOrder(pair, given, e)
      /\ Before(pair, given, early, e) /\ Through(pair, given, early, e)
      /\ Ends(pair, o) /\ InOrder(pair, given, o)
      /\ Before(pair, given, early, o) /\ Through(pair, given, early, o)
      /\ Held(pair, connected)
  BY <1>1 DEF Passing, Flows
<1>6. ~Begun(pair.mode[e]) => e = "remote" /\ o = "server" /\ f
  <2>1. SUFFICES ASSUME ~Begun(pair.mode[e]) PROVE e = "remote" /\ o = "server" /\ f
    OBVIOUS
  <2>2. e = "remote"
    <3>1. ASSUME e = "server" PROVE FALSE
      <4>1. pair.got["server"] = << >>
        BY <1>5, <2>1, <3>1 DEF Before
      <4>2. REPLY \in ToSet(pair.got["server"])
        BY <3>1 DEF Read
      <4> QED
        BY <4>1, <4>2 DEF ToSet
    <3> QED
      BY <3>1 DEF Sides
  <2>3. pair.enabled
    BY <2>2 DEF Read, Reads
  <2>4. ~connected
    BY <1>2, <1>5, <2>1, <2>2, <2>3 DEF Held
  <2> QED
    BY <2>2, <2>4 DEF Other
<1>7. ~Begun(pair.mode[o]) => ~Begun(pair.mode[e])
  BY <1>1, <1>5 DEF Ends
<1> DEFINE z == Append(pair.in[e], n)
<1>8. z \in Seq(Int) /\ z = pair.in[e] \o <<n>> /\ pair.in[e] \in Seq(Int) /\ <<n>> \in Seq(Int)
  <2>1. pair.in[e] \in Seq(Int) /\ n \in Int
    BY <1>2, Buffers
  <2> HIDE DEF n
  <2> QED
    BY <2>1, AppendProperties, AppendIsConcat
<1> HIDE DEF z
<1>9. b = [pair EXCEPT !.in[e] = z]
  BY DEF z
<1> HIDE DEF b, o, H, f, n
<1>10. /\ b \in PairType(Int) /\ b.live = pair.live /\ b.mode = pair.mode /\ b.lost = pair.lost
       /\ b.got = pair.got /\ b.out = pair.out /\ b.enabled = pair.enabled
       /\ b.context = pair.context /\ b.misused = pair.misused
       /\ b.in = [pair.in EXCEPT ![e] = z]
  BY <1>2, <1>8, <1>9 DEF PairType
<1>11. b.in[e] = z /\ b.in[o] = pair.in[o]
  BY <1>1, <1>2, <1>10 DEF PairType
<1>12. Settled(Int, b)
  BY <1>10 DEF Settled, Sound
<1>13. /\ Ends(b, e) /\ Ends(b, o) /\ InOrder(b, H, e)
  BY <1>1, <1>2, <1>3, <1>5, <1>10, <1>11 DEF Ends, InOrder, Sent
<1>14. InOrder(b, H, o)
  <2>1. Sent(pair, o) \in Seq(Int) /\ Due(given, o) \in Seq(Int)
    BY <1>1, <1>2, Buffers, DueType
  <2>2. IsPrefix(Sent(pair, o), Due(given, o)) => IsPrefix(Sent(pair, o), Due(given, o) \o <<n>>)
    BY <1>8, <2>1, PrefixOfLonger
  <2> QED
    BY <1>3, <1>5, <1>10, <2>2 DEF InOrder, Sent
<1>15. Before(b, H, f, e)
  <2>1. given[e] \in Nat /\ Upto(given[e]) \o <<n>> = Upto(n)
    BY UptoType DEF n
  <2>2. SUFFICES ASSUME ~Begun(pair.mode[e]) PROVE Before(b, H, f, e)
    BY <1>10 DEF Before
  <2>3. pair.in[e] = Upto(given[e])
    BY <1>2, <1>5, <2>2 DEF Before
  <2>4. b.in[e] = Upto(H[e])
    BY <1>3, <1>8, <1>11, <2>1, <2>3
  <2> QED
    BY <1>5, <1>6, <1>10, <2>2, <2>4 DEF Before
<1>16. Before(b, H, f, o)
  <2>1. SUFFICES ASSUME ~Begun(pair.mode[o]) PROVE Before(b, H, f, o)
    BY <1>10 DEF Before
  <2>2. o = "server" /\ H[o] = given[o] /\ b.in[o] = pair.in[o]
    BY <1>3, <1>6, <1>7, <1>11, <2>1
  <2> QED
    BY <1>5, <1>10, <2>1, <2>2 DEF Before
<1>17. Through(b, H, f, e)
  BY <1>1, <1>2, <1>3, <1>5, <1>10, <1>11 DEF Through, Sent
<1>18. Through(b, H, f, o)
  <2>1. SUFFICES ASSUME Begun(pair.mode[o]), ~pair.lost[o], ~(f /\ pair.lost[e])
                 PROVE  Sent(pair, o) \o z = Due(given, o) \o <<n>>
    BY <1>1, <1>3, <1>10, <1>11 DEF Through, Sent
  <2>2. Sent(pair, o) \o pair.in[e] = Due(given, o)
    BY <1>1, <1>2, <1>5, <2>1 DEF Through
  <2>3. Sent(pair, o) \in Seq(Int)
    BY <1>1, <1>2, Buffers
  <2>4. (Sent(pair, o) \o pair.in[e]) \o <<n>> = Sent(pair, o) \o (pair.in[e] \o <<n>>)
    BY <1>8, <2>3, Associates
  <2> QED
    BY <1>8, <2>2, <2>4
<1>19. Flows(b, H, f)
  BY <1>1, <1>13, <1>14, <1>15, <1>16, <1>17, <1>18 DEF Flows
<1>20. Held(b, connected) /\ \A x \in Sides : Unlost(b, x) /\ (x # e => Drained(b, f, x))
  BY <1>1, <1>2, <1>5, <1>10, <1>11 DEF Passing, Held, Unlost, Drained
<1>21. b.live[e] /\ Sound(Int, b)
  BY <1>2, <1>10, <1>12 DEF Settled
<1>22. Passing(c, H, f, connected)
  <2>1. H \in [Sides -> Nat] /\ f \in BOOLEAN /\ c \in ReadCallback(b, e)
    BY <1>2, <1>3, <1>4
  <2> QED
    BY <1>19, <1>20, <1>21, <2>1, ReadCallbackPassing, Zenon
<1>23. Settled(Int, c)
  BY <1>4, <1>12, <1>21, ReadCallbackSettled
<1>24. Passing(pair', H, f, connected)
  <2>1. CASE c.live[e]
    <3>1. pair' \in Push(c, e) /\ Sound(Int, c)
      BY <1>4, <1>23, <2>1 DEF Settled
    <3> QED
      BY <1>2, <1>3, <1>22, <2>1, <3>1, PushPassing
  <2>2. CASE ~c.live[e]
    BY <1>4, <1>22, <2>2
  <2> QED
    BY <2>1, <2>2
<1> QED
  BY <1>2, <1>3, <1>24

LEMMA EndPassing ==
  ASSUME Settled(Int, pair), given \in [Sides -> Nat], early \in BOOLEAN, connected \in BOOLEAN,
         Passing(pair, given, early, connected), NEW e \in Sides, End(e)
  PROVE  Passing(pair', given, early, connected)
<1>1. pair.live[e]
  BY DEF End, Reads
<1>2. PICK c \in IF pair.in[e] = << >> THEN {pair} ELSE ReadCallback(pair, e) :
        pair' = IF c.live[e] THEN Closed(c, e) ELSE c
  BY DEF End
<1>3. Settled(Int, c) /\ Passing(c, given, early, connected)
  <2>1. CASE pair.in[e] = << >>
    BY <1>2, <2>1
  <2>2. CASE pair.in[e] # << >>
    <3>1. c \in ReadCallback(pair, e)
      BY <1>2, <2>2
    <3>2. Settled(Int, c)
      BY <1>1, <3>1, ReadCallbackSettled
    <3>3. /\ Sound(Int, pair) /\ Flows(pair, given, early) /\ Held(pair, connected)
          /\ \A x \in Sides : Unlost(pair, x) /\ (x # e => Drained(pair, early, x))
      BY DEF Settled, Passing
    <3>4. Passing(c, given, early, connected)
      BY <1>1, <3>1, <3>3, ReadCallbackPassing
    <3> QED
      BY <3>2, <3>4
  <2> QED
    BY <2>1, <2>2
<1>4. CASE c.live[e]
  BY <1>2, <1>3, <1>4, ClosedPassing DEF Settled
<1>5. CASE ~c.live[e]
  BY <1>2, <1>3, <1>5
<1> QED
  BY <1>4, <1>5

-----------------------------------------------------------------------------
(* What follows.                                                           *)

\* Every variable keeps its type.
THEOREM SessionTypeCorrect == Spec => []TypeOK
<1>1. SessionInv => TypeOK
  BY DEF SessionInv
<1> QED
  BY <1>1, SessionInvariant, PTL

\* Whichever side ends first, and wherever in a callback of the other, nothing
\* is freed twice or used after it is freed (transfer.c, docks_connect.c).
THEOREM SessionFreedOnce == Spec => []FreedOnce
<1>1. SessionInv => FreedOnce
  BY DEF SessionInv, Settled, Sound, FreedOnce
<1> QED
  BY <1>1, SessionInvariant, PTL

\* No context outlives its event, nor an event its context.
THEOREM SessionContexts == Spec => []ContextFollowsEvent
<1>1. SessionInv => ContextFollowsEvent
  BY DEF SessionInv, Settled, Sound, ContextFollowsEvent
<1> QED
  BY <1>1, SessionInvariant, PTL

\* One side outlives the other only to send what it still holds
\* (docket_server_disconnect_event, docket_remote_disconnect_event).
THEOREM SessionOutlives == Spec => []OutlivesToSend
<1>1. SessionInv => OutlivesToSend
  BY DEF SessionInv, Settled, Sound, OutlivesToSend
<1> QED
  BY <1>1, SessionInvariant, PTL

LEMMA SettledWithInt ==
  ASSUME NEW c, Settled(Symbols, c)
  PROVE  Settled(Int, c)
<1>1. Symbols \subseteq Int
  BY MaxReadAssumption DEF Symbols
<1>2. \A s \in Seq(Symbols) : s \in Seq(Int)
  BY <1>1, SeqMonotonic
<1>3. c \in PairType(Symbols)
  BY DEF Settled, Sound
<1>4. c.in \in [Sides -> Seq(Int)] /\ c.out \in [Sides -> Seq(Int)] /\ c.got \in [Sides -> Seq(Int)]
  BY <1>2, <1>3 DEF PairType
<1>5. c \in PairType(Int)
  BY <1>3, <1>4 DEF PairType
<1> QED
  BY <1>5 DEF Settled, Sound

\* The inductive invariant of what passes through, on top of SessionInv.
PassingInv == Passing(pair, given, early, connected)

LEMMA PassingInit ==
  ASSUME Init
  PROVE  PassingInv
<1>1. /\ pair.live = Both(TRUE) /\ pair.in = Both(<< >>) /\ pair.out = Both(<< >>)
      /\ pair.mode = Both("connecting") /\ pair.got = Both(<< >>) /\ pair.lost = Both(FALSE)
      /\ connected = FALSE /\ early = FALSE /\ given = Both(0)
  BY DEF Init
<1>2. Upto(0) = << >>
  BY DEF Upto
<1>3. SUFFICES ASSUME NEW e \in Sides
               PROVE  /\ Ends(pair, e) /\ InOrder(pair, given, e)
                      /\ Before(pair, given, early, e) /\ Through(pair, given, early, e)
                      /\ Drained(pair, early, e) /\ Unlost(pair, e)
  BY <1>1 DEF PassingInv, Passing, Flows, Held
<1>4. /\ pair.live[e] /\ pair.in[e] = << >> /\ pair.out[e] = << >> /\ pair.got[e] = << >>
      /\ pair.mode[e] = "connecting" /\ ~pair.lost[e] /\ given[e] = 0
  BY <1>1 DEF Both
<1>5. InOrder(pair, given, e)
  <2>1. given \in [Sides -> Nat]
    BY <1>1 DEF Both
  <2>2. Due(given, e) \in Seq(Int) /\ << >> \in Seq(Int)
    BY <2>1, DueType
  <2>3. Sent(pair, e) = << >>
    BY <1>4, <2>2, ConcatEmptySeq DEF Sent
  <2> QED
    BY <2>2, <2>3, PrefixOfLonger DEF InOrder
<1> QED
  BY <1>2, <1>4, <1>5 DEF Ends, Before, Through, Drained, Unlost, Begun

LEMMA PassingNext ==
  ASSUME SessionInv, PassingInv, [Next]_vars
  PROVE  PassingInv'
<1>1. /\ Settled(Int, pair) /\ Sound(Int, pair) /\ Passing(pair, given, early, connected)
      /\ ~connected => Quiet(pair)
  BY SettledWithInt DEF SessionInv, PassingInv, Settled
<1>2. given \in [Sides -> Nat] /\ early \in BOOLEAN /\ connected \in BOOLEAN
  BY MaxReadAssumption DEF SessionInv, TypeOK
<1>3. CASE UNCHANGED vars
  BY <1>1, <1>3 DEF vars, PassingInv
<1>4. CASE Connect
  <2>1. /\ connected' = TRUE /\ given' = given /\ early' = early /\ pair.live["remote"]
        /\ Quiet(pair)
        /\ pair' \in {Gone(Gone(pair, "remote"), "server")} \cup Push(AwaitsReply(pair), "server")
    BY <1>1, <1>4 DEF Connect
  <2>2. pair.live["server"]
    BY <1>1, <2>1 DEF Quiet, Both, Sound, Sides, Other
  <2>3. Flows(pair, given, early) /\ \A x \in Sides : Unlost(pair, x)
    BY <1>1 DEF Passing
  <2>4. CASE pair' = Gone(Gone(pair, "remote"), "server")
    <3>1. Passing(pair', given, early, TRUE)
      BY <1>1, <1>2, <2>1, <2>2, <2>3, <2>4, NothingPasses
    <3> QED
      BY <2>1, <3>1 DEF PassingInv
  <2>5. CASE pair' \in Push(AwaitsReply(pair), "server")
    <3>1. Passing(AwaitsReply(pair), given, early, TRUE)
      BY <1>1, <1>2, <2>1, <2>2, <2>3, AwaitsReplyPassing
    <3>2. Sound(Int, AwaitsReply(pair)) /\ AwaitsReply(pair).live["server"]
      BY <1>1, <2>1, AwaitsReplySettled DEF Settled, REPLY
    <3>3. Passing(pair', given, early, TRUE)
      BY <1>2, <2>5, <3>1, <3>2, PushPassing DEF Sides
    <3> QED
      BY <2>1, <3>3 DEF PassingInv
  <2> QED
    BY <2>1, <2>4, <2>5
<1>5. CASE ConnectFails
  <2>1. Passing(Closed(pair, "remote"), given, early, connected)
    BY <1>1, <1>2, <1>5, ClosedPassing DEF ConnectFails, Sides
  <2> QED
    BY <1>5, <2>1 DEF ConnectFails, PassingInv
<1>6. ASSUME NEW e \in Sides, Read(e)
      PROVE  PassingInv'
  <2>1. Passing(pair', given', early', connected)
    BY <1>1, <1>2, <1>6, ReadPassing
  <2> QED
    BY <1>6, <2>1 DEF Read, PassingInv
<1>7. ASSUME NEW e \in Sides, End(e)
      PROVE  PassingInv'
  <2>1. Passing(pair', given, early, connected)
    BY <1>1, <1>2, <1>7, EndPassing
  <2> QED
    BY <1>7, <2>1 DEF End, PassingInv
<1> QED
  BY <1>3, <1>4, <1>5, <1>6, <1>7 DEF Next

\* What was read from one side reaches the other, in order and completely, unless
\* the connection that should take it ends (transfer.c, docks_connect.c).
LEMMA PassingIsDelivered ==
  ASSUME TypeOK, PassingInv
  PROVE  Delivered
<1>1. SUFFICES ASSUME NEW e \in Sides
               PROVE  /\ InOrder(pair, given, e)
                      /\ Through(pair, given, early, e)
  BY DEF Delivered, InOrder, Through, Sent, Due, Upto, Expected, Begun
<1> QED
  BY DEF PassingInv, Passing, Flows

THEOREM SessionDelivered == Spec => []Delivered
<1>1. Init => SessionInv /\ PassingInv
  BY SessionInit, PassingInit
<1>2. PassingInv /\ SessionInv /\ [Next]_vars => PassingInv'
  BY PassingNext
<1>3. SessionInv /\ PassingInv => Delivered
  BY PassingIsDelivered DEF SessionInv
<1> QED
  BY <1>1, <1>2, <1>3, SessionInvariant, PTL DEF Spec
-----------------------------------------------------------------------------
(***************************************************************************)
(* The docks client (SocksClient): whatever a server upstream answers and  *)
(* however its answers are cut, it misuses nothing that was freed but in   *)
(* the two cases that FreedUnlessFault names; and when what is answered is *)
(* framed as SOCKS frames it, the client asks in turn, holds no answer     *)
(* back, and hands over a session like any other.                          *)
(*                                                                         *)
(* During the handshake the two connections are as a Session is before     *)
(* DEVENT_CONNECT, as long as the local client has not left; from the      *)
(* hand-over on they are a Session.  What passes through them is any       *)
(* number here: no reply has to be well formed for the first of these.     *)
(***************************************************************************)

\* The connections at every stage.
Lifetimes ==
  /\ pair \in PairType(Int) /\ given \in [Sides -> Int]
  /\ stage \in Shaking =>
       /\ ~pair.misused /\ pair.live["remote"] /\ pair.context["remote"] = "live"
       /\ pair.live["server"] => Settled(Int, pair) /\ Quiet(pair)
       /\ ~pair.live["server"] => fault # "none"
  /\ stage \in {"lost", "failed"} => ~pair.misused
  /\ stage = "crashed" /\ pair.misused => fault # "none"
  /\ stage = "done" => Settled(Int, pair) /\ connected
  /\ stage \in Shaking \cup {"failed", "lost", "crashed", "done"}

\* What is under way between client and server.
Signs == 0..(HOST + MaxSaid)
Streams ==
  /\ inbox \in Seq(Signs) /\ wire \in Seq(Signs)
  /\ asking \in Seq(Messages) /\ asked \in Seq(Messages)
  /\ answered \in Nat /\ answered <= Len(asked)
  /\ script \in [method : Methods, login : Logins, reply : Replies, said : 0..MaxSaid]
  /\ ending \in BOOLEAN /\ fault \in {"none", "left", "first_write"}

ClientInv == Lifetimes /\ Streams

-----------------------------------------------------------------------------
(* How a callback ends.                                                    *)

LEMMA BothSides == /\ "server" \in Sides /\ "remote" \in Sides /\ Sides = {"server", "remote"}
                   /\ Other("remote") = "server" /\ Other("server") = "remote"
  BY DEF Sides, Other

LEMMA SignsAre ==
  /\ HOST = 256 /\ MaxSaid \in Nat /\ MaxSaid <= MaxRead
  /\ Signs \subseteq Nat /\ 0..255 \subseteq Signs
  /\ \A n \in 0..MaxSaid : \A i \in 1..n : HOST + i \in Signs
  BY SocksClientAssumption, MaxReadAssumption DEF Signs, HOST

LEMMA Dropped ==
  ASSUME NEW b \in Seq(Signs), NEW k \in Nat
  PROVE  Drop(b, k) \in Seq(Signs) /\ (k <= Len(b) => SubSeq(b, 1, k) \in Seq(Signs))
<1>1. \A i \in 1..Len(b) : b[i] \in Signs
  BY ElementOfSeq
<1>2. SubSeq(b, k + 1, Len(b)) \in Seq(Signs)
  BY <1>1, SubSeqProperties, LenProperties
<1>3. k <= Len(b) => SubSeq(b, 1, k) \in Seq(Signs)
  BY <1>1, SubSeqProperties, LenProperties
<1> QED
  BY <1>2, <1>3 DEF Drop

LEMMA HostLenType ==
  ASSUME NEW b \in Seq(Signs)
  PROVE  BindHostLen(b) \in Nat
<1>1. Len(b) >= 2 => b[2] \in Nat
  <2>1. ASSUME Len(b) >= 2 PROVE 2 \in 1..Len(b)
    BY <2>1, LenProperties
  <2> QED
    BY <2>1, ElementOfSeq, SignsAre
<1>2. Len(b) < 2 \/ Len(b) >= 2
  BY LenProperties
<1> QED
  BY <1>1, <1>2 DEF BindHostLen, IPV4, IPV6, DOMAINNAME

\* As a callback leaves them.
EndsWell ==
  Lifetimes' /\ inbox' \in Seq(Signs) /\ asking' \in Seq(Messages) /\ fault' = fault

\* The connections as they were, and the handshake goes on.
LEMMA StillShaking ==
  ASSUME Lifetimes, stage \in Shaking, stage' \in Shaking, UNCHANGED <<session, fault>>
  PROVE  Lifetimes'
<1>1. /\ pair' = pair /\ given' = given /\ connected' = connected /\ fault' = fault
  BY DEF session
<1>2. stage' \notin {"failed", "lost", "crashed", "done"}
  BY DEF Shaking, Reading
<1> QED
  BY <1>1, <1>2 DEF Lifetimes, Quiet

LEMMA WaitsWell ==
  ASSUME ClientInv, stage \in Shaking, NEW b \in Seq(Signs), NEW s \in Shaking, Waits(b, s)
  PROVE  EndsWell
<1>1. Lifetimes'
  BY StillShaking DEF Waits, ClientInv
<1> QED
  BY <1>1 DEF Waits, EndsWell, ClientInv, Streams

LEMMA AsksWell ==
  ASSUME ClientInv, stage \in Shaking, NEW what \in Messages, NEW b \in Seq(Signs),
         NEW s \in Shaking, Asks(what, b, s)
  PROVE  EndsWell
<1>1. Lifetimes'
  BY StillShaking DEF Asks, ClientInv
<1>2. Append(asking, what) \in Seq(Messages)
  BY DEF ClientInv, Streams
<1> QED
  BY <1>1, <1>2 DEF Asks, EndsWell

LEMMA GivesUpWell ==
  ASSUME ClientInv, stage \in Shaking, GivesUp
  PROVE  EndsWell
<1>1. /\ pair \in PairType(Int) /\ ~pair.misused
      /\ pair.live["remote"] /\ pair.context["remote"] = "live"
  BY DEF ClientInv, Lifetimes
<1>2. Gone(pair, "remote") \in PairType(Int) /\ ~Gone(pair, "remote").misused
  BY <1>1, BothSides, GoneType
<1>3. /\ pair' = Gone(pair, "remote") /\ given' = given /\ stage' = "failed"
      /\ inbox' = << >> /\ asking' = << >> /\ fault' = fault
  BY DEF GivesUp
<1>4. "failed" \notin Shaking
  BY DEF Shaking, Reading
<1>5. Lifetimes'
  BY <1>2, <1>3, <1>4 DEF ClientInv, Lifetimes
<1> QED
  BY <1>3, <1>5, EmptySeq DEF EndsWell

LEMMA CrashesWell ==
  ASSUME ClientInv, stage \in Shaking, Crashes
  PROVE  EndsWell
<1>1. /\ stage' = "crashed" /\ pair' = pair /\ given' = given /\ inbox' = inbox
      /\ asking' = asking /\ fault' = fault
  BY DEF Crashes, session
<1>2. /\ "crashed" \notin Shaking /\ pair \in PairType(Int) /\ given \in [Sides -> Int] /\ ~pair.misused
  BY DEF ClientInv, Lifetimes, Shaking, Reading
<1>3. Lifetimes'
  BY <1>1, <1>2 DEF Lifetimes
<1> QED
  BY <1>1, <1>3 DEF EndsWell, ClientInv, Streams

\* The hand-over.
LEMMA OnConnectWell ==
  ASSUME ClientInv, stage \in Shaking, NEW b \in Seq(Signs), OnConnect(b)
  PROVE  EndsWell
<1> DEFINE said == [i \in 1..Len(b) |-> b[i] - HOST]
           c == [pair EXCEPT !.in["remote"] = said]
<1>0. inbox' \in Seq(Signs) /\ asking' \in Seq(Messages) /\ fault' = fault
  BY EmptySeq DEF OnConnect, ClientInv, Streams
<1>1. /\ pair \in PairType(Int) /\ given \in [Sides -> Int] /\ ~pair.misused
      /\ pair.live["remote"] /\ pair.context["remote"] = "live"
      /\ pair.live["server"] => Settled(Int, pair) /\ Quiet(pair)
      /\ ~pair.live["server"] => fault # "none"
  BY DEF ClientInv, Lifetimes
<1>2. fault' = fault /\ "crashed" \notin Shaking /\ "done" \notin Shaking
  BY DEF OnConnect, Shaking, Reading
<1>3. CASE ~pair.live["server"]
  <2>1. pair' = [pair EXCEPT !.misused = TRUE] /\ stage' = "crashed" /\ given' = given
    BY <1>3 DEF OnConnect
  <2>2. pair' \in PairType(Int)
    BY <1>1, <2>1 DEF PairType
  <2>3. Lifetimes'
    BY <1>1, <1>2, <1>3, <2>1, <2>2 DEF Lifetimes
  <2> QED
    BY <1>0, <2>3 DEF EndsWell
<1>4. CASE pair.live["server"]
  <2>1. said \in Seq(Int) /\ Len(said) \in Int
    <3>1. Len(b) \in Nat /\ \A i \in 1..Len(b) : b[i] \in Nat
      BY ElementOfSeq, LenProperties, SignsAre
    <3>2. \A i \in 1..Len(b) : b[i] - HOST \in Int
      BY <3>1 DEF HOST
    <3>3. said \in Seq(Int)
      BY <3>1, <3>2, IsASeq
    <3> QED
      BY <3>3, LenProperties
  <2>2. /\ pair' \in {Gone(Gone(c, "remote"), "server")} \cup Push(AwaitsReply(c), "server")
        /\ connected' = TRUE /\ given' = [given EXCEPT !["remote"] = Len(said)]
        /\ stage' = "done"
    BY <1>4 DEF OnConnect
  <2> HIDE DEF said
  <2>3. /\ c \in PairType(Int) /\ c.live = pair.live /\ c.context = pair.context
        /\ c.mode = pair.mode /\ c.out = pair.out /\ c.misused = pair.misused
    BY <1>1, <2>1, BothSides DEF PairType
  <2> HIDE DEF c
  <2>4. Settled(Int, c) /\ Quiet(c) /\ c.live["remote"] /\ c.live["server"]
    BY <1>1, <1>4, <2>3 DEF Settled, Sound, Quiet
  <2>5. ASSUME pair' = Gone(Gone(c, "remote"), "server")
        PROVE  Settled(Int, pair')
    BY <2>4, <2>5, BothSides, BothGone DEF Settled
  <2>6. ASSUME pair' \in Push(AwaitsReply(c), "server")
        PROVE  Settled(Int, pair')
    <3>0. REPLY \in Int
      BY DEF REPLY
    <3>1. Settled(Int, AwaitsReply(c)) /\ AwaitsReply(c).live["server"]
      BY <2>4, <3>0, AwaitsReplySettled
    <3> QED
      BY <2>6, <3>1, BothSides, PushSettled
  <2>7. Settled(Int, pair')
    BY <2>2, <2>5, <2>6
  <2>8. pair' \in PairType(Int) /\ given' \in [Sides -> Int]
    BY <1>1, <2>1, <2>2, <2>7 DEF Settled, Sound
  <2>9. Lifetimes'
    BY <1>2, <2>2, <2>7, <2>8 DEF Lifetimes
  <2> QED
    BY <1>0, <2>9 DEF EndsWell
<1> QED
  BY <1>3, <1>4
-----------------------------------------------------------------------------
(* The read callbacks.                                                     *)

LEMMA RequestWell ==
  ASSUME ClientInv, stage \in Shaking, NEW b \in Seq(Signs), SendRemoteAddress(b)
  PROVE  EndsWell
  BY AsksWell DEF SendRemoteAddress, Messages, Shaking, Reading

LEMMA NegotiationWell ==
  ASSUME ClientInv, stage \in Shaking, NEW b \in Seq(Signs), ReadNegotiation(b)
  PROVE  EndsWell
<1>1. Drop(b, 2) \in Seq(Signs)
  BY Dropped
<1>2. "login" \in Shaking /\ "login" \in Messages
  BY DEF Shaking, Reading, Messages
<1> QED
  BY <1>1, <1>2, WaitsWell, AsksWell, RequestWell DEF ReadNegotiation

LEMMA LoginWell ==
  ASSUME ClientInv, stage \in Shaking, NEW b \in Seq(Signs), ReadLogin(b)
  PROVE  EndsWell
<1>1. Drop(b, 2) \in Seq(Signs)
  BY Dropped
<1> QED
  BY <1>1, WaitsWell, RequestWell DEF ReadLogin

LEMMA BindPortWell ==
  ASSUME ClientInv, stage \in Shaking, NEW b \in Seq(Signs), ReadBindPort(b)
  PROVE  EndsWell
<1>1. Drop(b, 2) \in Seq(Signs)
  BY Dropped
<1>2. "bind_port" \in Shaking
  BY DEF Shaking, Reading
<1> QED
  BY <1>1, <1>2, WaitsWell, OnConnectWell DEF ReadBindPort

LEMMA BindHostWell ==
  ASSUME ClientInv, stage \in Shaking, NEW b \in Seq(Signs), ReadBindHost(b)
  PROVE  EndsWell
<1>1. "bind_host" \in Shaking
  BY DEF Shaking, Reading
<1>2. CASE Waits(b, "bind_host")
  BY <1>1, <1>2, WaitsWell
<1>3. CASE GivesUp
  BY <1>3, GivesUpWell
<1>4. CASE b # << >> /\ ReadBindPort(Drop(b, BindHostLen(b)))
  <2>4. Drop(b, BindHostLen(b)) \in Seq(Signs)
    BY HostLenType, Dropped
  <2> QED
    BY <1>4, <2>4, BindPortWell
<1>5. CASE ReadLongName(b)
  <2>1. Drop(b, 1) \in Seq(Signs)
    BY Dropped
  <2> QED
    BY <1>2, <1>5, <2>1, BindPortWell, CrashesWell DEF ReadLongName
<1> QED
  BY <1>2, <1>3, <1>4, <1>5 DEF ReadBindHost

LEMMA ConnectWell ==
  ASSUME ClientInv, stage \in Shaking, NEW b \in Seq(Signs), ReadConnect(b)
  PROVE  EndsWell
<1>1. Drop(b, 3) \in Seq(Signs)
  BY Dropped
<1> QED
  BY <1>1, WaitsWell, GivesUpWell, BindHostWell DEF ReadConnect

LEMMA CallbackWell ==
  ASSUME ClientInv, stage \in Shaking, NEW b \in Seq(Signs), UpstreamCallback(b)
  PROVE  EndsWell
  BY NegotiationWell, LoginWell, ConnectWell, BindHostWell, BindPortWell DEF UpstreamCallback

-----------------------------------------------------------------------------
(* Steps.                                                                  *)

LEMMA ClientInitInv == ClientInit => ClientInv
<1> SUFFICES ASSUME ClientInit PROVE ClientInv
  OBVIOUS
<1>1. /\ pair = [live |-> Both(TRUE), context |-> Both("live"),
                 mode |-> Both("connecting"), in |-> Both(<< >>), out |-> Both(<< >>),
                 enabled |-> TRUE, got |-> Both(<< >>), lost |-> Both(FALSE),
                 misused |-> FALSE]
      /\ given = Both(0) /\ stage = "connecting"
  BY DEF ClientInit, Init
<1>2. << >> \in Seq(Int) /\ << >> \in Seq(Signs) /\ << >> \in Seq(Messages)
  OBVIOUS
<1>3. pair \in PairType(Int) /\ pair.mode = Both("connecting") /\ ~pair.misused
  BY <1>1, <1>2 DEF PairType, Both
<1>4. \A e \in Sides : pair.live[e] /\ pair.context[e] = "live" /\ pair.mode[e] = "connecting"
  BY <1>1 DEF Both
<1>5. Settled(Int, pair) /\ Quiet(pair)
  BY <1>3, <1>4, OtherSide, BothSides DEF Settled, Sound, Quiet
<1>6. given \in [Sides -> Int]
  BY <1>1 DEF Both
<1>7. Lifetimes
  BY <1>1, <1>3, <1>4, <1>5, <1>6, BothSides DEF Lifetimes, Shaking
<1>8. Streams
  <2>1. /\ inbox = << >> /\ wire = << >> /\ asking = << >> /\ asked = << >> /\ answered = 0
        /\ script \in [method : Methods, login : Logins, reply : Replies, said : 0..MaxSaid]
        /\ ending = FALSE /\ fault = "none"
    BY DEF ClientInit
  <2>2. answered \in Nat /\ answered <= Len(asked)
    BY <2>1
  <2>3. inbox \in Seq(Signs) /\ wire \in Seq(Signs) /\ asking \in Seq(Messages) /\ asked \in Seq(Messages)
    BY <1>2, <2>1
  <2>4. ending \in BOOLEAN /\ fault \in {"none", "left", "first_write"}
    BY <2>1
  <2> QED
    BY <2>1, <2>2, <2>3, <2>4 DEF Streams
<1> QED
  BY <1>7, <1>8 DEF ClientInv

LEMMA UpstreamConnectInv == ClientInv /\ UpstreamConnect /\ ending' = ending => ClientInv'
<1> SUFFICES ASSUME ClientInv, UpstreamConnect, ending' = ending PROVE ClientInv'
  OBVIOUS
<1>1. /\ stage = "connecting" /\ stage \in Shaking
      /\ UNCHANGED <<connected, given, inbox, script, wire, asked, answered>>
  BY DEF UpstreamConnect, upstream, Shaking
<1>2. CASE stage' = "negotiation" /\ asking' = <<"methods">> /\ UNCHANGED <<pair, fault>>
  <2>1. stage' \in Shaking /\ UNCHANGED <<session, fault>>
    BY <1>2 DEF Shaking, Reading, session, UpstreamConnect
  <2>2. Lifetimes'
    BY <1>1, <2>1, StillShaking DEF ClientInv
  <2>3. asking' \in Seq(Messages)
    <3>1. "methods" \in Messages
      BY DEF Messages
    <3> QED
      BY <1>2, <3>1
  <2> QED
    BY <1>1, <1>2, <2>2, <2>3 DEF ClientInv, Streams
<1>3. CASE /\ stage' = "crashed" /\ fault' = "first_write"
           /\ pair' = [FreeEvent(pair, "remote") EXCEPT !.misused = TRUE]
           /\ UNCHANGED asking
  <2>1. pair \in PairType(Int) /\ ~pair.misused /\ pair.live["remote"]
    BY <1>1 DEF ClientInv, Lifetimes
  <2>2. FreeEvent(pair, "remote") \in PairType(Int)
    BY <2>1, BothSides, EventFreed
  <2>3. pair' \in PairType(Int)
    BY <1>3, <2>2 DEF PairType
  <2>4. Lifetimes'
    BY <1>1, <1>3, <2>3 DEF ClientInv, Lifetimes, Shaking, Reading
  <2> QED
    BY <1>1, <1>3, <2>4 DEF ClientInv, Streams
<1> QED
  BY <1>2, <1>3 DEF UpstreamConnect

LEMMA UpstreamReadInv ==
  ASSUME ClientInv, NEW n \in 1..Len(wire), UpstreamRead(n), ending' = ending
  PROVE  ClientInv'
<1>1. wire \in Seq(Signs) /\ inbox \in Seq(Signs) /\ n \in Nat /\ n <= Len(wire)
  BY LenProperties DEF ClientInv, Streams
<1>2. SubSeq(wire, 1, n) \in Seq(Signs) /\ Drop(wire, n) \in Seq(Signs)
  BY <1>1, Dropped
<1>3. inbox \o SubSeq(wire, 1, n) \in Seq(Signs)
  BY <1>1, <1>2, ConcatProperties
<1>4. stage \in Shaking
  BY DEF UpstreamRead, Shaking
<1>5. EndsWell
  BY <1>3, <1>4, CallbackWell DEF UpstreamRead
<1>6. wire' \in Seq(Signs)
  BY <1>2, EmptySeq DEF UpstreamRead
<1> QED
  BY <1>5, <1>6 DEF EndsWell, ClientInv, Streams, UpstreamRead

LEMMA UpstreamFlushInv == ClientInv /\ UpstreamFlush /\ ending' = ending => ClientInv'
<1> SUFFICES ASSUME ClientInv, UpstreamFlush, ending' = ending PROVE ClientInv'
  OBVIOUS
<1>1. asked' \in Seq(Messages) /\ asking' \in Seq(Messages)
  <2>1. asked' = asked \o asking /\ asking' = << >>
    BY DEF UpstreamFlush
  <2> QED
    BY <2>1, ConcatProperties, EmptySeq DEF ClientInv, Streams
<1>4. answered' \in Nat /\ answered' <= Len(asked')
  <2>1. asked' = asked \o asking /\ answered' = answered
    BY DEF UpstreamFlush
  <2>2. asked \in Seq(Messages) /\ asking \in Seq(Messages)
        /\ answered \in Nat /\ answered <= Len(asked)
    BY DEF ClientInv, Streams
  <2> QED
    BY <2>1, <2>2
<1>2. stage \in Shaking /\ stage' \in Shaking /\ UNCHANGED <<session, fault>>
  BY DEF UpstreamFlush, Shaking
<1>3. Lifetimes'
  BY <1>2, StillShaking DEF ClientInv
<1> QED
  BY <1>1, <1>3, <1>4 DEF UpstreamFlush, ClientInv, Streams

LEMMA UpstreamAnswersInv == ClientInv /\ UpstreamAnswers /\ ending' = ending => ClientInv'
<1> SUFFICES ASSUME ClientInv, UpstreamAnswers, ending' = ending PROVE ClientInv'
  OBVIOUS
<1>1. /\ answered < Len(asked) /\ answered \in Nat /\ asked \in Seq(Messages)
      /\ script \in [method : Methods, login : Logins, reply : Replies, said : 0..MaxSaid]
  BY DEF UpstreamAnswers, ClientInv, Streams
<1> DEFINE message == asked[answered + 1]
           n == IF script.reply[2] = SUCCEEDED THEN script.said ELSE 0
           tail == [i \in 1..n |-> HOST + i]
<1>2. message \in Messages
  <2>1. answered + 1 \in 1..Len(asked)
    BY <1>1, LenProperties
  <2> QED
    BY <1>1, <2>1, ElementOfSeq
<1>3. /\ script.method \in Seq(0..255) /\ script.login \in Seq(0..255)
      /\ script.reply \in Seq(0..255)
  BY <1>1, SocksClientAssumption
<1>4. \A s \in Seq(0..255) : s \in Seq(Signs)
  BY SignsAre, SeqMonotonic
<1>5. tail \in Seq(Signs)
  <2>1. n \in 0..MaxSaid
    BY <1>1, SignsAre
  <2> HIDE DEF n
  <2>2. \A i \in 1..n : HOST + i \in Signs
    BY <2>1, SignsAre
  <2> QED
    BY <2>1, <2>2, IsASeq, SignsAre
<1>6. AnswerTo(message) \in Seq(Signs)
  <2>1. script.reply \o tail \in Seq(Signs)
    BY <1>3, <1>4, <1>5, ConcatProperties
  <2>2. \/ message = "methods" /\ AnswerTo(message) = script.method
        \/ message = "login" /\ AnswerTo(message) = script.login
        \/ message = "request" /\ AnswerTo(message) = script.reply \o tail
    BY <1>2 DEF AnswerTo, Messages
  <2> QED
    BY <1>3, <1>4, <2>1, <2>2
<1>7. wire' \in Seq(Signs) /\ answered' \in Nat /\ answered' <= Len(asked)
  <2>1. wire' = wire \o AnswerTo(message) /\ answered' = answered + 1
    BY DEF UpstreamAnswers
  <2> QED
    BY <1>1, <1>6, <2>1, ConcatProperties, LenProperties DEF ClientInv, Streams
<1>8. stage \in Shaking /\ stage' \in Shaking /\ UNCHANGED <<session, fault>>
  BY DEF UpstreamAnswers, Shaking
<1>9. Lifetimes'
  BY <1>8, StillShaking DEF ClientInv
<1> QED
  BY <1>7, <1>9 DEF UpstreamAnswers, ClientInv, Streams

LEMMA UpstreamEndsInv == ClientInv /\ UpstreamEnds => ClientInv'
<1> SUFFICES ASSUME ClientInv, UpstreamEnds PROVE ClientInv'
  OBVIOUS
<1>1. pair \in PairType(Int) /\ ~pair.misused /\ pair.live["remote"] /\ given \in [Sides -> Int]
  BY DEF UpstreamEnds, ClientInv, Lifetimes
<1>2. FreeEvent(pair, "remote") \in PairType(Int) /\ ~FreeEvent(pair, "remote").misused
  BY <1>1, BothSides, EventFreed
<1>3. /\ pair' = FreeEvent(pair, "remote") /\ stage' = "lost" /\ given' = given
      /\ "lost" \notin Shaking
  BY DEF UpstreamEnds, Shaking, Reading
<1>4. Lifetimes'
  BY <1>1, <1>2, <1>3 DEF Lifetimes
<1> QED
  BY <1>4, EmptySeq DEF UpstreamEnds, upstream, ClientInv, Streams

LEMMA UpstreamLastReadInv == ClientInv /\ UpstreamLastRead => ClientInv'
<1> SUFFICES ASSUME ClientInv, UpstreamLastRead PROVE ClientInv'
  OBVIOUS
<1>1. stage \in Shaking /\ inbox \in Seq(Signs) /\ UpstreamCallback(inbox) /\ ending' \in BOOLEAN
  BY DEF UpstreamLastRead, Shaking, ClientInv, Streams
<1>2. EndsWell
  BY <1>1, CallbackWell
<1> QED
  BY <1>1, <1>2 DEF EndsWell, ClientInv, Streams, UpstreamLastRead, upstream

LEMMA EndsOnceHandedInv == ClientInv /\ EndsOnceHanded => ClientInv'
<1> SUFFICES ASSUME ClientInv, EndsOnceHanded PROVE ClientInv'
  OBVIOUS
<1>1. /\ Settled(Int, pair) /\ connected /\ stage = "done" /\ stage' = "done"
      /\ connected' = connected /\ given' = given /\ given \in [Sides -> Int]
      /\ pair' = IF pair.live["remote"] THEN Closed(pair, "remote") ELSE pair
  BY DEF ClientInv, Lifetimes, EndsOnceHanded
<1>2. Settled(Int, pair')
  BY <1>1, BothSides, ClosedSettled DEF Settled
<1>3. Lifetimes'
  BY <1>1, <1>2 DEF Lifetimes, Shaking, Reading, Settled, Sound
<1> QED
  BY <1>3 DEF EndsOnceHanded, upstream, ClientInv, Streams

LEMMA LocalEndsInv == ClientInv /\ LocalEnds /\ ending' = ending => ClientInv'
<1> SUFFICES ASSUME ClientInv, LocalEnds, ending' = ending PROVE ClientInv'
  OBVIOUS
<1>1. /\ pair \in PairType(Int) /\ ~pair.misused /\ given \in [Sides -> Int]
      /\ pair.live["server"] /\ stage \in Shaking \cup {"lost", "failed"}
      /\ stage \in Shaking => pair.live["remote"] /\ pair.context["remote"] = "live"
  BY DEF LocalEnds, ClientInv, Lifetimes
<1> DEFINE d == FreeEvent(pair, "server")
<1>2. /\ d \in PairType(Int) /\ ~d.misused /\ ~d.live["server"]
      /\ d.live["remote"] = pair.live["remote"] /\ d.context = pair.context
  BY <1>1, BothSides, EventFreed
<1>3. /\ pair' = d /\ stage' = stage /\ given' = given
      /\ fault' = IF stage \in Shaking THEN "left" ELSE fault
  BY DEF LocalEnds
<1> HIDE DEF d
<1>4. Lifetimes'
  BY <1>1, <1>2, <1>3 DEF Lifetimes, Shaking, Reading
<1> QED
  BY <1>4 DEF LocalEnds, upstream, ClientInv, Streams

LEMMA RelayInv == ClientInv /\ Relay /\ ending' = ending => ClientInv'
<1> SUFFICES ASSUME ClientInv, Relay, ending' = ending PROVE ClientInv'
  OBVIOUS
<1>1. /\ Settled(Int, pair) /\ connected /\ stage = "done" /\ stage' = "done"
      /\ given \in [Sides -> Int]
  BY DEF ClientInv, Lifetimes, Relay
<1>2. \E e \in Sides : Read(e) \/ End(e)
  BY <1>1 DEF Relay, Next, Connect, ConnectFails
<1>3. Settled(Int, pair') /\ connected' /\ given' \in [Sides -> Int]
  <2>1. ASSUME NEW e \in Sides, Read(e)
        PROVE  Settled(Int, pair') /\ connected' /\ given' \in [Sides -> Int]
    <3>1. given[e] + 1 \in Int
      BY <1>1
    <3>2. Settled(Int, pair')
      BY <1>1, <2>1, <3>1, ReadSettled
    <3> QED
      BY <1>1, <2>1, <3>1, <3>2 DEF Read
  <2>2. ASSUME NEW e \in Sides, End(e)
        PROVE  Settled(Int, pair') /\ connected' /\ given' \in [Sides -> Int]
    BY <1>1, <2>2, EndSettled DEF End
  <2> QED
    BY <1>2, <2>1, <2>2
<1>4. Lifetimes'
  BY <1>1, <1>3 DEF Lifetimes, Shaking, Reading, Settled, Sound
<1> QED
  BY <1>4 DEF Relay, upstream, ClientInv, Streams

LEMMA ClientNextInv == ClientInv /\ [ClientNext]_clientVars => ClientInv'
<1> SUFFICES ASSUME ClientInv, [ClientNext]_clientVars PROVE ClientInv'
  OBVIOUS
<1>1. CASE UNCHANGED clientVars
  BY <1>1 DEF clientVars, session, upstream, ClientInv, Lifetimes, Streams, Settled, Sound, Quiet
<1> QED
  BY <1>1, UpstreamConnectInv, UpstreamFlushInv, UpstreamAnswersInv, UpstreamReadInv,
     UpstreamLastReadInv, UpstreamEndsInv, EndsOnceHandedInv, LocalEndsInv, RelayInv DEF ClientNext

\* Whatever is answered, in whatever pieces, and whoever leaves when, nothing
\* freed is used or freed again, unless the local client has left during the
\* handshake or the first message could not be sent (docks_client.c, method.c).
THEOREM ClientFreedUnlessFault == ClientSpec => []FreedUnlessFault
<1>1. ClientInv => FreedUnlessFault
  BY DEF ClientInv, Lifetimes, FreedUnlessFault, Settled, Sound, Shaking, Reading
<1> QED
  BY <1>1, ClientInitInv, ClientNextInv, PTL DEF ClientSpec

-----------------------------------------------------------------------------
(* How far the server upstream is, when its answers are whole.             *)
(*                                                                         *)
(* What is in the in_buffer and on the wire is always the rest of one      *)
(* answer, and of what the host says after the last: the one the read      *)
(* callback is for.                                                        *)

BadMethod ==
  \/ script.method[1] # VERSION
  \/ script.method[2] \notin {USERNAME_PASSWORD, NO_AUTHENTICATION_REQUIRED}
PasswordWanted == script.method[2] = USERNAME_PASSWORD
Accepted == script.reply[1] = VERSION /\ script.reply[2] = SUCCEEDED /\ script.reply[3] = 0
HostLen == BindHostLen(Drop(script.reply, 3))
LastAnswer == AnswerTo("request")

\* The messages m are asked and answered; or the last of m is not yet, and when it
\* is, `a` is coming.
Settles(m) == asked = m /\ asking = << >> /\ answered = Len(m)
Pends(m, a, c) ==
  \/ asked \o asking = m /\ answered + 1 = Len(m) /\ c = << >>
  \/ Settles(m) /\ c = a

InTurn == IsPrefix(asked \o asking, Wanted) /\ Len(asked \o asking) <= answered + 1

\* At stage s, with c to come.
At(s, c) ==
  /\ s = "connecting" => asked = << >> /\ asking = << >> /\ answered = 0 /\ c = << >>
  /\ s = "negotiation" =>
       \/ Pends(<<"methods">>, script.method, c)
       \/ Settles(<<"methods">>) /\ c = << >> /\ BadMethod
  /\ s = "login" =>
       /\ PasswordWanted
       /\ \/ Pends(<<"methods", "login">>, script.login, c)
          \/ Settles(<<"methods", "login">>) /\ c = << >> /\ script.login # <<1, 0>>
  /\ s = "connect" => Pends(Wanted, LastAnswer, c)
  /\ s = "bind_host" => Settles(Wanted) /\ Accepted /\ c = Drop(LastAnswer, 3)
  /\ s = "bind_port" =>
       /\ Settles(Wanted) /\ Accepted
       /\ ~Misread => HostLen # 0 /\ c = Drop(LastAnswer, 3 + HostLen)
  /\ s = "done" => Settles(Wanted) /\ Accepted
  /\ s \in {"failed", "lost", "crashed"} => InTurn

\* What the read callback for stage s leaves is not enough for it.
Short(s, b) ==
  /\ s \in {"negotiation", "login", "bind_port"} => Len(b) < 2
  /\ s = "connect" => Len(b) < 3
  /\ s = "bind_host" /\ ~Misread => b = << >> \/ Len(b) < BindHostLen(b)

Placed == At(stage, inbox \o wire) /\ Short(stage, inbox)

\* Nothing passes through before the hand-over, and after it what a Session has.
Unused ==
  stage # "done" =>
    /\ pair.in = Both(<< >>) /\ pair.out = Both(<< >>) /\ pair.got = Both(<< >>)
    /\ pair.lost = Both(FALSE) /\ pair.mode = Both("connecting")
    /\ given = Both(0) /\ early = FALSE /\ connected = FALSE
Handed ==
  stage = "done" /\ ~Misread =>
    /\ Settled(Symbols, pair) /\ given \in [Sides -> Symbols]
    /\ early \in BOOLEAN /\ connected = TRUE
    /\ Passing(pair, given, early, connected)


-----------------------------------------------------------------------------
(* Answers and messages.                                                   *)

LEMMA DropIsRest == \A s, k : Drop(s, k) = Rest(s, k)
  BY DEF Drop, Rest

LEMMA AnswerTypes ==
  ASSUME Streams
  PROVE  /\ script.method \in Seq(Signs) /\ script.login \in Seq(Signs)
         /\ script.reply \in Seq(Signs) /\ script.said \in 0..MaxSaid
         /\ script.method \in Methods /\ script.login \in Logins /\ script.reply \in Replies
<1>1. script \in [method : Methods, login : Logins, reply : Replies, said : 0..MaxSaid]
  BY DEF Streams
<1>2. \A s \in Seq(0..255) : s \in Seq(Signs)
  BY SignsAre, SeqMonotonic
<1> QED
  BY <1>1, <1>2, SocksClientAssumption

LEMMA AnswersWhole ==
  ASSUME WholeAnswers, Streams
  PROVE  /\ Len(script.method) = 2 /\ Len(script.login) = 2 /\ Len(script.reply) >= 3
         /\ Accepted => /\ Len(script.reply) >= 5
                        /\ HostLen # 0 => Len(script.reply) = 3 + HostLen + 2
  BY AnswerTypes DEF WholeAnswers, Accepted, HostLen

\* The host's words after the last answer.
Words == [i \in 1..(IF script.reply[2] = SUCCEEDED THEN script.said ELSE 0) |-> HOST + i]

LEMMA WordsAre ==
  ASSUME Streams
  PROVE  /\ LastAnswer = script.reply \o Words /\ LastAnswer \in Seq(Signs)
         /\ Words \in Seq(Signs) /\ Len(Words) \in 0..MaxSaid
         /\ \A i \in 1..Len(Words) : Words[i] = HOST + i
<1> DEFINE n == IF script.reply[2] = SUCCEEDED THEN script.said ELSE 0
<1>1. n \in 0..MaxSaid
  BY AnswerTypes, SignsAre
<1>2. Words = [i \in 1..n |-> HOST + i] /\ LastAnswer = script.reply \o Words
  BY DEF Words, LastAnswer, AnswerTo
<1> HIDE DEF n
<1>3. n \in Nat /\ \A i \in 1..n : HOST + i \in Signs
  BY <1>1, SignsAre
<1>4. Words \in Seq(Signs) /\ Len(Words) = n
  BY <1>2, <1>3, IsASeq, LenProperties
<1>5. LastAnswer \in Seq(Signs)
  BY <1>2, <1>4, AnswerTypes, ConcatProperties
<1> QED
  BY <1>1, <1>2, <1>4, <1>5

LEMMA WantedIs ==
  /\ PasswordWanted => Wanted = <<"methods", "login", "request">>
  /\ ~PasswordWanted => Wanted = <<"methods", "request">>
  /\ Wanted \in Seq(Messages)
<1>1. /\ <<"methods">> \o <<"login">> = <<"methods", "login">>
      /\ <<"methods", "login">> \o <<"request">> = <<"methods", "login", "request">>
      /\ <<"methods">> \o << >> = <<"methods">>
      /\ <<"methods">> \o <<"request">> = <<"methods", "request">>
  <2>1. "methods" \in Messages /\ "login" \in Messages /\ "request" \in Messages
    BY DEF Messages
  <2>2. <<"methods">> \in Seq(Messages)
    BY <2>1
  <2> QED
    BY <2>1, <2>2, Pair, Triple, ConcatEmptySeq
<1>2. PasswordWanted => Wanted = <<"methods", "login", "request">>
  BY <1>1, ConcatAssociative DEF Wanted, PasswordWanted
<1>3. ~PasswordWanted => Wanted = <<"methods", "request">>
  BY <1>1 DEF Wanted, PasswordWanted
<1>4. <<"methods", "login", "request">> \in Seq(Messages) /\ <<"methods", "request">> \in Seq(Messages)
  BY DEF Messages
<1> QED
  BY <1>2, <1>3, <1>4

\* What has been said is always the beginning of what is wanted.
LEMMA AlwaysInTurn ==
  ASSUME ClientInv, NEW c, At(stage, c)
  PROVE  InTurn
<1>1. asked \in Seq(Messages) /\ asking \in Seq(Messages) /\ answered \in Nat
  BY DEF ClientInv, Streams
<1> DEFINE said == asked \o asking
<1>2. CASE stage \in {"failed", "lost", "crashed"}
  BY <1>2 DEF At
<1>3. CASE stage \notin {"failed", "lost", "crashed"}
  <2>1. \/ said = << >>
        \/ said = <<"methods">> /\ 1 <= answered + 1
        \/ said = <<"methods", "login">> /\ 2 <= answered + 1 /\ PasswordWanted
        \/ said = Wanted /\ Len(Wanted) <= answered + 1
    <3>1. \A m \in Seq(Messages) : Settles(m) => said = m /\ Len(m) <= answered + 1
      BY <1>1 DEF Settles
    <3>2. \A m \in Seq(Messages) : \A a : Pends(m, a, c) => said = m /\ Len(m) <= answered + 1
      BY <1>1, <3>1 DEF Pends
    <3>3. /\ <<"methods">> \in Seq(Messages) /\ Len(<<"methods">>) = 1
          /\ <<"methods", "login">> \in Seq(Messages) /\ Len(<<"methods", "login">>) = 2
      BY DEF Messages
    <3>4. stage \in Shaking \cup {"done"}
      BY <1>3 DEF ClientInv, Lifetimes
    <3>5. stage = "connecting" => said = << >>
      BY DEF At
    <3>6. stage = "negotiation" => said = <<"methods">> /\ 1 <= answered + 1
      BY <3>1, <3>2, <3>3 DEF At
    <3>7. stage = "login" => said = <<"methods", "login">> /\ 2 <= answered + 1 /\ PasswordWanted
      BY <3>1, <3>2, <3>3 DEF At
    <3>8. stage \in {"connect", "bind_host", "bind_port", "done"} =>
            said = Wanted /\ Len(Wanted) <= answered + 1
      BY <3>1, <3>2, WantedIs DEF At
    <3> QED
      BY <3>4, <3>5, <3>6, <3>7, <3>8 DEF Shaking, Reading
  <2>2. /\ << >> \in Seq(Messages) /\ <<"methods">> \in Seq(Messages)
        /\ <<"methods", "login">> \in Seq(Messages)
    BY DEF Messages
  <2>3. /\ IsPrefix(<< >>, Wanted) /\ IsPrefix(Wanted, Wanted)
        /\ IsPrefix(<<"methods">>, Wanted)
        /\ PasswordWanted => IsPrefix(<<"methods", "login">>, Wanted)
    <3>1. IsPrefix(<< >>, Wanted) /\ IsPrefix(Wanted, Wanted)
      BY <2>2, WantedIs, PrefixOfLonger
    <3>2. Len(<<"methods">>) <= Len(Wanted) /\ \A i \in 1..Len(<<"methods">>) : <<"methods">>[i] = Wanted[i]
      BY WantedIs
    <3>3. PasswordWanted =>
            /\ Len(<<"methods", "login">>) <= Len(Wanted)
            /\ \A i \in 1..Len(<<"methods", "login">>) : <<"methods", "login">>[i] = Wanted[i]
      BY WantedIs
    <3>4. IsPrefix(<<"methods">>, Wanted)
      BY <2>2, <3>2, WantedIs, PrefixByElement
    <3>5. PasswordWanted => IsPrefix(<<"methods", "login">>, Wanted)
      BY <2>2, <3>3, WantedIs, PrefixByElement
    <3> QED
      BY <3>1, <3>4, <3>5
  <2>4. /\ Len(<< >>) <= answered + 1 /\ Len(<<"methods">>) = 1
        /\ Len(<<"methods", "login">>) = 2
    BY <1>1
  <2> HIDE DEF said
  <2>5. IsPrefix(said, Wanted) /\ Len(said) <= answered + 1
    BY <2>1, <2>3, <2>4
  <2> QED
    BY <2>5 DEF InTurn, said
<1> QED
  BY <1>2, <1>3

-----------------------------------------------------------------------------
(* Where a read callback leaves its stream: it is given b, which is not    *)
(* empty, and w is still on its way.                                       *)

LandsAt(w) == At(stage, inbox \o w) /\ Short(stage, inbox)
Given(b, w) ==
  /\ ClientInv /\ At(stage, b \o w) /\ b # << >>
  /\ UNCHANGED <<script, asked, answered>>

LEMMA ScriptKept ==
  ASSUME script' = script
  PROVE  /\ BadMethod' = BadMethod /\ PasswordWanted' = PasswordWanted /\ Accepted' = Accepted
         /\ HostLen' = HostLen /\ LastAnswer' = LastAnswer /\ Wanted' = Wanted
         /\ Misread' = Misread
  BY DEF Misread, BadMethod, PasswordWanted, Accepted, HostLen, LastAnswer, AnswerTo, Wanted

LEMMA NotEmptied ==
  ASSUME NEW b \in Seq(Signs), NEW w \in Seq(Signs), b # << >>
  PROVE  b \o w # << >> /\ Len(b) >= 1
<1>1. Len(b) >= 1 /\ Len(b \o w) = Len(b) + Len(w) /\ Len(w) \in Nat
  BY EmptySeq, LenProperties, ConcatProperties
<1>2. Len(b \o w) >= 1
  BY <1>1, LenProperties
<1> QED
  BY <1>1, <1>2

LEMMA TwoBytes ==
  ASSUME NEW b \in Seq(Signs), NEW w \in Seq(Signs), Len(b \o w) = 2, Len(b) >= 2
  PROVE  b = b \o w /\ w = << >> /\ Drop(b, 2) = << >> /\ Drop(b, 2) \o w = << >>
<1> DEFINE m == Len(b)
           n == Len(w)
<1>0. m + n = 2 /\ m \in Nat /\ n \in Nat /\ m >= 2
  <2>1. Len(b \o w) = m + n
    OBVIOUS
  <2> QED
    BY <2>1
<1>1. m = 2 /\ n = 0
  <2> HIDE DEF m, n
  <2> QED
    BY <1>0
<1>2. w = << >>
  BY <1>1, EmptySeq
<1>3. Drop(b, 2) = << >>
  <2>1. Rest(b, 2) = << >>
    <3>1. 2 \in Nat /\ 2 >= Len(b)
      BY <1>1
    <3> QED
      BY <3>1, RestProperties
  <2> QED
    BY <2>1, DropIsRest
<1>4. b \o << >> = b /\ << >> \o << >> = << >>
  BY ConcatEmptySeq, EmptySeq
<1> QED
  BY <1>2, <1>3, <1>4

\* The callback waits where it was, or for something that belongs to the same
\* answers.
LEMMA WaitsLands ==
  ASSUME NEW b, NEW w, NEW s, UNCHANGED <<script, asked, answered>>,
         Waits(b, s), At(s, b \o w), Short(s, b)
  PROVE  LandsAt(w)'
<1>1. stage' = s /\ inbox' = b /\ asking' = asking
  BY DEF Waits
<1>2. At(s, b \o w)'
  BY <1>1, ScriptKept DEF At, Pends, Settles, InTurn
<1> QED
  BY <1>1, <1>2, ScriptKept DEF LandsAt, Short

\* The callback asks for the next thing when the one before is answered.
LEMMA AsksNext ==
  ASSUME ClientInv, UNCHANGED <<script, asked, answered>>, NEW m, Settles(m),
         NEW what, asking' = Append(asking, what)
  PROVE  asked' \o asking' = m \o <<what>> /\ answered' + 1 = Len(m \o <<what>>)
<1>1. asked = m /\ asking = << >> /\ answered = Len(m) /\ m \in Seq(Messages)
  BY DEF Settles, ClientInv, Streams
<1>2. asking' = <<what>>
  BY <1>1
<1>3. Len(m \o <<what>>) = Len(m) + 1
  BY <1>1
<1> QED
  BY <1>1, <1>2, <1>3

LEMMA RequestLands ==
  ASSUME ClientInv, UNCHANGED <<script, asked, answered>>, NEW m, Settles(m),
         m \o <<"request">> = Wanted, SendRemoteAddress(<< >>)
  PROVE  LandsAt(<< >>)'
<1>1. /\ stage' = "connect" /\ inbox' = << >> /\ asking' = Append(asking, "request")
  BY DEF SendRemoteAddress, Asks
<1>2. asked' \o asking' = Wanted /\ answered' + 1 = Len(Wanted)
  BY <1>1, AsksNext
<1>3. << >> \o << >> = << >> /\ Len(<< >>) = 0
  BY ConcatEmptySeq, EmptySeq
<1>4. Pends(Wanted, LastAnswer, << >>)'
  BY <1>2, ScriptKept DEF Pends
<1> QED
  BY <1>1, <1>3, <1>4, ScriptKept DEF LandsAt, At, Short

LEMMA NegotiationLands ==
  ASSUME WholeAnswers, NEW b \in Seq(Signs), NEW w \in Seq(Signs), Given(b, w),
         stage = "negotiation", ReadNegotiation(b)
  PROVE  LandsAt(w)'
<1>1. b \o w # << >> /\ Streams
  BY NotEmptied DEF Given, ClientInv
<1>2. Settles(<<"methods">>) /\ b \o w = script.method /\ Len(b \o w) = 2
  BY <1>1, AnswersWhole DEF Given, At, Pends
<1>3. ASSUME Len(b) >= 2
      PROVE  b = script.method /\ w = << >> /\ Drop(b, 2) = << >> /\ Drop(b, 2) \o w = << >>
  BY <1>2, <1>3, TwoBytes
<1>4. CASE Len(b) < 2 /\ Waits(b, stage)
  BY <1>4, WaitsLands DEF Given, Short
<1>5. CASE Len(b) >= 2 /\ b[2] = USERNAME_PASSWORD /\ Asks("login", Drop(b, 2), "login")
  <2>1. stage' = "login" /\ inbox' = << >> /\ asking' = Append(asking, "login")
    BY <1>3, <1>5 DEF Asks
  <2>2. <<"methods">> \o <<"login">> = <<"methods", "login">>
    <3>1. "methods" \in Messages /\ "login" \in Messages
      BY DEF Messages
    <3> QED
      BY <3>1, Pair, Zenon
  <2>3. asked' \o asking' = <<"methods", "login">> /\ answered' + 1 = Len(<<"methods", "login">>)
    BY <1>2, <2>1, <2>2, AsksNext DEF Given
  <2>4. PasswordWanted'
    BY <1>3, <1>5, ScriptKept DEF Given, PasswordWanted
  <2>5. Pends(<<"methods", "login">>, script.login, << >>)'
    BY <2>3 DEF Pends
  <2>6. inbox' \o w = << >> /\ Len(inbox') = 0
    BY <1>3, <1>5, <2>1, EmptySeq
  <2> QED
    BY <2>1, <2>4, <2>5, <2>6 DEF LandsAt, At, Short
<1>6. CASE Len(b) >= 2 /\ b[2] = NO_AUTHENTICATION_REQUIRED /\ SendRemoteAddress(Drop(b, 2))
  <2>1. ~PasswordWanted
    BY <1>3, <1>6 DEF PasswordWanted, USERNAME_PASSWORD, NO_AUTHENTICATION_REQUIRED
  <2>2. <<"methods">> \o <<"request">> = Wanted
    BY <2>1, WantedIs, Pair DEF Messages
  <2> QED
    BY <1>2, <1>3, <1>6, <2>2, RequestLands DEF Given
<1>7. CASE /\ Len(b) >= 2 /\ Waits(Drop(b, 2), stage)
           /\ b[1] # VERSION \/ b[2] \notin {USERNAME_PASSWORD, NO_AUTHENTICATION_REQUIRED}
  <2>1. BadMethod
    BY <1>3, <1>7 DEF BadMethod
  <2>2. At(stage, << >>) /\ Short(stage, << >>)
    BY <1>2, <2>1, EmptySeq DEF At, Short
  <2> QED
    BY <1>3, <1>7, <2>2, WaitsLands DEF Given
<1> QED
  BY <1>4, <1>5, <1>6, <1>7 DEF ReadNegotiation

LEMMA LoginLands ==
  ASSUME WholeAnswers, NEW b \in Seq(Signs), NEW w \in Seq(Signs), Given(b, w),
         stage = "login", ReadLogin(b)
  PROVE  LandsAt(w)'
<1>1. b \o w # << >> /\ Streams
  BY NotEmptied DEF Given, ClientInv
<1>2. /\ Settles(<<"methods", "login">>) /\ b \o w = script.login /\ Len(b \o w) = 2
      /\ PasswordWanted
  BY <1>1, AnswersWhole DEF Given, At, Pends
<1>3. ASSUME Len(b) >= 2
      PROVE  b = script.login /\ w = << >> /\ Drop(b, 2) = << >> /\ Drop(b, 2) \o w = << >>
  BY <1>2, <1>3, TwoBytes
<1>4. CASE Len(b) < 2 /\ Waits(b, stage)
  BY <1>4, WaitsLands DEF Given, Short
<1>5. CASE Len(b) >= 2 /\ SendRemoteAddress(Drop(b, 2))
  <2>1. <<"methods", "login">> \o <<"request">> = Wanted
    BY <1>2, WantedIs, Triple DEF Messages
  <2> QED
    BY <1>2, <1>3, <1>5, <2>1, RequestLands DEF Given
<1>6. CASE Len(b) >= 2 /\ (b[1] # 1 \/ b[2] # 0) /\ Waits(Drop(b, 2), stage)
  <2>1. script.login # <<1, 0>>
    BY <1>3, <1>6
  <2>2. At(stage, << >>) /\ Short(stage, << >>)
    BY <1>2, <2>1, EmptySeq DEF At, Short
  <2> QED
    BY <1>3, <1>6, <2>2, WaitsLands DEF Given
<1> QED
  BY <1>4, <1>5, <1>6 DEF ReadLogin

\* What a callback does to the connections: nothing but a free, or the hand-over
\* with what the host has said.
Hands(w) ==
  \/ /\ stage' # "done" /\ UNCHANGED <<given, early, connected>>
     /\ pair' \in {pair, Gone(pair, "remote")}
  \/ \E r \in Seq(Signs) : (Misread \/ r \o w = Words) /\ OnConnect(r)

LEMMA EndsLands ==
  ASSUME UNCHANGED <<script, asked, answered>>, Settles(Wanted), asking' = << >>,
         stage' \in {"failed", "crashed"}, NEW w
  PROVE  LandsAt(w)'
<1>1. IsPrefix(Wanted, Wanted) /\ Wanted \o << >> = Wanted /\ Len(Wanted) \in Nat
  BY WantedIs, PrefixOfLonger, ConcatEmptySeq, EmptySeq, LenProperties
<1>2. asked' \o asking' = Wanted /\ Len(Wanted) <= answered' + 1
  BY <1>1 DEF Settles
<1>3. InTurn'
  BY <1>1, <1>2, ScriptKept DEF InTurn
<1> QED
  BY <1>3 DEF LandsAt, At, Short

LEMMA GivesUpLands ==
  ASSUME UNCHANGED <<script, asked, answered>>, Settles(Wanted), GivesUp, NEW w
  PROVE  LandsAt(w)' /\ Hands(w)
<1>1. asking' = << >> /\ stage' = "failed" /\ pair' = Gone(pair, "remote")
      /\ UNCHANGED <<given, early, connected>>
  BY DEF GivesUp
<1> QED
  BY <1>1, EndsLands DEF Hands

LEMMA WaitsHands ==
  ASSUME NEW b, NEW w, NEW s, Waits(b, s), s # "done"
  PROVE  Hands(w)
  BY DEF Waits, session, Hands

LEMMA OnConnectLands ==
  ASSUME UNCHANGED <<script, asked, answered>>, Settles(Wanted), Accepted,
         NEW r \in Seq(Signs), NEW w, Misread \/ r \o w = Words, OnConnect(r)
  PROVE  LandsAt(w)' /\ Hands(w)
<1>1. Hands(w)
  BY DEF Hands
<1>2. asking' = << >> /\ stage' \in {"done", "crashed"}
  BY DEF OnConnect, Settles
<1>3. CASE stage' = "crashed"
  BY <1>1, <1>2, <1>3, EndsLands
<1>4. CASE stage' = "done"
  <2>1. Settles(Wanted)' /\ Accepted'
    BY <1>2, ScriptKept DEF Settles
  <2> QED
    BY <1>1, <1>4, <2>1 DEF LandsAt, At, Short
<1> QED
  BY <1>2, <1>3, <1>4

\* The request is granted, and h, read after its first three bytes, ...
LEMMA AfterThree ==
  ASSUME WholeAnswers, Streams
  PROVE  /\ Drop(script.reply, 3) \in Seq(Signs)
         /\ Len(Drop(script.reply, 3)) = Len(script.reply) - 3
         /\ Drop(LastAnswer, 3) = Drop(script.reply, 3) \o Words
<1>1. Len(script.reply) >= 3 /\ script.reply \in Seq(Signs) /\ 3 \in Nat
  BY AnswersWhole, AnswerTypes
<1>2. 3 <= Len(script.reply)
  BY <1>1, LenProperties
<1>3. Words \in Seq(Signs) /\ LastAnswer = script.reply \o Words
  BY WordsAre
<1>4. Rest(script.reply, 3) \in Seq(Signs) /\ Len(Rest(script.reply, 3)) = Len(script.reply) - 3
  BY <1>1, <1>2, RestProperties
<1>5. Rest(script.reply \o Words, 3) = Rest(script.reply, 3) \o Words
  BY <1>1, <1>2, <1>3, RestOfConcat
<1> QED
  BY <1>3, <1>4, <1>5, DropIsRest

\* ... says by its first bytes how long the host is.
LEMMA HostLenRead ==
  ASSUME WholeAnswers, Streams, Accepted, NEW h \in Seq(Signs), NEW w \in Seq(Signs),
         h \o w = Drop(LastAnswer, 3), h # << >>
  PROVE  /\ LongName(h) => Misread
         /\ ~LongName(h) /\ Len(h) >= BindHostLen(h) => ~Misread
         /\ BindHostLen(h) # 0 => HostLen # 0
         /\ BindHostLen(h) # 0 /\ Len(h) >= BindHostLen(h) => BindHostLen(h) = HostLen
<1> DEFINE a == Drop(script.reply, 3)
<1>1. a \in Seq(Signs) /\ Len(a) >= 2 /\ HostLen = BindHostLen(a) /\ Words \in Seq(Signs)
  <2>1. Len(script.reply) >= 5 /\ Len(script.reply) \in Nat
    BY AnswersWhole, AnswerTypes, LenProperties
  <2> QED
    BY <2>1, AfterThree, WordsAre DEF HostLen
<1>2. h \o w = a \o Words
  BY AfterThree
<1> HIDE DEF a
<1>3. Len(h) >= 1 /\ Len(h) \in Nat /\ Len(a) \in Nat
  BY <1>1, NotEmptied, LenProperties
<1>4. h[1] = a[1]
  <2>1. 1 \in 1..Len(h) /\ 1 \in 1..Len(a)
    BY <1>1, <1>3
  <2>2. (h \o w)[1] = h[1]
    BY <2>1, SameBeginning
  <2>3. (a \o Words)[1] = a[1]
    BY <1>1, <2>1, SameBeginning
  <2> QED
    BY <1>2, <2>2, <2>3
<1>5. ASSUME Len(h) >= 2 PROVE h[2] = a[2] /\ h[2] \in Nat
  <2>1. 2 \in 1..Len(h) /\ 2 \in 1..Len(a)
    BY <1>1, <1>3, <1>5
  <2>2. (h \o w)[2] = h[2]
    BY <2>1, SameBeginning
  <2>3. (a \o Words)[2] = a[2]
    BY <1>1, <2>1, SameBeginning
  <2>4. h[2] \in Nat
    BY <2>1, ElementOfSeq, SignsAre
  <2> QED
    BY <1>2, <2>2, <2>3, <2>4
<1>6. a[2] \in Nat
  <2>1. 2 \in 1..Len(a)
    BY <1>1, <1>3
  <2> QED
    BY <1>1, <2>1, ElementOfSeq, SignsAre
<1>7. /\ h[1] = IPV4 => BindHostLen(h) = 5 /\ BindHostLen(a) = 5
      /\ h[1] = IPV6 => BindHostLen(h) = 17 /\ BindHostLen(a) = 17
      /\ h[1] = DOMAINNAME => BindHostLen(a) = 2 + a[2]
      /\ h[1] = DOMAINNAME /\ Len(h) < 2 => BindHostLen(h) = 2
      /\ h[1] = DOMAINNAME /\ Len(h) >= 2 => BindHostLen(h) = 2 + h[2]
      /\ h[1] \notin {IPV4, IPV6, DOMAINNAME} => BindHostLen(h) = 0
  BY <1>1, <1>3, <1>4 DEF BindHostLen, IPV4, IPV6, DOMAINNAME
<1>8. /\ BindHostLen(h) # 0 => HostLen # 0
      /\ BindHostLen(h) # 0 /\ Len(h) >= BindHostLen(h) => BindHostLen(h) = HostLen
  <2>1. CASE h[1] # DOMAINNAME
    BY <1>1, <1>7, <2>1
  <2>2. CASE h[1] = DOMAINNAME
    BY <1>1, <1>3, <1>5, <1>6, <1>7, <2>2
  <2> QED
    BY <2>1, <2>2
<1>10. Misread <=> LongName(a)
  BY DEF Misread, Accepted, a
<1>11. /\ LongName(h) => LongName(a)
       /\ Len(h) >= 2 => (LongName(h) <=> LongName(a))
  BY <1>1, <1>4, <1>5 DEF LongName
<1>12. ASSUME LongName(a), Len(h) >= BindHostLen(h) PROVE Len(h) >= 2
  <2>1. h[1] = DOMAINNAME
    BY <1>4, <1>12 DEF LongName
  <2> QED
    BY <1>3, <1>7, <1>12, <2>1
<1> QED
  BY <1>8, <1>10, <1>11, <1>12

LEMMA BindPortLands ==
  ASSUME WholeAnswers, Streams, UNCHANGED <<script, asked, answered>>,
         Settles(Wanted), Accepted, NEW p \in Seq(Signs), NEW w \in Seq(Signs),
         ~Misread => HostLen # 0 /\ p \o w = Drop(LastAnswer, 3 + HostLen), ReadBindPort(p)
  PROVE  LandsAt(w)' /\ Hands(w)
<1>1. CASE Len(p) < 2 /\ Waits(p, "bind_port")
  <2>1. At("bind_port", p \o w) /\ Short("bind_port", p)
    BY <1>1 DEF At, Short
  <2> QED
    BY <1>1, <2>1, WaitsLands, WaitsHands
<1>2. CASE Len(p) >= 2 /\ OnConnect(Drop(p, 2)) /\ ~Misread
  <2>1. /\ HostLen \in Nat /\ Words \in Seq(Signs) /\ script.reply \in Seq(Signs)
        /\ Len(script.reply) = 3 + HostLen + 2 /\ LastAnswer = script.reply \o Words
        /\ LastAnswer \in Seq(Signs)
    BY <1>2, AnswersWhole, AnswerTypes, WordsAre, AfterThree, HostLenType DEF HostLen
  <2>2. 2 <= Len(p) /\ Drop(p, 2) \in Seq(Signs)
    BY <1>2, LenProperties, Dropped
  <2>3. Drop(p, 2) \o w = Rest(p \o w, 2)
    BY <2>2, RestOfConcat, DropIsRest
  <2>4. p \o w = Rest(LastAnswer, 3 + HostLen)
    BY <1>2, DropIsRest
  <2> DEFINE k == 3 + HostLen
  <2>5. k \in Nat /\ k + 2 = Len(script.reply) /\ k + 2 \in Nat /\ 2 \in Nat
    BY <2>1
  <2>6. k + 2 <= Len(LastAnswer) /\ k + 2 <= Len(script.reply)
    <3>1. Len(script.reply) <= Len(script.reply \o Words) /\ Len(script.reply) \in Nat
      BY <2>1, SameBeginning, LenProperties
    <3> QED
      BY <2>1, <2>5, <3>1
  <2> HIDE DEF k
  <2>7. Rest(Rest(LastAnswer, k), 2) = Rest(LastAnswer, k + 2)
    BY <2>1, <2>5, <2>6, RestOfRest
  <2>8. Rest(script.reply \o Words, k + 2) = Rest(script.reply, k + 2) \o Words
    BY <2>1, <2>5, <2>6, RestOfConcat
  <2>9. Rest(script.reply, k + 2) = << >>
    <3>1. k + 2 >= Len(script.reply)
      BY <2>5, <2>1, LenProperties
    <3>2. \A s \in Seq(Signs) : \A j \in Nat : j >= Len(s) => Rest(s, j) = << >>
      BY RestProperties
    <3> QED
      BY <2>1, <2>5, <3>1, <3>2, Zenon
  <2>10. << >> \o Words = Words
    BY <2>1, ConcatEmptySeq
  <2>11. Drop(p, 2) \o w = Words
    BY <2>1, <2>3, <2>4, <2>7, <2>8, <2>9, <2>10 DEF k
  <2> QED
    BY <1>2, <2>2, <2>11, OnConnectLands
<1>3. CASE Len(p) >= 2 /\ OnConnect(Drop(p, 2)) /\ Misread
  BY <1>3, Dropped, OnConnectLands
<1> QED
  BY <1>1, <1>2, <1>3 DEF ReadBindPort

LEMMA BindHostLands ==
  ASSUME WholeAnswers, Streams, UNCHANGED <<script, asked, answered>>,
         Settles(Wanted), Accepted, NEW h \in Seq(Signs), NEW w \in Seq(Signs),
         h \o w = Drop(LastAnswer, 3), ReadBindHost(h)
  PROVE  LandsAt(w)' /\ Hands(w)
<1>1. ASSUME Waits(h, "bind_host"), Misread \/ h = << >> \/ Len(h) < BindHostLen(h)
      PROVE  LandsAt(w)' /\ Hands(w)
  <2>1. At("bind_host", h \o w) /\ Short("bind_host", h)
    BY <1>1 DEF At, Short
  <2> QED
    BY <1>1, <2>1, WaitsLands, WaitsHands
<1>2. CASE GivesUp
  BY <1>2, GivesUpLands
<1>3. CASE /\ h # << >> /\ ~LongName(h) /\ BindHostLen(h) # 0 /\ Len(h) >= BindHostLen(h)
           /\ ReadBindPort(Drop(h, BindHostLen(h)))
  <2>1. HostLen # 0 /\ BindHostLen(h) = HostLen /\ HostLen \in Nat
    BY <1>3, HostLenRead, HostLenType
  <2>2. HostLen <= Len(h) /\ Drop(h, HostLen) \in Seq(Signs)
    BY <1>3, <2>1, LenProperties, Dropped
  <2>3. Drop(h, HostLen) \o w = Rest(h \o w, HostLen)
    BY <2>1, <2>2, RestOfConcat, DropIsRest
  <2>4. Rest(Rest(LastAnswer, 3), HostLen) = Rest(LastAnswer, 3 + HostLen)
    <3>1. LastAnswer \in Seq(Signs) /\ Len(script.reply) <= Len(LastAnswer)
          /\ Len(script.reply) = 3 + HostLen + 2
      BY <2>1, WordsAre, AnswerTypes, AnswersWhole, SameBeginning
    <3>2. 3 + HostLen <= Len(LastAnswer) /\ 3 \in Nat
      BY <2>1, <3>1, LenProperties
    <3> QED
      BY <2>1, <3>1, <3>2, RestOfRest
  <2>5. Drop(h, HostLen) \o w = Drop(LastAnswer, 3 + HostLen)
    BY <2>3, <2>4, DropIsRest
  <2> QED
    BY <1>3, <2>1, <2>2, <2>5, BindPortLands
<1>4. CASE h # << >> /\ LongName(h) /\ ReadLongName(h)
  <2>1. Misread
    BY <1>4, HostLenRead
  <2>2. CASE Waits(h, "bind_host")
    BY <1>1, <2>1, <2>2
  <2>3. CASE ReadBindPort(h) \/ ReadBindPort(Drop(h, 1))
    BY <2>1, <2>3, Dropped, BindPortLands
  <2>4. CASE Crashes
    <3>1. /\ asking' = << >> /\ stage' = "crashed" /\ pair' = pair
          /\ UNCHANGED <<given, early, connected>>
      BY <2>4 DEF Crashes, session, Settles
    <3> QED
      BY <3>1, EndsLands DEF Hands
  <2> QED
    BY <1>4, <2>2, <2>3, <2>4 DEF ReadLongName
<1> QED
  BY <1>1, <1>2, <1>3, <1>4 DEF ReadBindHost

LEMMA ConnectLands ==
  ASSUME WholeAnswers, NEW b \in Seq(Signs), NEW w \in Seq(Signs), Given(b, w),
         stage = "connect", ReadConnect(b)
  PROVE  LandsAt(w)' /\ Hands(w)
<1>1. b \o w # << >> /\ Streams /\ UNCHANGED <<script, asked, answered>>
  BY NotEmptied DEF Given, ClientInv
<1>2. Settles(Wanted) /\ b \o w = LastAnswer
  BY <1>1 DEF Given, At, Pends
<1>3. CASE Len(b) < 3 /\ Waits(b, stage)
  BY <1>1, <1>3, WaitsLands, WaitsHands DEF Given, Short
<1>4. CASE GivesUp
  BY <1>1, <1>2, <1>4, GivesUpLands
<1>5. CASE /\ Len(b) >= 3 /\ b[1] = VERSION /\ b[3] = 0 /\ b[2] = SUCCEEDED
           /\ ReadBindHost(Drop(b, 3))
  <2>1. /\ Words \in Seq(Signs) /\ script.reply \in Seq(Signs) /\ Len(script.reply) >= 3
        /\ LastAnswer = script.reply \o Words
    BY <1>1, AnswersWhole, AnswerTypes, WordsAre
  <2>2. Accepted
    <3>1. \A i \in 1..3 : i \in 1..Len(b) /\ i \in 1..Len(script.reply)
      BY <1>5, <2>1, LenProperties
    <3>2. \A i \in 1..3 : (b \o w)[i] = b[i]
      BY <3>1, SameBeginning
    <3>3. \A i \in 1..3 : (script.reply \o Words)[i] = script.reply[i]
      BY <2>1, <3>1, SameBeginning
    <3>4. \A i \in 1..3 : b[i] = script.reply[i]
      BY <1>2, <2>1, <3>2, <3>3
    <3>5. b[1] = script.reply[1] /\ b[2] = script.reply[2] /\ b[3] = script.reply[3]
      BY <3>4
    <3> QED
      BY <1>5, <3>5 DEF Accepted
  <2>3. 3 <= Len(b) /\ 3 \in Nat /\ Drop(b, 3) \in Seq(Signs)
    BY <1>5, LenProperties, Dropped
  <2>4. Rest(b \o w, 3) = Rest(b, 3) \o w
    BY <2>3, RestOfConcat
  <2>5. Drop(b, 3) \o w = Drop(LastAnswer, 3)
    BY <1>2, <2>4, DropIsRest
  <2> QED
    BY <1>1, <1>2, <1>5, <2>2, <2>3, <2>5, BindHostLands
<1> QED
  BY <1>3, <1>4, <1>5 DEF ReadConnect

-----------------------------------------------------------------------------
(* Every step keeps its place.                                             *)

LEMMA NothingLeft ==
  ASSUME NEW b \in Seq(Signs), NEW w \in Seq(Signs), b \o w = << >>
  PROVE  b = << >> /\ w = << >>
<1>1. b = << >>
  BY NotEmptied
<1>2. << >> \o w = w
  BY ConcatEmptySeq
<1> QED
  BY <1>1, <1>2

LEMMA InitPlaced == ClientInit => Placed
<1> SUFFICES ASSUME ClientInit PROVE Placed
  OBVIOUS
<1>1. << >> \o << >> = << >>
  BY ConcatEmptySeq, EmptySeq
<1> QED
  BY <1>1 DEF ClientInit, Placed, At, Short

LEMMA UpstreamConnectPlaced ==
  ASSUME ClientInv, Placed, UpstreamConnect
  PROVE  Placed'
<1>1. /\ stage = "connecting" /\ asked = << >> /\ asking = << >> /\ answered = 0
      /\ inbox \o wire = << >> /\ inbox \in Seq(Signs) /\ wire \in Seq(Signs)
      /\ UNCHANGED <<inbox, script, wire, asked, answered>>
  BY DEF UpstreamConnect, upstream, Placed, At, ClientInv, Streams
<1>2. inbox = << >>
  BY <1>1, NothingLeft
<1>3. CASE stage' = "negotiation" /\ asking' = <<"methods">>
  <2>1. << >> \o <<"methods">> = <<"methods">> /\ Len(<<"methods">>) = 1
    <3>1. <<"methods">> \in Seq(Messages)
      BY DEF Messages
    <3> QED
      BY <3>1, ConcatEmptySeq
  <2>2. asked' \o asking' = <<"methods">> /\ answered' + 1 = Len(<<"methods">>)
    BY <1>1, <1>3, <2>1
  <2>3. inbox' \o wire' = << >> /\ Len(inbox') = 0
    BY <1>1, <1>2
  <2> QED
    BY <1>3, <2>2, <2>3 DEF Placed, At, Pends, Short
<1>4. CASE stage' = "crashed" /\ UNCHANGED asking
  <2>1. InTurn
    BY AlwaysInTurn DEF Placed
  <2>2. InTurn'
    BY <1>1, <1>4, <2>1, ScriptKept DEF InTurn
  <2> QED
    BY <1>4, <2>2 DEF Placed, At, Short
<1> QED
  BY <1>3, <1>4 DEF UpstreamConnect

\* What a read callback is given, and where it leaves it.
LEMMA CallbackLands ==
  ASSUME WholeAnswers, NEW b \in Seq(Signs), NEW w \in Seq(Signs), Given(b, w),
         UpstreamCallback(b)
  PROVE  LandsAt(w)' /\ Hands(w)
<1>1. CASE stage = "negotiation" /\ ReadNegotiation(b)
  <2>1. Hands(w)
    BY <1>1 DEF ReadNegotiation, SendRemoteAddress, Waits, Asks, session, Hands
  <2> QED
    BY <1>1, <2>1, NegotiationLands
<1>2. CASE stage = "login" /\ ReadLogin(b)
  <2>1. Hands(w)
    BY <1>2 DEF ReadLogin, SendRemoteAddress, Waits, Asks, session, Hands
  <2> QED
    BY <1>2, <2>1, LoginLands
<1>3. CASE stage = "connect" /\ ReadConnect(b)
  BY <1>3, ConnectLands
<1>4. Streams /\ UNCHANGED <<script, asked, answered>>
  BY DEF Given, ClientInv
<1>5. CASE stage = "bind_host" /\ ReadBindHost(b)
  BY <1>4, <1>5, BindHostLands DEF Given, At
<1>6. CASE stage = "bind_port" /\ ReadBindPort(b)
  BY <1>4, <1>6, BindPortLands DEF Given, At
<1> QED
  BY <1>1, <1>2, <1>3, <1>5, <1>6 DEF UpstreamCallback

LEMMA PieceGiven ==
  ASSUME ClientInv, Placed, NEW n \in 1..Len(wire), UpstreamRead(n)
  PROVE  LET b == inbox \o SubSeq(wire, 1, n)
             w == Drop(wire, n)
         IN  /\ b \in Seq(Signs) /\ w \in Seq(Signs) /\ Given(b, w)
             /\ UpstreamCallback(b) /\ stage \in Shaking
<1> DEFINE t == SubSeq(wire, 1, n)
           w == Drop(wire, n)
           b == inbox \o t
<1>1. /\ inbox \in Seq(Signs) /\ wire \in Seq(Signs) /\ n \in Nat /\ n <= Len(wire) /\ n >= 1
  BY LenProperties DEF ClientInv, Streams
<1>2. t \in Seq(Signs) /\ Len(t) = n
  BY <1>1, FirstProperties
<1>3. w \in Seq(Signs)
  BY <1>1, Dropped
<1>4. t \o w = wire
  BY <1>1, SplitAt, DropIsRest
<1>5. b \in Seq(Signs)
  BY <1>1, <1>2, ConcatProperties
<1>6. b \o w = inbox \o wire
  <2> HIDE DEF t, w
  <2>1. \A x, y, z \in Seq(Signs) : (x \o y) \o z = x \o (y \o z)
    OBVIOUS
  <2>2. (inbox \o t) \o w = inbox \o (t \o w)
    BY <1>1, <1>2, <1>3, <2>1, Zenon
  <2> QED
    BY <1>4, <2>2
<1>7. b # << >>
  <2> HIDE DEF t
  <2>1. Len(b) = Len(inbox) + n /\ Len(inbox) \in Nat
    BY <1>1, <1>2, ConcatProperties, LenProperties
  <2>2. Len(b) # 0
    BY <1>1, <2>1
  <2> QED
    BY <2>2, EmptySeq
<1>8. At(stage, b \o w)
  BY <1>6 DEF Placed
<1> QED
  BY <1>3, <1>5, <1>7, <1>8 DEF UpstreamRead, Given, Shaking

LEMMA UpstreamReadPlaced ==
  ASSUME WholeAnswers, ClientInv, Placed, NEW n \in 1..Len(wire), UpstreamRead(n)
  PROVE  Placed'
<1> DEFINE b == inbox \o SubSeq(wire, 1, n)
           w == Drop(wire, n)
<1>1. b \in Seq(Signs) /\ w \in Seq(Signs) /\ Given(b, w) /\ UpstreamCallback(b)
  BY PieceGiven
<1>2. wire' = IF stage' = "done" THEN << >> ELSE w
  BY DEF UpstreamRead
<1> HIDE DEF b, w
<1>3. PICK u \in Seq(Signs), v \in Seq(Signs) : u = b /\ v = w
  BY <1>1
<1>4. Given(u, v) /\ UpstreamCallback(u)
  BY <1>1, <1>3
<1>5. LandsAt(v)'
  BY <1>4, CallbackLands
<1>6. CASE stage' = "done"
  BY <1>5, <1>6 DEF LandsAt, Placed, At, Short
<1>7. CASE stage' # "done"
  BY <1>2, <1>3, <1>5, <1>7 DEF LandsAt, Placed
<1> QED
  BY <1>6, <1>7

LEMMA UpstreamLastReadGiven ==
  ASSUME ClientInv, Placed, UpstreamLastRead
  PROVE  /\ inbox \in Seq(Signs) /\ wire \in Seq(Signs) /\ Given(inbox, wire)
         /\ UpstreamCallback(inbox) /\ stage \in Shaking /\ wire' = wire
  BY DEF UpstreamLastRead, upstream, ClientInv, Streams, Placed, Given, Shaking

LEMMA UpstreamLastReadPlaced ==
  ASSUME WholeAnswers, ClientInv, Placed, UpstreamLastRead
  PROVE  Placed'
<1>1. PICK u \in Seq(Signs), v \in Seq(Signs) : u = inbox /\ v = wire
  BY UpstreamLastReadGiven
<1>2. Given(u, v) /\ UpstreamCallback(u) /\ wire' = v
  BY <1>1, UpstreamLastReadGiven
<1>3. LandsAt(v)'
  BY <1>2, CallbackLands
<1> QED
  BY <1>2, <1>3 DEF LandsAt, Placed

LEMMA UpstreamFlushPlaced ==
  ASSUME ClientInv, Placed, UpstreamFlush
  PROVE  Placed'
<1>1. /\ stage \in Reading /\ asking # << >> /\ asked' = asked \o asking /\ asking' = << >>
      /\ UNCHANGED <<script, wire, answered, stage, inbox>>
      /\ asked \in Seq(Messages) /\ asking \in Seq(Messages)
  BY DEF UpstreamFlush, ClientInv, Streams
<1>2. asked' \o asking' = asked \o asking
  <2>1. asked \o asking \in Seq(Messages)
    BY <1>1, ConcatProperties
  <2> QED
    BY <1>1, <2>1, ConcatEmptySeq
<1>3. \A m : ~Settles(m)
  BY <1>1 DEF Settles
<1>4. \A m, a, c : Pends(m, a, c) =>
        asked' \o asking' = m /\ answered' + 1 = Len(m) /\ c = << >>
  BY <1>1, <1>2, <1>3 DEF Pends
<1>5. inbox' = inbox /\ wire' = wire /\ stage' = stage
  BY <1>1
<1>6. At(stage, inbox \o wire)
  BY DEF Placed
<1>7. CASE stage = "negotiation"
  BY <1>3, <1>4, <1>5, <1>6, <1>7 DEF At, Placed, Pends, Short
<1>8. CASE stage = "login"
  <2>1. PasswordWanted'
    BY <1>1, <1>6, <1>8, ScriptKept DEF At
  <2> QED
    BY <1>3, <1>4, <1>5, <1>6, <1>8, <2>1 DEF At, Placed, Pends, Short
<1>9. CASE stage = "connect"
  <2>1. Wanted' = Wanted
    BY <1>1, ScriptKept
  <2> QED
    BY <1>3, <1>4, <1>5, <1>6, <1>9, <2>1 DEF At, Placed, Pends, Short
<1>10. stage \notin {"bind_host", "bind_port"}
  BY <1>3, <1>6 DEF At
<1> QED
  BY <1>1, <1>7, <1>8, <1>9, <1>10 DEF Reading

LEMMA UpstreamAnswersPlaced ==
  ASSUME ClientInv, Placed, UpstreamAnswers
  PROVE  Placed'
<1>1. /\ stage \in Reading /\ answered < Len(asked)
      /\ wire' = wire \o AnswerTo(asked[answered + 1]) /\ answered' = answered + 1
      /\ UNCHANGED <<script, asked, stage, inbox, asking>>
      /\ asked \in Seq(Messages) /\ asking \in Seq(Messages) /\ answered \in Nat
      /\ inbox \in Seq(Signs) /\ wire \in Seq(Signs)
      /\ script.method \in Seq(Signs) /\ script.login \in Seq(Signs) /\ LastAnswer \in Seq(Signs)
  BY AnswerTypes, WordsAre DEF UpstreamAnswers, ClientInv, Streams
<1>2. \A m : ~Settles(m)
  BY <1>1 DEF Settles
<1>3. \A m, a, c : Pends(m, a, c) =>
        /\ asked = m /\ asking = << >> /\ answered + 1 = Len(m)
        /\ asked' = m /\ asking' = << >> /\ answered' = Len(m)
  <2> SUFFICES ASSUME NEW m, NEW a, NEW c, Pends(m, a, c)
               PROVE  /\ asked = m /\ asking = << >> /\ answered + 1 = Len(m)
                      /\ asked' = m /\ asking' = << >> /\ answered' = Len(m)
    OBVIOUS
  <2>1. asked \o asking = m /\ answered + 1 = Len(m)
    BY <1>2 DEF Pends
  <2>2. Len(asking) = 0
    <3>1. /\ Len(asked \o asking) = Len(asked) + Len(asking)
          /\ Len(asked) \in Nat /\ Len(asking) \in Nat
      BY <1>1
    <3>2. answered + 1 = Len(asked) + Len(asking)
      BY <2>1, <3>1
    <3> QED
      BY <1>1, <3>1, <3>2
  <2>3. asking = << >>
    BY <1>1, <2>2, EmptySeq
  <2>4. asked = m
    BY <1>1, <2>1, <2>3, ConcatEmptySeq
  <2> QED
    BY <1>1, <2>1, <2>3, <2>4
<1>4. At(stage, inbox \o wire) /\ inbox' = inbox /\ stage' = stage /\ Short(stage, inbox)
  BY <1>1 DEF Placed
<1>5. ASSUME NEW a \in Seq(Signs), inbox \o wire = << >>, wire' = wire \o a
      PROVE  inbox' \o wire' = a
  <2>1. inbox = << >> /\ wire = << >>
    BY <1>1, <1>5, NothingLeft
  <2> QED
    BY <1>1, <1>5, <2>1, ConcatEmptySeq
<1>6. CASE stage = "negotiation"
  <2>1. Pends(<<"methods">>, script.method, inbox \o wire)
    BY <1>2, <1>4, <1>6 DEF At
  <2>0. inbox \o wire = << >>
    BY <1>2, <2>1 DEF Pends
  <2>2. /\ asked = <<"methods">> /\ answered + 1 = Len(<<"methods">>)
        /\ asked' = <<"methods">> /\ asking' = << >> /\ answered' = Len(<<"methods">>)
    BY <1>3, <2>1
  <2>3. asked[answered + 1] = "methods"
    BY <2>2
  <2>4. wire' = wire \o script.method
    BY <1>1, <2>3 DEF AnswerTo
  <2>5. inbox' \o wire' = script.method'
    BY <1>1, <1>5, <2>0, <2>4
  <2> QED
    BY <1>4, <1>6, <2>2, <2>5 DEF Placed, At, Pends, Settles, Short
<1>7. CASE stage = "login"
  <2>1. Pends(<<"methods", "login">>, script.login, inbox \o wire) /\ PasswordWanted'
    BY <1>1, <1>2, <1>4, <1>7, ScriptKept DEF At
  <2>0. inbox \o wire = << >>
    BY <1>2, <2>1 DEF Pends
  <2>2. /\ asked = <<"methods", "login">> /\ answered + 1 = Len(<<"methods", "login">>)
        /\ asked' = <<"methods", "login">> /\ asking' = << >>
        /\ answered' = Len(<<"methods", "login">>)
    BY <1>3, <2>1
  <2>3. asked[answered + 1] = "login"
    BY <2>2
  <2>4. wire' = wire \o script.login
    BY <1>1, <2>3 DEF AnswerTo
  <2>5. inbox' \o wire' = script.login'
    BY <1>1, <1>5, <2>0, <2>4
  <2> QED
    BY <1>4, <1>7, <2>1, <2>2, <2>5 DEF Placed, At, Pends, Settles, Short
<1>8. CASE stage = "connect"
  <2>1. Pends(Wanted, LastAnswer, inbox \o wire)
    BY <1>4, <1>8 DEF At
  <2> DEFINE m == Wanted
  <2>2. m \in Seq(Messages) /\ Len(m) \in Nat /\ m[Len(m)] = "request" /\ m = Wanted
    <3>1. /\ Len(<<"methods", "login", "request">>) = 3
          /\ <<"methods", "login", "request">>[3] = "request"
          /\ Len(<<"methods", "request">>) = 2 /\ <<"methods", "request">>[2] = "request"
      OBVIOUS
    <3>2. Wanted[Len(Wanted)] = "request"
      BY <3>1, WantedIs, Zenon
    <3> QED
      BY <3>2, WantedIs, LenProperties
  <2> HIDE DEF m
  <2>3. Pends(m, LastAnswer, inbox \o wire)
    BY <2>1, <2>2
  <2>0. inbox \o wire = << >>
    BY <1>2, <2>1 DEF Pends
  <2>4. /\ asked = m /\ answered + 1 = Len(m)
        /\ asked' = asked /\ asking' = << >> /\ answered' = Len(m)
    BY <1>1, <1>3, <2>3
  <2>5. asked[answered + 1] = "request"
    BY <2>2, <2>4
  <2>6. wire' = wire \o LastAnswer
    BY <1>1, <2>5 DEF LastAnswer
  <2>7. inbox' \o wire' = LastAnswer'
    BY <1>1, <1>5, <2>0, <2>6, ScriptKept
  <2>8. Wanted' = m
    BY <1>1, <2>2, ScriptKept
  <2> QED
    BY <1>4, <1>8, <2>4, <2>7, <2>8 DEF Placed, At, Pends, Settles, Short
<1>9. stage \notin {"bind_host", "bind_port"}
  BY <1>2, <1>4 DEF At
<1> QED
  BY <1>1, <1>6, <1>7, <1>8, <1>9 DEF Reading

LEMMA UpstreamEndsPlaced ==
  ASSUME ClientInv, Placed, UpstreamEnds
  PROVE  Placed'
<1>1. /\ stage' = "lost" /\ inbox' = << >> /\ asking' = << >>
      /\ UNCHANGED <<script, wire, asked, answered>>
      /\ asked \in Seq(Messages) /\ asking \in Seq(Messages) /\ answered \in Nat
  BY DEF UpstreamEnds, upstream, ClientInv, Streams
<1>2. InTurn
  BY AlwaysInTurn DEF Placed
<1>3. IsPrefix(asked, Wanted)
  <2>1. Wanted \in Seq(Messages)
    BY WantedIs
  <2> QED
    BY <1>1, <1>2, <2>1, PrefixOfLonger DEF InTurn
<1>4. asked \o << >> = asked /\ Len(asked) <= answered + 1
  <2>1. Len(asked \o asking) = Len(asked) + Len(asking) /\ Len(asking) \in Nat /\ Len(asked) \in Nat
    BY <1>1
  <2>2. Len(asked) + Len(asking) <= answered + 1
    BY <1>2, <2>1 DEF InTurn
  <2> QED
    BY <1>1, <2>1, <2>2, ConcatEmptySeq
<1>5. InTurn'
  BY <1>1, <1>3, <1>4, ScriptKept DEF InTurn
<1> QED
  BY <1>1, <1>5 DEF Placed, At, Short

LEMMA PlaceKept ==
  ASSUME Placed, UNCHANGED <<upstream, stage, inbox, asking>>
  PROVE  Placed'
<1>1. UNCHANGED <<script, wire, asked, answered, stage, inbox, asking>>
  BY DEF upstream
<1> QED
  BY <1>1, ScriptKept DEF Placed, At, Pends, Settles, InTurn, Short

LEMMA PlacedNext ==
  ASSUME WholeAnswers, ClientInv, Placed, [ClientNext]_clientVars
  PROVE  Placed'
<1>1. CASE UNCHANGED clientVars
  BY <1>1, PlaceKept DEF clientVars
<1>2. CASE LocalEnds
  BY <1>2, PlaceKept DEF LocalEnds
<1>3. CASE Relay
  BY <1>3, PlaceKept DEF Relay
<1>4. CASE EndsOnceHanded
  BY <1>4, PlaceKept DEF EndsOnceHanded
<1> QED
  BY <1>1, <1>2, <1>3, <1>4, UpstreamConnectPlaced, UpstreamReadPlaced, UpstreamFlushPlaced,
     UpstreamLastReadPlaced, UpstreamAnswersPlaced, UpstreamEndsPlaced DEF ClientNext

-----------------------------------------------------------------------------
(* What passes through: nothing before the hand-over, then what passes     *)
(* through a Session.                                                      *)

LEMMA BothIs ==
  ASSUME NEW x
  PROVE  /\ \A e \in Sides : Both(x)[e] = x
         /\ \A e \in Sides : [Both(x) EXCEPT ![e] = x] = Both(x)
  BY DEF Both

\* A free changes neither what is in the buffers nor what went through them when
\* they are empty.
LEMMA UnusedFreed ==
  ASSUME NEW c \in PairType(Int), NEW e \in Sides,
         c.in = Both(<< >>), c.out = Both(<< >>)
  PROVE  /\ FreeEvent(c, e).in = c.in /\ FreeEvent(c, e).out = c.out
         /\ FreeEvent(c, e).got = c.got /\ FreeEvent(c, e).lost = c.lost
         /\ FreeEvent(c, e).mode = c.mode
         /\ Gone(c, e).in = c.in /\ Gone(c, e).out = c.out
         /\ Gone(c, e).got = c.got /\ Gone(c, e).lost = c.lost
         /\ Gone(c, e).mode = c.mode
<1> DEFINE d == FreeEvent(c, e)
<1>1. /\ d.in = c.in /\ d.out = c.out /\ d.got = c.got /\ d.lost = c.lost /\ d.mode = c.mode
      /\ d = [c EXCEPT !.live[e] = FALSE, !.in[e] = << >>, !.out[e] = << >>,
                       !.misused = c.misused \/ ~c.live[e]]
  BY BothIs DEF FreeEvent, PairType
<1>2. /\ Gone(c, e).in = d.in /\ Gone(c, e).out = d.out /\ Gone(c, e).got = d.got
      /\ Gone(c, e).lost = d.lost /\ Gone(c, e).mode = d.mode
  BY DEF FreeEvent, FreeContext, Gone, PairType
<1> QED
  BY <1>1, <1>2

LEMMA StillUnused ==
  ASSUME ClientInv, Unused, stage # "done", stage' # "done",
         UNCHANGED <<given, early, connected>>, NEW e \in Sides,
         pair' \in {pair, FreeEvent(pair, e), Gone(pair, e), [pair EXCEPT !.misused = TRUE],
                    [FreeEvent(pair, e) EXCEPT !.misused = TRUE]}
  PROVE  Unused' /\ Handed'
<1>1. /\ pair.in = Both(<< >>) /\ pair.out = Both(<< >>) /\ pair.got = Both(<< >>)
      /\ pair.lost = Both(FALSE) /\ pair.mode = Both("connecting") /\ pair \in PairType(Int)
      /\ given = Both(0) /\ early = FALSE /\ connected = FALSE
  BY DEF Unused, ClientInv, Lifetimes
<1>2. /\ pair'.in = pair.in /\ pair'.out = pair.out /\ pair'.got = pair.got
      /\ pair'.lost = pair.lost /\ pair'.mode = pair.mode
  <2> DEFINE Like(d) == /\ d.in = pair.in /\ d.out = pair.out /\ d.got = pair.got
                        /\ d.lost = pair.lost /\ d.mode = pair.mode
  <2>1. Like(FreeEvent(pair, e)) /\ Like(Gone(pair, e)) /\ Like(pair)
    BY <1>1, UnusedFreed
  <2>2. Like([pair EXCEPT !.misused = TRUE])
    BY <1>1 DEF PairType
  <2>3. Like([FreeEvent(pair, e) EXCEPT !.misused = TRUE])
    <3> DEFINE d == FreeEvent(pair, e)
               m == [d EXCEPT !.misused = TRUE]
    <3>1. /\ m.in = d.in /\ m.out = d.out /\ m.got = d.got /\ m.lost = d.lost
          /\ m.mode = d.mode
      BY <1>1 DEF FreeEvent, PairType
    <3> HIDE DEF d, m
    <3>2. Like(d)
      BY <2>1 DEF d
    <3>3. Like(m)
      BY <3>1, <3>2
    <3> QED
      BY <3>3 DEF d, m
  <2> HIDE DEF Like
  <2>4. Like(pair')
    BY <2>1, <2>2, <2>3
  <2> QED
    BY <2>4 DEF Like
<1> QED
  BY <1>1, <1>2 DEF Unused, Handed

\* What the host has said is what is counted as given.
LEMMA SaidIs ==
  ASSUME Streams, NEW r \in Seq(Signs), NEW w \in Seq(Signs), r \o w = Words
  PROVE  [i \in 1..Len(r) |-> r[i] - HOST] = Upto(Len(r)) /\ Len(r) \in 0..MaxSaid
<1>1. /\ Words \in Seq(Signs) /\ Len(Words) \in 0..MaxSaid /\ Len(Words) \in Nat
      /\ \A i \in 1..Len(Words) : Words[i] = HOST + i
  BY WordsAre, LenProperties
<1>2. Len(r) \in Nat /\ Len(r) <= Len(Words) /\ \A i \in 1..Len(r) : Words[i] = r[i]
  BY SameBeginning, LenProperties
<1>3. \A i \in 1..Len(r) : i \in 1..Len(Words)
  BY <1>1, <1>2
<1>4. \A i \in 1..Len(r) : r[i] = HOST + i
  BY <1>1, <1>2, <1>3
<1>5. \A i \in 1..Len(r) : r[i] - HOST = i
  <2> SUFFICES ASSUME NEW i \in 1..Len(r) PROVE r[i] - HOST = i
    OBVIOUS
  <2>1. i \in Int /\ r[i] = 256 + i
    BY <1>2, <1>4, SignsAre
  <2> QED
    BY <2>1 DEF HOST
<1>6. [i \in 1..Len(r) |-> r[i] - HOST] = [i \in 1..Len(r) |-> i]
  BY <1>5
<1>7. Len(r) \in 0..MaxSaid
  BY <1>1, <1>2, SignsAre
<1> QED
  BY <1>6, <1>7 DEF Upto

LEMMA WordsType ==
  ASSUME NEW k \in 0..MaxSaid
  PROVE  /\ Upto(k) \in Seq(Symbols) /\ (k = 0 <=> Upto(k) = << >>) /\ k \in Symbols
         /\ Len(Upto(k)) = k
<1>1. k \in Nat /\ \A i \in 1..k : i \in Symbols
  BY SignsAre, MaxReadAssumption DEF Symbols
<1>2. Upto(k) \in Seq(Symbols) /\ Len(Upto(k)) = k
  BY <1>1, IsASeq, LenProperties DEF Upto
<1>3. k = 0 <=> Upto(k) = << >>
  BY <1>2, EmptySeq
<1>4. k \in Symbols
  BY <1>1, SignsAre, MaxReadAssumption DEF Symbols
<1> QED
  BY <1>2, <1>3, <1>4

LEMMA HandOver ==
  ASSUME ClientInv, Unused, stage \in Shaking, NEW r \in Seq(Signs), NEW w \in Seq(Signs),
         r \o w = Words, OnConnect(r)
  PROVE  Unused' /\ Handed'
<1> DEFINE k == Len(r)
           c == [pair EXCEPT !.in["remote"] = Upto(k)]
           G == [given EXCEPT !["remote"] = k]
           f == (Upto(k) # << >>)
<1>1. /\ pair.in = Both(<< >>) /\ pair.out = Both(<< >>) /\ pair.got = Both(<< >>)
      /\ pair.lost = Both(FALSE) /\ pair.mode = Both("connecting") /\ pair \in PairType(Int)
      /\ given = Both(0) /\ stage # "done" /\ ~pair.misused
      /\ pair.live["remote"] /\ pair.context["remote"] = "live"
      /\ pair.live["server"] => Settled(Int, pair) /\ Quiet(pair)
  BY DEF Unused, ClientInv, Lifetimes, Shaking, Reading
<1>2. [i \in 1..Len(r) |-> r[i] - HOST] = Upto(k) /\ k \in 0..MaxSaid
  BY SaidIs DEF ClientInv
<1>3. CASE ~pair.live["server"]
  <2>1. /\ pair' = [pair EXCEPT !.misused = TRUE] /\ stage' = "crashed"
        /\ UNCHANGED <<given, early, connected>>
    BY <1>3 DEF OnConnect
  <2> QED
    BY <1>1, <2>1, BothSides, StillUnused
<1>4. CASE pair.live["server"]
  <2>1. /\ pair' \in {Gone(Gone(c, "remote"), "server")} \cup Push(AwaitsReply(c), "server")
        /\ connected' = TRUE /\ given' = G /\ early' = f /\ stage' = "done"
    <3> DEFINE said == [i \in 1..Len(r) |-> r[i] - HOST]
    <3>1. /\ pair' \in {Gone(Gone([pair EXCEPT !.in["remote"] = said], "remote"), "server")}
                        \cup Push(AwaitsReply([pair EXCEPT !.in["remote"] = said]), "server")
          /\ connected' = TRUE /\ given' = [given EXCEPT !["remote"] = Len(said)]
          /\ early' = (said # << >>) /\ stage' = "done"
      BY <1>4 DEF OnConnect
    <3>2. said = Upto(k) /\ Len(Upto(k)) = k
      BY <1>2, WordsType
    <3> HIDE DEF said
    <3> QED
      BY <3>1, <3>2
  <2> HIDE DEF k
  <2>2. Upto(k) \in Seq(Symbols) /\ (k = 0 <=> Upto(k) = << >>) /\ k \in Symbols /\ k \in Nat
    BY <1>2, WordsType DEF Symbols
  <2>3. f \in BOOLEAN /\ (~f <=> k = 0)
    BY <2>2
  <2>4. /\ G \in [Sides -> Symbols] /\ G \in [Sides -> Nat]
        /\ G["remote"] = k /\ G["server"] = 0
    <3>1. 0 \in Symbols /\ 0 \in Nat
      BY MaxReadAssumption DEF Symbols
    <3> QED
      BY <1>1, <2>2, <3>1, BothSides DEF Both
  <2>5. /\ c.live = pair.live /\ c.context = pair.context /\ c.mode = pair.mode
        /\ c.out = pair.out /\ c.got = pair.got /\ c.lost = pair.lost
        /\ c.misused = pair.misused /\ c.enabled = pair.enabled
        /\ c.in = [pair.in EXCEPT !["remote"] = Upto(k)]
    BY <1>1 DEF PairType
  <2>6. c.in["remote"] = Upto(k) /\ c.in["server"] = << >>
    <3>1. pair.in = [x \in Sides |-> << >>]
      BY <1>1 DEF Both
    <3> HIDE DEF c
    <3> QED
      BY <2>5, <3>1, BothSides
  <2>7. c \in PairType(Symbols)
    <3>1. << >> \in Seq(Symbols)
      BY EmptySeq
    <3>2. /\ pair.out \in [Sides -> Seq(Symbols)] /\ pair.got \in [Sides -> Seq(Symbols)]
          /\ pair.in \in [Sides -> Seq(Symbols)]
      BY <1>1, <3>1 DEF Both
    <3>3. pair \in PairType(Symbols)
      BY <1>1, <3>2 DEF PairType
    <3> DEFINE z == Upto(k)
    <3>4. z \in Seq(Symbols)
      BY <2>2
    <3> HIDE DEF z
    <3>5. [pair EXCEPT !.in["remote"] = z] \in PairType(Symbols)
      BY <3>3, <3>4, BothSides DEF PairType
    <3> QED
      BY <3>5 DEF z
  <2> HIDE DEF c, G, f
  <2>8. /\ Settled(Symbols, c) /\ Quiet(c) /\ Sound(Int, c)
        /\ c.live["remote"] /\ c.live["server"]
    <3>1. Settled(Symbols, c) /\ Quiet(c)
      BY <1>1, <1>4, <2>5, <2>7 DEF Settled, Sound, Quiet
    <3> QED
      BY <1>1, <1>4, <2>5, <3>1, SettledWithInt DEF Settled
  <2>9. \A x \in Sides : Unlost(c, x)
    BY <1>1, <2>5 DEF Unlost, Both
  <2>10. Flows(c, G, f)
    <3>1. SUFFICES ASSUME NEW e \in Sides
                   PROVE  Ends(c, e) /\ InOrder(c, G, e) /\ Before(c, G, f, e) /\ Through(c, G, f, e)
      BY DEF Flows
    <3>2. /\ c.live[e] /\ c.mode[e] = "connecting" /\ c.got[e] = << >> /\ c.out[e] = << >>
      BY <1>1, <2>5, <2>8, BothSides DEF Both
    <3>3. c.in[e] = Upto(G[e])
      <4>1. Upto(0) = << >>
        BY DEF Upto
      <4> QED
        BY <2>4, <2>6, <4>1, BothSides
    <3>4. InOrder(c, G, e)
      <4>1. Due(G, e) \in Seq(Int) /\ << >> \in Seq(Int)
        BY <2>4, DueType
      <4>2. Sent(c, e) = << >>
        BY <3>2, <4>1, ConcatEmptySeq DEF Sent
      <4> QED
        BY <4>1, <4>2, PrefixOfLonger DEF InOrder
    <3>5. e = "server" \/ ~f => G[e] = 0
      BY <2>3, <2>4, BothSides
    <3> QED
      BY <3>2, <3>3, <3>4, <3>5 DEF Ends, Before, Through, Begun
  <2>11. ASSUME pair' = Gone(Gone(c, "remote"), "server")
         PROVE  Settled(Symbols, pair') /\ Passing(pair', G, f, TRUE)
    <3>1. Sound(Symbols, c)
      BY <2>8 DEF Settled
    <3>2. Settled(Symbols, pair')
      BY <2>8, <2>11, <3>1, BothSides, BothGone
    <3>3. Passing(pair', G, f, TRUE)
      BY <2>3, <2>4, <2>8, <2>9, <2>10, <2>11, NothingPasses
    <3> QED
      BY <3>2, <3>3
  <2>12. ASSUME pair' \in Push(AwaitsReply(c), "server")
         PROVE  Settled(Symbols, pair') /\ Passing(pair', G, f, TRUE)
    <3>0. REPLY \in Symbols
      BY MaxReadAssumption DEF REPLY, Symbols
    <3>1. Settled(Symbols, AwaitsReply(c)) /\ AwaitsReply(c).live["server"]
      BY <2>8, <3>0, AwaitsReplySettled
    <3>2. Settled(Symbols, pair')
      BY <2>12, <3>1, BothSides, PushSettled
    <3>3. Sound(Int, AwaitsReply(c))
      BY <3>1, SettledWithInt DEF Settled
    <3>4. Passing(AwaitsReply(c), G, f, TRUE)
      BY <2>3, <2>4, <2>8, <2>9, <2>10, AwaitsReplyPassing
    <3>5. Passing(pair', G, f, TRUE)
      BY <2>3, <2>4, <2>12, <3>1, <3>3, <3>4, BothSides, PushPassing
    <3> QED
      BY <3>2, <3>5
  <2>13. Settled(Symbols, pair') /\ Passing(pair', G, f, TRUE)
    BY <2>1, <2>11, <2>12
  <2>14. /\ given' = G /\ early' = f /\ connected' = TRUE /\ stage' = "done"
    BY <2>1
  <2> QED
    BY <2>3, <2>4, <2>13, <2>14 DEF Unused, Handed
<1> QED
  BY <1>3, <1>4

\* ... and of what follows a name that is misread, nothing is said.
LEMMA HandOverMisread ==
  ASSUME ClientInv, Unused, stage \in Shaking, NEW r, Misread, script' = script, OnConnect(r)
  PROVE  Unused' /\ Handed'
<1>1. Handed'
  BY ScriptKept DEF Handed
<1>2. CASE ~pair.live["server"]
  <2>1. /\ pair' = [pair EXCEPT !.misused = TRUE] /\ stage' = "crashed" /\ stage # "done"
        /\ UNCHANGED <<given, early, connected>>
    BY <1>2 DEF OnConnect, Shaking, Reading
  <2> QED
    BY <2>1, BothSides, StillUnused
<1>3. CASE pair.live["server"]
  BY <1>1, <1>3 DEF OnConnect, Unused
<1> QED
  BY <1>2, <1>3

LEMMA StaysMisread ==
  ASSUME Misread, script' = script, stage' = "done"
  PROVE  Unused' /\ Handed'
  BY ScriptKept DEF Unused, Handed

LEMMA EndsHanded ==
  ASSUME ClientInv, Handed, EndsOnceHanded, ~Misread
  PROVE  Unused' /\ Handed'
<1>1. /\ stage = "done" /\ stage' = "done" /\ UNCHANGED <<given, early, connected>>
      /\ pair' = IF pair.live["remote"] THEN Closed(pair, "remote") ELSE pair
  BY DEF EndsOnceHanded
<1>2. /\ Settled(Symbols, pair) /\ connected = TRUE /\ early \in BOOLEAN
      /\ given \in [Sides -> Symbols] /\ Passing(pair, given, early, connected)
  BY <1>1 DEF Handed
<1>3. given \in [Sides -> Nat] /\ Sound(Int, pair) /\ Sound(Symbols, pair)
  <2>1. \A x \in Symbols : x \in Nat
    BY MaxReadAssumption DEF Symbols
  <2> QED
    BY <1>2, <2>1, SettledWithInt DEF Settled
<1>4. Settled(Symbols, pair') /\ Passing(pair', given, early, connected)
  <2>1. CASE pair.live["remote"]
    BY <1>1, <1>2, <1>3, <2>1, BothSides, ClosedSettled, ClosedPassing
  <2>2. CASE ~pair.live["remote"]
    BY <1>1, <1>2, <2>2
  <2> QED
    BY <2>1, <2>2
<1> QED
  BY <1>1, <1>2, <1>4 DEF Unused, Handed

LEMMA RelayHanded ==
  ASSUME ClientInv, Handed, Relay, ~Misread
  PROVE  Unused' /\ Handed'
<1>1. /\ stage = "done" /\ stage' = "done" /\ Settled(Symbols, pair) /\ connected = TRUE
      /\ given \in [Sides -> Symbols] /\ given \in [Sides -> Nat] /\ early \in BOOLEAN
      /\ Passing(pair, given, early, connected)
  <2>1. stage = "done" /\ stage' = "done"
    BY DEF Relay
  <2>2. \A x \in Symbols : x \in Nat
    BY MaxReadAssumption DEF Symbols
  <2> QED
    BY <2>1, <2>2 DEF Handed
<1>2. Settled(Int, pair)
  BY <1>1, SettledWithInt
<1>3. \E e \in Sides : Read(e) \/ End(e)
  BY <1>1 DEF Relay, Next, Connect, ConnectFails
<1>4. ASSUME NEW e \in Sides, Read(e) PROVE Handed'
  <2>1. given[e] + 1 \in Symbols
    BY <1>1, <1>4, MaxReadAssumption DEF Read, Symbols
  <2>2. Settled(Symbols, pair')
    BY <1>1, <1>4, <2>1, ReadSettled
  <2>3. Passing(pair', given', early', connected)
    BY <1>1, <1>2, <1>4, ReadPassing
  <2>4. given' \in [Sides -> Symbols] /\ early' \in BOOLEAN /\ connected' = connected
    BY <1>1, <1>4, <2>1 DEF Read
  <2> QED
    BY <1>1, <2>2, <2>3, <2>4 DEF Handed
<1>5. ASSUME NEW e \in Sides, End(e) PROVE Handed'
  <2>1. Settled(Symbols, pair')
    BY <1>1, <1>5, EndSettled
  <2>2. Passing(pair', given, early, connected)
    BY <1>1, <1>2, <1>5, EndPassing
  <2>3. given' = given /\ early' = early /\ connected' = connected
    BY <1>5 DEF End
  <2> QED
    BY <1>1, <2>1, <2>2, <2>3 DEF Handed
<1> QED
  BY <1>1, <1>3, <1>4, <1>5 DEF Unused

LEMMA InitUnused == ClientInit => Unused /\ Handed
  BY DEF ClientInit, Init, Unused, Handed

LEMMA UsedNext ==
  ASSUME WholeAnswers, ClientInv, Placed, Unused, Handed, [ClientNext]_clientVars
  PROVE  Unused' /\ Handed'
<1>1. CASE UNCHANGED clientVars
  BY <1>1, ScriptKept DEF clientVars, session, upstream, Unused, Handed
<1>2. ASSUME stage \in Shaking \cup {"lost", "failed"}, stage' # "done",
             UNCHANGED <<given, early, connected>>, NEW e \in Sides,
             pair' \in {pair, FreeEvent(pair, e), Gone(pair, e),
                        [FreeEvent(pair, e) EXCEPT !.misused = TRUE]}
      PROVE  Unused' /\ Handed'
  <2>1. stage # "done"
    BY <1>2 DEF Shaking, Reading
  <2> QED
    BY <1>2, <2>1, StillUnused
<1>3. CASE UpstreamConnect
  BY <1>2, <1>3, BothSides DEF UpstreamConnect, Shaking
<1>0. ASSUME NEW u \in Seq(Signs), NEW v \in Seq(Signs), Given(u, v), UpstreamCallback(u),
             stage \in Shaking
      PROVE  Unused' /\ Handed'
  <2>1. Hands(v) /\ script' = script
    BY <1>0, CallbackLands DEF Given
  <2>2. CASE /\ stage' # "done" /\ UNCHANGED <<given, early, connected>>
             /\ pair' \in {pair, Gone(pair, "remote")}
    BY <1>0, <1>2, <2>2, BothSides
  <2>3. ASSUME NEW r \in Seq(Signs), Misread \/ r \o v = Words, OnConnect(r)
        PROVE  Unused' /\ Handed'
    BY <1>0, <2>1, <2>3, HandOver, HandOverMisread
  <2> QED
    BY <2>1, <2>2, <2>3 DEF Hands
<1>4. ASSUME NEW n \in 1..Len(wire), UpstreamRead(n)
      PROVE  Unused' /\ Handed'
  <2>1. PICK u \in Seq(Signs), v \in Seq(Signs) : Given(u, v) /\ UpstreamCallback(u)
    BY <1>4, PieceGiven
  <2> QED
    BY <1>0, <1>4, <2>1 DEF UpstreamRead, Shaking
<1>10. CASE UpstreamLastRead
  BY <1>0, <1>10, UpstreamLastReadGiven
<1>5. CASE UpstreamFlush
  BY <1>2, <1>5, BothSides DEF UpstreamFlush, session, Shaking, Reading
<1>6. CASE UpstreamAnswers
  BY <1>2, <1>6, BothSides DEF UpstreamAnswers, session, Shaking, Reading
<1>7. CASE UpstreamEnds
  BY <1>2, <1>7, BothSides DEF UpstreamEnds
<1>8. CASE LocalEnds
  BY <1>2, <1>8, BothSides DEF LocalEnds, Shaking, Reading
<1>9. CASE Relay
  BY <1>9, RelayHanded, StaysMisread DEF Relay, upstream
<1>11. CASE EndsOnceHanded
  BY <1>11, EndsHanded, StaysMisread DEF EndsOnceHanded, upstream
<1> QED
  BY <1>1, <1>3, <1>4, <1>5, <1>6, <1>7, <1>8, <1>9, <1>10, <1>11 DEF ClientNext

-----------------------------------------------------------------------------
(* What holds of every server whose answers are whole.                     *)

Place == Placed /\ Unused /\ Handed

LEMMA PlaceInit == ClientInit => ClientInv /\ Place
  BY ClientInitInv, InitPlaced, InitUnused DEF Place

LEMMA PlaceNext ==
  ASSUME WholeAnswers
  PROVE  ClientInv /\ Place /\ [ClientNext]_clientVars => ClientInv' /\ Place'
  BY ClientNextInv, PlacedNext, UsedNext DEF Place

LEMMA NothingGot ==
  ASSUME Unused, stage # "done"
  PROVE  REPLY \notin ToSet(pair.got["server"] \o pair.out["server"])
<1>1. pair.got["server"] = << >> /\ pair.out["server"] = << >>
  BY BothSides DEF Unused, Both
<1>2. << >> \o << >> = << >>
  BY ConcatEmptySeq, EmptySeq
<1>3. ToSet(<< >>) = {}
  BY DEF ToSet
<1> QED
  BY <1>1, <1>2, <1>3

LEMMA PlaceInTurn ==
  ASSUME ClientInv, Place
  PROVE  AsksInTurn
<1>1. InTurn
  BY AlwaysInTurn DEF Place, Placed
<1>2. CASE stage # "done"
  BY <1>1, <1>2, NothingGot DEF AsksInTurn, InTurn, Place
<1>3. CASE stage = "done"
  <2>1. asked = Wanted /\ answered = Len(asked) /\ script.reply[2] = SUCCEEDED
    BY <1>3 DEF Place, Placed, At, Settles, Accepted
  <2> QED
    BY <1>1, <2>1 DEF AsksInTurn, InTurn
<1> QED
  BY <1>2, <1>3

\* The password goes only to a server that has asked for it, the request only to
\* one that has accepted what it asked for, and the local client is told that it
\* is connected only by a server that has granted it, whatever the pieces of the
\* answers (docks_client.c, auth.c).
THEOREM ClientAsksInTurn ==
  ASSUME WholeAnswers
  PROVE  ClientSpec => []AsksInTurn
<1>1. ClientInv /\ Place /\ [ClientNext]_clientVars => ClientInv' /\ Place'
  BY PlaceNext
<1>2. ClientInv /\ Place => AsksInTurn
  BY PlaceInTurn
<1> QED
  BY <1>1, <1>2, PlaceInit, PTL DEF ClientSpec

LEMMA PlaceMoves ==
  ASSUME WholeAnswers, ClientInv, Place
  PROVE  NoAnswerHeldBack
<1> SUFFICES ASSUME stage \in Reading, wire = << >>, asking = << >>, answered = Len(asked),
                    ~Misread
             PROVE  TurnedDown
  BY DEF NoAnswerHeldBack
<1>1. /\ At(stage, inbox) /\ Short(stage, inbox) /\ Streams /\ inbox \in Seq(Signs)
      /\ asked \in Seq(Messages) /\ Len(asked) \in Nat /\ Len(inbox) \in Nat
  <2>1. inbox \in Seq(Signs) /\ asked \in Seq(Messages) /\ Streams
    BY DEF ClientInv, Streams
  <2>2. inbox \o << >> = inbox /\ Len(asked) \in Nat /\ Len(inbox) \in Nat
    BY <2>1, ConcatEmptySeq, LenProperties
  <2> QED
    BY <2>1, <2>2 DEF Place, Placed
<1>2. ASSUME NEW m, NEW a, Pends(m, a, inbox) PROVE Settles(m) /\ inbox = a
  <2>1. asked \o << >> = asked
    BY <1>1, ConcatEmptySeq
  <2>2. CASE asked \o asking = m /\ answered + 1 = Len(m)
    <3>1. Len(asked) + 1 = Len(asked)
      BY <2>1, <2>2
    <3> QED
      BY <1>1, <3>1
  <2> QED
    BY <1>2, <2>2 DEF Pends
<1>3. CASE stage = "negotiation"
  <2>1. CASE Pends(<<"methods">>, script.method, inbox)
    <3>1. Len(inbox) = 2
      BY <1>1, <1>2, <2>1, AnswersWhole
    <3> QED
      BY <1>1, <1>3, <3>1 DEF Short
  <2>2. CASE BadMethod
    BY <2>2 DEF BadMethod, TurnedDown
  <2> QED
    BY <1>1, <1>3, <2>1, <2>2 DEF At
<1>4. CASE stage = "login"
  <2>1. CASE Pends(<<"methods", "login">>, script.login, inbox)
    <3>1. Len(inbox) = 2
      BY <1>1, <1>2, <2>1, AnswersWhole
    <3> QED
      BY <1>1, <1>4, <3>1 DEF Short
  <2>2. CASE Settles(<<"methods", "login">>) /\ script.login # <<1, 0>>
    <3>1. Len(<<"methods", "login">>) = 2 /\ <<"methods", "login">>[2] = "login"
      OBVIOUS
    <3>2. Len(asked) = 2 /\ asked[2] = "login"
      BY <2>2, <3>1 DEF Settles
    <3>3. "login" \in ToSet(asked)
      BY <1>1, <3>2 DEF ToSet
    <3> QED
      BY <2>2, <3>3 DEF TurnedDown
  <2> QED
    BY <1>1, <1>4, <2>1, <2>2 DEF At
<1>5. Len(LastAnswer) >= Len(script.reply) /\ Len(script.reply) >= 3 /\ LastAnswer \in Seq(Signs)
      /\ Len(LastAnswer) \in Nat /\ Len(script.reply) \in Nat
  <2>1. LastAnswer = script.reply \o Words /\ script.reply \in Seq(Signs) /\ Words \in Seq(Signs)
        /\ LastAnswer \in Seq(Signs)
    BY <1>1, WordsAre, AnswerTypes
  <2>2. Len(script.reply) <= Len(script.reply \o Words)
    BY <2>1, SameBeginning
  <2> QED
    BY <1>1, <2>1, <2>2, AnswersWhole, LenProperties
<1>6. CASE stage = "connect"
  <2>1. inbox = LastAnswer
    BY <1>1, <1>2, <1>6 DEF At
  <2> QED
    BY <1>1, <1>5, <1>6, <2>1 DEF Short
<1>7. CASE stage = "bind_host"
  <2>1. /\ Accepted /\ inbox = Drop(LastAnswer, 3)
        /\ inbox = << >> \/ Len(inbox) < BindHostLen(inbox)
    BY <1>1, <1>7 DEF At, Short
  <2>2. Len(script.reply) >= 5 /\ (HostLen # 0 => Len(script.reply) = 3 + HostLen + 2)
    BY <1>1, <2>1, AnswersWhole
  <2>3. Len(inbox) = Len(LastAnswer) - 3
    <3>1. 3 \in Nat /\ 3 <= Len(LastAnswer)
      BY <1>5
    <3>2. Len(Rest(LastAnswer, 3)) = Len(LastAnswer) - 3
      BY <1>5, <3>1, RestProperties
    <3> QED
      BY <2>1, <3>2, DropIsRest
  <2>4. inbox # << >> /\ Len(inbox) >= 2
    <3>1. Len(inbox) >= 2
      BY <1>5, <2>2, <2>3
    <3> QED
      BY <3>1, EmptySeq
  <2>5. Len(inbox) < BindHostLen(inbox) /\ BindHostLen(inbox) \in Nat /\ BindHostLen(inbox) # 0
    BY <1>1, <2>1, <2>4, HostLenType
  <2>6. HostLen # 0 /\ HostLen = BindHostLen(inbox)
    <3>1. /\ Drop(script.reply, 3) \in Seq(Signs)
          /\ Len(Drop(script.reply, 3)) = Len(script.reply) - 3
          /\ inbox = Drop(script.reply, 3) \o Words /\ Words \in Seq(Signs)
      BY <1>1, <2>1, AfterThree, WordsAre
    <3> DEFINE x == Drop(script.reply, 3)
    <3>2. x \in Seq(Signs) /\ Len(x) >= 2 /\ inbox = x \o Words /\ Len(x) \in Nat
          /\ HostLen = BindHostLen(x)
      BY <1>5, <2>2, <3>1, LenProperties DEF HostLen
    <3> HIDE DEF x
    <3>3. 1 \in 1..Len(x) /\ 2 \in 1..Len(x)
      BY <3>2
    <3>4. inbox[1] = x[1] /\ inbox[2] = x[2]
      BY <3>1, <3>2, <3>3, SameBeginning
    <3>5. BindHostLen(inbox) = BindHostLen(x)
      BY <1>1, <2>4, <3>2, <3>4 DEF BindHostLen
    <3> QED
      BY <2>5, <3>2, <3>5
  <2> QED
    BY <1>5, <2>2, <2>3, <2>5, <2>6
<1>8. CASE stage = "bind_port"
  <2>1. /\ Accepted /\ HostLen # 0 /\ inbox = Drop(LastAnswer, 3 + HostLen) /\ Len(inbox) < 2
    BY <1>1, <1>8 DEF At, Short
  <2>2. Len(script.reply) = 3 + HostLen + 2 /\ HostLen \in Nat
    BY <1>1, <2>1, AnswersWhole, AfterThree, HostLenType DEF HostLen
  <2>3. 3 + HostLen \in Nat /\ 3 + HostLen <= Len(LastAnswer)
    BY <1>5, <2>2
  <2>4. \A s \in Seq(Signs) : \A j \in Nat : j <= Len(s) => Len(Rest(s, j)) = Len(s) - j
    BY RestProperties
  <2>5. Len(inbox) = Len(LastAnswer) - (3 + HostLen)
    BY <1>5, <2>1, <2>3, <2>4, DropIsRest, Zenon
  <2> QED
    BY <1>5, <2>1, <2>2, <2>5
<1> QED
  BY <1>3, <1>4, <1>6, <1>7, <1>8 DEF Reading

\* However an answer is cut, once all of it is there it has been acted upon, has
\* turned the client down, or names a host of more than CharMax bytes (docks_client.c,
\* auth.c, docks_connect.c).
THEOREM ClientHoldsNothingBack ==
  ASSUME WholeAnswers
  PROVE  ClientSpec => []NoAnswerHeldBack
<1>1. ClientInv /\ Place /\ [ClientNext]_clientVars => ClientInv' /\ Place'
  BY PlaceNext
<1>2. ClientInv /\ Place => NoAnswerHeldBack
  BY PlaceMoves
<1> QED
  BY <1>1, <1>2, PlaceInit, PTL DEF ClientSpec

LEMMA PlaceLikeSession ==
  ASSUME ClientInv, Place
  PROVE  LikeAnySession
<1>1. ~(stage = "done" /\ Misread) => TypeOK
  <2>1. CASE stage = "done" /\ ~Misread
    <3>1. /\ Settled(Symbols, pair) /\ given \in [Sides -> Symbols]
          /\ early \in BOOLEAN /\ connected = TRUE
      BY <2>1 DEF Place, Handed
    <3> QED
      BY <3>1 DEF Settled, Sound, PairType, Symbols, TypeOK
  <2>2. CASE stage # "done"
    <3>1. /\ pair.in = Both(<< >>) /\ pair.out = Both(<< >>) /\ pair.got = Both(<< >>)
          /\ pair.mode = Both("connecting") /\ pair \in PairType(Int)
          /\ given = Both(0) /\ early = FALSE /\ connected = FALSE
      BY <2>2 DEF Place, Unused, ClientInv, Lifetimes
    <3>2. << >> \in Seq(0..MaxRead) /\ 0 \in 0..MaxRead
      BY EmptySeq, MaxReadAssumption
    <3>3. /\ pair.in \in [Sides -> Seq(0..MaxRead)] /\ pair.out \in [Sides -> Seq(0..MaxRead)]
          /\ pair.got \in [Sides -> Seq(0..MaxRead)] /\ given \in [Sides -> 0..MaxRead]
      BY <3>1, <3>2 DEF Both
    <3>4. pair.mode["remote"] # "replying"
      BY <3>1, BothSides DEF Both
    <3> QED
      BY <3>1, <3>3, <3>4 DEF PairType, TypeOK
  <2> QED
    BY <2>1, <2>2
<1>2. ClientTypeOK
  <2>1. /\ inbox \in Seq(Signs) /\ wire \in Seq(Signs) /\ asking \in Seq(Messages)
        /\ asked \in Seq(Messages) /\ answered \in 0..Len(asked)
    BY LenProperties DEF ClientInv, Streams
  <2>2. ending \in BOOLEAN /\ fault \in {"none", "left", "first_write"}
    BY DEF ClientInv, Streams
  <2> QED
    BY <1>1, <2>1, <2>2 DEF ClientTypeOK, ClientInv, Lifetimes, Signs
<1>3. ASSUME stage = "done", ~Misread
      PROVE  ContextFollowsEvent /\ OutlivesToSend /\ Delivered
  <2>1. /\ Settled(Symbols, pair) /\ PassingInv
    BY <1>3 DEF Place, Handed, PassingInv
  <2>2. Delivered
    BY <1>1, <1>3, <2>1, PassingIsDelivered
  <2>3. ContextFollowsEvent /\ OutlivesToSend
    BY <2>1 DEF Settled, Sound, ContextFollowsEvent, OutlivesToSend
  <2> QED
    BY <2>2, <2>3
<1> QED
  BY <1>2, <1>3 DEF LikeAnySession

\* A session begun by the docks client is like any other, unless the bound name was
\* longer than CharMax, and what the host has said in the same piece as the last answer
\* reaches the local client in its place (docks_client.c, on_connect).
THEOREM ClientLikeAnySession ==
  ASSUME WholeAnswers
  PROVE  ClientSpec => []LikeAnySession
<1>1. ClientInv /\ Place /\ [ClientNext]_clientVars => ClientInv' /\ Place'
  BY PlaceNext
<1>2. ClientInv /\ Place => LikeAnySession
  BY PlaceLikeSession
<1> QED
  BY <1>1, <1>2, PlaceInit, PTL DEF ClientSpec
=============================================================================
