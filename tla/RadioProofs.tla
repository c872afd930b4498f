------------------------------ MODULE RadioProofs ------------------------------
(***************************************************************************)
(* What holds of what goes over a robot's radio.  Of btd's transport, for  *)
(* any number of subscriptions and requests and any length of its queues:  *)
(* the types of its variables, that no session dispatches a line nobody    *)
(* wrote, and that the write slot stays with the newest subscription.  Of  *)
(* ducks that sing together, for any number of them, whoever hears whom:   *)
(* the types, and that a follower with a fit sings what its conductor      *)
(* sings, at the conductor's beat.  Of a gamepad, for any deadman, hold    *)
(* and socket: the types, that a robot posed with it does not walk, and    *)
(* that no taps add up to a shutdown.                                      *)
(***************************************************************************)
EXTENDS BleTransport, Chorale, PadDrive, SequenceTheorems, FiniteSetTheorems, TLAPS

-----------------------------------------------------------------------------
(* btd (BleTransport). *)

LEMMA BleNats ==
    /\ LastSession \in Nat /\ LastRequest \in Nat /\ Inbound \in Nat /\ Outbound \in Nat
    /\ PinAttempts \in Nat /\ MaxNotes \in Nat /\ MaxOutages \in Nat
    /\ LastSession > 0 /\ LastRequest > 0 /\ Inbound > 0 /\ Outbound > 0 /\ PinAttempts > 0
BY BleAssumption, BleBounds

\* The records of sessions, as BleTypeOK has them field by field, and that a session that
\* takes the next line has a try left at the PIN.
SessionSet ==
    [run: {"unborn", "runs", "ended"}, pump: {"waits", "notifies", "ended"},
     carries: Line, inq: Seq(Chunk), held: Seq(Chunk), authed: BOOLEAN, tries: 0..PinAttempts,
     say: Line, replies: Seq(Line), outq: Seq(Line), lane: [Lanes -> Seq(Requests)],
     open: SUBSET Lanes, dead: SUBSET Lanes]

Sound(x) ==
    /\ x \in SessionSet
    /\ Len(x.inq) <= Inbound /\ Len(x.replies) <= Outbound /\ Len(x.outq) <= Outbound
    /\ x.dead \subseteq x.open
    /\ x.run = "runs" /\ x.say = Nothing => x.tries > 0

\* The variables apart from the sessions.
PlainTypeOK ==
    /\ slot \in Sessions \cup {NoSlot} /\ newest \in 0..LastSession
    /\ here \in BOOLEAN /\ garbled \in BOOLEAN
    /\ writing \in [req: 1..LastRequest + 1, half: {"head", "tail"}]
    /\ writing.half = "tail" => writing.req \in Requests
    /\ kind \in [Requests -> Kinds] /\ owner \in [Requests -> 0..LastSession]
    /\ fate \in [Requests -> Fates]
    /\ notes \in 0..MaxNotes /\ outages \in 0..MaxOutages

SessionsOK == sess \in [Sessions -> SessionSet] /\ \A s \in Sessions : Sound(sess[s])

BleInv == PlainTypeOK /\ SessionsOK

LEMMA BleInvTypes == BleInv => BleTypeOK
BY DEF BleInv, PlainTypeOK, SessionsOK, Sound, SessionSet, BleTypeOK

----------------------------------------------------------------------------
(* The records a step leaves in a session's place.                          *)

LEMMA FreshSound ==
    ASSUME NEW s
    PROVE  Sound(Unborn) /\ Sound(Fresh(s))
<1>1. PinAttempts \in 0..PinAttempts /\ Nothing \in Line
    BY BleNats DEF Line, Nothing
<1>2. [l \in Lanes |-> <<>>] \in [Lanes -> Seq(Requests)]
    OBVIOUS
<1>3. Unborn \in SessionSet
    BY <1>1, <1>2 DEF Unborn, SessionSet
<1>4. Fresh(s) \in SessionSet /\ Fresh(s).tries = PinAttempts
    <2>1. Fresh(s) \in SessionSet /\ Fresh(s).tries = Unborn.tries
        BY <1>3 DEF Fresh, SessionSet
    <2> QED BY <2>1 DEF Unborn
<1>5. /\ Unborn.inq = <<>> /\ Unborn.replies = <<>> /\ Unborn.outq = <<>> /\ Unborn.dead = {}
      /\ Unborn.run = "unborn" /\ Unborn.tries = PinAttempts
    BY DEF Unborn
<1>6. /\ Fresh(s).inq = <<>> /\ Fresh(s).replies = <<>> /\ Fresh(s).outq = <<>>
      /\ Fresh(s).dead = {}
    BY DEF Fresh, Unborn
<1>7. Sound(Unborn)
    BY <1>3, <1>5, BleNats DEF Sound
<1>8. Sound(Fresh(s))
    BY <1>4, <1>6, BleNats DEF Sound
<1> QED BY <1>7, <1>8

LEMMA WriteSound ==
    ASSUME NEW x, Sound(x), NEW k \in Chunk, Len(x.inq) < Inbound
    PROVE  Sound([x EXCEPT !.inq = Append(@, k)])
<1>1. Append(x.inq, k) \in Seq(Chunk) /\ Len(Append(x.inq, k)) <= Inbound
    BY BleNats DEF Sound, SessionSet
<1> QED BY <1>1 DEF Sound, SessionSet

\* A session that has read a chunk and holds h of a line.
LEMMA TakeChunkSound ==
    ASSUME NEW x, Sound(x), x.inq # <<>>, NEW h \in Seq(Chunk)
    PROVE  Sound([x EXCEPT !.inq = Tail(@), !.held = h])
<1>1. Tail(x.inq) \in Seq(Chunk) /\ Len(Tail(x.inq)) <= Inbound
    BY BleNats DEF Sound, SessionSet
<1> QED BY <1>1 DEF Sound, SessionSet

LEMMA SaySound ==
    ASSUME NEW x, Sound(x), NEW r \in Line, x.tries > 0
    PROVE  Sound([x EXCEPT !.say = r])
BY DEF Sound, SessionSet

LEMMA TakeReplySound ==
    ASSUME NEW x, Sound(x), x.replies # <<>>, x.run = "runs", x.say = Nothing
    PROVE  Sound([x EXCEPT !.say = Head(x.replies), !.replies = Tail(x.replies)])
<1>1. /\ Tail(x.replies) \in Seq(Line) /\ Len(Tail(x.replies)) <= Outbound
      /\ Head(x.replies) \in Line
    BY BleNats DEF Sound, SessionSet
<1> QED BY <1>1 DEF Sound, SessionSet

LEMMA HearsSound ==
    ASSUME NEW s, NEW x, Sound(x), NEW line \in Line
    PROVE  Sound(Hears(s, x, line))
<1>1. ASSUME Len(x.replies) < Outbound
      PROVE  Append(x.replies, line) \in Seq(Line) /\ Len(Append(x.replies, line)) <= Outbound
    BY <1>1, BleNats DEF Sound, SessionSet
<1> QED BY <1>1 DEF Hears, Sound, SessionSet

LEMMA SaidSound ==
    ASSUME NEW x, Sound(x), Len(x.outq) < Outbound, NEW run, NEW out,
           run = IF x.tries = 0 THEN "ended" ELSE x.run, out = Append(x.outq, x.say)
    PROVE  Sound([x EXCEPT !.outq = out, !.say = Nothing, !.run = run])
<1>1. out \in Seq(Line) /\ Len(out) <= Outbound
    BY BleNats DEF Sound, SessionSet
<1>2. Nothing \in Line /\ run \in {"unborn", "runs", "ended"} /\ x.tries \in Nat
    BY BleNats DEF Sound, SessionSet, Nothing, Line
<1>3. run = "runs" => x.tries > 0
    BY <1>2
<1> QED BY <1>1, <1>2, <1>3 DEF Sound, SessionSet

LEMMA PumpSound ==
    ASSUME NEW x, Sound(x), NEW line \in Line
    PROVE  /\ Sound([x EXCEPT !.pump = "ended", !.run = "ended", !.carries = line])
           /\ Sound([x EXCEPT !.pump = "waits", !.carries = line])
           /\ Sound([x EXCEPT !.run = "ended"])
           /\ x.outq # <<>> => Sound([x EXCEPT !.pump = "notifies", !.carries = Head(x.outq),
                                               !.outq = Tail(x.outq)])
<1>1. x.outq # <<>> => /\ Tail(x.outq) \in Seq(Line) /\ Len(Tail(x.outq)) <= Outbound
                       /\ Head(x.outq) \in Line
    BY BleNats DEF Sound, SessionSet
<1>2. Sound([x EXCEPT !.pump = "ended", !.run = "ended", !.carries = line])
    BY DEF Sound, SessionSet
<1>3. Sound([x EXCEPT !.pump = "waits", !.carries = line])
    BY DEF Sound, SessionSet
<1>4. Sound([x EXCEPT !.run = "ended"])
    BY DEF Sound, SessionSet
<1>5. x.outq # <<>> => Sound([x EXCEPT !.pump = "notifies", !.carries = Head(x.outq),
                                       !.outq = Tail(x.outq)])
    BY <1>1 DEF Sound, SessionSet
<1> QED BY <1>2, <1>3, <1>4, <1>5

LEMMA LaneSound ==
    ASSUME NEW x, Sound(x), NEW l \in Lanes
    PROVE  /\ x.lane[l] # <<>> => /\ Sound([x EXCEPT !.lane[l] = Tail(@)])
                                  /\ Head(x.lane[l]) \in Requests
           /\ Sound([x EXCEPT !.lane = [k \in Lanes |-> <<>>], !.dead = x.open])
           /\ \A r \in Requests : Sound([x EXCEPT !.open = @ \cup {l},
                                                  !.lane[l] = Append(@, r)])
           /\ \A r \in Line : x.tries > 0 => Sound([x EXCEPT !.say = r, !.dead = @ \ {l},
                                                             !.open = @ \ {l}])
<1>1. x.lane \in [Lanes -> Seq(Requests)]
    BY DEF Sound, SessionSet
<1>2. x.lane[l] # <<>> => /\ Sound([x EXCEPT !.lane[l] = Tail(@)])
                          /\ Head(x.lane[l]) \in Requests
    <2>1. x.lane[l] # <<>> => /\ Tail(x.lane[l]) \in Seq(Requests)
                              /\ Head(x.lane[l]) \in Requests
        BY <1>1
    <2>2. x.lane[l] # <<>> => [x.lane EXCEPT ![l] = Tail(@)] \in [Lanes -> Seq(Requests)]
        BY <1>1, <2>1
    <2> QED BY <2>1, <2>2 DEF Sound, SessionSet
<1>3. Sound([x EXCEPT !.lane = [k \in Lanes |-> <<>>], !.dead = x.open])
    <2>1. [k \in Lanes |-> <<>>] \in [Lanes -> Seq(Requests)]
        OBVIOUS
    <2> QED BY <2>1 DEF Sound, SessionSet
<1>4. ASSUME NEW r \in Requests
      PROVE  Sound([x EXCEPT !.open = @ \cup {l}, !.lane[l] = Append(@, r)])
    <2>1. [x.lane EXCEPT ![l] = Append(@, r)] \in [Lanes -> Seq(Requests)]
        BY <1>1
    <2> QED BY <2>1 DEF Sound, SessionSet
<1>5. ASSUME NEW r \in Line, x.tries > 0
      PROVE  Sound([x EXCEPT !.say = r, !.dead = @ \ {l}, !.open = @ \ {l}])
    BY <1>5 DEF Sound, SessionSet
<1> QED BY <1>2, <1>3, <1>4, <1>5

LEMMA PinSound ==
    ASSUME NEW x, Sound(x), x.tries > 0, NEW r \in Line, r # Nothing,
           NEW right \in BOOLEAN, NEW told \in BOOLEAN
    PROVE  Sound([x EXCEPT !.say = r, !.authed = @ \/ (told /\ right),
                           !.tries = IF told /\ ~right THEN @ - 1 ELSE @])
<1>1. x.tries \in 0..PinAttempts /\ x.tries - 1 \in 0..PinAttempts
    BY BleNats DEF Sound, SessionSet
<1>2. (x.authed \/ (told /\ right)) \in BOOLEAN
    BY DEF Sound, SessionSet
<1> QED BY <1>1, <1>2 DEF Sound, SessionSet
----------------------------------------------------------------------------
(* The types.                                                               *)

\* A step that puts one sound session in the place of another keeps them all sound.
LEMMA OneSession ==
    ASSUME SessionsOK, NEW s \in Sessions, NEW x, Sound(x), sess' = [sess EXCEPT ![s] = x]
    PROVE  SessionsOK'
<1>1. x \in SessionSet
    BY DEF Sound
<1>2. sess' \in [Sessions -> SessionSet]
    BY <1>1 DEF SessionsOK
<1>3. \A t \in Sessions : sess'[t] = IF t = s THEN x ELSE sess[t]
    BY DEF SessionsOK
<1> QED BY <1>2, <1>3 DEF SessionsOK

LEMMA DispatchSound ==
    ASSUME SessionsOK, PlainTypeOK, NEW s \in Sessions, NEW r \in Requests,
           NEW x, Sound(x), x.tries > 0, Dispatch(s, r, x)
    PROVE  SessionsOK'
<1>1. r \in Line /\ r # Nothing /\ LaneOf(r) \in Lanes
    BY BleNats DEF Line, Nothing, LaneOf, Lanes, Requests
<1>2. CASE kind[r] = "pin"
    <2>1. PICK right \in BOOLEAN, told \in BOOLEAN :
              sess' = [sess EXCEPT ![s] =
                  [x EXCEPT !.say = r, !.authed = @ \/ (told /\ right),
                            !.tries = IF told /\ ~right THEN @ - 1 ELSE @]]
        BY <1>2 DEF Dispatch
    <2> DEFINE y == [x EXCEPT !.say = r, !.authed = @ \/ (told /\ right),
                              !.tries = IF told /\ ~right THEN @ - 1 ELSE @]
    <2>2. Sound(y)
        BY <1>1, PinSound
    <2>3. sess' = [sess EXCEPT ![s] = y]
        BY <2>1
    <2> HIDE DEF y
    <2> QED BY <2>2, <2>3, OneSession
<1>3. CASE kind[r] # "pin" /\ ~x.authed
    BY <1>1, <1>3, SaySound, OneSession DEF Dispatch
<1>4. CASE kind[r] # "pin" /\ x.authed /\ LaneOf(r) \in x.dead
    BY <1>1, <1>4, LaneSound, OneSession DEF Dispatch
<1>5. CASE kind[r] # "pin" /\ x.authed /\ LaneOf(r) \notin x.dead
    BY <1>1, <1>5, LaneSound, OneSession DEF Dispatch
<1> QED BY <1>2, <1>3, <1>4, <1>5
LEMMA BleInvStep ==
    ASSUME BleInv, [BleNext]_bleVars
    PROVE  BleInv'
<1> USE BleNats DEF centralVars, Requests, Sessions
<1>1. /\ PlainTypeOK /\ SessionsOK /\ \A s \in Sessions : Sound(sess[s])
    BY DEF BleInv, SessionsOK
<1>2. ASSUME NEW s \in Sessions
      PROVE  /\ sess[s] \in SessionSet /\ sess[s].inq \in Seq(Chunk) /\ sess[s].held \in Seq(Chunk)
             /\ sess[s].replies \in Seq(Line) /\ sess[s].outq \in Seq(Line)
             /\ sess[s].lane \in [Lanes -> Seq(Requests)] /\ sess[s].carries \in Line
             /\ Idle(s) => sess[s].tries > 0
    BY <1>1 DEF Sound, SessionSet, Idle
<1>3. Nothing \in Line /\ Note \in Line /\ \A r \in Requests : r \in Line /\ r # Nothing
    BY DEF Line, Nothing
<1>4. ASSUME UNCHANGED <<slot, centralVars, fate, notes, outages>>, garbled' \in BOOLEAN
      PROVE  PlainTypeOK'
    BY <1>1, <1>4 DEF PlainTypeOK
<1>5. CASE Subscribes
    <2>1. newest' \in Sessions /\ newest' = newest + 1
        BY <1>1, <1>5 DEF Subscribes, PlainTypeOK
    <2>2. SessionsOK'
        BY <1>1, <1>5, <2>1, FreshSound, OneSession DEF Subscribes
    <2>3. writing' \in [req: 1..LastRequest + 1, half: {"head", "tail"}]
          /\ (writing'.half = "tail" => writing'.req \in Requests)
        BY <1>1, <1>5 DEF Subscribes, PlainTypeOK, NextRequest
    <2>4. PlainTypeOK'
        BY <1>1, <1>5, <2>1, <2>3 DEF Subscribes, PlainTypeOK
    <2> QED BY <2>2, <2>4 DEF BleInv
<1>6. CASE Departs
    BY <1>1, <1>6 DEF Departs, BleInv, PlainTypeOK, SessionsOK
<1>7. CASE Write
    <2>1. slot \in Sessions /\ writing \in Chunk /\ writing.req \in Requests
        BY <1>1, <1>7 DEF Write, MayWrite, PlainTypeOK, Chunk, NoSlot
    <2>2. SessionsOK'
        BY <1>1, <1>7, <2>1, WriteSound, OneSession DEF Write
    <2>3. owner' \in [Requests -> 0..LastSession]
        <3>1. owner \in [Requests -> 0..LastSession]
            BY <1>1, ZenonT(40) DEF PlainTypeOK
        <3>2. slot \in 0..LastSession
            BY <2>1
        <3>3. owner' = [owner EXCEPT ![writing.req] = slot]
            BY <1>7 DEF Write, Written
        <3> QED BY <3>1, <3>2, <3>3
    <2>4. fate' \in [Requests -> Fates]
        BY <1>1, <1>7, <2>1 DEF Write, Written, PlainTypeOK, Fates
    <2>5. writing' \in [req: 1..LastRequest + 1, half: {"head", "tail"}]
          /\ (writing'.half = "tail" => writing'.req \in Requests)
        BY <1>1, <1>7, <2>1, SMTT(40) DEF Write, Written, PlainTypeOK, NextRequest
    <2>6. PlainTypeOK'
        BY <1>1, <1>7, <2>3, <2>4, <2>5 DEF Write, PlainTypeOK
    <2> QED BY <2>2, <2>6 DEF BleInv
<1>8. CASE Outage
    <2>1. \A s \in Sessions :
              sess'[s] = [sess[s] EXCEPT !.lane = [l \in Lanes |-> <<>>], !.dead = sess[s].open]
        BY <1>8 DEF Outage
    <2>2. \A s \in Sessions : Sound(sess'[s])
        BY <1>1, <2>1, LaneSound, ZenonT(40) DEF Lanes
    <2>3. sess' \in [Sessions -> SessionSet]
        BY <1>8, <2>1, <2>2 DEF Outage, Sound
    <2>4. fate' \in [Requests -> Fates] /\ outages' \in 0..MaxOutages
        <3>1. "lost" \in Fates /\ \A r \in Requests : fate[r] \in Fates
            BY <1>1 DEF PlainTypeOK, Fates
        <3>2. outages' \in 0..MaxOutages
            <4>1. outages \in 0..MaxOutages /\ outages < MaxOutages /\ outages' = outages + 1
                BY <1>1, <1>8 DEF Outage, PlainTypeOK
            <4> QED BY ONLY <4>1, MaxOutages \in Nat
        <3> QED BY <1>8, <3>1, <3>2 DEF Outage
    <2>5. PlainTypeOK'
        BY <1>1, <1>8, <2>4 DEF Outage, PlainTypeOK
    <2> QED BY <2>2, <2>3, <2>5 DEF BleInv, SessionsOK
<1>9. ASSUME NEW s \in Sessions, TakeChunk(s) PROVE BleInv'
    <2> DEFINE chunk == Head(sess[s].inq)
               line  == Append(sess[s].held, chunk)
               x     == [sess[s] EXCEPT !.inq = Tail(@)]
    <2>1. chunk \in Chunk /\ chunk.req \in Requests /\ line \in Seq(Chunk)
        <3>1. sess[s].inq # <<>> /\ sess[s].inq \in Seq(Chunk) /\ sess[s].held \in Seq(Chunk)
            BY <1>2, <1>9 DEF TakeChunk
        <3>2. chunk \in Chunk
            BY <3>1
        <3> QED BY <3>1, <3>2 DEF Chunk
    <2>2. Sound([x EXCEPT !.held = line]) /\ Sound([x EXCEPT !.held = <<>>])
        <3>1. /\ Sound([sess[s] EXCEPT !.inq = Tail(@), !.held = line])
              /\ Sound([sess[s] EXCEPT !.inq = Tail(@), !.held = <<>>])
            <4>1. <<>> \in Seq(Chunk) /\ sess[s].inq # <<>> /\ Sound(sess[s])
                BY <1>1, <1>9 DEF TakeChunk
            <4> HIDE DEF line, chunk
            <4> QED BY <2>1, <4>1, TakeChunkSound
        <3> QED BY <3>1
    <2>3. /\ Idle(s) /\ [x EXCEPT !.held = <<>>].tries = sess[s].tries
        BY <1>2, <1>9 DEF TakeChunk, SessionSet
    <2>4. PlainTypeOK'
        BY <1>1, <1>4, <1>9 DEF TakeChunk, PlainTypeOK
    <2>5. CASE chunk.half = "head"
        BY <1>1, <1>9, <2>2, <2>4, <2>5, OneSession DEF TakeChunk, BleInv
    <2>6. CASE chunk.half # "head" /\ line # <<[req |-> chunk.req, half |-> "head"], chunk>>
        <3>1. sess' = [sess EXCEPT ![s] = [x EXCEPT !.held = <<>>, !.say = chunk.req]]
            BY <1>9, <2>6 DEF TakeChunk
        <3>2. Sound([[x EXCEPT !.held = <<>>] EXCEPT !.say = chunk.req])
            BY <1>2, <1>3, <2>1, <2>2, <2>3, SaySound
        <3>3. Sound([x EXCEPT !.held = <<>>, !.say = chunk.req])
            BY <3>2
        <3> QED BY <1>1, <2>4, <3>1, <3>3, OneSession DEF BleInv
    <2>7. CASE Dispatch(s, chunk.req, [x EXCEPT !.held = <<>>])
        BY <1>1, <1>2, <2>1, <2>2, <2>3, <2>4, <2>7, DispatchSound DEF BleInv
    <2> QED BY <1>9, <2>5, <2>6, <2>7 DEF TakeChunk
<1>10. ASSUME NEW s \in Sessions, TakeReply(s) PROVE BleInv'
    <2>1. SessionsOK'
        <3> DEFINE y == [sess[s] EXCEPT !.say = Head(sess[s].replies),
                                        !.replies = Tail(sess[s].replies)]
        <3>1. Sound(y)
            BY <1>1, <1>10, TakeReplySound DEF TakeReply, Idle
        <3>2. sess' = [sess EXCEPT ![s] = y]
            BY <1>10 DEF TakeReply
        <3> HIDE DEF y
        <3> QED BY <1>1, <3>1, <3>2, OneSession
    <2>2. PlainTypeOK'
        BY <1>1, <1>4, <1>10 DEF TakeReply, PlainTypeOK
    <2> QED BY <2>1, <2>2 DEF BleInv
<1>11. ASSUME NEW s \in Sessions, Say(s) PROVE BleInv'
    <2>1. PlainTypeOK'
        BY <1>1, <1>4, <1>11 DEF Say, PlainTypeOK
    <2>2. CASE sess' = [sess EXCEPT ![s].run = "ended"]
        BY <1>1, <1>3, <2>1, <2>2, PumpSound, OneSession DEF BleInv
    <2>3. CASE sess[s].pump # "ended"
        <3> DEFINE run == IF sess[s].tries = 0 THEN "ended" ELSE sess[s].run
                   y == [sess[s] EXCEPT !.outq = Append(sess[s].outq, sess[s].say),
                                        !.say = Nothing, !.run = run]
        <3>1. Sound(y)
            BY <1>1, <1>11, <2>3, SaidSound DEF Say
        <3>2. sess' = [sess EXCEPT ![s] = y]
            BY <1>11, <2>3 DEF Say
        <3> HIDE DEF y
        <3> QED BY <1>1, <2>1, <3>1, <3>2, OneSession DEF BleInv
    <2> QED BY <1>11, <2>2, <2>3 DEF Say
<1>12. ASSUME NEW s \in Sessions, PumpEnds(s) PROVE SessionsOK' /\ slot' \in {slot, NoSlot}
    <2> DEFINE y == [sess[s] EXCEPT !.pump = "ended", !.run = "ended", !.carries = Nothing]
    <2>1. Sound(y)
        BY <1>1, <1>3, PumpSound
    <2>2. sess' = [sess EXCEPT ![s] = y]
        BY <1>12 DEF PumpEnds
    <2> HIDE DEF y
    <2>3. SessionsOK'
        BY <1>1, <2>1, <2>2, OneSession
    <2> QED BY <1>12, <2>3 DEF PumpEnds, Release
<1>13. ASSUME NEW s \in Sessions, PumpStops(s) PROVE BleInv'
    BY <1>1, <1>12, <1>13 DEF PumpStops, BleInv, PlainTypeOK
<1>14. ASSUME NEW s \in Sessions, PumpTakes(s) PROVE BleInv'
    <2>1. SessionsOK'
        <3> DEFINE y == [sess[s] EXCEPT !.pump = "notifies", !.carries = Head(sess[s].outq),
                                        !.outq = Tail(sess[s].outq)]
        <3>1. Sound(y)
            BY <1>1, <1>3, <1>14, PumpSound DEF PumpTakes
        <3>2. sess' = [sess EXCEPT ![s] = y]
            BY <1>14 DEF PumpTakes
        <3> HIDE DEF y
        <3> QED BY <1>1, <3>1, <3>2, OneSession
    <2>2. PlainTypeOK'
        BY <1>1, <1>4, <1>14 DEF PumpTakes, PlainTypeOK
    <2> QED BY <2>1, <2>2 DEF BleInv
<1>15. ASSUME NEW s \in Sessions, PumpNotified(s) PROVE BleInv'
    <2>1. fate' \in [Requests -> Fates]
        BY <1>1, <1>15 DEF PumpNotified, PlainTypeOK, Fates
    <2>2. SessionsOK' /\ slot' \in {slot, NoSlot}
        <3> DEFINE y == [sess[s] EXCEPT !.pump = "waits", !.carries = Nothing]
        <3>1. Sound(y)
            BY <1>1, <1>3, PumpSound
        <3>2. PumpEnds(s) \/ (sess' = [sess EXCEPT ![s] = y] /\ UNCHANGED slot)
            BY <1>15 DEF PumpNotified
        <3> HIDE DEF y
        <3> QED BY <1>1, <1>12, <3>1, <3>2, OneSession
    <2> QED BY <1>1, <1>15, <2>1, <2>2 DEF PumpNotified, BleInv, PlainTypeOK
<1>16. ASSUME NEW s \in Sessions, NEW l \in Lanes, ServiceAnswers(s, l) PROVE BleInv'
    <2> DEFINE r == Head(sess[s].lane[l])
               x == [sess[s] EXCEPT !.lane[l] = Tail(@)]
    <2>1. Sound(x) /\ r \in Requests
        BY <1>1, <1>16, LaneSound DEF ServiceAnswers
    <2>2. Sound(Hears(s, x, r))
        BY <1>3, <2>1, HearsSound
    <2>3. sess' = [sess EXCEPT ![s] = Hears(s, x, r)]
        BY <1>16 DEF ServiceAnswers
    <2>4. SessionsOK'
        BY <1>1, <2>2, <2>3, OneSession
    <2>5. fate' \in [Requests -> Fates]
        BY <1>1, <1>16, <2>1 DEF ServiceAnswers, PlainTypeOK, Fates
    <2> QED BY <1>1, <1>16, <2>4, <2>5 DEF ServiceAnswers, BleInv, PlainTypeOK
<1>17. ASSUME NEW s \in Sessions, NEW l \in Lanes, Progresses(s, l) PROVE BleInv'
    <2>1. SessionsOK'
        BY <1>1, <1>3, <1>17, HearsSound, OneSession DEF Progresses
    <2>2. PlainTypeOK'
        BY <1>1, <1>17 DEF Progresses, PlainTypeOK
    <2> QED BY <2>1, <2>2 DEF BleInv
<1>18. CASE UNCHANGED bleVars
    BY <1>1, <1>18 DEF bleVars, BleInv, PlainTypeOK, SessionsOK
<1> QED
    BY <1>5, <1>6, <1>7, <1>8, <1>9, <1>10, <1>11, <1>13, <1>14, <1>15, <1>16, <1>17, <1>18
    DEF BleNext, SessionSteps, PumpSteps, QueryAnswers, OperationDone
LEMMA BleInvInit == BleInit => BleInv
<1> SUFFICES ASSUME BleInit PROVE BleInv
    OBVIOUS
<1>1. SessionsOK
    BY FreshSound DEF BleInit, SessionsOK, Sound
<1>2. kind \in [Requests -> Kinds]
    BY ScriptsAssumption DEF BleInit
<1>3. owner \in [Requests -> 0..LastSession] /\ fate \in [Requests -> Fates]
    BY BleNats DEF BleInit, Fates
<1>4. /\ writing \in [req: 1..LastRequest + 1, half: {"head", "tail"}]
      /\ writing.half = "tail" => writing.req \in Requests
    <2>1. 1 \in 1..LastRequest + 1
        BY BleNats
    <2>2. writing.half = "head" /\ writing \in [req: 1..LastRequest + 1, half: {"head", "tail"}]
        BY <2>1 DEF BleInit
    <2> QED BY <2>2
<1>5. /\ slot \in Sessions \cup {NoSlot} /\ newest \in 0..LastSession
      /\ here \in BOOLEAN /\ garbled \in BOOLEAN
      /\ notes \in 0..MaxNotes /\ outages \in 0..MaxOutages
    <2>1. slot = NoSlot /\ newest = 0 /\ ~here /\ ~garbled /\ notes = 0 /\ outages = 0
        BY DEF BleInit
    <2>2. 0 \in 0..LastSession /\ 0 \in 0..MaxNotes /\ 0 \in 0..MaxOutages
        BY BleNats
    <2>3. here = FALSE /\ garbled = FALSE
        BY DEF BleInit
    <2> QED BY <2>1, <2>2, <2>3
<1>6. PlainTypeOK
    BY <1>2, <1>3, <1>4, <1>5 DEF PlainTypeOK
<1> QED BY <1>1, <1>6 DEF BleInv

\* Every variable of the transport has its type; the queues keep to their lengths.
THEOREM BleType == BleSpec => []BleTypeOK
BY BleInvInit, BleInvStep, BleInvTypes, PTL DEF BleSpec

----------------------------------------------------------------------------
(* What a step leaves of a session, for the properties below.               *)

LEMMA DispatchLeaves ==
    ASSUME NEW s, NEW r, NEW z \in SessionSet, Dispatch(s, r, z)
    PROVE  \E y : /\ sess' = [sess EXCEPT ![s] = y]
                  /\ y.pump = z.pump /\ y.run = z.run /\ y.inq = z.inq /\ y.held = z.held
<1> DEFINE Leaves(y) == /\ sess' = [sess EXCEPT ![s] = y]
                        /\ y.pump = z.pump /\ y.run = z.run
                        /\ y.inq = z.inq /\ y.held = z.held
<1>1. CASE kind[r] = "pin"
    <2>1. PICK right \in BOOLEAN, told \in BOOLEAN :
              sess' = [sess EXCEPT ![s] =
                  [z EXCEPT !.say = r, !.authed = @ \/ (told /\ right),
                            !.tries = IF told /\ ~right THEN @ - 1 ELSE @]]
        BY <1>1 DEF Dispatch
    <2>2. Leaves([z EXCEPT !.say = r, !.authed = @ \/ (told /\ right),
                           !.tries = IF told /\ ~right THEN @ - 1 ELSE @])
        BY <2>1 DEF SessionSet
    <2> QED BY <2>2
<1>2. CASE kind[r] # "pin" /\ ~z.authed
    <2>1. Leaves([z EXCEPT !.say = r])
        BY <1>2 DEF Dispatch, SessionSet
    <2> QED BY <2>1
<1>3. CASE kind[r] # "pin" /\ z.authed /\ LaneOf(r) \in z.dead
    <2>1. Leaves([z EXCEPT !.say = r, !.dead = @ \ {LaneOf(r)}, !.open = @ \ {LaneOf(r)}])
        BY <1>3 DEF Dispatch, SessionSet
    <2> QED BY <2>1
<1>4. CASE kind[r] # "pin" /\ z.authed /\ LaneOf(r) \notin z.dead
    <2>1. Leaves([z EXCEPT !.open = @ \cup {LaneOf(r)}, !.lane[LaneOf(r)] = Append(@, r)])
        BY <1>4 DEF Dispatch, SessionSet
    <2> QED BY <2>1
<1> QED BY <1>1, <1>2, <1>3, <1>4

LEMMA TakenChunk ==
    ASSUME BleInv, NEW s \in Sessions, TakeChunk(s)
    PROVE  \E y : /\ sess' = [sess EXCEPT ![s] = y]
                  /\ y.pump = sess[s].pump /\ y.run = sess[s].run
                  /\ y.inq = Tail(sess[s].inq)
                  /\ y.held = IF Head(sess[s].inq).half = "head"
                              THEN Append(sess[s].held, Head(sess[s].inq)) ELSE <<>>
<1> DEFINE chunk == Head(sess[s].inq)
           line  == Append(sess[s].held, chunk)
           x     == [sess[s] EXCEPT !.inq = Tail(@)]
           z     == [x EXCEPT !.held = <<>>]
<1>1. sess[s] \in SessionSet
    BY DEF BleInv, SessionsOK
<1>2. /\ z.pump = sess[s].pump /\ z.run = sess[s].run
      /\ z.inq = Tail(sess[s].inq) /\ z.held = <<>>
    BY <1>1 DEF SessionSet
<1>3. z \in SessionSet
    <2>1. Tail(sess[s].inq) \in Seq(Chunk)
        <3>1. sess[s].inq \in Seq(Chunk) /\ sess[s].inq # <<>>
            BY <1>1 DEF TakeChunk, SessionSet
        <3> QED BY <3>1
    <2>2. x \in SessionSet
        BY <1>1, <2>1 DEF SessionSet
    <2> HIDE DEF x
    <2>3. <<>> \in Seq(Chunk)
        OBVIOUS
    <2> QED BY <2>2, <2>3 DEF SessionSet
<1>4. CASE chunk.half = "head"
    <2> DEFINE y == [x EXCEPT !.held = line]
    <2>1. /\ y.pump = sess[s].pump /\ y.run = sess[s].run
          /\ y.inq = Tail(sess[s].inq) /\ y.held = line
        BY <1>1 DEF SessionSet
    <2>2. sess' = [sess EXCEPT ![s] = y]
        BY <1>4 DEF TakeChunk
    <2> HIDE DEF y
    <2> QED BY <1>4, <2>1, <2>2
<1>5. CASE chunk.half # "head" /\ line # <<[req |-> chunk.req, half |-> "head"], chunk>>
    <2> DEFINE y == [x EXCEPT !.held = <<>>, !.say = chunk.req]
    <2>1. /\ y.pump = sess[s].pump /\ y.run = sess[s].run
          /\ y.inq = Tail(sess[s].inq) /\ y.held = <<>>
        BY <1>1 DEF SessionSet
    <2>2. sess' = [sess EXCEPT ![s] = y]
        BY <1>5 DEF TakeChunk
    <2> HIDE DEF y
    <2> QED BY <1>5, <2>1, <2>2
<1>6. CASE chunk.half # "head" /\ Dispatch(s, chunk.req, z)
    <2>1. PICK y : /\ sess' = [sess EXCEPT ![s] = y]
                   /\ y.pump = z.pump /\ y.run = z.run /\ y.inq = z.inq /\ y.held = z.held
        <3> HIDE DEF z
        <3> QED BY <1>3, <1>6, DispatchLeaves
    <2> QED BY <1>2, <1>6, <2>1
<1> QED BY <1>4, <1>5, <1>6 DEF TakeChunk

LEMMA Answered ==
    ASSUME BleInv, NEW s \in Sessions, NEW l \in Lanes, ServiceAnswers(s, l) \/ Progresses(s, l)
    PROVE  \E y : /\ sess' = [sess EXCEPT ![s] = y]
                  /\ y.pump = sess[s].pump /\ y.run = sess[s].run
                  /\ y.inq = sess[s].inq /\ y.held = sess[s].held
<1>1. sess[s] \in SessionSet
    BY DEF BleInv, SessionsOK
<1>2. ASSUME NEW line
      PROVE  LET y == Hears(s, sess[s], line) IN
             /\ y.pump = sess[s].pump /\ y.run = sess[s].run
             /\ y.inq = sess[s].inq /\ y.held = sess[s].held
    BY <1>1 DEF Hears, SessionSet
<1>3. ASSUME NEW line
      PROVE  LET y == Hears(s, [sess[s] EXCEPT !.lane[l] = Tail(@)], line) IN
             /\ y.pump = sess[s].pump /\ y.run = sess[s].run
             /\ y.inq = sess[s].inq /\ y.held = sess[s].held
    BY <1>1 DEF Hears, SessionSet
<1>4. CASE ServiceAnswers(s, l)
    BY <1>3, <1>4 DEF ServiceAnswers
<1>5. CASE Progresses(s, l)
    BY <1>2, <1>5 DEF Progresses
<1> QED BY <1>4, <1>5

----------------------------------------------------------------------------
(* The write slot.                                                          *)

\* The slot stays with the newest subscription until the pump of that one ends
\* (SlotIsNewest): the pump of an older one, which ends whenever it comes to, releases only
\* a slot that is its own, and a new subscription takes the slot as it begins.
THEOREM SlotStaysWithNewest == BleSpec => []SlotIsNewest
<1>1. BleInit => SlotIsNewest
    BY DEF BleInit, SlotIsNewest
<1>2. ASSUME BleInv, SlotIsNewest, [BleNext]_bleVars PROVE SlotIsNewest'
    <2> USE BleNats DEF centralVars, Sessions
    <2>1. sess \in [Sessions -> SessionSet] /\ newest \in 0..LastSession
        BY <1>2 DEF BleInv, SessionsOK, PlainTypeOK
    \* A step that ends no pump and begins none.
    <2>2. ASSUME UNCHANGED <<slot, newest>>,
                 \A s \in Sessions : sess'[s].pump # "ended" => sess[s].pump # "ended"
          PROVE  SlotIsNewest'
        BY <1>2, <2>1, <2>2 DEF SlotIsNewest
    <2>3. CASE Subscribes
        BY <2>3 DEF Subscribes, SlotIsNewest
    <2>4. CASE Departs
        BY <2>2, <2>4 DEF Departs
    <2>5. CASE Write
        BY <2>1, <2>2, <2>5 DEF Write, SessionSet
    <2>6. CASE Outage
        <3>1. \A s \in Sessions : sess'[s].pump = sess[s].pump
            BY <2>1, <2>6 DEF Outage, SessionSet
        <3> QED BY <2>2, <2>6, <3>1 DEF Outage
    <2>7. ASSUME NEW s \in Sessions, TakeChunk(s) PROVE SlotIsNewest'
        <3>1. PICK y : sess' = [sess EXCEPT ![s] = y] /\ y.pump = sess[s].pump
            BY <1>2, <2>7, TakenChunk
        <3> QED BY <2>1, <2>2, <2>7, <3>1 DEF TakeChunk
    <2>8. ASSUME NEW s \in Sessions, TakeReply(s) \/ Say(s) PROVE SlotIsNewest'
        <3>1. CASE TakeReply(s)
            BY <2>1, <2>2, <3>1 DEF TakeReply, SessionSet
        <3>2. CASE sess' = [sess EXCEPT ![s].run = "ended"]
            BY <2>1, <2>2, <2>8, <3>2 DEF TakeReply, Say, SessionSet
        <3>3. CASE sess' = [sess EXCEPT ![s].outq = Append(@, sess[s].say),
                                        ![s].say = Nothing,
                                        ![s].run = IF sess[s].tries = 0 THEN "ended" ELSE @]
            BY <2>1, <2>2, <2>8, <3>3, SMTT(40) DEF TakeReply, Say, SessionSet
        <3> QED BY <2>8, <3>1, <3>2, <3>3 DEF Say
    <2>9. ASSUME NEW s \in Sessions, PumpEnds(s), UNCHANGED newest PROVE SlotIsNewest'
        BY <1>2, <2>1, <2>9, SMTT(40) DEF PumpEnds, Release, SlotIsNewest, SessionSet
    <2>10. ASSUME NEW s \in Sessions, PumpStops(s) PROVE SlotIsNewest'
        BY <2>9, <2>10 DEF PumpStops
    <2>11. ASSUME NEW s \in Sessions, PumpTakes(s) PROVE SlotIsNewest'
        BY <2>1, <2>2, <2>11 DEF PumpTakes, SessionSet
    <2>12. ASSUME NEW s \in Sessions, PumpNotified(s) PROVE SlotIsNewest'
        <3>1. CASE PumpEnds(s)
            BY <2>9, <2>12, <3>1 DEF PumpNotified
        <3>2. CASE sess' = [sess EXCEPT ![s].pump = "waits", ![s].carries = Nothing]
                   /\ UNCHANGED slot
            BY <2>1, <2>2, <2>12, <3>2 DEF PumpNotified, SessionSet
        <3> QED BY <2>12, <3>1, <3>2 DEF PumpNotified
    <2>13. ASSUME NEW s \in Sessions, NEW l \in Lanes,
                  ServiceAnswers(s, l) \/ Progresses(s, l)
           PROVE  SlotIsNewest'
        <3>1. PICK y : sess' = [sess EXCEPT ![s] = y] /\ y.pump = sess[s].pump
            BY <1>2, <2>13, Answered
        <3> QED BY <2>1, <2>2, <2>13, <3>1 DEF ServiceAnswers, Progresses
    <2>14. CASE UNCHANGED bleVars
        BY <2>2, <2>14 DEF bleVars
    <2> QED
        BY <1>2, <2>3, <2>4, <2>5, <2>6, <2>7, <2>8, <2>10, <2>11, <2>12, <2>13, <2>14
        DEF BleNext, SessionSteps, PumpSteps, QueryAnswers, OperationDone
<1> QED BY <1>1, <1>2, BleInvInit, BleInvStep, PTL DEF BleSpec
----------------------------------------------------------------------------
(* The chunks a session is written.                                         *)

\* The chunk b may come after a: the tail of a line after its head, a head after a tail.
Follows(a, b) ==
    IF a.half = "head" THEN b = [req |-> a.req, half |-> "tail"] ELSE b.half = "head"

Opening    == [req |-> 1, half |-> "tail"]
Before(h)  == IF h = <<>> THEN Opening ELSE h[1]
Newest(h, q) == IF q = <<>> THEN Before(h) ELSE q[Len(q)]

\* What is held of a line and what is still queued, in a row, are whole lines in their
\* order, but for a last one that may lack its tail.
Chained(h, q) ==
    /\ h = <<>> \/ (Len(h) = 1 /\ h[1].half = "head")
    /\ q # <<>> => Follows(Before(h), q[1])
    /\ \A i \in 1..Len(q) - 1 : Follows(q[i], q[i + 1])

\* No session has dispatched a garbled line, each holds and has queued whole lines, and
\* the central goes on where the queue of the slot ends.
WholeLines ==
    /\ ~garbled
    /\ \A s \in Sessions :
           /\ Chained(sess[s].held, sess[s].inq)
           /\ slot = s => Follows(Newest(sess[s].held, sess[s].inq), writing)

LEMMA ChainWritten ==
    ASSUME NEW h \in Seq(Chunk), NEW q \in Seq(Chunk), NEW k \in Chunk,
           Chained(h, q), Follows(Newest(h, q), k)
    PROVE  Chained(h, Append(q, k)) /\ Newest(h, Append(q, k)) = k
<1> DEFINE p == Append(q, k)
<1>1. /\ p \in Seq(Chunk) /\ Len(p) = Len(q) + 1 /\ p # <<>> /\ Len(q) \in Nat
      /\ \A i \in 1..Len(q) : p[i] = q[i]
      /\ p[Len(q) + 1] = k
    OBVIOUS
<1> HIDE DEF p
<1>2. Newest(h, p) = k
    BY <1>1 DEF Newest
<1>3. Follows(Before(h), p[1])
    BY <1>1 DEF Chained, Newest
<1>4. ASSUME NEW i \in 1..Len(p) - 1 PROVE Follows(p[i], p[i + 1])
    <2>1. CASE i < Len(q)
        BY <1>1, <2>1, SMTT(40) DEF Chained
    <2>2. CASE i = Len(q)
        BY <1>1, <2>2 DEF Newest
    <2> QED BY <1>1, <2>1, <2>2
<1>5. h = <<>> \/ (Len(h) = 1 /\ h[1].half = "head")
    BY DEF Chained
<1>6. Chained(h, p)
    BY <1>3, <1>4, <1>5 DEF Chained
<1> QED BY <1>2, <1>6 DEF p

\* A chunk that is a tail completes the line whose head is held.
LEMMA ChainTaken ==
    ASSUME NEW h \in Seq(Chunk), NEW q \in Seq(Chunk), q # <<>>, Chained(h, q), NEW g,
           g = IF Head(q).half = "head" THEN Append(h, Head(q)) ELSE <<>>
    PROVE  /\ Chained(g, Tail(q))
           /\ \A w : Follows(Newest(h, q), w) => Follows(Newest(g, Tail(q)), w)
           /\ Head(q).half # "head"
                => Append(h, Head(q)) = <<[req |-> Head(q).req, half |-> "head"], Head(q)>>
<1> DEFINE k == Head(q)
           t == Tail(q)
<1>1. /\ k = q[1] /\ k \in Chunk /\ t \in Seq(Chunk) /\ Len(t) = Len(q) - 1 /\ Len(q) \in Nat
      /\ Len(q) > 0 /\ \A i \in 1..Len(t) : t[i] = q[i + 1]
    OBVIOUS
<1>2. k.half \in {"head", "tail"} /\ k.req \in Requests
    BY <1>1 DEF Chunk
<1> HIDE DEF k, t
<1>3. Follows(Before(h), k)
    BY <1>1 DEF Chained
<1>4. k.half = "head" => h = <<>> /\ Len(g) = 1 /\ g[1] = k
    <2>1. k.half = "head" => h = <<>>
        BY <1>3 DEF Chained, Before, Follows
    <2> SUFFICES ASSUME k.half = "head" PROVE h = <<>> /\ Len(g) = 1 /\ g[1] = k
        OBVIOUS
    <2>2. g = Append(h, k)
        BY DEF k
    <2>3. Len(g) = Len(h) + 1 /\ g[Len(h) + 1] = k
        BY <1>1, <2>2, AppendProperties
    <2>4. h = <<>> /\ Len(h) = 0
        BY <2>1, EmptySeq
    <2> QED BY <2>3, <2>4
<1>5. k.half # "head" => g = <<>> /\ Len(h) = 1 /\ h[1].half = "head"
    BY <1>1, <1>2, <1>3 DEF Chained, Before, Follows, Opening, k
<1>6. g = <<>> \/ (Len(g) = 1 /\ g[1].half = "head")
    BY <1>4, <1>5
<1>7. \A w : Follows(k, w) => Follows(Before(g), w)
    <2>1. CASE k.half = "head"
        <3>1. Len(g) = 1 /\ g[1] = k /\ g # <<>>
            BY <1>4, <2>1, SMTT(40)
        <3> QED BY <3>1 DEF Before
    <2>2. CASE k.half # "head"
        BY <1>5, <2>2 DEF Before, Follows, Opening
    <2> QED BY <2>1, <2>2
<1>8. t # <<>> => Follows(Before(g), t[1])
    <2>1. t # <<>> => 1 \in 1..Len(q) - 1 /\ t[1] = q[2] /\ 1 + 1 = 2
        BY <1>1
    <2>2. t # <<>> => Follows(k, t[1])
        BY <1>1, <2>1 DEF Chained
    <2> QED BY <1>7, <2>2
<1>9. \A i \in 1..Len(t) - 1 : Follows(t[i], t[i + 1])
    <2> SUFFICES ASSUME NEW i \in 1..Len(t) - 1 PROVE Follows(t[i], t[i + 1])
        OBVIOUS
    <2>1. i + 1 \in 1..Len(q) - 1 /\ i \in 1..Len(t) /\ i + 1 \in 1..Len(t)
        BY <1>1
    <2>2. t[i] = q[i + 1] /\ t[i + 1] = q[(i + 1) + 1]
        BY <1>1, <2>1
    <2> QED BY <2>1, <2>2 DEF Chained
<1>10. \A w : Follows(Newest(h, q), w) => Follows(Newest(g, t), w)
    <2>1. CASE t = <<>>
        <3>1. Len(q) = 1 /\ q # <<>>
            BY <1>1, <2>1
        <3>2. Newest(h, q) = k /\ Newest(g, t) = Before(g)
            BY <1>1, <2>1, <3>1 DEF Newest
        <3> QED BY <1>7, <3>2
    <2>2. CASE t # <<>>
        <3>1. Len(t) > 0 /\ t[Len(t)] = q[Len(q)]
            BY <1>1, <2>2
        <3> QED BY <2>2, <3>1 DEF Newest
    <2> QED BY <2>1, <2>2
<1>11. k.half # "head" => Append(h, k) = <<[req |-> k.req, half |-> "head"], k>>
    <2> SUFFICES ASSUME k.half # "head" PROVE Append(h, k) = <<[req |-> k.req, half |-> "head"], k>>
        OBVIOUS
    <2>1. Len(h) = 1 /\ h[1].half = "head" /\ h[1] \in Chunk
        <3>1. Len(h) = 1 /\ h[1].half = "head"
            BY <1>5
        <3>2. 1 \in 1..Len(h)
            BY <3>1
        <3>3. h[1] \in Chunk
            BY <3>2, ElementOfSeq
        <3> QED BY <3>1, <3>3
    <2>2. h # <<>> /\ k = [req |-> h[1].req, half |-> "tail"]
        <3>1. h # <<>>
            <4>1. Len(h) # 0
                BY <2>1
            <4>2. h = <<>> => Len(h) = 0
                BY EmptySeq
            <4> QED BY <4>1, <4>2
        <3> QED BY <1>3, <2>1, <3>1 DEF Before, Follows
    <2>3. h[1] = [req |-> k.req, half |-> "head"]
        BY <2>1, <2>2 DEF Chunk
    <2> DEFINE two == <<[req |-> k.req, half |-> "head"], k>>
    <2>4. two \in Seq(Chunk) /\ Len(two) = 2 /\ two[1] = h[1] /\ two[2] = k
        <3>1. [req |-> k.req, half |-> "head"] \in Chunk
            BY <2>1, <2>3
        <3> QED BY <1>1, <2>3, <3>1
    <2>5. /\ Append(h, k) \in Seq(Chunk) /\ Len(Append(h, k)) = 2
          /\ Append(h, k)[1] = h[1] /\ Append(h, k)[2] = k
        <3>1. /\ Append(h, k) \in Seq(Chunk) /\ Len(Append(h, k)) = Len(h) + 1
              /\ \A i \in 1..Len(h) : Append(h, k)[i] = h[i]
              /\ Append(h, k)[Len(h) + 1] = k
            BY <1>1, AppendProperties
        <3>2. Len(h) = 1
            BY <2>1
        <3> QED BY <3>1, <3>2
    <2> HIDE DEF two
    <2>6. \A i \in 1..2 : Append(h, k)[i] = two[i]
        BY <2>4, <2>5
    <2>7. Append(h, k) = two
        BY <2>4, <2>5, <2>6, SeqEqual
    <2> QED BY <2>7 DEF two
<1>12. Chained(g, t)
    BY <1>6, <1>8, <1>9 DEF Chained
<1> QED BY <1>10, <1>11, <1>12 DEF k, t
LEMMA WholeLinesStep ==
    ASSUME BleInv, BleInv', WholeLines, [BleNext]_bleVars
    PROVE  WholeLines'
<1> USE BleNats DEF centralVars, Sessions
<1>1. sess \in [Sessions -> SessionSet] /\ slot \in Sessions \cup {NoSlot}
    BY DEF BleInv, SessionsOK, PlainTypeOK
<1>2. \A s \in Sessions : sess[s].inq \in Seq(Chunk) /\ sess[s].held \in Seq(Chunk)
    BY <1>1 DEF SessionSet
\* A step that reads and writes no chunk.
<1>3. ASSUME slot' \in {slot, NoSlot}, UNCHANGED <<writing, garbled>>,
             \A s \in Sessions : sess'[s].inq = sess[s].inq /\ sess'[s].held = sess[s].held
      PROVE  WholeLines'
    BY <1>1, <1>3 DEF WholeLines, NoSlot
<1>4. CASE Subscribes
    <2>1. newest' \in Sessions /\ slot' = newest'
        BY <1>4 DEF Subscribes, BleInv, PlainTypeOK
    <2>2. sess' = [sess EXCEPT ![newest'] = Fresh(newest')]
        BY <1>4 DEF Subscribes
    <2>3. Fresh(newest').held = <<>> /\ Fresh(newest').inq = <<>>
        BY DEF Fresh, Unborn
    <2>4. writing'.half = "head"
        BY <1>4 DEF Subscribes, NextRequest, BleInv, PlainTypeOK
    <2>5. Chained(<<>>, <<>>) /\ Follows(Newest(<<>>, <<>>), writing')
        BY <2>4 DEF Chained, Follows, Newest, Before, Opening
    <2>6. \A s \in Sessions : s # newest' => sess'[s] = sess[s]
        BY <1>1, <2>1, <2>2
    <2>7. sess'[newest'] = Fresh(newest')
        BY <1>1, <2>1, <2>2
    <2> QED BY <1>4, <2>1, <2>3, <2>5, <2>6, <2>7 DEF Subscribes, WholeLines
<1>5. CASE Departs
    BY <1>3, <1>5 DEF Departs
<1>6. CASE Write
    <2>1. slot \in Sessions /\ writing \in Chunk /\ writing.req \in Requests
        BY <1>1, <1>6 DEF Write, MayWrite, BleInv, PlainTypeOK, Chunk, NoSlot
    <2> DEFINE h == sess[slot].held
               q == sess[slot].inq
    <2>2. sess'[slot].held = h /\ sess'[slot].inq = Append(q, writing)
        BY <1>1, <1>6, <2>1 DEF Write, SessionSet
    <2>3. \A s \in Sessions : s # slot => sess'[s] = sess[s]
        BY <1>1, <1>6, <2>1 DEF Write
    <2>4. Chained(h, Append(q, writing)) /\ Newest(h, Append(q, writing)) = writing
        BY <1>2, <2>1, ChainWritten DEF WholeLines
    <2>5. Follows(writing, writing')
        BY <1>6, <2>1 DEF Write, Written, NextRequest, Follows, Chunk
    <2> HIDE DEF h, q
    <2> QED BY <1>6, <2>1, <2>2, <2>3, <2>4, <2>5 DEF Write, WholeLines
<1>7. CASE Outage
    <2>1. \A s \in Sessions : sess'[s].inq = sess[s].inq /\ sess'[s].held = sess[s].held
        BY <1>1, <1>7 DEF Outage, SessionSet
    <2> QED BY <1>3, <1>7, <2>1 DEF Outage
<1>8. ASSUME NEW s \in Sessions, TakeChunk(s) PROVE WholeLines'
    <2> DEFINE h == sess[s].held
               q == sess[s].inq
    <2>1. PICK y : /\ sess' = [sess EXCEPT ![s] = y]
                   /\ y.inq = Tail(q)
                   /\ y.held = IF Head(q).half = "head" THEN Append(h, Head(q)) ELSE <<>>
        BY <1>8, TakenChunk
    <2>2. h \in Seq(Chunk) /\ q \in Seq(Chunk) /\ q # <<>> /\ Chained(h, q)
        BY <1>2, <1>8 DEF TakeChunk, WholeLines
    <2>3. /\ Chained(y.held, y.inq)
          /\ \A w : Follows(Newest(h, q), w) => Follows(Newest(y.held, y.inq), w)
          /\ Head(q).half # "head"
               => Append(h, Head(q)) = <<[req |-> Head(q).req, half |-> "head"], Head(q)>>
        <3> DEFINE g == y.held
        <3>1. g = IF Head(q).half = "head" THEN Append(h, Head(q)) ELSE <<>>
            BY <2>1
        <3> HIDE DEF h, q, g
        <3>2. /\ Chained(g, Tail(q))
              /\ \A w : Follows(Newest(h, q), w) => Follows(Newest(g, Tail(q)), w)
              /\ Head(q).half # "head"
                   => Append(h, Head(q)) = <<[req |-> Head(q).req, half |-> "head"], Head(q)>>
            BY <2>2, <3>1, ChainTaken
        <3> QED BY <2>1, <3>2 DEF g
    <2>4. ~garbled' /\ UNCHANGED <<slot, writing>>
        BY <1>8, <2>3 DEF TakeChunk, WholeLines
    <2>5. sess'[s] = y /\ \A t \in Sessions : t # s => sess'[t] = sess[t]
        BY <1>1, <2>1
    <2> QED BY <2>3, <2>4, <2>5 DEF WholeLines
<1>9. ASSUME NEW s \in Sessions, TakeReply(s) PROVE WholeLines'
    <2>1. \A t \in Sessions : sess'[t].inq = sess[t].inq /\ sess'[t].held = sess[t].held
        BY <1>1, <1>9 DEF TakeReply, SessionSet
    <2> QED BY <1>3, <1>9, <2>1 DEF TakeReply
<1>10. ASSUME NEW s \in Sessions, Say(s) PROVE WholeLines'
    <2>1. CASE sess' = [sess EXCEPT ![s].run = "ended"]
        <3>1. \A t \in Sessions : sess'[t].inq = sess[t].inq /\ sess'[t].held = sess[t].held
            BY <1>1, <2>1 DEF SessionSet
        <3> QED BY <1>3, <1>10, <3>1 DEF Say
    <2>2. CASE sess' = [sess EXCEPT ![s].outq = Append(@, sess[s].say),
                                    ![s].say = Nothing,
                                    ![s].run = IF sess[s].tries = 0 THEN "ended" ELSE @]
        <3>1. \A t \in Sessions : sess'[t].inq = sess[t].inq /\ sess'[t].held = sess[t].held
            BY <1>1, <2>2, SMTT(40) DEF SessionSet
        <3> QED BY <1>3, <1>10, <3>1 DEF Say
    <2> QED BY <1>10, <2>1, <2>2 DEF Say
<1>11. ASSUME NEW s \in Sessions, PumpEnds(s), UNCHANGED <<writing, garbled>> PROVE WholeLines'
    <2>1. \A t \in Sessions : sess'[t].inq = sess[t].inq /\ sess'[t].held = sess[t].held
        BY <1>1, <1>11, SMTT(40) DEF PumpEnds, SessionSet
    <2> QED BY <1>3, <1>11, <2>1 DEF PumpEnds, Release
<1>12. ASSUME NEW s \in Sessions, PumpStops(s) PROVE WholeLines'
    BY <1>11, <1>12 DEF PumpStops
<1>13. ASSUME NEW s \in Sessions, PumpTakes(s) PROVE WholeLines'
    <2>1. \A t \in Sessions : sess'[t].inq = sess[t].inq /\ sess'[t].held = sess[t].held
        BY <1>1, <1>13 DEF PumpTakes, SessionSet
    <2> QED BY <1>3, <1>13, <2>1 DEF PumpTakes
<1>14. ASSUME NEW s \in Sessions, PumpNotified(s) PROVE WholeLines'
    <2>1. CASE PumpEnds(s)
        BY <1>11, <1>14, <2>1 DEF PumpNotified
    <2>2. CASE sess' = [sess EXCEPT ![s].pump = "waits", ![s].carries = Nothing]
               /\ UNCHANGED slot
        <3>1. \A t \in Sessions : sess'[t].inq = sess[t].inq /\ sess'[t].held = sess[t].held
            BY <1>1, <2>2 DEF SessionSet
        <3> QED BY <1>3, <1>14, <2>2, <3>1 DEF PumpNotified
    <2> QED BY <1>14, <2>1, <2>2 DEF PumpNotified
<1>15. ASSUME NEW s \in Sessions, NEW l \in Lanes, ServiceAnswers(s, l) \/ Progresses(s, l)
       PROVE  WholeLines'
    <2>1. PICK y : /\ sess' = [sess EXCEPT ![s] = y]
                   /\ y.inq = sess[s].inq /\ y.held = sess[s].held
        BY <1>15, Answered
    <2>2. \A t \in Sessions : sess'[t].inq = sess[t].inq /\ sess'[t].held = sess[t].held
        BY <1>1, <2>1
    <2> QED BY <1>3, <1>15, <2>2 DEF ServiceAnswers, Progresses
<1>16. CASE UNCHANGED bleVars
    BY <1>3, <1>16 DEF bleVars
<1> QED
    BY <1>4, <1>5, <1>6, <1>7, <1>8, <1>9, <1>10, <1>12, <1>13, <1>14, <1>15, <1>16
    DEF BleNext, SessionSteps, PumpSteps, QueryAnswers, OperationDone

\* Every line a session dispatches is one the central wrote, whole (NoGarbledLine), for
\* any interleaving of subscriptions, departures, refused chunks and late pumps: the
\* bytes a central leaves behind stay with the subscription they were written to.
THEOREM LinesStayWhole == BleSpec => []NoGarbledLine
<1>1. BleInit => WholeLines
    BY DEF BleInit, WholeLines, Unborn, Chained, NoSlot, Sessions
<1>2. WholeLines => NoGarbledLine
    BY DEF WholeLines, NoGarbledLine
<1>3. BleInv /\ WholeLines /\ [BleNext]_bleVars => BleInv' /\ WholeLines'
    BY BleInvStep, WholeLinesStep
<1> QED BY <1>1, <1>2, <1>3, BleInvInit, PTL DEF BleSpec

-----------------------------------------------------------------------------
(* The choir (Chorale). *)

LEMMA ChoraleNats ==
    /\ Length \in Nat /\ EndMargin \in Nat /\ LeaveMargin \in Nat /\ LockBeats \in Nat
    /\ Restart \in Nat /\ LastPerformance \in Nat /\ MaxUpsets \in Nat
    /\ Length > 0 /\ EndMargin > 0 /\ LockBeats > 0 /\ Restart > 0 /\ EndMargin <= LeaveMargin
    /\ NoBeat = Length + EndMargin + 2 /\ LastPosition = Length + LeaveMargin + 1
    /\ NoBeat \in Nat /\ LastPosition \in Nat
    /\ Ducks \subseteq Nat /\ NoOne \notin Ducks /\ Pieces \subseteq Nat
    /\ Knows \in [Ducks -> SUBSET Pieces]
    /\ \A d \in Ducks : <<d, d>> \notin InRange
<1>1. /\ Length \in Nat /\ EndMargin \in Nat /\ LeaveMargin \in Nat /\ LockBeats \in Nat
      /\ Restart \in Nat /\ Length > 0 /\ EndMargin > 0 /\ LockBeats > 0 /\ Restart > 0
      /\ EndMargin <= LeaveMargin
    BY BeatsAssumption
<1>2. LastPerformance \in Nat /\ MaxUpsets \in Nat
    BY ChoraleBounds
<1>3. Pieces \subseteq Nat /\ Knows \in [Ducks -> SUBSET Pieces]
    BY PiecesAssumption
<1>4. Ducks \subseteq Nat /\ NoOne \notin Ducks /\ \A d \in Ducks : <<d, d>> \notin InRange
    BY DucksAssumption
<1>5. /\ NoBeat = Length + EndMargin + 2 /\ LastPosition = Length + LeaveMargin + 1
      /\ NoBeat \in Nat /\ LastPosition \in Nat
    BY <1>1 DEF NoBeat, LastPosition
<1> QED BY <1>1, <1>2, <1>3, <1>4, <1>5

----------------------------------------------------------------------------
(* Sequences.                                                               *)

LEMMA PrefixElements ==
    ASSUME NEW S, NEW a \in Seq(S), NEW b \in Seq(S)
    PROVE  IsPrefix(a, b) <=> Len(a) <= Len(b) /\ \A i \in 1..Len(a) : a[i] = b[i]
<1>1. ASSUME Len(a) <= Len(b)
      PROVE  SubSeq(a, 1, Len(a)) = SubSeq(b, 1, Len(a)) <=> \A i \in 1..Len(a) : a[i] = b[i]
    <2>1. /\ SubSeq(a, 1, Len(a)) = [i \in 1..Len(a) |-> a[i]]
          /\ SubSeq(b, 1, Len(a)) = [i \in 1..Len(a) |-> b[i]]
        BY <1>1
    <2> QED BY <2>1
<1> QED BY <1>1 DEF IsPrefix

LEMMA PrefixGrows ==
    ASSUME NEW S, NEW a \in Seq(S), NEW b \in Seq(S), NEW o \in Seq(S)
    PROVE  IsPrefix(a, a) /\ (IsPrefix(a, b) => IsPrefix(a, b \o o))
<1>1. /\ b \o o \in Seq(S) /\ Len(b \o o) = Len(b) + Len(o)
      /\ \A i \in 1..Len(b) : (b \o o)[i] = b[i]
      /\ Len(a) \in Nat /\ Len(b) \in Nat /\ Len(o) \in Nat
    OBVIOUS
<1> DEFINE p == b \o o
<1> HIDE DEF p
<1>2. IsPrefix(a, b) => Len(a) <= Len(p) /\ \A i \in 1..Len(a) : a[i] = p[i]
    BY <1>1, PrefixElements DEF p
<1>3. IsPrefix(a, b) => IsPrefix(a, p)
    BY <1>1, <1>2, PrefixElements DEF p
<1>4. IsPrefix(a, a)
    BY PrefixElements
<1> QED BY <1>3, <1>4 DEF p

\* Nobody has two seats.
NoRepeat(q) == \A i, j \in 1..Len(q) : q[i] = q[j] => i = j

\* An order of a set seats each of them once.
LEMMA OrderOf ==
    ASSUME NEW S, NEW T \in SUBSET S, NEW o \in SetToSeqs(T), IsFiniteSet(S)
    PROVE  o \in Seq(S) /\ NoRepeat(o) /\ \A i \in 1..Len(o) : o[i] \in T
<1>1. Cardinality(T) \in Nat
    BY FS_Subset, FS_CardinalityType
<1>2. o \in [1..Cardinality(T) -> T]
      /\ \A i, j \in 1..Cardinality(T) : i # j => o[i] # o[j]
    BY DEF SetToSeqs
<1>3. o \in Seq(S) /\ Len(o) = Cardinality(T)
    BY <1>1, <1>2
<1> QED BY <1>2, <1>3 DEF NoRepeat

LEMMA SeatsAfter ==
    ASSUME NEW S, NEW q \in Seq(S), NEW o \in Seq(S), NoRepeat(q), NoRepeat(o),
           \A i \in 1..Len(q) : \A j \in 1..Len(o) : q[i] # o[j]
    PROVE  q \o o \in Seq(S) /\ NoRepeat(q \o o)
<1> DEFINE p == q \o o
<1>1. /\ p \in Seq(S) /\ Len(p) = Len(q) + Len(o) /\ Len(q) \in Nat /\ Len(o) \in Nat
      /\ \A i \in 1..Len(q) : p[i] = q[i]
      /\ \A i \in Len(q) + 1..Len(p) : p[i] = o[i - Len(q)]
    <2>1. p \in Seq(S) /\ Len(p) = Len(q) + Len(o)
        BY ConcatProperties
    <2>2. \A i \in 1..Len(p) : p[i] = IF i <= Len(q) THEN q[i] ELSE o[i - Len(q)]
        BY ConcatProperties
    <2> HIDE DEF p
    <2>3. Len(q) \in Nat /\ Len(o) \in Nat
        BY LenProperties
    <2>4. ASSUME NEW i \in 1..Len(q) PROVE p[i] = q[i]
        <3> i \in 1..Len(p) /\ i <= Len(q)
            BY <2>1, <2>3
        <3> QED BY <2>2
    <2>5. ASSUME NEW i \in Len(q) + 1..Len(p) PROVE p[i] = o[i - Len(q)]
        <3> i \in 1..Len(p) /\ ~(i <= Len(q))
            BY <2>1, <2>3
        <3> QED BY <2>2
    <2> QED BY <2>1, <2>3, <2>4, <2>5
<1> HIDE DEF p
<1>2. ASSUME NEW i \in 1..Len(p), NEW j \in 1..Len(p), p[i] = p[j] PROVE i = j
    <2>1. CASE i <= Len(q) /\ j <= Len(q)
        <3>1. i \in 1..Len(q) /\ j \in 1..Len(q)
            BY <1>1, <2>1
        <3>2. q[i] = q[j]
            BY <1>1, <1>2, <3>1
        <3> QED BY <3>1, <3>2 DEF NoRepeat
    <2>2. CASE i > Len(q) /\ j > Len(q)
        <3>1. i - Len(q) \in 1..Len(o) /\ j - Len(q) \in 1..Len(o)
            BY <1>1, <2>2
        <3>2. i - Len(q) = j - Len(q)
            BY <1>1, <1>2, <2>2, <3>1 DEF NoRepeat
        <3> QED BY <1>1, <3>2
    <2>3. CASE i <= Len(q) /\ j > Len(q)
        <3>1. i \in 1..Len(q) /\ j - Len(q) \in 1..Len(o)
            BY <1>1, <2>3
        <3> QED BY <1>1, <1>2, <2>3, <3>1
    <2>4. CASE j <= Len(q) /\ i > Len(q)
        <3>1. j \in 1..Len(q) /\ i - Len(q) \in 1..Len(o)
            BY <1>1, <2>4
        <3> QED BY <1>1, <1>2, <2>4, <3>1
    <2> QED BY <1>1, <2>1, <2>2, <2>3, <2>4
<1> QED BY <1>1, <1>2 DEF NoRepeat, p

\* A roster in which nobody has two seats has no more seats than there are ducks.
LEMMA RosterFits ==
    ASSUME NEW q \in Seq(Ducks), NoRepeat(q)
    PROVE  q \in Roster
<1>1. IsFiniteSet(Ducks) /\ Cardinality(Ducks) \in Nat
    BY DucksAssumption, FS_CardinalityType
<1>2. Len(q) \in Nat /\ q \in [1..Len(q) -> Ducks]
    OBVIOUS
<1>3. IsFiniteSet(1..Len(q)) /\ Cardinality(1..Len(q)) = Len(q)
    BY <1>2, FS_Interval, SMTT(40)
<1>4. Len(q) <= Cardinality(Ducks)
    <2> SUFFICES ASSUME Cardinality(Ducks) < Cardinality(1..Len(q)) PROVE FALSE
        BY <1>1, <1>2, <1>3
    <2>1. \E x, y \in 1..Len(q) : x # y /\ q[x] = q[y]
        BY <1>1, <1>2, <1>3, FS_PigeonHole
    <2> QED BY <2>1 DEF NoRepeat
<1> QED BY <1>1, <1>2, <1>4 DEF Roster

----------------------------------------------------------------------------
(* The invariant.                                                           *)

DuckSet ==
    [mode: {"off", "listening", "conducting", "following"},
     piece: Pieces \cup {IDLE}, roster: Seq(Ducks), beat: 0..LastPosition,
     leader: Ducks \cup {NoOne}, taken: 0..NoBeat, fit: 0..LockBeats,
     performance: 0..LastPerformance, mixed: BOOLEAN, peers: [Ducks -> Beacon]]

\* A duck as it may be after n performances: whoever does not follow a leader has no fit,
\* and a conductor stops counting at the end.
Tuned(x, n) ==
    /\ x \in DuckSet /\ NoRepeat(x.roster) /\ x.performance <= n
    /\ x.mode # "following" \/ x.leader = NoOne => x.fit = 0
    /\ x.mode = "conducting" => x.beat <= Length + EndMargin + 1

\* The follower x is with the conductor y, whose id is c, from its first count on.
With(x, c, y) ==
    (/\ x.fit > 0 /\ ~x.mixed /\ x.leader = c
     /\ y.mode = "conducting" /\ y.performance = x.performance)
        => x.piece = y.piece /\ x.beat = y.beat /\ IsPrefix(x.roster, y.roster)

ChoirInv ==
    /\ duck \in [Ducks -> DuckSet]
    /\ performed \in 0..LastPerformance /\ upsets \in 0..MaxUpsets
    /\ \A d \in Ducks : Tuned(duck[d], performed)
    /\ \A d \in Ducks : \A c \in Ducks : With(duck[d], c, duck[c])

LEMMA ChoirInvTypes == ChoirInv => ChoraleTypeOK
<1> SUFFICES ASSUME ChoirInv PROVE ChoraleTypeOK
    OBVIOUS
<1> DEFINE DS == [mode: {"off", "listening", "conducting", "following"},
           piece: Pieces \cup {IDLE}, roster: Roster, beat: 0..LastPosition,
           leader: Ducks \cup {NoOne}, taken: 0..NoBeat, fit: 0..LockBeats,
           performance: 0..LastPerformance, mixed: BOOLEAN,
           peers: [Ducks -> Beacon]]
<1>1. ASSUME NEW d \in Ducks PROVE duck[d] \in DS
    <2>1. duck[d] \in DuckSet /\ duck[d].roster \in Roster
        BY RosterFits DEF ChoirInv, Tuned, DuckSet
    <2> QED BY <2>1 DEF DuckSet
<1> HIDE DEF DS
<1>2. duck \in [Ducks -> DS]
    BY <1>1 DEF ChoirInv
<1> QED BY <1>2 DEF ChoirInv, ChoraleTypeOK, DS

LEMMA ChoirInStep == ChoirInv => InStep
<1> SUFFICES ASSUME ChoirInv, NEW d \in Ducks, NEW c \in Ducks,
                    Locked(d), ~duck[d].mixed, duck[d].leader = c,
                    duck[c].mode = "conducting", duck[c].performance = duck[d].performance
             PROVE  /\ duck[d].piece = duck[c].piece
                    /\ duck[d].beat = duck[c].beat
                    /\ IsPrefix(duck[d].roster, duck[c].roster)
    BY DEF InStep
<1> QED BY ChoraleNats DEF Locked, ChoirInv, With

\* A step of one duck, which those that follow it and those it follows bear.
LEMMA OneDuck ==
    ASSUME ChoirInv, NEW d \in Ducks, NEW y, duck' = [duck EXCEPT ![d] = y],
           performed' \in performed..LastPerformance, upsets' \in 0..MaxUpsets,
           Tuned(y, performed'),
           \A c \in Ducks \ {d} : With(y, c, duck[c]) /\ With(duck[c], d, y)
    PROVE  ChoirInv'
<1> USE ChoraleNats
<1>1. \A c \in Ducks : duck'[c] = IF c = d THEN y ELSE duck[c]
    BY DEF ChoirInv
<1>2. With(y, d, y)
    BY DEF Tuned, With, DuckSet
<1>3. ASSUME NEW c \in Ducks PROVE Tuned(duck[c], performed')
    <2>1. Tuned(duck[c], performed) /\ performed \in Nat /\ performed' \in Nat
          /\ performed <= performed'
        BY DEF ChoirInv
    <2>2. duck[c].performance \in Nat
        BY <2>1, SMTT(40) DEF Tuned, DuckSet
    <2> QED BY <2>1, <2>2 DEF Tuned
<1>4. duck' \in [Ducks -> DuckSet]
    BY DEF ChoirInv, Tuned
<1>5. performed' \in 0..LastPerformance
    BY DEF ChoirInv
<1> QED BY <1>1, <1>2, <1>3, <1>4, <1>5 DEF ChoirInv

\* A duck that changes in nothing but whom it has heard, or loses its fit.
LEMMA Quietly ==
    ASSUME ChoirInv, NEW d \in Ducks, NEW y, duck' = [duck EXCEPT ![d] = y],
           UNCHANGED performed, upsets' \in 0..MaxUpsets, Tuned(y, performed),
           \/ y.mode # "conducting" /\ y.fit = 0
           \/ /\ y.mode = duck[d].mode /\ y.piece = duck[d].piece /\ y.roster = duck[d].roster
              /\ y.beat = duck[d].beat /\ y.leader = duck[d].leader /\ y.fit = duck[d].fit
              /\ y.performance = duck[d].performance /\ y.mixed = duck[d].mixed
    PROVE  ChoirInv'
<1>1. \A c \in Ducks \ {d} : With(y, c, duck[c]) /\ With(duck[c], d, y)
    <2>1. CASE y.mode # "conducting" /\ y.fit = 0
        BY <2>1 DEF With
    <2>2. CASE /\ y.mode = duck[d].mode /\ y.piece = duck[d].piece
               /\ y.roster = duck[d].roster /\ y.beat = duck[d].beat
               /\ y.leader = duck[d].leader /\ y.fit = duck[d].fit
               /\ y.performance = duck[d].performance /\ y.mixed = duck[d].mixed
        <3> SUFFICES ASSUME NEW c \in Ducks \ {d} PROVE With(y, c, duck[c]) /\ With(duck[c], d, y)
            OBVIOUS
        <3>1. With(duck[d], c, duck[c]) /\ With(duck[c], d, duck[d])
            BY DEF ChoirInv
        <3> QED BY <2>2, <3>1 DEF With
    <2> QED BY <2>1, <2>2
<1>2. performed' \in performed..LastPerformance
    BY ChoraleNats DEF ChoirInv
<1> QED BY <1>1, <1>2, OneDuck
----------------------------------------------------------------------------
(* The steps.                                                               *)

\* A duck that is switched off or on.
LEMMA OffTuned ==
    ASSUME performed \in 0..LastPerformance
    PROVE  LET y == [Off EXCEPT !.mode = "listening"] IN
           /\ Off \in DuckSet /\ Tuned(Off, performed) /\ Tuned(y, performed)
           /\ Off.fit = 0 /\ Off.mode = "off" /\ y.fit = 0 /\ y.mode = "listening"
<1> USE ChoraleNats
<1> DEFINE y == [Off EXCEPT !.mode = "listening"]
<1>1. [e \in Ducks |-> Silence] \in [Ducks -> Beacon]
    BY DEF Beacon
<1>2. NoBeat \in 0..NoBeat /\ 0 \in 0..LastPosition /\ 0 \in 0..LockBeats /\ 0 \in 0..LastPerformance
    OBVIOUS
<1>3. Off \in DuckSet
    BY <1>1, <1>2 DEF Off, DuckSet
<1>4. y \in DuckSet
    BY <1>3 DEF DuckSet
<1>5. /\ Off.roster = <<>> /\ Off.performance = 0 /\ Off.fit = 0 /\ Off.mode = "off"
      /\ y.roster = <<>> /\ y.performance = 0 /\ y.fit = 0 /\ y.mode = "listening"
    BY DEF Off
<1>6. NoRepeat(<<>>) /\ 0 <= performed
    BY DEF NoRepeat
<1> HIDE DEF y
<1>7. Tuned(Off, performed) /\ Tuned(y, performed)
    BY <1>3, <1>4, <1>5, <1>6 DEF Tuned
<1> QED BY <1>3, <1>5, <1>7 DEF y

\* A follower that starts over, whatever it had heard.
LEMMA ListeningTuned ==
    ASSUME performed \in 0..LastPerformance, NEW x \in DuckSet
    PROVE  /\ Tuned(Listening(x), performed)
           /\ Listening(x).fit = 0 /\ Listening(x).mode = "listening"
<1> USE ChoraleNats
<1>1. Off \in DuckSet /\ x.peers \in [Ducks -> Beacon]
    BY OffTuned DEF DuckSet
<1>2. Listening(x) \in DuckSet
    BY <1>1 DEF DuckSet, Listening
<1>3. Off.roster = <<>> /\ Off.performance = 0 /\ Off.fit = 0
    BY DEF Off
<1>4. LET y == Listening(x) IN
      y.roster = <<>> /\ y.performance = 0 /\ y.fit = 0 /\ y.mode = "listening"
    BY <1>1, <1>3 DEF Listening, DuckSet
<1>5. NoRepeat(<<>>) /\ 0 <= performed
    BY DEF NoRepeat
<1> QED BY <1>2, <1>4, <1>5 DEF Tuned

\* What a duck has when it has noted whom it heard, before it looks at the count.
LEMMA Noted ==
    ASSUME ChoirInv, NEW d \in Ducks, NEW c \in Ducks, NEW b \in Beacon
    PROVE  LET x == [duck[d] EXCEPT !.peers[c] = b] IN
           /\ Tuned(x, performed)
           /\ x.mode = duck[d].mode /\ x.piece = duck[d].piece /\ x.roster = duck[d].roster
           /\ x.beat = duck[d].beat /\ x.leader = duck[d].leader /\ x.fit = duck[d].fit
           /\ x.performance = duck[d].performance /\ x.mixed = duck[d].mixed
           /\ x.taken = duck[d].taken
<1>1. duck[d] \in DuckSet /\ Tuned(duck[d], performed)
    BY DEF ChoirInv, Tuned
<1>2. [duck[d].peers EXCEPT ![c] = b] \in [Ducks -> Beacon]
    BY <1>1 DEF DuckSet
<1> DEFINE x == [duck[d] EXCEPT !.peers[c] = b]
<1>3. /\ x.mode = duck[d].mode /\ x.piece = duck[d].piece /\ x.roster = duck[d].roster
      /\ x.beat = duck[d].beat /\ x.leader = duck[d].leader /\ x.fit = duck[d].fit
      /\ x.performance = duck[d].performance /\ x.mixed = duck[d].mixed
      /\ x.taken = duck[d].taken
    BY <1>1 DEF DuckSet
<1>4. x \in DuckSet
    BY <1>1, <1>2 DEF DuckSet
<1> HIDE DEF x
<1>5. Tuned(x, performed)
    BY <1>1, <1>3, <1>4 DEF Tuned
<1> QED BY <1>3, <1>5 DEF x

LEMMA ForgetStep ==
    ASSUME ChoirInv, NEW d \in Ducks, NEW c \in Ducks, Forget(d, c)
    PROVE  ChoirInv'
<1> DEFINE y == [duck[d] EXCEPT !.peers[c] = Silence]
<1>1. Silence \in Beacon
    BY DEF Beacon
<1>2. duck' = [duck EXCEPT ![d] = y] /\ UNCHANGED performed /\ upsets' \in 0..MaxUpsets
    BY ChoraleNats DEF Forget, ChoirInv
<1>3. /\ Tuned(y, performed)
      /\ y.mode = duck[d].mode /\ y.piece = duck[d].piece /\ y.roster = duck[d].roster
      /\ y.beat = duck[d].beat /\ y.leader = duck[d].leader /\ y.fit = duck[d].fit
      /\ y.performance = duck[d].performance /\ y.mixed = duck[d].mixed
    BY <1>1, Noted
<1> HIDE DEF y
<1> QED BY <1>2, <1>3, Quietly

LEMMA EndStep ==
    ASSUME ChoirInv, NEW d \in Ducks, End(d) \/ Switch(d)
    PROVE  ChoirInv'
<1>1. CASE End(d)
    <2> DEFINE y == Listening(duck[d])
    <2>1. /\ duck' = [duck EXCEPT ![d] = y] /\ UNCHANGED performed /\ upsets' \in 0..MaxUpsets
        BY <1>1 DEF End, ChoirInv
    <2>2. Tuned(y, performed) /\ y.fit = 0 /\ y.mode # "conducting"
        BY ListeningTuned DEF ChoirInv
    <2> HIDE DEF y
    <2> QED BY <2>1, <2>2, Quietly
<1>2. CASE Switch(d)
    <2> DEFINE y == IF duck[d].mode = "off" THEN [Off EXCEPT !.mode = "listening"] ELSE Off
    <2>1. /\ duck' = [duck EXCEPT ![d] = y] /\ UNCHANGED performed /\ upsets' \in 0..MaxUpsets
        BY <1>2, ChoraleNats DEF Switch, ChoirInv
    <2>2. Tuned(y, performed) /\ y.fit = 0 /\ y.mode # "conducting"
        BY OffTuned DEF ChoirInv
    <2> HIDE DEF y
    <2> QED BY <2>1, <2>2, Quietly
<1> QED BY <1>1, <1>2

LEMMA JoinStep ==
    ASSUME ChoirInv, NEW d \in Ducks, Join(d)
    PROVE  ChoirInv'
<1>1. PICK c \in Singing(d) :
          duck' = [duck EXCEPT ![d].mode = "following", ![d].piece = duck[d].peers[c]]
    BY DEF Join
<1> DEFINE y == [duck[d] EXCEPT !.mode = "following", !.piece = duck[d].peers[c]]
<1>2. duck' = [duck EXCEPT ![d] = y] /\ UNCHANGED performed /\ upsets' \in 0..MaxUpsets
    BY <1>1 DEF Join, ChoirInv
<1>3. duck[d] \in DuckSet /\ Tuned(duck[d], performed) /\ duck[d].mode = "listening"
    BY DEF ChoirInv, Tuned, Join
<1>4. duck[d].peers[c] \in Pieces /\ duck[d].fit = 0
    BY <1>3, ChoraleNats DEF Singing, Heard, Tuned
<1>5. /\ y \in DuckSet /\ y.mode = "following" /\ y.fit = 0 /\ y.roster = duck[d].roster
      /\ y.performance = duck[d].performance
    BY <1>3, <1>4 DEF DuckSet
<1> HIDE DEF y
<1>6. Tuned(y, performed)
    BY <1>3, <1>5 DEF Tuned
<1> QED BY <1>2, <1>5, <1>6, Quietly
LEMMA ConductStep ==
    ASSUME ChoirInv, NEW d \in Ducks, Conduct(d)
    PROVE  ChoirInv'
<1> USE ChoraleNats
<1>1. PICK p \in Knows[d], order \in SetToSeqs(Heard(d)) :
          duck' = [duck EXCEPT ![d] =
               [@ EXCEPT !.mode = "conducting", !.piece = p, !.roster = <<d>> \o order,
                         !.beat = 0, !.performance = performed + 1]]
    BY DEF Conduct
<1> DEFINE y == [duck[d] EXCEPT !.mode = "conducting", !.piece = p, !.roster = <<d>> \o order,
                                !.beat = 0, !.performance = performed + 1]
<1>2. /\ performed \in Nat /\ performed + 1 <= LastPerformance /\ performed' = performed + 1
      /\ upsets' \in 0..MaxUpsets
    BY DEF Conduct, ChoirInv
<1>3. duck[d] \in DuckSet /\ Tuned(duck[d], performed) /\ duck[d].fit = 0
    BY DEF ChoirInv, Tuned, Conduct
<1>4. <<d>> \o order \in Seq(Ducks) /\ NoRepeat(<<d>> \o order)
    <2>1. IsFiniteSet(Ducks) /\ Heard(d) \in SUBSET Ducks /\ d \notin Heard(d)
        BY DucksAssumption DEF Conduct, Heard
    <2>2. order \in Seq(Ducks) /\ NoRepeat(order) /\ \A i \in 1..Len(order) : order[i] \in Heard(d)
        BY <2>1, OrderOf
    <2>3. <<d>> \in Seq(Ducks) /\ Len(<<d>>) = 1 /\ <<d>>[1] = d
        OBVIOUS
    <2>4. NoRepeat(<<d>>)
        BY <2>3 DEF NoRepeat
    <2>5. \A i \in 1..Len(<<d>>) : \A j \in 1..Len(order) : <<d>>[i] # order[j]
        BY <2>1, <2>2, <2>3
    <2> QED BY <2>2, <2>3, <2>4, <2>5, SeatsAfter
<1>5. p \in Pieces
    OBVIOUS
<1>6. /\ y \in DuckSet /\ y.mode = "conducting" /\ y.fit = 0 /\ y.roster = <<d>> \o order
      /\ y.performance = performed + 1 /\ y.beat = 0
    <2>1. performed + 1 \in 0..LastPerformance /\ 0 \in 0..LastPosition
        BY <1>2
    <2> QED BY <1>3, <1>4, <1>5, <2>1, ZenonT(40) DEF DuckSet
<1>7. duck' = [duck EXCEPT ![d] = y]
    BY <1>1
<1> HIDE DEF y
<1>8. Tuned(y, performed')
    BY <1>2, <1>4, <1>6 DEF Tuned
<1>9. ASSUME NEW c \in Ducks \ {d} PROVE With(y, c, duck[c]) /\ With(duck[c], d, y)
    <2>1. duck[c].performance \in Nat /\ duck[c].performance <= performed
        BY DEF ChoirInv, Tuned, DuckSet
    <2>2. y.performance # duck[c].performance
        BY <1>2, <1>6, <2>1
    <2>3. With(duck[c], d, y)
        BY <2>2 DEF With
    <2>4. With(y, c, duck[c])
        <3>1. ~(y.fit > 0)
            BY <1>6
        <3> QED BY <3>1 DEF With
    <2> QED BY <2>3, <2>4
<1>10. performed' \in performed..LastPerformance
    BY <1>2
<1> QED BY <1>2, <1>7, <1>8, <1>9, <1>10, OneDuck

LEMMA SeatStep ==
    ASSUME ChoirInv, NEW d \in Ducks, Seat(d)
    PROVE  ChoirInv'
<1> DEFINE q == duck[d].roster
           new == Heard(d) \ ToSet(q)
<1>1. PICK order \in SetToSeqs(new) : duck' = [duck EXCEPT ![d].roster = @ \o order]
    BY DEF Seat
<1> DEFINE y == [duck[d] EXCEPT !.roster = q \o order]
<1>2. duck' = [duck EXCEPT ![d] = y] /\ UNCHANGED <<performed, upsets>>
    BY <1>1 DEF Seat
<1>3. duck[d] \in DuckSet /\ Tuned(duck[d], performed) /\ duck[d].mode = "conducting"
    BY DEF ChoirInv, Tuned, Seat
<1>4. q \in Seq(Ducks) /\ order \in Seq(Ducks) /\ q \o order \in Seq(Ducks) /\ NoRepeat(q \o order)
    <2>1. IsFiniteSet(Ducks) /\ new \in SUBSET Ducks
        BY DucksAssumption DEF Heard
    <2>2. order \in Seq(Ducks) /\ NoRepeat(order) /\ \A i \in 1..Len(order) : order[i] \in new
        <3> HIDE DEF new
        <3> QED BY <2>1, OrderOf
    <2>3. q \in Seq(Ducks) /\ NoRepeat(q)
        BY <1>3 DEF Tuned, DuckSet
    <2>4. \A i \in 1..Len(q) : q[i] \in ToSet(q)
        BY <2>3 DEF ToSet
    <2>5. \A i \in 1..Len(q) : \A j \in 1..Len(order) : q[i] # order[j]
        BY <2>2, <2>4
    <2> HIDE DEF q, new
    <2> QED BY <2>2, <2>3, <2>5, SeatsAfter
<1>5. /\ y \in DuckSet /\ y.mode = "conducting" /\ y.roster = q \o order
      /\ y.piece = duck[d].piece /\ y.beat = duck[d].beat /\ y.fit = duck[d].fit
      /\ y.leader = duck[d].leader /\ y.performance = duck[d].performance
    BY <1>3, <1>4 DEF DuckSet
<1>6. Tuned(y, performed)
    <2> HIDE DEF y
    <2> QED BY <1>3, <1>4, <1>5 DEF Tuned
<1>7. ASSUME NEW c \in Ducks \ {d} PROVE With(y, c, duck[c]) /\ With(duck[c], d, y)
    <2>1. With(y, c, duck[c])
        <3>1. y.fit = 0
            BY <1>3, <1>5 DEF Tuned
        <3> QED BY <3>1 DEF With
    <2>2. With(duck[c], d, duck[d]) /\ duck[c].roster \in Seq(Ducks)
        BY DEF ChoirInv, Tuned, DuckSet
    <2>3. IsPrefix(duck[c].roster, q) => IsPrefix(duck[c].roster, q \o order)
        BY <1>4, <2>2, PrefixGrows
    <2> HIDE DEF y
    <2>4. With(duck[c], d, y)
        BY <1>3, <1>5, <2>2, <2>3 DEF With
    <2> QED BY <2>1, <2>4
<1> HIDE DEF y
<1>8. performed' \in performed..LastPerformance /\ upsets' \in 0..MaxUpsets
    BY <1>2, ChoraleNats DEF ChoirInv
<1> QED BY <1>2, <1>6, <1>7, <1>8, OneDuck

LEMMA ElapseStep ==
    ASSUME ChoirInv, Elapse
    PROVE  ChoirInv'
<1> USE ChoraleNats
<1> DEFINE Moves(d) == /\ duck[d].mode = "conducting" \/ duck[d].fit > 0
                       /\ duck[d].beat < LastPosition
           y(d) == IF Moves(d) THEN [duck[d] EXCEPT !.beat = @ + 1] ELSE duck[d]
<1>1. /\ duck' = [d \in Ducks |-> y(d)] /\ UNCHANGED <<performed, upsets>>
    BY DEF Elapse
<1>2. ASSUME NEW d \in Ducks
      PROVE  /\ duck'[d] \in DuckSet /\ duck'[d].mode = duck[d].mode
             /\ duck'[d].piece = duck[d].piece /\ duck'[d].roster = duck[d].roster
             /\ duck'[d].fit = duck[d].fit /\ duck'[d].leader = duck[d].leader
             /\ duck'[d].performance = duck[d].performance /\ duck'[d].mixed = duck[d].mixed
             /\ duck'[d].beat = IF Moves(d) THEN duck[d].beat + 1 ELSE duck[d].beat
    <2>1. duck[d] \in DuckSet /\ duck'[d] = y(d)
        BY <1>1 DEF ChoirInv, Tuned
    <2>2. CASE Moves(d)
        <3>1. duck[d].beat + 1 \in 0..LastPosition
            <4>1. duck[d].beat \in 0..LastPosition /\ duck[d].beat < LastPosition
                BY <2>1, <2>2 DEF DuckSet
            <4> QED BY ONLY <4>1, LastPosition \in Nat
        <3> QED BY <2>1, <2>2, <3>1, ZenonT(40) DEF DuckSet
    <2>3. CASE ~Moves(d)
        BY <2>1, <2>3
    <2> QED BY <2>2, <2>3
<1>3. ASSUME NEW d \in Ducks
      PROVE  /\ Tuned(duck[d], performed) /\ duck[d].beat \in Nat
             /\ duck[d].mode = "conducting" => duck[d].beat <= Length + EndMargin
    <2>1. Tuned(duck[d], performed)
        BY DEF ChoirInv
    <2>2. duck[d].beat \in 0..LastPosition
        BY <2>1 DEF Tuned, DuckSet
    <2>3. duck[d].mode = "conducting" => ~(duck[d].beat > Length + EndMargin)
        BY DEF Elapse, Over
    <2> QED BY <2>1, <2>2, <2>3
<1>4. ASSUME NEW d \in Ducks PROVE Tuned(duck'[d], performed')
    <2>1. duck'[d].beat \in {duck[d].beat, duck[d].beat + 1} /\ duck'[d].mode = duck[d].mode
        BY <1>2
    <2>2. duck[d].beat \in Nat /\ (duck[d].mode = "conducting" => duck[d].beat <= Length + EndMargin)
        BY <1>3
    <2>3. duck'[d].mode = "conducting" => duck'[d].beat <= Length + EndMargin + 1
        BY ONLY <2>1, <2>2, Length \in Nat, EndMargin \in Nat
    <2> QED BY <1>1, <1>2, <1>3, <2>3 DEF Tuned
<1>5. ASSUME NEW d \in Ducks, NEW c \in Ducks PROVE With(duck'[d], c, duck'[c])
    <2> SUFFICES ASSUME duck[d].fit > 0, ~duck[d].mixed, duck[d].leader = c,
                        duck[c].mode = "conducting", duck[c].performance = duck[d].performance
                 PROVE  /\ duck[d].piece = duck[c].piece /\ duck'[d].beat = duck'[c].beat
                        /\ IsPrefix(duck[d].roster, duck[c].roster)
        BY <1>2 DEF With
    <2>1. /\ duck[d].piece = duck[c].piece /\ duck[d].beat = duck[c].beat
          /\ IsPrefix(duck[d].roster, duck[c].roster)
        BY DEF ChoirInv, With
    <2>2. Moves(d) <=> Moves(c)
        BY <2>1
    <2> QED BY <1>2, <2>1, <2>2
<1>6. duck' \in [Ducks -> DuckSet]
    BY <1>1, <1>2
<1> QED BY <1>1, <1>4, <1>5, <1>6 DEF ChoirInv
\* A duck that takes a conductor's count is with that conductor from then on, and with no
\* other.
LEMMA HearStep ==
    ASSUME ChoirInv, NEW d \in Ducks, NEW c \in Ducks, Hear(d, c)
    PROVE  ChoirInv'
<1> USE ChoraleNats
<1> DEFINE sings == duck[c].mode = "conducting"
           b == IF sings THEN duck[c].piece ELSE IDLE
           x == [duck[d] EXCEPT !.peers[c] = b]
           y == IF x.leader = NoOne THEN [x EXCEPT !.leader = c] ELSE x
           z == IF x.mode # "following" \/ ~sings THEN x
                ELSE IF y.leader # c THEN y
                ELSE IF Restarted(y, c)
                THEN IF duck[c].piece \in Knows[d] THEN Following(y, c) ELSE Listening(y)
                ELSE IF y.taken = duck[c].beat THEN [y EXCEPT !.roster = duck[c].roster]
                ELSE Takes(y, c)
<1>1. /\ duck' = [duck EXCEPT ![d] = z] /\ UNCHANGED <<performed, upsets>> /\ <<d, c>> \in InRange
    BY DEF Hear
<1>2. c # d /\ duck[c] \in DuckSet /\ Tuned(duck[c], performed) /\ upsets' \in 0..MaxUpsets
    BY <1>1 DEF ChoirInv, Tuned
<1>3. /\ duck[d] \in DuckSet /\ Tuned(duck[d], performed) /\ With(duck[d], c, duck[c])
    BY DEF ChoirInv, Tuned
<1>4. b \in Beacon
    BY <1>2 DEF Beacon, DuckSet
<1>5. /\ Tuned(x, performed)
      /\ x.mode = duck[d].mode /\ x.piece = duck[d].piece /\ x.roster = duck[d].roster
      /\ x.beat = duck[d].beat /\ x.leader = duck[d].leader /\ x.fit = duck[d].fit
      /\ x.performance = duck[d].performance /\ x.mixed = duck[d].mixed
      /\ x.taken = duck[d].taken
    BY <1>4, Noted
<1> HIDE DEF b, x
<1>6. CASE z = x
    BY <1>1, <1>2, <1>5, <1>6, Quietly
<1>7. CASE duck[d].mode = "following" /\ sings
    <2>1. /\ Tuned(y, performed) /\ y \in DuckSet
          /\ y.mode = "following" /\ y.piece = duck[d].piece /\ y.roster = duck[d].roster
          /\ y.beat = duck[d].beat /\ y.fit = duck[d].fit
          /\ y.performance = duck[d].performance /\ y.mixed = duck[d].mixed
          /\ y.taken = duck[d].taken
          /\ y.leader = IF duck[d].leader = NoOne THEN c ELSE duck[d].leader
        <3>1. CASE x.leader # NoOne
            BY <1>5, <1>7, <3>1 DEF Tuned
        <3>2. CASE x.leader = NoOne
            <4>1. x.fit = 0 /\ x \in DuckSet
                BY <1>5, <3>2 DEF Tuned
            <4>2. /\ y \in DuckSet /\ y.mode = "following" /\ y.piece = duck[d].piece
                  /\ y.roster = duck[d].roster
                  /\ y.beat = duck[d].beat /\ y.fit = duck[d].fit
                  /\ y.performance = duck[d].performance /\ y.mixed = duck[d].mixed
                  /\ y.taken = duck[d].taken /\ y.leader = c
                BY <1>5, <1>7, <3>2, <4>1 DEF DuckSet
            <4> HIDE DEF y
            <4> QED BY <1>5, <3>2, <4>1, <4>2 DEF Tuned
        <3> QED BY <3>1, <3>2
    <2> HIDE DEF y
    \* The leader's own count is the one the duck is with; nobody is with the duck.
    <2>2. ASSUME Tuned(z, performed), z.mode = "following", z.leader = c,
                 With(z, c, duck[c])
          PROVE  ChoirInv'
        <3>1. \A e \in Ducks \ {d} : With(z, e, duck[e]) /\ With(duck[e], d, z)
            BY <2>2 DEF With
        <3>2. performed' \in performed..LastPerformance
            BY <1>1 DEF ChoirInv
        <3> HIDE DEF z
        <3> QED BY <1>1, <1>2, <2>2, <3>1, <3>2, OneDuck
    <2>3. CASE y.leader # c
        <3>1. y.leader = duck[d].leader /\ z = y
            BY <1>5, <1>7, <2>1, <2>3
        <3> HIDE DEF z
        <3> QED BY <1>1, <1>2, <1>7, <2>1, <3>1, Quietly
    <2>4. /\ duck[c].roster \in Seq(Ducks) /\ NoRepeat(duck[c].roster)
          /\ duck[c].beat \in 0..LastPosition /\ duck[c].beat \in 0..NoBeat
          /\ duck[c].piece \in Pieces \cup {IDLE}
          /\ duck[c].performance \in 0..LastPerformance /\ duck[c].performance <= performed
          /\ 1 \in 0..LockBeats /\ IsPrefix(duck[c].roster, duck[c].roster)
        <3>1. duck[c].beat \in 0..LastPosition /\ duck[c].beat <= Length + EndMargin + 1
            BY <1>2, <1>7 DEF Tuned, DuckSet
        <3> QED BY <1>2, <3>1, PrefixGrows, SMTT(40) DEF Tuned, DuckSet
    <2>5. CASE y.leader = c /\ Restarted(y, c) /\ duck[c].piece \in Knows[d]
        <3>1. z = Following(y, c)
            BY <1>5, <1>7, <2>5
        <3>2. /\ z \in DuckSet /\ z.mode = "following" /\ z.leader = c
              /\ z.piece = duck[c].piece
              /\ z.roster = duck[c].roster /\ z.beat = duck[c].beat
              /\ z.performance = duck[c].performance
            <4> HIDE DEF z
            <4>1. z = [y EXCEPT !.mode = "following", !.leader = c, !.piece = duck[c].piece,
                                !.roster = duck[c].roster, !.beat = duck[c].beat,
                                !.taken = duck[c].beat, !.fit = 1,
                                !.performance = duck[c].performance, !.mixed = FALSE]
                BY <3>1 DEF Following
            <4> QED BY <2>1, <2>4, <4>1 DEF DuckSet
        <3> HIDE DEF z
        <3>3. Tuned(z, performed)
            BY <2>4, <3>2 DEF Tuned
        <3>4. With(z, c, duck[c])
            BY <2>4, <3>2 DEF With
        <3> QED BY <2>2, <3>2, <3>3, <3>4 DEF z
    <2>6. CASE y.leader = c /\ Restarted(y, c) /\ duck[c].piece \notin Knows[d]
        <3>1. z = Listening(y)
            BY <1>5, <1>7, <2>6
        <3>2. Tuned(z, performed) /\ z.fit = 0 /\ z.mode = "listening"
            BY <2>1, <3>1, ListeningTuned DEF ChoirInv
        <3> HIDE DEF z
        <3> QED BY <1>1, <1>2, <3>2, Quietly
    <2>7. CASE y.leader = c /\ ~Restarted(y, c) /\ y.taken = duck[c].beat
        <3>1. z = [y EXCEPT !.roster = duck[c].roster]
            BY <1>5, <1>7, <2>7
        <3>2. /\ z \in DuckSet /\ z.mode = "following" /\ z.leader = c
              /\ z.piece = y.piece /\ z.roster = duck[c].roster /\ z.beat = y.beat
              /\ z.performance = y.performance /\ z.fit = y.fit /\ z.mixed = y.mixed
            BY <2>1, <2>4, <2>7, <3>1 DEF DuckSet
        <3> HIDE DEF z
        <3>3. Tuned(z, performed)
            BY <2>1, <2>4, <3>2 DEF Tuned
        <3>4. With(z, c, duck[c])
            BY <1>3, <2>1, <2>4, <2>7, <3>2 DEF With, Tuned
        <3> QED BY <2>2, <3>2, <3>3, <3>4 DEF z
    <2>8. CASE y.leader = c /\ ~Restarted(y, c) /\ y.taken # duck[c].beat
        <3>1. z = Takes(y, c) /\ y.piece = duck[c].piece
            BY <1>5, <1>7, <2>8 DEF Restarted
        <3> DEFINE other == y.fit > 0 /\ y.performance # duck[c].performance
                   beat == IF Outlier(y, c) THEN y.beat ELSE duck[c].beat
                   fit == IF Outlier(y, c) \/ y.fit = LockBeats THEN y.fit ELSE y.fit + 1
        <3>2. fit \in 0..LockBeats /\ beat \in 0..LastPosition /\ (y.mixed \/ other) \in BOOLEAN
            BY <2>1, <2>4, SMTT(40) DEF DuckSet
        <3>3. /\ z \in DuckSet /\ z.mode = "following" /\ z.leader = c
              /\ z.piece = y.piece /\ z.roster = duck[c].roster /\ z.beat = beat
              /\ z.performance = duck[c].performance /\ z.mixed = (y.mixed \/ other)
            <4> HIDE DEF other, beat, fit, z
            <4>1. z = [y EXCEPT !.roster = duck[c].roster, !.taken = duck[c].beat,
                                !.performance = duck[c].performance,
                                !.mixed = y.mixed \/ other, !.beat = beat, !.fit = fit]
                BY <3>1 DEF Takes, other, beat, fit
            <4> QED BY <2>1, <2>4, <2>8, <3>2, <4>1, ZenonT(40) DEF DuckSet
        <3> HIDE DEF z
        <3>4. Tuned(z, performed)
            BY <2>4, <3>3 DEF Tuned
        \* A fit that is not mixed rests on this performance, so its count is the right one.
        <3>5. ~z.mixed => beat = duck[c].beat
            <4> SUFFICES ASSUME ~z.mixed, Outlier(y, c) PROVE FALSE
                OBVIOUS
            <4>1. y.fit = LockBeats /\ y.beat # duck[c].beat /\ ~y.mixed
                  /\ y.performance = duck[c].performance
                BY <3>3 DEF Outlier
            <4>2. duck[d].leader = c
                BY <1>3, <2>1, <2>8, <4>1 DEF Tuned
            <4> QED BY <1>3, <1>7, <2>1, <4>1, <4>2 DEF With
        <3>6. With(z, c, duck[c])
            BY <2>4, <3>1, <3>3, <3>5 DEF With
        <3> QED BY <2>2, <3>3, <3>4, <3>6 DEF z
    <2> QED BY <2>3, <2>5, <2>6, <2>7, <2>8
<1> QED BY <1>5, <1>6, <1>7
LEMMA ChoirInvStep ==
    ASSUME ChoirInv, [ChoraleNext]_choraleVars
    PROVE  ChoirInv'
<1>1. CASE UNCHANGED choraleVars
    BY <1>1 DEF choraleVars, ChoirInv, Tuned, With
<1> QED
    BY <1>1, ElapseStep, JoinStep, ConductStep, SeatStep, EndStep, HearStep, ForgetStep
    DEF ChoraleNext

LEMMA ChoirInvInit == ChoraleInit => ChoirInv
<1> SUFFICES ASSUME ChoraleInit PROVE ChoirInv
    OBVIOUS
<1> USE ChoraleNats
<1> DEFINE y == [Off EXCEPT !.mode = "listening"]
<1>1. duck = [d \in Ducks |-> y] /\ performed = 0 /\ upsets = 0
    BY DEF ChoraleInit
<1>2. performed \in 0..LastPerformance /\ upsets \in 0..MaxUpsets
    BY <1>1
<1>3. Tuned(y, performed) /\ y.fit = 0
    BY <1>2, OffTuned
<1> HIDE DEF y
<1>4. y \in DuckSet /\ \A c \in Ducks : With(y, c, y)
    <2>1. ~(y.fit > 0)
        BY <1>3
    <2> QED BY <1>3, <2>1 DEF Tuned, With
<1> QED BY <1>1, <1>2, <1>3, <1>4 DEF ChoirInv

\* Every variable of the choir has its type; no roster has a duck twice, so none is longer
\* than the flock.
THEOREM ChoraleType == ChoraleSpec => []ChoraleTypeOK
BY ChoirInvInit, ChoirInvStep, ChoirInvTypes, PTL DEF ChoraleSpec

\* A duck that sings after a conductor is with it in piece, beat and seat (InStep),
\* whatever beacons were lost and whoever else conducts within its hearing.
THEOREM FollowersAreInStep == ChoraleSpec => []InStep
BY ChoirInvInit, ChoirInvStep, ChoirInStep, PTL DEF ChoraleSpec
-----------------------------------------------------------------------------
(* The gamepad (PadDrive). *)

\* Nothing moves after something that stops.
Stops(l) == \E i \in DOMAIN l : l[i] = "still" /\ \A j \in DOMAIN l : j > i => l[j] # "move"

\* Once padd poses the robot, nothing on its way moves it: either there is no twist
\* left, or one that stops comes after the last that moves.
StopsLast ==
    \/ ~twist.moves /\ \A i \in DOMAIN wire : wire[i] # "move"
    \/ Stops(wire)

PosedInv == padd.up /\ padd.connected /\ padd.posed => StopsLast

\* A hold is no older than the last tick that saw Select up.
HoldInv == padd.up /\ padd.held # NotHeld => padd.held <= upAge

\* The constants, one by one.
LEMMA PadNats == Deadman \in Nat /\ Hold \in Nat /\ WireLines \in Nat
BY PadAssumption, WireBound

\* The lines of a tick are lines of the wire.
LEMMA LinesType ==
    ASSUME NEW mode, NEW leaving
    PROVE  Lines(mode, leaving) \in Seq({"move", "still", "pose"})
<1> DEFINE L  == {"move", "still", "pose"}
           back == IF leaving THEN <<"pose">> ELSE <<>>
           rest == IF mode = "drive" THEN <<IF pad.off THEN "move" ELSE "still">>
                   ELSE <<"still", "pose">>
<1>1. back \in Seq(L)
    <2>1. <<"pose">> \in Seq(L) /\ <<>> \in Seq(L)
        OBVIOUS
    <2> QED BY <2>1
<1>2. rest \in Seq(L)
    <2>1. <<"move">> \in Seq(L) /\ <<"still">> \in Seq(L) /\ <<"still", "pose">> \in Seq(L)
        OBVIOUS
    <2>2. rest \in {<<"move">>, <<"still">>, <<"still", "pose">>}
        OBVIOUS
    <2> HIDE DEF rest, L
    <2> QED BY <2>1, <2>2
<1>3. Lines(mode, leaving) = back \o rest
    BY DEF Lines
<1> HIDE DEF back, rest, L
<1>4. back \o rest \in Seq(L)
    BY <1>1, <1>2, ConcatProperties
<1> QED BY <1>3, <1>4 DEF L

\* What stops still does after more lines, and more lines do when they stop.
LEMMA StopsConcat ==
    ASSUME NEW v \in Seq({"move", "still", "pose"}), NEW w \in Seq({"move", "still", "pose"}),
           Stops(w)
    PROVE  Stops(v \o w)
<1>1. PICK i \in 1..Len(w) : w[i] = "still" /\ \A j \in 1..Len(w) : j > i => w[j] # "move"
    BY LenProperties DEF Stops
<1>2. /\ Len(v \o w) = Len(v) + Len(w) /\ Len(v) \in Nat /\ Len(w) \in Nat
      /\ DOMAIN (v \o w) = 1..Len(v) + Len(w)
      /\ \A k \in 1..Len(v) + Len(w) :
             (v \o w)[k] = IF k <= Len(v) THEN v[k] ELSE w[k - Len(v)]
    BY ConcatProperties, LenProperties
<1> DEFINE vw == v \o w
           k  == Len(v) + i
<1> HIDE DEF vw
<1>3. k \in DOMAIN vw /\ vw[k] = "still"
    BY <1>1, <1>2 DEF vw
<1>4. ASSUME NEW j \in DOMAIN vw, j > k PROVE vw[j] # "move"
    <2>1. j - Len(v) \in 1..Len(w) /\ j - Len(v) > i /\ vw[j] = w[j - Len(v)]
        BY <1>1, <1>2, <1>4 DEF vw
    <2> QED BY <1>1, <2>1
<1> QED BY <1>3, <1>4 DEF Stops, vw

\* The lines of a tick that poses stop.
LEMMA LinesOfPosing ==
    ASSUME NEW mode, mode # "drive", NEW leaving
    PROVE  Stops(Lines(mode, leaving))
<1> DEFINE L    == {"move", "still", "pose"}
           back == IF leaving THEN <<"pose">> ELSE <<>>
           rest == <<"still", "pose">>
<1>1. back \in Seq(L)
    <2>1. <<"pose">> \in Seq(L) /\ <<>> \in Seq(L)
        OBVIOUS
    <2> QED BY <2>1
<1>2. rest \in Seq(L) /\ Stops(rest)
    BY DEF Stops
<1>3. Lines(mode, leaving) = back \o rest
    BY DEF Lines
<1> HIDE DEF back, rest
<1> QED BY <1>1, <1>2, <1>3, StopsConcat

\* Every variable has its type.
THEOREM PadType == PadSpec => []PadTypeOK
<1>1. PadInit => PadTypeOK
    <2> SUFFICES ASSUME PadInit PROVE PadTypeOK
        OBVIOUS
    <2>1. /\ pad \in [here: BOOLEAN, off: BOOLEAN, select: BOOLEAN]
          /\ commanded \in BOOLEAN
        BY Zenon DEF PadInit
    <2>5. upAge \in 0..Hold
        BY PadNats DEF PadInit
    <2>2. padd \in [up: BOOLEAN, connected: BOOLEAN, mode: Posing \cup {"drive"},
                    held: 0..NotHeld, asked: BOOLEAN, posed: BOOLEAN]
        BY PadNats DEF PadInit, NewPadd, NotHeld
    <2>3. twist \in [moves: BOOLEAN, age: 0..Deadman + 1]
        BY PadNats DEF PadInit
    <2>4. wire \in Seq({"move", "still", "pose"}) /\ Len(wire) <= WireLines
        BY PadNats DEF PadInit
    <2> QED BY <2>1, <2>2, <2>3, <2>4, <2>5 DEF PadTypeOK
<1>2. PadTypeOK /\ [PadNext]_padVars => PadTypeOK'
    <2> SUFFICES ASSUME PadTypeOK, [PadNext]_padVars PROVE PadTypeOK'
        OBVIOUS
    <2> USE PadNats DEF PadTypeOK, NotHeld
    <2>1. CASE Handled
        BY <2>1 DEF Handled
    <2>2. CASE PadDrops
        BY <2>2 DEF PadDrops
    <2>3. CASE PaddTick
        <3>1. PICK mode \in {padd.mode} \cup {Toggled(b) : b \in Posing} :
                 LET lines == Lines(mode, padd.mode = "body" /\ mode = "drive") IN
                 IF padd.connected
                 THEN /\ Len(wire) + Len(lines) <= WireLines
                      /\ wire' = wire \o lines
                      /\ padd' = [padd EXCEPT !.mode = mode, !.posed = mode # "drive",
                                              !.held = HeldFor,
                                              !.asked = pad.select /\ (@ \/ HeldFor = Hold)]
                 ELSE UNCHANGED wire /\ padd' = [padd EXCEPT !.up = FALSE]
            BY <2>3 DEF PaddTick
        <3>2. mode \in Posing \cup {"drive"}
            BY <3>1 DEF Toggled
        <3>3. HeldFor \in 0..NotHeld
            BY DEF HeldFor
        <3>4. padd' \in [up: BOOLEAN, connected: BOOLEAN, mode: Posing \cup {"drive"},
                         held: 0..NotHeld, asked: BOOLEAN, posed: BOOLEAN]
            BY <3>1, <3>2, <3>3, ZenonT(40)
        <3>5. wire' \in Seq({"move", "still", "pose"}) /\ Len(wire') <= WireLines
            <4> DEFINE l == Lines(mode, padd.mode = "body" /\ mode = "drive")
            <4>1. l \in Seq({"move", "still", "pose"})
                BY LinesType
            <4>2. \/ Len(wire) + Len(l) <= WireLines /\ wire' = wire \o l
                  \/ wire' = wire
                BY <3>1
            <4> HIDE DEF l
            <4>3. CASE Len(wire) + Len(l) <= WireLines /\ wire' = wire \o l
                <5>1. /\ wire \o l \in Seq({"move", "still", "pose"})
                      /\ Len(wire \o l) = Len(wire) + Len(l)
                    BY <4>1, ConcatProperties
                <5> QED BY <4>3, <5>1
            <4>4. CASE wire' = wire
                BY <4>4
            <4> QED BY <4>2, <4>3, <4>4
        <3>6. upAge' \in 0..Hold /\ UNCHANGED <<pad, twist, commanded>>
            BY <2>3 DEF PaddTick
        <3> QED BY <3>4, <3>5, <3>6
    <2>4. CASE PaddDies
        BY <2>4 DEF PaddDies
    <2>5. CASE PaddStarts
        BY <2>5 DEF PaddStarts, NewPadd
    <2>6. CASE Receive
        <3>1. /\ Tail(wire) \in Seq({"move", "still", "pose"})
              /\ Len(Tail(wire)) = Len(wire) - 1
            BY <2>6, HeadTailProperties DEF Receive
        <3>2. wire' \in Seq({"move", "still", "pose"}) /\ Len(wire') <= WireLines
            BY <2>6, <3>1, LenProperties DEF Receive
        <3>3. twist' \in [moves: BOOLEAN, age: 0..Deadman + 1]
            BY <2>6 DEF Receive
        <3> QED BY <2>6, <3>2, <3>3 DEF Receive
    <2>7. CASE LoopTick
        BY <2>7 DEF LoopTick, Gate
    <2>8. CASE RobotdRestarts
        <3>1. twist' \in [moves: BOOLEAN, age: 0..Deadman + 1]
            BY <2>8 DEF RobotdRestarts
        <3>2. wire' \in Seq({"move", "still", "pose"}) /\ Len(wire') <= WireLines
            BY <2>8 DEF RobotdRestarts
        <3> QED BY <2>8, <3>1, <3>2 DEF RobotdRestarts
    <2>9. CASE Wait
        <3>1. \A last \in Nat : \A x \in 0..last : Later(x, last) \in 0..last
            BY DEF Later
        <3>2. twist' \in [moves: BOOLEAN, age: 0..Deadman + 1]
            <4>1. Later(twist.age, Deadman + 1) \in 0..Deadman + 1
                BY <3>1
            <4>2. twist' = [twist EXCEPT !.age = Later(twist.age, Deadman + 1)]
                BY <2>9 DEF Wait
            <4> QED BY <4>1, <4>2
        <3>3. upAge' \in 0..Hold
            BY <2>9, <3>1 DEF Wait
        <3>4. padd.held # NotHeld => Later(padd.held, Hold) \in 0..NotHeld
            BY DEF Later
        <3>5. padd'.held \in 0..NotHeld
            BY <2>9, <3>4 DEF Wait
        <3>6. padd' = [padd EXCEPT !.held = padd'.held]
            BY <2>9 DEF Wait
        <3>7. padd' \in [up: BOOLEAN, connected: BOOLEAN, mode: Posing \cup {"drive"},
                         held: 0..NotHeld, asked: BOOLEAN, posed: BOOLEAN]
            BY <3>5, <3>6
        <3> QED BY <2>9, <3>2, <3>3, <3>7 DEF Wait
    <2>10. CASE UNCHANGED padVars
        BY <2>10 DEF padVars
    <2> QED
        BY <2>1, <2>2, <2>3, <2>4, <2>5, <2>6, <2>7, <2>8, <2>9, <2>10 DEF PadNext
<1> QED BY <1>1, <1>2, PTL DEF PadSpec

\* What a tick does to padd and to the wire.
LEMMA TickOf ==
    ASSUME PaddTick
    PROVE  /\ padd.up /\ UNCHANGED <<pad, twist, commanded>>
           /\ upAge' = IF pad.select THEN upAge ELSE 0
           /\ \/ padd' = [padd EXCEPT !.up = FALSE]
              \/ \E mode, leaving :
                    /\ wire' = wire \o Lines(mode, leaving)
                    /\ padd' = [padd EXCEPT !.mode = mode, !.posed = mode # "drive",
                                            !.held = HeldFor,
                                            !.asked = pad.select /\ (@ \/ HeldFor = Hold)]
BY DEF PaddTick

\* Reading a line leaves nothing on its way that moves the robot where there was nothing.
LEMMA StopsLastReceived ==
    ASSUME PadTypeOK, Receive, StopsLast
    PROVE  StopsLast'
<1>1. wire # <<>> /\ wire' = Tail(wire) /\ wire \in Seq({"move", "still", "pose"})
    BY DEF Receive, PadTypeOK
<1>2. /\ Len(wire) \in Nat /\ Len(wire) >= 1 /\ Len(wire') = Len(wire) - 1
      /\ DOMAIN wire = 1..Len(wire) /\ DOMAIN wire' = 1..Len(wire) - 1
      /\ \A j \in 1..Len(wire) - 1 : wire'[j] = wire[j + 1]
      /\ Head(wire) = wire[1]
    BY <1>1, HeadTailProperties, LenProperties, EmptySeq
<1>3. twist'.moves = IF Head(wire) = "pose" THEN twist.moves ELSE Head(wire) = "move"
    BY DEF Receive
<1>4. CASE ~twist.moves /\ \A i \in DOMAIN wire : wire[i] # "move"
    <2>1. ~twist'.moves
        <3>1. 1 \in DOMAIN wire
            BY <1>2
        <3>2. Head(wire) # "move"
            BY <1>2, <1>4, <3>1
        <3> QED BY <1>3, <1>4, <3>2, Zenon
    <2>2. \A i \in DOMAIN wire' : wire'[i] # "move"
        BY <1>2, <1>4
    <2> QED BY <2>1, <2>2 DEF StopsLast
<1>5. CASE Stops(wire)
    <2>1. PICK i \in 1..Len(wire) : /\ wire[i] = "still"
                                    /\ \A j \in 1..Len(wire) : j > i => wire[j] # "move"
        BY <1>2, <1>5 DEF Stops
    <2>2. CASE i = 1
        <3>1. ~twist'.moves
            BY <1>2, <1>3, <2>1, <2>2
        <3>2. \A j \in DOMAIN wire' : wire'[j] # "move"
            BY <1>2, <2>1, <2>2
        <3> QED BY <3>1, <3>2 DEF StopsLast
    <2>3. CASE i # 1
        <3>1. i - 1 \in DOMAIN wire' /\ wire'[i - 1] = "still"
            BY <1>2, <2>1, <2>3
        <3>2. \A j \in DOMAIN wire' : j > i - 1 => wire'[j] # "move"
            BY <1>2, <2>1, <2>3
        <3> QED BY <3>1, <3>2 DEF StopsLast, Stops
    <2> QED BY <2>2, <2>3
<1> QED BY <1>4, <1>5 DEF StopsLast

\* A robot that padd poses has no twist left of the driving before (StillWhilePosed).
\* That is not inductive: PosedInv says why, through what is still in the socket.
THEOREM PadStillWhilePosed == PadSpec => []StillWhilePosed
<1>1. PadInit => PosedInv
    BY DEF PadInit, NewPadd, PosedInv
<1>2. PadTypeOK /\ PosedInv /\ [PadNext]_padVars => PosedInv'
    <2> SUFFICES ASSUME PadTypeOK, PosedInv, [PadNext]_padVars,
                        padd'.up, padd'.connected, padd'.posed
                 PROVE  StopsLast'
        BY DEF PosedInv
    <2>1. ASSUME UNCHANGED <<padd, wire, twist>> PROVE StopsLast'
        <3>1. StopsLast
            BY <2>1 DEF PosedInv
        <3> QED BY <2>1, <3>1 DEF StopsLast, Stops
    <2>2. CASE PaddTick
        <3>1. padd' # [padd EXCEPT !.up = FALSE]
            BY DEF PadTypeOK
        <3>2. PICK mode, leaving :
                 /\ wire' = wire \o Lines(mode, leaving)
                 /\ padd'.posed = (mode # "drive")
            BY <2>2, <3>1, TickOf DEF PadTypeOK
        <3>3. Stops(Lines(mode, leaving))
            BY <3>2, LinesOfPosing
        <3>4. Stops(wire')
            BY <3>2, <3>3, LinesType, StopsConcat DEF PadTypeOK
        <3> QED BY <3>4 DEF StopsLast, Stops
    <2>3. CASE PaddDies
        BY <2>3 DEF PaddDies, PadTypeOK
    <2>4. CASE PaddStarts
        BY <2>4 DEF PaddStarts, NewPadd
    <2>5. CASE Receive
        BY <2>5, StopsLastReceived DEF Receive, PosedInv
    <2>6. CASE RobotdRestarts
        BY <2>6 DEF RobotdRestarts, PadTypeOK
    <2>7. CASE Wait
        <3>1. /\ padd.up /\ padd.connected /\ padd.posed
              /\ wire' = wire /\ twist'.moves = twist.moves
            BY <2>7 DEF Wait, PadTypeOK
        <3>2. StopsLast
            BY <3>1 DEF PosedInv
        <3> QED BY <3>1, <3>2 DEF StopsLast, Stops
    <2> QED
        BY <2>1, <2>2, <2>3, <2>4, <2>5, <2>6, <2>7
        DEF PadNext, Handled, PadDrops, LoopTick, padVars
<1>3. PosedInv => StillWhilePosed
    <2> SUFFICES ASSUME PosedInv, padd.up, padd.connected, padd.posed, wire = <<>>
                 PROVE  ~twist.moves
        BY DEF StillWhilePosed
    <2>1. ~Stops(wire)
        BY DEF Stops
    <2> QED BY <2>1 DEF PosedInv, StopsLast
<1> QED BY <1>1, <1>2, <1>3, PadType, PTL DEF PadSpec

\* Taps of Select do not add up to a hold (HeldNotTapped).
THEOREM PadHeldNotTapped == PadSpec => HeldNotTapped
<1>1. PadInit => HoldInv
    BY DEF PadInit, NewPadd, HoldInv
<1>2. PadTypeOK /\ HoldInv /\ [PadNext]_padVars => HoldInv'
    <2> SUFFICES ASSUME PadTypeOK, HoldInv, [PadNext]_padVars,
                        padd'.up, padd'.held # NotHeld
                 PROVE  padd'.held <= upAge'
        BY DEF HoldInv, NotHeld
    <2> USE PadNats
    <2>1. CASE UNCHANGED <<padd, upAge>>
        BY <2>1 DEF HoldInv
    <2>2. CASE PaddTick
        <3>1. /\ padd.up /\ upAge' = IF pad.select THEN upAge ELSE 0
              /\ padd'.held = HeldFor
            BY <2>2, TickOf DEF PadTypeOK
        <3>2. pad.select /\ (padd'.held = 0 \/ padd'.held = padd.held)
            BY <3>1 DEF HeldFor
        <3> QED BY <3>1, <3>2 DEF HoldInv, PadTypeOK
    <2>3. CASE PaddDies
        BY <2>3 DEF PaddDies, PadTypeOK
    <2>4. CASE PaddStarts
        BY <2>4 DEF PaddStarts, NewPadd
    <2>5. CASE RobotdRestarts
        <3>1. padd.up /\ padd'.held = padd.held /\ upAge' = upAge
            BY <2>5 DEF RobotdRestarts, PadTypeOK
        <3> QED BY <3>1 DEF HoldInv
    <2>6. CASE Wait
        <3>1. /\ padd'.held = IF padd.held = NotHeld THEN padd.held ELSE Later(padd.held, Hold)
              /\ padd'.up = padd.up /\ upAge' = Later(upAge, Hold)
            BY <2>6 DEF Wait, PadTypeOK
        <3>2. padd.held # NotHeld /\ padd.held <= upAge
            BY <3>1 DEF HoldInv
        <3>3. padd.held \in 0..NotHeld /\ upAge \in 0..Hold
            BY DEF PadTypeOK
        <3> QED BY <3>1, <3>2, <3>3 DEF Later, NotHeld
    <2> QED
        BY <2>1, <2>2, <2>3, <2>4, <2>5, <2>6
        DEF PadNext, Handled, PadDrops, Receive, LoopTick, padVars
<1>3. PadTypeOK /\ HoldInv /\ [PadNext]_padVars => [~padd.asked /\ padd'.asked => upAge = Hold]_padVars
    <2> SUFFICES ASSUME PadTypeOK, HoldInv, PadNext, ~padd.asked, padd'.asked
                 PROVE  upAge = Hold
        OBVIOUS
    <2> USE PadNats
    <2>1. CASE PaddTick
        <3>1. padd.up /\ pad.select /\ HeldFor = Hold
            BY <2>1, TickOf DEF PadTypeOK
        <3>2. (padd.held = NotHeld /\ Hold = 0) \/ padd.held = Hold
            BY <3>1 DEF HeldFor
        <3>3. padd.held # NotHeld => padd.held <= upAge
            BY <3>1 DEF HoldInv
        <3>4. upAge \in 0..Hold
            BY DEF PadTypeOK
        <3> QED BY <3>2, <3>3, <3>4 DEF NotHeld
    <2>2. CASE ~PaddTick
        <3>1. padd'.asked = padd.asked \/ padd'.asked = FALSE
            BY <2>2 DEF PadTypeOK, PadNext, Handled, PadDrops, PaddDies, PaddStarts,
                        Receive, LoopTick, RobotdRestarts, Wait, NewPadd
        <3> QED BY <3>1, Zenon
    <2> QED BY <2>1, <2>2
<1> QED BY <1>1, <1>2, <1>3, PadType, PTL DEF PadSpec, HeldNotTapped
=============================================================================
