---------------------------- MODULE BleTransport ----------------------------
(***************************************************************************)
(* btd: one BLE central at a time asks the robot's services (btd/src/      *)
(* bluez.rs, session.rs, upstream.rs).  Each subscription of the central   *)
(* makes a session and a pump of its own; one write slot, which all of     *)
(* them share, says where the chunks the central writes go.  A session     *)
(* reassembles lines, checks the PIN and forwards each line on the         *)
(* connection of its lane; what the services say comes back through the    *)
(* session to the pump, and from the pump to the central.                  *)
(*                                                                         *)
(* A request is written as two chunks, an answer is notified as one.       *)
(***************************************************************************)
EXTENDS Naturals, Sequences

CONSTANTS
    LastSession,  \* bound: subscriptions of a behaviour
    LastRequest,  \* bound: requests of a behaviour
    Scripts,      \* bound: what the requests of a behaviour ask for, in their order
    Inbound,      \* QUEUE, chunks written and not yet read by the session
    Outbound,     \* QUEUE, answers not yet taken by the pump, or by the session
    PinAttempts,  \* PIN_ATTEMPTS
    MaxNotes,     \* bound: progress notes of operations
    MaxOutages    \* bound: restarts of the services

Sessions == 1..LastSession
Requests == 1..LastRequest
NoSlot   == 0
Note     == 0            \* a progress note, among the answers
Nothing  == LastRequest + 1
Kinds    == {"pin", "query", "operation"}
Lanes    == {"prompt", "operation"}

ASSUME BleAssumption ==
    {LastSession, LastRequest, Inbound, Outbound, PinAttempts} \subseteq Nat \ {0}
ASSUME ScriptsAssumption == Scripts \subseteq [Requests -> Kinds]
ASSUME BleBounds == {MaxNotes, MaxOutages} \subseteq Nat

VARIABLES
    slot,     \* the session whose queue takes the central's writes
    newest,   \* the last subscription
    here,     \* the central is connected and holds that subscription
    writing,  \* the request the central writes, and the half it comes to
    kind,     \* what each request asks for
    owner,    \* history: the session each request was written to
    fate,     \* history: what became of each request
    garbled,  \* history: a session dispatched a line nobody wrote
    sess,     \* the session and the pump of each subscription
    notes,    \* progress notes so far
    outages   \* restarts of the services so far

centralVars == <<newest, here, writing, kind, owner>>
bleVars == <<slot, centralVars, fate, garbled, sess, notes, outages>>

Chunk  == [req: Requests, half: {"head", "tail"}]
Line   == Requests \cup {Note, Nothing}
Fates  == {"unsent", "sent", "answered", "lost"}

Unborn == [run |-> "unborn", pump |-> "ended", carries |-> Nothing,
           inq |-> <<>>, held |-> <<>>, authed |-> FALSE, tries |-> PinAttempts,
           say |-> Nothing, replies |-> <<>>, outq |-> <<>>,
           lane |-> [l \in Lanes |-> <<>>], open |-> {}, dead |-> {}]

BleTypeOK ==
    /\ slot \in Sessions \cup {NoSlot} /\ newest \in 0..LastSession
    /\ here \in BOOLEAN /\ garbled \in BOOLEAN
    /\ writing \in [req: 1..LastRequest + 1, half: {"head", "tail"}]
    /\ kind \in [Requests -> Kinds] /\ owner \in [Requests -> 0..LastSession]
    /\ fate \in [Requests -> Fates]
    /\ notes \in 0..MaxNotes /\ outages \in 0..MaxOutages
    /\ \A s \in Sessions :
           /\ sess[s].run \in {"unborn", "runs", "ended"}
           /\ sess[s].pump \in {"waits", "notifies", "ended"}
           /\ sess[s].carries \in Line /\ sess[s].say \in Line
           /\ sess[s].inq \in Seq(Chunk) /\ Len(sess[s].inq) <= Inbound
           /\ sess[s].held \in Seq(Chunk)
           /\ sess[s].authed \in BOOLEAN /\ sess[s].tries \in 0..PinAttempts
           /\ sess[s].replies \in Seq(Line) /\ Len(sess[s].replies) <= Outbound
           /\ sess[s].outq \in Seq(Line) /\ Len(sess[s].outq) <= Outbound
           /\ sess[s].lane \in [Lanes -> Seq(Requests)]
           /\ sess[s].dead \subseteq sess[s].open /\ sess[s].open \subseteq Lanes

BleInit ==
    /\ slot = NoSlot /\ newest = 0 /\ here = FALSE
    /\ writing = [req |-> 1, half |-> "head"]
    /\ kind \in Scripts
    /\ owner = [r \in Requests |-> 0]
    /\ fate = [r \in Requests |-> "unsent"]
    /\ garbled = FALSE
    /\ sess = [s \in Sessions |-> Unborn]
    /\ notes = 0 /\ outages = 0

----------------------------------------------------------------------------
(* The central and the write slot.                                          *)

\* A request given up halfway is not taken up again: a central that comes back
\* begins with the next.
NextRequest == [req |-> writing.req + 1, half |-> "head"]

\* Variant of Fresh: the reassembler outlives the subscription.
FreshKeepsBytes(s) ==
    [Unborn EXCEPT !.run = "runs", !.pump = "waits",
                   !.held = IF newest = 0 THEN <<>> ELSE sess[newest].held]

\* A fresh session, so nothing from a previous central can leak into this one.
Fresh(s) == [Unborn EXCEPT !.run = "runs", !.pump = "waits"]

\* The central subscribes: for the first time, again after it was gone, or anew
\* while bluer still takes it to be subscribed.
Subscribes ==
    /\ newest < LastSession
    /\ newest' = newest + 1 /\ here' = TRUE
    /\ slot' = newest'
    /\ sess' = [sess EXCEPT ![newest'] = Fresh(newest')]
    /\ writing' = IF writing.half = "tail" THEN NextRequest ELSE writing
    /\ UNCHANGED <<kind, owner, fate, garbled, notes, outages>>

Departs ==
    /\ here /\ here' = FALSE
    /\ UNCHANGED <<slot, newest, writing, kind, owner, fate, garbled, sess, notes, outages>>

Written ==
    LET r == writing.req IN
    /\ owner' = [owner EXCEPT ![r] = slot]
    /\ IF writing.half = "head"
       THEN writing' = [writing EXCEPT !.half = "tail"] /\ UNCHANGED fate
       ELSE writing' = NextRequest /\ fate' = [fate EXCEPT ![r] = "sent"]

MayWrite == /\ here /\ writing.req \in Requests
            /\ slot # NoSlot /\ sess[slot].run = "runs"

\* Variant of Write: the queue takes whatever the central writes.
WriteUnbounded ==
    /\ MayWrite /\ Written
    /\ sess' = [sess EXCEPT ![slot].inq = Append(@, writing)]
    /\ UNCHANGED <<slot, newest, here, kind, garbled, notes, outages>>

\* A chunk is queued or refused: a refusal changes nothing, and the central writes
\* the same chunk again.
Write ==
    /\ MayWrite /\ Len(sess[slot].inq) < Inbound
    /\ Written
    /\ sess' = [sess EXCEPT ![slot].inq = Append(@, writing)]
    /\ UNCHANGED <<slot, newest, here, kind, garbled, notes, outages>>

----------------------------------------------------------------------------
(* The session.                                                             *)

\* Variant of LaneOf: one connection to a service serves all calls.
LaneShared(r) == "prompt"

\* Call::destination: what changes the robot has a connection of its own.
LaneOf(r) == IF kind[r] = "operation" THEN "operation" ELSE "prompt"

\* One whole line: answered here (the PIN, a call before it, a service that is not
\* there), or forwarded.
Dispatch(s, r, x) ==
    LET l == LaneOf(r) IN
    IF kind[r] = "pin"
    THEN \E right \in BOOLEAN, told \in BOOLEAN :
             sess' = [sess EXCEPT ![s] =
                 [x EXCEPT !.say = r,
                           !.authed = @ \/ (told /\ right),
                           !.tries = IF told /\ ~right THEN @ - 1 ELSE @]]
    ELSE IF ~x.authed
    THEN sess' = [sess EXCEPT ![s] = [x EXCEPT !.say = r]]
    ELSE IF l \in x.dead
    THEN sess' = [sess EXCEPT ![s] = [x EXCEPT !.say = r, !.dead = @ \ {l}, !.open = @ \ {l}]]
    ELSE sess' = [sess EXCEPT ![s] = [x EXCEPT !.open = @ \cup {l},
                                               !.lane[l] = Append(@, r)]]

Idle(s) == sess[s].run = "runs" /\ sess[s].say = Nothing

\* Reassembler::push, and the dispatch of the line the chunk completes.
TakeChunk(s) ==
    /\ Idle(s) /\ sess[s].inq # <<>>
    /\ LET chunk == Head(sess[s].inq)
           line  == Append(sess[s].held, chunk)
           x     == [sess[s] EXCEPT !.inq = Tail(@)]
           r     == chunk.req
       IN  IF chunk.half = "head"
           THEN /\ sess' = [sess EXCEPT ![s] = [x EXCEPT !.held = line]]
                /\ UNCHANGED garbled
           ELSE IF line # <<[req |-> r, half |-> "head"], chunk>>
           THEN /\ sess' = [sess EXCEPT ![s] = [x EXCEPT !.held = <<>>, !.say = r]]
                /\ garbled' = TRUE
           ELSE /\ Dispatch(s, r, [x EXCEPT !.held = <<>>])
                /\ UNCHANGED garbled
    /\ UNCHANGED <<slot, centralVars, fate, notes, outages>>

TakeReply(s) ==
    /\ Idle(s) /\ sess[s].replies # <<>>
    /\ sess' = [sess EXCEPT ![s].say = Head(sess[s].replies), ![s].replies = Tail(@)]
    /\ UNCHANGED <<slot, centralVars, fate, garbled, notes, outages>>

\* send_line waits for room.  The last wrong PIN ends the session after its answer,
\* and a pump that has ended ends it at once.
Say(s) ==
    /\ sess[s].run = "runs" /\ sess[s].say # Nothing
    /\ IF sess[s].pump = "ended" THEN sess' = [sess EXCEPT ![s].run = "ended"]
       ELSE /\ Len(sess[s].outq) < Outbound
            /\ sess' = [sess EXCEPT ![s].outq = Append(@, sess[s].say),
                                    ![s].say = Nothing,
                                    ![s].run = IF sess[s].tries = 0 THEN "ended" ELSE @]
    /\ UNCHANGED <<slot, centralVars, fate, garbled, notes, outages>>

----------------------------------------------------------------------------
(* The pump of a subscription.                                              *)

Subscribed(s) == here /\ newest = s

\* Variant of Release: the slot is cleared, whoever holds it.
ReleaseBlind(s) == NoSlot

\* The slot is cleared only by the session it belongs to.
Release(s) == IF slot = s THEN NoSlot ELSE slot

PumpEnds(s) ==
    /\ sess' = [sess EXCEPT ![s].pump = "ended", ![s].run = "ended", ![s].carries = Nothing]
    /\ slot' = Release(s)

\* The central is gone, or the session is and all it said is delivered.
PumpStops(s) ==
    /\ sess[s].pump = "waits"
    /\ ~Subscribed(s) \/ (sess[s].run = "ended" /\ sess[s].outq = <<>>)
    /\ PumpEnds(s)
    /\ UNCHANGED <<centralVars, fate, garbled, notes, outages>>

PumpTakes(s) ==
    /\ sess[s].pump = "waits" /\ Subscribed(s) /\ sess[s].outq # <<>>
    /\ sess' = [sess EXCEPT ![s].pump = "notifies", ![s].carries = Head(sess[s].outq),
                            ![s].outq = Tail(@)]
    /\ UNCHANGED <<slot, centralVars, fate, garbled, notes, outages>>

\* A notify takes as long as BlueZ takes to deliver it or to give up; the central may
\* be back under another subscription by then.
PumpNotified(s) ==
    LET r == sess[s].carries IN
    /\ sess[s].pump = "notifies"
    /\ IF Subscribed(s)
       THEN /\ fate' = IF r \in Requests THEN [fate EXCEPT ![r] = "answered"] ELSE fate
            /\ sess' = [sess EXCEPT ![s].pump = "waits", ![s].carries = Nothing]
            /\ UNCHANGED slot
       ELSE PumpEnds(s) /\ UNCHANGED fate
    /\ UNCHANGED <<centralVars, garbled, notes, outages>>

----------------------------------------------------------------------------
(* The services.  Each serves one connection one request at a time.         *)

\* The reader of a connection drops a line the session has no room for.
Hears(s, x, line) ==
    IF Len(x.replies) < Outbound THEN [x EXCEPT !.replies = Append(@, line)] ELSE x

ServiceAnswers(s, l) ==
    /\ sess[s].run = "runs" /\ sess[s].lane[l] # <<>>
    /\ LET r == Head(sess[s].lane[l])
           x == [sess[s] EXCEPT !.lane[l] = Tail(@)]
       IN  /\ sess' = [sess EXCEPT ![s] = Hears(s, x, r)]
           /\ fate' = IF Len(x.replies) < Outbound THEN fate ELSE [fate EXCEPT ![r] = "lost"]
    /\ UNCHANGED <<slot, centralVars, garbled, notes, outages>>

Fronts(s, l, k) == sess[s].lane[l] # <<>> /\ kind[Head(sess[s].lane[l])] = k

QueryAnswers(s, l)   == Fronts(s, l, "query") /\ ServiceAnswers(s, l)
OperationDone(s, l)  == Fronts(s, l, "operation") /\ ServiceAnswers(s, l)

Progresses(s, l) ==
    /\ Fronts(s, l, "operation") /\ sess[s].run = "runs" /\ notes < MaxNotes
    /\ sess' = [sess EXCEPT ![s] = Hears(s, sess[s], Note)]
    /\ notes' = notes + 1
    /\ UNCHANGED <<slot, centralVars, fate, garbled, outages>>

\* The services restart: what they were asked is never answered, and the connections
\* stay in the pool until the next write to them fails.
Outage ==
    /\ outages < MaxOutages /\ outages' = outages + 1
    /\ fate' = [r \in Requests |->
                   IF \E s \in Sessions, l \in Lanes :
                          \E i \in DOMAIN sess[s].lane[l] : sess[s].lane[l][i] = r
                   THEN "lost" ELSE fate[r]]
    /\ sess' = [s \in Sessions |-> [sess[s] EXCEPT !.lane = [l \in Lanes |-> <<>>],
                                                   !.dead = sess[s].open]]
    /\ UNCHANGED <<slot, centralVars, garbled, notes>>

----------------------------------------------------------------------------
SessionSteps(s) == TakeChunk(s) \/ TakeReply(s) \/ Say(s)
PumpSteps(s)    == PumpStops(s) \/ PumpTakes(s) \/ PumpNotified(s)

BleNext ==
    \/ Subscribes \/ Departs \/ Write \/ Outage
    \/ \E s \in Sessions :
           \/ SessionSteps(s) \/ PumpSteps(s)
           \/ \E l \in Lanes : QueryAnswers(s, l) \/ OperationDone(s, l) \/ Progresses(s, l)

BleSpec == BleInit /\ [][BleNext]_bleVars

----------------------------------------------------------------------------
(* Properties. *)

\* Every line a session dispatches is one the central wrote, whole, although a central
\* may leave in the middle of one, come back under a new subscription before the old
\* one has ended, and have chunks refused (bluez.rs:361-392, 416-424).
NoGarbledLine == ~garbled

\* The slot belongs to the newest subscription for as long as its pump runs: the end
\* of an older one, however late, does not take it away (bluez.rs:463-486).
SlotIsNewest == newest # 0 /\ sess[newest].pump # "ended" => slot = newest

\* A query the central got through to the session is answered while an operation runs,
\* for as long as it may: no fairness of operations is assumed.  Its answer is lost only
\* to a service that restarts, to a central too slow to take what it is sent, or with
\* the session (upstream.rs:156-233, duck-ipc-proto/src/lib.rs:835-932).
QueryIsAnswered ==
    \A r \in Requests :
        (kind[r] = "query" /\ fate[r] = "sent")
            ~> \/ fate[r] \in {"answered", "lost"}
               \/ ~Subscribed(owner[r])
               \/ owner[r] \in Sessions /\ sess[owner[r]].run = "ended"
=============================================================================
