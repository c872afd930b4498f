--------------------------- MODULE UpdaterServer ---------------------------
(***************************************************************************)
(* updaterd's IPC server and its scheduler (updater/src/ipc.rs).  One task *)
(* per connection and one for the scheduler share the engine through a     *)
(* mutex that is only ever tried, never waited for.  An operation streams  *)
(* its progress through a pump task into `latest` and into a broadcast;    *)
(* the connection that started it writes the progress to its own client    *)
(* between two polls of the operation.                                     *)
(*                                                                         *)
(* What the engine does to the release store is Updater's matter: here an  *)
(* operation is the progress it reports and the way it ends.               *)
(***************************************************************************)
EXTENDS Naturals

CONSTANTS
    Conns,        \* connections to the socket
    Permitted,    \* those whose peer the PeerPolicy lets mutate
    LastRelease,  \* bound: releases are 1..LastRelease, oldest first
    Phases,       \* progress notes of an operation
    SocketLines,  \* lines a socket takes for a client that does not read
    FeedLines,    \* PROGRESS_BUFFER: notes kept for a slow subscriber
    AutoApply,    \* [auto_apply]: "off", "mandatory" or "all"
    MaxCalls      \* bound: requests and scheduler passes in a behaviour

Releases  == 1..LastRelease
Scheduler == "scheduler"
Nobody    == "nobody"

ASSUME ServerAssumption ==
    /\ Permitted \subseteq Conns
    /\ {Scheduler, Nobody} \cap Conns = {}
    /\ LastRelease \in Nat \ {0}
    /\ AutoApply \in {"off", "mandatory", "all"}
ASSUME ServerBounds ==
    {Phases, SocketLines, FeedLines} \subseteq Nat \ {0} /\ MaxCalls \in Nat

VARIABLES
    engine,     \* who holds the engine's mutex
    op,         \* the operation holding it: its release and the notes still to come
    emitted,    \* notes on their way to the pump
    unwritten,  \* notes the pump gave to the connection that runs the operation
    latest,     \* the newest note the server remembers, counted from the start
    sent,       \* the newest note broadcast
    at,         \* what each connection's task is doing
    client,     \* each client reads, does not read, or is gone
    backlog,    \* lines its socket holds unread
    cursor,     \* the last note a subscriber's receiver has passed
    seen,       \* the last note written to a subscriber
    calls,      \* requests so far
    source,     \* the release the source calls the latest
    installed,  \* the release current points at
    failed,     \* the releases the journal knows to be bad
    check,      \* the scheduler: where it is and the candidate it checked
    overtaken   \* history: source or engine changed since that check

running  == <<engine, op, emitted, unwritten>>
progress == <<latest, sent>>
sockets  == <<client, backlog>>
readers  == <<cursor, seen>>
fleet    == <<source, installed, failed>>
planning == <<check, overtaken>>
serverVars == <<running, progress, at, sockets, readers, calls, fleet, planning>>

Places == {"idle", "status", "fresh", "cached", "apply", "op", "drain", "reply",
           "subscribe", "replay", "stream"}
NoOp   == [release |-> 0, left |-> 0]
Asleep == [step |-> "sleep", candidate |-> 0]

ServerTypeOK ==
    /\ engine \in Conns \cup {Scheduler, Nobody}
    /\ op \in [release: 0..LastRelease, left: 0..Phases]
    /\ emitted \in Nat /\ unwritten \in Nat
    /\ latest \in Nat /\ sent \in Nat
    /\ at \in [Conns -> Places]
    /\ client \in [Conns -> {"reads", "stalls", "gone"}]
    /\ backlog \in [Conns -> 0..SocketLines]
    /\ cursor \in [Conns -> Nat] /\ seen \in [Conns -> Nat]
    /\ calls \in 0..MaxCalls
    /\ source \in Releases /\ installed \in Releases /\ failed \subseteq Releases
    /\ check \in [step: {"sleep", "check", "checked", "cleared", "apply"},
                  candidate: 0..LastRelease]
    /\ overtaken \in BOOLEAN

ServerInit ==
    /\ engine = Nobody /\ op = NoOp /\ emitted = 0 /\ unwritten = 0
    /\ latest = 0 /\ sent = 0
    /\ at = [c \in Conns |-> "idle"]
    /\ client = [c \in Conns |-> "reads"] /\ backlog = [c \in Conns |-> 0]
    /\ cursor = [c \in Conns |-> 0] /\ seen = [c \in Conns |-> 0]
    /\ calls = 0
    /\ source = 1 /\ installed = 1 /\ failed = {}
    /\ check = Asleep /\ overtaken = FALSE

----------------------------------------------------------------------------
(* Sockets.  A write waits while the client does not read and its socket is *)
(* full; to a client that is gone it fails at once.                         *)

Room(c) == client[c] # "stalls" \/ backlog[c] < SocketLines

WriteLine(c) ==
    /\ Room(c)
    /\ backlog' = [backlog EXCEPT ![c] = IF client[c] = "stalls" THEN @ + 1 ELSE @]

Goto(c, place) == at' = [at EXCEPT ![c] = place]

\* A task that finds its client gone ends, and so does its connection.
Onward(c, place) == IF client[c] = "gone" THEN "idle" ELSE place

\* The client stops reading, reads on, or leaves.
ClientTurns(c) ==
    /\ client[c] # "gone" /\ at[c] # "idle"
    /\ \E how \in {"reads", "stalls", "gone"} \ {client[c]} :
           client' = [client EXCEPT ![c] = how]
    /\ backlog' = [backlog EXCEPT ![c] = 0]
    /\ UNCHANGED <<running, progress, at, readers, calls, fleet, planning>>

----------------------------------------------------------------------------
(* Requests.  A connection serves one at a time.                            *)

Asks(c, call) ==
    /\ at[c] = "idle" /\ client[c] = "reads" /\ calls < MaxCalls
    /\ Goto(c, call)
    /\ calls' = calls + 1
    /\ UNCHANGED <<running, progress, sockets, readers, fleet, planning>>

Busy == engine # Nobody

\* Variant of Status: it waits for the engine.
StatusWaits(c) ==
    /\ at[c] = "status" /\ ~Busy
    /\ engine' = c /\ Goto(c, "fresh")
    /\ UNCHANGED <<op, emitted, unwritten, progress, sockets, readers, calls, fleet, planning>>

\* status takes the engine if it is free and answers from memory if it is not.
Status(c) ==
    /\ at[c] = "status"
    /\ IF Busy THEN Goto(c, "cached") /\ UNCHANGED engine
       ELSE engine' = c /\ Goto(c, "fresh")
    /\ UNCHANGED <<op, emitted, unwritten, progress, sockets, readers, calls, fleet, planning>>

\* Engine::status asks robotd for its health, holding the engine meanwhile.
StatusFresh(c) ==
    /\ at[c] = "fresh"
    /\ engine' = Nobody /\ Goto(c, "reply")
    /\ UNCHANGED <<op, emitted, unwritten, progress, sockets, readers, calls, fleet, planning>>

\* A subscriber keeps `latest` locked while it is being sent its replay.
LatestFree == \A c \in Conns : at[c] # "replay"

StatusCached(c) ==
    /\ at[c] = "cached" /\ LatestFree
    /\ Goto(c, "reply")
    /\ UNCHANGED <<running, progress, sockets, readers, calls, fleet, planning>>

Reply(c) ==
    /\ at[c] = "reply"
    /\ WriteLine(c) /\ Goto(c, "idle")
    /\ UNCHANGED <<running, progress, client, readers, calls, fleet, planning>>

----------------------------------------------------------------------------
(* An operation.                                                            *)

Starts(who) == /\ engine' = who
               /\ op' = [release |-> source, left |-> Phases]

\* Engine::apply with Target::Latest, asked for by a client.  Whether the release
\* is known to be bad is not asked.
Apply(c) ==
    /\ at[c] = "apply"
    /\ IF c \in Permitted /\ ~Busy
       THEN Starts(c) /\ Goto(c, "op")
       ELSE Goto(c, "reply") /\ UNCHANGED <<engine, op>>
    /\ UNCHANGED <<emitted, unwritten, progress, sockets, readers, calls, fleet, planning>>

\* The connection polls the operation only when it has nothing left to write; the
\* scheduler has nothing to write.
Polled == engine \in Conns => unwritten = 0 \/ client[engine] = "gone"

\* Variant of OpStep: nobody polls an operation whose client has gone.
OpStepWatched ==
    /\ engine # Nobody /\ op.left > 0 /\ Polled
    /\ engine \in Conns => client[engine] # "gone"
    /\ op' = [op EXCEPT !.left = @ - 1] /\ emitted' = emitted + 1
    /\ UNCHANGED <<engine, unwritten, progress, at, sockets, readers, calls, fleet, planning>>

OpStep ==
    /\ engine # Nobody /\ op.left > 0 /\ Polled
    /\ op' = [op EXCEPT !.left = @ - 1] /\ emitted' = emitted + 1
    /\ UNCHANGED <<engine, unwritten, progress, at, sockets, readers, calls, fleet, planning>>

\* The pump remembers a note, and then broadcasts it.
PumpRemembers ==
    /\ emitted > 0 /\ latest = sent /\ LatestFree
    /\ latest' = latest + 1 /\ emitted' = emitted - 1
    /\ UNCHANGED <<engine, op, unwritten, sent, at, sockets, readers, calls, fleet, planning>>

PumpSends ==
    /\ latest # sent
    /\ sent' = latest
    /\ unwritten' = IF engine \in Conns /\ at[engine] \in {"op", "drain"}
                    THEN unwritten + 1 ELSE unwritten
    /\ UNCHANGED <<engine, op, emitted, latest, at, sockets, readers, calls, fleet, planning>>

WriteProgress(c) ==
    /\ at[c] \in {"op", "drain"} /\ unwritten > 0
    /\ WriteLine(c)
    /\ unwritten' = unwritten - 1
    /\ UNCHANGED <<engine, op, emitted, progress, at, client, readers, calls, fleet, planning>>

\* What the operation leaves behind: the release is not applicable or the attempt
\* failed before the swap, it is installed, or it failed its gate and is known bad.
Outcome ==
    \/ UNCHANGED <<installed, failed>>
    \/ /\ op.release > installed
       /\ \/ installed' = op.release /\ failed' = failed \ {op.release}
          \/ failed' = failed \cup {op.release} /\ UNCHANGED installed

\* The operation returns and the pump is aborted: notes it had not come to are lost.
OpEnds ==
    /\ engine # Nobody /\ op.release # 0 /\ op.left = 0 /\ Polled
    /\ Outcome
    /\ op' = NoOp /\ emitted' = 0
    /\ overtaken' = (overtaken \/ (engine # Scheduler /\ check.step # "sleep"))
    /\ IF engine = Scheduler
       THEN engine' = Nobody /\ check' = Asleep /\ UNCHANGED at
       ELSE Goto(engine, "drain") /\ UNCHANGED <<engine, check>>
    /\ UNCHANGED <<unwritten, progress, sockets, readers, calls, source>>

\* The notes the pump had already handed over are written, and the engine released.
Drained(c) ==
    /\ at[c] = "drain" /\ (unwritten = 0 \/ client[c] = "gone")
    /\ engine' = Nobody /\ unwritten' = 0
    /\ Goto(c, "reply")
    /\ UNCHANGED <<op, emitted, progress, sockets, readers, calls, fleet, planning>>

----------------------------------------------------------------------------
(* Subscribers.                                                             *)

\* The receiver exists before the replay begins.
Subscribe(c) ==
    /\ at[c] = "subscribe" /\ LatestFree
    /\ cursor' = [cursor EXCEPT ![c] = sent]
    /\ Goto(c, "replay")
    /\ UNCHANGED <<running, progress, sockets, seen, calls, fleet, planning>>

Replay(c) ==
    /\ at[c] = "replay"
    /\ IF latest = 0 THEN UNCHANGED <<backlog, seen>>
       ELSE WriteLine(c) /\ seen' = [seen EXCEPT ![c] = latest]
    /\ Goto(c, Onward(c, "stream"))
    /\ UNCHANGED <<running, progress, client, cursor, calls, fleet, planning>>

\* Variant of Lagged: the subscriber starts over at the end of the broadcast.
LaggedResubscribes(c) ==
    /\ at[c] = "stream" /\ sent - cursor[c] > FeedLines
    /\ cursor' = [cursor EXCEPT ![c] = sent]
    /\ UNCHANGED <<running, progress, at, sockets, seen, calls, fleet, planning>>

\* A receiver that fell behind goes on with the oldest note still kept.
Lagged(c) ==
    /\ at[c] = "stream" /\ sent - cursor[c] > FeedLines
    /\ cursor' = [cursor EXCEPT ![c] = sent - FeedLines]
    /\ UNCHANGED <<running, progress, at, sockets, seen, calls, fleet, planning>>

Forward(c) ==
    /\ at[c] = "stream" /\ cursor[c] < sent /\ sent - cursor[c] <= FeedLines
    /\ WriteLine(c)
    /\ cursor' = [cursor EXCEPT ![c] = @ + 1]
    /\ seen' = [seen EXCEPT ![c] = cursor[c] + 1]
    /\ Goto(c, Onward(c, "stream"))
    /\ UNCHANGED <<running, progress, client, calls, fleet, planning>>

----------------------------------------------------------------------------
(* The scheduler.                                                           *)

\* Somebody publishes another release, or withdraws the latest.
Publish ==
    /\ \E r \in Releases \ {source} : source' = r
    /\ overtaken' = (overtaken \/ check.step # "sleep")
    /\ UNCHANGED <<running, progress, at, sockets, readers, calls, installed, failed, check>>

SchedWakes ==
    /\ check.step = "sleep" /\ ~Busy /\ calls < MaxCalls
    /\ engine' = Scheduler
    /\ check' = [step |-> "check", candidate |-> source]
    /\ overtaken' = FALSE
    /\ calls' = calls + 1
    /\ UNCHANGED <<op, emitted, unwritten, progress, at, sockets, readers, fleet>>

\* The source cannot be reached, has nothing newer, or the policy does not cover it.
SchedChecked ==
    /\ check.step = "check"
    /\ engine' = Nobody
    /\ \E mandatory \in BOOLEAN :
           check' = IF /\ check.candidate > installed
                       /\ AutoApply = "all" \/ (AutoApply = "mandatory" /\ mandatory)
                    THEN [check EXCEPT !.step = "checked"] ELSE Asleep
    /\ UNCHANGED <<op, emitted, unwritten, progress, at, sockets, readers, calls, fleet, overtaken>>

\* Variant of SchedGuard: the release is not looked up among the bad ones.
SchedGuardDropped ==
    /\ check.step = "checked"
    /\ check' = IF Busy THEN Asleep ELSE [check EXCEPT !.step = "cleared"]
    /\ UNCHANGED <<running, progress, at, sockets, readers, calls, fleet, overtaken>>

SchedGuard ==
    /\ check.step = "checked"
    /\ check' = IF Busy \/ check.candidate \in failed THEN Asleep
                ELSE [check EXCEPT !.step = "cleared"]
    /\ UNCHANGED <<running, progress, at, sockets, readers, calls, fleet, overtaken>>

\* apply_unattended applies the latest release, whichever that is by now.
SchedApplies ==
    /\ check.step = "cleared"
    /\ IF Busy THEN check' = Asleep /\ UNCHANGED <<engine, op>>
       ELSE Starts(Scheduler) /\ check' = [check EXCEPT !.step = "apply"]
    /\ UNCHANGED <<emitted, unwritten, progress, at, sockets, readers, calls, fleet, overtaken>>

----------------------------------------------------------------------------
Serves(c) ==
    \/ Status(c) \/ StatusFresh(c) \/ StatusCached(c) \/ Reply(c) \/ Apply(c)
    \/ WriteProgress(c) \/ Drained(c)
    \/ Subscribe(c) \/ Replay(c) \/ Lagged(c) \/ Forward(c)

ServerNext ==
    \/ \E c \in Conns : \/ \E call \in {"status", "apply", "subscribe"} : Asks(c, call)
                        \/ ClientTurns(c)
                        \/ Serves(c)
    \/ OpStep \/ OpEnds \/ PumpRemembers \/ PumpSends
    \/ Publish \/ SchedWakes \/ SchedChecked \/ SchedGuard \/ SchedApplies

ServerSpec == ServerInit /\ [][ServerNext]_serverVars

----------------------------------------------------------------------------
(* Properties. *)

\* The scheduler does not start on a release this robot already failed with, unless
\* the release it checked stopped being the latest, or somebody else's operation came
\* in between: the engine is given back after the check and the latest release is
\* looked up again (ipc.rs:320-350).
UnattendedNotKnownBad ==
    [][ (engine' = Scheduler /\ op = NoOp /\ op' # NoOp)
          => (op'.release \in failed => overtaken) ]_serverVars

\* A status request comes to its answer even while an operation is held up for good, as
\* one is by a client of its own that does not read.  The exception is a subscriber that
\* does not read its replay, which keeps `latest` locked (ipc.rs:742-757, 849).
StatusIsAnswered ==
    \A c \in Conns :
        at[c] = "status" ~> \/ at[c] = "reply"
                            \/ \E d \in Conns : at[d] = "replay" /\ client[d] = "stalls"

\* An operation ends, whatever becomes of the client that asked for it, unless that
\* client stays connected and does not read (ipc.rs:795-828).
OperationEnds ==
    \A c \in Conns :
        at[c] = "op" ~> at[c] # "op" \/ (client[c] = "stalls" /\ unwritten > 0)

\* A subscriber that has read all there is knows the newest note, whenever it came and
\* however far it fell behind (ipc.rs:844-865).
SubscriberIsCurrent ==
    \A c \in Conns :
        at[c] = "stream" /\ client[c] # "gone" /\ cursor[c] = sent /\ latest = sent
            => seen[c] = latest
=============================================================================
