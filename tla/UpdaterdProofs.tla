--------------------------- MODULE UpdaterdProofs ---------------------------
(***************************************************************************)
(* What the run of the daemons checks of updaterd around its engine - the  *)
(* restarts it owes and its server - for any services, releases and        *)
(* connections, and any number of operations, failures and requests.       *)
(***************************************************************************)
EXTENDS UpdaterServer, UnitRestarts, TLAPS

----------------------------------------------------------------------------
(* The restarts.                                                            *)

Work == [step: Steps, kind: Procedures, todo: SUBSET Services]

\* What an operation is about while it runs: it can be reverted until its gate, the
\* services it sees to are those restarted in place, and at rest it sees to none.
WorkInv ==
    /\ work.step \in {"restart", "gate"} => trial # NoTrial /\ work.kind # "recover"
    /\ work.step \in {"restart", "revert"} => work.todo \subseteq Plain
    /\ work.step \in {"serve", "gate"} => work.todo = {}

\* A service on another release is excused, has a timer, or is among those still to be
\* seen to; but for updaterd and btd before the gate, and all of them before a start
\* has looked.
Covered ==
    \A u \in Services : Stale(u) =>
        \/ u \in excused \cup timers \cup work.todo
        \/ work.step = "recover"
        \/ work.step \in {"restart", "gate"} /\ u \in Deferred

UnitInv == WorkInv /\ Covered

LEMMA UnitNats == LastVersion \in Nat /\ MaxOperations \in Nat
                     /\ MaxFailures \in Nat /\ MaxShocks \in Nat /\ 1 \in Versions
                     /\ NoTrial \notin Versions /\ Down \notin Versions
BY VersionsAssumption, UnitBounds DEF Versions, NoTrial, Down

\* Serving is what there is to do when there is nothing to do.
LEMMA ServingType == Serving \in Work /\ Serving.step = "serve" /\ Serving.todo = {}
BY DEF Serving, Work, Steps, Procedures

\* A list of services to see to, once updaterd serves.
LEMMA ServingWith ==
    ASSUME NEW step \in Steps, NEW todo \in SUBSET Services
    PROVE  /\ [Serving EXCEPT !.step = step, !.todo = todo] \in Work
           /\ [Serving EXCEPT !.step = step, !.todo = todo].step = step
           /\ [Serving EXCEPT !.step = step, !.todo = todo].todo = todo
           /\ [Serving EXCEPT !.step = step].step = step
           /\ [Serving EXCEPT !.step = step].todo = {}
<1>1. ASSUME NEW x \in Work
      PROVE  /\ [x EXCEPT !.step = step, !.todo = todo] \in Work
             /\ [x EXCEPT !.step = step, !.todo = todo].step = step
             /\ [x EXCEPT !.step = step, !.todo = todo].todo = todo
             /\ [x EXCEPT !.step = step].step = step
             /\ [x EXCEPT !.step = step].todo = x.todo
    BY DEF Work
<1> QED BY <1>1, ServingType

\* Every variable has its type, given that what is reverted has a trial.
LEMMA UnitTypeStep ==
    ASSUME UnitTypeOK, WorkInv, [UnitNext]_unitVars
    PROVE  UnitTypeOK'
<1> USE UnitNats DEF UnitTypeOK, counters, At
<1>0. work \in Work /\ \A u \in Deferred : u \in Services
    BY DEF Work, Services
<1>1. ASSUME NEW u \in Services, Started(u)
      PROVE  runs' \in [Services -> Versions \cup {Down}] /\ excused' \subseteq Services
    BY <1>1 DEF Started
<1>2. ASSUME NEW u \in Services, NotStarted(u)
      PROVE  runs' \in [Services -> Versions \cup {Down}] /\ failures' \in 0..MaxFailures
    BY <1>2 DEF NotStarted
<1>3. ASSUME NEW k \in Procedures, Reverts(k), trial # NoTrial
      PROVE  /\ current' \in Versions /\ trial' \in Versions \cup {NoTrial}
             /\ work' \in Work /\ excused' \subseteq Services
    BY <1>3 DEF Reverts, Work, Steps, Services
<1>4. ASSUME NEW u \in Services, Begins(u) PROVE work' \in Work
    BY <1>0, <1>4 DEF Begins, Work, Serving, Steps, Procedures
<1>5. AfterRevert \in Work
    BY DEF AfterRevert, Work, Serving, Steps, Procedures, Shipped
<1>6. work.kind \in Procedures /\ work.todo \subseteq Services
    BY <1>0 DEF Work
<1>7. ASSUME NEW w \in Work, work' = w PROVE work' \in [step: Steps, kind: Procedures, todo: SUBSET Services]
    BY <1>7 DEF Work
<1>8. CASE \E k \in Procedures : Swap(k)
    BY <1>8 DEF Swap, Steps, Services
<1>9. CASE \E step \in {"restart", "revert"} : InPlace(step)
    <2>1. PICK step \in {"restart", "revert"}, u \in work.todo : 
              Started(u) /\ work' = [work EXCEPT !.todo = @ \ {u}] /\ InPlace(step)
        BY <1>9 DEF InPlace
    <2>2. work' \in Work
        BY <1>0, <2>1 DEF Work
    <2> QED BY <1>1, <1>6, <2>1, <2>2 DEF InPlace, Work
<1>10. CASE ActionFails
    <2>1. PICK u \in work.todo : NotStarted(u)
        BY <1>10 DEF ActionFails
    <2>2. trial # NoTrial
        BY <1>10 DEF ActionFails, WorkInv
    <2>3. CASE Reverts("apply")
        BY <1>2, <1>3, <1>6, <1>10, <2>1, <2>2, <2>3 DEF ActionFails, Work, Procedures
    <2>4. CASE /\ trial' = NoTrial /\ work' = Serving
               /\ excused' = excused \cup work.todo \cup Deferred
               /\ UNCHANGED current
        BY <1>0, <1>2, <1>6, <1>10, <2>1, <2>4, ServingType DEF ActionFails, Work
    <2> QED BY <1>10, <2>3, <2>4 DEF ActionFails
<1>11. CASE ActionDone
    BY <1>11 DEF ActionDone, Steps
<1>12. CASE GatePasses
    BY <1>0, <1>6, <1>12 DEF GatePasses, Steps, OwedBy
<1>13. CASE GateFails
    <2>1. trial # NoTrial
        BY <1>13 DEF GateFails, WorkInv
    <2> QED BY <1>3, <1>6, <1>13, <2>1 DEF GateFails, Work
<1>14. CASE RevertFails
    <2>1. PICK u \in work.todo : NotStarted(u)
        BY <1>14 DEF RevertFails
    <2> QED BY <1>2, <1>5, <1>6, <1>14, <2>1 DEF RevertFails, Work
<1>15. CASE RevertDone
    BY <1>5, <1>15 DEF RevertDone, Work
<1>16. CASE AlreadyCurrent
    <2> DEFINE stale == {u \in Services : Stale(u)}
    <2>1. stale \in SUBSET Services
        OBVIOUS
    <2> HIDE DEF stale
    <2>2. [Serving EXCEPT !.step = "defer", !.todo = stale] \in Work
        BY <2>1, ServingWith DEF Steps
    <2>3. work' \in Work
        BY <1>16, <2>2 DEF AlreadyCurrent, stale
    <2>4. /\ operations' \in 0..MaxOperations /\ excused' = {}
          /\ UNCHANGED <<current, trial, runs, timers, failures, shocks>>
        BY <1>16 DEF AlreadyCurrent
    <2> QED BY <2>3, <2>4 DEF Work
<1>17. CASE Defer
    BY <1>6, <1>17 DEF Defer
<1>18. CASE Replied
    BY <1>18, ServingType DEF Replied, Work
<1>19. ASSUME NEW u \in Services, Fires(u) PROVE UnitTypeOK'
    BY <1>1, <1>4, <1>19 DEF Fires, Work
<1>20. ASSUME NEW u \in Services, Respawns(u) PROVE UnitTypeOK'
    BY <1>1, <1>4, <1>20 DEF Respawns, Shock, Work
<1>21. ASSUME NEW u \in Services, Stopped(u) PROVE UnitTypeOK'
    BY <1>21 DEF Stopped, Shock
<1>22. ASSUME NEW u \in Services, Reconcile(u) PROVE UnitTypeOK'
    <2>1. work' \in Work
        BY <1>0, <1>22 DEF Reconcile, Work
    <2> QED BY <1>1, <1>2, <1>22, <2>1 DEF Reconcile, Work
<1>23. CASE Reboots
    <2>1. work' \in Work
        BY <1>4, <1>23 DEF Reboots, Services, Deferred
    <2> QED BY <1>23, <2>1 DEF Reboots, Shock, Work
<1>24. CASE RecoverKeeps
    BY <1>24 DEF RecoverKeeps, Serving, Steps, Procedures, Shipped
<1>25. CASE RecoverReverts
    BY <1>3, <1>25 DEF RecoverReverts, Work, Procedures
<1>26. CASE Reconciled
    BY <1>26, ServingType DEF Reconciled, Work
<1>27. CASE UNCHANGED unitVars
    BY <1>27 DEF unitVars
<1> QED
    BY <1>8, <1>9, <1>10, <1>11, <1>12, <1>13, <1>14, <1>15, <1>16, <1>17, <1>18, <1>19,
       <1>20, <1>21, <1>22, <1>23, <1>24, <1>25, <1>26, <1>27 DEF UnitNext

\* The step that a restart, a stop or a boot takes covers what it leaves behind.
LEMMA UnitInvStep ==
    ASSUME UnitTypeOK, UnitInv, [UnitNext]_unitVars
    PROVE  UnitInv'
<1> USE UnitNats DEF UnitInv, WorkInv, Covered, At
<1>0. work \in Work /\ runs \in [Services -> Versions \cup {Down}] /\ Deferred \subseteq Services
    BY DEF UnitTypeOK, Work, Services
<1>00. /\ work.step \in Steps /\ work.kind \in Procedures
       /\ Procedures = {"apply", "select", "rollback", "recover"}
       /\ work.todo \subseteq Services
    BY <1>0 DEF Work, Procedures
<1>1. ASSUME NEW u \in Services, Started(u)
      PROVE  /\ runs'[u] = current /\ excused' = excused \ {u}
             /\ \A v \in Services : v # u => runs'[v] = runs[v]
    BY <1>0, <1>1 DEF Started
<1>2. ASSUME NEW u \in Services, NotStarted(u)
      PROVE  /\ runs'[u] \in {runs[u], Down}
             /\ \A v \in Services : v # u => runs'[v] = runs[v]
    BY <1>0, <1>2 DEF NotStarted
<1>8. CASE \E k \in Procedures : Swap(k)
    BY <1>00, <1>8 DEF Swap, Services, UnitTypeOK
<1>9. CASE \E step \in {"restart", "revert"} : InPlace(step)
    <2>1. PICK step \in {"restart", "revert"}, u \in work.todo : 
              Started(u) /\ work' = [work EXCEPT !.todo = @ \ {u}] /\ InPlace(step)
        BY <1>9 DEF InPlace
    <2>2. /\ work'.step = work.step /\ work'.kind = work.kind /\ work'.todo = work.todo \ {u}
          /\ work.step = step /\ UNCHANGED <<current, trial, timers>>
        BY <1>0, <2>1 DEF InPlace, Work
    <2> QED BY <1>1, <1>00, <2>1, <2>2 DEF Stale
<1>3. ASSUME NEW k \in Procedures, Reverts(k), trial # NoTrial,
              \A u \in Services : u \in Plain \/ runs'[u] \in {runs[u], Down}
      PROVE  UnitInv'
    BY <1>3 DEF Reverts, Stale, Services
<1>4. ASSUME NEW u \in Services, Begins(u), UNCHANGED <<current, trial>>,
             \A v \in Services : Stale(v)' =>
                 v # u /\ Stale(v) /\ (v \in excused \cup timers => v \in (excused \cup timers)')
      PROVE  UnitInv'
    <2>1. CASE u = Updaterd
        <3>1. work'.step = "recover" /\ work'.todo = {}
            BY <1>4, <2>1, ServingWith DEF Begins, Steps
        <3> QED BY <3>1
    <2>2. CASE u # Updaterd
        BY <1>4, <2>2 DEF Begins
    <2> QED BY <2>1, <2>2
<1>10. CASE ActionFails
    <2>1. PICK u \in work.todo : NotStarted(u)
        BY <1>10 DEF ActionFails
    <2>2. /\ trial # NoTrial /\ u \in Plain /\ u \in Services
          /\ work.todo \subseteq Plain /\ UNCHANGED timers
        BY <1>00, <1>10, <2>1 DEF ActionFails
    <2>3. CASE Reverts("apply")
        BY <1>2, <1>00, <1>3, <2>1, <2>2, <2>3
    <2>4. CASE /\ trial' = NoTrial /\ work' = Serving
               /\ excused' = excused \cup work.todo \cup Deferred
               /\ UNCHANGED current
        BY <1>2, <1>10, <2>1, <2>2, <2>4, ServingType DEF ActionFails, Stale
    <2> QED BY <1>10, <2>3, <2>4 DEF ActionFails
<1>11. CASE ActionDone
    BY <1>0, <1>11 DEF ActionDone, Work, Stale
<1>12. CASE GatePasses
    BY <1>0, <1>00, <1>12 DEF GatePasses, OwedBy, Work, Stale
<1>13. CASE GateFails
    BY <1>00, <1>3, <1>13 DEF GateFails
<1>5. \/ AfterRevert = Serving
      \/ AfterRevert.step = "reconcile" /\ AfterRevert.todo = Services
    <2>1. "reconcile" \in Steps /\ Services \in SUBSET Services
        BY DEF Steps
    <2>2. [Serving EXCEPT !.step = "reconcile", !.todo = Services].step = "reconcile"
          /\ [Serving EXCEPT !.step = "reconcile", !.todo = Services].todo = Services
        BY <2>1, ServingWith, ZenonT(40)
    <2> QED BY <2>2 DEF AfterRevert, Shipped
<1>14. CASE RevertFails
    <2>1. PICK u \in work.todo : NotStarted(u)
        BY <1>14 DEF RevertFails
    <2> QED BY <1>2, <1>00, <1>5, <1>14, <2>1, ServingType DEF RevertFails, Stale
<1>15. CASE RevertDone
    BY <1>5, <1>15, ServingType DEF RevertDone, Stale
<1>16. CASE AlreadyCurrent
    <2> DEFINE stale == {u \in Services : Stale(u)}
    <2>1. stale \in SUBSET Services /\ work' = [Serving EXCEPT !.step = "defer", !.todo = stale]
        BY <1>16 DEF AlreadyCurrent
    <2>2. \A u \in Services : Stale(u) => u \in stale
        OBVIOUS
    <2> HIDE DEF stale
    <2>3. work'.step = "defer" /\ work'.todo = stale
        BY <2>1, ServingWith DEF Steps
    <2> QED BY <1>16, <2>2, <2>3 DEF AlreadyCurrent, Stale
<1>17. CASE Defer
    <2>1. PICK u \in work.todo :
              /\ work' = [work EXCEPT !.todo = @ \ {u}]
              /\ u \in (timers \cup excused)'
              /\ timers \subseteq timers' /\ excused \subseteq excused'
        BY <1>17 DEF Defer
    <2>2. work'.step = "defer" /\ work'.todo = work.todo \ {u} /\ UNCHANGED <<current, runs>>
        BY <1>0, <1>17, <2>1 DEF Defer, Work
    <2> QED BY <1>17, <2>1, <2>2 DEF Defer, Stale
<1>18. CASE Replied
    BY <1>18, ServingType DEF Replied, Stale
<1>19. ASSUME NEW u \in Services, Fires(u) PROVE UnitInv'
    <2>1. timers' = timers \ {u} /\ UNCHANGED <<current, trial>>
        BY <1>19 DEF Fires
    <2>2. CASE Started(u) /\ Begins(u)
        BY <1>1, <1>4, <2>1, <2>2 DEF Stale
    <2>3. CASE excused' = excused \cup {u} /\ UNCHANGED <<runs, work>>
        BY <2>1, <2>3 DEF Stale
    <2> QED BY <1>19, <2>2, <2>3 DEF Fires
<1>20. ASSUME NEW u \in Services, Respawns(u) PROVE UnitInv'
    BY <1>1, <1>4, <1>20 DEF Respawns, Stale
<1>21. ASSUME NEW u \in Services, Stopped(u) PROVE UnitInv'
    BY <1>0, <1>21 DEF Stopped, Stale
<1>22. ASSUME NEW u \in Services, Reconcile(u) PROVE UnitInv'
    <2>1. /\ work.step = "reconcile" /\ work'.step = "reconcile" /\ work'.todo = work.todo \ {u}
          /\ UNCHANGED <<current, trial, timers>>
        BY <1>0, <1>22 DEF Reconcile, Work
    <2>2. CASE ~Stale(u) /\ excused' = excused \ {u} /\ UNCHANGED runs
        BY <2>1, <2>2 DEF Stale
    <2>3. CASE excused' = excused \cup {u} /\ UNCHANGED runs
        BY <2>1, <2>3 DEF Stale
    <2>4. CASE Started(u)
        BY <1>1, <2>1, <2>4 DEF Stale
    <2>5. CASE NotStarted(u) /\ excused' = excused \cup {u}
        BY <1>2, <2>1, <2>5 DEF Stale
    <2> QED BY <1>22, <2>2, <2>3, <2>4, <2>5 DEF Reconcile
<1>23. CASE Reboots
    <2>1. \A u \in Services : ~Stale(u)'
        BY <1>23 DEF Reboots, Stale
    <2>2. Updaterd \in Services
        BY <1>0 DEF Deferred
    <2> QED BY <1>4, <1>23, <2>1, <2>2 DEF Reboots
<1>24. CASE RecoverKeeps
    <2>1. work'.step = "reconcile" /\ work'.todo = Services
        BY <1>24, ServingWith DEF RecoverKeeps, Steps, Shipped
    <2> QED BY <2>1
<1>25. CASE RecoverReverts
    BY <1>3, <1>25 DEF RecoverReverts, Procedures
<1>26. CASE Reconciled
    BY <1>26, ServingType DEF Reconciled, Stale
<1>27. CASE UNCHANGED unitVars
    BY <1>27 DEF unitVars, Stale
<1> QED
    BY <1>8, <1>9, <1>10, <1>11, <1>12, <1>13, <1>14, <1>15, <1>16, <1>17, <1>18, <1>19,
       <1>20, <1>21, <1>22, <1>23, <1>24, <1>25, <1>26, <1>27 DEF UnitNext

LEMMA UnitInvInit == UnitInit => UnitTypeOK /\ UnitInv
<1> SUFFICES ASSUME UnitInit PROVE UnitTypeOK /\ UnitInv
    OBVIOUS
<1>1. UnitTypeOK
    BY UnitNats, ServingType DEF UnitInit, UnitTypeOK, Work
<1>2. UnitInv
    BY ServingType DEF UnitInit, UnitInv, WorkInv, Covered, Stale
<1> QED BY <1>1, <1>2

\* Every variable of the restarts has its type.
THEOREM UnitType == UnitSpec => []UnitTypeOK
BY UnitInvInit, UnitTypeStep, UnitInvStep, PTL DEF UnitSpec, UnitInv

\* A robot at rest runs the active release in every daemon that runs, but for the
\* restarts the code leaves owed (StaleIsExcused): what an operation, a crash or a timer
\* leaves behind is always covered by a timer, a list still being worked off, or an excuse.
THEOREM RobotRunsTheActive == UnitSpec => []StaleIsExcused
<1>1. UnitTypeOK /\ UnitInv /\ [UnitNext]_unitVars => UnitTypeOK' /\ UnitInv'
    BY UnitTypeStep, UnitInvStep DEF UnitInv
<1>2. UnitInv => StaleIsExcused
    BY DEF UnitInv, WorkInv, Covered, StaleIsExcused, Settled, At
<1> QED BY <1>1, <1>2, UnitInvInit, PTL DEF UnitSpec

----------------------------------------------------------------------------
(* The server.                                                              *)

LEMMA ServerNats ==
    /\ LastRelease \in Nat /\ Phases \in Nat /\ SocketLines \in Nat /\ FeedLines \in Nat
    /\ MaxCalls \in Nat /\ Phases > 0 /\ SocketLines > 0 /\ FeedLines > 0 /\ LastRelease > 0
    /\ Releases = 1..LastRelease
    /\ Scheduler \notin Conns /\ Nobody \notin Conns /\ Scheduler # Nobody
BY ServerAssumption, ServerBounds DEF Releases, Scheduler, Nobody

\* What a write to a socket changes.
LEMMA WriteLineType ==
    ASSUME ServerTypeOK, NEW c \in Conns, WriteLine(c)
    PROVE  backlog' \in [Conns -> 0..SocketLines]
<1>1. backlog[c] \in 0..SocketLines
    BY DEF ServerTypeOK
<1>2. (IF client[c] = "stalls" THEN backlog[c] + 1 ELSE backlog[c]) \in 0..SocketLines
    BY <1>1, ServerNats DEF WriteLine, Room
<1> QED BY <1>2 DEF WriteLine, ServerTypeOK

\* What the server's tasks keep of its variables' types.
LEMMA ServerTypeStep ==
    ASSUME ServerTypeOK, [ServerNext]_serverVars
    PROVE  ServerTypeOK'
<1> USE ServerNats DEF ServerTypeOK, running, progress, sockets, readers, fleet, planning
<1>1. ASSUME NEW c \in Conns, NEW place \in Places, Goto(c, place)
      PROVE  at' \in [Conns -> Places]
    BY <1>1 DEF Goto
<1>2. /\ {"status", "fresh", "cached", "apply", "op", "drain", "reply",
           "subscribe", "replay", "stream", "idle"} = Places
      /\ \A c \in Conns : Onward(c, "stream") \in Places
    BY DEF Places, Onward
<1>3. ASSUME NEW who \in Conns \cup {Scheduler}, Starts(who)
      PROVE  /\ engine' \in Conns \cup {Scheduler, Nobody}
             /\ op' \in [release: 0..LastRelease, left: 0..Phases]
    BY <1>3 DEF Starts
<1>4. /\ Asleep \in [step: {"sleep", "check", "checked", "cleared", "apply"},
                     candidate: 0..LastRelease]
      /\ NoOp \in [release: 0..LastRelease, left: 0..Phases]
    BY DEF Asleep, NoOp
<1>5. ASSUME NEW c \in Conns, NEW call \in {"status", "apply", "subscribe"}, Asks(c, call)
      PROVE  ServerTypeOK'
    <2>1. at' \in [Conns -> Places]
        <3>1. Goto(c, call) /\ call \in Places
            BY <1>2, <1>5 DEF Asks
        <3> QED BY <1>1, <3>1
    <2>2. calls' \in 0..MaxCalls
        <3>1. calls < MaxCalls /\ calls' = calls + 1
            BY <1>5 DEF Asks
        <3> QED BY <1>1, <3>1, ServerNats, SMTT(40)
    <2> QED BY <1>5, <2>1, <2>2 DEF Asks
<1>6. ASSUME NEW c \in Conns, ClientTurns(c) PROVE ServerTypeOK'
    BY <1>6, SMTT(40) DEF ClientTurns
<1>7. ASSUME NEW c \in Conns, Status(c) PROVE ServerTypeOK'
    BY <1>1, <1>2, <1>7 DEF Status
<1>8. ASSUME NEW c \in Conns, StatusFresh(c) PROVE ServerTypeOK'
    BY <1>1, <1>2, <1>8 DEF StatusFresh
<1>9. ASSUME NEW c \in Conns, StatusCached(c) PROVE ServerTypeOK'
    BY <1>1, <1>2, <1>9 DEF StatusCached
<1>10. ASSUME NEW c \in Conns, Reply(c) PROVE ServerTypeOK'
    <2>1. at' \in [Conns -> Places] /\ backlog' \in [Conns -> 0..SocketLines]
        BY <1>1, <1>2, <1>10, WriteLineType DEF Reply
    <2> QED BY <1>10, <2>1 DEF Reply
<1>11. ASSUME NEW c \in Conns, Apply(c) PROVE ServerTypeOK'
    BY <1>1, <1>2, <1>3, <1>11 DEF Apply
<1>12. ASSUME NEW c \in Conns, WriteProgress(c) PROVE ServerTypeOK'
    <2>1. backlog' \in [Conns -> 0..SocketLines] /\ unwritten' \in Nat
        BY <1>12, WriteLineType DEF WriteProgress
    <2> QED BY <1>12, <2>1 DEF WriteProgress
<1>13. ASSUME NEW c \in Conns, Drained(c) PROVE ServerTypeOK'
    BY <1>1, <1>2, <1>13 DEF Drained
<1>14. ASSUME NEW c \in Conns, Subscribe(c) PROVE ServerTypeOK'
    <2>1. at' \in [Conns -> Places] /\ cursor' \in [Conns -> Nat]
        BY <1>1, <1>2, <1>14 DEF Subscribe
    <2> QED BY <1>14, <2>1 DEF Subscribe
<1>15. ASSUME NEW c \in Conns, Replay(c) PROVE ServerTypeOK'
    <2>1. at' \in [Conns -> Places]
        BY <1>1, <1>2, <1>15 DEF Replay
    <2>2. backlog' \in [Conns -> 0..SocketLines] /\ seen' \in [Conns -> Nat]
        BY <1>15, WriteLineType, ZenonT(40) DEF Replay
    <2> QED BY <1>15, <2>1, <2>2 DEF Replay
<1>16. ASSUME NEW c \in Conns, Lagged(c) PROVE ServerTypeOK'
    <2>1. sent - FeedLines \in Nat
        BY <1>16 DEF Lagged
    <2>2. cursor' \in [Conns -> Nat]
        BY <1>16, <2>1 DEF Lagged
    <2> QED BY <1>16, <2>2 DEF Lagged
<1>17. ASSUME NEW c \in Conns, Forward(c) PROVE ServerTypeOK'
    <2>1. at' \in [Conns -> Places]
        BY <1>1, <1>2, <1>17 DEF Forward
    <2>2. backlog' \in [Conns -> 0..SocketLines]
        BY <1>17, WriteLineType DEF Forward
    <2>3. cursor[c] \in Nat /\ cursor[c] + 1 \in Nat
        OBVIOUS
    <2>4. cursor' \in [Conns -> Nat] /\ seen' \in [Conns -> Nat]
        BY <1>17, <2>3 DEF Forward
    <2> QED BY <1>17, <2>1, <2>2, <2>4 DEF Forward
<1>18. CASE OpStep
    <2>1. op' \in [release: 0..LastRelease, left: 0..Phases] /\ emitted' \in Nat
        <3>1. op \in [release: 0..LastRelease, left: 0..Phases] /\ emitted \in Nat
            OBVIOUS
        <3>2. op.left > 0 /\ op' = [op EXCEPT !.left = @ - 1] /\ emitted' = emitted + 1
            BY <1>18 DEF OpStep
        <3>3. op.left \in 0..Phases /\ op.left - 1 \in 0..Phases
            BY ONLY <3>1, <3>2, Phases \in Nat
        <3> HIDE DEF ServerTypeOK
        <3> QED BY <3>1, <3>2, <3>3
    <2> QED BY <1>18, <2>1 DEF OpStep
<1>19. CASE OpEnds
    <2>1. installed' \in Releases /\ failed' \subseteq Releases
        <3>1. op.release \in Nat /\ op.release <= LastRelease /\ op.release # 0
            BY <1>19 DEF OpEnds
        <3>2. op.release \in Releases
            BY <3>1
        <3> QED BY <1>19, <3>2 DEF OpEnds, Outcome
    <2>2. at' \in [Conns -> Places] /\ engine' \in Conns \cup {Scheduler, Nobody}
        <3>1. CASE engine = Scheduler
            BY <1>19, <3>1 DEF OpEnds
        <3>2. CASE engine \in Conns
            BY <1>1, <1>2, <1>19, <3>2 DEF OpEnds
        <3> QED BY <1>19, <3>1, <3>2 DEF OpEnds
    <2>3. /\ overtaken' \in BOOLEAN
          /\ check' \in [step: {"sleep", "check", "checked", "cleared", "apply"},
                         candidate: 0..LastRelease]
        BY <1>4, <1>19 DEF OpEnds
    <2> QED BY <1>4, <1>19, <2>1, <2>2, <2>3 DEF OpEnds
<1>20. CASE PumpRemembers
    BY <1>20 DEF PumpRemembers
<1>21. CASE PumpSends
    BY <1>21 DEF PumpSends
<1>22. CASE Publish
    BY <1>22 DEF Publish
<1>23. CASE SchedWakes
    <2>1. /\ source \in 0..LastRelease /\ calls' \in 0..MaxCalls
        BY <1>23 DEF SchedWakes
    <2>2. check' \in [step: {"sleep", "check", "checked", "cleared", "apply"},
                      candidate: 0..LastRelease]
        BY <1>23, <2>1 DEF SchedWakes
    <2> QED BY <1>23, <2>1, <2>2 DEF SchedWakes
<1>24. CASE SchedChecked
    BY <1>4, <1>24 DEF SchedChecked
<1>25. CASE SchedGuard
    BY <1>4, <1>25 DEF SchedGuard
<1>26. CASE SchedApplies
    BY <1>3, <1>4, <1>26 DEF SchedApplies
<1>27. CASE UNCHANGED serverVars
    BY <1>27 DEF serverVars
<1> QED
    BY <1>5, <1>6, <1>7, <1>8, <1>9, <1>10, <1>11, <1>12, <1>13, <1>14, <1>15, <1>16, <1>17,
       <1>18, <1>19, <1>20, <1>21, <1>22, <1>23, <1>24, <1>25, <1>26, <1>27, ZenonT(40)
    DEF ServerNext, Serves

LEMMA ServerTypeInit == ServerInit => ServerTypeOK
<1> SUFFICES ASSUME ServerInit PROVE ServerTypeOK
    OBVIOUS
<1>1. /\ op \in [release: 0..LastRelease, left: 0..Phases]
      /\ check \in [step: {"sleep", "check", "checked", "cleared", "apply"},
                    candidate: 0..LastRelease]
    BY ServerNats DEF ServerInit, NoOp, Asleep
<1>2. /\ at \in [Conns -> Places] /\ client \in [Conns -> {"reads", "stalls", "gone"}]
      /\ cursor \in [Conns -> Nat] /\ seen \in [Conns -> Nat]
    BY DEF ServerInit, Places
<1>3. backlog \in [Conns -> 0..SocketLines] /\ calls \in 0..MaxCalls
    BY ServerNats DEF ServerInit
<1>4. source \in Releases /\ installed \in Releases
    BY ServerNats DEF ServerInit
<1> QED BY <1>1, <1>2, <1>3, <1>4 DEF ServerInit, ServerTypeOK

\* Every variable of the server has its type.
THEOREM ServerType == ServerSpec => []ServerTypeOK
BY ServerTypeInit, ServerTypeStep, PTL DEF ServerSpec

\* What is broadcast is remembered, no reader is ahead of either, and what a stream was
\* last written is no older than the note its receiver stands at.
NotesInOrder ==
    /\ sent <= latest
    /\ \A c \in Conns : cursor[c] <= sent /\ seen[c] <= latest
    /\ \A c \in Conns : at[c] = "stream" => \/ seen[c] >= cursor[c]
                                            \/ cursor[c] < sent

LEMMA NotesInOrderStep ==
    ASSUME ServerTypeOK, NotesInOrder, [ServerNext]_serverVars
    PROVE  NotesInOrder'
<1> USE ServerNats DEF running, progress, sockets, readers, fleet, planning
<1>1. /\ latest \in Nat /\ sent \in Nat /\ FeedLines \in Nat /\ FeedLines > 0
      /\ cursor \in [Conns -> Nat] /\ seen \in [Conns -> Nat] /\ at \in [Conns -> Places]
    BY DEF ServerTypeOK
\* A connection that goes elsewhere than to its stream, and no note moves.
<1>2. ASSUME NEW c \in Conns, NEW place \in Places, place # "stream", Goto(c, place) \/ UNCHANGED at,
             UNCHANGED <<progress, readers>>
      PROVE  NotesInOrder'
    BY <1>1, <1>2 DEF Goto, NotesInOrder
<1>3. ASSUME UNCHANGED <<progress, readers, at>> PROVE NotesInOrder'
    BY <1>3 DEF NotesInOrder
<1>4. {"fresh", "cached", "op", "drain", "reply", "idle", "status", "apply", "subscribe"}
          \subseteq Places \ {"stream"}
    BY DEF Places
<1>5. ASSUME NEW c \in Conns, NEW call \in {"status", "apply", "subscribe"}, Asks(c, call)
      PROVE  NotesInOrder'
    BY <1>2, <1>4, <1>5 DEF Asks
<1>6. ASSUME NEW c \in Conns, ClientTurns(c) PROVE NotesInOrder'
    BY <1>3, <1>6 DEF ClientTurns
<1>7. ASSUME NEW c \in Conns,
             Status(c) \/ StatusFresh(c) \/ StatusCached(c) \/ Reply(c) \/ Apply(c) \/ Drained(c)
      PROVE  NotesInOrder'
    BY <1>2, <1>4, <1>7 DEF Status, StatusFresh, StatusCached, Reply, Apply, Drained
<1>8. ASSUME NEW c \in Conns, WriteProgress(c) PROVE NotesInOrder'
    BY <1>3, <1>8 DEF WriteProgress
<1>9. ASSUME NEW c \in Conns, Subscribe(c) PROVE NotesInOrder'
    BY <1>1, <1>9 DEF Subscribe, Goto, NotesInOrder
<1>10. ASSUME NEW c \in Conns, Replay(c) PROVE NotesInOrder'
    <2>1. seen' = seen \/ seen' = [seen EXCEPT ![c] = latest]
        BY <1>10 DEF Replay
    <2>2. seen'[c] >= cursor[c] /\ \A d \in Conns : seen'[d] <= latest
        BY <1>1, <1>10 DEF Replay, NotesInOrder
    <2>3. UNCHANGED <<latest, sent, cursor>> /\ at' \in [Conns -> Places \cup {"idle"}]
        BY <1>1, <1>10 DEF Replay, Goto, Onward, Places
    <2>4. \A d \in Conns \ {c} : at'[d] = at[d] /\ seen'[d] = seen[d]
        BY <1>1, <1>10, <2>1 DEF Replay, Goto
    <2> QED BY <2>2, <2>3, <2>4 DEF NotesInOrder
<1>11. ASSUME NEW c \in Conns, Lagged(c) PROVE NotesInOrder'
    <2>1. /\ sent - FeedLines \in Nat /\ sent - FeedLines < sent
          /\ cursor' = [cursor EXCEPT ![c] = sent - FeedLines]
          /\ UNCHANGED <<latest, sent, seen, at>>
        BY <1>1, <1>11 DEF Lagged
    <2> QED BY <1>1, <2>1 DEF NotesInOrder
<1>12. ASSUME NEW c \in Conns, Forward(c) PROVE NotesInOrder'
    <2>1. /\ cursor[c] \in Nat /\ cursor[c] + 1 <= sent
          /\ cursor' = [cursor EXCEPT ![c] = cursor[c] + 1]
          /\ seen' = [seen EXCEPT ![c] = cursor[c] + 1]
          /\ UNCHANGED <<latest, sent>>
        BY <1>1, <1>12 DEF Forward
    <2>2. \A d \in Conns \ {c} : at'[d] = at[d] /\ cursor'[d] = cursor[d] /\ seen'[d] = seen[d]
        BY <1>1, <1>12 DEF Forward, Goto
    <2>3. cursor'[c] = cursor[c] + 1 /\ seen'[c] = cursor[c] + 1
        BY <1>1, <2>1
    <2> QED BY <1>1, <2>1, <2>2, <2>3 DEF NotesInOrder
<1>13. CASE OpStep
    BY <1>3, <1>13 DEF OpStep
<1>14. CASE OpEnds
    <2>1. CASE engine = Scheduler
        BY <1>3, <1>14, <2>1 DEF OpEnds
    <2>2. CASE engine \in Conns
        BY <1>2, <1>4, <1>14, <2>2 DEF OpEnds
    <2> QED BY <1>14, <2>1, <2>2 DEF OpEnds, ServerTypeOK
<1>15. CASE PumpRemembers
    BY <1>1, <1>15 DEF PumpRemembers, NotesInOrder
<1>16. CASE PumpSends
    <2>1. sent' = latest /\ sent < latest /\ UNCHANGED <<latest, cursor, seen, at>>
        BY <1>1, <1>16 DEF PumpSends, NotesInOrder
    <2> QED BY <1>1, <2>1 DEF NotesInOrder
<1>17. CASE Publish \/ SchedWakes \/ SchedChecked \/ SchedGuard \/ SchedApplies
    BY <1>3, <1>17 DEF Publish, SchedWakes, SchedChecked, SchedGuard, SchedApplies
<1>18. CASE UNCHANGED serverVars
    BY <1>3, <1>18 DEF serverVars
<1> QED
    BY <1>5, <1>6, <1>7, <1>8, <1>9, <1>10, <1>11, <1>12, <1>13, <1>14, <1>15, <1>16, <1>17,
       <1>18
    DEF ServerNext, Serves

\* A subscriber that has read all there is knows the newest note, whenever it came and
\* however far it fell behind (SubscriberIsCurrent), for any length of the feed.
THEOREM SubscriberKnowsTheNewest == ServerSpec => []SubscriberIsCurrent
<1>1. ServerInit => NotesInOrder
    BY DEF ServerInit, NotesInOrder
<1>2. ServerTypeOK /\ NotesInOrder => SubscriberIsCurrent
    BY DEF ServerTypeOK, NotesInOrder, SubscriberIsCurrent
<1> QED BY <1>1, <1>2, ServerTypeInit, ServerTypeStep, NotesInOrderStep, PTL DEF ServerSpec

\* Unless it is overtaken, the candidate of a check is the latest release until the apply,
\* and it is not among the bad ones once it is cleared.
CandidateInv ==
    ~overtaken =>
        /\ check.step \in {"check", "checked", "cleared"} => check.candidate = source
        /\ check.step = "cleared" => check.candidate \notin failed

LEMMA CandidateInvStep ==
    ASSUME ServerTypeOK, CandidateInv, [ServerNext]_serverVars
    PROVE  CandidateInv'
<1> USE DEF running, progress, sockets, readers, fleet, planning
<1>1. /\ check \in [step: {"sleep", "check", "checked", "cleared", "apply"},
                    candidate: 0..LastRelease]
      /\ overtaken \in BOOLEAN
    BY DEF ServerTypeOK
<1>2. ASSUME UNCHANGED <<source, failed, check, overtaken>> PROVE CandidateInv'
    BY <1>2 DEF CandidateInv
<1>3. ASSUME check'.step \in {"sleep", "apply"} PROVE CandidateInv'
    BY <1>3 DEF CandidateInv
<1>4. ASSUME NEW c \in Conns, NEW call \in {"status", "apply", "subscribe"}, Asks(c, call)
      PROVE  CandidateInv'
    BY <1>2, <1>4 DEF Asks
<1>5. ASSUME NEW c \in Conns, ClientTurns(c) \/ Serves(c) PROVE CandidateInv'
    BY <1>2, <1>5
    DEF ClientTurns, Serves, Status, StatusFresh, StatusCached, Reply, Apply, WriteProgress,
        Drained, Subscribe, Replay, Lagged, Forward
<1>6. CASE OpStep \/ PumpRemembers \/ PumpSends
    BY <1>2, <1>6 DEF OpStep, PumpRemembers, PumpSends
<1>7. CASE OpEnds
    <2>1. CASE engine = Scheduler
        BY <1>3, <1>7, <2>1 DEF OpEnds, Asleep
    <2>2. CASE engine # Scheduler
        BY <1>1, <1>7, <2>2 DEF OpEnds, CandidateInv
    <2> QED BY <2>1, <2>2
<1>8. CASE Publish
    BY <1>8 DEF Publish, CandidateInv
<1>9. CASE SchedWakes
    BY <1>9 DEF SchedWakes, CandidateInv
<1>10. CASE SchedChecked
    <2>1. CASE check' = Asleep
        BY <1>3, <2>1 DEF Asleep
    <2>2. CASE check' = [check EXCEPT !.step = "checked"]
        BY <1>1, <1>10, <2>2 DEF SchedChecked, CandidateInv
    <2> QED BY <1>10, <2>1, <2>2 DEF SchedChecked
<1>11. CASE SchedGuard
    <2>1. CASE check' = Asleep
        BY <1>3, <2>1 DEF Asleep
    <2>2. CASE check' = [check EXCEPT !.step = "cleared"] /\ check.candidate \notin failed
        BY <1>1, <1>11, <2>2 DEF SchedGuard, CandidateInv
    <2> QED BY <1>11, <2>1, <2>2 DEF SchedGuard
<1>12. CASE SchedApplies
    <2>1. check'.step \in {"sleep", "apply"}
        BY <1>1, <1>12 DEF SchedApplies, Asleep
    <2> QED BY <1>3, <2>1
<1>13. CASE UNCHANGED serverVars
    BY <1>2, <1>13 DEF serverVars
<1> QED
    BY <1>4, <1>5, <1>6, <1>7, <1>8, <1>9, <1>10, <1>11, <1>12, <1>13 DEF ServerNext

\* The scheduler starts on a release that is known to be bad only when the check was
\* overtaken (UnattendedNotKnownBad): no other step starts an operation of its own.
THEOREM UnattendedIsNotKnownBad == ServerSpec => UnattendedNotKnownBad
<1>1. ServerInit => CandidateInv
    BY DEF ServerInit, CandidateInv, Asleep
<1>2. ASSUME ServerTypeOK, CandidateInv, [ServerNext]_serverVars,
             engine' = Scheduler, op = NoOp, op' # NoOp
      PROVE  op'.release \in failed => overtaken
    <2> USE <1>2, ServerNats DEF running, progress, sockets, readers, fleet, planning
    <2>1. op.left = 0
        BY DEF NoOp
    <2>2. CASE SchedApplies
        <3>1. op'.release = source /\ check.step = "cleared"
            BY <2>2 DEF SchedApplies, Starts
        <3> QED BY <3>1 DEF CandidateInv, ServerTypeOK
    <2>3. ASSUME NEW c \in Conns PROVE ~Apply(c)
        BY DEF Apply, Starts
    <2>4. ~OpStep /\ ~OpEnds
        BY <2>1 DEF OpStep, OpEnds
    <2>5. ASSUME NEW c \in Conns
          PROVE  /\ \A call \in {"status", "apply", "subscribe"} : ~Asks(c, call)
                 /\ ~ClientTurns(c) /\ ~Serves(c)
        BY <2>3, <2>5
        DEF Asks, ClientTurns, Serves, Status, StatusFresh, StatusCached, Reply, WriteProgress,
            Drained, Subscribe, Replay, Lagged, Forward
    <2>6. ~(PumpRemembers \/ PumpSends \/ Publish \/ SchedWakes \/ SchedChecked \/ SchedGuard)
        BY DEF PumpRemembers, PumpSends, Publish, SchedWakes, SchedChecked, SchedGuard
    <2> QED BY <2>2, <2>4, <2>5, <2>6 DEF ServerNext, serverVars
<1>3. ServerTypeOK /\ CandidateInv /\ [ServerNext]_serverVars
        => [(engine' = Scheduler /\ op = NoOp /\ op' # NoOp)
              => (op'.release \in failed => overtaken)]_serverVars
    BY <1>2
<1> QED
    BY <1>1, <1>3, ServerTypeInit, ServerTypeStep, CandidateInvStep, PTL
    DEF ServerSpec, UnattendedNotKnownBad

=============================================================================
