------------------------------- MODULE Chorale -------------------------------
(***************************************************************************)
(* Ducks singing together (robotd/src/chorale.rs, sounds/src/chorale/      *)
(* beat.rs).  Each duck broadcasts a beacon, which others may or may not   *)
(* hear, and nothing else passes between them: whoever has the lowest id   *)
(* conducts and puts a count of beats and a roster on the air, and the     *)
(* others fit their own clocks to that count.                              *)
(*                                                                         *)
(* Time is counted in beats.  Beacons are lost at will, so a peer may go   *)
(* stale at any time and SETTLE may have passed at any time.               *)
(***************************************************************************)
EXTENDS Integers, Sequences, FiniteSets, SequencesExt

CONSTANTS
    Ducks,       \* ids: naturals, the lowest of which conducts
    Pieces,      \* ids of pieces
    Knows,       \* the pieces each duck's build knows: a flock may be of mixed versions
    InRange,     \* pairs: who can hear whom
    Length,      \* beats of a piece
    EndMargin,   \* beats past the end the conductor goes on for
    LeaveMargin, \* beats past the end a follower goes on for
    LockBeats,   \* Follower::locked: beats heard before a position is known
    Counts,      \* counts a beacon can hold: it carries the low byte
    Restart,     \* a count this far behind the last is another performance
    LastPerformance, \* bound: performances of a behaviour
    MaxUpsets    \* bound: ducks told to stop or to listen, and peers gone stale

IDLE   == 0
NoOne  == 0
NoBeat == Length + EndMargin + 2
LastPosition == Length + LeaveMargin + 1

ASSUME DucksAssumption == 
    /\ Ducks \subseteq Nat \ {NoOne} /\ IsFiniteSet(Ducks)
    /\ InRange \subseteq {p \in Ducks \X Ducks : p[1] # p[2]}
ASSUME PiecesAssumption ==
    Pieces \subseteq 1..254 /\ Knows \in [Ducks -> SUBSET Pieces]
ASSUME BeatsAssumption ==
    /\ {Length, EndMargin, LeaveMargin, LockBeats, Restart} \subseteq Nat \ {0}
    /\ EndMargin <= LeaveMargin
    \* The longest piece has 160 beats and the byte 256 counts: none wraps within one.
    /\ Counts \in Nat /\ LastPosition < Counts /\ Restart < Counts \div 2
ASSUME ChoraleBounds == {LastPerformance, MaxUpsets} \subseteq Nat

VARIABLES
    duck,      \* the Chorale of each duck
    performed, \* performances so far
    upsets     \* switches and peers gone stale so far

choraleVars == <<duck, performed, upsets>>

Roster == UNION {[1..n -> Ducks] : n \in 0..Cardinality(Ducks)}

\* What the peers list keeps of a beacon: its piece.  Its roster is copied when a duck
\* joins, and again with the first count, before the duck has a position to sing at.
Silence == 255
Beacon  == Pieces \cup {IDLE, Silence}

\* `beat` is the conductor's count or the follower's estimate of it, `taken` the last
\* count a follower took and `fit` how many its fit rests on.  Two histories: the
\* performance a count was last taken from, and whether the counts were of several.
Off == [mode |-> "off", piece |-> IDLE, roster |-> <<>>, beat |-> 0,
        leader |-> NoOne, taken |-> NoBeat, fit |-> 0, performance |-> 0,
        mixed |-> FALSE, peers |-> [d \in Ducks |-> Silence]]

ChoraleTypeOK ==
    /\ duck \in [Ducks ->
          [mode: {"off", "listening", "conducting", "following"},
           piece: Pieces \cup {IDLE}, roster: Roster, beat: 0..LastPosition,
           leader: Ducks \cup {NoOne}, taken: 0..NoBeat, fit: 0..LockBeats,
           performance: 0..LastPerformance, mixed: BOOLEAN,
           peers: [Ducks -> Beacon]]]
    /\ performed \in 0..LastPerformance /\ upsets \in 0..MaxUpsets

ChoraleInit ==
    /\ duck = [d \in Ducks |-> [Off EXCEPT !.mode = "listening"]]
    /\ performed = 0 /\ upsets = 0

Listening(x) == [Off EXCEPT !.mode = "listening", !.peers = x.peers]

----------------------------------------------------------------------------
(* What a duck hears: the beacon another has on the air.                    *)

\* A count behind the last one taken, as far as a byte can tell: half way round and
\* beyond, it reads as ahead.
CountsAgain(x, c) ==
    x.taken # NoBeat /\ (x.taken - duck[c].beat) % Counts \in Restart..(Counts \div 2 - 1)

\* Variant of Restarted: only the count tells a new performance.
RestartedByCount(x, c) == CountsAgain(x, c)

\* The conductor sings another piece than the one this duck loaded, or counts again
\* from the beginning.
Restarted(x, c) == duck[c].piece # x.piece \/ CountsAgain(x, c)

Following(x, c) ==
    [x EXCEPT !.mode = "following", !.leader = c, !.piece = duck[c].piece,
              !.roster = duck[c].roster, !.beat = duck[c].beat, !.taken = duck[c].beat,
              !.fit = 1, !.performance = duck[c].performance, !.mixed = FALSE]

\* Follower::observe: a count far from the prediction of a fit is left out of it; one
\* that comes before the fit is made goes in, whatever performance it is of.
Outlier(x, c) == x.fit = LockBeats /\ x.beat # duck[c].beat

Takes(x, c) ==
    LET other == x.fit > 0 /\ x.performance # duck[c].performance IN
    [x EXCEPT !.roster = duck[c].roster, !.taken = duck[c].beat,
              !.performance = duck[c].performance,
              !.mixed = @ \/ other,
              !.beat = IF Outlier(x, c) THEN @ ELSE duck[c].beat,
              !.fit = IF Outlier(x, c) \/ @ = LockBeats THEN @ ELSE @ + 1]

\* A follower listens to the counts of one conductor, the first it hears; every duck
\* remembers whom it heard.
Hear(d, c) ==
    LET sings == duck[c].mode = "conducting"
        x == [duck[d] EXCEPT !.peers[c] = IF sings THEN duck[c].piece ELSE IDLE]
        y == IF x.leader = NoOne THEN [x EXCEPT !.leader = c] ELSE x
    IN  /\ <<d, c>> \in InRange /\ duck[d].mode # "off" /\ duck[c].mode # "off"
        /\ duck' = [duck EXCEPT ![d] =
               IF x.mode # "following" \/ ~sings THEN x
               ELSE IF y.leader # c THEN y
               ELSE IF Restarted(y, c)
               THEN IF duck[c].piece \in Knows[d] THEN Following(y, c) ELSE Listening(y)
               ELSE IF y.taken = duck[c].beat THEN [y EXCEPT !.roster = duck[c].roster]
               ELSE Takes(y, c)]
        /\ UNCHANGED <<performed, upsets>>

\* A peer not heard for PEER_STALE is forgotten.
Forget(d, c) ==
    /\ duck[d].peers[c] # Silence /\ upsets < MaxUpsets
    /\ duck' = [duck EXCEPT ![d].peers[c] = Silence]
    /\ upsets' = upsets + 1
    /\ UNCHANGED performed

----------------------------------------------------------------------------
(* Ticks.                                                                   *)

Heard(d)   == {c \in Ducks : duck[d].peers[c] # Silence}
Singing(d) == {c \in Heard(d) : duck[d].peers[c] \in Knows[d]}

\* A listening duck joins whoever sings a piece it knows, with nobody to follow yet.
Join(d) ==
    /\ duck[d].mode = "listening"
    /\ \E c \in Singing(d) :
           duck' = [duck EXCEPT ![d].mode = "following",
                                ![d].piece = duck[d].peers[c]]
    /\ UNCHANGED <<performed, upsets>>

\* With nobody singing, the lowest of those who hear each other conducts.
Conduct(d) ==
    /\ duck[d].mode = "listening" /\ performed < LastPerformance
    /\ Singing(d) = {} /\ Heard(d) # {} /\ \A c \in Heard(d) : d < c
    /\ performed' = performed + 1
    /\ \E p \in Knows[d], order \in SetToSeqs(Heard(d)) :
           duck' = [duck EXCEPT ![d] =
               [@ EXCEPT !.mode = "conducting", !.piece = p, !.roster = <<d>> \o order,
                         !.beat = 0, !.performance = performed + 1]]
    /\ UNCHANGED upsets

\* The conductor seats whom it has heard since, after those who have a seat.
Seat(d) ==
    LET new == Heard(d) \ ToSet(duck[d].roster) IN
    /\ duck[d].mode = "conducting" /\ new # {}
    /\ \E order \in SetToSeqs(new) :
           duck' = [duck EXCEPT ![d].roster = @ \o order]
    /\ UNCHANGED <<performed, upsets>>

Locked(d) == duck[d].mode = "following" /\ duck[d].fit = LockBeats

\* A follower without a fit has no position, and so no end.
Over(d) ==
    \/ duck[d].mode = "conducting" /\ duck[d].beat > Length + EndMargin
    \/ Locked(d) /\ duck[d].beat > Length + LeaveMargin

End(d) ==
    /\ Over(d)
    /\ duck' = [duck EXCEPT ![d] = Listening(@)]
    /\ UNCHANGED <<performed, upsets>>

\* set_active.
Switch(d) ==
    /\ upsets < MaxUpsets /\ upsets' = upsets + 1
    /\ duck' = [duck EXCEPT ![d] =
           IF @.mode = "off" THEN [Off EXCEPT !.mode = "listening"] ELSE Off]
    /\ UNCHANGED performed

\* One beat of time.  Every duck ticks within a beat, so none is past its end.
Elapse ==
    /\ \A d \in Ducks : ~Over(d)
    /\ \E d \in Ducks : duck[d].mode = "conducting" \/ Locked(d)
    /\ duck' = [d \in Ducks |->
           IF /\ duck[d].mode = "conducting" \/ duck[d].fit > 0
              /\ duck[d].beat < LastPosition
           THEN [duck[d] EXCEPT !.beat = @ + 1] ELSE duck[d]]
    /\ UNCHANGED <<performed, upsets>>

----------------------------------------------------------------------------
ChoraleNext ==
    \/ Elapse
    \/ \E d \in Ducks : \/ Join(d) \/ Conduct(d) \/ Seat(d) \/ End(d) \/ Switch(d)
                        \/ \E c \in Ducks : Hear(d, c) \/ Forget(d, c)

ChoraleSpec == ChoraleInit /\ [][ChoraleNext]_choraleVars

----------------------------------------------------------------------------
(* Properties. *)

\* A duck that sings after a conductor sings the piece the conductor sings, at the beat
\* it has come to, seated where the conductor seats it, whomever it joined first; as
\* long as its counts were all of that performance (chorale.rs:313-366, 401-423).
InStep ==
    \A d \in Ducks : \A c \in Ducks :
        (/\ Locked(d) /\ ~duck[d].mixed /\ duck[d].leader = c
         /\ duck[c].mode = "conducting" /\ duck[c].performance = duck[d].performance)
            => /\ duck[d].piece = duck[c].piece
               /\ duck[d].beat = duck[c].beat
               /\ IsPrefix(duck[d].roster, duck[c].roster)
=============================================================================
