---------------------------- MODULE ConfigdProofs ----------------------------
(***************************************************************************)
(* What holds of configd's three parts for every set of connections and    *)
(* any number of calls and faults: the store, for every set of values; the *)
(* pairing of pads, for every set of pads; and the Wi-Fi joins, for every  *)
(* set of networks.                                                        *)
(***************************************************************************)
EXTENDS ConfigStore, PadPairing, WifiJoin, TLAPS

----------------------------------------------------------------------------
(* The store.                                                               *)

Stages  == {"rest", "lock", "write", "sync", "rename", "settle"}
Writing == [at: Stages, field: Fields, value: Values \cup {Unset},
            config: Settings, fresh: BOOLEAN]

\* A write past its lock holds it, so there is one of them.
OneWriter ==
    \A w \in Writers : writer[w].at \in {"write", "sync", "rename", "settle"} => lock = w

\* What the write x has done by where it is, to a temporary file and the file.
Done(x, t, f) ==
    /\ x.at # "rest" => x.config[x.field] = x.value
    /\ x.at = "sync" => t.holds = x.config
    /\ x.at = "rename" => t = [holds |-> x.config, synced |-> TRUE]
    /\ x.at = "settle" => f.holds = x.config

\* A write that no other has overtaken carries the other field as the file has it.
Copies(x, f) ==
    x.at # "rest" /\ x.fresh =>
        \A g \in Fields : g # x.field => x.config[g] = f.holds[g]

Progress == \A w \in Writers : Done(writer[w], temp, file) /\ Copies(writer[w], file)

\* The file is on the disk, whole.
Whole == file.synced /\ file.holds \in disk /\ disk \subseteq Settings

StoreInv == OneWriter /\ Progress /\ Whole /\ AnsweredIsKept

----------------------------------------------------------------------------
(* Types. *)

LEMMA BoundsNat == MaxWrites \in Nat /\ MaxErrors \in Nat /\ MaxCuts \in Nat
BY StoreBounds

LEMMA DefaultType == Default \in Settings
BY DEF Default, Settings

LEMMA RestingType == Resting \in Writing
BY DefaultType DEF Resting, Writing, Stages, Fields

\* Torn settings are no settings.
LEMMA TornIsNone == Torn \notin Settings
BY StoreAssumption DEF Torn, Settings, Fields

\* A write whose type is kept.
LEMMA MovedType ==
    ASSUME NEW x \in Writing, NEW at \in Stages
    PROVE  [x EXCEPT !.at = at] \in Writing
BY DEF Writing

\* The read of a connection: what it will write, and from what.
LEMMA ReadOf ==
    ASSUME StoreTypeOK, NEW w \in Writers, Reads(w)
    PROVE  \E f \in Fields, v \in Values, c \in Settings, fresh \in BOOLEAN :
               /\ writer' = [writer EXCEPT ![w] =
                      [at |-> "lock", field |-> f, value |-> v,
                       config |-> [c EXCEPT ![f] = v], fresh |-> fresh]]
               /\ fresh => c = file.holds
               /\ errors' \in 0..MaxErrors
<1>1. PICK f \in Fields, v \in Values :
          LET sets(c, fresh) == writer' = [writer EXCEPT ![w] =
                   [at |-> "lock", field |-> f, value |-> v,
                    config |-> [c EXCEPT ![f] = v], fresh |-> fresh]]
          IN  IF file.holds \in Settings
              THEN \/ sets(file.holds, TRUE) /\ UNCHANGED errors
                   \/ Error /\ sets(Default, FALSE)
              ELSE sets(Default, FALSE) /\ UNCHANGED errors
    BY DEF Reads
<1>2. errors' \in 0..MaxErrors
    BY <1>1, BoundsNat DEF StoreTypeOK, Error
<1>3. CASE /\ file.holds \in Settings
           /\ writer' = [writer EXCEPT ![w] =
                   [at |-> "lock", field |-> f, value |-> v,
                    config |-> [file.holds EXCEPT ![f] = v], fresh |-> TRUE]]
    BY <1>2, <1>3
<1>4. CASE writer' = [writer EXCEPT ![w] =
                   [at |-> "lock", field |-> f, value |-> v,
                    config |-> [Default EXCEPT ![f] = v], fresh |-> FALSE]]
    BY <1>2, <1>4, DefaultType
<1> QED BY <1>1, <1>3, <1>4

\* Every variable has its type.
THEOREM StoreType == StoreSpec => []StoreTypeOK
<1>1. StoreInit => StoreTypeOK
    BY BoundsNat, DefaultType, RestingType
    DEF StoreInit, StoreTypeOK, Image, Writing, Stages
<1>2. StoreTypeOK /\ [StoreNext]_storeVars => StoreTypeOK'
    <2> SUFFICES ASSUME StoreTypeOK, [StoreNext]_storeVars PROVE StoreTypeOK'
        OBVIOUS
    <2> USE BoundsNat
    <2>0. writer \in [Writers -> Writing]
        BY DEF StoreTypeOK, Writing, Stages
    <2>1. ASSUME NEW w \in Writers, Reads(w) PROVE StoreTypeOK'
        <3>1. PICK f \in Fields, v \in Values, c \in Settings, fresh \in BOOLEAN :
                  /\ writer' = [writer EXCEPT ![w] =
                         [at |-> "lock", field |-> f, value |-> v,
                          config |-> [c EXCEPT ![f] = v], fresh |-> fresh]]
                  /\ errors' \in 0..MaxErrors
            BY <2>1, ReadOf
        <3>2. [c EXCEPT ![f] = v] \in Settings
            BY DEF Settings
        <3>3. [at |-> "lock", field |-> f, value |-> v,
               config |-> [c EXCEPT ![f] = v], fresh |-> fresh] \in Writing
            BY <3>2 DEF Writing, Stages
        <3>4. writer' \in [Writers -> Writing]
            BY <2>0, <3>1, <3>3
        <3>5. writes' \in 0..MaxWrites
            BY <2>1 DEF Reads, StoreTypeOK
        <3> QED BY <2>1, <3>1, <3>4, <3>5 DEF Reads, StoreTypeOK, Writing, Stages
    <2>2. ASSUME NEW w \in Writers, NEW at \in Stages, Moves(w, at)
          PROVE  writer' \in [Writers -> Writing]
        BY <2>0, <2>2, MovedType DEF Moves
    <2>3. ASSUME NEW w \in Writers, Locks(w) PROVE StoreTypeOK'
        BY <2>2, <2>3 DEF Locks, StoreTypeOK, Writing, Stages, budget
    <2>4. ASSUME NEW w \in Writers, Writes(w) PROVE StoreTypeOK'
        <3>1. writer' \in [Writers -> Writing]
            BY <2>2, <2>4 DEF Writes, Stages
        <3>2. temp' \in Image
            BY <2>0, <2>4 DEF Writes, Image, Writing
        <3> QED BY <2>4, <3>1, <3>2 DEF Writes, StoreTypeOK, Writing, Stages, budget
    <2>5. ASSUME NEW w \in Writers, Syncs(w) PROVE StoreTypeOK'
        <3>1. writer' \in [Writers -> Writing]
            BY <2>2, <2>5 DEF Syncs, Stages
        <3>2. temp' \in Image
            BY <2>5 DEF Syncs, Image, StoreTypeOK
        <3> QED BY <2>5, <3>1, <3>2 DEF Syncs, StoreTypeOK, Writing, Stages, budget
    <2>6. ASSUME NEW w \in Writers, Renames(w) PROVE StoreTypeOK'
        <3>1. writer' \in [Writers -> Writing]
            <4>1. \A v \in Writers : [writer[v] EXCEPT !.fresh = writer[v].at = "rest"] \in Writing
                BY <2>0 DEF Writing
            <4>2. [writer[w] EXCEPT !.at = "settle"] \in Writing
                BY <2>0, MovedType DEF Stages
            <4> QED BY <2>6, <4>1, <4>2 DEF Renames
        <3>2. disk' \subseteq Settings \cup {Torn}
            BY <2>6 DEF Renames, Leaves, StoreTypeOK, Image
        <3>3. vouched' \in [Fields -> SUBSET (Values \cup {Unset})]
            <4>1. \A f \in Fields : writer[w].config[f] \in Values \cup {Unset}
                BY <2>0 DEF Writing, Settings
            <4> QED BY <2>6, <4>1 DEF Renames, StoreTypeOK
        <3> QED BY <2>6, <3>1, <3>2, <3>3
                DEF Renames, StoreTypeOK, Writing, Stages, budget
    <2>7. ASSUME NEW w \in Writers, Settles(w) PROVE StoreTypeOK'
        <3>1. writer' \in [Writers -> Writing]
            BY <2>0, <2>7, RestingType DEF Settles
        <3>2. disk' \subseteq Settings \cup {Torn}
            BY <2>7 DEF Settles, Leaves, StoreTypeOK, Image
        <3>3. vouched' \in [Fields -> SUBSET (Values \cup {Unset})]
            <4>1. writer[w].value \in Values \cup {Unset}
                BY <2>0 DEF Writing
            <4> QED BY <2>7, <4>1 DEF Settles, StoreTypeOK
        <3> QED BY <2>7, <3>1, <3>2, <3>3
                DEF Settles, StoreTypeOK, Writing, Stages, budget
    <2>8. ASSUME NEW w \in Writers, Fails(w) PROVE StoreTypeOK'
        <3>1. writer' \in [Writers -> Writing]
            BY <2>0, <2>8, RestingType DEF Fails
        <3> QED BY <2>8, <3>1 DEF Fails, Error, StoreTypeOK, Writing, Stages
    <2>9. ASSUME Gone PROVE /\ writer' \in [Writers -> Writing] /\ cuts' \in 0..MaxCuts
                            /\ lock' \in Writers \cup {Unlocked}
                            /\ UNCHANGED <<temp, vouched, writes, errors>>
        BY <2>9, RestingType DEF Gone, StoreTypeOK
    <2>10. CASE Killed
        BY <2>9, <2>10 DEF Killed, StoreTypeOK, Writing, Stages
    <2>11. CASE PowerCut
        <3>1. file' \in Image /\ disk' \subseteq Settings \cup {Torn}
            BY <2>11 DEF PowerCut, StoreTypeOK, Image
        <3> QED BY <2>9, <2>11, <3>1 DEF PowerCut, StoreTypeOK, Writing, Stages
    <2>12. CASE UNCHANGED storeVars
        BY <2>12 DEF storeVars, budget, StoreTypeOK
    <2> QED
        BY <2>1, <2>3, <2>4, <2>5, <2>6, <2>7, <2>8, <2>10, <2>11, <2>12 DEF StoreNext
<1> QED BY <1>1, <1>2, PTL DEF StoreSpec

----------------------------------------------------------------------------
(* What is answered is kept. *)

\* A write that moves on changes nothing but where it is.
LEMMA MovesOf ==
    ASSUME StoreTypeOK, NEW w \in Writers, NEW at, Moves(w, at), NEW v \in Writers
    PROVE  /\ writer'[v].config = writer[v].config /\ writer'[v].field = writer[v].field
           /\ writer'[v].value = writer[v].value /\ writer'[v].fresh = writer[v].fresh
           /\ writer'[v].at = IF v = w THEN at ELSE writer[v].at
BY DEF Moves, StoreTypeOK

\* The types of a write, one by one.
LEMMA WriterType ==
    ASSUME StoreTypeOK, NEW w \in Writers
    PROVE  /\ writer[w].field \in Fields /\ writer[w].config \in Settings
           /\ writer[w].at \in Stages
BY DEF StoreTypeOK, Stages

\* The initial file is whole and vouched for.
LEMMA StoreInvInit == StoreInit => StoreInv
<1> SUFFICES ASSUME StoreInit PROVE StoreInv
    OBVIOUS
<1>1. OneWriter /\ Progress
    BY DEF StoreInit, OneWriter, Progress, Done, Copies, Resting
<1>2. Whole
    BY DefaultType DEF StoreInit, Whole
<1>3. AnsweredIsKept
    <2>1. Default # Torn
        BY DefaultType, TornIsNone
    <2>2. \A f \in Fields : Default[f] = Unset
        BY DEF Default
    <2> QED BY <2>1, <2>2 DEF StoreInit, AnsweredIsKept
<1> QED BY <1>1, <1>2, <1>3 DEF StoreInv

\* The steps of a write before its rename touch neither the file nor the disk.
LEMMA BeforeRename ==
    ASSUME StoreTypeOK, StoreInv, NEW w \in Writers,
           Reads(w) \/ Locks(w) \/ Writes(w) \/ Syncs(w)
    PROVE  StoreInv'
<1> USE DEF StoreInv
<1>0. Whole' /\ AnsweredIsKept'
    BY DEF Whole, AnsweredIsKept, Reads, Locks, Writes, Syncs
<1>1. CASE Reads(w)
    <2>1. PICK f \in Fields, v \in Values, c \in Settings, fresh \in BOOLEAN :
              /\ writer' = [writer EXCEPT ![w] =
                     [at |-> "lock", field |-> f, value |-> v,
                      config |-> [c EXCEPT ![f] = v], fresh |-> fresh]]
              /\ fresh => c = file.holds
        BY <1>1, ReadOf
    <2>2. /\ \A u \in Writers : u # w => writer'[u] = writer[u]
          /\ writer'[w] = [at |-> "lock", field |-> f, value |-> v,
                           config |-> [c EXCEPT ![f] = v], fresh |-> fresh]
        BY <2>1 DEF StoreTypeOK
    <2>3. UNCHANGED <<file, temp, lock>>
        BY <1>1 DEF Reads
    <2>4. Done(writer'[w], temp', file') /\ Copies(writer'[w], file')
        BY <2>1, <2>2, <2>3 DEF Done, Copies, Settings
    <2>5. OneWriter'
        BY <2>2, <2>3 DEF OneWriter
    <2>6. Progress'
        BY <2>2, <2>3, <2>4 DEF Progress
    <2> QED BY <1>0, <2>5, <2>6
<1>2. CASE Locks(w)
    <2>1. OneWriter'
        BY <1>2, MovesOf, StoreAssumption DEF Locks, OneWriter, StoreTypeOK
    <2>2. Progress'
        BY <1>2, MovesOf DEF Locks, Progress, Done, Copies
    <2> QED BY <1>0, <2>1, <2>2
<1>3. CASE Writes(w)
    <2>1. OneWriter'
        BY <1>3, MovesOf DEF Writes, OneWriter
    <2>2. Progress'
        BY <1>3, MovesOf DEF Writes, Progress, Done, Copies, OneWriter
    <2> QED BY <1>0, <2>1, <2>2
<1>4. CASE Syncs(w)
    <2>1. OneWriter'
        BY <1>4, MovesOf DEF Syncs, OneWriter
    <2>2. temp' = [holds |-> temp.holds, synced |-> TRUE]
        BY <1>4 DEF Syncs, StoreTypeOK, Image
    <2>3. Progress'
        <3>1. Moves(w, "rename") /\ writer[w].at = "sync" /\ file' = file /\ lock = w
            BY <1>4 DEF Syncs, OneWriter
        <3>2. temp.holds = writer[w].config
            BY <3>1 DEF Progress, Done
        <3>3. ASSUME NEW v \in Writers
              PROVE  Done(writer'[v], temp', file') /\ Copies(writer'[v], file')
            <4>1. CASE v = w
                <5>1. /\ writer'[w].at = "rename" /\ writer'[w].config = writer[w].config
                      /\ writer'[w].field = writer[w].field
                      /\ writer'[w].value = writer[w].value
                      /\ writer'[w].fresh = writer[w].fresh
                    BY <3>1, MovesOf
                <5>2. temp' = [holds |-> writer[w].config, synced |-> TRUE]
                    BY <2>2, <3>2
                <5> QED BY <3>1, <4>1, <5>1, <5>2 DEF Progress, Done, Copies
            <4>2. CASE v # w
                <5>1. writer[v].at \in {"rest", "lock"}
                    BY <3>1, <4>2, WriterType DEF OneWriter, Stages
                <5> QED BY <3>1, <4>2, <5>1, MovesOf DEF Progress, Done, Copies
            <4> QED BY <4>1, <4>2
        <3> QED BY <3>3 DEF Progress
    <2> QED BY <1>0, <2>1, <2>3
<1> QED BY <1>1, <1>2, <1>3, <1>4

\* A rename puts a whole file in place, whose every field is vouched for: the one it
\* sets, the one it copied, and the one it copied from a file another has replaced.
LEMMA ByRename ==
    ASSUME StoreTypeOK, StoreInv, NEW w \in Writers, Renames(w)
    PROVE  StoreInv'
<1> USE DEF StoreInv
<1> DEFINE x == writer[w]
<1>1. /\ x.at = "rename" /\ temp = [holds |-> x.config, synced |-> TRUE]
      /\ file' = temp /\ lock = w /\ UNCHANGED <<temp, lock>>
      /\ disk' = disk \cup {x.config} /\ x.config \in Settings /\ x.field \in Fields
    BY WriterType DEF Renames, Progress, Done, Leaves, OneWriter
<1>2. /\ writer'[w] = [x EXCEPT !.at = "settle"]
      /\ \A v \in Writers : v # w =>
             writer'[v] = [writer[v] EXCEPT !.fresh = writer[v].at = "rest"]
    BY DEF Renames
<1>3. OneWriter'
    BY <1>1, <1>2, ZenonT(40) DEF OneWriter, StoreTypeOK
<1>4. Progress'
    <2>1. Done(writer'[w], temp', file') /\ Copies(writer'[w], file')
        BY <1>1, <1>2 DEF Progress, Done, Copies, StoreTypeOK
    <2>2. ASSUME NEW v \in Writers, v # w
          PROVE  Done(writer'[v], temp', file') /\ Copies(writer'[v], file')
        <3>1. writer[v].at \in {"rest", "lock"}
            BY <1>1, <2>2, WriterType DEF OneWriter, Stages
        <3>2. writer[v] \in Writing
            BY DEF StoreTypeOK, Writing, Stages
        <3>3. writer'[v] = [writer[v] EXCEPT !.fresh = writer[v].at = "rest"]
            BY <1>2, <2>2
        <3>4. /\ writer'[v].at = writer[v].at /\ writer'[v].config = writer[v].config
              /\ writer'[v].field = writer[v].field /\ writer'[v].value = writer[v].value
            BY <3>2, <3>3 DEF Writing
        <3>5. writer[v].at # "rest" => ~writer'[v].fresh
            BY <3>2, <3>3 DEF Writing
        <3> QED BY <3>1, <3>4, <3>5 DEF Progress, Done, Copies
    <2> QED BY <2>1, <2>2 DEF Progress
<1>5. Whole'
    BY <1>1 DEF Whole
<1>6. AnsweredIsKept'
    <2>1. \A f \in Fields : x.config[f] \in vouched'[f]
        <3>1. ASSUME NEW f \in Fields PROVE x.config[f] \in vouched'[f]
            <4>1. CASE f = x.field \/ ~x.fresh
                BY <4>1 DEF Renames, StoreTypeOK
            <4>2. CASE ~(f = x.field \/ ~x.fresh)
                <5>1. x.config[f] = file.holds[f]
                    BY <1>1, <4>2 DEF Progress, Copies
                <5>2. file.holds[f] \in vouched[f]
                    BY DEF AnsweredIsKept
                <5>3. vouched'[f] = vouched[f]
                    BY <4>2 DEF Renames
                <5> QED BY <5>1, <5>2, <5>3
            <4> QED BY <4>1, <4>2
        <3> QED BY <3>1
    <2>2. \A f \in Fields : vouched[f] \subseteq vouched'[f]
        BY DEF Renames
    <2>3. x.config # Torn
        BY <1>1, TornIsNone
    <2>4. file'.holds = x.config
        BY <1>1
    <2> QED BY <1>1, <2>1, <2>2, <2>3, <2>4 DEF AnsweredIsKept
<1> QED BY <1>3, <1>4, <1>5, <1>6

\* Once the directory is synced the disk holds the file, and the file the answered value.
LEMMA BySettle ==
    ASSUME StoreTypeOK, StoreInv, NEW w \in Writers, Settles(w)
    PROVE  StoreInv'
<1> USE DEF StoreInv
<1>1. /\ file.holds = writer[w].config /\ file.holds[writer[w].field] = writer[w].value
      /\ lock = w
    BY DEF Settles, Progress, Done, OneWriter
<1>2. disk' = {file.holds} /\ UNCHANGED <<file, temp>>
    BY DEF Settles, Leaves, Whole
<1>3. writer'[w] = Resting /\ \A v \in Writers : v # w => writer'[v] = writer[v]
    BY DEF Settles, StoreTypeOK
<1>4. OneWriter'
    BY <1>1, <1>3 DEF OneWriter, Resting
<1>5. Progress'
    BY <1>2, <1>3 DEF Progress, Done, Copies, Resting
<1>6. Whole'
    BY <1>2 DEF Whole
<1>7. AnsweredIsKept'
    <2>1. \A f \in Fields : file.holds[f] \in vouched'[f]
        BY <1>1 DEF Settles, AnsweredIsKept, StoreTypeOK
    <2>2. file.holds # Torn
        BY DEF AnsweredIsKept
    <2> QED BY <1>2, <2>1, <2>2 DEF AnsweredIsKept
<1> QED BY <1>4, <1>5, <1>6, <1>7

\* An error or the end of the process leaves a file that the disk had, or could have had.
LEMMA ByFailure ==
    ASSUME StoreTypeOK, StoreInv, Killed \/ PowerCut \/ \E w \in Writers : Fails(w)
    PROVE  StoreInv'
<1> USE DEF StoreInv
<1>1. ASSUME NEW w \in Writers, Fails(w) PROVE StoreInv'
    <2>1. writer'[w] = Resting /\ \A v \in Writers : v # w => writer'[v] = writer[v]
        BY <1>1 DEF Fails, StoreTypeOK
    <2>2. OneWriter'
        BY <1>1, <2>1 DEF Fails, OneWriter, Resting
    <2>3. Progress'
        BY <1>1, <2>1 DEF Fails, Progress, Done, Copies, Resting
    <2> QED BY <1>1, <2>2, <2>3 DEF Fails, Whole, AnsweredIsKept
<1>2. ASSUME Gone PROVE OneWriter' /\ Progress'
    BY <1>2 DEF Gone, OneWriter, Progress, Done, Copies, Resting
<1>3. CASE Killed
    <2>1. Whole' /\ AnsweredIsKept'
        BY <1>3 DEF Killed, Gone, Whole, AnsweredIsKept
    <2> QED BY <1>2, <1>3, <2>1 DEF Killed
<1>4. CASE PowerCut
    <2>0. PICK c \in disk : file' = [holds |-> c, synced |-> TRUE]
        BY <1>4 DEF PowerCut
    <2>1. file' = [holds |-> c, synced |-> TRUE] /\ disk' = {c}
        BY <1>4, <2>0 DEF PowerCut
    <2>2. Whole'
        BY <2>1 DEF Whole
    <2>3. AnsweredIsKept'
        BY <1>4, <2>1 DEF PowerCut, Gone, AnsweredIsKept
    <2> QED BY <1>2, <1>4, <2>2, <2>3 DEF PowerCut
<1> QED BY <1>1, <1>3, <1>4

\* No power cut, kill or error leaves a file that cannot be read or takes back a value
\* that was answered, but for what a write of the other field may carry
\* (AnsweredIsKept).  StoreInv adds who has the lock and what each write has done.
THEOREM StoreAnsweredIsKept == StoreSpec => []AnsweredIsKept
<1>1. StoreTypeOK /\ StoreInv /\ [StoreNext]_storeVars => StoreInv'
    <2> SUFFICES ASSUME StoreTypeOK, StoreInv, [StoreNext]_storeVars PROVE StoreInv'
        OBVIOUS
    <2>1. CASE UNCHANGED storeVars
        BY <2>1 DEF storeVars, budget, StoreInv, OneWriter, Progress, Whole, AnsweredIsKept
    <2> QED BY <2>1, BeforeRename, ByRename, BySettle, ByFailure DEF StoreNext
<1>2. StoreInv => AnsweredIsKept
    BY DEF StoreInv
<1> QED BY <1>1, <1>2, StoreInvInit, StoreType, PTL DEF StoreSpec
----------------------------------------------------------------------------
(* The pairing of pads.                                                     *)

PairSteps == {"rest", "lock", "find", "agent", "connect", "settle", "pair", "due", "trust",
              "withdraw"}
PairCalls == [step: PairSteps, wants: Pads \cup {AnyPad}, pad: Pads \cup {NoPad}, had: BOOLEAN]

\* The call past the lock is the one that holds it; a bond in flight has its pad.
OneCaller ==
    /\ flying \subseteq known
    /\ \A c \in Askers : pairing = c <=> pairCall[c].step \notin {"rest", "lock"}

\* A pad that is bonded and not trusted is one that a pairing has yet to trust.
BondsAreMinded ==
    \A p \in paired : p \in trusted \/ p \in unattended \/ Attended(p)

PairingInv == PairingTypeOK /\ OneCaller /\ BondsAreMinded

LEMMA PairingNats ==
    /\ Pads \subseteq Nat \ {0} /\ NoCaller \notin Askers /\ NoPad \notin Pads
    /\ MaxPairings \in Nat /\ MaxPairFaults \in Nat
BY PadsAssumption, PairingBounds DEF NoPad

LEMMA AtRestPairing == NoPairing \in PairCalls /\ NoPairing.step = "rest"
BY DEF NoPairing, PairCalls, PairSteps

\* The call of one connection turns to the record x.
LEMMA CallTurns ==
    ASSUME PairingTypeOK, NEW c \in Askers, NEW x \in PairCalls,
           pairCall' = [pairCall EXCEPT ![c] = x]
    PROVE  /\ pairCall' \in [Askers -> PairCalls]
           /\ pairCall'[c] = x /\ \A d \in Askers \ {c} : pairCall'[d] = pairCall[d]
BY DEF PairingTypeOK, PairCalls, PairSteps

\* The call of one connection goes to a step, with all else it has.
LEMMA CallGoes ==
    ASSUME PairingTypeOK, NEW c \in Askers, NEW step \in PairSteps, PairGoto(c, step)
    PROVE  /\ pairCall' \in [Askers -> PairCalls]
           /\ pairCall'[c].step = step /\ pairCall'[c].pad = pairCall[c].pad
           /\ \A d \in Askers \ {c} : pairCall'[d] = pairCall[d]
<1> DEFINE x == [pairCall[c] EXCEPT !.step = step]
<1>1. pairCall[c] \in PairCalls
    BY DEF PairingTypeOK, PairCalls, PairSteps
<1>2. x \in PairCalls /\ x.step = step /\ x.pad = pairCall[c].pad
    BY <1>1 DEF PairCalls
<1>3. pairCall' = [pairCall EXCEPT ![c] = x]
    BY DEF PairGoto
<1> HIDE DEF x
<1> QED BY <1>2, <1>3, CallTurns

LEMMA PairReturnsType ==
    ASSUME PairingTypeOK, NEW c \in Askers, PairReturns(c)
    PROVE  /\ pairCall' \in [Askers -> PairCalls] /\ pairing' = NoCaller
           /\ pairCall'[c].step = "rest"
           /\ \A d \in Askers \ {c} : pairCall'[d] = pairCall[d]
BY AtRestPairing, CallTurns DEF PairReturns

LEMMA PairingInvStep ==
    ASSUME PairingInv, [PairingNext]_pairingVars
    PROVE  PairingInv'
<1> USE PairingNats DEF bluez, ours
<1>1. PairingTypeOK /\ OneCaller /\ BondsAreMinded
    BY DEF PairingInv
\* What the types of the other variables amount to, for a step that changes a call.
<1>2. ASSUME pairCall' \in [Askers -> PairCalls], pairing' \in Askers \cup {NoCaller},
             UNCHANGED <<asking, known, paired, flying>>,
             trusted' \subseteq known, unattended' \subseteq Pads,
             discovery' \in BOOLEAN, agent' \in Pads \cup {NoPad},
             pairings' \in 0..MaxPairings, pairFaults' \in 0..MaxPairFaults
      PROVE  PairingTypeOK'
    BY <1>1, <1>2 DEF PairingTypeOK, PairCalls, PairSteps
<1>3. CASE Button
    <2>1. PairingTypeOK'
        BY <1>1, <1>3 DEF Button, PairingTypeOK
    <2> QED BY <1>1, <1>3, <2>1 DEF Button, PairingInv, OneCaller, BondsAreMinded, Attended
<1>4. CASE Discovered
    BY <1>1, <1>4 DEF Discovered, PairingInv, PairingTypeOK, OneCaller, BondsAreMinded, Attended
<1>5. CASE PairingLost
    <2>1. /\ pairCall' \in [Askers -> PairCalls] /\ pairFaults' \in 0..MaxPairFaults
          /\ \A c \in Askers : pairCall'[c].step = "rest"
        BY <1>1, <1>5, AtRestPairing DEF PairingLost, PairFault, PairingTypeOK
    <2>2. PairingTypeOK'
        BY <1>1, <1>2, <1>5, <2>1 DEF PairingLost, PairingTypeOK
    <2>3. OneCaller' /\ BondsAreMinded'
        BY <1>1, <1>5, <2>1 DEF PairingLost, OneCaller, BondsAreMinded
    <2> QED BY <2>2, <2>3 DEF PairingInv
<1>6. ASSUME NEW p \in Pads, BondLands(p) \/ BondFails(p) PROVE PairingInv'
    <2>1. PairingTypeOK'
        BY <1>1, <1>6 DEF BondLands, BondFails, PairingTypeOK, OneCaller
    <2>2. OneCaller' /\ BondsAreMinded'
        BY <1>1, <1>6 DEF BondLands, BondFails, OneCaller, BondsAreMinded, Attended
    <2> QED BY <2>1, <2>2 DEF PairingInv
<1>7. ASSUME NEW p \in Pads, ForgetPad(p) PROVE PairingInv'
    <2>1. PairingTypeOK'
        BY <1>1, <1>7 DEF ForgetPad, PairingTypeOK
    <2>2. OneCaller' /\ BondsAreMinded'
        BY <1>1, <1>7 DEF ForgetPad, OneCaller, BondsAreMinded, Attended
    <2> QED BY <2>1, <2>2 DEF PairingInv
\* The calls.  The one past the lock is of the connection that takes the step, or there is none.
<1>8. ASSUME NEW c \in Askers, PairAsks(c) PROVE PairingInv'
    <2>1. PICK p \in Pads \cup {AnyPad} :
              pairCall' = [pairCall EXCEPT ![c] = [NoPairing EXCEPT !.step = "lock", !.wants = p]]
        BY <1>8 DEF PairAsks
    <2>2. [NoPairing EXCEPT !.step = "lock", !.wants = p] \in PairCalls
          /\ [NoPairing EXCEPT !.step = "lock", !.wants = p].step = "lock"
        BY AtRestPairing DEF PairCalls, PairSteps
    <2>3. /\ pairCall' \in [Askers -> PairCalls] /\ pairCall'[c].step = "lock"
          /\ \A d \in Askers \ {c} : pairCall'[d] = pairCall[d]
        BY <1>1, <2>1, <2>2, CallTurns
    <2>4. pairings' \in 0..MaxPairings
        BY <1>1, <1>8 DEF PairAsks, PairingTypeOK
    <2>5. PairingTypeOK'
        BY <1>1, <1>2, <1>8, <2>3, <2>4 DEF PairAsks, PairingTypeOK
    <2>6. OneCaller' /\ BondsAreMinded'
        BY <1>1, <1>8, <2>3 DEF PairAsks, OneCaller, BondsAreMinded, Attended, PairingTypeOK
    <2> QED BY <2>5, <2>6 DEF PairingInv
<1>9. PairFault => pairFaults' \in 0..MaxPairFaults
    BY <1>1 DEF PairFault, PairingTypeOK
<1>10. ASSUME NEW c \in Askers, Searches(c) PROVE PairingInv'
    <2>1. CASE pairing' = c /\ discovery' = TRUE /\ PairGoto(c, "find") /\ UNCHANGED pairFaults
        <3>1. /\ pairCall' \in [Askers -> PairCalls] /\ pairCall'[c].step = "find"
              /\ \A d \in Askers \ {c} : pairCall'[d] = pairCall[d]
            BY <1>1, <2>1, CallGoes DEF PairSteps
        <3>2. PairingTypeOK'
            BY <1>1, <1>2, <1>10, <2>1, <3>1 DEF Searches, PairingTypeOK
        <3>3. OneCaller' /\ BondsAreMinded'
            BY <1>1, <1>10, <2>1, <3>1 DEF Searches, OneCaller, BondsAreMinded, Attended
        <3> QED BY <3>2, <3>3 DEF PairingInv
    <2>2. CASE PairFault /\ PairReturns(c) /\ UNCHANGED discovery
        <3>1. PairingTypeOK'
            BY <1>1, <1>2, <1>9, <1>10, <2>2, PairReturnsType DEF Searches, PairingTypeOK
        <3>2. OneCaller' /\ BondsAreMinded'
            BY <1>1, <1>10, <2>2, PairReturnsType
            DEF Searches, OneCaller, BondsAreMinded, Attended
        <3> QED BY <3>1, <3>2 DEF PairingInv
    <2> QED BY <1>10, <2>1, <2>2 DEF Searches
<1>11. ASSUME NEW c \in Askers, pairCall[c].step \notin {"rest", "lock"}
       PROVE  pairing = c /\ (\A p \in paired :
                  p \in trusted \/ p \in unattended
                      \/ (pairCall[c].pad = p /\ pairCall[c].step \in
                              {"agent", "connect", "settle", "pair", "trust"}))
    BY <1>1, <1>11 DEF OneCaller, BondsAreMinded, Attended
\* The call that holds the lock goes on, with all bonds minded by where it goes.
<1>12. ASSUME NEW c \in Askers, pairCall[c].step \notin {"rest", "lock"},
              pairing' = c, pairCall'[c].step \notin {"rest", "lock"},
              \A d \in Askers \ {c} : pairCall'[d] = pairCall[d], flying' \subseteq known',
              \A p \in paired' :
                  p \in trusted' \/ p \in unattended'
                      \/ (pairCall'[c].pad = p /\ pairCall'[c].step \in
                              {"agent", "connect", "settle", "pair", "trust"})
       PROVE  OneCaller' /\ BondsAreMinded'
    BY <1>1, <1>12 DEF OneCaller, BondsAreMinded, Attended
<1>13. ASSUME NEW c \in Askers, pairCall[c].step \notin {"rest", "lock"}, PairReturns(c),
              flying' \subseteq known', \A p \in paired' : p \in trusted' \/ p \in unattended'
       PROVE  OneCaller' /\ BondsAreMinded'
    BY <1>1, <1>11, <1>13, PairReturnsType DEF OneCaller, BondsAreMinded
<1>14. ASSUME NEW c \in Askers, Finds(c) PROVE PairingInv'
    <2> DEFINE matches == IF pairCall[c].wants = AnyPad THEN known ELSE known \cap {pairCall[c].wants}
    <2>1. pairCall[c].step = "find" /\ UNCHANGED <<bluez, agent, unattended, pairings>>
        BY <1>14 DEF Finds
    <2>2. \A p \in paired : p \in trusted \/ p \in unattended
        BY <1>11, <2>1
    <2>3. ASSUME NEW p \in Chosen(matches),
                 pairCall' = [pairCall EXCEPT ![c].step = "agent", ![c].pad = p,
                                              ![c].had = p \in paired],
                 UNCHANGED pairing, discovery' \in BOOLEAN, pairFaults' \in 0..MaxPairFaults
          PROVE  PairingInv'
        <3> DEFINE x == [pairCall[c] EXCEPT !.step = "agent", !.pad = p, !.had = p \in paired]
        <3>1. p \in Pads
            BY <1>1 DEF Chosen, PairingTypeOK
        <3>2. pairCall[c] \in PairCalls
            BY <1>1 DEF PairingTypeOK, PairCalls, PairSteps
        <3>3. x \in PairCalls /\ x.step = "agent"
            <4>1. (p \in paired) \in BOOLEAN
                OBVIOUS
            <4> DEFINE had == p \in paired
                      y == [pairCall[c] EXCEPT !.step = "agent", !.pad = p, !.had = had]
            <4> HIDE DEF had
            <4>2. had \in BOOLEAN => y \in PairCalls /\ y.step = "agent"
                BY <3>1, <3>2 DEF PairCalls, PairSteps
            <4> QED BY <4>1, <4>2 DEF had
        <3>4. pairCall' = [pairCall EXCEPT ![c] = x]
            BY <2>3
        <3> HIDE DEF x
        <3>5. /\ pairCall' \in [Askers -> PairCalls] /\ pairCall'[c].step = "agent"
              /\ \A d \in Askers \ {c} : pairCall'[d] = pairCall[d]
            BY <1>1, <3>3, <3>4, CallTurns
        <3>6. PairingTypeOK'
            BY <1>1, <1>2, <2>1, <2>3, <3>5 DEF PairingTypeOK
        <3>7. OneCaller' /\ BondsAreMinded'
            BY <1>1, <1>11, <1>12, <2>1, <2>2, <2>3, <3>5 DEF OneCaller
        <3> QED BY <3>6, <3>7 DEF PairingInv
    <2>4. ASSUME PairReturns(c), discovery' = FALSE, pairFaults' \in 0..MaxPairFaults
          PROVE  PairingInv'
        <3>1. PairingTypeOK'
            BY <1>1, <1>2, <2>1, <2>4, PairReturnsType DEF PairingTypeOK
        <3>2. OneCaller' /\ BondsAreMinded'
            BY <1>1, <1>13, <2>1, <2>2, <2>4 DEF OneCaller
        <3> QED BY <3>1, <3>2 DEF PairingInv
    <2>5. pairFaults \in 0..MaxPairFaults /\ discovery \in BOOLEAN
        BY <1>1 DEF PairingTypeOK
    <2> HIDE DEF matches
    <2>6. \/ /\ \E p \in Chosen(matches) :
                   pairCall' = [pairCall EXCEPT ![c].step = "agent", ![c].pad = p,
                                                ![c].had = p \in paired]
             /\ UNCHANGED pairing /\ discovery' \in BOOLEAN /\ pairFaults' \in 0..MaxPairFaults
          \/ PairReturns(c) /\ discovery' = FALSE /\ pairFaults' \in 0..MaxPairFaults
        BY <1>9, <1>14, <2>5 DEF Finds, matches
    <2> QED BY <2>3, <2>4, <2>6
<1>15. ASSUME NEW c \in Askers, ServesAgent(c) PROVE PairingInv'
    <2> DEFINE p == pairCall[c].pad
               to == IF pairCall[c].had THEN "trust" ELSE "connect"
    <2>1. pairCall[c].step = "agent" /\ UNCHANGED <<bluez, discovery, pairings>>
          /\ p \in Pads \cup {NoPad} /\ pairFaults \in 0..MaxPairFaults /\ paired \subseteq Pads
        BY <1>1, <1>15 DEF ServesAgent, PairingTypeOK
    <2>2. ASSUME PairGoto(c, to), UNCHANGED <<pairing, unattended>>, agent' \in {p, agent},
                 pairFaults' \in 0..MaxPairFaults
          PROVE  PairingInv'
        <3>1. to \in {"trust", "connect"} /\ to \in PairSteps
            BY DEF PairSteps
        <3> HIDE DEF to
        <3>2. /\ pairCall' \in [Askers -> PairCalls] /\ pairCall'[c].step = to
              /\ pairCall'[c].pad = p /\ \A d \in Askers \ {c} : pairCall'[d] = pairCall[d]
            BY <1>1, <2>2, <3>1, CallGoes
        <3>3. PairingTypeOK'
            BY <1>1, <1>2, <2>1, <2>2, <3>2 DEF PairingTypeOK
        <3>4. OneCaller' /\ BondsAreMinded'
            BY <1>1, <1>11, <1>12, <2>1, <2>2, <3>1, <3>2 DEF OneCaller
        <3> QED BY <3>3, <3>4 DEF PairingInv
    <2>3. ASSUME PairReturns(c), UNCHANGED agent, pairFaults' \in 0..MaxPairFaults,
                 unattended' = unattended \cup (({p} \cap paired) \ trusted)
          PROVE  PairingInv'
        <3>1. PairingTypeOK'
            BY <1>1, <1>2, <2>1, <2>3, PairReturnsType DEF PairingTypeOK
        <3>2. \A q \in paired' : q \in trusted' \/ q \in unattended'
            BY <1>11, <2>1, <2>3
        <3>3. OneCaller' /\ BondsAreMinded'
            BY <1>1, <1>13, <2>1, <2>3, <3>2 DEF OneCaller
        <3> QED BY <3>1, <3>3 DEF PairingInv
    <2> QED BY <1>9, <1>15, <2>1, <2>2, <2>3 DEF ServesAgent
\* A step of the call at pad p to `to`, which may begin a bond of that pad.
<1>16. ASSUME NEW c \in Askers, pairCall[c].step \notin {"rest", "lock", "trust"},
              NEW to \in PairSteps \ {"rest", "lock"}, PairGoto(c, to),
              UNCHANGED <<asking, known, paired, trusted, ours, unattended, pairings, pairFaults>>,
              flying' \subseteq known,
              \/ to \in {"agent", "connect", "settle", "pair", "trust"}
              \/ \A p \in paired : p \in trusted \/ p \in unattended \/ p # pairCall[c].pad
       PROVE  OneCaller' /\ BondsAreMinded'
    <2>1. /\ pairCall' \in [Askers -> PairCalls] /\ pairCall'[c].step = to
          /\ pairCall'[c].pad = pairCall[c].pad
          /\ \A d \in Askers \ {c} : pairCall'[d] = pairCall[d]
        BY <1>1, <1>16, CallGoes
    <2> QED BY <1>11, <1>12, <1>16, <2>1
<1>17. ASSUME NEW c \in Askers, Connects(c) PROVE PairingInv'
    <2>1. flying' \subseteq known /\ flying' \subseteq Pads
        BY <1>1, <1>17 DEF Connects, OneCaller, PairingTypeOK
    <2>2. PICK to \in {"settle", "pair"} : PairGoto(c, to)
        BY <1>17 DEF Connects
    <2>3. to \in PairSteps
        BY DEF PairSteps
    <2>4. pairCall' \in [Askers -> PairCalls]
        BY <1>1, <2>2, <2>3, CallGoes
    <2>5. PairingTypeOK'
        BY <1>1, <1>17, <2>1, <2>4 DEF Connects, PairingTypeOK, PairCalls, PairSteps
    <2>6. OneCaller' /\ BondsAreMinded'
        BY <1>16, <1>17, <2>1, <2>2, <2>3 DEF Connects
    <2> QED BY <2>5, <2>6 DEF PairingInv
\* Steps of the call and of nothing else.
<1>18. ASSUME NEW c \in Askers, pairCall[c].step \notin {"rest", "lock", "trust"},
              NEW to \in {"trust", "pair", "due", "withdraw"}, PairGoto(c, to),
              UNCHANGED <<bluez, ours, unattended, pairings, pairFaults>>,
              to \in {"pair", "trust"} \/ pairCall[c].step \in {"due"} \/ ~Bonded(c)
       PROVE  PairingInv'
    <2>1. to \in PairSteps \ {"rest", "lock"}
        BY DEF PairSteps
    <2>2. pairCall' \in [Askers -> PairCalls]
        BY <1>1, <1>18, <2>1, CallGoes
    <2>3. PairingTypeOK'
        BY <1>1, <1>2, <1>18, <2>2 DEF PairingTypeOK
    <2>4. \/ to \in {"agent", "connect", "settle", "pair", "trust"}
          \/ \A p \in paired : p \in trusted \/ p \in unattended \/ p # pairCall[c].pad
        <3>1. CASE pairCall[c].step = "due"
            BY <1>11, <3>1
        <3>2. CASE ~Bonded(c)
            BY <3>2 DEF Bonded
        <3> QED BY <1>18, <3>1, <3>2
    <2>5. OneCaller' /\ BondsAreMinded'
        BY <1>1, <1>16, <1>18, <2>1, <2>4 DEF OneCaller
    <2> QED BY <2>3, <2>5 DEF PairingInv
<1>19. ASSUME NEW c \in Askers,
              BondSettles(c) \/ PairRefuses(c) \/ PairWaits(c) \/ PairTimesOut(c)
       PROVE  PairingInv'
    <2>1. CASE BondSettles(c)
        BY <1>18, <2>1 DEF BondSettles
    <2>2. CASE PairRefuses(c)
        BY <1>18, <2>2 DEF PairRefuses, Bonded
    <2>3. CASE PairWaits(c)
        BY <1>18, <2>3 DEF PairWaits, PairIsSeen
    <2>4. CASE PairTimesOut(c)
        BY <1>18, <2>4 DEF PairTimesOut
    <2> QED BY <1>19, <2>1, <2>2, <2>3, <2>4
<1>20. ASSUME NEW c \in Askers, PairAnswers(c) PROVE PairingInv'
    <2>1. /\ pairCall' \in [Askers -> PairCalls] /\ pairCall'[c].step = "trust"
          /\ pairCall'[c].pad = pairCall[c].pad
          /\ \A d \in Askers \ {c} : pairCall'[d] = pairCall[d]
        BY <1>1, <1>20, CallGoes DEF PairAnswers, PairSteps
    <2>2. paired' = paired \cup {pairCall[c].pad} /\ pairCall[c].pad \in known
          /\ pairCall[c].step = "pair"
          /\ UNCHANGED <<asking, known, trusted, flying, ours, unattended, pairings, pairFaults>>
        BY <1>20 DEF PairAnswers
    <2>3. PairingTypeOK'
        BY <1>1, <2>1, <2>2 DEF PairingTypeOK, PairCalls, PairSteps
    <2>4. \A p \in paired' : p \in trusted' \/ p \in unattended'
                                \/ (pairCall'[c].pad = p /\ pairCall'[c].step = "trust")
        BY <1>11, <2>1, <2>2
    <2>5. OneCaller' /\ BondsAreMinded'
        BY <1>1, <1>11, <1>12, <2>1, <2>2, <2>4 DEF OneCaller
    <2> QED BY <2>3, <2>5 DEF PairingInv
<1>21. ASSUME NEW c \in Askers, Trusts(c) PROVE PairingInv'
    <2> DEFINE p == pairCall[c].pad
    <2>1. /\ pairCall' \in [Askers -> PairCalls] /\ pairCall'[c].step = "withdraw"
          /\ \A d \in Askers \ {c} : pairCall'[d] = pairCall[d]
        BY <1>1, <1>21, CallGoes DEF Trusts, PairSteps
    <2>2. pairCall[c].step = "trust"
          /\ UNCHANGED <<asking, known, paired, flying, ours, pairings>>
        BY <1>21 DEF Trusts
    <2>3. /\ paired \subseteq known /\ trusted \subseteq known /\ known \subseteq Pads
          /\ unattended \subseteq Pads /\ pairFaults \in 0..MaxPairFaults
        BY <1>1 DEF PairingTypeOK
    <2>4. /\ trusted' \subseteq known /\ unattended' \subseteq Pads
          /\ pairFaults' \in 0..MaxPairFaults
          /\ \A q \in paired : q \in trusted' \/ q \in unattended'
        <3>1. CASE trusted' = trusted \cup ({p} \cap known) /\ unattended' = unattended \ {p}
                   /\ UNCHANGED pairFaults
            BY <1>11, <2>2, <2>3, <3>1
        <3>2. CASE PairFault /\ unattended' = unattended \cup ({p} \cap paired)
                   /\ UNCHANGED trusted
            BY <1>9, <1>11, <2>2, <2>3, <3>2
        <3> QED BY <1>21, <3>1, <3>2 DEF Trusts
    <2>5. PairingTypeOK'
        BY <1>1, <1>2, <2>1, <2>2, <2>4 DEF PairingTypeOK
    <2>6. OneCaller' /\ BondsAreMinded'
        BY <1>1, <1>11, <1>12, <2>1, <2>2, <2>4 DEF OneCaller
    <2> QED BY <2>5, <2>6 DEF PairingInv
<1>22. ASSUME NEW c \in Askers, Withdraws(c) PROVE PairingInv'
    <2>1. pairCall[c].step = "withdraw" /\ agent' = NoPad /\ PairReturns(c)
          /\ UNCHANGED <<bluez, discovery, unattended, pairings, pairFaults>>
        BY <1>22 DEF Withdraws
    <2>2. PairingTypeOK'
        BY <1>1, <1>2, <2>1, PairReturnsType DEF PairingTypeOK
    <2>3. OneCaller' /\ BondsAreMinded'
        BY <1>1, <1>11, <1>13, <2>1 DEF OneCaller
    <2> QED BY <2>2, <2>3 DEF PairingInv
<1>23. CASE UNCHANGED pairingVars
    BY <1>1, <1>23
    DEF pairingVars, PairingInv, PairingTypeOK, OneCaller, BondsAreMinded, Attended
<1> QED
    BY <1>3, <1>4, <1>5, <1>6, <1>7, <1>8, <1>10, <1>14, <1>15, <1>17, <1>19, <1>20, <1>21,
       <1>22, <1>23
    DEF PairingNext

LEMMA PairingInvInit == PairingInit => PairingInv
<1> SUFFICES ASSUME PairingInit PROVE PairingInv
    OBVIOUS
<1>1. pairCall \in [Askers -> PairCalls] /\ \A c \in Askers : pairCall[c].step = "rest"
    BY AtRestPairing DEF PairingInit
<1>2. PairingTypeOK
    <2>1. 0 \in 0..MaxPairings /\ 0 \in 0..MaxPairFaults
        BY PairingNats
    <2> QED BY <1>1, <2>1 DEF PairingInit, PairingTypeOK, PairCalls, PairSteps
<1>3. OneCaller /\ BondsAreMinded
    BY <1>1, PairingNats DEF PairingInit, OneCaller, BondsAreMinded
<1> QED BY <1>2, <1>3 DEF PairingInv

\* Every variable of the pairing has its type: what BlueZ trusts, or has a bond with, it knows.
THEOREM PairingType == PairingSpec => []PairingTypeOK
BY PairingInvInit, PairingInvStep, PTL DEF PairingSpec, PairingInv

\* With no pairing under way every bonded pad is trusted, but for those no pairing was
\* there for (BondedIsTrusted): whatever BlueZ answered and whenever the bond landed, the
\* call that has the lock is on its way to trust the one pad that is not.
THEOREM PairedIsTrusted == PairingSpec => []BondedIsTrusted
<1>1. PairingInv => BondedIsTrusted
    BY DEF PairingInv, BondsAreMinded, Attended, BondedIsTrusted
<1> QED BY <1>1, PairingInvInit, PairingInvStep, PTL DEF PairingSpec

----------------------------------------------------------------------------
(* The Wi-Fi joins: what the calls, their ids and the device have in       *)
(* common.                                                                 *)

JoinSteps == {"rest", "list", "delete", "watch"}
JoinCalls == [step: JoinSteps, ssid: Ssids, right: BOOLEAN, id: Ids, todo: SUBSET Ids,
              forgets: BOOLEAN, heard: Reason, joined: BOOLEAN]

Joining(c) == join[c].step # "rest"
Adding(c)  == join[c].step \in {"list", "delete"}

\* An id is one call's, and the one profile's that the call adds; a call deletes only what
\* was there when it listed, of its own network.
IdsApart ==
    /\ \A c \in Joiners : Joining(c) => join[c].id \in 1..joins
    /\ \A c, d \in Joiners : Joining(c) /\ Joining(d) /\ join[c].id = join[d].id => c = d
    /\ \A p \in saved : p.id \in 0..joins
    /\ \A p, q \in saved : p.id = q.id => p = q
    /\ \A c \in Joiners, p \in saved : Adding(c) => p.id # join[c].id
    /\ \A c \in Joiners : join[c].todo \subseteq 0..joins
    /\ \A c, d \in Joiners : Adding(d) => join[d].id \notin join[c].todo
    /\ \A c \in Joiners, p \in saved : p.id \in join[c].todo => p.ssid = join[c].ssid
    /\ \A c \in Joiners, p \in saved : join[c].step = "watch" /\ p.id = join[c].id =>
           p.ssid = join[c].ssid /\ p.right = join[c].right

\* The device is on a profile that is saved, is up with a right key only, and an activation
\* that a join asked for is of the profile it added.
DeviceOn ==
    /\ device.by # NM => device.by = device.on
    /\ device.on # NoNet => \E p \in saved : p.id = device.on
    /\ device.up => RightKey(device.on)

JoinsTrue ==
    /\ untrue = {} /\ reason.whose \in 0..joins
    /\ \A c \in Joiners :
           /\ join[c].step = "watch" /\ device.by = join[c].id /\ device.up => join[c].joined
           /\ Joining(c) /\ reason.why = "key" /\ reason.whose = join[c].id =>
                  join[c].step = "watch" /\ ~join[c].right
           /\ Joining(c) /\ join[c].heard.why = "key" /\ join[c].heard.whose = join[c].id =>
                  join[c].step = "watch" /\ ~join[c].right

\* The profiles of a network, and the calls that are past listing them.
Mine(s)      == {p \in saved : p.ssid = s}
CallersAt(s) == {c \in Joiners : join[c].step \in {"delete", "watch"} /\ join[c].ssid = s}

\* The one call that is at the profiles of a network has listed those that it has yet to
\* delete, or has added the only one; with no such call they are what the last answer says.
SettledAt(s) ==
    /\ \A c, d \in CallersAt(s) : c = d
    /\ \A c \in CallersAt(s) :
           /\ join[c].step = "delete" => \A p \in Mine(s) : p.id \in join[c].todo
           /\ join[c].step = "watch" =>
                  Mine(s) = {[id |-> join[c].id, ssid |-> s, right |-> join[c].right]}
    /\ CallersAt(s) = {} =>
           IF last[s] = "connected" THEN \E p \in Mine(s) : Mine(s) = {p} /\ p.right
           ELSE Mine(s) = {}

AllSettled == \A s \in Ssids \ unsettled : SettledAt(s)

WifiInv == WifiTypeOK /\ IdsApart /\ DeviceOn /\ JoinsTrue /\ AllSettled

LEMMA WifiNats == /\ MaxJoins \in Nat /\ MaxJoinFaults \in Nat
                  /\ NM \in Ids /\ NoNet \notin Ids /\ NoReason \in Reason
BY WifiBounds DEF NM, Ids, NoNet, NoReason, Reason

LEMMA AtRestJoin ==
    /\ AtRest \in JoinCalls /\ AtRest.step = "rest" /\ AtRest.ssid \in Ssids
    /\ AtRest.todo = {} /\ AtRest.heard = NoReason
<1>1. (CHOOSE s \in Ssids : TRUE) \in Ssids
    BY SomeNet
<1>2. 0 \in Ids
    BY WifiNats DEF NM
<1> QED BY <1>1, <1>2, WifiNats DEF AtRest, JoinCalls, JoinSteps

\* The call of one connection turns to the record x.
LEMMA JoinTurns ==
    ASSUME WifiTypeOK, NEW c \in Joiners, NEW x \in JoinCalls,
           join' = [join EXCEPT ![c] = x]
    PROVE  /\ join' \in [Joiners -> JoinCalls]
           /\ join'[c] = x /\ \A d \in Joiners \ {c} : join'[d] = join[d]
BY DEF WifiTypeOK, JoinCalls, JoinSteps

LEMMA JoinType == ASSUME WifiTypeOK
                  PROVE  /\ join \in [Joiners -> JoinCalls]
                         /\ \A c \in Joiners : join[c] \in JoinCalls
BY DEF WifiTypeOK, JoinCalls, JoinSteps

LEMMA JoinEnds ==
    ASSUME WifiTypeOK, NEW c \in Joiners, NEW result, NEW another,
           JoinAnswers(c, result, another)
    PROVE  /\ join' \in [Joiners -> JoinCalls]
           /\ join'[c] = AtRest /\ \A d \in Joiners \ {c} : join'[d] = join[d]
BY AtRestJoin, JoinTurns DEF JoinAnswers

\* How an answer changes what is known to be untrue.
LEMMA AnswersTruly ==
    ASSUME NEW c, NEW result, NEW another, JoinAnswers(c, result, another), untrue = {},
           result = "connected" => join[c].joined,
           result = "badkey" => ~join[c].right \/ another
    PROVE  untrue' = {}
BY DEF JoinAnswers

LEMMA SettlesType ==
    ASSUME WifiTypeOK, NEW c \in Joiners, NEW result \in {"connected", "failed"}, NEW faulty,
           JoinSettles(c, result, faulty)
    PROVE  /\ last' \in [Ssids -> {"connected", "failed"}] /\ unsettled' \subseteq Ssids
           /\ unsettled \subseteq unsettled'
           /\ faulty \/ Beside(c) # {} => join[c].ssid \in unsettled'
           /\ last'[join[c].ssid] = result
           /\ \A s \in Ssids \ {join[c].ssid} : last'[s] = last[s]
<1>1. join[c].ssid \in Ssids
    BY JoinType DEF JoinCalls
<1> QED BY <1>1 DEF JoinSettles, WifiTypeOK

----------------------------------------------------------------------------
(* What keeps each part of the invariant.                                  *)

\* Profiles and calls may go, and calls go on with fewer profiles to delete.
LEMMA IdsKept ==
    ASSUME WifiTypeOK, IdsApart, joins' = joins, saved' \subseteq saved,
           join' \in [Joiners -> JoinCalls],
           \A c \in Joiners :
               \/ join'[c] = AtRest
               \/ /\ join'[c].step = join[c].step /\ join'[c].id = join[c].id
                  /\ join'[c].ssid = join[c].ssid /\ join'[c].right = join[c].right
                  /\ join'[c].todo \subseteq join[c].todo
    PROVE  IdsApart'
<1>1. \A c \in Joiners : Joining(c)' =>
          /\ join'[c].step = join[c].step /\ join'[c].id = join[c].id
          /\ join'[c].ssid = join[c].ssid /\ join'[c].right = join[c].right
          /\ join'[c].todo \subseteq join[c].todo
    BY AtRestJoin DEF Joining
<1>2. \A c \in Joiners : ~Joining(c)' => join'[c].todo \subseteq join[c].todo
    BY AtRestJoin DEF Joining
<1>3. (\A c \in Joiners : Joining(c) => join[c].id \in 1..joins)'
    BY <1>1 DEF IdsApart, Joining
<1>4. (\A c, d \in Joiners : Joining(c) /\ Joining(d) /\ join[c].id = join[d].id => c = d)'
    BY <1>1 DEF IdsApart, Joining
<1>5. /\ (\A p \in saved : p.id \in 0..joins)'
      /\ (\A p, q \in saved : p.id = q.id => p = q)'
    BY DEF IdsApart
<1>6. (\A c \in Joiners, p \in saved : Adding(c) => p.id # join[c].id)'
    BY <1>1 DEF IdsApart, Joining, Adding
<1>7. (\A c \in Joiners : join[c].todo \subseteq 0..joins)'
    BY <1>1, <1>2 DEF IdsApart
<1>8. (\A c, d \in Joiners : Adding(d) => join[d].id \notin join[c].todo)'
    BY <1>1, <1>2 DEF IdsApart, Joining, Adding
<1>9. (\A c \in Joiners, p \in saved : p.id \in join[c].todo => p.ssid = join[c].ssid)'
    <2> SUFFICES ASSUME NEW c \in Joiners, NEW p \in saved', p.id \in join'[c].todo
                 PROVE  p.ssid = join'[c].ssid
        OBVIOUS
    <2>1. CASE Joining(c)'
        BY <1>1, <2>1 DEF IdsApart
    <2>2. CASE ~Joining(c)'
        BY <1>1, <2>2, AtRestJoin DEF Joining, IdsApart
    <2> QED BY <2>1, <2>2
<1>10. (\A c \in Joiners, p \in saved : join[c].step = "watch" /\ p.id = join[c].id =>
           p.ssid = join[c].ssid /\ p.right = join[c].right)'
    BY <1>1 DEF IdsApart, Joining
<1> HIDE DEF IdsApart
<1> QED BY <1>3, <1>4, <1>5, <1>6, <1>7, <1>8, <1>9, <1>10 DEF IdsApart

\* The profile of one id is deleted.
LEMMA DeviceWithout ==
    ASSUME WifiTypeOK, DeviceOn, NEW id \in Ids, WithoutNet({id})
    PROVE  DeviceOn' /\ saved' \subseteq saved /\ device' \in {device, OffAir}
           /\ reason' \in {reason, NoReason} /\ (device' = device => device.on # id)
<1>1. saved' = {p \in saved : p.id # id}
    BY DEF WithoutNet
<1>2. CASE device.on = id /\ device' = OffAir /\ reason' = NoReason
    <2>1. OffAir.by = NM /\ OffAir.on = NoNet /\ OffAir.up = FALSE
        BY DEF OffAir
    <2>2. id # NoNet
        BY WifiNats
    <2> QED BY <1>1, <1>2, <2>1, <2>2 DEF DeviceOn, RightKey
<1>3. CASE device.on # id /\ UNCHANGED <<device, reason>>
    BY <1>1, <1>3 DEF DeviceOn, RightKey
<1> QED BY <1>2, <1>3 DEF WithoutNet

\* The device forgets who asked for what it is on.
LEMMA DeviceDisowned ==
    ASSUME WifiTypeOK, DeviceOn, NEW by \in {device.by, NM},
           device' = [device EXCEPT !.by = by], UNCHANGED saved
    PROVE  DeviceOn' /\ device' \in [on: Ids \cup {NoNet}, by: Ids, up: BOOLEAN]
           /\ device'.by = by /\ device'.up = device.up /\ device'.on = device.on
<1>1. device \in [on: Ids \cup {NoNet}, by: Ids, up: BOOLEAN] /\ by \in Ids
    BY WifiNats DEF WifiTypeOK
<1>2. device' \in [on: Ids \cup {NoNet}, by: Ids, up: BOOLEAN]
      /\ device'.by = by /\ device'.up = device.up /\ device'.on = device.on
    BY <1>1
<1> QED BY <1>2 DEF DeviceOn, RightKey

\* A network that no call is at, or another's, stays as it is.
LEMMA StaysSettled ==
    ASSUME NEW s \in Ssids, SettledAt(s), Mine(s)' = Mine(s), last'[s] = last[s],
           CallersAt(s)' = CallersAt(s),
           \A c \in CallersAt(s) : /\ join'[c].step = join[c].step /\ join'[c].id = join[c].id
                            /\ join'[c].right = join[c].right /\ join'[c].todo = join[c].todo
    PROVE  SettledAt(s)'
BY DEF SettledAt

LEMMA Elsewhere ==
    ASSUME NEW c \in Joiners, NEW s \in Ssids \ {join[c].ssid}, SettledAt(s),
           \A d \in Joiners \ {c} : join'[d] = join[d],
           join'[c].ssid = join[c].ssid \/ join'[c].step = "rest",
           last'[s] = last[s], Mine(s)' = Mine(s)
    PROVE  SettledAt(s)'
<1>1. c \notin CallersAt(s) /\ c \notin CallersAt(s)'
    BY DEF CallersAt
<1>2. CallersAt(s)' = CallersAt(s)
    BY <1>1 DEF CallersAt
<1>3. \A d \in CallersAt(s) : join'[d] = join[d]
    BY <1>1 DEF CallersAt
<1> QED BY <1>2, <1>3, StaysSettled

\* Calls go on as they were or end, and the device is up for no other call than before.
LEMMA TruthKept ==
    ASSUME WifiTypeOK, IdsApart, JoinsTrue, joins' = joins, untrue' = {},
           reason' \in {reason, NoReason},
           device'.by \in {device.by, NM}, device'.up => device.up,
           \A c \in Joiners :
               \/ join'[c] = AtRest
               \/ /\ join'[c].step = "watch" <=> join[c].step = "watch"
                  /\ Joining(c)' => Joining(c)
                  /\ join'[c].id = join[c].id /\ join'[c].right = join[c].right
                  /\ join'[c].heard = join[c].heard /\ join'[c].joined = join[c].joined
    PROVE  JoinsTrue'
<1>1. \A c \in Joiners : Joining(c)' =>
          /\ join'[c].step = "watch" <=> join[c].step = "watch"
          /\ Joining(c) /\ join[c].id # NM
          /\ join'[c].id = join[c].id /\ join'[c].right = join[c].right
          /\ join'[c].heard = join[c].heard /\ join'[c].joined = join[c].joined
    BY AtRestJoin DEF Joining, IdsApart, NM
<1>2. NoReason.why # "key" /\ NoReason.whose = NM
    BY DEF NoReason
<1>3. joins \in Nat
    BY WifiNats DEF WifiTypeOK
<1>4. reason'.whose \in 0..joins'
    BY <1>2, <1>3 DEF JoinsTrue, NM
<1>5. ASSUME NEW c \in Joiners
      PROVE  /\ join'[c].step = "watch" /\ device'.by = join'[c].id /\ device'.up
                    => join'[c].joined
             /\ Joining(c)' /\ reason'.why = "key" /\ reason'.whose = join'[c].id =>
                    join'[c].step = "watch" /\ ~join'[c].right
             /\ Joining(c)' /\ join'[c].heard.why = "key" /\ join'[c].heard.whose = join'[c].id =>
                    join'[c].step = "watch" /\ ~join'[c].right
    <2>1. join'[c].step = "watch" => Joining(c)'
        BY DEF Joining
    <2> QED BY <1>1, <1>2, <2>1 DEF JoinsTrue
<1> QED BY <1>4, <1>5 DEF JoinsTrue

----------------------------------------------------------------------------
(* NetworkManager's steps.                                                 *)

LEMMA ByAutoconnect == ASSUME WifiInv, Autoconnects PROVE WifiInv'
<1> USE DEF WifiInv
<1>1. PICK p \in saved : device' = [on |-> p.id, by |-> NM, up |-> FALSE]
    BY DEF Autoconnects
<1>2. p.id \in Ids /\ p.id # NoNet
    BY WifiNats DEF WifiTypeOK, Profile
<1>3. WifiTypeOK'
    BY <1>1, <1>2, WifiNats DEF Autoconnects, WifiTypeOK
<1>4. IdsApart'
    BY IdsKept, JoinType DEF Autoconnects
<1>5. DeviceOn'
    BY <1>1 DEF DeviceOn, RightKey, Autoconnects
<1>6. JoinsTrue'
    BY <1>1, TruthKept DEF Autoconnects, JoinsTrue, Joining
<1>7. AllSettled'
    BY DEF Autoconnects, AllSettled, SettledAt, CallersAt, Mine
<1> QED BY <1>3, <1>4, <1>5, <1>6, <1>7

LEMMA ByAssociation == ASSUME WifiInv, Associates PROVE WifiInv'
<1> USE DEF WifiInv
<1> DEFINE x(c) == [join[c] EXCEPT
                       !.joined = @ \/ (device.by = join[c].id /\ join[c].step = "watch")]
<1>1. \A c \in Joiners :
          /\ join'[c] \in JoinCalls /\ join'[c].step = join[c].step
          /\ join'[c].id = join[c].id /\ join'[c].ssid = join[c].ssid
          /\ join'[c].right = join[c].right /\ join'[c].todo = join[c].todo
          /\ join'[c].heard = join[c].heard
          /\ join[c].joined => join'[c].joined
          /\ device.by = join[c].id /\ join[c].step = "watch" => join'[c].joined
    <2> SUFFICES ASSUME NEW c \in Joiners
                 PROVE  /\ x(c) \in JoinCalls /\ x(c).step = join[c].step
                        /\ x(c).id = join[c].id /\ x(c).ssid = join[c].ssid
                        /\ x(c).right = join[c].right /\ x(c).todo = join[c].todo
                        /\ x(c).heard = join[c].heard
                        /\ x(c).joined = (join[c].joined
                               \/ (device.by = join[c].id /\ join[c].step = "watch"))
        BY DEF Associates
    <2>1. join[c] \in JoinCalls
        BY JoinType
    <2> DEFINE j == join[c].joined \/ (device.by = join[c].id /\ join[c].step = "watch")
               y == [join[c] EXCEPT !.joined = j]
    <2>2. j \in BOOLEAN
        OBVIOUS
    <2> HIDE DEF j
    <2>3. /\ y \in JoinCalls /\ y.step = join[c].step /\ y.id = join[c].id
          /\ y.ssid = join[c].ssid /\ y.right = join[c].right /\ y.todo = join[c].todo
          /\ y.heard = join[c].heard /\ y.joined = j
        BY <2>1, <2>2 DEF JoinCalls
    <2> QED BY <2>3 DEF j
<1>2. join' \in [Joiners -> JoinCalls]
    BY <1>1 DEF Associates
<1>3. /\ device' \in [on: Ids \cup {NoNet}, by: Ids, up: BOOLEAN]
      /\ device'.on = device.on /\ device'.by = device.by /\ RightKey(device.on)
    BY DEF Associates, WifiTypeOK
<1>4. WifiTypeOK'
    BY <1>2, <1>3 DEF Associates, WifiTypeOK, JoinCalls, JoinSteps
<1>5. IdsApart'
    BY <1>1, <1>2, IdsKept DEF Associates
<1>6. DeviceOn'
    BY <1>3 DEF Associates, DeviceOn, RightKey
<1>7. JoinsTrue'
    BY <1>1, <1>3 DEF Associates, JoinsTrue, Joining
<1>8. AllSettled'
    <2>1. ASSUME NEW s \in Ssids \ unsettled PROVE SettledAt(s)'
        <3>1. CallersAt(s)' = CallersAt(s) /\ Mine(s)' = Mine(s)
            BY <1>1 DEF CallersAt, Mine, Associates
        <3>2. SettledAt(s) /\ last'[s] = last[s]
            BY <2>1 DEF AllSettled, Associates
        <3>3. \A c \in CallersAt(s) : /\ join'[c].step = join[c].step /\ join'[c].id = join[c].id
                              /\ join'[c].right = join[c].right /\ join'[c].todo = join[c].todo
            BY <1>1 DEF CallersAt
        <3> QED BY <2>1, <3>1, <3>2, <3>3, StaysSettled
    <2> QED BY <2>1 DEF Associates, AllSettled
<1> QED BY <1>4, <1>5, <1>6, <1>7, <1>8

\* A reason that a wrong key was is about the profile of the join that asked for it.
LEMMA ByDrop == ASSUME WifiInv, Drops PROVE WifiInv'
<1> USE DEF WifiInv
<1>1. PICK why \in IF device.up \/ RightKey(device.on) THEN {"other"} ELSE {"key", "other"},
            hear \in SUBSET {c \in Joiners : join[c].step = "watch"} :
             LET r == [why |-> why, whose |-> IF why = "key" THEN device.by ELSE NM] IN
             /\ reason' \in {r, NoReason} \ {Other}
             /\ join' = [c \in Joiners |-> IF c \in hear THEN [join[c] EXCEPT !.heard = r]
                                           ELSE join[c]]
    BY DEF Drops
<1> DEFINE r == [why |-> why, whose |-> IF why = "key" THEN device.by ELSE NM]
<1>2. /\ why \in {"key", "other"} /\ (why = "key" => ~RightKey(device.on))
      /\ reason' \in {r, NoReason}
      /\ join' = [c \in Joiners |-> IF c \in hear THEN [join[c] EXCEPT !.heard = r]
                                    ELSE join[c]]
    BY <1>1
<1>3. r \in Reason /\ r.why = why /\ (why = "key" => r.whose = device.by)
      /\ r.whose \in {device.by, NM}
    <2>1. device.by \in Ids
        BY DEF WifiTypeOK
    <2> QED BY <2>1, WifiNats DEF Reason
<1>4. \A c \in Joiners : Joining(c) /\ r.why = "key" /\ r.whose = join[c].id =>
          join[c].step = "watch" /\ ~join[c].right
    <2> SUFFICES ASSUME NEW c \in Joiners, Joining(c), why = "key", device.by = join[c].id
                 PROVE  join[c].step = "watch" /\ ~join[c].right
        BY <1>3
    <2>1. join[c].id \in 1..joins /\ joins \in Nat
        BY WifiNats DEF IdsApart, WifiTypeOK
    <2>2. device.by # NM /\ device.by = device.on /\ device.by \in Ids
        BY <2>1 DEF DeviceOn, NM, WifiTypeOK
    <2>3. PICK p \in saved : p.id = join[c].id
        BY <2>2, WifiNats DEF DeviceOn
    <2>4. join[c].step = "watch"
        BY <2>3, JoinType DEF IdsApart, Adding, Joining, JoinCalls, JoinSteps
    <2>5. ~p.right
        BY <1>2, <2>2, <2>3 DEF RightKey
    <2> QED BY <2>3, <2>4, <2>5 DEF IdsApart
<1>5. \A c \in Joiners :
          /\ join'[c] \in JoinCalls /\ join'[c].step = join[c].step
          /\ join'[c].id = join[c].id /\ join'[c].ssid = join[c].ssid
          /\ join'[c].right = join[c].right /\ join'[c].todo = join[c].todo
          /\ join'[c].heard \in {join[c].heard, r}
    <2> SUFFICES ASSUME NEW c \in Joiners
                 PROVE  LET x == [join[c] EXCEPT !.heard = r] IN
                        /\ x \in JoinCalls /\ x.step = join[c].step
                        /\ x.id = join[c].id /\ x.ssid = join[c].ssid
                        /\ x.right = join[c].right /\ x.todo = join[c].todo
                        /\ x.heard = r
        BY <1>2, JoinType
    <2> HIDE DEF r
    <2> QED BY <1>3, JoinType DEF JoinCalls
<1>6. join' \in [Joiners -> JoinCalls]
    <2> HIDE DEF r
    <2> QED BY <1>2, <1>5
<1>7. device' = OffAir /\ OffAir \in [on: Ids \cup {NoNet}, by: Ids, up: BOOLEAN]
      /\ OffAir.by = NM /\ OffAir.on = NoNet /\ OffAir.up = FALSE
    BY WifiNats DEF Drops, OffAir
<1> HIDE DEF r
<1>8. reason' \in Reason /\ reason' \in {r, NoReason}
    BY <1>2, <1>3, WifiNats
<1>9. WifiTypeOK'
    BY <1>6, <1>7, <1>8 DEF Drops, WifiTypeOK, JoinCalls, JoinSteps
<1>10. IdsApart'
    BY <1>5, <1>6, IdsKept DEF Drops
<1>11. DeviceOn'
    BY <1>7 DEF Drops, DeviceOn
<1>12. JoinsTrue'
    <2>1. NoReason.why # "key" /\ NoReason.whose = NM
        BY DEF NoReason
    <2>2. device.by \in 0..joins /\ NM \in 0..joins
        <3>1. joins \in Nat /\ NM \in 0..joins
            BY WifiNats DEF WifiTypeOK, NM
        <3> QED BY <3>1, WifiNats DEF DeviceOn, IdsApart, WifiTypeOK
    <2>3. reason'.whose \in 0..joins
        BY <1>3, <1>8, <2>1, <2>2
    <2> QED BY <1>4, <1>5, <1>7, <1>8, <2>1, <2>3 DEF Drops, JoinsTrue, Joining
<1>13. AllSettled'
    <2>1. ASSUME NEW s \in Ssids \ unsettled PROVE SettledAt(s)'
        <3>1. CallersAt(s)' = CallersAt(s) /\ Mine(s)' = Mine(s)
            BY <1>5 DEF CallersAt, Mine, Drops
        <3> QED BY <1>5, <3>1, StaysSettled DEF Drops, AllSettled, CallersAt
    <2> QED BY <2>1 DEF Drops, AllSettled
<1> QED BY <1>9, <1>10, <1>11, <1>12, <1>13

----------------------------------------------------------------------------
(* The calls.                                                              *)

\* What a call does is to its own network, s.
LEMMA OwnNetwork ==
    ASSUME AllSettled, NEW c \in Joiners, NEW s, s = join[c].ssid,
           \A d \in Joiners \ {c} : join'[d] = join[d],
           join'[c].ssid = s \/ join'[c].step = "rest",
           \A z \in Ssids \ {s} :
               /\ z \in unsettled => z \in unsettled'
               /\ last'[z] = last[z] /\ Mine(z)' = Mine(z),
           s \in unsettled' \/ SettledAt(s)'
    PROVE  AllSettled'
<1> SUFFICES ASSUME NEW z \in Ssids, z \notin unsettled' PROVE SettledAt(z)'
    BY DEF AllSettled
<1>1. CASE z = s
    BY <1>1
<1>2. CASE z # s
    BY <1>2, Elsewhere DEF AllSettled
<1> QED BY <1>1, <1>2

\* A call ends with what its answer says of its network.
LEMMA EndsSettled ==
    ASSUME WifiInv, NEW c \in Joiners, NEW s, s = join[c].ssid,
           NEW result \in {"connected", "failed"}, NEW faulty,
           JoinSettles(c, result, faulty), join[c].step \in {"delete", "watch"},
           join'[c] = AtRest, \A d \in Joiners \ {c} : join'[d] = join[d],
           \A z \in Ssids \ {s} : Mine(z)' = Mine(z),
           s \notin unsettled /\ ~faulty =>
               IF result = "connected" THEN \E p \in Mine(s)' : Mine(s)' = {p} /\ p.right
               ELSE Mine(s)' = {}
    PROVE  AllSettled'
<1> USE DEF WifiInv
<1>1. /\ unsettled \subseteq unsettled' /\ last'[s] = result
      /\ faulty \/ Beside(c) # {} => s \in unsettled'
      /\ \A z \in Ssids \ {s} : last'[z] = last[z]
    BY SettlesType
<1>2. ASSUME s \notin unsettled' PROVE SettledAt(s)'
    <2>1. s \notin unsettled /\ ~faulty /\ Beside(c) = {}
        BY <1>1, <1>2
    <2>2. CallersAt(s)' = {}
        BY <2>1, AtRestJoin DEF CallersAt, Beside
    <2>3. IF last'[s] = "connected" THEN \E p \in Mine(s)' : Mine(s)' = {p} /\ p.right
          ELSE Mine(s)' = {}
        BY <1>1, <2>1
    <2> QED BY <2>2, <2>3 DEF SettledAt
<1> QED BY <1>1, <1>2, AtRestJoin, OwnNetwork

\* What SettledAt says of a call that has listed.
LEMMA OwnProfiles ==
    ASSUME WifiInv, NEW c \in Joiners, NEW s, s = join[c].ssid,
           join[c].step \in {"delete", "watch"}, s \notin unsettled
    PROVE  /\ \A d \in CallersAt(s) : d = c
           /\ join[c].step = "delete" => \A p \in Mine(s) : p.id \in join[c].todo
           /\ join[c].step = "watch" =>
                  Mine(s) = {[id |-> join[c].id, ssid |-> s, right |-> join[c].right]}
<1>1. c \in CallersAt(s) /\ s \in Ssids
    BY JoinType DEF CallersAt, JoinCalls, WifiInv
<1> QED BY <1>1 DEF WifiInv, AllSettled, SettledAt

\* A profile that a call deletes is of its own network.
LEMMA DeletesOwn ==
    ASSUME WifiInv, NEW c \in Joiners, NEW s, s = join[c].ssid,
           NEW id \in Ids, WithoutNet({id}),
           id \in join[c].todo \/ (join[c].step = "watch" /\ id = join[c].id)
    PROVE  /\ \A z \in Ssids \ {s} : Mine(z)' = Mine(z)
           /\ Mine(s)' = {p \in Mine(s) : p.id # id}
<1>1. saved' = {p \in saved : p.id # id}
    BY DEF WithoutNet
<1>2. \A p \in saved : p.id = id => p.ssid = s
    BY DEF WifiInv, IdsApart
<1> QED BY <1>1, <1>2 DEF Mine

LEMMA WithoutType ==
    ASSUME WifiTypeOK, NEW id \in Ids, WithoutNet({id})
    PROVE  /\ saved' \subseteq Profile /\ reason' \in Reason
           /\ device' \in [on: Ids \cup {NoNet}, by: Ids, up: BOOLEAN]
<1>1. OffAir \in [on: Ids \cup {NoNet}, by: Ids, up: BOOLEAN]
    BY WifiNats DEF OffAir
<1> QED BY <1>1, WifiNats DEF WithoutNet, WifiTypeOK

LEMMA JoinFaultType == ASSUME WifiTypeOK, JoinFault PROVE joinFaults' \in 0..MaxJoinFaults
BY WifiNats DEF JoinFault, WifiTypeOK

\* The id of a new call is no profile's, no reason's and on no call's list.
LEMMA ByAsking == ASSUME WifiInv, NEW c \in Joiners, JoinAsks(c) PROVE WifiInv'
<1> USE DEF WifiInv
<1>1. PICK s \in Ssids, right \in BOOLEAN, forgets \in BOOLEAN :
          join' = [join EXCEPT ![c] = [AtRest EXCEPT
              !.step = "list", !.ssid = s, !.id = joins', !.right = right /\ ~forgets,
              !.forgets = forgets]]
    BY DEF JoinAsks
<1> DEFINE key == right /\ ~forgets
           x == [AtRest EXCEPT !.step = "list", !.ssid = s, !.id = joins', !.right = key,
                               !.forgets = forgets]
<1>2. joins \in Nat /\ joins' = joins + 1 /\ joins' \in 0..MaxJoins /\ joins' \in Ids
      /\ joins' \in 1..joins'
    BY WifiNats DEF JoinAsks, WifiTypeOK, Ids
<1>3. key \in BOOLEAN
    OBVIOUS
<1>4. join' = [join EXCEPT ![c] = x]
    BY <1>1
<1> HIDE DEF key
<1>5. /\ x \in JoinCalls /\ x.step = "list" /\ x.id = joins' /\ x.todo = {}
      /\ x.heard = NoReason
    BY <1>2, <1>3, AtRestJoin DEF JoinCalls, JoinSteps
<1> HIDE DEF x
<1>6. /\ join' \in [Joiners -> JoinCalls] /\ join'[c] = x
      /\ \A d \in Joiners \ {c} : join'[d] = join[d]
    BY <1>4, <1>5, JoinTurns
<1>7. join[c].step = "rest" /\ UNCHANGED <<saved, device, reason, untrue, last, unsettled, joinFaults>>
    BY DEF JoinAsks, nmVars
<1>8. WifiTypeOK'
    BY <1>2, <1>6, <1>7 DEF WifiTypeOK, JoinCalls, JoinSteps
<1>9. IdsApart'
    <2>1. 0..joins \subseteq 0..joins' /\ 1..joins \subseteq 1..joins' /\ joins' \notin 0..joins
          /\ joins' \notin 1..joins
        BY <1>2
    <2>2. (\A d \in Joiners : Joining(d) => join[d].id \in 1..joins)'
        BY <1>2, <1>5, <1>6, <2>1 DEF IdsApart, Joining
    <2>3. (\A d, e \in Joiners : Joining(d) /\ Joining(e) /\ join[d].id = join[e].id => d = e)'
        BY <1>5, <1>6, <2>1 DEF IdsApart, Joining
    <2>4. /\ (\A p \in saved : p.id \in 0..joins)'
          /\ (\A p, q \in saved : p.id = q.id => p = q)'
        BY <1>7, <2>1 DEF IdsApart
    <2>5. (\A d \in Joiners, p \in saved : Adding(d) => p.id # join[d].id)'
        BY <1>5, <1>6, <1>7, <2>1 DEF IdsApart, Adding
    <2>6. (\A d \in Joiners : join[d].todo \subseteq 0..joins)'
        BY <1>5, <1>6, <2>1 DEF IdsApart
    <2>7. (\A d, e \in Joiners : Adding(e) => join[e].id \notin join[d].todo)'
        BY <1>5, <1>6, <2>1 DEF IdsApart, Adding
    <2>8. (\A d \in Joiners, p \in saved : p.id \in join[d].todo => p.ssid = join[d].ssid)'
        BY <1>5, <1>6, <1>7 DEF IdsApart
    <2>9. (\A d \in Joiners, p \in saved : join[d].step = "watch" /\ p.id = join[d].id =>
              p.ssid = join[d].ssid /\ p.right = join[d].right)'
        BY <1>5, <1>6, <1>7 DEF IdsApart
    <2> HIDE DEF IdsApart
    <2> QED BY <2>2, <2>3, <2>4, <2>5, <2>6, <2>7, <2>8, <2>9 DEF IdsApart
<1>10. DeviceOn'
    BY <1>7 DEF DeviceOn, RightKey
<1>11. JoinsTrue'
    <2>1. NoReason.why # "key" /\ reason.whose \in 0..joins' /\ reason.whose # joins'
        BY <1>2 DEF JoinsTrue, NoReason
    <2> QED BY <1>5, <1>6, <1>7, <2>1 DEF JoinsTrue, Joining
<1>12. AllSettled'
    <2>1. ASSUME NEW z \in Ssids \ unsettled PROVE SettledAt(z)'
        <3>1. CallersAt(z)' = CallersAt(z) /\ Mine(z)' = Mine(z) /\ c \notin CallersAt(z)
            BY <1>5, <1>6, <1>7 DEF CallersAt, Mine
        <3>2. \A d \in CallersAt(z) : join'[d] = join[d]
            BY <1>6, <3>1 DEF CallersAt
        <3> QED BY <1>7, <3>1, <3>2, StaysSettled DEF AllSettled
    <2> QED BY <1>7, <2>1 DEF AllSettled
<1> QED BY <1>8, <1>9, <1>10, <1>11, <1>12

\* It lists profiles of its own network, that no call has yet to add.
LEMMA ByListing == ASSUME WifiInv, NEW c \in Joiners, Lists(c) PROVE WifiInv'
<1> USE DEF WifiInv
<1> DEFINE ids == {p.id : p \in {q \in saved : q.ssid = join[c].ssid}}
           x == [join[c] EXCEPT !.step = "delete", !.todo = ids]
<1>1. join[c] \in JoinCalls /\ join[c].step = "list" /\ join[c].ssid \in Ssids
      /\ UNCHANGED <<saved, device, reason, untrue, last, joins, joinFaults>>
    BY JoinType DEF Lists, JoinCalls, nmVars
<1>2. ids \in SUBSET Ids
    BY DEF WifiTypeOK, Profile
<1>3. join' = [join EXCEPT ![c] = x]
    BY DEF Lists
<1> HIDE DEF ids
<1>4. /\ x \in JoinCalls /\ x.step = "delete" /\ x.todo = ids /\ x.id = join[c].id
      /\ x.ssid = join[c].ssid /\ x.right = join[c].right /\ x.heard = join[c].heard
      /\ x.joined = join[c].joined
    BY <1>1, <1>2 DEF JoinCalls, JoinSteps
<1> HIDE DEF x
<1>5. /\ join' \in [Joiners -> JoinCalls] /\ join'[c] = x
      /\ \A d \in Joiners \ {c} : join'[d] = join[d]
    BY <1>3, <1>4, JoinTurns
<1>6. unsettled' \subseteq Ssids
      /\ unsettled' = IF Beside(c) = {} THEN unsettled \ {join[c].ssid}
                      ELSE unsettled \cup {join[c].ssid}
    BY <1>1 DEF Lists, WifiTypeOK
<1>7. WifiTypeOK'
    BY <1>1, <1>5, <1>6 DEF WifiTypeOK, JoinCalls, JoinSteps
<1>8. IdsApart'
    <2>1. (\A d \in Joiners : Joining(d) => join[d].id \in 1..joins)'
        BY <1>1, <1>4, <1>5 DEF IdsApart, Joining
    <2>2. (\A d, e \in Joiners : Joining(d) /\ Joining(e) /\ join[d].id = join[e].id => d = e)'
        BY <1>1, <1>4, <1>5 DEF IdsApart, Joining
    <2>3. /\ (\A p \in saved : p.id \in 0..joins)'
          /\ (\A p, q \in saved : p.id = q.id => p = q)'
        BY <1>1 DEF IdsApart
    <2>4. (\A d \in Joiners, p \in saved : Adding(d) => p.id # join[d].id)'
        BY <1>1, <1>4, <1>5 DEF IdsApart, Adding
    <2>5. (\A d \in Joiners : join[d].todo \subseteq 0..joins)'
        BY <1>1, <1>4, <1>5 DEF IdsApart, ids
    <2>6. (\A d, e \in Joiners : Adding(e) => join[e].id \notin join[d].todo)'
        BY <1>1, <1>4, <1>5 DEF IdsApart, Adding, ids
    <2>7. (\A d \in Joiners, p \in saved : p.id \in join[d].todo => p.ssid = join[d].ssid)'
        BY <1>1, <1>4, <1>5 DEF IdsApart, ids
    <2>8. (\A d \in Joiners, p \in saved : join[d].step = "watch" /\ p.id = join[d].id =>
              p.ssid = join[d].ssid /\ p.right = join[d].right)'
        BY <1>1, <1>4, <1>5 DEF IdsApart
    <2> HIDE DEF IdsApart
    <2> QED BY <2>1, <2>2, <2>3, <2>4, <2>5, <2>6, <2>7, <2>8 DEF IdsApart
<1>9. DeviceOn'
    BY <1>1 DEF DeviceOn, RightKey
<1>10. JoinsTrue'
    <2>1. untrue' = {}
        BY <1>1 DEF JoinsTrue
    <2>2. \A d \in Joiners :
              /\ join'[d].step = "watch" <=> join[d].step = "watch"
              /\ Joining(d)' => Joining(d)
              /\ join'[d].id = join[d].id /\ join'[d].right = join[d].right
              /\ join'[d].heard = join[d].heard /\ join'[d].joined = join[d].joined
        BY <1>1, <1>4, <1>5 DEF Joining
    <2> QED BY <1>1, <2>1, <2>2, TruthKept
<1>11. AllSettled'
    <2>1. PICK s \in Ssids : s = join[c].ssid
        BY <1>1
    <2>2. \A z \in Ssids \ {s} : /\ z \in unsettled => z \in unsettled'
                                 /\ last'[z] = last[z] /\ Mine(z)' = Mine(z)
        BY <1>1, <1>6, <2>1 DEF Mine
    <2>3. ASSUME Beside(c) = {} PROVE SettledAt(s)'
        <3>1. CallersAt(s)' = {c}
            BY <1>4, <1>5, <2>1, <2>3 DEF CallersAt, Beside
        <3>2. \A p \in Mine(s)' : p.id \in join'[c].todo
            BY <1>1, <1>4, <1>5, <2>1 DEF Mine, ids
        <3> QED BY <1>4, <1>5, <3>1, <3>2 DEF SettledAt
    <2> QED BY <1>4, <1>5, <1>6, <2>1, <2>2, <2>3, OwnNetwork
<1> QED BY <1>7, <1>8, <1>9, <1>10, <1>11

LEMMA ByDeleting == ASSUME WifiInv, NEW c \in Joiners, Deletes(c) PROVE WifiInv'
<1> USE DEF WifiInv
<1>1. PICK id \in join[c].todo \cap {p.id : p \in saved} :
          WithoutNet({id}) /\ join' = [join EXCEPT ![c].todo = @ \ {id}]
    BY DEF Deletes
<1> DEFINE x == [join[c] EXCEPT !.todo = @ \ {id}]
<1>2. join[c] \in JoinCalls /\ join[c].step = "delete" /\ join[c].ssid \in Ssids
      /\ UNCHANGED <<untrue, last, unsettled, joins, joinFaults>> /\ id \in Ids
    BY <1>1, JoinType DEF Deletes, JoinCalls
<1>3. join' = [join EXCEPT ![c] = x]
    BY <1>1
<1>4. /\ x \in JoinCalls /\ x.step = "delete" /\ x.todo = join[c].todo \ {id}
      /\ x.id = join[c].id /\ x.ssid = join[c].ssid /\ x.right = join[c].right
      /\ x.heard = join[c].heard /\ x.joined = join[c].joined
    BY <1>2 DEF JoinCalls
<1> HIDE DEF x
<1>5. /\ join' \in [Joiners -> JoinCalls] /\ join'[c] = x
      /\ \A d \in Joiners \ {c} : join'[d] = join[d]
    BY <1>3, <1>4, JoinTurns
<1>6. /\ saved' \subseteq Profile /\ reason' \in Reason
      /\ device' \in [on: Ids \cup {NoNet}, by: Ids, up: BOOLEAN]
    BY <1>1, <1>2, WithoutType
<1>7. /\ DeviceOn' /\ saved' \subseteq saved /\ device' \in {device, OffAir}
      /\ reason' \in {reason, NoReason}
    BY <1>1, <1>2, DeviceWithout
<1>8. WifiTypeOK'
    BY <1>2, <1>5, <1>6 DEF WifiTypeOK, JoinCalls, JoinSteps
<1>9. IdsApart'
    <2>1. \A d \in Joiners :
              /\ join'[d].step = join[d].step /\ join'[d].id = join[d].id
              /\ join'[d].ssid = join[d].ssid /\ join'[d].right = join[d].right
              /\ join'[d].todo \subseteq join[d].todo
        BY <1>2, <1>4, <1>5
    <2> QED BY <1>2, <1>5, <1>7, <2>1, IdsKept
<1>10. JoinsTrue'
    <2>1. \A d \in Joiners :
              /\ join'[d].step = "watch" <=> join[d].step = "watch"
              /\ Joining(d)' => Joining(d)
              /\ join'[d].id = join[d].id /\ join'[d].right = join[d].right
              /\ join'[d].heard = join[d].heard /\ join'[d].joined = join[d].joined
        BY <1>2, <1>4, <1>5 DEF Joining
    <2>2. untrue' = {} /\ device'.by \in {device.by, NM} /\ (device'.up => device.up)
        BY <1>2, <1>7 DEF JoinsTrue, OffAir
    <2> QED BY <1>2, <1>7, <2>1, <2>2, TruthKept
<1>11. AllSettled'
    <2>1. PICK s \in Ssids : s = join[c].ssid
        BY <1>2
    <2>2. \A z \in Ssids \ {s} : /\ z \in unsettled => z \in unsettled'
                                 /\ last'[z] = last[z] /\ Mine(z)' = Mine(z)
        BY <1>1, <1>2, <2>1, DeletesOwn
    <2>3. ASSUME s \notin unsettled PROVE SettledAt(s)'
        <3>1. \A d \in CallersAt(s)' : d = c
            BY <1>2, <1>5, <2>1, <2>3, OwnProfiles DEF CallersAt
        <3>2. c \in CallersAt(s)'
            BY <1>4, <1>5, <2>1 DEF CallersAt
        <3>3. \A p \in Mine(s)' : p.id \in join'[c].todo
            BY <1>1, <1>2, <1>4, <1>5, <2>1, <2>3, DeletesOwn, OwnProfiles
        <3> QED BY <1>4, <1>5, <3>1, <3>2, <3>3 DEF SettledAt
    <2> QED BY <1>2, <1>4, <1>5, <2>1, <2>2, <2>3, OwnNetwork
<1> QED BY <1>7, <1>8, <1>9, <1>10, <1>11

\* The call of c ends, with an answer that is so, and the device with no more than it had.
LEMMA EndsInv ==
    ASSUME WifiInv, NEW c \in Joiners, join'[c] = AtRest,
           \A d \in Joiners \ {c} : join'[d] = join[d], join' \in [Joiners -> JoinCalls],
           untrue' = {}, last' \in [Ssids -> {"connected", "failed"}],
           unsettled' \subseteq Ssids, joins' = joins, joinFaults' \in 0..MaxJoinFaults,
           saved' \subseteq saved, reason' \in {reason, NoReason},
           device' \in [on: Ids \cup {NoNet}, by: Ids, up: BOOLEAN],
           device'.by \in {device.by, NM}, device'.up => device.up, DeviceOn', AllSettled'
    PROVE  WifiInv'
<1> USE DEF WifiInv
<1>1. WifiTypeOK'
    <2>1. saved' \subseteq Profile /\ reason' \in Reason
        BY WifiNats DEF WifiTypeOK
    <2> QED BY <2>1 DEF WifiTypeOK, JoinCalls, JoinSteps
<1>2. IdsApart'
    BY IdsKept
<1>3. JoinsTrue'
    BY TruthKept DEF Joining
<1> QED BY <1>1, <1>2, <1>3

\* A join whose list came to nothing goes on, without it; a forget ends.
LEMMA ByDeleteFailure == ASSUME WifiInv, NEW c \in Joiners, DeleteFails(c) PROVE WifiInv'
<1> USE DEF WifiInv
<1>1. /\ join[c] \in JoinCalls /\ join[c].step = "delete" /\ join[c].ssid \in Ssids
      /\ UNCHANGED <<saved, device, reason, last, joins>>
      /\ unsettled' = unsettled \cup {join[c].ssid} /\ joinFaults' \in 0..MaxJoinFaults
    BY JoinType, JoinFaultType DEF DeleteFails, JoinCalls, nmVars, WifiTypeOK
<1>2. PICK s \in Ssids : s = join[c].ssid
    BY <1>1
<1>3. ASSUME join'[c].ssid = s \/ join'[c].step = "rest",
             \A d \in Joiners \ {c} : join'[d] = join[d]
      PROVE  AllSettled'
    <2>1. \A z \in Ssids \ {s} : /\ z \in unsettled => z \in unsettled'
                                 /\ last'[z] = last[z] /\ Mine(z)' = Mine(z)
        BY <1>1 DEF Mine
    <2> QED BY <1>1, <1>2, <1>3, <2>1, OwnNetwork
<1>4. DeviceOn'
    BY <1>1 DEF DeviceOn, RightKey
<1>5. CASE JoinAnswers(c, "error", FALSE)
    <2>1. /\ join' \in [Joiners -> JoinCalls] /\ join'[c] = AtRest
          /\ \A d \in Joiners \ {c} : join'[d] = join[d]
        BY <1>5, JoinEnds
    <2>2. untrue' = {}
        BY <1>5, AnswersTruly DEF JoinsTrue
    <2>3. AllSettled'
        BY <1>3, <2>1, AtRestJoin
    <2>4. /\ unsettled' \subseteq Ssids /\ last' \in [Ssids -> {"connected", "failed"}]
          /\ device' \in [on: Ids \cup {NoNet}, by: Ids, up: BOOLEAN]
        BY <1>1 DEF WifiTypeOK
    <2> QED BY <1>1, <1>4, <2>1, <2>2, <2>3, <2>4, EndsInv
<1>6. CASE join' = [join EXCEPT ![c].todo = {}] /\ UNCHANGED untrue
    <2> DEFINE x == [join[c] EXCEPT !.todo = {}]
    <2>1. join' = [join EXCEPT ![c] = x]
        BY <1>6
    <2>2. /\ x \in JoinCalls /\ x.step = "delete" /\ x.todo = {}
          /\ x.id = join[c].id /\ x.ssid = join[c].ssid /\ x.right = join[c].right
          /\ x.heard = join[c].heard /\ x.joined = join[c].joined
        BY <1>1 DEF JoinCalls
    <2> HIDE DEF x
    <2>3. /\ join' \in [Joiners -> JoinCalls] /\ join'[c] = x
          /\ \A d \in Joiners \ {c} : join'[d] = join[d]
        BY <2>1, <2>2, JoinTurns
    <2>4. WifiTypeOK'
        BY <1>1, <1>6, <2>3 DEF WifiTypeOK, JoinCalls, JoinSteps
    <2>5. IdsApart'
        <3>1. \A d \in Joiners :
                  /\ join'[d].step = join[d].step /\ join'[d].id = join[d].id
                  /\ join'[d].ssid = join[d].ssid /\ join'[d].right = join[d].right
                  /\ join'[d].todo \subseteq join[d].todo
            BY <1>1, <2>2, <2>3
        <3> QED BY <1>1, <2>3, <3>1, IdsKept
    <2>6. JoinsTrue'
        <3>1. \A d \in Joiners :
                  /\ join'[d].step = "watch" <=> join[d].step = "watch"
                  /\ Joining(d)' => Joining(d)
                  /\ join'[d].id = join[d].id /\ join'[d].right = join[d].right
                  /\ join'[d].heard = join[d].heard /\ join'[d].joined = join[d].joined
            BY <1>1, <2>2, <2>3 DEF Joining
        <3>2. untrue' = {}
            BY <1>6 DEF JoinsTrue
        <3> QED BY <1>1, <3>1, <3>2, TruthKept
    <2>7. AllSettled'
        BY <1>2, <1>3, <2>2, <2>3
    <2> QED BY <1>4, <2>4, <2>5, <2>6, <2>7
<1> QED BY <1>5, <1>6 DEF DeleteFails

\* With its list done, a forget or a join that cannot add ends with no profile.
LEMMA ByEndOfList ==
    ASSUME WifiInv, NEW c \in Joiners, Forgets(c) \/ AddFails(c) PROVE WifiInv'
<1> USE DEF WifiInv
<1>1. PICK result \in {"forgotten", "failed"} : JoinAnswers(c, result, FALSE)
    BY DEF Forgets, AddFails
<1>2. /\ JoinSettles(c, "failed", FALSE) /\ UNCHANGED <<saved, device, reason, joins>>
      /\ join[c].step = "delete" /\ join[c].todo = {} /\ joinFaults' \in 0..MaxJoinFaults
    BY JoinFaultType DEF Forgets, AddFails, Deleted, nmVars, WifiTypeOK
<1>3. PICK s \in Ssids : s = join[c].ssid
    BY JoinType DEF JoinCalls
<1>4. /\ join' \in [Joiners -> JoinCalls] /\ join'[c] = AtRest
      /\ \A d \in Joiners \ {c} : join'[d] = join[d]
    BY <1>1, JoinEnds
<1>5. untrue' = {}
    BY <1>1, AnswersTruly DEF JoinsTrue
<1>6. DeviceOn'
    BY <1>2 DEF DeviceOn, RightKey
<1>7. AllSettled'
    <2>1. \A z \in Ssids : Mine(z)' = Mine(z)
        BY <1>2 DEF Mine
    <2>2. s \notin unsettled => Mine(s)' = {}
        BY <1>2, <1>3, <2>1, OwnProfiles
    <2> QED BY <1>2, <1>3, <1>4, <2>1, <2>2, EndsSettled
<1>8. /\ last' \in [Ssids -> {"connected", "failed"}] /\ unsettled' \subseteq Ssids
      /\ device' \in [on: Ids \cup {NoNet}, by: Ids, up: BOOLEAN]
    BY <1>2, SettlesType DEF WifiTypeOK
<1> QED BY <1>2, <1>4, <1>5, <1>6, <1>7, <1>8, EndsInv

\* The profile that is added is the only one of its network, and of its id.
LEMMA ByAdding == ASSUME WifiInv, NEW c \in Joiners, Adds(c) PROVE WifiInv'
<1> USE DEF WifiInv
<1> DEFINE x == [join[c] EXCEPT !.step = "watch"]
<1>1. PICK new : new = [id |-> join[c].id, ssid |-> join[c].ssid, right |-> join[c].right]
    OBVIOUS
<1>2. /\ join[c] \in JoinCalls /\ join[c].step = "delete" /\ join[c].todo = {}
      /\ saved' = saved \cup {new} /\ UNCHANGED <<untrue, last, unsettled, joins, joinFaults>>
    BY <1>1, JoinType DEF Adds, Deleted
<1>3. /\ new \in Profile /\ new.id = join[c].id /\ new.ssid = join[c].ssid
      /\ new.right = join[c].right
    BY <1>1, <1>2 DEF Profile, JoinCalls
<1>4. join' = [join EXCEPT ![c] = x]
    BY DEF Adds
<1>5. /\ x \in JoinCalls /\ x.step = "watch" /\ x.todo = {} /\ x.id = join[c].id
      /\ x.ssid = join[c].ssid /\ x.right = join[c].right /\ x.heard = join[c].heard
    BY <1>2 DEF JoinCalls, JoinSteps
<1> HIDE DEF x
<1>6. /\ join' \in [Joiners -> JoinCalls] /\ join'[c] = x
      /\ \A d \in Joiners \ {c} : join'[d] = join[d]
    BY <1>4, <1>5, JoinTurns
<1>7. join[c].id \in 1..joins /\ joins \in Nat /\ \A p \in saved : p.id # join[c].id
    BY <1>2, WifiNats DEF IdsApart, Joining, Adding, WifiTypeOK
<1>8. join[c].id # NM /\ join[c].id \in Ids /\ join[c].id # NoNet
    BY <1>2, <1>7, WifiNats DEF NM, JoinCalls
<1>9. /\ device' \in [on: Ids \cup {NoNet}, by: Ids, up: BOOLEAN]
      /\ \/ device'.on = join[c].id /\ device'.by = join[c].id /\ device'.up = FALSE
            /\ reason' = NoReason
         \/ UNCHANGED <<device, reason>>
    <2> DEFINE on == [on |-> join[c].id, by |-> join[c].id, up |-> FALSE]
    <2>1. /\ on \in [on: Ids \cup {NoNet}, by: Ids, up: BOOLEAN]
          /\ on.on = join[c].id /\ on.by = join[c].id /\ on.up = FALSE
        BY <1>8
    <2>2. (device' = on /\ reason' = NoReason) \/ UNCHANGED <<device, reason>>
        BY DEF Adds
    <2> HIDE DEF on
    <2>3. device \in [on: Ids \cup {NoNet}, by: Ids, up: BOOLEAN]
        BY DEF WifiTypeOK
    <2> QED BY <2>1, <2>2, <2>3
<1>10. device.by # join[c].id
    BY <1>7, <1>8 DEF DeviceOn
<1>11. WifiTypeOK'
    <2>1. reason' \in Reason /\ saved' \subseteq Profile
        BY <1>2, <1>3, <1>9, WifiNats DEF WifiTypeOK
    <2> QED BY <1>2, <1>6, <1>9, <2>1 DEF WifiTypeOK, JoinCalls, JoinSteps
<1>12. IdsApart'
    <2>1. (\A d \in Joiners : Joining(d) => join[d].id \in 1..joins)'
        BY <1>2, <1>5, <1>6 DEF IdsApart, Joining
    <2>2. (\A d, e \in Joiners : Joining(d) /\ Joining(e) /\ join[d].id = join[e].id => d = e)'
        BY <1>2, <1>5, <1>6 DEF IdsApart, Joining
    <2>3. /\ (\A p \in saved : p.id \in 0..joins)'
          /\ (\A p, q \in saved : p.id = q.id => p = q)'
        BY <1>2, <1>3, <1>7 DEF IdsApart
    <2>4. (\A d \in Joiners, p \in saved : Adding(d) => p.id # join[d].id)'
        <3> SUFFICES ASSUME NEW d \in Joiners \ {c}, NEW p \in saved', Adding(d)
                     PROVE  p.id # join[d].id
            BY <1>5, <1>6 DEF Adding
        <3>1. join[c].id # join[d].id
            BY <1>2 DEF IdsApart, Adding, Joining
        <3> QED BY <1>2, <1>3, <3>1 DEF IdsApart
    <2>5. (\A d \in Joiners : join[d].todo \subseteq 0..joins)'
        BY <1>2, <1>5, <1>6 DEF IdsApart
    <2>6. (\A d, e \in Joiners : Adding(e) => join[e].id \notin join[d].todo)'
        BY <1>2, <1>5, <1>6 DEF IdsApart, Adding
    <2>7. (\A d \in Joiners, p \in saved : p.id \in join[d].todo => p.ssid = join[d].ssid)'
        <3> SUFFICES ASSUME NEW d \in Joiners, NEW p \in saved', p.id \in join'[d].todo
                     PROVE  p.ssid = join'[d].ssid
            OBVIOUS
        <3>1. d # c /\ join'[d] = join[d]
            BY <1>5, <1>6
        <3>2. p # new
            BY <1>2, <1>3, <3>1 DEF IdsApart, Adding
        <3> QED BY <1>2, <3>1, <3>2 DEF IdsApart
    <2>8. (\A d \in Joiners, p \in saved : join[d].step = "watch" /\ p.id = join[d].id =>
              p.ssid = join[d].ssid /\ p.right = join[d].right)'
        <3> SUFFICES ASSUME NEW d \in Joiners, NEW p \in saved', join'[d].step = "watch",
                            p.id = join'[d].id
                     PROVE  p.ssid = join'[d].ssid /\ p.right = join'[d].right
            OBVIOUS
        <3>1. CASE d = c
            BY <1>2, <1>3, <1>5, <1>6, <1>7, <3>1
        <3>2. CASE d # c
            <4>1. join[d].id # join[c].id /\ join'[d] = join[d]
                BY <1>2, <1>6, <3>2 DEF IdsApart, Joining
            <4> QED BY <1>2, <1>3, <4>1 DEF IdsApart
        <3> QED BY <3>1, <3>2
    <2> HIDE DEF IdsApart
    <2> QED BY <2>1, <2>2, <2>3, <2>4, <2>5, <2>6, <2>7, <2>8 DEF IdsApart
<1>13. DeviceOn'
    BY <1>2, <1>3, <1>9 DEF DeviceOn, RightKey
<1>14. JoinsTrue'
    <2>1. NoReason.why # "key" /\ NoReason.whose = NM /\ NM \in 0..joins
        BY <1>7 DEF NoReason, NM
    <2>2. untrue' = {} /\ reason'.whose \in 0..joins'
        BY <1>2, <1>9, <2>1 DEF JoinsTrue
    <2>3. ~(reason'.why = "key" /\ reason'.whose = join[c].id)
          /\ ~(join[c].heard.why = "key" /\ join[c].heard.whose = join[c].id)
        BY <1>2, <1>9, <2>1 DEF JoinsTrue, Joining
    <2>4. ASSUME NEW d \in Joiners
          PROVE  /\ join'[d].step = "watch" /\ device'.by = join'[d].id /\ device'.up
                        => join'[d].joined
                 /\ Joining(d)' /\ reason'.why = "key" /\ reason'.whose = join'[d].id =>
                        join'[d].step = "watch" /\ ~join'[d].right
                 /\ Joining(d)' /\ join'[d].heard.why = "key" /\ join'[d].heard.whose = join'[d].id
                        => join'[d].step = "watch" /\ ~join'[d].right
        <3>1. CASE d = c
            BY <1>5, <1>6, <1>9, <1>10, <2>3, <3>1
        <3>2. CASE d # c
            BY <1>6, <1>9, <2>1, <3>2 DEF JoinsTrue, Joining
        <3> QED BY <3>1, <3>2
    <2> QED BY <2>2, <2>4 DEF JoinsTrue
<1>15. AllSettled'
    <2>1. PICK s \in Ssids : s = join[c].ssid
        BY <1>2 DEF JoinCalls
    <2>2. \A z \in Ssids \ {s} : /\ z \in unsettled => z \in unsettled'
                                 /\ last'[z] = last[z] /\ Mine(z)' = Mine(z)
        BY <1>2, <1>3, <2>1 DEF Mine
    <2>3. ASSUME s \notin unsettled PROVE SettledAt(s)'
        <3>1. \A d \in CallersAt(s)' : d = c
            BY <1>2, <1>6, <2>1, <2>3, OwnProfiles DEF CallersAt
        <3>2. c \in CallersAt(s)'
            BY <1>5, <1>6, <2>1 DEF CallersAt
        <3>3. Mine(s) = {}
            BY <1>2, <2>1, <2>3, OwnProfiles
        <3>4. Mine(s)' = {new}
            BY <1>2, <1>3, <2>1, <3>3 DEF Mine
        <3> QED BY <1>1, <1>5, <1>6, <2>1, <3>1, <3>2, <3>4 DEF SettledAt
    <2> QED BY <1>2, <1>5, <1>6, <2>1, <2>2, <2>3, OwnNetwork
<1> QED BY <1>11, <1>12, <1>13, <1>14, <1>15

\* The address of a join that is up is asked for; what it came up with is a right key.
LEMMA ByConnection == ASSUME WifiInv, NEW c \in Joiners, Connected(c) PROVE WifiInv'
<1> USE DEF WifiInv
<1>1. PICK result \in {"connected", "error"} : JoinAnswers(c, result, FALSE)
    BY DEF Connected
<1>2. /\ JoinSettles(c, "connected", FALSE) /\ UNCHANGED <<saved, reason, joins>>
      /\ join[c].step = "watch" /\ joinFaults' \in 0..MaxJoinFaults
      /\ device.up /\ device.by = join[c].id
    BY JoinFaultType DEF Connected, StateOf, WifiTypeOK
<1>3. PICK s \in Ssids : s = join[c].ssid
    BY JoinType DEF JoinCalls
<1>4. /\ join' \in [Joiners -> JoinCalls] /\ join'[c] = AtRest
      /\ \A d \in Joiners \ {c} : join'[d] = join[d]
    BY <1>1, JoinEnds
<1>5. untrue' = {}
    BY <1>1, <1>2, AnswersTruly DEF JoinsTrue
<1>6. device' = [device EXCEPT !.by = NM]
    BY <1>2 DEF Connected
<1>7. DeviceOn' /\ device' \in [on: Ids \cup {NoNet}, by: Ids, up: BOOLEAN]
      /\ device'.by = NM /\ device'.up = device.up
    BY <1>2, <1>6, DeviceDisowned
<1>8. AllSettled'
    <2>1. \A z \in Ssids : Mine(z)' = Mine(z)
        BY <1>2 DEF Mine
    <2>2. join[c].right
        <3>1. join[c].id \in 1..joins /\ joins \in Nat
            BY <1>2, WifiNats DEF IdsApart, Joining, WifiTypeOK
        <3>2. device.on = join[c].id
            BY <1>2, <3>1 DEF DeviceOn, NM
        <3> QED BY <1>2, <3>2 DEF DeviceOn, RightKey, IdsApart
    <2>3. ASSUME s \notin unsettled
          PROVE  \E p \in Mine(s)' : Mine(s)' = {p} /\ p.right
        <3>1. PICK p : p = [id |-> join[c].id, ssid |-> s, right |-> join[c].right]
            OBVIOUS
        <3>2. p.right
            BY <2>2, <3>1
        <3>3. Mine(s)' = {p}
            BY <1>2, <1>3, <2>1, <2>3, <3>1, OwnProfiles
        <3> QED BY <3>2, <3>3
    <2> QED BY <1>2, <1>3, <1>4, <2>1, <2>3, EndsSettled
<1>9. /\ last' \in [Ssids -> {"connected", "failed"}] /\ unsettled' \subseteq Ssids
    BY <1>2, SettlesType DEF WifiTypeOK
<1> QED BY <1>2, <1>4, <1>5, <1>7, <1>8, <1>9, EndsInv

\* It answers that the key was wrong of its own activation's reason only, which says so.
LEMMA ByGivingUp == ASSUME WifiInv, NEW c \in Joiners, GivesUp(c) PROVE WifiInv'
<1> USE DEF WifiInv
<1> DEFINE r == IF join[c].heard # NoReason THEN join[c].heard ELSE reason
<1>1. /\ join[c].step = "watch" /\ joins' = joins /\ joinFaults' \in 0..MaxJoinFaults
      /\ join[c].id \in Ids
    BY JoinType, JoinFaultType DEF GivesUp, WifiTypeOK, JoinCalls
<1>2. \/ JoinAnswers(c, Failure(r.why), r.why = "key" /\ r.whose # join[c].id)
      \/ JoinAnswers(c, "failed", FALSE)
    BY DEF GivesUp
<1>3. \/ TakesOut(join[c].id) /\ JoinSettles(c, "failed", FALSE)
      \/ JoinSettles(c, "failed", TRUE) /\ UNCHANGED <<saved, reason>>
            /\ device' = [device EXCEPT !.by = IF @ = join[c].id THEN NM ELSE @]
    BY DEF GivesUp
<1>4. PICK s \in Ssids : s = join[c].ssid
    BY JoinType DEF JoinCalls
<1>5. /\ join' \in [Joiners -> JoinCalls] /\ join'[c] = AtRest
      /\ \A d \in Joiners \ {c} : join'[d] = join[d]
    BY <1>2, JoinEnds
<1>6. untrue' = {}
    <2>1. r.why = "key" /\ r.whose = join[c].id => ~join[c].right
        BY <1>1 DEF JoinsTrue, Joining
    <2>2. CASE JoinAnswers(c, Failure(r.why), r.why = "key" /\ r.whose # join[c].id)
        <3>1. Failure(r.why) # "connected" /\ (Failure(r.why) = "badkey" => r.why = "key")
            BY DEF Failure
        <3> HIDE DEF r
        <3> QED BY <2>1, <2>2, <3>1, AnswersTruly DEF JoinsTrue
    <2>3. CASE JoinAnswers(c, "failed", FALSE)
        BY <2>3, AnswersTruly DEF JoinsTrue
    <2> QED BY <1>2, <2>2, <2>3
<1> HIDE DEF r
<1>7. CASE TakesOut(join[c].id) /\ JoinSettles(c, "failed", FALSE)
    <2>1. WithoutNet({join[c].id})
        BY <1>7 DEF TakesOut
    <2>2. /\ DeviceOn' /\ saved' \subseteq saved /\ device' \in {device, OffAir}
          /\ reason' \in {reason, NoReason}
        BY <1>1, <2>1, DeviceWithout
    <2>3. device'.by \in {device.by, NM} /\ (device'.up => device.up)
        BY <2>2 DEF OffAir
    <2>4. /\ device' \in [on: Ids \cup {NoNet}, by: Ids, up: BOOLEAN]
        BY <1>1, <2>1, WithoutType
    <2>5. AllSettled'
        <3>1. /\ \A z \in Ssids \ {s} : Mine(z)' = Mine(z)
              /\ Mine(s)' = {p \in Mine(s) : p.id # join[c].id}
            BY <1>1, <1>4, <2>1, DeletesOwn
        <3>2. s \notin unsettled => Mine(s)' = {}
            BY <1>1, <1>4, <3>1, OwnProfiles
        <3> QED BY <1>1, <1>4, <1>5, <1>7, <3>1, <3>2, EndsSettled
    <2>6. last' \in [Ssids -> {"connected", "failed"}] /\ unsettled' \subseteq Ssids
        BY <1>7, SettlesType
    <2> QED BY <1>1, <1>5, <1>6, <2>2, <2>3, <2>4, <2>5, <2>6, EndsInv
<1>8. CASE /\ JoinSettles(c, "failed", TRUE) /\ UNCHANGED <<saved, reason>>
           /\ device' = [device EXCEPT !.by = IF @ = join[c].id THEN NM ELSE @]
    <2>1. PICK by \in {device.by, NM} : device' = [device EXCEPT !.by = by]
        BY <1>8
    <2>2. DeviceOn' /\ device' \in [on: Ids \cup {NoNet}, by: Ids, up: BOOLEAN]
          /\ device'.by \in {device.by, NM} /\ device'.up = device.up
        BY <1>8, <2>1, DeviceDisowned
    <2>3. AllSettled'
        <3>1. \A z \in Ssids : Mine(z)' = Mine(z)
            BY <1>8 DEF Mine
        <3> QED BY <1>1, <1>4, <1>5, <1>8, <3>1, EndsSettled
    <2>4. last' \in [Ssids -> {"connected", "failed"}] /\ unsettled' \subseteq Ssids
        BY <1>8, SettlesType
    <2> QED BY <1>1, <1>5, <1>6, <1>8, <2>2, <2>3, <2>4, EndsInv
<1> QED BY <1>3, <1>7, <1>8

\* A restart unsettles every network that a call is about.
LEMMA ByKill == ASSUME WifiInv, ConfigdKilled PROVE WifiInv'
<1> USE DEF WifiInv
<1>1. /\ \A c \in Joiners : join'[c] = AtRest
      /\ UNCHANGED <<saved, reason, untrue, last, joins>>
      /\ unsettled' = unsettled \cup {join[c].ssid : c \in {d \in Joiners : join[d].step # "rest"}}
      /\ joinFaults' \in 0..MaxJoinFaults /\ device' = [device EXCEPT !.by = NM]
    BY JoinFaultType DEF ConfigdKilled
<1>2. join' \in [Joiners -> JoinCalls]
    BY AtRestJoin DEF ConfigdKilled
<1>3. DeviceOn' /\ device' \in [on: Ids \cup {NoNet}, by: Ids, up: BOOLEAN]
      /\ device'.by = NM /\ device'.up = device.up
    BY <1>1, DeviceDisowned
<1>4. WifiTypeOK'
    <2>1. unsettled' \subseteq Ssids
        BY <1>1, JoinType DEF WifiTypeOK, JoinCalls
    <2> QED BY <1>1, <1>2, <1>3, <2>1 DEF WifiTypeOK, JoinCalls, JoinSteps
<1>5. IdsApart'
    BY <1>1, <1>2, IdsKept
<1>6. JoinsTrue'
    <2>1. untrue' = {}
        BY <1>1 DEF JoinsTrue
    <2> QED BY <1>1, <1>3, <2>1, TruthKept
<1>7. AllSettled'
    <2>1. ASSUME NEW s \in Ssids, s \notin unsettled' PROVE SettledAt(s)'
        <3>1. s \notin unsettled /\ \A c \in Joiners : join[c].ssid = s => join[c].step = "rest"
            BY <1>1, <2>1
        <3>2. CallersAt(s) = {} /\ CallersAt(s)' = {} /\ Mine(s)' = Mine(s)
            BY <1>1, <3>1, AtRestJoin DEF CallersAt, Mine
        <3> QED BY <1>1, <3>1, <3>2, StaysSettled DEF AllSettled
    <2> QED BY <2>1 DEF AllSettled
<1> QED BY <1>3, <1>4, <1>5, <1>6, <1>7

LEMMA WifiInvInit == WifiInit => WifiInv
<1> SUFFICES ASSUME WifiInit PROVE WifiInv
    OBVIOUS
<1> DEFINE home == [id |-> 0, ssid |-> AtRest.ssid, right |-> TRUE]
<1>1. /\ home \in Profile /\ home.id = 0 /\ home.ssid = AtRest.ssid /\ home.right = TRUE
      /\ saved = {home}
    BY AtRestJoin, WifiNats DEF WifiInit, Profile, NM
<1> HIDE DEF home
<1>2. /\ join \in [Joiners -> JoinCalls] /\ \A c \in Joiners : join[c] = AtRest
    BY AtRestJoin DEF WifiInit
<1>3. OffAir \in [on: Ids \cup {NoNet}, by: Ids, up: BOOLEAN]
      /\ OffAir.by = NM /\ OffAir.on = NoNet /\ OffAir.up = FALSE
      /\ device = OffAir /\ reason = NoReason /\ untrue = {} /\ unsettled = {}
      /\ joins = 0 /\ joinFaults = 0
    BY WifiNats DEF OffAir, WifiInit
<1>4. last \in [Ssids -> {"connected", "failed"}] /\ last[AtRest.ssid] = "connected"
      /\ \A s \in Ssids \ {AtRest.ssid} : last[s] = "failed"
    BY AtRestJoin DEF WifiInit
<1>5. 0 \in 0..MaxJoins /\ 0 \in 0..MaxJoinFaults
    BY WifiNats
<1>6. WifiTypeOK
    BY <1>1, <1>2, <1>3, <1>4, <1>5, WifiNats DEF WifiTypeOK, JoinCalls, JoinSteps
<1>7. IdsApart
    BY <1>1, <1>2, <1>3, AtRestJoin DEF IdsApart, Joining, Adding
<1>8. DeviceOn
    BY <1>3 DEF DeviceOn
<1>9. JoinsTrue
    <2>1. NoReason.whose = 0
        BY DEF NoReason, NM
    <2> QED BY <1>2, <1>3, <2>1, AtRestJoin DEF JoinsTrue, Joining
<1>10. AllSettled
    <2>1. ASSUME NEW s \in Ssids PROVE SettledAt(s)
        <3>1. CallersAt(s) = {}
            BY <1>2, AtRestJoin DEF CallersAt
        <3>2. IF last[s] = "connected" THEN \E p \in Mine(s) : Mine(s) = {p} /\ p.right
              ELSE Mine(s) = {}
            <4>1. CASE s = AtRest.ssid
                <5>1. Mine(s) = {home}
                    BY <1>1, <4>1 DEF Mine
                <5> QED BY <1>1, <1>4, <4>1, <5>1
            <4>2. CASE s # AtRest.ssid
                BY <1>1, <1>4, <4>2 DEF Mine
            <4> QED BY <4>1, <4>2
        <3> QED BY <3>1, <3>2 DEF SettledAt
    <2> QED BY <2>1 DEF AllSettled
<1> QED BY <1>6, <1>7, <1>8, <1>9, <1>10 DEF WifiInv

LEMMA WifiInvStep == WifiInv /\ [WifiNext]_wifiVars => WifiInv'
<1> SUFFICES ASSUME WifiInv, [WifiNext]_wifiVars PROVE WifiInv'
    OBVIOUS
<1>1. CASE UNCHANGED wifiVars
    BY <1>1 DEF wifiVars, nmVars, WifiInv, WifiTypeOK, IdsApart, DeviceOn, JoinsTrue, AllSettled,
                SettledAt, CallersAt, Mine, Joining, Adding, RightKey
<1>2. CASE \E c \in Joiners : Forgets(c) \/ AddFails(c)
    BY <1>2, ByEndOfList
<1> QED
    BY <1>1, <1>2, ByAutoconnect, ByAssociation, ByDrop, ByKill, ByAsking, ByListing,
       ByDeleting, ByDeleteFailure, ByAdding, ByConnection, ByGivingUp
    DEF WifiNext

\* Every variable of the joins has its type.
THEOREM WifiType == WifiSpec => []WifiTypeOK
BY WifiInvInit, WifiInvStep, PTL DEF WifiSpec, WifiInv

\* A join answers that it is connected of its own activation only, and calls only a wrong
\* key wrong (JoinAnswersTrue).  That a device with a join's id is on the profile that join
\* added, with the join's own key, takes ids that no two calls or profiles share.
THEOREM JoinsAnswerTruly == WifiSpec => []JoinAnswersTrue
<1>1. WifiInv => JoinAnswersTrue
    BY DEF WifiInv, JoinsTrue, JoinAnswersTrue
<1> QED BY <1>1, WifiInvInit, WifiInvStep, PTL DEF WifiSpec

\* Between calls a network has the one profile that its last answer says, or none
\* (OneProfile).  The invariant, AllSettled, also says what a call in the middle has left of
\* its network's profiles to delete, or has made of them.
THEOREM ProfilesAreAnswered == WifiSpec => []OneProfile
<1>1. WifiInv => OneProfile
    <2> SUFFICES ASSUME WifiInv, NEW s \in Ssids \ unsettled,
                        \A c \in Joiners : join[c].step = "rest" \/ join[c].ssid # s
                 PROVE  IF last[s] = "connected" THEN \E p \in Mine(s) : Mine(s) = {p} /\ p.right
                        ELSE Mine(s) = {}
        BY DEF OneProfile, Mine
    <2>1. CallersAt(s) = {}
        BY DEF CallersAt
    <2> QED BY <2>1 DEF WifiInv, AllSettled, SettledAt
<1> QED BY <1>1, WifiInvInit, WifiInvStep, PTL DEF WifiSpec
=============================================================================
