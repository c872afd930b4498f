----------------------------- MODULE PadPairing -----------------------------
(***************************************************************************)
(* configd pairs gamepads through BlueZ (configd/src/bluez.rs).  A pairing *)
(* looks for a pad with discovery on, turns discovery off, serves an agent *)
(* for that one pad, connects, waits for the bond that connecting may have *)
(* begun, asks for one if there is none, and then trusts the pad.  One     *)
(* pairing at a time; a pad can be forgotten at any time.                  *)
(*                                                                         *)
(* What BlueZ answers does not say what happened: a bond lands some time   *)
(* after Connect, and Pair never answers while one is in flight.           *)
(***************************************************************************)
EXTENDS Naturals, FiniteSets

CONSTANTS
    Askers,   \* connections to configd
    Pads,      \* addresses of pads: naturals, of which the lowest is the first
    MaxPairings,  \* bound: pairings
    MaxPairFaults  \* bound: D-Bus pairings that fail

NoCaller == "nobody"
NoPad  == 0
AnyPad == 0

ASSUME PadsAssumption == Pads \subseteq Nat \ {0} /\ IsFiniteSet(Pads) /\ NoCaller \notin Askers
ASSUME PairingBounds  == {MaxPairings, MaxPairFaults} \subseteq Nat

VARIABLES
    asking,     \* pads in pairing mode
    known,      \* pads that have an object in BlueZ
    paired,     \* pads with a bond
    trusted,    \* pads that may reconnect by themselves
    flying,     \* pads with a bond in flight
    discovery,  \* the adapter scans
    agent,      \* the pad that configd's agent permits
    pairing,    \* the lock: one pairing at a time
    pairCall,       \* the call of each connection
    unattended,    \* history: bonded pads that no pairing was there to trust, or could
    pairings, pairFaults   \* how many so far

bluez   == <<asking, known, paired, trusted, flying>>
ours    == <<discovery, agent, pairing>>
pairingVars == <<bluez, ours, pairCall, unattended, pairings, pairFaults>>

NoPairing == [step |-> "rest", wants |-> AnyPad, pad |-> NoPad, had |-> FALSE]

PairingTypeOK ==
    /\ {asking, known, paired, trusted, flying, unattended} \subseteq SUBSET Pads
    /\ paired \cup trusted \subseteq known
    /\ discovery \in BOOLEAN /\ agent \in Pads \cup {NoPad}
    /\ pairing \in Askers \cup {NoCaller}
    /\ pairCall \in [Askers -> [step: {"rest", "lock", "find", "agent", "connect", "settle",
                                    "pair", "due", "trust", "withdraw"},
                             wants: Pads \cup {AnyPad}, pad: Pads \cup {NoPad},
                             had: BOOLEAN]]
    /\ pairings \in 0..MaxPairings /\ pairFaults \in 0..MaxPairFaults

PairingInit ==
    /\ asking = {} /\ known = {} /\ paired = {} /\ trusted = {} /\ flying = {}
    /\ discovery = FALSE /\ agent = NoPad /\ pairing = NoCaller
    /\ pairCall = [c \in Askers |-> NoPairing]
    /\ unattended = {}
    /\ pairings = 0 /\ pairFaults = 0

----------------------------------------------------------------------------
(* Pads and BlueZ.                                                          *)

\* Someone holds the sync button of a pad, or its pairing mode runs out.
Button ==
    /\ \E p \in Pads : asking' = IF p \in asking THEN asking \ {p} ELSE asking \cup {p}
    /\ UNCHANGED <<known, paired, trusted, flying, ours, pairCall, unattended, pairings, pairFaults>>

Discovered ==
    /\ discovery
    /\ \E p \in asking \ known : known' = known \cup {p}
    /\ UNCHANGED <<asking, paired, trusted, flying, ours, pairCall, unattended, pairings, pairFaults>>

\* The pad that is being paired, by a call that will trust it.
Attended(p) ==
    pairing # NoCaller /\ pairCall[pairing].pad = p
        /\ pairCall[pairing].step \in {"agent", "connect", "settle", "pair", "trust"}

\* A bond lands, or comes to nothing.  It is authorised by configd's agent; when that is
\* gone, by another daemon's or by none.
BondLands(p) ==
    /\ p \in flying /\ flying' = flying \ {p}
    /\ agent \in {p, NoPad}
    /\ paired' = paired \cup {p}
    /\ unattended' = IF Attended(p) THEN unattended ELSE unattended \cup {p}
    /\ UNCHANGED <<asking, known, trusted, ours, pairCall, pairings, pairFaults>>

BondFails(p) ==
    /\ p \in flying /\ flying' = flying \ {p}
    /\ UNCHANGED <<asking, known, paired, trusted, ours, pairCall, unattended, pairings, pairFaults>>

----------------------------------------------------------------------------
(* Calls.                                                                   *)

PairFault == pairFaults < MaxPairFaults /\ pairFaults' = pairFaults + 1

PairGoto(c, step) == pairCall' = [pairCall EXCEPT ![c].step = step]

PairAsks(c) ==
    /\ pairCall[c].step = "rest" /\ pairings < MaxPairings /\ pairings' = pairings + 1
    /\ \E p \in Pads \cup {AnyPad} :
           pairCall' = [pairCall EXCEPT ![c] = [NoPairing EXCEPT !.step = "lock", !.wants = p]]
    /\ UNCHANGED <<bluez, ours, unattended, pairFaults>>

\* RemoveDevice drops the object with its keys.  Nothing makes it wait for a pairing.
ForgetPad(p) ==
    /\ p \in known /\ pairings < MaxPairings /\ pairings' = pairings + 1
    /\ known' = known \ {p} /\ paired' = paired \ {p} /\ trusted' = trusted \ {p}
    /\ flying' = flying \ {p} /\ unattended' = unattended \ {p}
    /\ UNCHANGED <<asking, ours, pairCall, pairFaults>>

\* The lock is given back with the answer.
PairReturns(c) == pairing' = NoCaller /\ pairCall' = [pairCall EXCEPT ![c] = NoPairing]

\* There is no adapter, or discovery cannot be started.
Searches(c) ==
    /\ pairCall[c].step = "lock" /\ pairing = NoCaller
    /\ \/ pairing' = c /\ discovery' = TRUE /\ PairGoto(c, "find") /\ UNCHANGED pairFaults
       \/ PairFault /\ PairReturns(c) /\ UNCHANGED discovery
    /\ UNCHANGED <<bluez, agent, unattended, pairings>>

\* A pad that is not bonded yet wins, since that is the one somebody holds; more than one
\* of those are refused.
Chosen(matches) ==
    LET fresh == matches \ paired IN
    IF fresh = {} THEN {p \in matches : \A q \in matches : p <= q}
    ELSE IF Cardinality(fresh) = 1 THEN fresh ELSE {}

\* The sweep ends on what it looks for, or at its deadline with what there is, or in an
\* error; and discovery with it, unless BlueZ refuses.
Finds(c) ==
    LET wants   == pairCall[c].wants
        matches == IF wants = AnyPad THEN known ELSE known \cap {wants} IN
    /\ pairCall[c].step = "find"
    /\ \/ /\ \E p \in Chosen(matches) :
                 pairCall' = [pairCall EXCEPT ![c].step = "agent", ![c].pad = p,
                                              ![c].had = p \in paired]
          /\ UNCHANGED pairing
          /\ \/ discovery' = FALSE /\ UNCHANGED pairFaults
             \/ PairFault /\ UNCHANGED discovery
       \/ /\ PairReturns(c) /\ discovery' = FALSE
          /\ \/ Chosen(matches) = {} /\ UNCHANGED pairFaults
             \/ PairFault
    /\ UNCHANGED <<bluez, agent, unattended, pairings>>

\* The agent is served and claims the default role; or does without; or cannot be served,
\* which ends the call.
ServesAgent(c) ==
    LET p    == pairCall[c].pad
        next == PairGoto(c, IF pairCall[c].had THEN "trust" ELSE "connect")
                    /\ UNCHANGED <<pairing, unattended>> IN
    /\ pairCall[c].step = "agent"
    /\ \/ next /\ agent' = p /\ UNCHANGED pairFaults
       \/ next /\ PairFault /\ UNCHANGED agent
       \/ PairReturns(c) /\ PairFault /\ UNCHANGED agent
              /\ unattended' = unattended \cup (({p} \cap paired) \ trusted)
    /\ UNCHANGED <<bluez, discovery, pairings>>

\* Connecting a pad that has no bond begins one, in flight when Connect returns and
\* perhaps even when it fails; only a connection is waited on.
Connects(c) ==
    /\ pairCall[c].step = "connect"
    /\ flying' \in {flying, flying \cup ({pairCall[c].pad} \cap ((asking \cap known) \ paired))}
    /\ \E next \in {"settle", "pair"} : PairGoto(c, next)
    /\ UNCHANGED <<asking, known, paired, trusted, ours, unattended, pairings, pairFaults>>

Bonded(c) == pairCall[c].pad \in paired

\* wait_until_paired, until BOND_SETTLE has passed.
BondSettles(c) ==
    /\ pairCall[c].step = "settle"
    /\ PairGoto(c, IF Bonded(c) THEN "trust" ELSE "pair")
    /\ UNCHANGED <<bluez, ours, unattended, pairings, pairFaults>>

\* Pair bonds a pad that has no bond in flight, and answers.
PairAnswers(c) ==
    /\ pairCall[c].step = "pair"
    /\ pairCall[c].pad \in (asking \cap known) \ (flying \cup paired)
    /\ paired' = paired \cup {pairCall[c].pad}
    /\ PairGoto(c, "trust")
    /\ UNCHANGED <<asking, known, trusted, flying, ours, unattended, pairings, pairFaults>>

PairRefuses(c) ==
    /\ pairCall[c].step = "pair" /\ pairCall[c].pad \notin flying \cup paired
    /\ PairGoto(c, "withdraw")
    /\ UNCHANGED <<bluez, ours, unattended, pairings, pairFaults>>

\* Variant of PairIsSeen: only the answer of Pair is taken.
PairIsBelieved(c) == PairGoto(c, "due")

\* The bond is there, whoever made it; or there was none the last time the property was
\* read before BOND_TIMEOUT.
PairIsSeen(c) == PairGoto(c, IF Bonded(c) THEN "trust" ELSE "due")

PairWaits(c) ==
    /\ pairCall[c].step = "pair" /\ PairIsSeen(c)
    /\ UNCHANGED <<bluez, ours, unattended, pairings, pairFaults>>

PairTimesOut(c) ==
    /\ pairCall[c].step = "due" /\ PairGoto(c, "withdraw")
    /\ UNCHANGED <<bluez, ours, unattended, pairings, pairFaults>>

\* set_trusted, which a pad that was forgotten meanwhile has no object for.
Trusts(c) ==
    LET p == pairCall[c].pad IN
    /\ pairCall[c].step = "trust" /\ PairGoto(c, "withdraw")
    /\ \/ /\ trusted' = trusted \cup ({p} \cap known)
          /\ unattended' = unattended \ {p} /\ UNCHANGED pairFaults
       \/ PairFault /\ unattended' = unattended \cup ({p} \cap paired) /\ UNCHANGED trusted
    /\ UNCHANGED <<asking, known, paired, flying, ours, pairings>>

\* The agent is withdrawn on every way out of bond.
Withdraws(c) ==
    /\ pairCall[c].step = "withdraw"
    /\ agent' = NoPad /\ PairReturns(c)
    /\ UNCHANGED <<bluez, discovery, unattended, pairings, pairFaults>>

\* configd is restarted: its bus name goes, and with it its calls, agent and discovery.
PairingLost ==
    /\ PairFault
    /\ pairCall' = [c \in Askers |-> NoPairing] /\ pairing' = NoCaller
    /\ agent' = NoPad /\ discovery' = FALSE
    /\ unattended' = unattended \cup (paired \ trusted)
    /\ UNCHANGED <<bluez, pairings>>

----------------------------------------------------------------------------
PairingNext ==
    \/ Button \/ Discovered \/ PairingLost
    \/ \E p \in Pads : BondLands(p) \/ BondFails(p) \/ ForgetPad(p)
    \/ \E c \in Askers :
           \/ PairAsks(c) \/ Searches(c) \/ Finds(c) \/ ServesAgent(c) \/ Connects(c) \/ BondSettles(c)
           \/ PairAnswers(c) \/ PairRefuses(c) \/ PairWaits(c) \/ PairTimesOut(c)
           \/ Trusts(c) \/ Withdraws(c)

PairingSpec == PairingInit /\ [][PairingNext]_pairingVars

----------------------------------------------------------------------------
(* Properties. *)

\* With no pairing under way a pad that is bonded is trusted, so that it reconnects
\* after a reboot, whenever its bond landed: after Connect, under a Pair that never
\* answers, or while another call forgot it; unless the bond landed when no pairing was
\* waiting for it any more, or BlueZ refused the trust (bluez.rs:585-632).
BondedIsTrusted == pairing = NoCaller => paired \subseteq trusted \cup unattended
=============================================================================
