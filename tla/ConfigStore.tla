---------------------------- MODULE ConfigStore ----------------------------
(***************************************************************************)
(* configd's configuration file: the robot's name and its pairing PIN, in  *)
(* one JSON file (configd/src/store.rs).  Every connection may set either. *)
(* A write reads the file, changes its field, takes the lock, writes a     *)
(* temporary file, syncs it, renames it over the file and syncs the        *)
(* directory, and then answers.  Any step may fail, the process may be     *)
(* killed and the power may be cut between any two.                        *)
(***************************************************************************)
EXTENDS Naturals, FiniteSets

CONSTANTS
    Writers,    \* connections that set a field
    Values,     \* what a field may be set to
    Unset,      \* the value of a field that is not in the file
    MaxWrites,  \* bound: writes begun
    MaxErrors,  \* bound: I/O errors
    MaxCuts     \* bound: power cuts and kills

Fields   == {"name", "pairing_pin"}
Settings == [Fields -> Values \cup {Unset}]
Default  == [f \in Fields |-> Unset]
Unlocked == "unlocked"

ASSUME StoreAssumption ==
    Unset \notin Values /\ "torn" \notin Values \cup {Unset} /\ Unlocked \notin Writers
ASSUME StoreBounds == {MaxWrites, MaxErrors, MaxCuts} \subseteq Nat

VARIABLES
    file,      \* the file: its settings and whether their bytes are on the disk
    disk,      \* what a power cut may leave of the file
    temp,      \* the temporary file
    lock,      \* who holds the flock
    writer,    \* the write of each connection
    vouched,   \* history: the values each field may have, by what was answered
    writes, errors, cuts   \* how many so far

budget    == <<writes, errors, cuts>>
storeVars == <<file, disk, temp, lock, writer, vouched, budget>>

Torn   == [f \in Fields |-> "torn"]
Image  == [holds: Settings \cup {Torn}, synced: BOOLEAN]
Resting == [at |-> "rest", field |-> "name", value |-> Unset, config |-> Default,
            fresh |-> TRUE]

StoreTypeOK ==
    /\ file \in Image /\ temp \in Image
    /\ disk \subseteq Settings \cup {Torn}
    /\ lock \in Writers \cup {Unlocked}
    /\ writer \in [Writers -> [at: {"rest", "lock", "write", "sync", "rename", "settle"},
                               field: Fields, value: Values \cup {Unset},
                               config: Settings, fresh: BOOLEAN]]
    /\ vouched \in [Fields -> SUBSET (Values \cup {Unset})]
    /\ writes \in 0..MaxWrites /\ errors \in 0..MaxErrors /\ cuts \in 0..MaxCuts

StoreInit ==
    /\ file = [holds |-> Default, synced |-> TRUE] /\ temp = file
    /\ disk = {Default}
    /\ lock = Unlocked
    /\ writer = [w \in Writers |-> Resting]
    /\ vouched = [f \in Fields |-> {Unset}]
    /\ writes = 0 /\ errors = 0 /\ cuts = 0

----------------------------------------------------------------------------
(* A write.                                                                 *)

Error == errors < MaxErrors /\ errors' = errors + 1

\* set_name and set_pairing_pin read the file before write takes the lock.  A file
\* that cannot be read, or parsed, counts as empty.
Reads(w) ==
    /\ writer[w].at = "rest" /\ writes < MaxWrites /\ writes' = writes + 1
    /\ \E f \in Fields, v \in Values :
           LET sets(c, fresh) == writer' = [writer EXCEPT ![w] =
                   [at |-> "lock", field |-> f, value |-> v,
                    config |-> [c EXCEPT ![f] = v], fresh |-> fresh]]
           IN  IF file.holds \in Settings
               THEN \/ sets(file.holds, TRUE) /\ UNCHANGED errors
                    \/ Error /\ sets(Default, FALSE)
               ELSE sets(Default, FALSE) /\ UNCHANGED errors
    /\ UNCHANGED <<file, disk, temp, lock, vouched, cuts>>

Moves(w, place) == writer' = [writer EXCEPT ![w].at = place]

Locks(w) ==
    /\ writer[w].at = "lock" /\ lock = Unlocked
    /\ lock' = w /\ Moves(w, "write")
    /\ UNCHANGED <<file, disk, temp, vouched, budget>>

Writes(w) ==
    /\ writer[w].at = "write"
    /\ temp' = [holds |-> writer[w].config, synced |-> FALSE]
    /\ Moves(w, "sync")
    /\ UNCHANGED <<file, disk, lock, vouched, budget>>

\* Variant of Syncs: the temporary file is not synced before it is renamed.
SyncsNothing(w) ==
    /\ writer[w].at = "sync" /\ Moves(w, "rename")
    /\ UNCHANGED <<file, disk, temp, lock, vouched, budget>>

Syncs(w) ==
    /\ writer[w].at = "sync" /\ Moves(w, "rename")
    /\ temp' = [temp EXCEPT !.synced = TRUE]
    /\ UNCHANGED <<file, disk, lock, vouched, budget>>

\* What a power cut may leave of a file of which only the directory entry is certain.
Leaves(image) == {image.holds} \cup IF image.synced THEN {} ELSE {Torn}

\* The rename replaces the file at once, and on the disk at some later time.  From then
\* on the field may have the new value; and every other the one this write read, when
\* another write has renamed since.
Renames(w) ==
    LET x == writer[w] IN
    /\ x.at = "rename"
    /\ file' = temp
    /\ disk' = disk \cup Leaves(temp)
    /\ writer' = [v \in Writers |-> IF v = w THEN [x EXCEPT !.at = "settle"]
                                    ELSE [writer[v] EXCEPT !.fresh = writer[v].at = "rest"]]
    /\ vouched' = [f \in Fields |->
           IF f = x.field \/ ~x.fresh THEN vouched[f] \cup {x.config[f]} ELSE vouched[f]]
    /\ UNCHANGED <<temp, lock, budget>>

\* The directory is synced, the lock given back and the value answered.
Settles(w) ==
    /\ writer[w].at = "settle"
    /\ disk' = Leaves(file)
    /\ lock' = Unlocked /\ writer' = [writer EXCEPT ![w] = Resting]
    /\ vouched' = [vouched EXCEPT ![writer[w].field] = {writer[w].value}]
    /\ UNCHANGED <<file, temp, budget>>

\* A step that fails answers an error: what has been done stays done.
Fails(w) ==
    /\ writer[w].at # "rest" /\ Error
    /\ lock' = IF lock = w THEN Unlocked ELSE lock
    /\ writer' = [writer EXCEPT ![w] = Resting]
    /\ UNCHANGED <<file, disk, temp, vouched, writes, cuts>>

----------------------------------------------------------------------------
(* The end of the process.                                                  *)

Gone == /\ cuts < MaxCuts /\ cuts' = cuts + 1
        /\ lock' = Unlocked /\ writer' = [w \in Writers |-> Resting]
        /\ UNCHANGED <<temp, vouched, writes, errors>>

\* configd dies, and the file system does not.
Killed == Gone /\ UNCHANGED <<file, disk>>

PowerCut ==
    /\ Gone
    /\ \E c \in disk : file' = [holds |-> c, synced |-> TRUE]
    /\ disk' = {file'.holds}

----------------------------------------------------------------------------
StoreNext ==
    \/ \E w \in Writers : \/ Reads(w) \/ Locks(w) \/ Writes(w) \/ Syncs(w)
                          \/ Renames(w) \/ Settles(w) \/ Fails(w)
    \/ Killed \/ PowerCut

StoreSpec == StoreInit /\ [][StoreNext]_storeVars

----------------------------------------------------------------------------
(* Properties. *)

\* A power cut never leaves a file that cannot be read, nor takes back a value that was
\* answered: each field holds the last value answered, or one whose write came later and
\* was not answered.  A write of the other field takes a value back only if it overlapped
\* with the one that set it, or could not read the file (store.rs:94-107, 152-184).
AnsweredIsKept ==
    \A c \in disk \cup {file.holds} :
        c # Torn /\ \A f \in Fields : c[f] \in vouched[f]
=============================================================================
