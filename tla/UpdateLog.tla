------------------------------ MODULE UpdateLog ------------------------------
(***************************************************************************)
(* update-log.jsonl, the log of update attempts (updater/src/journal.rs,   *)
(* Journal), line by line: an entry is appended and synced, then the log   *)
(* is trimmed to its newest entries by a write to another file and a       *)
(* rename, which is taken as one step here (BootCounter has its parts).    *)
(* Errors, kills and power cuts fall between and into these steps, and an  *)
(* append may end anywhere in its line, also within a character.  What     *)
(* the engine reads from the log is the releases known to be bad.          *)
(***************************************************************************)
EXTENDS Integers, FiniteSets, Sequences

CONSTANTS
    Releases,
    MaxEntries,   \* entries that trim keeps (LOG_CAPACITY)
    MaxAppends,   \* bound: entries appended
    MaxMishaps    \* bound: errors, kills and power cuts

ASSUME LogAssumption ==
    MaxEntries \in Nat \ {0} /\ MaxAppends \in Nat /\ MaxMishaps \in Nat

VARIABLES
    logged,    \* the entries there have been, oldest first, by their numbers
    lines,     \* the file
    lasting,   \* the files a power cut may leave
    phase,     \* where the append is
    answered,  \* history: entries whose append returned Ok
    glued,     \* history: entries appended to a line without an end
    mishaps    \* errors, kills and power cuts so far

logVars == <<logged, lines, lasting, phase, answered, glued, mishaps>>

\* An attempt is about a release and was rolled back, or was not.
Entries == [about : Releases, bad : BOOLEAN]

\* The entries whose line parses; whether the last line has no end, and which entry that
\* line is, 0 if it does not parse; and whether a torn character is in the file.
Files == [whole : SUBSET (Nat \ {0}), open : BOOLEAN, bare : Nat, broken : BOOLEAN]
NoLines == [whole |-> {}, open |-> FALSE, bare |-> 0, broken |-> FALSE]

LogTypeOK ==
    /\ logged \in Seq(Entries)
    /\ lines \in Files /\ lasting \subseteq Files
    /\ \A f \in lasting \cup {lines} : f.whole \subseteq 1..Len(logged) /\ (f.bare # 0 => f.open)
    /\ phase \in {"rest", "sync", "trim"} /\ (phase # "rest" => ~lines.open)
    /\ answered \subseteq 1..Len(logged) /\ glued \subseteq 1..Len(logged)
    /\ mishaps \in 0..MaxMishaps

\* read_all skips lines that do not parse, and fails on a file that is not UTF-8.
Readable == IF lines.broken THEN {} ELSE lines.whole

\* Releases whose latest outcome was a rollback.
KnownBad ==
    {r \in Releases : \E n \in Readable :
        /\ logged[n].about = r /\ logged[n].bad
        /\ \A m \in Readable : logged[m].about = r => m <= n}

LogInit ==
    /\ logged = <<>> /\ lines = NoLines /\ lasting = {NoLines} /\ phase = "rest"
    /\ answered = {} /\ glued = {} /\ mishaps = 0

-----------------------------------------------------------------------------
(* What an append of entry n leaves of file f. *)

\* A last line without an end is gone with what is appended to it.
Joined(f) == [f EXCEPT !.whole = IF f.open THEN @ \ {f.bare} ELSE @, !.open = TRUE, !.bare = 0]

Complete(f, n) ==
    IF f.open THEN [Joined(f) EXCEPT !.open = FALSE]
    ELSE [f EXCEPT !.whole = @ \cup {n}]

\* Part of a line, part of a character in it, or all of it but its end.
Partial(f, n) ==
    {Joined(f), [Joined(f) EXCEPT !.broken = TRUE]}
        \cup (IF f.open THEN {} ELSE {[f EXCEPT !.whole = @ \cup {n}, !.open = TRUE, !.bare = n]})

NoMishap == UNCHANGED mishaps
Mishap   == mishaps < MaxMishaps /\ mishaps' = mishaps + 1

\* The entry becomes part of the history, the file one of fs, and a cut leaves one of cuts.
Appends(e, fs, cuts, next) ==
    /\ phase = "rest" /\ Len(logged) < MaxAppends
    /\ logged' = Append(logged, e)
    /\ lines' \in fs /\ lasting' = lasting \cup cuts
    /\ glued' = IF lines.open THEN glued \cup {Len(logged) + 1} ELSE glued
    /\ phase' = next
    /\ UNCHANGED answered

LineWritten(e) ==
    LET all  == Complete(lines, Len(logged) + 1)
        part == Partial(lines, Len(logged) + 1)
    IN  Appends(e, {all}, part \cup {all}, "sync") /\ NoMishap

\* write_all fails, or the process is killed, with some of the line written or none.
LineTorn(e) ==
    LET part == Partial(lines, Len(logged) + 1)
    IN  Appends(e, part \cup {lines}, part, "rest") /\ Mishap

Synced ==
    /\ phase = "sync" /\ phase' = "trim"
    /\ lasting' = {lines}
    /\ UNCHANGED <<logged, lines, answered, glued, mishaps>>

\* Variant of Kept: the oldest entries are kept.
KeptOldest == {n \in lines.whole : Cardinality({m \in lines.whole : m < n}) < MaxEntries}

\* The newest entries, when there are too many.
Kept == {n \in lines.whole : Cardinality({m \in lines.whole : m > n}) < MaxEntries}

\* There are too many: the file is replaced by one of whole lines.
TooMany == ~lines.broken /\ Kept # lines.whole
Trim    == lines' = [NoLines EXCEPT !.whole = Kept]

\* A file that cannot be read is an error of the append.
Trimmed ==
    /\ phase = "trim" /\ phase' = "rest"
    /\ IF TooMany THEN Trim /\ lasting' = {lines'} ELSE UNCHANGED <<lines, lasting>>
    /\ answered' = IF lines.broken THEN answered ELSE answered \cup {Len(logged)}
    /\ UNCHANGED <<logged, glued, mishaps>>

\* An error or a kill, which the rename may have come before.
Stopped ==
    /\ Mishap /\ phase # "rest" /\ phase' = "rest"
    /\ \/ UNCHANGED lines
       \/ phase = "trim" /\ TooMany /\ Trim
    /\ lasting' = lasting \cup {lines'}
    /\ UNCHANGED <<logged, answered, glued>>

LogPowerGoes ==
    /\ Mishap
    /\ lines' \in lasting /\ lasting' = {lines'} /\ phase' = "rest"
    /\ UNCHANGED <<logged, answered, glued>>

LogNext ==
    \/ \E e \in Entries : LineWritten(e) \/ LineTorn(e)
    \/ Synced \/ Trimmed \/ Stopped \/ LogPowerGoes

LogSpec == LogInit /\ [][LogNext]_logVars

-----------------------------------------------------------------------------
(* Properties.                                                             *)

Recent(n) == n > Len(logged) - MaxEntries

\* An entry that was logged is read until MaxEntries newer ones were appended, after
\* whatever errors, kills and power cuts, unless it was appended to a line without an end
\* or a character is torn (Journal::append: durable enough to survive the power loss a
\* failed update can itself provoke).
AnsweredIsRead ==
    \A n \in answered \ glued : Recent(n) /\ ~lines.broken => n \in lines.whole

\* A release whose latest outcome was logged is known bad if and only if that was a
\* rollback, until MaxEntries newer entries push it out, with the same exceptions
\* (Journal::known_bad: latest outcome rather than ever-failed).
BlacklistIsTrue ==
    \A n \in answered \ glued :
        /\ Recent(n) /\ ~lines.broken
        /\ \A m \in 1..Len(logged) : logged[m].about = logged[n].about => m <= n
        => (logged[n].about \in KnownBad <=> logged[n].bad)

\* Each error, kill and cut leaves at most one entry too many, until the next append that is
\* not disturbed; a log that cannot be read is not bounded (Journal::trim: keep the log bounded).
LogIsBounded ==
    ~lines.broken =>
        Cardinality(lines.whole) <= MaxEntries + mishaps + (IF phase = "rest" THEN 0 ELSE 1)

\* A line that was torn does not make the log unreadable (Journal::append: refusing to read
\* the log because of it is not acceptable).
TornCostsNotTheLog == \A n \in answered \ glued : Recent(n) => n \in Readable
=============================================================================
