---------------------------- MODULE SchemaCache -----------------------------
(***************************************************************************)
(* What the client knows of the columns of a measurement: the cache of     *)
(* ensureSchema, its one discovery at a time, and the fallback when a      *)
(* discovery fails (internal/influx/client.go).                            *)
(*                                                                         *)
(* A column that is not known is guessed from the values in the answer.    *)
(***************************************************************************)
EXTENDS Naturals, FiniteSets

CONSTANTS
    Queries,        \* goroutines that read this measurement
    Columns,        \* columns that the measurement has sooner or later
    Tags,           \* those that are tags
    TagColumns,     \* the tags that are configured; none: they are discovered
    MaxFaults       \* bound on failed requests and cancelled queries

ASSUME SchemaAssumption ==
    /\ IsFiniteSet(Queries) /\ Tags \subseteq Columns /\ TagColumns \subseteq Tags
    /\ MaxFaults \in Nat

VARIABLES
    columns,    \* the columns at the source
    cache,      \* [known, degraded, fresh, exists]
    flying,     \* whether schemaFlights has a discovery
    call,       \* [pc, found, failed] of each query
    used,       \* the columns that were known to the last rows each query converted
    faults

vars == <<columns, cache, flying, call, used, faults>>

NoEntry == [known |-> {}, degraded |-> FALSE, fresh |-> FALSE, exists |-> FALSE]
Entry(known, degraded) == [known |-> known, degraded |-> degraded, fresh |-> TRUE, exists |-> TRUE]
Idle == [pc |-> "idle", found |-> {}, failed |-> FALSE]

Caches == [known : SUBSET Columns, degraded : BOOLEAN, fresh : BOOLEAN, exists : BOOLEAN]
Calls == [pc : {"idle", "wait", "woken", "tags", "fields", "publish"},
          found : SUBSET Columns, failed : BOOLEAN]

TypeOK ==
    /\ columns \subseteq Columns
    /\ cache \in Caches
    /\ flying \in BOOLEAN
    /\ call \in [Queries -> Calls]
    /\ used \in [Queries -> SUBSET Columns]
    /\ faults \in 0 .. MaxFaults

Init ==
    /\ columns \in SUBSET Columns
    /\ cache = NoEntry /\ flying = FALSE
    /\ call = [q \in Queries |-> Idle]
    /\ used = [q \in Queries |-> {}]
    /\ faults = 0
-----------------------------------------------------------------------------
Fault == faults < MaxFaults /\ faults' = faults + 1
Goto(q, stage) == call' = [call EXCEPT ![q].pc = stage]

\* seriesToPoints: known columns as what they are, the others as what they look like.
Convert(q, entry) ==
    /\ used' = [used EXCEPT ![q] = entry.known]
    /\ call' = [call EXCEPT ![q] = Idle]

\* ensureSchema: the entry in the cache if it is fresh,
Hit(q) ==
    /\ call[q].pc = "idle"
    /\ cache.fresh
    /\ Convert(q, cache)
    /\ UNCHANGED <<columns, cache, flying, faults>>

\* or the discovery that is running,
Join(q) ==
    /\ call[q].pc = "idle"
    /\ ~cache.fresh /\ flying
    /\ Goto(q, "wait")
    /\ UNCHANGED <<columns, cache, flying, used, faults>>

\* Variant for a mutation: everybody discovers for himself.
BuggyDiscover(q) ==
    /\ call[q].pc = "idle"
    /\ ~cache.fresh
    /\ flying' = TRUE
    /\ call' = [call EXCEPT ![q] = [pc |-> "tags", found |-> {}, failed |-> FALSE]]
    /\ UNCHANGED <<columns, cache, used, faults>>

\* or a new one.
Discover(q) ==
    /\ call[q].pc = "idle"
    /\ ~cache.fresh /\ ~flying
    /\ flying' = TRUE
    /\ call' = [call EXCEPT ![q] = [pc |-> IF TagColumns = {} THEN "tags" ELSE "fields",
                                    found |-> TagColumns, failed |-> FALSE]]
    /\ UNCHANGED <<columns, cache, used, faults>>

(***************************************************************************)
(* fetchSchema: SHOW TAG KEYS, then SHOW FIELD KEYS; one failing does not  *)
(* keep the other from being asked.                                        *)
(***************************************************************************)
Request(q) == IF call[q].pc = "tags" THEN columns \cap Tags ELSE columns \ Tags

Fetch(q) ==
    /\ call[q].pc \in {"tags", "fields"}
    /\ call' = [call EXCEPT ![q].found = @ \cup Request(q),
                            ![q].pc = IF @ = "tags" THEN "fields" ELSE "publish"]
    /\ UNCHANGED <<columns, cache, flying, used, faults>>

FetchFails(q) ==
    /\ call[q].pc \in {"tags", "fields"}
    /\ call' = [call EXCEPT ![q].failed = TRUE,
                            ![q].pc = IF @ = "tags" THEN "fields" ELSE "publish"]
    /\ Fault
    /\ UNCHANGED <<columns, cache, flying, used>>

\* Variant for a mutation: what a failed discovery has found replaces what was known.
BuggyOutcome(q) == Entry(call[q].found, call[q].failed)

\* After a failure the last complete entry stays in use, for a shorter time; if there
\* is none, or it has served this purpose already, what was found must do.
Outcome(q) ==
    IF call[q].failed /\ cache.exists /\ ~cache.degraded THEN Entry(cache.known, TRUE)
    ELSE Entry(call[q].found, call[q].failed)

AfterPublish(c) == IF c.pc = "wait" THEN [c EXCEPT !.pc = "woken"] ELSE c

Publish(q) ==
    /\ call[q].pc = "publish"
    /\ cache' = Outcome(q)
    /\ flying' = FALSE
    /\ call' = [p \in Queries |-> IF p = q THEN Idle ELSE AfterPublish(call[p])]
    /\ used' = [used EXCEPT ![q] = cache'.known]
    /\ UNCHANGED <<columns, faults>>

\* Who waited takes what is in the cache by then, if that is still fresh, and else
\* returns an error.
Resume(q) ==
    /\ call[q].pc = "woken"
    /\ cache.fresh
    /\ Convert(q, cache)
    /\ UNCHANGED <<columns, cache, flying, faults>>

GiveUp(q) ==
    /\ call[q].pc = "woken"
    /\ ~cache.fresh
    /\ call' = [call EXCEPT ![q] = Idle]
    /\ UNCHANGED <<columns, cache, flying, used, faults>>

\* The query of who waits has run out of time.
Cancel(q) ==
    /\ call[q].pc = "wait"
    /\ call' = [call EXCEPT ![q] = Idle]
    /\ Fault
    /\ UNCHANGED <<columns, cache, flying, used>>

\* Variant for a mutation: what a failure left is good for ever.
BuggyExpire ==
    /\ cache.fresh /\ ~cache.degraded
    /\ cache' = [cache EXCEPT !.fresh = FALSE]
    /\ UNCHANGED <<columns, flying, call, used, faults>>

\* fresh: an hour, or half a minute after a failure.
Expire ==
    /\ cache.fresh
    /\ cache' = [cache EXCEPT !.fresh = FALSE]
    /\ UNCHANGED <<columns, flying, call, used, faults>>

\* A client writes a column that the source did not have.
AddColumn(c) ==
    /\ c \notin columns
    /\ columns' = columns \cup {c}
    /\ UNCHANGED <<cache, flying, call, used, faults>>

Read(q) == Hit(q) \/ Resume(q)
CallStep(q) == Read(q) \/ Join(q) \/ Discover(q) \/ Fetch(q) \/ Publish(q) \/ GiveUp(q)

Next ==
    \/ \E q \in Queries : CallStep(q) \/ FetchFails(q) \/ Cancel(q)
    \/ Expire
    \/ \E c \in Columns : AddColumn(c)

Spec == Init /\ [][Next]_vars

\* The poller queries again and again, requests are answered, and time passes; what
\* is cached lives much longer than a call, so nobody finds it expired every time.
FairSpec ==
    /\ Spec
    /\ WF_vars(Expire)
    /\ \A q \in Queries : WF_vars(CallStep(q)) /\ SF_vars(Read(q))
-----------------------------------------------------------------------------
(***************************************************************************)
(* Properties                                                              *)
(***************************************************************************)

\* A column that a complete discovery has found is not guessed again because the
\* next discovery fails (client.go:410, N8), and of two discoveries an older one
\* does not overwrite a newer.
KeepsKnown == [][~cache.degraded => cache.known \subseteq cache'.known]_vars

\* The same after a failure: does not hold, the second failure in a row forgets.
NeverForgets == [][cache.known \subseteq cache'.known]_vars

\* One discovery at a time, and who waits waits for one that is running
\* (client.go:373): no goroutine is left behind.
Discovering(q) == call[q].pc \in {"tags", "fields", "publish"}
SingleFlight ==
    /\ flying <=> \E q \in Queries : Discovering(q)
    /\ \A p, q \in Queries : Discovering(p) /\ Discovering(q) => p = q
    /\ \A q \in Queries : call[q].pc = "wait" => flying

\* When failures and new columns come to an end every query guesses no column any
\* more, after the time to live of what was cached before (client.go:375): no degraded
\* entry and no stale one stays for good, and nobody waits for ever.
Discoverable == (columns \ Tags) \cup (IF TagColumns = {} THEN columns \cap Tags ELSE TagColumns)
Learned == <>[](\A q \in Queries : used[q] = Discoverable)
=============================================================================
