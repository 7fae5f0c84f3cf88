-------------------------- MODULE SchemaCacheProofs --------------------------
(***************************************************************************)
(* Proofs about SchemaCache, for any number of queries and faults, any     *)
(* columns and tags, whether the tags are configured or discovered.        *)
(***************************************************************************)
EXTENDS SchemaCache, TLAPS

\* What a discovery that does not fail knows at each stage: everything the cache
\* has of the tags, then everything.
Learnt(q) ==
    ~call[q].failed =>
        /\ call[q].pc = "fields" => cache.known \cap Tags \subseteq call[q].found
        /\ call[q].pc = "publish" => cache.known \subseteq call[q].found

\* The tags are asked for only when none are configured.
Asks(q) == call[q].pc = "tags" => TagColumns = {}

\* What is found or known is there to be found.
Real(S) == S \subseteq Discoverable

SchemaInv ==
    /\ TypeOK
    /\ SingleFlight
    /\ Real(cache.known) /\ (~cache.exists => cache.known = {})
    /\ \A q \in Queries : Real(call[q].found) /\ Learnt(q) /\ Asks(q)
-----------------------------------------------------------------------------
LEMMA InitInv == Init => SchemaInv
<1> SUFFICES ASSUME Init PROVE SchemaInv
  OBVIOUS
<1> USE SchemaAssumption DEF Init, NoEntry, Idle
<1>1. TypeOK
  <2>1. columns \subseteq Columns /\ faults \in 0 .. MaxFaults
    OBVIOUS
  <2>2. cache \in Caches
    BY DEF Caches
  <2>3. call \in [Queries -> Calls] /\ used \in [Queries -> SUBSET Columns]
    BY DEF Calls
  <2>4. QED BY <2>1, <2>2, <2>3 DEF TypeOK
<1>2. SingleFlight
  BY DEF SingleFlight, Discovering
<1>3. QED BY <1>1, <1>2 DEF SchemaInv, Real, Learnt, Asks

\* A step of one query that is not its discovery, with the cache as it was.
LEMMA OtherStepInv ==
    ASSUME SchemaInv, NEW q \in Queries, ~Discovering(q),
           NEW c \in Calls, call' = [call EXCEPT ![q] = c], c.pc \in {"idle", "wait", "woken"},
           c.pc = "wait" => flying, c.found \subseteq call[q].found,
           UNCHANGED <<columns, cache, flying>>, used' \in [Queries -> SUBSET Columns], faults' \in 0 .. MaxFaults
    PROVE  SchemaInv'
<1> USE DEF SchemaInv
<1>1. TypeOK'
  BY DEF TypeOK
<1>2. \A p \in Queries : call'[p] = IF p = q THEN c ELSE call[p]
  BY DEF TypeOK
<1>3. \A p \in Queries : Discovering(p)' <=> Discovering(p)
  BY <1>2 DEF Discovering
<1>4. SingleFlight'
  BY <1>2, <1>3 DEF SingleFlight
<1>5. Real(cache.known)' /\ (~cache.exists => cache.known = {})'
  BY DEF Real, Discoverable
<1>6. \A p \in Queries : Real(call[p].found)' /\ Learnt(p)' /\ Asks(p)'
  BY <1>2 DEF Real, Discoverable, Learnt, Asks
<1>7. QED BY <1>1, <1>4, <1>5, <1>6

LEMMA FaultType ==
    ASSUME TypeOK, Fault
    PROVE  faults' \in 0 .. MaxFaults
BY SchemaAssumption DEF TypeOK, Fault

LEMMA WaitingInv ==
    ASSUME SchemaInv, NEW q \in Queries, Read(q) \/ Join(q) \/ GiveUp(q) \/ Cancel(q)
    PROVE  SchemaInv'
<1> USE DEF SchemaInv
<1>1. call[q] \in Calls /\ Idle \in Calls /\ Idle.pc = "idle" /\ Idle.found \subseteq call[q].found
  BY DEF TypeOK, Calls, Idle
<1>2. CASE Join(q)
  <2>1. call' = [call EXCEPT ![q] = [call[q] EXCEPT !.pc = "wait"]]
    BY <1>2 DEF Join, Goto, TypeOK
  <2>2. [call[q] EXCEPT !.pc = "wait"] \in Calls
    BY <1>1 DEF Calls
  <2>3. [call[q] EXCEPT !.pc = "wait"].pc = "wait" /\ [call[q] EXCEPT !.pc = "wait"].found = call[q].found
    BY <1>1 DEF Calls
  <2>4. QED BY <1>2, <2>1, <2>2, <2>3, OtherStepInv DEF Join, Discovering, TypeOK
<1>3. CASE Read(q)
  <2>1. used' \in [Queries -> SUBSET Columns]
    BY <1>3 DEF Read, Hit, Resume, Convert, TypeOK, Caches
  <2>2. QED BY <1>1, <1>3, <2>1, OtherStepInv DEF Read, Hit, Resume, Convert, Discovering, TypeOK
<1>4. CASE GiveUp(q)
  BY <1>1, <1>4, OtherStepInv DEF GiveUp, Discovering, TypeOK
<1>5. CASE Cancel(q)
  BY <1>1, <1>5, FaultType, OtherStepInv DEF Cancel, Discovering, TypeOK
<1>6. QED BY <1>2, <1>3, <1>4, <1>5

\* A discovery begins only when there is none.
LEMMA DiscoverInv ==
    ASSUME SchemaInv, NEW q \in Queries, Discover(q)
    PROVE  SchemaInv'
<1> USE DEF SchemaInv, Discover
<1> DEFINE c == [pc |-> IF TagColumns = {} THEN "tags" ELSE "fields", found |-> TagColumns, failed |-> FALSE]
<1>1. c \in Calls /\ c.pc \in {"tags", "fields"} /\ c.found = TagColumns /\ (c.pc = "fields" <=> TagColumns # {})
  BY SchemaAssumption DEF Calls
<1>2. \A p \in Queries : call'[p] = IF p = q THEN c ELSE call[p]
  BY DEF TypeOK
<1>3. call' = [call EXCEPT ![q] = c]
  OBVIOUS
<1> HIDE DEF c
<1>4. TypeOK'
  BY <1>1, <1>3 DEF TypeOK
<1>5. \A p \in Queries : Discovering(p)' <=> p = q
  BY <1>1, <1>2 DEF Discovering, SingleFlight
<1>6. SingleFlight'
  BY <1>5 DEF SingleFlight
<1>7. Real(cache.known)' /\ (~cache.exists => cache.known = {})'
  BY DEF Real, Discoverable
<1>8. Real(TagColumns)
  BY SchemaAssumption DEF Real, Discoverable
<1>9. c.pc = "fields" => cache.known \cap Tags \subseteq c.found
  BY <1>1 DEF Real, Discoverable
<1>10. \A p \in Queries : Real(call[p].found)' /\ Learnt(p)' /\ Asks(p)'
  BY <1>1, <1>2, <1>8, <1>9 DEF Real, Discoverable, Learnt, Asks
<1>11. QED BY <1>4, <1>6, <1>7, <1>10

\* The two requests of a discovery, answered or not.
LEMMA FetchInv ==
    ASSUME SchemaInv, NEW q \in Queries, Fetch(q) \/ FetchFails(q)
    PROVE  SchemaInv'
<1> USE DEF SchemaInv
<1>1. call[q] \in Calls /\ call[q].pc \in {"tags", "fields"} /\ UNCHANGED <<columns, cache, flying, used>>
  BY DEF Fetch, FetchFails, TypeOK
<1>2. PICK c \in Calls :
        /\ call' = [call EXCEPT ![q] = c]
        /\ c.pc = IF call[q].pc = "tags" THEN "fields" ELSE "publish"
        /\ \/ c.failed /\ c.found = call[q].found
           \/ c.failed = call[q].failed /\ c.found = call[q].found \cup Request(q)
  <2>1. CASE Fetch(q)
    <3> DEFINE c == [pc |-> IF call[q].pc = "tags" THEN "fields" ELSE "publish",
                     found |-> call[q].found \cup Request(q), failed |-> call[q].failed]
    <3>1. Request(q) \subseteq Columns
      BY SchemaAssumption DEF Request, TypeOK
    <3>2. c \in Calls
      BY <1>1, <3>1 DEF Calls
    <3>3. call' = [call EXCEPT ![q] = c]
      BY <1>1, <2>1 DEF Fetch, TypeOK, Calls
    <3>4. QED BY <3>2, <3>3
  <2>2. CASE FetchFails(q)
    <3> DEFINE c == [pc |-> IF call[q].pc = "tags" THEN "fields" ELSE "publish",
                     found |-> call[q].found, failed |-> TRUE]
    <3>1. c \in Calls
      BY <1>1 DEF Calls
    <3>2. call' = [call EXCEPT ![q] = c]
      BY <1>1, <2>2 DEF FetchFails, TypeOK, Calls
    <3>3. QED BY <3>1, <3>2
  <2>3. QED BY <2>1, <2>2
<1>3. \A p \in Queries : call'[p] = IF p = q THEN c ELSE call[p]
  BY <1>2 DEF TypeOK
<1>4. TypeOK'
  BY <1>1, <1>2, FaultType DEF TypeOK, Fetch, FetchFails
<1>5. \A p \in Queries : Discovering(p)' <=> Discovering(p)
  BY <1>1, <1>2, <1>3 DEF Discovering
<1>6. SingleFlight'
  BY <1>1, <1>2, <1>3, <1>5 DEF SingleFlight
<1>7. Real(cache.known)' /\ (~cache.exists => cache.known = {})'
  BY <1>1 DEF Real, Discoverable
<1>8. call[q].pc = "tags" => TagColumns = {}
  BY DEF Asks
<1>9. Real(c.found) /\ (~c.failed => /\ c.pc = "fields" => cache.known \cap Tags \subseteq c.found
                                     /\ c.pc = "publish" => cache.known \subseteq c.found)
  BY <1>1, <1>2, <1>8, SchemaAssumption DEF Request, Real, Discoverable, Learnt, TypeOK
<1>10. \A p \in Queries : Real(call[p].found)' /\ Learnt(p)' /\ Asks(p)'
  BY <1>1, <1>2, <1>3, <1>9 DEF Real, Discoverable, Learnt, Asks
<1>11. QED BY <1>4, <1>6, <1>7, <1>10

\* What a publication puts into the cache: what was found, or what was known.
LEMMA OutcomeFacts ==
    ASSUME SchemaInv, NEW q \in Queries, call[q].pc = "publish"
    PROVE  /\ Outcome(q) \in Caches /\ Outcome(q).exists
           /\ Real(Outcome(q).known)
           /\ ~cache.degraded => cache.known \subseteq Outcome(q).known
<1> USE DEF SchemaInv
<1>1. call[q] \in Calls /\ cache \in Caches
  BY DEF TypeOK
<1>2. CASE call[q].failed /\ cache.exists /\ ~cache.degraded
  <2>1. Outcome(q) = [known |-> cache.known, degraded |-> TRUE, fresh |-> TRUE, exists |-> TRUE]
    BY <1>2 DEF Outcome, Entry
  <2>2. QED BY <1>1, <2>1 DEF Caches
<1>3. CASE ~(call[q].failed /\ cache.exists /\ ~cache.degraded)
  <2>1. Outcome(q) = [known |-> call[q].found, degraded |-> call[q].failed, fresh |-> TRUE, exists |-> TRUE]
    BY <1>3 DEF Outcome, Entry
  <2>2. ~cache.degraded => cache.known \subseteq call[q].found
    BY <1>3 DEF Learnt
  <2>3. QED BY <1>1, <2>1, <2>2 DEF Caches, Calls
<1>4. QED BY <1>2, <1>3

LEMMA PublishInv ==
    ASSUME SchemaInv, NEW q \in Queries, Publish(q)
    PROVE  SchemaInv'
<1> USE DEF SchemaInv
<1>1. call[q].pc = "publish" /\ cache' = Outcome(q) /\ ~flying' /\ UNCHANGED <<columns, faults>>
  BY DEF Publish
<1>2. cache' \in Caches /\ cache'.exists /\ Real(cache'.known)
  BY <1>1, OutcomeFacts
<1>3. \A p \in Queries : AfterPublish(call[p]) \in Calls /\ AfterPublish(call[p]).found = call[p].found
  BY DEF TypeOK, Calls, AfterPublish
<1>4. \A p \in Queries : p # q => AfterPublish(call[p]).pc \in {"idle", "woken"}
  BY <1>1 DEF TypeOK, Calls, AfterPublish, SingleFlight, Discovering
<1>5. Idle \in Calls /\ Idle.pc = "idle" /\ Idle.found = {}
  BY DEF Idle, Calls
<1>6. call' = [p \in Queries |-> IF p = q THEN Idle ELSE AfterPublish(call[p])]
  BY DEF Publish
<1>7. \A p \in Queries : /\ call'[p] \in Calls /\ call'[p].pc \in {"idle", "woken"}
                         /\ call'[p].found \subseteq call[p].found
  BY <1>3, <1>4, <1>5, <1>6
<1>8. used' \in [Queries -> SUBSET Columns]
  BY <1>2 DEF Publish, TypeOK, Caches
<1>9. TypeOK'
  BY <1>1, <1>2, <1>6, <1>7, <1>8 DEF TypeOK, Publish
<1>10. SingleFlight'
  BY <1>1, <1>7 DEF SingleFlight, Discovering
<1>11. Real(cache.known)' /\ (~cache.exists => cache.known = {})'
  BY <1>1, <1>2 DEF Real, Discoverable
<1>12. \A p \in Queries : Real(call[p].found)' /\ Learnt(p)' /\ Asks(p)'
  BY <1>1, <1>7 DEF Real, Discoverable, Learnt, Asks
<1>13. QED BY <1>9, <1>10, <1>11, <1>12

\* Time passes, and columns are added.
LEMMA SourceInv ==
    ASSUME SchemaInv, Expire \/ \E c \in Columns : AddColumn(c)
    PROVE  SchemaInv'
<1> USE DEF SchemaInv
<1>1. /\ columns \subseteq columns' /\ columns' \subseteq Columns
      /\ UNCHANGED <<flying, call, used, faults>>
      /\ cache' \in Caches /\ cache'.known = cache.known /\ cache'.exists = cache.exists
  <2>1. CASE Expire
    BY <2>1 DEF Expire, TypeOK, Caches
  <2>2. CASE \E c \in Columns : AddColumn(c)
    BY <2>2 DEF AddColumn, TypeOK
  <2>3. QED BY <2>1, <2>2
<1>2. TypeOK' /\ SingleFlight'
  BY <1>1 DEF TypeOK, SingleFlight, Discovering
<1>3. Real(cache.known)' /\ (~cache.exists => cache.known = {})'
  BY <1>1 DEF Real, Discoverable
<1>4. \A p \in Queries : Real(call[p].found)' /\ Learnt(p)' /\ Asks(p)'
  BY <1>1 DEF Real, Discoverable, Learnt, Asks
<1>5. QED BY <1>2, <1>3, <1>4

LEMMA StepInv ==
    ASSUME SchemaInv, [Next]_vars
    PROVE  SchemaInv'
<1>1. ASSUME NEW q \in Queries, CallStep(q) \/ FetchFails(q) \/ Cancel(q) PROVE SchemaInv'
  BY <1>1, WaitingInv, DiscoverInv, FetchInv, PublishInv DEF CallStep
<1>2. CASE Expire \/ \E c \in Columns : AddColumn(c)
  BY <1>2, SourceInv
<1>3. CASE UNCHANGED vars
  BY <1>3 DEF vars, SchemaInv, TypeOK, SingleFlight, Discovering, Real, Discoverable, Learnt, Asks
<1>4. QED BY <1>1, <1>2, <1>3 DEF Next

THEOREM SchemaInvariant == Spec => []SchemaInv
<1>1. SchemaInv /\ [Next]_vars => SchemaInv'
  BY StepInv
<1>2. QED BY <1>1, InitInv, PTL DEF Spec
-----------------------------------------------------------------------------
\* Every variable keeps its type.
THEOREM SchemaTypeCorrect == Spec => []TypeOK
<1>1. SchemaInv => TypeOK
  BY DEF SchemaInv
<1>2. QED BY <1>1, SchemaInvariant, PTL

\* One discovery runs at a time, and who waits waits for one that runs
\* (ensureSchema, client.go:373-430).
THEOREM SchemaSingleFlight == Spec => []SingleFlight
<1>1. SchemaInv => SingleFlight
  BY DEF SchemaInv
<1>2. QED BY <1>1, SchemaInvariant, PTL

LEMMA StepKeepsKnown ==
    ASSUME SchemaInv, [Next]_vars
    PROVE  ~cache.degraded => cache.known \subseteq cache'.known
<1>1. ASSUME NEW q \in Queries, Publish(q) PROVE ~cache.degraded => cache.known \subseteq cache'.known
  BY <1>1, OutcomeFacts DEF Publish
<1>2. CASE Expire
  BY <1>2 DEF Expire, SchemaInv, TypeOK, Caches
<1>3. CASE UNCHANGED cache
  BY <1>3
<1>4. QED BY <1>1, <1>2, <1>3 DEF Next, vars, CallStep, Read, Hit, Resume, Convert, Join, GiveUp,
                             Discover, Fetch, FetchFails, Cancel, AddColumn

\* Columns that a complete discovery has found stay known when the next one fails, and
\* no discovery publishes less than what the complete entry before it had.
THEOREM SchemaKeepsKnown == Spec => KeepsKnown
<1>1. SchemaInv /\ [Next]_vars => [~cache.degraded => cache.known \subseteq cache'.known]_vars
  BY StepKeepsKnown
<1>2. QED BY <1>1, SchemaInvariant, PTL DEF Spec, KeepsKnown
=============================================================================
