----------------------------- MODULE CommitSync -----------------------------
(***************************************************************************)
(* pkg/runner/commit.go and the user commands of command.go: how the       *)
(* console's copy of the host's tables is brought up to date.              *)
(*                                                                         *)
(* A synchronisation holds syncMutex, and for each table reads the host,   *)
(* fetches the console's rows and queues the requests that make up the     *)
(* difference.  A user command changes the host first and synchronises     *)
(* users and groups at its end; a commit sends everything in one request   *)
(* and takes no mutex.  The requests are executed later, by several        *)
(* reporters, in any order (see RequestQueue for how).                     *)
(*                                                                         *)
(* There is one table of a single row ("info": hardware, system, time) and *)
(* one list ("list": users, groups, packages, ...).  Of each key the host  *)
(* has the list of its lines, and the console the rows created so far.     *)
(***************************************************************************)
EXTENDS Integers, FiniteSets, Sequences

CONSTANTS Goroutines,  \* the commands, and the goroutine of CommitAsync
          Info,        \* the key of the single row
          Names,       \* the keys of the list
          Values,      \* what else a row says
          Zero,        \* the value of an empty structure
          Gone,        \* a row that has been deleted
          Absent,      \* what a reading says of a key it lacks
          NoOne,
          MaxEdits,    \* bound: changes of the host by others
          MaxFaults    \* bound: failed readings, lost and repeated requests

ASSUME ValuesAssumption == /\ Zero \in Values
                           /\ Gone \notin Values /\ Absent \notin Values
ASSUME NamesAssumption == Info \notin Names /\ NoOne \notin Goroutines
ASSUME BoundsAssumption == MaxEdits \in Nat /\ MaxFaults \in Nat

VARIABLES
  host,            \* the lines of each key
  shown,           \* the console's rows of each key, Gone when deleted
  queued,          \* the requests that are still to be executed
  alive,           \* whether the agent has not panicked
  pc,              \* where each goroutine is
  todo,            \* the tables it has still to compare
  mu,              \* who holds syncMutex
  table, current, remote,  \* key, currentData and remoteData of its holder
  readings,        \* history: what has been read of each key
  fresh,           \* history: the tables compared as they were and are
  edits, faults

goVars == <<pc, todo, mu>>
dataVars == <<table, current, remote>>
vars == <<host, shown, queued, alive, goVars, dataVars, readings, fresh, edits,
          faults>>

\* What identifies a row: GetKey (and GetID within the rows of a key).
Keys == {Info} \union Names

\* commitDefs; the "server" row is patched without a comparison.
Tables == {"info", "list"}
KeysOf(t) == IF t = "info" THEN {Info} ELSE Names
TableOf(k) == IF k = Info THEN "info" ELSE "list"

Nothing == [k \in Keys |-> <<>>]

Live(rows) == {n \in DOMAIN rows : rows[n] # Gone}
First(rows) == CHOOSE n \in Live(rows) : \A m \in Live(rows) : n <= m

\* compareListData puts the lines into a map: the last one of a key stays.
Entry(lines) == lines[Len(lines)]

Lines == {<<>>} \union {<<v>> : v \in Values} \union (Values \X Values)

-----------------------------------------------------------------------------
(* Requests.  Those of one goroutine about one row, or of one table that    *)
(* create rows, are different from each other.                              *)

Patch(g, k, n, v) == [op |-> "patch", by |-> g, key |-> k, n |-> n, value |-> v]
Delete(g, k, n) == [op |-> "delete", by |-> g, key |-> k, n |-> n]
Post(g, rows) == [op |-> "post", by |-> g, rows |-> rows]
Put(g, data) == [op |-> "put", by |-> g, data |-> data]

About(r, t) == CASE r.op \in {"patch", "delete"} -> r.key \in KeysOf(t)
                 [] r.op = "post" -> t = "list"
                 [] r.op = "put" -> TRUE

Settled(t) == ~ \E r \in queued : About(r, t)

Listed(t) == {k \in KeysOf(t) : current[k] # <<>>}
Known(t) == {k \in KeysOf(t) : Live(remote[k]) # {}}

\* Faulty variant of ToPatch: differences are not looked for.
ToPatchNone(t) == {}

ToPatch(t) == {k \in Listed(t) \intersect Known(t) :
                 remote[k][First(remote[k])] # Entry(current[k])}

\* Faulty variant of Surplus: every row of a key with duplicates is deleted.
SurplusAll(k) == {n \in Live(remote[k]) :
                    current[k] = <<>> \/ Cardinality(Live(remote[k])) > 1}

\* The first row of a listed key takes it out of the map, so that further rows
\* of that key, like those of a key not listed, are deleted.
Surplus(k) == {n \in Live(remote[k]) :
                 current[k] = <<>> \/ \E m \in Live(remote[k]) : m < n}

ToCreate(t) == Listed(t) \ Known(t)

Patches(g, t) ==
  {Patch(g, k, First(remote[k]), Entry(current[k])) : k \in ToPatch(t)}
Deletions(g, t) == UNION {{Delete(g, k, n) : n \in Surplus(k)} : k \in KeysOf(t)}
Creations(g, t) == IF ToCreate(t) = {} THEN {}
                   ELSE {Post(g, [k \in ToCreate(t) |-> Entry(current[k])])}

\* compareListData, and compareData for the single row.
Differences(g, t) == Patches(g, t) \union Deletions(g, t) \union Creations(g, t)

-----------------------------------------------------------------------------
(* The console.  What it does with a request is not in this repository:     *)
(* rows are created as asked, and a commit replaces the list.               *)

Adopt(rows, lines) ==
  IF lines # <<>> /\ Live(rows) = {} THEN Append(rows, Entry(lines))
  ELSE [n \in DOMAIN rows |->
          IF lines # <<>> /\ n = First(rows) THEN Entry(lines) ELSE Gone]

\* The rows of key k after request r.
After(r, k) ==
  CASE r.op = "patch" /\ r.key = k /\ r.n \in Live(shown[k]) ->
         [shown[k] EXCEPT ![r.n] = r.value]
    [] r.op = "delete" /\ r.key = k -> [shown[k] EXCEPT ![r.n] = Gone]
    [] r.op = "post" /\ k \in DOMAIN r.rows ->
         Append(shown[k], r.rows[k])
    [] r.op = "put" -> Adopt(shown[k], r.data[k])
    [] OTHER -> shown[k]

Fault == faults < MaxFaults /\ faults' = faults + 1

Execute(r) ==
  /\ shown' = [k \in Keys |-> After(r, k)]
  /\ queued' = queued \ {r}
  /\ UNCHANGED <<host, alive, goVars, dataVars, readings, fresh, edits, faults>>

\* Executed, but the answer is late: the request will be sent again.
ExecuteAndRetry(r) ==
  /\ Fault
  /\ shown' = [k \in Keys |-> After(r, k)]
  /\ fresh' = {t \in fresh : ~About(r, t)}
  /\ UNCHANGED <<host, queued, alive, goVars, dataVars, readings, edits>>

\* Given up, or dropped by a full queue.
Lose(r) ==
  /\ Fault
  /\ queued' = queued \ {r}
  /\ fresh' = {t \in fresh : ~About(r, t)}
  /\ UNCHANGED <<host, shown, alive, goVars, dataVars, readings, edits>>

-----------------------------------------------------------------------------
(* The host. *)

Change(k, lines) ==
  /\ lines # host[k] /\ (k = Info => Len(lines) = 1)
  /\ host' = [host EXCEPT ![k] = lines]
  /\ fresh' = fresh \ {TableOf(k)}

\* Somebody else changes the host.
Edit ==
  /\ edits < MaxEdits /\ edits' = edits + 1
  /\ \E k \in Keys, lines \in Lines : Change(k, lines)
  /\ UNCHANGED <<shown, queued, alive, goVars, dataVars, readings, faults>>

Go(g, from, to) == pc[g] = from /\ pc' = [pc EXCEPT ![g] = to]

-----------------------------------------------------------------------------
(* Commands. *)

\* adduser, deluser, addgroup, delgroup: the command that changes the host.
UserCommand(g) ==
  /\ Go(g, "idle", "changed")
  /\ \E k \in Names, lines \in Lines : Len(lines) <= 1 /\ Change(k, lines)
  /\ UNCHANGED <<shown, queued, alive, todo, mu, dataVars, readings, edits, faults>>

\* It fails before it has changed anything, or in a later step (another group,
\* chmod), and returns without a synchronisation.
UserCommandFails(g) ==
  /\ Go(g, "idle", "failed") \/ Go(g, "changed", "failed")
  /\ UNCHANGED <<host, shown, queued, alive, todo, mu, dataVars, readings, fresh>>
  /\ UNCHANGED <<edits, faults>>

\* Faulty variant of Compared: the "server" row is compared like the others.
ComparedWithServer == Tables \union {"server"}

Compared == Tables

\* syncSystemInfo: of the list after a user command; the command "sync" names
\* its tables, where one that is not known is skipped, or means all.
StartSync(g) ==
  /\ \/ Go(g, "changed", "lock") /\ todo' = [todo EXCEPT ![g] = {"list"}]
     \/ /\ Go(g, "idle", "lock")
        /\ \E ts \in SUBSET Compared : todo' = [todo EXCEPT ![g] = ts]
  /\ UNCHANGED <<host, shown, queued, alive, mu, dataVars, readings, fresh>>
  /\ UNCHANGED <<edits, faults>>

\* What a reading may return: the lines, with errors only logged.  A file that
\* cannot be opened or read to its end gives part of the list, and a failed
\* query for the single row an empty structure.
Readings(ks) ==
  {[k \in Keys |-> IF k \in ks THEN host[k] ELSE <<>>]}
BrokenReadings(ks) ==
  {[k \in Keys |-> IF k \notin ks THEN <<>>
                   ELSE IF k = Info THEN <<Zero>>
                   ELSE IF k \in part THEN host[k] ELSE <<>>] : part \in SUBSET ks}

\* history: what the reading has said.
Heard(ks, data) ==
  [k \in Keys |-> IF k \notin ks THEN readings[k]
                  ELSE readings[k] \union
                       {IF data[k] = <<>> THEN Absent ELSE Entry(data[k])}]

ReadInto(ks, data) ==
  /\ \/ data \in Readings(ks) /\ UNCHANGED faults
     \/ data \in BrokenReadings(ks) /\ Fault
  /\ readings' = Heard(ks, data)

\* commitSystemInfo: everything in one request.
Commit(g) ==
  /\ Go(g, "idle", "done")
  /\ \E data \in Readings(Keys) \union BrokenReadings(Keys) :
       ReadInto(Keys, data) /\ queued' = queued \union {Put(g, data)}
  /\ fresh' = {}
  /\ UNCHANGED <<host, shown, alive, todo, mu, dataVars, edits>>

-----------------------------------------------------------------------------
(* syncSystemInfo *)

MutexFree == mu = NoOne

Lock(g) ==
  /\ Go(g, "lock", "next")
  /\ MutexFree /\ mu' = g
  /\ UNCHANGED <<host, shown, queued, alive, todo, dataVars, readings, fresh>>
  /\ UNCHANGED <<edits, faults>>

Read(g) ==
  /\ Go(g, "next", "get")
  /\ \E t \in todo[g] :
       /\ todo' = [todo EXCEPT ![g] = @ \ {t}]
       /\ table' = t
       /\ \E data \in Readings(KeysOf(t)) \union BrokenReadings(KeysOf(t)) :
            ReadInto(KeysOf(t), data) /\ current' = data
  /\ UNCHANGED <<host, shown, queued, alive, mu, remote, fresh, edits>>

Missing == table = "info" /\ Live(shown[Info]) = {}

Fetch(g) ==
  /\ Go(g, "get", "compare")
  /\ ~Missing
  /\ remote' = [k \in Keys |-> IF k \in KeysOf(table) THEN shown[k] ELSE <<>>]
  /\ fresh' = IF Settled(table) /\ current \in Readings(KeysOf(table))
                THEN fresh \union {table} ELSE fresh \ {table}
  /\ UNCHANGED <<host, shown, queued, alive, todo, mu, table, current, readings>>
  /\ UNCHANGED <<edits, faults>>

\* Any answer but 200 and 404, or 404 to the list: on to the next table.
FetchFails(g) ==
  /\ Go(g, "get", "next")
  /\ current' = Nothing
  /\ UNCHANGED <<host, shown, queued, alive, todo, mu, table, remote, readings>>
  /\ UNCHANGED <<fresh, edits, faults>>

\* 404 to the single row: the assertion that nil is ComparableData panics.
FetchPanics(g) ==
  /\ Go(g, "get", "get")
  /\ Missing
  /\ alive' = FALSE
  /\ UNCHANGED <<host, shown, queued, todo, mu, dataVars, readings, fresh>>
  /\ UNCHANGED <<edits, faults>>

Compare(g) ==
  /\ Go(g, "compare", "next")
  /\ queued' = queued \union Differences(g, table)
  /\ current' = Nothing /\ remote' = Nothing
  /\ UNCHANGED <<host, shown, alive, todo, mu, table, readings, fresh>>
  /\ UNCHANGED <<edits, faults>>

\* Faulty variant of Released: the mutex is not released.
StillLocked == mu

Released == NoOne

Unlock(g) ==
  /\ Go(g, "next", "done")
  /\ todo[g] = {}
  /\ mu' = Released
  /\ UNCHANGED <<host, shown, queued, alive, todo, dataVars, readings, fresh>>
  /\ UNCHANGED <<edits, faults>>

Sync(g) == \/ Lock(g) \/ Read(g) \/ Fetch(g) \/ FetchFails(g) \/ FetchPanics(g)
           \/ Compare(g) \/ Unlock(g)

Command(g) == UserCommand(g) \/ UserCommandFails(g) \/ StartSync(g) \/ Commit(g)

-----------------------------------------------------------------------------
\* The console may know the host from an earlier run of the agent, with an entry
\* it was told of twice, or may not know it at all.
Init ==
  /\ host \in [Keys -> {<<>>} \union {<<v>> : v \in Values \ {Zero}}]
  /\ Len(host[Info]) = 1
  /\ \/ shown = Nothing
     \/ shown = host
     \/ shown = [k \in Keys |-> IF k = Info THEN host[k] ELSE host[k] \o host[k]]
  /\ queued = {} /\ alive = TRUE
  /\ pc = [g \in Goroutines |-> "idle"] /\ todo = [g \in Goroutines |-> {}]
  /\ mu = NoOne
  /\ table = "info" /\ current = Nothing /\ remote = Nothing
  /\ readings = [k \in Keys |-> {}] /\ fresh = {}
  /\ edits = 0 /\ faults = 0

Next ==
  /\ alive
  /\ \/ \E g \in Goroutines : Command(g) \/ Sync(g)
     \/ \E r \in queued : Execute(r) \/ ExecuteAndRetry(r) \/ Lose(r)
     \/ Edit

Spec == Init /\ [][Next]_vars

\* A goroutine in syncSystemInfo goes on: its request to the console has a
\* timeout.  Nobody has to give a command or execute a request.
LiveSpec == Spec /\ \A g \in Goroutines : WF_vars(alive /\ Sync(g))

-----------------------------------------------------------------------------
(* Properties. *)

Requests ==
  [op : {"patch"}, by : Goroutines, key : Keys, n : Nat, value : Values]
    \union [op : {"delete"}, by : Goroutines, key : Keys, n : Nat]
    \union [op : {"post"}, by : Goroutines,
            rows : UNION {[ks -> Values] : ks \in SUBSET Keys}]
    \union [op : {"put"}, by : Goroutines, data : [Keys -> Seq(Values)]]

\* Every variable has its type.
TypeOK ==
  /\ host \in [Keys -> Seq(Values)]
  /\ shown \in [Keys -> Seq(Values \union {Gone})]
  /\ \A r \in queued : r \in Requests
  /\ alive \in BOOLEAN
  /\ pc \in [Goroutines -> {"idle", "changed", "failed", "lock", "next", "get",
                            "compare", "done"}]
  /\ todo \in [Goroutines -> SUBSET Tables]
  /\ mu \in Goroutines \union {NoOne}
  /\ table \in Tables
  /\ current \in [Keys -> Seq(Values)]
  /\ remote \in [Keys -> Seq(Values \union {Gone})]
  /\ readings \in [Keys -> SUBSET (Values \union {Absent})]
  /\ fresh \subseteq Tables
  /\ edits \in 0 .. MaxEdits /\ faults \in 0 .. MaxFaults

\* The console shows one row of each key of the table that the host lists, with
\* its data, and no other.
Agree(t) ==
  \A k \in KeysOf(t) :
    IF host[k] = <<>> THEN Live(shown[k]) = {}
    ELSE /\ Cardinality(Live(shown[k])) = 1
         /\ shown[k][First(shown[k])] = Entry(host[k])

\* A synchronisation that reads the host without an error and fetches the rows
\* while no request about them is on its way makes the console agree with the
\* host, in whatever order its requests are executed, from any state: also from
\* duplicates, which two synchronisations can create between them.
Converges ==
  \A t \in fresh :
    Settled(t) /\ ~(\E g \in Goroutines : pc[g] = "compare" /\ table = t) => Agree(t)

\* syncMutex: the data of one synchronisation are not touched by another.
Serialised ==
  \A g \in Goroutines : pc[g] \in {"next", "get", "compare"} <=> mu = g

\* The console's rows keep the promises of Mirror: no row is made up, and a key
\* that every reading finds is never lost, however stale the rows that were
\* compared and however late and often the requests are executed.
Console == INSTANCE Mirror WITH rows <- shown, read <- readings
MirrorSpec == Console!Init /\ [][Console!Next]_<<shown, readings>>

\* A synchronisation ends, and lets the next one in, unless the agent panics.
\* (Each goroutine is one command, so that in the end none is in there.)
SyncEnds ==
  <>[](~alive \/ \A g \in Goroutines : pc[g] \notin {"lock", "next", "get", "compare"})
=============================================================================
