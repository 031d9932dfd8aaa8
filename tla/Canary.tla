-------------------------------- MODULE Canary --------------------------------
(***************************************************************************)
(* canary.py: the nightly scheduler, its threads, lock and stop event, and *)
(* the probe, which compares the quirks ledger (a JSON file) with the live *)
(* catalogue, enters what it learns into the pools and writes the ledger   *)
(* back.                                                                   *)
(***************************************************************************)
EXTENDS RoutePools

CONSTANTS Thread,       \* the scheduler threads that may be started
          Caller,       \* another thread, which calls start, stop and trigger_now
          Free,         \* models whose slug ends in ":free"
          Sampled,      \* the models that each probe pings, in the ledger from the start
          Retired,      \* models the ledger has as deprecated from the start
          CanaryRoute,  \* the route a probe adds for a model it discovers
          LedgerRoute   \* the route load_from_quirks_ledger adds for a model

ASSUME CanaryAssumption ==
    /\ Caller \notin Thread /\ None \notin Thread \cup {Caller}
    /\ "coding" \in Pool
    /\ DOMAIN LedgerRoute \subseteq Models
    /\ Free \cup Sampled \cup Retired \subseteq DOMAIN LedgerRoute
    /\ DOMAIN CanaryRoute \subseteq DOMAIN LedgerRoute
    /\ \A m \in DOMAIN LedgerRoute :
           LedgerRoute[m] \in Route /\ ModelOf[LedgerRoute[m]] = m
    /\ \A m \in DOMAIN CanaryRoute :
           CanaryRoute[m] \in Route /\ ModelOf[CanaryRoute[m]] = m

VARIABLES
    thread,   \* where each thread is
    stopped,  \* _stop_event
    handle,   \* _thread
    lock,     \* who holds _lock
    file,     \* the ledger file: whether it can be read, and its entries
    work      \* the copy of the ledger that each probe works on

canary == <<thread, stopped, handle, lock, file, work>>

Actor == Thread \cup {Caller}

\* A model's entry: none, or its status.
Entries == [DOMAIN LedgerRoute -> {"none", "active", "deprecated"}]
NoEntries == [m \in DOMAIN LedgerRoute |-> "none"]

\* The steps of a probe, in order; the thread holds the lock.
Probing == {"loaded", "fetched", "pinged", "truncated"}
Alive == {"asleep", "due"} \cup Probing

CanaryStart ==
    /\ thread = [a \in Actor |-> "unborn"]
    /\ stopped = FALSE /\ handle = None /\ lock = None
    /\ work = [a \in Actor |-> NoEntries]

\* The ledger that is shipped in docs/providers/.
Shipped == [m \in DOMAIN LedgerRoute |-> IF m \in Retired THEN "deprecated"
                                         ELSE IF m \in Sampled THEN "active" ELSE "none"]

CanaryInit == CanaryStart /\ file = [ok |-> TRUE, entries |-> Shipped]

-----------------------------------------------------------------------------
(* NightlyCanaryScheduler *)

\* start: nothing while the thread it knows of is alive.
Start(t, immediately) ==
    /\ lock = None
    /\ IF handle # None /\ thread[handle] \in Alive
       THEN UNCHANGED <<stopped, handle, thread>>
       ELSE /\ thread[t] = "unborn"
            /\ stopped' = FALSE
            /\ handle' = t
            /\ thread' = [thread EXCEPT ![t] = IF immediately THEN "due" ELSE "asleep"]
    /\ UNCHANGED <<lock, file, work>>

\* stop holds the lock while it waits for the thread to end, at most two seconds.
StopSets ==
    /\ lock = None /\ thread[Caller] = "unborn"
    /\ stopped' = TRUE
    /\ lock' = Caller
    /\ UNCHANGED <<thread, handle, file, work>>

StopReturns ==
    /\ lock = Caller /\ thread[Caller] = "unborn"
    /\ handle' = None
    /\ lock' = None
    /\ UNCHANGED <<thread, stopped, file, work>>

\* _scheduler_loop looks at the event between naps of ten seconds.
Wakes(t) ==
    /\ t # Caller /\ thread[t] = "asleep"
    /\ stopped
    /\ thread' = [thread EXCEPT ![t] = "ended"]
    /\ UNCHANGED <<stopped, handle, lock, file, work>>

\* Mutant: the loop does not look at the event after its nap.
DueAnyway(t) ==
    /\ t # Caller /\ thread[t] = "asleep"
    /\ thread' = [thread EXCEPT ![t] = "due"]
    /\ UNCHANGED <<stopped, handle, lock, file, work>>

\* One o'clock, and the event was not set.
Due(t) ==
    /\ t # Caller /\ thread[t] = "asleep"
    /\ ~stopped
    /\ thread' = [thread EXCEPT ![t] = "due"]
    /\ UNCHANGED <<stopped, handle, lock, file, work>>

\* An administrator calls trigger_now.
Trigger ==
    /\ thread[Caller] = "unborn" /\ lock # Caller
    /\ thread' = [thread EXCEPT ![Caller] = "due"]
    /\ UNCHANGED <<stopped, handle, lock, file, work>>

-----------------------------------------------------------------------------
(* CanaryProber.run_probe, under the lock that trigger_now takes *)

Noted(entries, ms, status) ==
    [m \in DOMAIN entries |-> IF m \in ms THEN status ELSE entries[m]]

\* load_ledger: a file that cannot be read counts as an empty one.
Loads(a) ==
    /\ thread[a] = "due" /\ lock = None
    /\ lock' = a
    /\ work' = [work EXCEPT ![a] = IF file.ok THEN file.entries ELSE NoEntries]
    /\ thread' = [thread EXCEPT ![a] = "loaded"]
    /\ UNCHANGED <<stopped, handle, file>> /\ UNCHANGED <<pools, call>>

\* Mutant: a retired model that the catalogue lists again is taken for a new one.
FetchesRevived(a, fetched, found) ==
    LET retired == {m \in Free : work[a][m] = "active" /\ fetched /\ m \notin found}
        new == {m \in found : work[a][m] # "active"}
    IN  /\ thread[a] = "loaded"
        /\ found # {} => fetched
        /\ work' = [work EXCEPT ![a] = Noted(Noted(@, retired, "deprecated"), new, "active")]
        /\ deprecated' = deprecated \cup (Pool \X retired)
        /\ routes' = [p \in Pool |-> WithRoutes(p, {CanaryRoute[m] : m \in new})]
        /\ thread' = [thread EXCEPT ![a] = "fetched"]
        /\ UNCHANGED <<stopped, handle, lock, file>>
        /\ UNCHANGED <<cooling, exhausted, account, sticky, turn, call>>

\* The catalogue, if it can be fetched, lists found and models of no interest here.
\* Free models it no longer lists are retired in both pools; those that the ledger
\* does not have are added.
Fetches(a, fetched, found) ==
    LET retired == {m \in Free : work[a][m] = "active" /\ fetched /\ m \notin found}
        new == {m \in found : work[a][m] = "none"}
    IN  /\ thread[a] = "loaded"
        /\ found # {} => fetched
        /\ work' = [work EXCEPT ![a] = Noted(Noted(@, retired, "deprecated"), new, "active")]
        /\ deprecated' = deprecated \cup (Pool \X retired)
        /\ routes' = [p \in Pool |-> WithRoutes(p, {CanaryRoute[m] : m \in new})]
        /\ thread' = [thread EXCEPT ![a] = "fetched"]
        /\ UNCHANGED <<stopped, handle, lock, file>>
        /\ UNCHANGED <<cooling, exhausted, account, sticky, turn, call>>

\* The pings: up answer or are rate limited, refused are gone for good, and the
\* others are skipped, out of quota or unreachable.  Only models with an entry count.
Pings(a, up, refused) ==
    LET known(ms) == {m \in ms : work[a][m] # "none"}
    IN  /\ thread[a] = "fetched"
        /\ up \cap refused = {}
        /\ work' = [work EXCEPT ![a] = Noted(Noted(@, known(up), "active"),
                                             known(refused), "deprecated")]
        /\ deprecated' = deprecated \cup ({"coding"} \X known(refused))
        /\ thread' = [thread EXCEPT ![a] = "pinged"]
        /\ UNCHANGED <<stopped, handle, lock, file>>
        /\ UNCHANGED <<routes, cooling, exhausted, account, sticky, turn, call>>

\* save_ledger truncates the file and then writes it.
Truncates(a) ==
    /\ thread[a] = "pinged"
    /\ file' = [file EXCEPT !.ok = FALSE]
    /\ thread' = [thread EXCEPT ![a] = "truncated"]
    /\ UNCHANGED <<stopped, handle, lock, work>> /\ UNCHANGED <<pools, call>>

\* A scheduler thread goes back to its loop, another caller returns.
AfterProbe(a) == [thread EXCEPT ![a] = IF a = Caller THEN "unborn" ELSE "asleep"]

Writes(a) ==
    /\ thread[a] = "truncated"
    /\ file' = [ok |-> TRUE, entries |-> work[a]]
    /\ thread' = AfterProbe(a)
    /\ lock' = None
    /\ work' = [work EXCEPT ![a] = NoEntries]
    /\ UNCHANGED <<stopped, handle>> /\ UNCHANGED <<pools, call>>

\* The disk is full: the probe raises and the file stays cut short.
WriteFails(a) ==
    /\ thread[a] = "truncated"
    /\ file' = [ok |-> FALSE, entries |-> NoEntries]
    /\ thread' = AfterProbe(a)
    /\ lock' = None
    /\ work' = [work EXCEPT ![a] = NoEntries]
    /\ UNCHANGED <<stopped, handle>> /\ UNCHANGED <<pools, call>>

=============================================================================
