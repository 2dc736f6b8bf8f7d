----------------------------- MODULE Monitoring -----------------------------
(***************************************************************************)
(* The figures of the dashboard: computed by any request, cached in Redis  *)
(* until they run out, and dropped by the analytics job.  Time is a clock  *)
(* of 15-second ticks.                                                     *)
(***************************************************************************)
EXTENDS Naturals, FiniteSets

CONSTANTS
    Readers,    \* dashboard requests in flight at one time
    CacheTtl,   \* ticks the figures are kept: 60 s
    MaxClock    \* bound: ticks in one behaviour

ASSUME MonitoringBounds == {CacheTtl, MaxClock} \subseteq Nat \ {0}

VARIABLES
    clock,
    cached,    \* dashboard:stats: when its figures were read, and its expiry
    reader,    \* request -> when it came and when it read the figures
    told,      \* age of the figures the last dashboard request of this tick got
    slowest    \* the longest a request took between reading and caching (history)

monitoringVars == <<clock, cached, reader, told, slowest>>

-----------------------------------------------------------------------------

Nothing == [at |-> 0, until |-> 0]
Resting == [at |-> "idle", read |-> 0]
Times == 0 .. MaxClock
Held(key) == key.until > clock

MonitoringTypeOK ==
    /\ clock \in Times
    /\ reader \in [Readers -> [at : {"idle", "store"}, read : Times]]
    /\ cached.at \in Times /\ told \in Times

MonitoringInit ==
    /\ clock = 0
    /\ cached = Nothing
    /\ reader = [r \in Readers |-> Resting]
    /\ told = 0
    /\ slowest = 0

-----------------------------------------------------------------------------
(* dashboard.service, analytics.processor *)

\* A hit answers; a miss reads sixteen tables at once.
GetDashboardStats(r) ==
    /\ reader[r] = Resting
    /\ IF Held(cached)
       THEN told' = clock - cached.at /\ UNCHANGED reader
       ELSE /\ reader' = [reader EXCEPT ![r] = [at |-> "store", read |-> clock]]
            /\ UNCHANGED told
    /\ UNCHANGED <<clock, cached, slowest>>

\* Mutant: the key is set without its expiry.
StoreForever(r) ==
    /\ reader[r].at = "store"
    /\ cached' = [at |-> reader[r].read, until |-> MaxClock + 1]
    /\ told' = clock - reader[r].read
    /\ slowest' = IF clock - reader[r].read > slowest THEN clock - reader[r].read ELSE slowest
    /\ reader' = [reader EXCEPT ![r] = Resting]
    /\ UNCHANGED clock

\* Over what another request stored, or the analytics job dropped, since.
StoreDashboardStats(r) ==
    /\ reader[r].at = "store"
    /\ cached' = [at |-> reader[r].read, until |-> clock + CacheTtl]
    /\ told' = clock - reader[r].read
    /\ slowest' = IF clock - reader[r].read > slowest THEN clock - reader[r].read ELSE slowest
    /\ reader' = [reader EXCEPT ![r] = Resting]
    /\ UNCHANGED clock

\* Postgres or Redis refuses: the request ends with an error.
DashboardFails(r) ==
    /\ reader[r].at = "store"
    /\ reader' = [reader EXCEPT ![r] = Resting]
    /\ UNCHANGED <<clock, cached, told, slowest>>

DropDashboardStats ==
    /\ Held(cached)
    /\ cached' = Nothing
    /\ UNCHANGED <<clock, reader, told, slowest>>

Tick ==
    /\ clock < MaxClock
    /\ clock' = clock + 1
    /\ told' = 0
    /\ UNCHANGED <<cached, reader, slowest>>

MonitoringNext ==
    \/ \E r \in Readers :
          GetDashboardStats(r) \/ StoreDashboardStats(r) \/ DashboardFails(r)
    \/ DropDashboardStats \/ Tick

MonitoringSpec == MonitoringInit /\ [][MonitoringNext]_monitoringVars

-----------------------------------------------------------------------------
(* Properties *)

\* No dashboard shows figures older than the cache keeps them and the slowest
\* request took to store what it had read, also when a request stores its old
\* figures after the job dropped the cache (dashboard.service:23-99).
DashboardIsRecent == told <= CacheTtl + slowest

=============================================================================
