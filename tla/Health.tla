------------------------------- MODULE Health -------------------------------
(***************************************************************************)
(* The worker's heartbeat, a key in Redis that runs out, and the health    *)
(* check that reads it.  Time is counted in ticks of 15 seconds, the       *)
(* interval at which the worker sends a heartbeat.  The event loop may     *)
(* skip an interval; Redis may set a heartbeat late or refuse it, and      *)
(* refuse the read: both refusals are swallowed.                           *)
(***************************************************************************)
EXTENDS Naturals, FiniteSets

CONSTANTS
    BeatTtl,    \* ticks Redis keeps a heartbeat: 30 s
    StaleAfter, \* age in ticks from which a heartbeat reads stale: 60 s
    MaxSending, \* bound: heartbeats under way at one time
    MaxTime     \* bound: ticks in one behaviour

ASSUME HealthBounds ==
    {BeatTtl, StaleAfter, MaxTime} \subseteq Nat \ {0} /\ MaxSending \in Nat

VARIABLES
    now,
    worker,    \* "down", "starting" or "up", and since when
    sending,   \* dates of the heartbeats Redis has not answered
    beat,      \* worker:heartbeat: its date, and when it runs out
    health,    \* workerStatus, while what it was read from stands
    (* History *)
    unread,    \* the read of the key was refused
    heard,     \* a heartbeat was set in this tick
    missed,    \* ticks in a row that a worker that is up ended without one
    latest     \* the longest a heartbeat was under way

healthVars == <<now, worker, sending, beat, health, unread, heard, missed, latest>>

-----------------------------------------------------------------------------

Ticks == 0 .. MaxTime

HealthTypeOK ==
    /\ {now, worker.since, beat.at, latest, missed} \cup sending \subseteq Ticks
    /\ worker.state \in {"down", "starting", "up"}
    /\ health \in {"active", "stale", "none", "unasked"}

HealthInit ==
    /\ now = 0
    /\ worker = [state |-> "down", since |-> 0]
    /\ sending = {}
    /\ beat = [at |-> 0, until |-> 0]
    /\ health = "unasked"
    /\ unread = FALSE /\ heard = FALSE /\ missed = 0 /\ latest = 0

-----------------------------------------------------------------------------
(* worker main *)

Becomes(state) == worker' = [state |-> state, since |-> now]

\* The heartbeat dated d takes effect: it is kept from now on.
KeyIs(d) ==
    /\ beat' = [at |-> d, until |-> now + BeatTtl]
    /\ heard' = TRUE /\ missed' = 0
    /\ latest' = IF now - d > latest THEN now - d ELSE latest
    /\ health' = "unasked"

\* The job queues are served from here on; the first heartbeat is awaited.
StartWorker ==
    /\ worker.state = "down"
    /\ Becomes("starting")
    /\ health' = "unasked"
    /\ UNCHANGED <<now, sending, beat, unread, heard, missed, latest>>

FirstHeartbeat ==
    /\ worker.state = "starting"
    /\ worker' = [worker EXCEPT !.state = "up"]
    /\ KeyIs(worker.since)
    /\ UNCHANGED <<now, sending, unread>>

\* The interval does not wait for the answer to the heartbeat before.
SendHeartbeat ==
    /\ worker.state # "down" /\ Cardinality(sending) < MaxSending
    /\ sending' = sending \cup {now}
    /\ UNCHANGED <<now, worker, beat, health, unread, heard, missed, latest>>

\* In any order: a worker that starts again has another connection, and what the
\* former one sent is still answered.
SetHeartbeat(d) ==
    /\ d \in sending /\ sending' = sending \ {d}
    /\ KeyIs(d)
    /\ UNCHANGED <<now, worker, unread>>

\* Swallowed.
RefuseHeartbeat(d) ==
    /\ d \in sending /\ sending' = sending \ {d}
    /\ UNCHANGED <<now, worker, beat, health, unread, heard, missed, latest>>

\* Mutant: a stopping worker is neither up nor down.
StopWorkerUnset ==
    /\ worker.state # "down"
    /\ Becomes("stopping") /\ health' = "unasked"
    /\ sending' = IF worker.state = "starting" THEN sending \cup {worker.since} ELSE sending
    /\ UNCHANGED <<now, beat, unread, heard, missed, latest>>

\* Killed, told to shut down, or its first heartbeat refused: nothing deletes the
\* key, and what was sent may still be set.
StopWorker ==
    /\ worker.state # "down"
    /\ Becomes("down") /\ health' = "unasked"
    /\ sending' = IF worker.state = "starting" THEN sending \cup {worker.since} ELSE sending
    /\ UNCHANGED <<now, beat, unread, heard, missed, latest>>

\* An interval the event loop skipped is not made up for.
TimePasses ==
    /\ now < MaxTime /\ now' = now + 1
    /\ missed' = IF worker.state = "up" /\ ~heard THEN missed + 1 ELSE 0
    /\ heard' = FALSE
    /\ health' = "unasked"
    /\ UNCHANGED <<worker, sending, beat, unread, latest>>

-----------------------------------------------------------------------------
(* health.service *)

\* Mutant: a heartbeat that is there counts, whatever its date.
CheckHealthUndated ==
    /\ health' = IF beat.until > now THEN "active" ELSE "none"
    /\ unread' = FALSE
    /\ UNCHANGED <<now, worker, sending, beat, heard, missed, latest>>

CheckHealth ==
    /\ health' = IF beat.until <= now THEN "none"
                 ELSE IF now - beat.at < StaleAfter THEN "active" ELSE "stale"
    /\ unread' = FALSE
    /\ UNCHANGED <<now, worker, sending, beat, heard, missed, latest>>

\* A refused read leaves what the status was declared as.
CheckHealthUnread ==
    /\ health' = "none" /\ unread' = TRUE
    /\ UNCHANGED <<now, worker, sending, beat, heard, missed, latest>>

-----------------------------------------------------------------------------
(* Specification *)

HealthNext ==
    \/ StartWorker \/ FirstHeartbeat \/ StopWorker
    \/ SendHeartbeat \/ \E d \in Ticks : SetHeartbeat(d) \/ RefuseHeartbeat(d)
    \/ TimePasses
    \/ CheckHealth \/ CheckHealthUnread

HealthSpec == HealthInit /\ [][HealthNext]_healthVars

-----------------------------------------------------------------------------
(* Properties *)

\* A worker that is up reads none only after a refused read, or when the ticks
\* since its last heartbeat was set, this one included, are as many as Redis
\* keeps one: two, so a single refused, late or skipped heartbeat is enough.  One
\* that is down is not read as active once its heartbeats are out of date, also
\* when Redis sets them late; and without delay no sooner than the key runs out
\* and never stale (health.service:58-65, worker main:117-125).
HealthIsTrue ==
    /\ health = "none" => \/ unread \/ worker.state # "up"
                          \/ missed + 1 >= BeatTtl
    /\ health = "active" => \/ worker.state # "down"
                            \/ /\ now - worker.since < StaleAfter
                               /\ now - worker.since < BeatTtl + latest
    /\ health = "stale" => StaleAfter < BeatTtl + latest

=============================================================================
