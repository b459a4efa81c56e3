------------------------------ MODULE QuakeAlert ------------------------------
(***************************************************************************)
(* The earthquake service: the versions of one alert, from the poller or   *)
(* POST /earthquakes through broadcast, outbox and stream to the sender    *)
(* worker and the hub.  One process with an event loop, as the hub needs   *)
(* it: code between two awaits keeps the loop, and the only awaits are the *)
(* enqueue and the dequeue, which run in threads.  Reports and             *)
(* configurations run in threads and interleave with every call.           *)
(***************************************************************************)
EXTENDS GeoIndex, Sequences

CONSTANTS
  MaxVersion, Event,   \* Event[v]: the magnitude and the radius of version v
  Config,              \* the configurations devices choose from
  Broadcast, Poller,   \* broadcasts at once; Poller is the poller's
  MaxEvents            \* bound on what comes from outside: events, requests, faults

ASSUME QuakeAssumption == MaxVersion \in Nat \ {0} /\ Poller \in Broadcast /\ {None, "worker", "free"} \cap Broadcast = {} /\ MaxEvents \in Nat

Version == 1..MaxVersion
Job == Version \X Device
TERMINAL == {"ATTEMPTED", "VENDOR_ACCEPTED", "FAILED"}
Status == TERMINAL \cup {"none", "ENQUEUED", "CANCELLED_SUPERSEDED"}

VARIABLES
  latest,  \* supersession cache: the newest version known, 0 for none
  config,  \* device -> its row in alert_config, or None
  outbox,  \* <<version, device>> -> status of its row
  stream,  \* the jobs in the Redis stream
  bc,      \* broadcast -> where it is
  job,     \* the job the worker took from the stream, or None
  loop,    \* who runs on the event loop
  hub,     \* devices that have a queue in the hub
  seen,    \* the poller's newest version
  sent,    \* <<version, device>> -> times the hub delivered it (history)
  lost,    \* rows whose job a crash or a failed enqueue took (history)
  events   \* what came from outside so far

vars == <<geoVars, latest, config, outbox, stream, bc, job, loop, hub, seen, sent, lost, events>>
quake == <<latest, config, outbox, stream, bc, job, loop, hub, seen, sent, lost, events>>

\* due: eligible, settled devices, as long as they and their configuration
\* stay as they were at the start (history).
Run == [pc : {"idle", "loop", "xadd", "back"}, version : 0..MaxVersion, todo : SUBSET Device,
        at : Device \cup {None}, due : SUBSET Device]
Idle == [pc |-> "idle", version |-> 0, todo |-> {}, at |-> None, due |-> {}]

TypeOK ==
  /\ GeoTypeOK /\ latest \in 0..MaxVersion /\ seen \in 0..MaxVersion
  /\ config \in [Device -> Config \cup {None}] /\ outbox \in [Job -> Status]
  /\ stream \in Seq(Job) /\ bc \in [Broadcast -> Run] /\ job \in Job \cup {None}
  /\ loop \in Broadcast \cup {"worker", "free"} /\ hub \subseteq Device
  /\ loop = "worker" => job # None /\ outbox[job] = "ATTEMPTED"
  /\ \A b \in Broadcast : bc[b].pc = "loop" <=> loop = b
  /\ sent \in [Job -> Nat] /\ lost \subseteq Job /\ events \in 0..MaxEvents

\* The devices are connected; they all have the same configuration, or none.
Init ==
  /\ GeoInit
  /\ latest = 0 /\ seen = 0 /\ config \in {[d \in Device |-> c] : c \in Config \cup {None}}
  /\ outbox = [j \in Job |-> "none"] /\ sent = [j \in Job |-> 0]
  /\ stream = <<>> /\ bc = [b \in Broadcast |-> Idle] /\ job = None
  /\ loop = "free" /\ hub = Device /\ lost = {} /\ events = 0

-----------------------------------------------------------------------------
(* Devices: locations, configurations, SSE connections.                    *)

\* What comes from outside: at most MaxEvents.
External == events < MaxEvents /\ events' = events + 1

\* Whatever moves or reconfigures d takes it from what running broadcasts owe.
Disturbs(d) == bc' = [b \in Broadcast |-> [bc[b] EXCEPT !.due = @ \ {d}]]

ReportLocation ==
  /\ \/ External /\ \E r \in Report, d \in Device, c \in Cell : Upsert(r, d, c)
     \/ UNCHANGED events /\ \E r \in Report : SetDeviceCell(r)
  /\ bc' = [b \in Broadcast |-> [bc[b] EXCEPT !.due = @ \ {report'[r].device : r \in Report}]]
  /\ UNCHANGED <<latest, config, outbox, stream, job, loop, hub, seen, sent, lost>>

ExpireLocation ==
  \E d \in Device, c \in Cell :
    /\ External /\ Expire(d, c) /\ Disturbs(d)
    /\ UNCHANGED <<latest, config, outbox, stream, job, loop, hub, seen, sent, lost>>

SetConfig(d, c) ==
  /\ External /\ config[d] # c /\ config' = [config EXCEPT ![d] = c] /\ Disturbs(d)
  /\ UNCHANGED <<geoVars, latest, outbox, stream, job, loop, hub, seen, sent, lost>>

\* The stream endpoint adds and removes the device's queue, on the loop.
Connect(d) ==
  /\ External /\ loop = "free" /\ d \notin hub /\ hub' = hub \cup {d}
  /\ UNCHANGED <<geoVars, latest, config, outbox, stream, bc, job, loop, seen, sent, lost>>
Disconnect(d) ==
  /\ External /\ loop = "free" /\ d \in hub /\ hub' = hub \ {d}
  /\ UNCHANGED <<geoVars, latest, config, outbox, stream, bc, job, loop, seen, sent, lost>>

-----------------------------------------------------------------------------
(* broadcast                                                               *)

\* Mutant: the disk is one ring short.
CellsFor_Short(v) == {c \in Cell : c < Event[v].radius}
CellsFor(v) == {c \in Cell : c <= Event[v].radius}

\* What broadcast reads of a device: its location, its configuration, the
\* distance from the cell's centre.
Eligible(v, d) ==
  /\ location[d] # None /\ config[d] # None
  /\ Event[v].magnitude >= config[d].magnitude_min
  /\ location[d] <= config[d].distance_km

\* supersession.update: one call after another on the loop.
Update(v) == IF v > latest THEN v ELSE latest

Begin(b, v) ==
  /\ External /\ loop = "free" /\ bc[b].pc = "idle"
  /\ latest' = Update(v)
  /\ IF v < latest' THEN UNCHANGED <<bc, loop, outbox>>
     ELSE /\ bc' = [bc EXCEPT ![b] =
               [pc |-> "loop", version |-> v, todo |-> DevicesIn(CellsFor(v)), at |-> None,
                due |-> {d \in settled : location[d] <= Event[v].radius /\ Eligible(v, d)}]]
          /\ loop' = b
          /\ outbox' = [j \in Job |-> IF j[1] < v /\ outbox[j] \notin TERMINAL \cup {"none"}
                                      THEN "CANCELLED_SUPERSEDED" ELSE outbox[j]]
  /\ UNCHANGED <<geoVars, config, stream, job, hub, sent, lost>>

Trigger(b, v) == b # Poller /\ Begin(b, v) /\ UNCHANGED seen

\* A poll marks the version before it hands it on; it waits for the broadcast.
Poll(v) == seen < v /\ seen' = v /\ Begin(Poller, v)

Running(b) ==
  \/ bc[b].pc = "loop" /\ loop = b
  \/ bc[b].pc = "back" /\ loop = "free"

\* Mutant: a row that is there is no reason to skip.
Skips_Never(v, d) == ~ Eligible(v, d)
Skips(v, d) == ~ Eligible(v, d) \/ outbox[<<v, d>>] \notin {"none", "FAILED"}

Target(b, d) ==
  LET v == bc[b].version IN
  /\ Running(b) /\ d \in bc[b].todo
  /\ IF Skips(v, d)
     THEN /\ bc' = [bc EXCEPT ![b].todo = @ \ {d}, ![b].pc = "loop"] /\ loop' = b
          /\ UNCHANGED outbox
     ELSE /\ outbox' = [outbox EXCEPT ![<<v, d>>] = "ENQUEUED"]
          /\ bc' = [bc EXCEPT ![b].todo = @ \ {d}, ![b].pc = "xadd", ![b].at = d] /\ loop' = "free"
  /\ UNCHANGED <<geoVars, latest, config, stream, job, hub, seen, sent, lost, events>>

Done(b) ==
  /\ Running(b) /\ bc[b].todo = {}
  /\ bc' = [bc EXCEPT ![b] = Idle] /\ loop' = "free"
  /\ UNCHANGED <<geoVars, latest, config, outbox, stream, job, hub, seen, sent, lost, events>>

Enqueue(b) ==
  /\ bc[b].pc = "xadd"
  /\ stream' = Append(stream, <<bc[b].version, bc[b].at>>)
  /\ bc' = [bc EXCEPT ![b].pc = "back", ![b].at = None]
  /\ UNCHANGED <<geoVars, latest, config, outbox, job, loop, hub, seen, sent, lost, events>>

\* The exception ends the broadcast; its rows stay as they are.
EnqueueFails(b) ==
  /\ bc[b].pc = "xadd" /\ External
  /\ lost' = lost \cup {<<bc[b].version, bc[b].at>>}
  /\ bc' = [bc EXCEPT ![b] = Idle]
  /\ UNCHANGED <<geoVars, latest, config, outbox, stream, job, loop, hub, seen, sent>>

-----------------------------------------------------------------------------
(* run_worker and _handle                                                  *)

\* The thread acknowledges what it read at once.
Dequeue ==
  /\ job = None /\ stream # <<>>
  /\ job' = Head(stream) /\ stream' = Tail(stream)
  /\ UNCHANGED <<geoVars, latest, config, outbox, bc, loop, hub, seen, sent, lost, events>>

\* Mutant: the worker does not look at the supersession cache.
Superseded_Never(v) == FALSE
Superseded(v) == v < latest

\* Mutant: a dropped job leaves its row as it is.
DropJob_Unmarked ==
  /\ loop = "free" /\ job # None /\ (outbox[job] \in TERMINAL \/ Superseded(job[1]))
  /\ job' = None
  /\ UNCHANGED <<geoVars, latest, config, outbox, stream, bc, loop, hub, seen, sent, lost, events>>

DropJob ==
  /\ loop = "free" /\ job # None /\ (outbox[job] \in TERMINAL \/ Superseded(job[1]))
  /\ outbox' = IF outbox[job] \in TERMINAL THEN outbox ELSE [outbox EXCEPT ![job] = "CANCELLED_SUPERSEDED"]
  /\ job' = None
  /\ UNCHANGED <<geoVars, latest, config, stream, bc, loop, hub, seen, sent, lost, events>>

Attempt ==
  /\ loop = "free" /\ job # None /\ outbox[job] \notin TERMINAL /\ ~ Superseded(job[1])
  /\ outbox' = [outbox EXCEPT ![job] = "ATTEMPTED"] /\ loop' = "worker"
  /\ UNCHANGED <<geoVars, latest, config, stream, bc, job, hub, seen, sent, lost, events>>

Publish ==
  /\ loop = "worker"
  /\ sent' = [sent EXCEPT ![job] = IF job[2] \in hub THEN @ + 1 ELSE @]
  /\ outbox' = [outbox EXCEPT ![job] = IF job[2] \in hub THEN "VENDOR_ACCEPTED" ELSE "FAILED"]
  /\ loop' = "free" /\ job' = None
  /\ UNCHANGED <<geoVars, latest, config, stream, bc, hub, seen, lost, events>>

\* The process dies and starts again; Redis and the database stay.
Crash ==
  /\ External
  /\ GeoCrash
  /\ lost' = lost \cup (IF job = None THEN {} ELSE {job})
                  \cup {<<bc[b].version, bc[b].at>> : b \in {b \in Broadcast : bc[b].pc = "xadd"}}
  /\ bc' = [b \in Broadcast |-> Idle] /\ job' = None /\ loop' = "free" /\ hub' = {} /\ seen' = 0
  /\ UNCHANGED <<latest, config, outbox, stream, sent>>

-----------------------------------------------------------------------------
BroadcastStep(b) == (\E d \in Device : Target(b, d)) \/ Done(b) \/ Enqueue(b) \/ EnqueueFails(b)
WorkerStep == Dequeue \/ DropJob \/ Attempt \/ Publish

Next ==
  \/ ReportLocation \/ ExpireLocation \/ Crash \/ WorkerStep
  \/ \E d \in Device : Connect(d) \/ Disconnect(d) \/ \E c \in Config : SetConfig(d, c)
  \/ \E v \in Version : Poll(v) \/ \E b \in Broadcast : Trigger(b, v)
  \/ \E b \in Broadcast : BroadcastStep(b)

\* The event loop runs what is ready in the order it became ready, so that no
\* task is passed over for ever; nothing is assumed of devices and events.
Spec == Init /\ [][Next]_vars /\ SF_vars(WorkerStep) /\ \A b \in Broadcast : SF_vars(BroadcastStep(b))

-----------------------------------------------------------------------------
\* No version reaches a device twice, whatever retriggers, overlapping
\* broadcasts, polls after a restart and enqueues that fail meet at the outbox.
AtMostOnce == \A j \in Job : sent[j] <= 1

\* What the hub delivers is the newest version known: a broadcast that goes on
\* after a newer one has begun does no harm, and no device sees an older
\* version after a newer one.
NewestOnly ==
  [][\A j \in Job : sent'[j] # sent[j] => j[1] = latest /\ \A w \in Version : w > j[1] => sent[<<w, j[2]>>] = 0]_vars

\* A broadcast that ends has a row for every device that was settled in the
\* area and wanted the alert since it began.
TargetsCovered ==
  [][\A b \in Broadcast : Done(b) => \A d \in bc[b].due : outbox[<<bc[b].version, d>>] # "none"]_vars

\* Again and again no row waits: each is sent, cancelled or found without a
\* connection, unless its job died with a process or an enqueue.
RowsSettle == []<>(\A j \in Job : outbox[j] = "ENQUEUED" => j \in lost)

=============================================================================
