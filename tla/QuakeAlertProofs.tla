-------------------------- MODULE QuakeAlertProofs --------------------------
(***************************************************************************)
(* What QuakeAlert and GeoIndex keep for any devices, cells, events,       *)
(* configurations, broadcasts and faults: the index finds who has settled, *)
(* no version is delivered twice or after a newer one, and a broadcast     *)
(* that ends has a row for everyone it owes one.                           *)
(***************************************************************************)
EXTENDS QuakeAlert, TLAPS

Busy == {"get", "zrem", "zadd", "set"}

\* A report under way is about its device; one that is alone is the only one
\* of its device, and says what the row says.
ReportFits(r) ==
  /\ report[r].pc \in Busy => report[r].device \in Device /\ report[r].cell \in Cell
  /\ report[r].pc = "zrem" => report[r].old \in Cell
  /\ report[r].pc \notin Busy => report[r].device = None
  /\ report[r].pc \in Busy /\ report[r].alone =>
       /\ location[report[r].device] = report[r].cell
       /\ \A q \in Report : q # r => report[q].device # report[r].device
       /\ report[r].pc = "set" => report[r].device \in cellDevices[report[r].cell]
ReportsFit == \A r \in Report : ReportFits(r)

\* A device that has settled has no report under way, and is found.
SettledFound == \A d \in settled : ~ Reporting(d) /\ location[d] \in Cell /\ d \in cellDevices[location[d]]

\* A version that was begun is known.
Known ==
  /\ \A b \in Broadcast : bc[b].version <= latest
  /\ \A i \in 1..Len(stream) : stream[i][1] <= latest
  /\ job # None => job[1] <= latest
  /\ loop = "worker" => job[1] = latest

\* What was delivered is marked so, for good.
Marked == \A j \in Job : sent[j] # 0 => sent[j] = 1 /\ outbox[j] = "VENDOR_ACCEPTED" /\ j[1] <= latest

\* A broadcast will look at whom it owes a row, or has given it one.
Owed ==
  \A b \in Broadcast : bc[b].pc # "idle" =>
    /\ bc[b].version \in Version
    /\ bc[b].pc = "xadd" => bc[b].at \in Device
    /\ \A d \in bc[b].due : Eligible(bc[b].version, d) /\ (d \in bc[b].todo \/ outbox[<<bc[b].version, d>>] # "none")

IInv == TypeOK /\ ReportsFit /\ SettledFound /\ Known /\ Marked /\ Owed

-----------------------------------------------------------------------------
(* The index.                                                              *)

Geo == GeoTypeOK /\ ReportsFit /\ SettledFound

\* One report moves on; the others are as they were.
LEMMA OneReport ==
  ASSUME GeoTypeOK, NEW r \in Report, NEW x \in ReportState, report' = [report EXCEPT ![r] = x]
  PROVE  report' \in [Report -> ReportState] /\ report'[r] = x /\ \A q \in Report : q # r => report'[q] = report[q]
BY DEF GeoTypeOK

LEMMA UpsertKept ==
  ASSUME Geo, NEW r \in Report, NEW d \in Device, NEW c \in Cell, Upsert(r, d, c)
  PROVE  Geo'
<1> USE DEF Geo
<1> DEFINE new == [pc |-> "get", device |-> d, cell |-> c, old |-> None, alone |-> ~ Reporting(d)]
<1>1. /\ report[r].pc = "new" /\ location' = [location EXCEPT ![d] = c] /\ settled' = settled \ {d}
      /\ report' = [q \in Report |-> IF q = r THEN new ELSE [report[q] EXCEPT !.alone = @ /\ report[q].device # d]]
      /\ UNCHANGED <<cellDevices, deviceCell>>
  BY DEF Upsert
<1>2. \A q \in Report : report[q] \in ReportState BY DEF GeoTypeOK
<1>3. ASSUME NEW q \in Report, q # r
      PROVE  /\ report'[q] \in ReportState /\ report'[q].pc = report[q].pc /\ report'[q].device = report[q].device
             /\ report'[q].cell = report[q].cell /\ report'[q].old = report[q].old
             /\ report'[q].alone = (report[q].alone /\ report[q].device # d)
  BY <1>1, <1>2, <1>3 DEF ReportState
<1>4. report'[r] = new /\ new \in ReportState BY <1>1 DEF ReportState, Reporting
<1>5. None \notin Device \cup Cell BY GeoAssumption
<1>6. GeoTypeOK'
  <2>1. report' \in [Report -> ReportState] BY <1>1, <1>3, <1>4
  <2> QED BY <1>1, <2>1 DEF GeoTypeOK
<1>7. \A e \in Device : e # d => location'[e] = location[e] BY <1>1 DEF GeoTypeOK
<1>8. location'[d] = c BY <1>1 DEF GeoTypeOK
<1>9. ReportsFit'
  <2> SUFFICES ASSUME NEW q \in Report PROVE ReportFits(q)' BY DEF ReportsFit
  <2>1. ReportFits(q) BY DEF ReportsFit
  <2>2. CASE q = r
    <3>1. ~ Reporting(d) => \A p \in Report : p # r => report'[p].device # d BY <1>3 DEF Reporting
    <3> QED BY <2>2, <3>1, <1>1, <1>4, <1>8 DEF ReportFits, Busy
  <2>3. CASE q # r
    <3>1. report'[q].alone => report[q].alone /\ report[q].device # d BY <1>3, <2>3
    <3>2. \A p \in Report : p # r => report'[p].device = report[p].device BY <1>3
    <3>3. report'[r].device = d BY <1>4
    <3> HIDE DEF new
    <3> QED BY <2>1, <2>3, <3>1, <3>2, <3>3, <1>1, <1>3, <1>7 DEF ReportFits, Busy
  <2> QED BY <2>2, <2>3
<1>10. SettledFound'
  <2> SUFFICES ASSUME NEW e \in settled, e # d PROVE ~ Reporting(e)' /\ location'[e] \in Cell /\ e \in cellDevices[location'[e]]
    BY <1>1 DEF SettledFound
  <2>1. ~ Reporting(e) /\ location[e] \in Cell /\ e \in cellDevices[location[e]] /\ e \in Device
    BY DEF SettledFound, GeoTypeOK
  <2>2. \A q \in Report : report'[q].device # e
    <3> HIDE DEF new
    <3>1. \A q \in Report : q # r => report'[q].device # e BY <1>3, <2>1 DEF Reporting
    <3>2. report'[r].device # e BY <1>4 DEF new
    <3> QED BY <3>1, <3>2
  <2> QED BY <2>1, <2>2, <1>7 DEF Reporting
<1> QED BY <1>6, <1>9, <1>10

\* A step of a report that is not its last.
LEMMA ReportGoesOn ==
  ASSUME Geo, NEW r \in Report, NEW x \in ReportState, report' = [report EXCEPT ![r] = x],
         report[r].pc \in Busy, x.pc \in Busy, UNCHANGED <<location, deviceCell, settled>>,
         x.device = report[r].device, x.cell = report[r].cell, x.alone = report[r].alone,
         x.pc = "zrem" => x.old \in Cell,
         cellDevices' \in [Cell -> SUBSET Device],
         \A c \in Cell : \A d \in cellDevices[c] : d \in cellDevices'[c] \/ d = report[r].device,
         x.pc = "set" => x.device \in cellDevices'[x.cell]
  PROVE  Geo'
<1> USE DEF Geo
<1>1. report' \in [Report -> ReportState] /\ report'[r] = x /\ \A q \in Report : q # r => report'[q] = report[q]
  BY OneReport
<1>2. GeoTypeOK' BY <1>1 DEF GeoTypeOK
<1>3. \A q \in Report : report'[q].device = report[q].device BY <1>1
<1>4. ReportsFit'
  <2> SUFFICES ASSUME NEW q \in Report PROVE ReportFits(q)' BY DEF ReportsFit
  <2>1. ReportFits(q) BY DEF ReportsFit
  <2>2. CASE q = r BY <1>1, <1>3, <2>1, <2>2 DEF ReportFits
  <2>3. CASE q # r BY <1>1, <1>3, <2>1, <2>3 DEF ReportFits
  <2> QED BY <2>2, <2>3
<1>5. SettledFound'
  <2> SUFFICES ASSUME NEW d \in settled PROVE ~ Reporting(d)' /\ location[d] \in Cell /\ d \in cellDevices'[location[d]]
    BY DEF SettledFound
  <2>1. ~ Reporting(d) /\ location[d] \in Cell /\ d \in cellDevices[location[d]] BY DEF SettledFound
  <2> QED BY <2>1, <1>3 DEF Reporting
<1> QED BY <1>2, <1>4, <1>5

LEMMA MovesOn ==
  ASSUME Geo, NEW r \in Report, report[r].pc = "zrem" \/ report[r].pc = "zadd", NEW pc \in Busy,
         report' = [report EXCEPT ![r].pc = pc]
  PROVE  \E x \in ReportState : /\ report' = [report EXCEPT ![r] = x] /\ x.pc = pc /\ x.device = report[r].device
                                /\ x.cell = report[r].cell /\ x.alone = report[r].alone /\ x.old = report[r].old
<1>1. report[r] \in ReportState BY DEF Geo, GeoTypeOK
<1>2. [report[r] EXCEPT !.pc = pc] \in ReportState BY <1>1 DEF ReportState, Busy
<1> QED BY <1>1, <1>2 DEF ReportState

LEMMA SetDeviceCellKept ==
  ASSUME Geo, NEW r \in Report, GetDeviceCell(r) \/ LeaveOldCell(r) \/ EnterCell(r)
  PROVE  Geo'
<1>0. /\ report[r].pc \in Busy BY DEF GetDeviceCell, LeaveOldCell, EnterCell, Moves, Busy
<1>1. report[r] \in ReportState /\ report[r].device \in Device /\ report[r].cell \in Cell /\ (report[r].pc = "zrem" => report[r].old \in Cell)
  BY <1>0 DEF Geo, GeoTypeOK, ReportsFit, ReportFits
<1>2. CASE GetDeviceCell(r)
  <2> DEFINE old == deviceCell[report[r].device]
             pc == IF old \in {None, report[r].cell} THEN "zadd" ELSE "zrem"
             x == [report[r] EXCEPT !.old = old, !.pc = pc]
  <2>1. old \in Cell \cup {None} BY <1>1 DEF Geo, GeoTypeOK
  <2>2. x \in ReportState BY <1>1, <2>1 DEF ReportState
  <2>3. report' = [report EXCEPT ![r] = x] BY <1>2, <1>1 DEF GetDeviceCell, Geo, GeoTypeOK
  <2>4. /\ x.pc \in Busy /\ x.device = report[r].device /\ x.cell = report[r].cell /\ x.alone = report[r].alone
        /\ (x.pc = "zrem" => x.old \in Cell) /\ x.pc # "set"
    BY <1>1, <2>1 DEF ReportState, Busy
  <2> HIDE DEF x
  <2> QED BY <1>0, <1>2, <2>2, <2>3, <2>4, ReportGoesOn DEF GetDeviceCell, Geo, GeoTypeOK
<1>3. CASE LeaveOldCell(r)
  <2>1. PICK x \in ReportState : /\ report' = [report EXCEPT ![r] = x] /\ x.pc = "zadd" /\ x.device = report[r].device
                                 /\ x.cell = report[r].cell /\ x.alone = report[r].alone
    BY <1>3, MovesOn DEF LeaveOldCell, Moves, Busy
  <2>2. cellDevices' = [cellDevices EXCEPT ![report[r].old] = @ \ {report[r].device}]
    BY <1>3 DEF LeaveOldCell
  <2>3. /\ cellDevices' \in [Cell -> SUBSET Device]
        /\ \A c \in Cell : \A d \in cellDevices[c] : d \in cellDevices'[c] \/ d = report[r].device
    BY <2>2 DEF Geo, GeoTypeOK
  <2> QED BY <1>0, <1>3, <2>1, <2>3, ReportGoesOn DEF LeaveOldCell, Busy
<1>4. CASE EnterCell(r)
  <2>1. PICK x \in ReportState : /\ report' = [report EXCEPT ![r] = x] /\ x.pc = "set" /\ x.device = report[r].device
                                 /\ x.cell = report[r].cell /\ x.alone = report[r].alone
    BY <1>4, MovesOn DEF EnterCell, Moves, Busy
  <2>2. cellDevices' = [cellDevices EXCEPT ![report[r].cell] = @ \cup {report[r].device}]
    BY <1>4 DEF EnterCell
  <2>3. /\ cellDevices' \in [Cell -> SUBSET Device] /\ report[r].device \in cellDevices'[report[r].cell]
        /\ \A c \in Cell : \A d \in cellDevices[c] : d \in cellDevices'[c]
    BY <1>1, <2>2 DEF Geo, GeoTypeOK
  <2> QED BY <1>0, <1>4, <2>1, <2>3, ReportGoesOn DEF EnterCell, Busy
<1> QED BY <1>2, <1>3, <1>4

LEMMA SetDeviceKept ==
  ASSUME Geo, NEW r \in Report, SetDevice(r)
  PROVE  Geo'
<1> USE DEF Geo
<1> DEFINE d == report[r].device
           c == report[r].cell
<1>1. /\ report[r].pc = "set" /\ report' = [report EXCEPT ![r] = Ended]
      /\ deviceCell' = [deviceCell EXCEPT ![d] = c]
      /\ settled' = IF report[r].alone THEN settled \cup {d} ELSE settled
      /\ UNCHANGED <<location, cellDevices>>
  BY DEF SetDevice
<1>2. d \in Device /\ c \in Cell /\ ReportFits(r) BY <1>1 DEF ReportsFit, ReportFits, Busy
<1>3. Ended \in ReportState /\ Ended.pc = "done" /\ Ended.device = None BY DEF Ended, Unsent, ReportState
<1>4. report' \in [Report -> ReportState] /\ report'[r] = Ended /\ \A q \in Report : q # r => report'[q] = report[q]
  BY <1>1, <1>3, OneReport
<1>5. GeoTypeOK' BY <1>1, <1>2, <1>4 DEF GeoTypeOK
<1>6. None \notin Device BY GeoAssumption
<1>7. ReportsFit'
  <2> SUFFICES ASSUME NEW q \in Report PROVE ReportFits(q)' BY DEF ReportsFit
  <2>1. ReportFits(q) BY DEF ReportsFit
  <2>2. CASE q = r BY <1>3, <1>4, <2>2 DEF ReportFits, Busy
  <2>3. CASE q # r BY <1>1, <1>3, <1>4, <1>6, <2>1, <2>3 DEF ReportFits
  <2> QED BY <2>2, <2>3
<1>8. SettledFound'
  <2>1. \A e \in Device : Reporting(e)' => Reporting(e) BY <1>3, <1>4, <1>6 DEF Reporting
  <2>2. ASSUME report[r].alone
        PROVE  (\A q \in Report : report'[q].device # d) /\ location[d] \in Cell /\ d \in cellDevices[location[d]]
    <3>1. location[d] = c /\ d \in cellDevices[c] /\ \A q \in Report : q # r => report[q].device # d
      BY <1>1, <1>2, <2>2 DEF ReportFits, Busy
    <3> QED BY <3>1, <1>2, <1>3, <1>4, <1>6
  <2> SUFFICES ASSUME NEW e \in settled' PROVE ~ Reporting(e)' /\ location[e] \in Cell /\ e \in cellDevices[location[e]]
    BY <1>1 DEF SettledFound
  <2>3. CASE e \in settled BY <2>1, <2>3 DEF SettledFound, GeoTypeOK
  <2>4. CASE e \notin settled
    <3>1. report[r].alone /\ e = d BY <1>1, <2>4
    <3> QED BY <2>2, <3>1 DEF Reporting
  <2> QED BY <2>3, <2>4
<1> QED BY <1>5, <1>7, <1>8

LEMMA ExpireKept ==
  ASSUME Geo, NEW d \in Device, NEW c \in Cell, Expire(d, c)
  PROVE  Geo'
<1> USE DEF Geo
<1>1. /\ ~ Reporting(d) /\ cellDevices' = [cellDevices EXCEPT ![c] = @ \ {d}]
      /\ deviceCell' = [deviceCell EXCEPT ![d] = IF @ = c THEN None ELSE @]
      /\ settled' = IF location[d] = c THEN settled \ {d} ELSE settled
      /\ UNCHANGED <<location, report>>
  BY DEF Expire
<1>2. GeoTypeOK' BY <1>1 DEF GeoTypeOK
<1>3. \A e \in Device, k \in Cell : e \in cellDevices[k] /\ (e # d \/ k # c) => e \in cellDevices'[k]
  BY <1>1 DEF GeoTypeOK
<1>4. ReportsFit'
  <2> SUFFICES ASSUME NEW q \in Report PROVE ReportFits(q)' BY DEF ReportsFit
  <2>1. ReportFits(q) /\ report[q].device # d BY <1>1 DEF ReportsFit, Reporting
  <2> QED BY <1>1, <1>3, <2>1 DEF ReportFits
<1>5. SettledFound' BY <1>1, <1>3 DEF SettledFound, Reporting, GeoTypeOK
<1> QED BY <1>2, <1>4, <1>5

LEMMA GeoCrashKept ==
  ASSUME Geo, GeoCrash
  PROVE  Geo'
<1> USE DEF Geo
<1>1. /\ report' = [r \in Report |-> IF report[r].pc = "new" THEN Unsent ELSE Ended]
      /\ UNCHANGED <<location, cellDevices, deviceCell, settled>>
  BY DEF GeoCrash
<1>2. Unsent \in ReportState /\ Ended \in ReportState BY DEF Ended, Unsent, ReportState
<1>3. \A r \in Report : report'[r].pc \notin Busy /\ report'[r].pc # "zrem" /\ report'[r].device = None
  BY <1>1 DEF Ended, Unsent, Busy
<1>4. GeoTypeOK' BY <1>1, <1>2 DEF GeoTypeOK
<1>5. ReportsFit' BY <1>3 DEF ReportsFit, ReportFits
<1>6. SettledFound' BY <1>1, <1>3, GeoAssumption DEF SettledFound, Reporting, GeoTypeOK
<1> QED BY <1>4, <1>5, <1>6

LEMMA GeoStands == Geo /\ UNCHANGED geoVars => Geo'
BY DEF Geo, geoVars, GeoTypeOK, ReportsFit, ReportFits, SettledFound, Reporting

-----------------------------------------------------------------------------
(* Broadcasts, the worker, the hub.                                        *)

\* What the versions and the rows mean does not depend on the rest.
LEMMA RowsStand ==
  ASSUME IInv
  PROVE  /\ UNCHANGED <<latest, bc, stream, job, loop>> => Known'
         /\ UNCHANGED <<latest, sent, outbox>> => Marked'
         /\ UNCHANGED <<location, config, bc, outbox>> => Owed'
BY DEF IInv, Known, Marked, Owed, Eligible

LEMMA OneMore ==
  ASSUME TypeOK, External
  PROVE  events' \in 0..MaxEvents
BY QuakeAssumption DEF TypeOK, External

\* Some devices are taken from what the broadcasts owe.
LEMMA Disturbed ==
  ASSUME TypeOK, NEW D, bc' = [b \in Broadcast |-> [bc[b] EXCEPT !.due = @ \ D]]
  PROVE  /\ bc' \in [Broadcast -> Run]
         /\ \A b \in Broadcast : /\ bc'[b].pc = bc[b].pc /\ bc'[b].version = bc[b].version /\ bc'[b].todo = bc[b].todo
                                 /\ bc'[b].at = bc[b].at /\ bc'[b].due = bc[b].due \ D
<1>1. \A b \in Broadcast : bc[b] \in Run BY DEF TypeOK
<1>2. \A b \in Broadcast : [bc[b] EXCEPT !.due = @ \ D] \in Run BY <1>1 DEF Run
<1> QED BY <1>1, <1>2 DEF Run

\* A device moves, is forgotten or is configured; nobody is owed who was disturbed.
LEMMA DeviceKept ==
  ASSUME IInv, NEW D, bc' = [b \in Broadcast |-> [bc[b] EXCEPT !.due = @ \ D]], Geo', events' \in 0..MaxEvents,
         config' \in [Device -> Config \cup {None}],
         \A d \in Device \ D : location'[d] = location[d] /\ config'[d] = config[d],
         UNCHANGED <<latest, outbox, stream, job, loop, hub, seen, sent, lost>>
  PROVE  IInv'
<1>1. TypeOK BY DEF IInv
<1>2. /\ bc' \in [Broadcast -> Run]
      /\ \A b \in Broadcast : /\ bc'[b].pc = bc[b].pc /\ bc'[b].version = bc[b].version /\ bc'[b].todo = bc[b].todo
                              /\ bc'[b].at = bc[b].at /\ bc'[b].due = bc[b].due \ D
  BY <1>1, Disturbed
<1>3. TypeOK' BY <1>1, <1>2 DEF TypeOK, Geo
<1>4. Known' BY <1>2 DEF IInv, Known
<1>5. Marked' BY RowsStand
<1>6. Owed'
  <2>1. \A b \in Broadcast : bc[b].due \subseteq Device BY <1>1 DEF TypeOK, Run
  <2> QED BY <2>1, <1>2 DEF IInv, Owed, Eligible
<1> QED BY <1>3, <1>4, <1>5, <1>6 DEF IInv, Geo

LEMMA GeoOf == IInv => Geo /\ TypeOK
BY DEF IInv, Geo, TypeOK

LEMMA ReportLocationKept ==
  ASSUME IInv, ReportLocation
  PROVE  IInv'
<1> DEFINE D == {report'[r].device : r \in Report}
<1>1. bc' = [b \in Broadcast |-> [bc[b] EXCEPT !.due = @ \ D]] BY DEF ReportLocation
<1>2. Geo'
  BY GeoOf, UpsertKept, SetDeviceCellKept, SetDeviceKept DEF ReportLocation, SetDeviceCell
<1>3. events' \in 0..MaxEvents BY GeoOf, OneMore DEF ReportLocation, TypeOK
<1>4. \A d \in Device \ D : location'[d] = location[d]
  <2>1. CASE \E r \in Report : SetDeviceCell(r)
    BY <2>1 DEF SetDeviceCell, GetDeviceCell, LeaveOldCell, EnterCell, SetDevice
  <2>2. ASSUME NEW r \in Report, NEW d \in Device, NEW c \in Cell, Upsert(r, d, c)
        PROVE  \A e \in Device \ D : location'[e] = location[e]
    <3>1. report'[r].device = d /\ location' = [location EXCEPT ![d] = c] BY <2>2 DEF Upsert
    <3>2. d \in D BY <3>1
    <3>3. location \in [Device -> Cell \cup {None}] BY GeoOf DEF Geo, GeoTypeOK
    <3> HIDE DEF D
    <3> QED BY <3>1, <3>2, <3>3
  <2> QED BY <2>1, <2>2 DEF ReportLocation
<1>5. config' = config /\ config \in [Device -> Config \cup {None}] BY GeoOf DEF ReportLocation, TypeOK
<1> HIDE DEF D
<1> QED BY <1>1, <1>2, <1>3, <1>4, <1>5, DeviceKept DEF ReportLocation

LEMMA ExpireLocationKept ==
  ASSUME IInv, ExpireLocation
  PROVE  IInv'
<1>1. PICK d \in Device, c \in Cell : External /\ Expire(d, c) /\ Disturbs(d) BY DEF ExpireLocation
<1>2. Geo' /\ events' \in 0..MaxEvents BY <1>1, GeoOf, ExpireKept, OneMore
<1>3. UNCHANGED <<location, config>> /\ config \in [Device -> Config \cup {None}]
  BY <1>1, GeoOf DEF ExpireLocation, Expire, TypeOK
<1> QED BY <1>1, <1>2, <1>3, DeviceKept DEF ExpireLocation, Disturbs

LEMMA SetConfigKept ==
  ASSUME IInv, NEW d \in Device, NEW c \in Config, SetConfig(d, c)
  PROVE  IInv'
<1>1. Geo' BY GeoOf, GeoStands DEF SetConfig
<1>2. events' \in 0..MaxEvents BY GeoOf, OneMore DEF SetConfig
<1>3. /\ config' \in [Device -> Config \cup {None}] /\ location' = location
      /\ \A e \in Device \ {d} : config'[e] = config[e]
  BY GeoOf DEF SetConfig, TypeOK, geoVars
<1> QED BY <1>1, <1>2, <1>3, DeviceKept DEF SetConfig, Disturbs

LEMMA HubKept ==
  ASSUME IInv, NEW d \in Device, Connect(d) \/ Disconnect(d)
  PROVE  IInv'
<1>1. Geo' BY GeoOf, GeoStands DEF Connect, Disconnect
<1>2. events' \in 0..MaxEvents BY GeoOf, OneMore DEF Connect, Disconnect
<1>3. TypeOK' BY <1>1, <1>2, GeoOf DEF Connect, Disconnect, TypeOK, Geo
<1> QED BY <1>1, <1>3, RowsStand DEF Connect, Disconnect, IInv, Geo, geoVars

LEMMA CrashKept ==
  ASSUME IInv, Crash
  PROVE  IInv'
<1>1. Geo' BY GeoOf, GeoCrashKept DEF Crash
<1>2. events' \in 0..MaxEvents BY GeoOf, OneMore DEF Crash
<1>3. Idle \in Run /\ Idle.pc = "idle" /\ Idle.version = 0 BY QuakeAssumption DEF Idle, Run
<1>4. {<<bc[b].version, bc[b].at>> : b \in {b \in Broadcast : bc[b].pc = "xadd"}} \subseteq Job
  BY DEF IInv, Owed, Job, Version
<1>5. TypeOK'
  <2>1. /\ bc' = [b \in Broadcast |-> Idle] /\ job' = None /\ loop' = "free" /\ hub' = {} /\ seen' = 0
        /\ UNCHANGED <<latest, config, outbox, stream, sent>>
    BY DEF Crash
  <2>2. lost' \subseteq Job BY <1>4, GeoOf DEF Crash, TypeOK
  <2>3. bc' \in [Broadcast -> Run] /\ \A b \in Broadcast : bc'[b].pc = "loop" <=> loop' = b
    BY <1>3, <2>1, QuakeAssumption
  <2>4. 0 \in 0..MaxVersion BY QuakeAssumption
  <2> QED BY <1>1, <1>2, <2>1, <2>2, <2>3, <2>4, GeoOf DEF TypeOK, Geo
<1>6. Known'
  <2>1. latest \in Nat BY GeoOf DEF TypeOK
  <2> QED BY <1>3, <2>1 DEF Crash, IInv, Known
<1>7. Marked' BY RowsStand DEF Crash
<1>8. Owed' BY <1>3 DEF Crash, Owed
<1> QED BY <1>1, <1>5, <1>6, <1>7, <1>8 DEF IInv, Geo

\* A broadcast goes on: the others are as they were, and the loop is its own
\* or free.
LEMMA BroadcastGoesOn ==
  ASSUME IInv, NEW b \in Broadcast, NEW x \in Run, bc' = [bc EXCEPT ![b] = x], UNCHANGED geoVars,
         loop \in {b, "free"}, loop' = IF x.pc = "loop" THEN b ELSE "free",
         outbox' \in [Job -> Status], latest' \in 0..MaxVersion, latest <= latest', seen' \in 0..MaxVersion, events' \in 0..MaxEvents,
         UNCHANGED <<config, stream, job, hub, sent, lost>>,
         x.version <= latest',
         \A j \in Job : (outbox[j] = "VENDOR_ACCEPTED" => outbox'[j] = "VENDOR_ACCEPTED") /\ (outbox[j] # "none" => outbox'[j] # "none"),
         x.pc # "idle" => /\ x.version \in Version /\ (x.pc = "xadd" => x.at \in Device)
                          /\ \A d \in x.due : Eligible(x.version, d) /\ (d \in x.todo \/ outbox'[<<x.version, d>>] # "none")
  PROVE  IInv'
<1>1. TypeOK BY DEF IInv
<1>2. /\ bc' \in [Broadcast -> Run] /\ bc'[b] = x /\ \A a \in Broadcast : a # b => bc'[a] = bc[a]
  BY <1>1 DEF TypeOK
<1>3. Geo' BY GeoOf, GeoStands
<1>4. TypeOK'
  <2>1. "free" \notin Broadcast /\ "worker" \notin Broadcast /\ "free" # "worker" BY QuakeAssumption
  <2>2. \A a \in Broadcast : bc'[a].pc = "loop" <=> loop' = a BY <1>1, <1>2, <2>1 DEF TypeOK
  <2> QED BY <1>1, <1>2, <1>3, <2>1, <2>2 DEF TypeOK, Geo
<1>5. latest \in Nat /\ latest' \in Nat /\ (\A a \in Broadcast : bc[a].version \in Nat) BY <1>1 DEF TypeOK, Run
<1>6. Known'
  <2>1. \A a \in Broadcast : bc'[a].version <= latest' BY <1>2, <1>5 DEF IInv, Known
  <2>2. \A i \in 1..Len(stream) : stream[i][1] \in Nat BY <1>1 DEF TypeOK, Job, Version
  <2>3. job # None => job[1] \in Nat BY <1>1 DEF TypeOK, Job, Version
  <2>4. loop' # "worker" BY QuakeAssumption
  <2> QED BY <2>1, <2>2, <2>3, <2>4, <1>5 DEF IInv, Known
<1>7. Marked'
  <2>1. \A j \in Job : j[1] \in Nat BY DEF Job, Version
  <2> QED BY <2>1, <1>5 DEF IInv, Marked
<1>8. Owed'
  <2>1. \A a \in Broadcast, d \in Device : bc[a].version \in Version => <<bc[a].version, d>> \in Job BY DEF Job
  <2>2. \A a \in Broadcast : bc[a].due \subseteq Device BY <1>1 DEF TypeOK, Run
  <2> QED BY <1>2, <2>1, <2>2 DEF IInv, Owed, Eligible, geoVars
<1> QED BY <1>3, <1>4, <1>6, <1>7, <1>8 DEF IInv, Geo

LEMMA BeginKept ==
  ASSUME IInv, NEW b \in Broadcast, NEW v \in Version, Begin(b, v), seen' \in 0..MaxVersion
  PROVE  IInv'
<1>1. TypeOK /\ Geo /\ events' \in 0..MaxEvents BY GeoOf, OneMore DEF Begin
<1>2. /\ loop = "free" /\ latest' = Update(v) /\ UNCHANGED <<geoVars, config, stream, job, hub, sent, lost>>
  BY DEF Begin
<1>3. /\ v \in Nat /\ latest \in 0..MaxVersion /\ MaxVersion \in Nat /\ latest' \in 0..MaxVersion
      /\ latest <= latest' /\ v <= latest'
  BY <1>1, <1>2, QuakeAssumption DEF TypeOK, Version, Update
<1>4. CASE v < latest'
  <2>1. latest' = latest /\ UNCHANGED <<bc, loop, outbox>> BY <1>2, <1>3, <1>4 DEF Begin, Update
  <2>2. Geo' BY <1>1, <1>2, GeoStands
  <2>3. TypeOK' BY <1>1, <1>2, <2>1, <2>2 DEF TypeOK, Geo
  <2> QED BY <1>2, <2>1, <2>2, <2>3, RowsStand DEF IInv, Geo, geoVars
<1>5. CASE ~ (v < latest')
  <2> DEFINE x == [pc |-> "loop", version |-> v, todo |-> DevicesIn(CellsFor(v)), at |-> None,
                   due |-> {d \in settled : location[d] <= Event[v].radius /\ Eligible(v, d)}]
  <2>1. /\ bc' = [bc EXCEPT ![b] = x] /\ loop' = b
        /\ outbox' = [j \in Job |-> IF j[1] < v /\ outbox[j] \notin TERMINAL \cup {"none"}
                                    THEN "CANCELLED_SUPERSEDED" ELSE outbox[j]]
    BY <1>5 DEF Begin
  <2>2. \A d \in x.due : Eligible(v, d) /\ d \in x.todo
    <3> SUFFICES ASSUME NEW d \in settled, location[d] <= Event[v].radius, Eligible(v, d)
                 PROVE  d \in DevicesIn(CellsFor(v))
      OBVIOUS
    <3>1. location[d] \in Cell /\ d \in cellDevices[location[d]] BY <1>1 DEF Geo, SettledFound
    <3> QED BY <3>1 DEF DevicesIn, CellsFor
  <2>3. x \in Run
    <3>1. DevicesIn(CellsFor(v)) \subseteq Device BY <1>1 DEF DevicesIn, CellsFor, Geo, GeoTypeOK
    <3>2. x.due \subseteq Device BY <1>1 DEF Geo, GeoTypeOK
    <3> QED BY <3>1, <3>2 DEF Run, Version
  <2>4. outbox' \in [Job -> Status] BY <1>1, <2>1 DEF TypeOK, Status, TERMINAL
  <2>5. \A j \in Job : (outbox[j] = "VENDOR_ACCEPTED" => outbox'[j] = "VENDOR_ACCEPTED") /\ (outbox[j] # "none" => outbox'[j] # "none")
    BY <2>1 DEF TERMINAL
  <2>6. x.pc = "loop" /\ x.version = v OBVIOUS
  <2> HIDE DEF x
  <2> QED BY <1>1, <1>2, <1>3, <2>1, <2>2, <2>3, <2>4, <2>5, <2>6, BroadcastGoesOn
<1> QED BY <1>4, <1>5

LEMMA TargetKept ==
  ASSUME IInv, NEW b \in Broadcast, NEW d \in Device, Target(b, d)
  PROVE  IInv'
<1> DEFINE v == bc[b].version
           x == IF Skips(v, d) THEN [bc[b] EXCEPT !.todo = @ \ {d}, !.pc = "loop"]
                ELSE [bc[b] EXCEPT !.todo = @ \ {d}, !.pc = "xadd", !.at = d]
<1>1. TypeOK /\ bc[b] \in Run /\ bc[b].pc # "idle" /\ loop \in {b, "free"} /\ d \in bc[b].todo
  BY GeoOf DEF TypeOK, Target, Running
<1>2. v \in Version /\ v <= latest /\ latest \in 0..MaxVersion
      /\ \A e \in bc[b].due : Eligible(v, e) /\ (e \in bc[b].todo \/ outbox[<<v, e>>] # "none")
  BY <1>1 DEF IInv, Owed, Known, TypeOK
<1>3. /\ x \in Run /\ x.version = v /\ x.due = bc[b].due /\ x.todo = bc[b].todo \ {d}
      /\ x.pc = (IF Skips(v, d) THEN "loop" ELSE "xadd") /\ (x.pc = "xadd" => x.at = d)
  BY <1>1 DEF Run
<1>4. bc' = [bc EXCEPT ![b] = x] /\ loop' = IF x.pc = "loop" THEN b ELSE "free"
  <2>1. CASE Skips(v, d) BY <1>1, <1>3, <2>1 DEF Target, TypeOK
  <2>2. CASE ~ Skips(v, d)
    <3>1. bc \in [Broadcast -> Run] BY <1>1 DEF TypeOK
    <3>2. /\ bc' = [bc EXCEPT ![b].todo = bc[b].todo \ {d}, ![b].pc = "xadd", ![b].at = d] /\ loop' = "free"
      BY <2>2, <3>1 DEF Target
    <3>3. x = [bc[b] EXCEPT !.todo = bc[b].todo \ {d}, !.pc = "xadd", !.at = d] BY <2>2
    <3>4. bc' = [bc EXCEPT ![b] = x] BY <3>1, <3>2, <3>3
    <3> HIDE DEF x
    <3> QED BY <1>3, <2>2, <3>2, <3>4
  <2> QED BY <2>1, <2>2
<1>5. outbox' = IF Skips(v, d) THEN outbox ELSE [outbox EXCEPT ![<<v, d>>] = "ENQUEUED"] BY DEF Target
<1>6. <<v, d>> \in Job /\ outbox \in [Job -> Status] BY <1>1, <1>2 DEF Job, TypeOK
<1>7. outbox' \in [Job -> Status] BY <1>5, <1>6 DEF Status
<1>8. \A j \in Job : (outbox[j] = "VENDOR_ACCEPTED" => outbox'[j] = "VENDOR_ACCEPTED") /\ (outbox[j] # "none" => outbox'[j] # "none")
  BY <1>5, <1>6 DEF Skips
<1>9. \A e \in x.due : Eligible(v, e) /\ (e \in x.todo \/ outbox'[<<v, e>>] # "none")
  <2> SUFFICES ASSUME NEW e \in bc[b].due PROVE e \in bc[b].todo \ {d} \/ outbox'[<<v, e>>] # "none"
    BY <1>2, <1>3
  <2>1. e \in Device BY <1>1 DEF Run
  <2>2. <<v, e>> \in Job BY <2>1, <1>2 DEF Job
  <2>3. CASE e # d BY <2>2, <2>3, <1>2, <1>8
  <2>4. CASE e = d BY <2>4, <1>2, <1>5, <1>6 DEF Skips
  <2> QED BY <2>3, <2>4
<1>10. /\ UNCHANGED <<geoVars, latest, config, stream, job, hub, seen, sent, lost, events>>
       /\ latest' \in 0..MaxVersion /\ seen' \in 0..MaxVersion /\ events' \in 0..MaxEvents /\ latest <= latest'
  <2>1. UNCHANGED <<geoVars, latest, config, stream, job, hub, seen, sent, lost, events>> BY DEF Target
  <2> QED BY <1>1, <2>1 DEF TypeOK
<1> HIDE DEF x, v
<1> QED BY <1>1, <1>2, <1>3, <1>4, <1>7, <1>8, <1>9, <1>10, BroadcastGoesOn

LEMMA DoneKept ==
  ASSUME IInv, NEW b \in Broadcast, Done(b)
  PROVE  IInv'
<1>1. TypeOK /\ loop \in {b, "free"} BY GeoOf DEF Done, Running
<1>2. Idle \in Run /\ Idle.pc = "idle" /\ Idle.version = 0 BY QuakeAssumption DEF Idle, Run
<1>3. /\ bc' = [bc EXCEPT ![b] = Idle] /\ loop' = "free"
      /\ UNCHANGED <<geoVars, latest, config, outbox, stream, job, hub, seen, sent, lost, events>>
  BY DEF Done
<1>4. latest \in Nat /\ latest' \in 0..MaxVersion /\ latest <= latest' /\ 0 <= latest' /\ seen' \in 0..MaxVersion
      /\ events' \in 0..MaxEvents /\ outbox' \in [Job -> Status]
  BY <1>1, <1>3 DEF TypeOK
<1> QED BY <1>1, <1>2, <1>3, <1>4, BroadcastGoesOn

LEMMA EnqueueKept ==
  ASSUME IInv, NEW b \in Broadcast, Enqueue(b) \/ EnqueueFails(b)
  PROVE  IInv'
<1> DEFINE j == <<bc[b].version, bc[b].at>>
           x == IF Enqueue(b) THEN [bc[b] EXCEPT !.pc = "back", !.at = None] ELSE Idle
<1>1. TypeOK /\ Geo /\ bc[b] \in Run /\ bc[b].pc = "xadd" BY GeoOf DEF TypeOK, Enqueue, EnqueueFails
<1>2. bc[b].version \in Version /\ bc[b].at \in Device /\ bc[b].version <= latest /\ latest \in Nat
      /\ \A d \in bc[b].due : Eligible(bc[b].version, d) /\ (d \in bc[b].todo \/ outbox[<<bc[b].version, d>>] # "none")
  BY <1>1 DEF IInv, Owed, Known, TypeOK
<1>3. j \in Job BY <1>2 DEF Job
<1>4. x \in Run /\ x.pc \in {"back", "idle"} /\ x.version <= latest /\ (x.pc = "back" => x.version = bc[b].version /\ x.due = bc[b].due /\ x.todo = bc[b].todo)
  <2>1. CASE Enqueue(b)
    <3>1. x = [bc[b] EXCEPT !.pc = "back", !.at = None] BY <2>1
    <3> HIDE DEF x
    <3> QED BY <1>1, <1>2, <3>1 DEF Run
  <2>2. CASE ~ Enqueue(b)
    <3>1. x = Idle BY <2>2
    <3>2. Idle \in Run /\ Idle.pc = "idle" /\ Idle.version = 0 BY QuakeAssumption DEF Idle, Run
    <3> HIDE DEF x
    <3> QED BY <1>2, <3>1, <3>2
  <2> QED BY <2>1, <2>2
<1>5. /\ bc' = [bc EXCEPT ![b] = x]
      /\ stream' = IF Enqueue(b) THEN Append(stream, j) ELSE stream
      /\ lost' = IF Enqueue(b) THEN lost ELSE lost \cup {j}
      /\ UNCHANGED <<geoVars, latest, config, outbox, job, loop, hub, seen, sent>>
  <2>1. CASE Enqueue(b) BY <2>1, <1>1 DEF Enqueue, TypeOK
  <2>2. CASE ~ Enqueue(b) BY <2>2 DEF EnqueueFails
  <2> QED BY <2>1, <2>2
<1>6. events' \in 0..MaxEvents BY <1>1, OneMore DEF Enqueue, EnqueueFails, TypeOK
<1>7. bc' \in [Broadcast -> Run] /\ bc'[b] = x /\ \A a \in Broadcast : a # b => bc'[a] = bc[a]
  BY <1>1, <1>4, <1>5 DEF TypeOK
<1>8. stream' \in Seq(Job) /\ \A i \in 1..Len(stream') : stream'[i][1] <= latest
  <2>1. stream \in Seq(Job) /\ j[1] = bc[b].version BY <1>1 DEF TypeOK
  <2>2. \A i \in 1..Len(stream) : stream[i][1] <= latest BY DEF IInv, Known
  <2> HIDE DEF j
  <2> QED BY <1>2, <1>3, <1>5, <2>1, <2>2
<1>9. Geo' BY <1>1, <1>5, GeoStands
<1> HIDE DEF j, x
<1>10. TypeOK'
  <2>1. \A a \in Broadcast : bc'[a].pc = "loop" <=> bc[a].pc = "loop" BY <1>1, <1>4, <1>7
  <2> QED BY <1>1, <1>3, <1>5, <1>6, <1>7, <1>8, <1>9, <2>1 DEF TypeOK, Geo
<1>11. Known' BY <1>4, <1>5, <1>7, <1>8 DEF IInv, Known
<1>12. Marked' BY <1>5, RowsStand
<1>13. Owed' BY <1>2, <1>4, <1>5, <1>7 DEF IInv, Owed, Eligible, geoVars
<1> QED BY <1>9, <1>10, <1>11, <1>12, <1>13 DEF IInv, Geo

-----------------------------------------------------------------------------
(* The worker.                                                             *)

LEMMA DequeueKept ==
  ASSUME IInv, Dequeue
  PROVE  IInv'
<1>1. TypeOK /\ Geo /\ Geo' /\ stream \in Seq(Job) /\ stream # <<>> /\ job = None
  BY GeoOf, GeoStands DEF Dequeue, TypeOK
<1>2. job' = Head(stream) /\ stream' = Tail(stream) /\ UNCHANGED <<geoVars, latest, config, outbox, bc, loop, hub, seen, sent, lost, events>>
  BY DEF Dequeue
<1>3. job' \in Job /\ stream' \in Seq(Job) /\ job' = stream[1] /\ 1 \in 1..Len(stream)
      /\ \A i \in 1..Len(stream') : stream'[i] = stream[i + 1] /\ i + 1 \in 1..Len(stream)
  BY <1>1, <1>2
<1>4. loop # "worker" BY <1>1 DEF TypeOK
<1>5. TypeOK' BY <1>1, <1>2, <1>3, <1>4 DEF TypeOK, Geo
<1>6. Known' BY <1>2, <1>3, <1>4 DEF IInv, Known
<1>7. Marked' /\ Owed' BY <1>2, RowsStand DEF geoVars
<1> QED BY <1>1, <1>5, <1>6, <1>7 DEF IInv, Geo

\* The worker handles its job: the row of the job is the only one that moves.
LEMMA JobKept ==
  ASSUME IInv, DropJob \/ Attempt \/ Publish
  PROVE  IInv'
<1>1. TypeOK /\ Geo /\ Geo' /\ latest \in 0..MaxVersion
  BY GeoOf, GeoStands DEF DropJob, Attempt, Publish, TypeOK
<1>2. job \in Job /\ job[1] \in Nat /\ job[1] <= latest
  <2>1. job # None /\ job \in Job \cup {None} BY <1>1 DEF DropJob, Attempt, Publish, TypeOK
  <2> QED BY <2>1 DEF IInv, Known, Job, Version
<1>3. UNCHANGED <<geoVars, latest, config, stream, bc, hub, seen, lost, events>>
  BY DEF DropJob, Attempt, Publish
<1>4. PICK s \in Status \ {"none"} : outbox' = [outbox EXCEPT ![job] = s] \/ (outbox' = outbox /\ s = outbox[job])
  <2>1. CASE DropJob /\ outbox[job] \in TERMINAL BY <2>1 DEF DropJob, TERMINAL, Status
  <2>2. CASE DropJob /\ outbox[job] \notin TERMINAL BY <2>2 DEF DropJob, Status
  <2>3. CASE Attempt BY <2>3 DEF Attempt, TERMINAL, Status
  <2>4. CASE Publish
    <3>1. CASE job[2] \in hub
      <4>1. outbox' = [outbox EXCEPT ![job] = "VENDOR_ACCEPTED"] BY <2>4, <3>1 DEF Publish
      <4> QED BY <4>1 DEF TERMINAL, Status
    <3>2. CASE job[2] \notin hub
      <4>1. outbox' = [outbox EXCEPT ![job] = "FAILED"] BY <2>4, <3>2 DEF Publish
      <4> QED BY <4>1 DEF TERMINAL, Status
    <3> QED BY <3>1, <3>2
  <2> QED BY <2>1, <2>2, <2>3, <2>4
<1>5. outbox' \in [Job -> Status] /\ outbox'[job] = s /\ \A j \in Job : j # job => outbox'[j] = outbox[j]
  BY <1>1, <1>2, <1>4 DEF TypeOK
<1>6. sent' \in [Job -> Nat] /\ \A j \in Job : j # job => sent'[j] = sent[j]
  BY <1>1 DEF DropJob, Attempt, Publish, TypeOK
<1>7. sent'[job] # 0 => sent'[job] = 1 /\ s = "VENDOR_ACCEPTED"
  <2>1. sent[job] # 0 => sent[job] = 1 /\ outbox[job] = "VENDOR_ACCEPTED" BY <1>2 DEF IInv, Marked
  <2>2. CASE DropJob \/ Attempt
    <3>1. sent' = sent BY <2>2 DEF DropJob, Attempt
    <3> QED BY <2>1, <2>2, <3>1, <1>5 DEF DropJob, Attempt, TERMINAL
  <2>3. CASE Publish
    <3>1. outbox[job] = "ATTEMPTED" /\ sent[job] = 0 BY <1>1, <2>1, <2>3 DEF Publish, TypeOK
    <3>2. outbox'[job] = (IF job[2] \in hub THEN "VENDOR_ACCEPTED" ELSE "FAILED") BY <1>1, <1>2, <2>3 DEF Publish, TypeOK
    <3>3. sent'[job] = IF job[2] \in hub THEN sent[job] + 1 ELSE sent[job] BY <1>1, <1>2, <2>3 DEF Publish, TypeOK
    <3> QED BY <3>1, <3>2, <3>3, <1>5
  <2> QED BY <2>2, <2>3
<1>8. /\ loop' \in {"free", "worker"} /\ loop \in {"free", "worker"} /\ job' \in {job, None}
      /\ loop' = "worker" => job' = job /\ outbox'[job] = "ATTEMPTED" /\ job[1] = latest
  <2>1. CASE Attempt BY <2>1, <1>1, <1>2 DEF Attempt, TypeOK, Superseded
  <2>2. CASE DropJob \/ Publish BY <2>2 DEF DropJob, Publish
  <2> QED BY <2>1, <2>2
<1>9. TypeOK'
  <2>1. \A b \in Broadcast : bc'[b].pc = "loop" <=> loop' = b BY <1>1, <1>3, <1>8, QuakeAssumption DEF TypeOK
  <2>2. loop' = "worker" => job' # None
    <3>1. Attempt => job # None BY DEF Attempt
    <3> QED BY <3>1, <1>8 DEF DropJob, Publish
  <2> QED BY <1>1, <1>2, <1>3, <1>5, <1>6, <1>8, <2>1, <2>2 DEF TypeOK, Geo
<1>10. Known' BY <1>2, <1>3, <1>8 DEF IInv, Known
<1>11. Marked' BY <1>2, <1>3, <1>5, <1>6, <1>7 DEF IInv, Marked
<1>12. Owed'
  <2>1. \A j \in Job : outbox[j] # "none" => outbox'[j] # "none" BY <1>5
  <2>2. \A b \in Broadcast, d \in Device : bc[b].version \in Version => <<bc[b].version, d>> \in Job BY DEF Job
  <2>3. \A b \in Broadcast : bc[b].due \subseteq Device BY <1>1 DEF TypeOK, Run
  <2> QED BY <1>3, <2>1, <2>2, <2>3 DEF IInv, Owed, Eligible, geoVars
<1> QED BY <1>1, <1>9, <1>10, <1>11, <1>12 DEF IInv, Geo

-----------------------------------------------------------------------------
LEMMA Initially == Init => IInv
<1> SUFFICES ASSUME Init PROVE IInv OBVIOUS
<1>1. Geo
  <2>1. Unsent \in ReportState /\ Unsent.pc = "new" /\ Unsent.device = None BY DEF Unsent, ReportState
  <2>2. GeoTypeOK BY <2>1, GeoAssumption DEF Init, GeoInit, GeoTypeOK
  <2>3. ReportsFit BY <2>1 DEF Init, GeoInit, ReportsFit, ReportFits, Busy
  <2>4. SettledFound BY <2>1, GeoAssumption DEF Init, GeoInit, SettledFound, Reporting
  <2> QED BY <2>2, <2>3, <2>4 DEF Geo
<1>2. Idle \in Run /\ Idle.pc = "idle" /\ Idle.version = 0 BY QuakeAssumption DEF Idle, Run
<1>3. TypeOK
  <2>1. <<>> \in Seq(Job) /\ 0 \in 0..MaxVersion /\ 0 \in 0..MaxEvents /\ "free" \notin Broadcast
    BY QuakeAssumption
  <2>2. outbox \in [Job -> Status] BY DEF Init, Status
  <2> QED BY <1>1, <1>2, <2>1, <2>2 DEF Init, TypeOK, Geo
<1>4. Known /\ Marked /\ Owed BY <1>2 DEF Init, Known, Marked, Owed
<1> QED BY <1>1, <1>3, <1>4 DEF IInv, Geo

LEMMA StepKept == IInv /\ [Next]_vars => IInv'
<1> SUFFICES ASSUME IInv, [Next]_vars PROVE IInv' OBVIOUS
<1>1. CASE UNCHANGED vars
  <2>1. Geo' BY <1>1, GeoOf, GeoStands DEF vars
  <2>2. TypeOK' BY <1>1, <2>1, GeoOf DEF vars, TypeOK, Geo
  <2> QED BY <1>1, <2>1, <2>2, RowsStand DEF vars, geoVars, IInv, Geo
<1>2. CASE ReportLocation \/ ExpireLocation \/ Crash BY <1>2, ReportLocationKept, ExpireLocationKept, CrashKept
<1>3. CASE WorkerStep BY <1>3, DequeueKept, JobKept DEF WorkerStep
<1>4. CASE \E d \in Device : Connect(d) \/ Disconnect(d) \/ \E c \in Config : SetConfig(d, c)
  BY <1>4, HubKept, SetConfigKept
<1>5. CASE \E v \in Version : Poll(v) \/ \E b \in Broadcast : Trigger(b, v)
  <2>1. TypeOK BY GeoOf
  <2>2. Version \subseteq 0..MaxVersion /\ Poller \in Broadcast /\ seen \in 0..MaxVersion
    BY <2>1, QuakeAssumption DEF Version, TypeOK
  <2>3. ASSUME NEW v \in Version, Poll(v) PROVE IInv' BY <2>2, <2>3, BeginKept DEF Poll
  <2>4. ASSUME NEW v \in Version, NEW b \in Broadcast, Trigger(b, v) PROVE IInv' BY <2>2, <2>4, BeginKept DEF Trigger
  <2> QED BY <1>5, <2>3, <2>4
<1>6. CASE \E b \in Broadcast : BroadcastStep(b)
  BY <1>6, TargetKept, DoneKept, EnqueueKept DEF BroadcastStep
<1> QED BY <1>1, <1>2, <1>3, <1>4, <1>5, <1>6 DEF Next

\* Every step of devices, broadcasts, poller and worker, and every crash,
\* keeps IInv.
THEOREM Invariant == Spec => []IInv
BY Initially, StepKept, PTL DEF Spec

\* Every variable keeps its type; who runs on the event loop is who says so.
THEOREM TypeCorrect == Spec => []TypeOK
BY Invariant, PTL DEF IInv

\* RedisGeoIndex.set_device_cell: however reports of a device overlap or are
\* cut short, one that runs alone leaves the device where a broadcast finds it.
THEOREM IndexCovers == Spec => []IndexCoversLocation
<1>1. IInv => IndexCoversLocation BY DEF IInv, SettledFound, IndexCoversLocation
<1> QED BY Invariant, <1>1, PTL

\* broadcast and _handle: the outbox lets no version reach a device twice.
THEOREM OncePerVersion == Spec => []AtMostOnce
<1>1. IInv => AtMostOnce
  <2>1. ASSUME IInv, NEW j \in Job PROVE sent[j] <= 1
    <3>1. sent[j] = 0 \/ sent[j] = 1 BY <2>1 DEF IInv, Marked
    <3> QED BY <3>1
  <2> QED BY <2>1 DEF AtMostOnce
<1> QED BY Invariant, <1>1, PTL

\* _handle: what is delivered is the newest version known, and no device is
\* told an older one afterwards.
THEOREM NewestDelivered == Spec => NewestOnly
<1>1. IInv /\ [Next]_vars =>
        [\A j \in Job : sent'[j] # sent[j] => j[1] = latest /\ \A w \in Version : w > j[1] => sent[<<w, j[2]>>] = 0]_vars
  <2> SUFFICES ASSUME IInv, Next, NEW j \in Job, sent'[j] # sent[j]
               PROVE  j[1] = latest /\ \A w \in Version : w > j[1] => sent[<<w, j[2]>>] = 0
    OBVIOUS
  <2>1. Publish
    BY DEF Next, ReportLocation, ExpireLocation, Crash, WorkerStep, Dequeue, DropJob, Attempt, Connect, Disconnect,
           SetConfig, Poll, Trigger, Begin, BroadcastStep, Target, Done, Enqueue, EnqueueFails
  <2>2. j = job BY <2>1 DEF Publish, IInv, TypeOK
  <2>3. j[1] = latest /\ latest \in Nat BY <2>1, <2>2 DEF Publish, IInv, Known, TypeOK
  <2>4. ASSUME NEW w \in Version, w > j[1] PROVE sent[<<w, j[2]>>] = 0
    <3>1. <<w, j[2]>> \in Job /\ <<w, j[2]>>[1] = w /\ w \in Nat BY DEF Job, Version
    <3> QED BY <3>1, <2>3, <2>4 DEF IInv, Marked
  <2> QED BY <2>3, <2>4
<1> QED BY Invariant, <1>1, PTL DEF Spec, NewestOnly

\* broadcast: the cells it reads hold every settled device of the area, and it
\* ends with a row for each that stayed as it was and wanted the alert.
THEOREM NobodyForgotten == Spec => TargetsCovered
<1>1. IInv /\ [Next]_vars =>
        [\A b \in Broadcast : Done(b) => \A d \in bc[b].due : outbox[<<bc[b].version, d>>] # "none"]_vars
  BY DEF IInv, Owed, Done, Running
<1> QED BY Invariant, <1>1, PTL DEF Spec, TargetsCovered

=============================================================================
