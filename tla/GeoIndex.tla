------------------------------- MODULE GeoIndex -------------------------------
(***************************************************************************)
(* Where the devices are (app/location_store.py) and the index from cells  *)
(* to devices that a broadcast reads (app/geo_index.py, the Redis back     *)
(* end).  A report runs in a thread of the pool; each call of a store is   *)
(* an action.  Cells are their distances from the epicentre.               *)
(***************************************************************************)
EXTENDS Integers, FiniteSets

CONSTANTS Device, Cell, None,
          Home,       \* device -> the cell of its first report
          MaxReports  \* bound on the reports sent

\* Reports are numbered in the order of arrival.
Report == 1..MaxReports

ASSUME GeoAssumption == Cell \subseteq Nat /\ Home \in [Device -> Cell] /\ None \notin Device \cup Cell /\ MaxReports \in Nat

VARIABLES
  location,     \* device -> the cell of its row in user_location, or None
  cellDevices,  \* cell -> devices of its sorted set
  deviceCell,   \* device -> the cell of the reverse index, or None
  report,       \* report -> where it is
  settled       \* devices whose last report ended without another one beside it (history)

geoVars == <<location, cellDevices, deviceCell, report, settled>>

\* old: the reverse entry it read; alone: no other report of the device ran
\* beside it (history).
ReportState == [pc : {"new", "get", "zrem", "zadd", "set", "done"}, device : Device \cup {None},
                cell : Cell \cup {None}, old : Cell \cup {None}, alone : BOOLEAN]
Unsent == [pc |-> "new", device |-> None, cell |-> None, old |-> None, alone |-> TRUE]

Ended == [Unsent EXCEPT !.pc = "done"]

GeoTypeOK ==
  /\ location \in [Device -> Cell \cup {None}] /\ deviceCell \in [Device -> Cell \cup {None}]
  /\ cellDevices \in [Cell -> SUBSET Device]
  /\ report \in [Report -> ReportState]
  /\ settled \subseteq Device

\* Each device has reported once.
GeoInit ==
  /\ location = Home /\ deviceCell = Home
  /\ cellDevices = [c \in Cell |-> {d \in Device : Home[d] = c}]
  /\ report = [r \in Report |-> Unsent]
  /\ settled = Device

Reporting(d) == \E r \in Report : report[r].device = d

\* The row is written first.
Upsert(r, d, c) ==
  /\ report[r].pc = "new" /\ \A q \in Report : report[q].pc = "new" => r <= q
  /\ location' = [location EXCEPT ![d] = c]
  /\ report' = [q \in Report |->
       IF q = r THEN [pc |-> "get", device |-> d, cell |-> c, old |-> None, alone |-> ~ Reporting(d)]
       ELSE [report[q] EXCEPT !.alone = @ /\ report[q].device # d]]
  /\ settled' = settled \ {d}
  /\ UNCHANGED <<cellDevices, deviceCell>>

Moves(r, from, to) == report[r].pc = from /\ report' = [report EXCEPT ![r].pc = to]

GetDeviceCell(r) ==
  /\ report[r].pc = "get"
  /\ LET old == deviceCell[report[r].device] IN
       report' = [report EXCEPT ![r].old = old,
                                ![r].pc = IF old \in {None, report[r].cell} THEN "zadd" ELSE "zrem"]
  /\ UNCHANGED <<location, cellDevices, deviceCell, settled>>

LeaveOldCell(r) ==
  /\ Moves(r, "zrem", "zadd")
  /\ cellDevices' = [cellDevices EXCEPT ![report[r].old] = @ \ {report[r].device}]
  /\ UNCHANGED <<location, deviceCell, settled>>

\* Mutant: it joins the cell it left.
EnterCell_Old(r) ==
  /\ Moves(r, "zadd", "set")
  /\ cellDevices' = [cellDevices EXCEPT ![IF report[r].old = None THEN report[r].cell ELSE report[r].old]
                                          = @ \cup {report[r].device}]
  /\ UNCHANGED <<location, deviceCell, settled>>

EnterCell(r) ==
  /\ Moves(r, "zadd", "set")
  /\ cellDevices' = [cellDevices EXCEPT ![report[r].cell] = @ \cup {report[r].device}]
  /\ UNCHANGED <<location, deviceCell, settled>>

SetDevice(r) ==
  /\ report[r].pc = "set"
  /\ deviceCell' = [deviceCell EXCEPT ![report[r].device] = report[r].cell]
  /\ settled' = IF report[r].alone THEN settled \cup {report[r].device} ELSE settled
  /\ report' = [report EXCEPT ![r] = Ended]
  /\ UNCHANGED <<location, cellDevices>>

\* The deadline of d in c is over.  The reverse entry is written after the
\* deadline was taken, with the same TTL: it is gone next.
Expire(d, c) ==
  /\ d \in cellDevices[c] /\ ~ Reporting(d)
  /\ cellDevices' = [cellDevices EXCEPT ![c] = @ \ {d}]
  /\ deviceCell' = [deviceCell EXCEPT ![d] = IF @ = c THEN None ELSE @]
  /\ settled' = IF location[d] = c THEN settled \ {d} ELSE settled
  /\ UNCHANGED <<location, report>>

\* A dead process leaves its reports half done.
GeoCrash ==
  /\ report' = [r \in Report |-> IF report[r].pc = "new" THEN Unsent ELSE Ended]
  /\ UNCHANGED <<location, cellDevices, deviceCell, settled>>

DevicesIn(cells) == UNION {cellDevices[c] : c \in cells}

SetDeviceCell(r) == GetDeviceCell(r) \/ LeaveOldCell(r) \/ EnterCell(r) \/ SetDevice(r)

\* A device whose last report ran alone, however many before it overlapped or
\* were cut short, is in the index under the cell of its row: a broadcast of
\* the area finds it.
IndexCoversLocation == \A d \in settled : d \in cellDevices[location[d]]

=============================================================================
