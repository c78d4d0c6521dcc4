---------------------------- MODULE GatewayRegistry ----------------------------
(***************************************************************************)
(* keyapi: the views of registry/views.py that keep two places in step,    *)
(* the database's meshes and devices, and the compacted config topics the  *)
(* decoders follow.  There is no transaction around a request and several  *)
(* gunicorn workers serve requests at once, so a request is a sequence of  *)
(* steps: what it read at its start, a statement, one publish after the    *)
(* other, and what it undoes when a publish fails.                         *)
(*                                                                         *)
(* keys and rejections are what a decoder holds that replays the compacted *)
(* topics: the last event of every key.  Devices are both gateways and     *)
(* nodes (device_id), so Gateway and Node of module Decode are one set.    *)
(***************************************************************************)
EXTENDS Decode

CONSTANTS
    Worker,       \* the gunicorn workers
    Row,          \* primary keys of the devices table
    NoRow,
    MaxRequests,  \* bound: requests served
    MaxFaults     \* bound: failed publishes and connections, workers killed

ASSUME DevicesAssumption == Node = Gateway
ASSUME BoundsAssumption == MaxRequests \in Nat /\ MaxFaults \in Nat

Device == Gateway
DeviceRow == [dev : Device, mesh : Mesh, gateway : BOOLEAN, allowed : BOOLEAN]

ASSUME RowsAssumption == NoRow \notin Row \cup DeviceRow

VARIABLES
    meshes,      \* the meshes that exist
    psk,         \* psk_b64 of each mesh
    rows,        \* the devices table
    keys,        \* what mesh.keys.v1 says of each gateway
    rejections,  \* what mesh.node_rejections.v1 rejects
    late,        \* events whose get() failed and that may still be delivered
    req,         \* what each worker is doing
    granted,     \* history: the (gateway, mesh) pairs ever registered and allowed
    suspect,     \* history: event keys a failed, killed or racing request left
                 \* behind, or one about another registration of the node, until
                 \* a request undisturbed publishes to them again
    served,      \* requests so far
    faults

db == <<meshes, psk, rows>>
kafka == <<keys, rejections, late>>
bounds == <<served, faults>>
vars == <<db, kafka, req, granted, suspect, bounds>>

-----------------------------------------------------------------------------
(* Events, tagged with their topic. *)

Upsert(row, k) ==
    <<"keys", [op |-> "upsert", key |-> row.dev, entry |-> [mesh |-> row.mesh, psk |-> k]]>>
Delete(row) == <<"keys", [op |-> "delete", key |-> row.dev]>>
Reject(row) == <<"rejections", [op |-> "upsert", key |-> <<row.mesh, row.dev>>]>>
Unreject(row) == <<"rejections", [op |-> "delete", key |-> <<row.mesh, row.dev>>]>>

\* The compaction key of an event, with its topic.
KeyOf(e) == <<e[1], e[2].key>>
DeviceOf(e) == IF e[1] = "keys" THEN e[2].key ELSE e[2].key[2]
KeysAbout(D) ==
    {<<"keys", d>> : d \in D} \cup {<<"rejections", k>> : k \in Mesh \X D}

Deliver(e) ==
    IF e[1] = "keys"
    THEN keys' = GatewayAfter(keys, e[2]) /\ UNCHANGED rejections
    ELSE rejections' = RejectedAfter(rejections, e[2]) /\ UNCHANGED keys

-----------------------------------------------------------------------------
(* The devices table. *)

Occupied == {i \in Row : rows[i] # NoRow}
RowsOf(m) == {i \in Occupied : rows[i].mesh = m}
AllowedGateways(m) == {i \in RowsOf(m) : rows[i].gateway /\ rows[i].allowed}
RejectedNodes(m) == {i \in RowsOf(m) : ~rows[i].gateway /\ ~rows[i].allowed}

\* uq_devices_device_id_allowed would refuse row under the primary key id.
Taken(row, id) ==
    row.allowed /\ \E i \in Occupied \ {id} : rows[i].dev = row.dev /\ rows[i].allowed

\* The database refuses row: the index, or the foreign key to the mesh.
Refused(row, id) == Taken(row, id) \/ row.mesh \notin meshes

Granted(row) == IF row.gateway /\ row.allowed THEN {<<row.dev, row.mesh>>} ELSE {}

-----------------------------------------------------------------------------
(* Requests.  todo holds the events still to publish; then is where the      *)
(* request goes after the last, otherwise where it goes when one fails;      *)
(* "answer" ends it, and "raise" the seeding command.  was is what the row   *)
(* (of a mesh: the psk) was when the request read it, psk the key it read or *)
(* is about to write.  A wide request is about a mesh and all its devices.   *)

Idle == [pc |-> "idle"]
Active(w) == req[w].pc # "idle"
Continue(w, pc) ==
    req' = [req EXCEPT ![w] = IF pc \in {"answer", "raise"} THEN Idle ELSE [@ EXCEPT !.pc = pc]]
Answer(w) == req' = [req EXCEPT ![w] = Idle]

Narrow(pc, id, row, k, was, todo, then, otherwise) ==
    [pc |-> pc, wide |-> FALSE, id |-> id, row |-> row, psk |-> k, was |-> was,
     todo |-> todo, then |-> then, otherwise |-> otherwise, clean |-> TRUE]
Wide(pc, m, k, todo, then, otherwise) ==
    [pc |-> pc, wide |-> TRUE, id |-> NoRow, row |-> [mesh |-> m], psk |-> k, was |-> psk[m],
     todo |-> todo, then |-> then, otherwise |-> otherwise, clean |-> TRUE]

\* The devices a request is about.
Touches(p) ==
    IF p.wide
    THEN {rows[i].dev : i \in RowsOf(p.row.mesh)} \cup {DeviceOf(e) : e \in p.todo}
    ELSE {p.row.dev}

\* The devices two requests meet on: through their rows, or because one changes
\* a device of the mesh the other changes.
Meet(p, q) ==
    (Touches(p) \cap Touches(q))
        \cup IF p.row.mesh = q.row.mesh /\ p.wide # q.wide
             THEN UNION {Touches(x) : x \in {y \in {p, q} : ~y.wide}} ELSE {}

\* Two requests disturb each other when they meet, or change the same mesh.
Disturb(p, q) == Meet(p, q) # {} \/ (p.wide /\ q.wide /\ p.row.mesh = q.row.mesh)

\* seed_from_env runs before gunicorn: no request is served meanwhile.
Seeding == \E w \in Worker : Active(w) /\ req[w].otherwise = "raise"

\* A worker takes request r: history notes the requests it races with.
Begin(w, r) ==
    LET rivals == {v \in Worker : Active(v) /\ Disturb(r, req[v])} IN
    /\ ~Active(w) /\ ~Seeding
    /\ served < MaxRequests
    /\ served' = served + 1
    /\ req' = [v \in Worker |->
                 IF v = w THEN [r EXCEPT !.clean = rivals = {}]
                 ELSE IF v \in rivals THEN [req[v] EXCEPT !.clean = FALSE]
                 ELSE req[v]]
    /\ suspect' = suspect \cup KeysAbout(UNION {Meet(r, req[v]) : v \in rivals})
    /\ UNCHANGED <<db, kafka, granted, faults>>

-----------------------------------------------------------------------------
(* What must hold. *)

TypeOK ==
    /\ meshes \subseteq Mesh
    /\ psk \in [Mesh -> Psk]
    /\ rows \in [Row -> DeviceRow \cup {NoRow}]
    /\ keys \in [Device -> Entry \cup {Unknown}]
    /\ rejections \subseteq Mesh \X Device
    /\ \A e \in late : e[1] \in {"keys", "rejections"}
    /\ \A w \in Worker : Active(w) =>
          /\ req[w].id \in Row \cup {NoRow}
          /\ req[w].pc \in {"publish", "insert", "save", "remove", "meshSave", "meshList",
                            "meshRemove", "rollBackInsert", "rollBackSave", "rollBackMesh"}
          /\ req[w].pc = "publish" => req[w].todo # {}
          /\ req[w].pc \in {"save", "remove", "rollBackInsert", "rollBackSave"} =>
                req[w].id \in Row
    /\ granted \subseteq Device \X Mesh
    /\ suspect \subseteq KeysAbout(Device)
    /\ served \in 0..MaxRequests
    /\ faults \in 0..MaxFaults

\* What the decoder is to know of device d: its allowed registration, if that is
\* a gateway's, with the mesh's current key.
Registered(d) ==
    LET on == {i \in Occupied : rows[i].dev = d /\ rows[i].gateway /\ rows[i].allowed} IN
    IF on = {} THEN Unknown
    ELSE LET m == rows[CHOOSE i \in on : TRUE].mesh IN [mesh |-> m, psk |-> psk[m]]

Quiescent == \A w \in Worker : ~Active(w)

-----------------------------------------------------------------------------
(* Actions. *)

\* A database in order, no request under way: what requests served one after
\* the other, with every publish acknowledged, leave behind.
Init ==
    /\ meshes = Mesh
    /\ psk \in [Mesh -> Psk]
    /\ rows \in [Row -> DeviceRow \cup {NoRow}]
    /\ \A i \in Occupied : ~Taken(rows[i], i)
    /\ keys = [d \in Device |-> Registered(d)]
    /\ rejections = {<<rows[i].mesh, rows[i].dev>> : i \in UNION {RejectedNodes(m) : m \in Mesh}}
    /\ late = {}
    /\ req = [w \in Worker |-> Idle]
    /\ granted = UNION {Granted(rows[i]) : i \in Occupied}
    /\ suspect = {}
    /\ served = 0
    /\ faults = 0

\* The fault: a registration that cannot be published is kept.
PostDeviceKeeping(w) ==
    \E d \in Device, m \in meshes, g \in BOOLEAN :
        LET row == [dev |-> d, mesh |-> m, gateway |-> g, allowed |-> TRUE] IN
        Begin(w, Narrow("insert", NoRow, row, psk[m], NoRow,
                        IF g THEN {Upsert(row, psk[m])} ELSE {}, "answer", "answer"))

\* The fault: the decoder is told of the gateway before the row is inserted.
PostDevicePublishing(w) ==
    \E d \in Device, m \in meshes, g \in BOOLEAN :
        LET row == [dev |-> d, mesh |-> m, gateway |-> g, allowed |-> TRUE] IN
        Begin(w, Narrow(IF g THEN "publish" ELSE "insert", NoRow, row, psk[m], NoRow,
                        IF g THEN {Upsert(row, psk[m])} ELSE {}, "insert", "answer"))

\* POST /devices reads the mesh.
PostDevice(w) ==
    \E d \in Device, m \in meshes, g \in BOOLEAN :
        LET row == [dev |-> d, mesh |-> m, gateway |-> g, allowed |-> TRUE] IN
        Begin(w, Narrow("insert", NoRow, row, psk[m], NoRow,
                        IF g THEN {Upsert(row, psk[m])} ELSE {}, "answer", "rollBackInsert"))

\* seed_from_env, when keyapi starts: a gateway that is not there yet on its mesh
\* is registered.  The row stays when the publish fails, and the next start finds it.
Seed(w) ==
    \E d \in Device, m \in meshes :
        LET row == [dev |-> d, mesh |-> m, gateway |-> TRUE, allowed |-> TRUE] IN
        /\ \A v \in Worker : ~Active(v)
        /\ \A i \in RowsOf(m) : ~(rows[i].dev = d /\ rows[i].gateway)
        /\ Begin(w, Narrow("insert", NoRow, row, psk[m], NoRow, {Upsert(row, psk[m])},
                           "answer", "raise"))

\* Device.objects.create; primary keys are UUIDs, never used twice.
Insert(w) ==
    /\ req[w].pc = "insert"
    /\ IF Refused(req[w].row, NoRow)
       THEN Answer(w) /\ UNCHANGED <<db, granted>>
       ELSE \E i \in Row \ (Occupied \cup {req[v].id : v \in {v \in Worker : Active(v)}}) :
              /\ rows' = [rows EXCEPT ![i] = req[w].row]
              /\ req' = [req EXCEPT ![w] =
                            IF @.todo = {} THEN Idle ELSE [@ EXCEPT !.pc = "publish", !.id = i]]
              /\ granted' = granted \cup Granted(req[w].row)
              /\ UNCHANGED <<meshes, psk>>
    /\ UNCHANGED <<kafka, suspect, bounds>>

\* What PUT /devices/{id} publishes for the change of a row's is_allowed.
Change(row, k) ==
    IF row.gateway THEN IF row.allowed THEN Upsert(row, k) ELSE Delete(row)
    ELSE IF row.allowed THEN Unreject(row) ELSE Reject(row)

\* PUT /devices/{id} reads the row and its mesh.
PutDevice(w) ==
    \E i \in Occupied, allowed \in BOOLEAN :
        LET row == [rows[i] EXCEPT !.allowed = allowed] IN
        Begin(w, Narrow("save", i, row, psk[row.mesh], rows[i],
                        IF allowed = rows[i].allowed THEN {} ELSE {Change(row, psk[row.mesh])},
                        "answer", "rollBackSave"))

\* The fault: previous_allowed is read from the row that was just saved.
SaveUncompared(w) ==
    /\ req[w].pc = "save"
    /\ IF Refused(req[w].row, req[w].id)
       THEN UNCHANGED <<db, granted>>
       ELSE /\ rows' = [rows EXCEPT ![req[w].id] = req[w].row]
            /\ granted' = granted \cup Granted(req[w].row)
            /\ UNCHANGED <<meshes, psk>>
    /\ Answer(w)
    /\ UNCHANGED <<kafka, suspect, bounds>>

\* serializer.save() writes the whole row, as it was read and changed: an UPDATE,
\* or an INSERT when the row is gone.
Save(w) ==
    /\ req[w].pc = "save"
    /\ IF Refused(req[w].row, req[w].id)
       THEN Answer(w) /\ UNCHANGED <<db, granted>>
       ELSE /\ rows' = [rows EXCEPT ![req[w].id] = req[w].row]
            /\ Continue(w, IF req[w].todo = {} THEN "answer" ELSE "publish")
            /\ granted' = granted \cup Granted(req[w].row)
            /\ UNCHANGED <<meshes, psk>>
    /\ UNCHANGED <<kafka, suspect, bounds>>

\* The fault: a registration that is disallowed already is deregistered again.
DeleteDeviceTwice(w) ==
    \E i \in Occupied :
        LET row == rows[i]
            todo == IF row.gateway THEN {Delete(row)}
                    ELSE IF ~row.allowed THEN {Unreject(row)} ELSE {}
        IN  Begin(w, Narrow(IF todo = {} THEN "remove" ELSE "publish", i, row, psk[row.mesh],
                            row, todo, "remove", "answer"))

\* DELETE /devices/{id} reads the row.
DeleteDevice(w) ==
    \E i \in Occupied :
        LET row == rows[i]
            todo == IF row.gateway /\ row.allowed THEN {Delete(row)}
                    ELSE IF ~row.gateway /\ ~row.allowed THEN {Unreject(row)} ELSE {}
        IN  Begin(w, Narrow(IF todo = {} THEN "remove" ELSE "publish", i, row, psk[row.mesh],
                            row, todo, "remove", "answer"))

\* device.delete(), at the end of a DELETE or to roll a POST back.
Remove(w) ==
    /\ req[w].pc \in {"remove", "rollBackInsert"}
    /\ rows' = [rows EXCEPT ![req[w].id] = NoRow]
    /\ Answer(w)
    /\ UNCHANGED <<meshes, psk, kafka, granted, suspect, bounds>>

\* PUT /meshes/{id} reads the mesh; without psk_b64 in it (a new label) it saves
\* the key it read and publishes nothing.
PutMesh(w) ==
    \E m \in meshes :
        \/ \E k \in Psk : Begin(w, Wide("meshSave", m, k, {}, "meshList", "rollBackMesh"))
        \/ Begin(w, Wide("meshSave", m, psk[m], {}, "answer", "rollBackMesh"))

\* The whole row again, inserted anew if it is gone.
SaveMesh(w) ==
    /\ req[w].pc = "meshSave"
    /\ meshes' = meshes \cup {req[w].row.mesh}
    /\ psk' = [psk EXCEPT ![req[w].row.mesh] = req[w].psk]
    /\ Continue(w, req[w].then)
    /\ UNCHANGED <<rows, kafka, granted, suspect, bounds>>

\* updated.devices.filter(...): the gateways to send the new key to.
ListGateways(w) ==
    /\ req[w].pc = "meshList"
    /\ LET todo == {Upsert(rows[i], req[w].psk) : i \in AllowedGateways(req[w].row.mesh)} IN
       req' = [req EXCEPT ![w] =
                  IF todo = {} THEN Idle
                  ELSE [@ EXCEPT !.pc = "publish", !.todo = todo, !.then = "answer"]]
    /\ UNCHANGED <<db, kafka, granted, suspect, bounds>>

\* The fault: the mesh goes and its rejected nodes stay rejected.
DeleteMeshGatewaysOnly(w) ==
    \E m \in meshes :
        LET todo == {Delete(rows[i]) : i \in AllowedGateways(m)}
        IN  Begin(w, Wide(IF todo = {} THEN "meshRemove" ELSE "publish", m, psk[m],
                          todo, "meshRemove", "answer"))

\* DELETE /meshes/{id} reads the mesh, its allowed gateways and its rejected nodes.
DeleteMesh(w) ==
    \E m \in meshes :
        LET todo == {Delete(rows[i]) : i \in AllowedGateways(m)}
                        \cup {Unreject(rows[i]) : i \in RejectedNodes(m)}
        IN  Begin(w, Wide(IF todo = {} THEN "meshRemove" ELSE "publish", m, psk[m],
                          todo, "meshRemove", "answer"))

\* mesh.delete() cascades to the devices.
RemoveMesh(w) ==
    /\ req[w].pc = "meshRemove"
    /\ meshes' = meshes \ {req[w].row.mesh}
    /\ rows' = [i \in Row |-> IF i \in RowsOf(req[w].row.mesh) THEN NoRow ELSE rows[i]]
    /\ Answer(w)
    /\ UNCHANGED <<psk, kafka, granted, suspect, bounds>>

\* The next event to publish, those for the gateways first.
Publishable(w) ==
    {e \in req[w].todo : e[1] = "keys" \/ \A f \in req[w].todo : f[1] = "rejections"}

\* A node is let in again that another of its registrations on the mesh rejects: the
\* two share one key.
LetsIn(w, e) ==
    /\ e[1] = "rejections" /\ e[2].op = "delete" /\ ~req[w].wide
    /\ \E i \in RejectedNodes(req[w].row.mesh) \ {req[w].id} : rows[i].dev = req[w].row.dev

\* send() and get(): the event is in the topic.
Publish(w) ==
    /\ req[w].pc = "publish"
    /\ \E e \in Publishable(w) :
         /\ Deliver(e)
         /\ req' = [req EXCEPT ![w] =
                      IF @.todo # {e} THEN [@ EXCEPT !.todo = req[w].todo \ {e}]
                      ELSE IF @.then = "answer" THEN Idle
                      ELSE [@ EXCEPT !.todo = {}, !.pc = req[w].then]]
         /\ suspect' = IF LetsIn(w, e) THEN suspect \cup {KeyOf(e)}
                       ELSE IF req[w].clean /\ \A l \in late : KeyOf(l) # KeyOf(e)
                       THEN suspect \ {KeyOf(e)} ELSE suspect
    /\ UNCHANGED <<db, late, granted, bounds>>

\* send() or its get() raises inside a try: the event is lost, or delivered later.
PublishFails(w) ==
    /\ req[w].pc = "publish"
    /\ faults < MaxFaults
    /\ faults' = faults + 1
    /\ \E e \in Publishable(w) : late' \in {late, late \cup {e}}
    /\ suspect' = suspect \cup KeysAbout(Touches(req[w]))
    /\ Continue(w, req[w].otherwise)
    /\ UNCHANGED <<db, keys, rejections, granted, served>>

DeliverLate ==
    /\ \E e \in late : Deliver(e) /\ late' = late \ {e}
    /\ UNCHANGED <<db, req, granted, suspect, bounds>>

\* The producer gives a batch up.
ExpireLate ==
    /\ \E e \in late : late' = late \ {e}
    /\ UNCHANGED <<db, keys, rejections, req, granted, suspect, bounds>>

\* updated.save(update_fields=["is_allowed"]): refused when the row is gone or
\* another took the device over.
RollBackSave(w) ==
    /\ req[w].pc = "rollBackSave"
    /\ rows' = IF rows[req[w].id] = NoRow \/ Taken(req[w].was, req[w].id) THEN rows
               ELSE [rows EXCEPT ![req[w].id].allowed = req[w].was.allowed]
    /\ Answer(w)
    /\ UNCHANGED <<meshes, psk, kafka, granted, suspect, bounds>>

\* updated.save(update_fields=["psk_b64"]): the key and no more.
RollBackMesh(w) ==
    /\ req[w].pc = "rollBackMesh"
    /\ psk' = IF req[w].row.mesh \in meshes
              THEN [psk EXCEPT ![req[w].row.mesh] = req[w].was] ELSE psk
    /\ Answer(w)
    /\ UNCHANGED <<meshes, rows, kafka, granted, suspect, bounds>>

\* get_publisher() raises: Kafka cannot be reached and this worker has no producer
\* yet.  A PUT calls it outside its try, when the row is saved already, so the request
\* ends with an error and nothing is undone.  (A DELETE calls it before it changes
\* anything; a POST and the seeding inside their try, as PublishFails.)
ConnectFails(w) ==
    /\ \/ req[w].pc = "meshList"
       \/ req[w].pc = "publish" /\ req[w].otherwise = "rollBackSave"
    /\ faults < MaxFaults
    /\ faults' = faults + 1
    /\ suspect' = suspect \cup KeysAbout(Touches(req[w]))
    /\ Answer(w)
    /\ UNCHANGED <<db, kafka, granted, served>>

\* gunicorn kills a worker (its timeout, a restart): the request ends where it is.
Crash(w) ==
    /\ Active(w)
    /\ faults < MaxFaults
    /\ faults' = faults + 1
    /\ suspect' = suspect \cup KeysAbout(Touches(req[w]))
    /\ Answer(w)
    /\ UNCHANGED <<db, kafka, granted, served>>

\* consume_device_sightings: get_or_create of the node the decoder saw on a mesh.
\* A request about the device is disturbed.
Sight ==
    \E d \in Device, m \in meshes, i \in Row \ Occupied :
        LET row == [dev |-> d, mesh |-> m, gateway |-> FALSE, allowed |-> TRUE] IN
        /\ i \notin {req[w].id : w \in {w \in Worker : Active(w)}}
        /\ \A j \in RowsOf(m) : rows[j].dev # d
        /\ ~Taken(row, i)
        /\ rows' = [rows EXCEPT ![i] = row]
        /\ req' = [w \in Worker |->
                     IF Active(w) /\ d \in Touches(req[w]) THEN [req[w] EXCEPT !.clean = FALSE]
                     ELSE req[w]]
        /\ UNCHANGED <<meshes, psk, kafka, granted, suspect, bounds>>

Next ==
    \/ \E w \in Worker :
         \/ PostDevice(w) \/ Seed(w) \/ Insert(w)
         \/ PutDevice(w) \/ Save(w) \/ RollBackSave(w)
         \/ DeleteDevice(w) \/ Remove(w)
         \/ PutMesh(w) \/ SaveMesh(w) \/ ListGateways(w) \/ RollBackMesh(w)
         \/ DeleteMesh(w) \/ RemoveMesh(w)
         \/ Publish(w) \/ PublishFails(w) \/ ConnectFails(w) \/ Crash(w)
    \/ DeliverLate \/ ExpireLate \/ Sight

Spec == Init /\ [][Next]_vars
-----------------------------------------------------------------------------
(* Properties. *)

\* When no request is under way, the decoder knows of every gateway exactly what
\* the database says of it: the mesh it is registered on and that mesh's key.  A
\* failed, killed or racing request may leave a device out of step; the next
\* undisturbed request that publishes for it puts it right (registry/views.py
\* keeps rows and mesh.keys.v1 in step by hand).
DecoderAgrees ==
    /\ TypeOK
    /\ Quiescent =>
          \A d \in Device : <<"keys", d>> \in suspect \/ keys[d] = Registered(d)

\* When no request is under way, a node the decoder rejects on a mesh is one the
\* database rejects there: deleting its row, or the mesh, lets it in again.
RejectionsAreBacked ==
    Quiescent =>
        \A k \in rejections :
            \/ <<"rejections", k>> \in suspect
            \/ \E i \in RejectedNodes(k[1]) : rows[i].dev = k[2]

\* When no request is under way, a node that a row rejects is one the decoder
\* rejects: no sequence of answered requests lets it in but one that lets in or
\* deletes another registration of the node on the same mesh.
RejectedStayOut ==
    Quiescent =>
        \A m \in Mesh : \A i \in RejectedNodes(m) :
            <<"rejections", <<m, rows[i].dev>>>> \in suspect \/ <<m, rows[i].dev>> \in rejections

\* Whatever fails, dies or races, the decoder never takes a gateway to be on a
\* mesh where no one registered and allowed it: every view writes the row before
\* it publishes, and a late event is only an old registration.
OnlyGrantedAreDecoded ==
    \A d \in Device : keys[d] # Unknown => <<d, keys[d].mesh>> \in granted

\* A request no other disturbs whose publish raises inside the try leaves the row it
\* was about (of a mesh, the key) as it read it, and what was to be deleted is kept:
\* the handlers at views.py:522, 542, 547, 631, 712 and 733, for every event of the request
\* and whatever was published before it.  It says nothing of get_publisher() raising
\* before the try of a PUT: see KeyChangesRollBack.
Failing(w) ==
    /\ Active(w) /\ req[w].clean /\ req'[w].pc = "idle"
    /\ \/ req[w].pc \in {"rollBackInsert", "rollBackSave", "rollBackMesh"} /\ faults' = faults
       \/ req[w].pc = "publish" /\ req[w].otherwise = "answer" /\ faults' # faults

FailedRequestsUndo ==
    [][\A w \in Worker : Failing(w) =>
          IF req[w].wide THEN psk'[req[w].row.mesh] = req[w].was
          ELSE IF req[w].id = NoRow THEN TRUE
          ELSE rows'[req[w].id] = req[w].was]_vars

\* What MeshDetailView.put promises of redistributing a changed key: "the whole update
\* is rolled back if that fails" (views.py:507).  It does not hold: get_publisher(),
\* line 518, may raise when the key is saved, and no handler puts the old one back.
KeyChangesRollBack ==
    [][\A w \in Worker :
          (ConnectFails(w) \/ RollBackMesh(w)) /\ req[w].wide /\ req[w].clean =>
              psk'[req[w].row.mesh] = req[w].was]_vars

=============================================================================
