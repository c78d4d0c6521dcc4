------------------------- MODULE GatewayRegistryProofs -------------------------
(***************************************************************************)
(* Proofs about the gateway registry, for any devices, meshes and keys,    *)
(* any number of workers, rows, requests and faults:                       *)
(*   - the decoder never takes a gateway to be on a mesh where no one      *)
(*     registered and allowed it (IInv);                                   *)
(*   - a request that no other disturbs undoes what it did when a publish  *)
(*     fails (Undoable);                                                   *)
(*   - when no request is under way the decoder knows and rejects what the *)
(*     tables say, but for what history notes as suspect (InStep).         *)
(***************************************************************************)
EXTENDS GatewayRegistry, TLAPS

USE DevicesAssumption, RowsAssumption, BoundsAssumption

\* To the tables and the topics a request that ends because get_publisher() raises is one
\* whose worker is killed: the lemmas about Crash cover it.
LEMMA ConnectionLost ==
    ASSUME NEW w \in Worker, ConnectFails(w)
    PROVE  Crash(w)
<1>1. Active(w)
  BY DEF ConnectFails, Active
<1> QED BY <1>1 DEF ConnectFails, Crash

\* Who a row is about never changes; whether it is allowed does.
Same(r, q) == r.dev = q.dev /\ r.mesh = q.mesh /\ r.gateway = q.gateway

Event == ({"keys"} \X KeyEvent) \cup ({"rejections"} \X RejectionEvent)

\* The requests about one device, and those about a mesh.
NarrowRequest ==
    [pc : {"publish", "insert", "save", "remove", "rollBackInsert", "rollBackSave"},
     wide : {FALSE}, id : Row \cup {NoRow}, row : DeviceRow, psk : Psk,
     was : DeviceRow \cup {NoRow}, todo : SUBSET Event, then : {"answer", "remove"},
     otherwise : {"answer", "raise", "rollBackInsert", "rollBackSave"}, clean : BOOLEAN]

WideRequest ==
    [pc : {"publish", "meshSave", "meshList", "meshRemove", "rollBackMesh"},
     wide : {TRUE}, id : {NoRow}, row : [mesh : Mesh], psk : Psk,
     was : Psk, todo : SUBSET Event, then : {"answer", "meshList", "meshRemove"},
     otherwise : {"answer", "rollBackMesh"}, clean : BOOLEAN]

Request == NarrowRequest \cup WideRequest

Types ==
    /\ meshes \subseteq Mesh
    /\ psk \in [Mesh -> Psk]
    /\ rows \in [Row -> DeviceRow \cup {NoRow}]
    /\ keys \in [Device -> Entry \cup {Unknown}]
    /\ late \subseteq Event
    /\ req \in [Worker -> Request \cup {Idle}]

\* An event that registers a gateway is about one of the pairs.
Sound(e, pairs) ==
    e[1] = "keys" /\ e[2].op = "upsert" => <<e[2].key, e[2].entry.mesh>> \in pairs

\* What a request is to publish has been granted, or will be by the row it is about to
\* write; what it may have to put back was granted when it read it.
EventsGranted(r, pairs) ==
    \A e \in r.todo :
        Sound(e, IF r.pc \in {"insert", "save"} THEN pairs \cup Granted(r.row) ELSE pairs)

UndoGranted(r, pairs) ==
    /\ r.pc = "rollBackSave" => r.otherwise = "rollBackSave"
    /\ r.otherwise = "rollBackSave" =>
          r.was \in DeviceRow /\ Same(r.was, r.row) /\ Granted(r.was) \subseteq pairs

RowsGranted == \A i \in Occupied : Granted(rows[i]) \subseteq granted
LateGranted == \A e \in late : Sound(e, granted)
RequestsGranted ==
    \A w \in Worker : Active(w) =>
        EventsGranted(req[w], granted) /\ UndoGranted(req[w], granted)

\* A row and the requests that have read it are about the same device.
Holds(w, i) == Active(w) /\ req[w].id = i
RowIdentity ==
    \A w \in Worker, i \in Row :
        Holds(w, i) /\ rows[i] # NoRow => Same(rows[i], req[w].row)
RequestIdentity ==
    \A v, w \in Worker, i \in Row :
        Holds(v, i) /\ Holds(w, i) => Same(req[v].row, req[w].row)

IInv ==
    /\ Types
    /\ OnlyGrantedAreDecoded
    /\ RowsGranted /\ LateGranted /\ RequestsGranted
    /\ RowIdentity /\ RequestIdentity

-----------------------------------------------------------------------------
(***************************************************************************)
(* A request that no other disturbs and whose publish fails undoes what it *)
(* did.  No other request writes its row or its mesh while it is clean     *)
(* (Separate), so the row is what the request read or wrote (Kept), and    *)
(* the database cannot refuse to take the old one back.                    *)
(***************************************************************************)

\* No two registrations of a device are allowed: uq_devices_device_id_allowed.
Unique == \A i \in Occupied : ~Taken(rows[i], i)

\* The two requests are about different devices; or different meshes, if one of them
\* changes a mesh.
Separate(p, q) ==
    IF ~p.wide /\ ~q.wide THEN p.row.dev # q.row.dev ELSE p.row.mesh # q.row.mesh

\* What the parts of a request have to do with each other, whatever the others do.
Shape(r) ==
    /\ r.pc \in {"rollBackInsert", "rollBackSave", "rollBackMesh"} => r.otherwise = r.pc
    /\ r.pc = "insert" => r.otherwise \in {"rollBackInsert", "raise"}
    /\ r.pc = "save" => r.otherwise = "rollBackSave"
    /\ r.pc \in {"meshSave", "meshList"} \/ r.then = "meshList" => r.otherwise = "rollBackMesh"
    /\ r.otherwise = "rollBackInsert" => r.was = NoRow
    /\ r.otherwise = "rollBackInsert" /\ r.pc # "insert" => r.id \in Row
    /\ r.otherwise = "rollBackSave" \/ (~r.wide /\ r.otherwise = "answer") =>
          /\ r.id \in Row /\ r.was \in DeviceRow
          /\ r.was = [r.row EXCEPT !.allowed = r.was.allowed]

\* What the row of an undisturbed request is before and after its save, and what keeps
\* its mesh where it is.
NarrowKept(r) ==
    /\ r.pc = "save" \/ (r.pc = "publish" /\ r.otherwise = "answer") => rows[r.id] = r.was
    /\ r.otherwise = "rollBackSave" /\ r.pc # "save" => rows[r.id] = r.row
    /\ r.otherwise = "rollBackSave" => ~Taken(r.was, r.id)

WideKept(r) ==
    /\ r.pc = "publish" /\ r.otherwise = "answer" => psk[r.row.mesh] = r.was
    /\ r.otherwise = "rollBackMesh" /\ r.pc # "meshSave" => r.row.mesh \in meshes

Kept(r) == IF r.wide THEN WideKept(r) ELSE NarrowKept(r)

Settled(w) == Active(w) => Shape(req[w]) /\ (req[w].clean => Kept(req[w]))

AllSeparate ==
    \A w, v \in Worker :
        w # v /\ Active(w) /\ Active(v) /\ req[w].clean => Separate(req[w], req[v])

Undoable == Unique /\ AllSeparate /\ \A w \in Worker : Settled(w)

-----------------------------------------------------------------------------
(***************************************************************************)
(* The decoder is in step with the database.  Of each device there is at   *)
(* most one request under way that concerns it, or the device is suspect   *)
(* (Apart); what that request has read is still so (Relies), and what it   *)
(* has yet to publish or to remove says how far the decoder is from what   *)
(* the rows say (KeyOwn, RejectionOwn).                                    *)
(***************************************************************************)

\* A row the decoder need not know of: another device's, or an allowed node's.
Silent(row, d) == row = NoRow \/ row.dev # d \/ (~row.gateway /\ row.allowed)

Registering(m, d) == {i \in AllowedGateways(m) : rows[i].dev = d}
Rejecting(m, d) == {i \in RejectedNodes(m) : rows[i].dev = d}

\* A request about a device concerns it; one about a mesh concerns the devices with a
\* row on the mesh that is not silent, and those it has an event to publish about.
Concerns(r, d) ==
    IF r.wide
    THEN \/ \E i \in Row : ~Silent(rows[i], d) /\ rows[i].mesh = r.row.mesh
         \/ \E e \in r.todo : DeviceOf(e) = d
    ELSE r.row.dev = d

\* p is about a device on the mesh that q is about.
Meets(p, q, d) == ~p.wide /\ q.wide /\ p.row.dev = d /\ p.row.mesh = q.row.mesh

Clash(p, q, d) == (Concerns(p, d) /\ Concerns(q, d)) \/ Meets(p, q, d) \/ Meets(q, p, d)

Suspicious(d) == KeysAbout({d}) \subseteq suspect

Apart ==
    \A v, w \in Worker, d \in Device :
        v # w /\ Active(v) /\ Active(w) /\ Clash(req[v], req[w], d) =>
            ~req[v].clean /\ ~req[w].clean /\ Suspicious(d)

\* What was given up is suspect as long as it may be delivered, and so are the devices
\* of a request that is rolled back.
LateSuspect == \A e \in late : e[2].op \in {"upsert", "delete"} /\ KeyOf(e) \in suspect

RollBacks == {"rollBackInsert", "rollBackSave", "rollBackMesh"}
RollBackSuspect ==
    \A w \in Worker, d \in Device :
        Active(w) /\ req[w].pc \in RollBacks /\ Concerns(req[w], d) => Suspicious(d)

\* What a request about a device publishes, and where it goes then.
NarrowPlan(r) ==
    /\ r.pc # "insert" => r.id \in Row
    /\ r.then = IF r.otherwise = "answer" THEN "remove" ELSE "answer"
    /\ r.otherwise = "answer" => r.pc \in {"publish", "remove"} /\ r.was = r.row
    /\ r.pc = "remove" => r.otherwise = "answer"
    /\ r.pc = "insert" =>
          r.row.allowed /\ r.todo = IF r.row.gateway THEN {Upsert(r.row, r.psk)} ELSE {}
    /\ r.pc = "save" =>
          r.todo = IF r.was.allowed = r.row.allowed THEN {} ELSE {Change(r.row, r.psk)}
    /\ r.pc = "publish" /\ r.otherwise \in {"rollBackInsert", "raise"} =>
          r.row.gateway /\ r.row.allowed /\ r.todo = {Upsert(r.row, r.psk)}
    /\ r.pc = "publish" /\ r.otherwise = "rollBackSave" =>
          r.was.allowed # r.row.allowed /\ r.todo = {Change(r.row, r.psk)}
    /\ r.pc = "publish" /\ r.otherwise = "answer" =>
          \/ r.row.gateway /\ r.row.allowed /\ r.todo = {Delete(r.row)}
          \/ ~r.row.gateway /\ ~r.row.allowed /\ r.todo = {Unreject(r.row)}

\* The same of a request about a mesh.
WidePlan(r) ==
    /\ r.pc \in {"meshSave", "meshList", "meshRemove"} => r.todo = {}
    /\ r.pc = "meshSave" => r.then \in {"answer", "meshList"}
    /\ r.pc = "meshSave" /\ r.then = "answer" => r.psk = r.was
    /\ r.pc = "meshRemove" => r.then = "meshRemove"
    /\ r.pc = "publish" => r.then \in {"answer", "meshRemove"} /\ r.todo # {}
    /\ r.then = "answer" => \A e \in r.todo :
          e[1] = "keys" /\ e[2].op = "upsert" /\ e[2].entry = [mesh |-> r.row.mesh, psk |-> r.psk]
    /\ r.then = "meshRemove" => \A e \in r.todo :
          e[2].op = "delete" /\ (e[1] = "rejections" => e[2].key[1] = r.row.mesh)

Plan(r) ==
    /\ \A e \in r.todo : e[2].op \in {"upsert", "delete"}
    /\ IF r.wide THEN WidePlan(r) ELSE NarrowPlan(r)

Planned == \A w \in Worker : Active(w) => Plan(req[w])

\* What a request that no other disturbs may rely on.
NarrowRelies(r) ==
    /\ psk[r.row.mesh] = r.psk
    /\ r.pc \in {"save", "remove"} \/ (r.pc = "publish" /\ r.otherwise = "answer") =>
          rows[r.id] = r.was
    /\ r.pc = "publish" /\ r.otherwise # "answer" => rows[r.id] = r.row
    /\ r.pc = "publish" /\ r.otherwise = "rollBackSave" /\ r.row.gateway /\ ~r.row.allowed =>
          \A m \in Mesh : Registering(m, r.row.dev) = {}

WideRelies(r, d) ==
    /\ r.pc = "meshSave" => psk[r.row.mesh] = r.was
    /\ r.pc = "meshList" \/ (r.pc = "publish" /\ r.then = "answer") => psk[r.row.mesh] = r.psk
    /\ \A e \in r.todo :
          /\ e[1] = "keys" /\ DeviceOf(e) = d => Registering(r.row.mesh, d) # {}
          /\ e[1] = "rejections" /\ DeviceOf(e) = d => Rejecting(r.row.mesh, d) # {}

Relies(r, d) == IF r.wide THEN WideRelies(r, d) ELSE NarrowRelies(r)

Free(r, d) == Concerns(r, d) /\ (r.clean \/ ~Suspicious(d))

Steady == \A w \in Worker, d \in Device : Active(w) /\ Free(req[w], d) => Relies(req[w], d)

\* What a request has yet to do about a device.
ToPublish(r, k) == r.pc = "publish" /\ \E e \in r.todo : KeyOf(e) = k
ToList(r, d) == r.pc = "meshList" /\ Registering(r.row.mesh, d) # {}
Deleting(r) == r.pc \in {"publish", "meshRemove"} /\ r.then = "meshRemove"
ToDeregister(r, d) ==
    \/ r.pc = "remove" /\ r.row.gateway /\ r.row.allowed
    \/ Deleting(r) /\ Registering(r.row.mesh, d) # {}
ToUnreject(r, m, d) ==
    \/ r.pc = "remove" /\ r.row.mesh = m /\ ~r.row.gateway /\ ~r.row.allowed
    \/ Deleting(r) /\ r.row.mesh = m /\ Rejecting(m, d) # {}

\* What the decoder knows of a device that only request r concerns.
KeyOwn(r, d) ==
    ~ToPublish(r, <<"keys", d>>) =>
        /\ ToDeregister(r, d) => keys[d] = Unknown
        /\ ~ToDeregister(r, d) /\ ~ToList(r, d) => keys[d] = Registered(d)

RejectionOwn(r, m, d) ==
    ~ToPublish(r, <<"rejections", <<m, d>>>>) =>
        /\ ToUnreject(r, m, d) => /\ <<m, d>> \notin rejections
                                  /\ r.pc = "remove" => Rejecting(m, d) \subseteq {r.id}
        /\ ~ToUnreject(r, m, d) => (<<m, d>> \in rejections <=> Rejecting(m, d) # {})

KeyInStep(d) ==
    <<"keys", d>> \notin suspect =>
        /\ \A w \in Worker : Active(w) /\ Concerns(req[w], d) => KeyOwn(req[w], d)
        /\ (\A w \in Worker : Active(w) => ~Concerns(req[w], d)) => keys[d] = Registered(d)

RejectionInStep(m, d) ==
    <<"rejections", <<m, d>>>> \notin suspect =>
        /\ \A w \in Worker : Active(w) /\ Concerns(req[w], d) => RejectionOwn(req[w], m, d)
        /\ (\A w \in Worker : Active(w) => ~Concerns(req[w], d)) =>
              (<<m, d>> \in rejections <=> Rejecting(m, d) # {})

InStep ==
    /\ Apart /\ LateSuspect /\ RollBackSuspect /\ Planned /\ Steady
    /\ \A d \in Device : KeyInStep(d) /\ \A m \in Mesh : RejectionInStep(m, d)

\* A request as it begins: it has all to do.
Begun(r) ==
    /\ Plan(r) /\ r.pc \notin RollBacks \cup {"meshList"}
    /\ \A d \in Device :
          /\ Concerns(r, d) => Relies(r, d)
          /\ Concerns(r, d) /\ ToDeregister(r, d) => ToPublish(r, <<"keys", d>>)
          /\ \A m \in Mesh : Concerns(r, d) /\ ToUnreject(r, m, d) =>
                ToPublish(r, <<"rejections", <<m, d>>>>)

\* All that a step of the request of w writes: its row, a new one, or its mesh.
WritesOwn(w) ==
    IF req[w].wide
    THEN /\ \A m \in Mesh \ {req[w].row.mesh} :
                psk'[m] = psk[m] /\ (m \in meshes => m \in meshes')
         /\ \A i \in Row : \/ rows'[i] = rows[i]
                            \/ /\ rows'[i] = NoRow /\ rows[i] # NoRow
                               /\ rows[i].mesh = req[w].row.mesh
    ELSE /\ UNCHANGED <<meshes, psk>>
         /\ \A i \in Row : \/ rows'[i] = rows[i]
                            \/ /\ rows'[i] = NoRow \/ rows'[i].dev = req[w].row.dev
                               /\ Holds(w, i) \/ \A v \in Worker : ~Holds(v, i)

\* What a request is about never changes, and another's step must say that it disturbs it.
SameScope(r, q) ==
    r.wide = q.wide /\ r.row = q.row /\ r.psk = q.psk /\ r.clean = q.clean

\* A request as it begins.
Fresh(r) ==
    /\ EventsGranted(r, granted) /\ UndoGranted(r, granted)
    /\ r.id \in Row => rows[r.id] # NoRow /\ Same(rows[r.id], r.row)
    /\ Shape(r) /\ (Unique => Kept(r)) /\ Begun(r)

-----------------------------------------------------------------------------
\* The events about a row, and which of them register anything.
LEMMA EventFacts ==
    ASSUME NEW row \in DeviceRow, NEW k \in Psk, NEW pairs
    PROVE  /\ {Upsert(row, k), Delete(row), Reject(row), Unreject(row)} \subseteq Event
           /\ Sound(Delete(row), pairs) /\ Sound(Reject(row), pairs) /\ Sound(Unreject(row), pairs)
           /\ Sound(Upsert(row, k), pairs) <=> <<row.dev, row.mesh>> \in pairs
<1> USE DEF Upsert, Delete, Reject, Unreject, DeviceRow, Device
<1>1. Upsert(row, k) \in Event /\ Delete(row) \in Event
  BY DEF Event, KeyEvent, Entry
<1>2. Reject(row) \in Event /\ Unreject(row) \in Event
  BY DEF Event, RejectionEvent
<1>3. /\ Sound(Delete(row), pairs) /\ Sound(Reject(row), pairs) /\ Sound(Unreject(row), pairs)
      /\ Sound(Upsert(row, k), pairs) <=> <<row.dev, row.mesh>> \in pairs
  BY DEF Sound
<1> QED BY <1>1, <1>2, <1>3

\* Topic, operation, device and compaction key of the events about a row.
LEMMA EventParts ==
    ASSUME NEW row \in DeviceRow, NEW k \in Psk
    PROVE  /\ LET e == Upsert(row, k)
              IN  /\ e[1] = "keys" /\ e[2].op = "upsert" /\ DeviceOf(e) = row.dev
                  /\ KeyOf(e) = <<"keys", row.dev>> /\ e[2].entry = [mesh |-> row.mesh, psk |-> k]
           /\ LET e == Delete(row)
              IN  /\ e[1] = "keys" /\ e[2].op = "delete" /\ DeviceOf(e) = row.dev
                  /\ KeyOf(e) = <<"keys", row.dev>>
           /\ LET e == Reject(row)
              IN  /\ e[1] = "rejections" /\ e[2].op = "upsert" /\ DeviceOf(e) = row.dev
                  /\ KeyOf(e) = <<"rejections", <<row.mesh, row.dev>>>>
           /\ LET e == Unreject(row)
              IN  /\ e[1] = "rejections" /\ e[2].op = "delete" /\ DeviceOf(e) = row.dev
                  /\ KeyOf(e) = <<"rejections", <<row.mesh, row.dev>>>>
                  /\ e[2].key[1] = row.mesh
  BY DEF Upsert, Delete, Reject, Unreject, KeyOf, DeviceOf

\* The event that registers the gateway of a row is sound once the row is granted.
LEMMA GrantingEvent ==
    ASSUME NEW row \in DeviceRow, row.gateway, row.allowed, NEW k \in Psk, NEW pairs
    PROVE  Upsert(row, k) \in Event /\ Sound(Upsert(row, k), pairs \cup Granted(row))
<1>1. <<row.dev, row.mesh>> \in pairs \cup Granted(row)
  BY DEF Granted
<1> QED BY <1>1, EventFacts

\* What is sound stays so when more is granted.
LEMMA MoreGranted ==
    ASSUME NEW P, NEW Q, P \subseteq Q
    PROVE  /\ \A e : Sound(e, P) => Sound(e, Q)
           /\ \A r : EventsGranted(r, P) => EventsGranted(r, Q)
           /\ \A r : UndoGranted(r, P) => UndoGranted(r, Q)
<1>1. \A e, R, S : R \subseteq S /\ Sound(e, R) => Sound(e, S)
  BY DEF Sound
<1>2. \A r : EventsGranted(r, P) => EventsGranted(r, Q)
  BY <1>1 DEF EventsGranted
<1> QED BY <1>1, <1>2 DEF UndoGranted

\* Noting that a request was disturbed changes nothing else about it.
LEMMA Unclean ==
    ASSUME NEW r \in Request, NEW b \in BOOLEAN, NEW s, s = [r EXCEPT !.clean = b]
    PROVE  /\ s \in Request
           /\ s.pc = r.pc /\ s.wide = r.wide /\ s.id = r.id /\ s.row = r.row /\ s.was = r.was
           /\ s.todo = r.todo /\ s.then = r.then /\ s.otherwise = r.otherwise
           /\ s.psk = r.psk /\ s.clean = b
           /\ \A P : EventsGranted(r, P) => EventsGranted(s, P)
           /\ \A P : UndoGranted(r, P) => UndoGranted(s, P)
<1>1. /\ s \in Request
      /\ s.pc = r.pc /\ s.wide = r.wide /\ s.id = r.id /\ s.row = r.row /\ s.was = r.was
      /\ s.todo = r.todo /\ s.then = r.then /\ s.otherwise = r.otherwise
           /\ s.psk = r.psk /\ s.clean = b
  <2>1. CASE r \in NarrowRequest
    BY <2>1 DEF Request, NarrowRequest
  <2>2. CASE r \in WideRequest
    BY <2>2 DEF Request, WideRequest
  <2> QED BY <2>1, <2>2 DEF Request
<1> QED BY <1>1 DEF EventsGranted, UndoGranted

\* What the type of requests says of one that is under way.
LEMMA RequestFacts ==
    ASSUME Types, NEW w \in Worker, Active(w)
    PROVE  /\ req[w] \in Request
           /\ req[w].id \in Row => req[w] \in NarrowRequest
<1>1. req[w] \in Request \cup {Idle}
  BY DEF Types
<1>2. req[w] # Idle
  BY DEF Active, Idle
<1>3. req[w] \in WideRequest => req[w].id = NoRow
  BY DEF WideRequest
<1> QED BY <1>1, <1>2, <1>3 DEF Request

-----------------------------------------------------------------------------
\* A step of the request of w: it keeps its row and its id, or gets an id no other has.
LEMMA RequestStep ==
    ASSUME IInv, NEW w \in Worker, Active(w),
           req' = [req EXCEPT ![w] = req'[w]],
           granted \subseteq granted',
           \/ req'[w] = Idle
           \/ /\ req'[w] \in Request /\ req'[w].row = req[w].row
              /\ \/ req'[w].id = req[w].id
                 \/ \A v \in Worker : Active(v) => req[v].id # req'[w].id
              /\ EventsGranted(req'[w], granted') /\ UndoGranted(req'[w], granted')
    PROVE  /\ req' \in [Worker -> Request \cup {Idle}]
           /\ RequestsGranted' /\ RequestIdentity'
           /\ \A v \in Worker : Active(v)' => Active(v) /\ req'[v].row = req[v].row
           /\ \A v \in Worker : v # w => req'[v] = req[v]
<1>1. req \in [Worker -> Request \cup {Idle}]
  BY DEF IInv, Types
<1>2. \A v \in Worker : v # w => req'[v] = req[v]
  BY <1>1
<1>3. req' \in [Worker -> Request \cup {Idle}]
  BY <1>1
<1>4. \A v \in Worker : Active(v)' => Active(v) /\ req'[v].row = req[v].row
  BY <1>2 DEF Active, Idle
<1>5. RequestsGranted'
  <2> SUFFICES ASSUME NEW v \in Worker, Active(v)'
               PROVE  EventsGranted(req'[v], granted') /\ UndoGranted(req'[v], granted')
    BY DEF RequestsGranted
  <2>1. CASE v = w
    BY <2>1 DEF Active, Idle
  <2>2. CASE v # w
    <3>1. EventsGranted(req[v], granted) /\ UndoGranted(req[v], granted)
      BY <1>4 DEF IInv, RequestsGranted
    <3> QED BY <2>2, <1>2, <3>1, MoreGranted
  <2> QED BY <2>1, <2>2
<1>6. RequestIdentity'
  <2> SUFFICES ASSUME NEW u \in Worker, NEW v \in Worker, NEW i \in Row,
                      Holds(u, i)', Holds(v, i)'
               PROVE  Same(req'[u].row, req'[v].row)
    BY DEF RequestIdentity
  <2>1. /\ Active(u) /\ Active(v)
        /\ req'[u].row = req[u].row /\ req'[v].row = req[v].row
        /\ req'[u].id = i /\ req'[v].id = i
    BY <1>4 DEF Holds
  <2>2. CASE u = v
    BY <2>2 DEF Same
  <2>3. CASE u # v
    <3>1. req[u].id = i /\ req[v].id = i
      <4>1. CASE u = w
        BY <4>1, <2>1, <2>3, <1>2 DEF Active, Idle, Holds
      <4>2. CASE v = w
        BY <4>2, <2>1, <2>3, <1>2 DEF Active, Idle, Holds
      <4>3. CASE u # w /\ v # w
        BY <4>3, <2>1, <1>2
      <4> QED BY <4>1, <4>2, <4>3
    <3> QED BY <2>1, <3>1 DEF IInv, RequestIdentity, Holds
  <2> QED BY <2>2, <2>3
<1> QED BY <1>2, <1>3, <1>4, <1>5, <1>6

\* A request that begins: what it read is granted, and its row is the one it read.
LEMMA BeginStep ==
    ASSUME IInv, NEW w \in Worker, NEW r \in Request, Begin(w, r), Fresh(r)
    PROVE  IInv'
<1>0. /\ EventsGranted(r, granted) /\ UndoGranted(r, granted)
      /\ r.id \in Row => rows[r.id] # NoRow /\ Same(rows[r.id], r.row)
  BY DEF Fresh
<1>1. UNCHANGED <<meshes, psk, rows, keys, rejections, late, granted>> /\ ~Active(w)
  BY DEF Begin, db, kafka
<1>2. req \in [Worker -> Request \cup {Idle}]
  BY DEF IInv, Types
<1>3. PICK b \in BOOLEAN : req'[w] = [r EXCEPT !.clean = b]
  BY DEF Begin
<1>4. \A v \in Worker : v # w =>
         req'[v] = req[v] \/ (Active(v) /\ req'[v] = [req[v] EXCEPT !.clean = FALSE])
  BY DEF Begin
<1>5. ASSUME NEW v \in Worker, Active(v)', v # w
      PROVE  /\ Active(v) /\ req'[v] \in Request
             /\ req'[v].id = req[v].id /\ req'[v].row = req[v].row
             /\ EventsGranted(req'[v], granted) /\ UndoGranted(req'[v], granted)
  <2>1. CASE req'[v] = req[v]
    <3>1. Active(v)
      BY <1>5, <2>1 DEF Active
    <3> QED BY <2>1, <3>1, RequestFacts DEF IInv, RequestsGranted
  <2>2. CASE Active(v) /\ req'[v] = [req[v] EXCEPT !.clean = FALSE]
    <3>1. req[v] \in Request /\ EventsGranted(req[v], granted) /\ UndoGranted(req[v], granted)
      BY <2>2, RequestFacts DEF IInv, RequestsGranted
    <3> QED BY <2>2, <3>1, Unclean
  <2> QED BY <1>4, <1>5, <2>1, <2>2
<1>6. /\ req'[w] \in Request /\ req'[w].id = r.id /\ req'[w].row = r.row
      /\ EventsGranted(req'[w], granted) /\ UndoGranted(req'[w], granted)
  BY <1>0, <1>3, Unclean
<1>7. req' \in [Worker -> Request \cup {Idle}]
  <2>1. \A v \in Worker : req'[v] \in Request \cup {Idle}
    <3> TAKE v \in Worker
    <3>1. CASE v = w
      BY <3>1, <1>6
    <3>2. CASE v # w /\ Active(v)'
      BY <3>2, <1>5
    <3>3. CASE v # w /\ ~Active(v)'
      <4>1. req'[v] = req[v]
        <5>1. ASSUME Active(v), req'[v] = [req[v] EXCEPT !.clean = FALSE] PROVE FALSE
          <6>1. req[v] \in Request
            BY <5>1, RequestFacts DEF IInv
          <6>2. req'[v].pc = req[v].pc
            BY <5>1, <6>1, Unclean
          <6> QED BY <3>3, <5>1, <6>2 DEF Active
        <5> QED BY <3>3, <1>4, <5>1
      <4> QED BY <4>1, <1>2
    <3> QED BY <3>1, <3>2, <3>3
  <2>2. DOMAIN req' = Worker /\ req' = [v \in Worker |-> req'[v]]
    BY DEF Begin
  <2> QED BY <2>1, <2>2
<1>8. Types'
  BY <1>1, <1>7 DEF IInv, Types
<1>9. RequestsGranted'
  BY <1>1, <1>5, <1>6 DEF RequestsGranted
<1>10. ASSUME NEW v \in Worker, NEW i \in Row, Holds(v, i)'
       PROVE  \/ v = w /\ rows[i] # NoRow /\ Same(rows[i], req'[v].row)
              \/ v # w /\ Holds(v, i) /\ req'[v].row = req[v].row
  <2>1. CASE v = w
    BY <2>1, <1>0, <1>10, <1>6 DEF Holds
  <2>2. CASE v # w
    BY <2>2, <1>10, <1>5 DEF Holds
  <2> QED BY <2>1, <2>2
<1>11. RowIdentity'
  <2> SUFFICES ASSUME NEW v \in Worker, NEW i \in Row, Holds(v, i)', rows[i] # NoRow
               PROVE  Same(rows[i], req'[v].row)
    BY <1>1 DEF RowIdentity
  <2> QED BY <1>10 DEF IInv, RowIdentity
<1>12. RequestIdentity'
  <2> SUFFICES ASSUME NEW u \in Worker, NEW v \in Worker, NEW i \in Row,
                      Holds(u, i)', Holds(v, i)'
               PROVE  Same(req'[u].row, req'[v].row)
    BY DEF RequestIdentity
  <2>1. rows[i] # NoRow => Same(rows[i], req'[u].row) /\ Same(rows[i], req'[v].row)
    BY <1>10 DEF IInv, RowIdentity
  <2>2. CASE u = w \/ v = w
    <3>1. rows[i] # NoRow
      BY <2>2, <1>10
    <3> QED BY <2>1, <3>1 DEF Same
  <2>3. CASE u # w /\ v # w
    BY <2>3, <1>10 DEF IInv, RequestIdentity
  <2> QED BY <2>2, <2>3
<1> QED
  BY <1>1, <1>8, <1>9, <1>11, <1>12
  DEF IInv, OnlyGrantedAreDecoded, RowsGranted, LateGranted, Occupied

\* The two shapes of a request.
LEMMA NarrowFacts ==
    ASSUME NEW pc \in {"publish", "insert", "save", "remove"}, NEW id \in Row \cup {NoRow},
           NEW row \in DeviceRow, NEW k \in Psk, NEW was \in DeviceRow \cup {NoRow},
           NEW todo \in SUBSET Event, NEW then \in {"answer", "remove"},
           NEW otherwise \in {"answer", "raise", "rollBackInsert", "rollBackSave"}
    PROVE  LET r == Narrow(pc, id, row, k, was, todo, then, otherwise)
           IN  /\ r \in Request
               /\ r.pc = pc /\ r.id = id /\ r.row = row /\ r.psk = k /\ r.was = was
               /\ r.todo = todo /\ r.then = then /\ r.otherwise = otherwise /\ ~r.wide
  BY DEF Narrow, Request, NarrowRequest

\* A request about a mesh that begins is a request, with the parts it was made of.
LEMMA WideFacts ==
    ASSUME Types, NEW pc \in {"publish", "meshSave", "meshRemove"}, NEW m \in Mesh, NEW k \in Psk,
           NEW todo \in SUBSET Event, NEW then \in {"answer", "meshList", "meshRemove"},
           NEW otherwise \in {"answer", "rollBackMesh"}
    PROVE  LET r == Wide(pc, m, k, todo, then, otherwise)
           IN  /\ r \in Request
               /\ r.pc = pc /\ r.id = NoRow /\ r.row.mesh = m /\ r.psk = k /\ r.was = psk[m]
               /\ r.todo = todo /\ r.then = then /\ r.otherwise = otherwise /\ r.wide
  BY DEF Wide, Request, WideRequest, Types

\* A row that is there is a row of a device, on a mesh that has a key.
LEMMA RowFacts ==
    ASSUME Types, NEW i \in Occupied
    PROVE  /\ i \in Row /\ rows[i] \in DeviceRow /\ rows[i] # NoRow
           /\ rows[i].mesh \in Mesh /\ psk[rows[i].mesh] \in Psk
<1>1. i \in Row /\ rows[i] \in DeviceRow /\ rows[i] # NoRow
  BY DEF Types, Occupied
<1>2. rows[i].mesh \in Mesh
  BY <1>1 DEF DeviceRow
<1> QED BY <1>1, <1>2 DEF Types

\* What the views read when a request about a device begins.
LEMMA DeviceRequests ==
    ASSUME IInv, NEW w \in Worker,
           PostDevice(w) \/ Seed(w) \/ PutDevice(w) \/ DeleteDevice(w)
    PROVE  \E r \in Request : Begin(w, r) /\ Fresh(r)
<1>0. Types
  BY DEF IInv
<1>1. CASE PostDevice(w) \/ Seed(w)
  <2>1. PICK d \in Device, m \in meshes, g \in BOOLEAN,
             o \in {"raise", "rollBackInsert"} :
          LET row == [dev |-> d, mesh |-> m, gateway |-> g, allowed |-> TRUE]
          IN  Begin(w, Narrow("insert", NoRow, row, psk[m], NoRow,
                              IF g THEN {Upsert(row, psk[m])} ELSE {},
                              "answer", o))
    BY <1>1 DEF PostDevice, Seed
  <2> DEFINE row == [dev |-> d, mesh |-> m, gateway |-> g, allowed |-> TRUE]
             todo == IF g THEN {Upsert(row, psk[m])} ELSE {}
             r == Narrow("insert", NoRow, row, psk[m], NoRow, todo, "answer", o)
  <2>2. m \in Mesh /\ psk[m] \in Psk
    BY <1>0 DEF Types
  <2>3. row \in DeviceRow /\ row.gateway = g /\ row.allowed
    BY <2>2 DEF DeviceRow
  <2> HIDE DEF row
  <2>4. todo \in SUBSET Event /\ \A e \in todo : Sound(e, granted \cup Granted(row))
    BY <2>2, <2>3, GrantingEvent
  <2> HIDE DEF todo
  <2>5. /\ r \in Request /\ r.pc = "insert" /\ r.id = NoRow /\ r.row = row /\ r.todo = todo
        /\ r.psk = psk[m] /\ r.was = NoRow /\ r.then = "answer" /\ r.otherwise = o /\ ~r.wide
    BY <2>2, <2>3, <2>4, NarrowFacts
  <2> HIDE DEF r
  <2>6. EventsGranted(r, granted) /\ UndoGranted(r, granted)
    BY <2>4, <2>5 DEF EventsGranted, UndoGranted
  <2>7. Begin(w, r)
    BY <2>1 DEF r, row, todo
  <2>8. Shape(r) /\ Kept(r)
    BY <2>5 DEF Shape, Kept, NarrowKept
  <2>9. row.mesh = m
    BY DEF row
  <2>10. todo = IF row.gateway THEN {Upsert(row, psk[m])} ELSE {}
    BY <2>3 DEF todo
  <2>11. Plan(r)
    <3>1. Upsert(row, psk[m])[2].op = "upsert"
      BY <2>2, <2>3, EventParts
    <3> QED BY <2>3, <2>5, <2>10, <3>1 DEF Plan, NarrowPlan
  <2>12. Begun(r)
    BY <2>5, <2>9, <2>11
       DEF Begun, RollBacks, Relies, NarrowRelies, ToDeregister, ToUnreject, Deleting
  <2> QED BY <2>5, <2>6, <2>7, <2>8, <2>12 DEF Fresh
<1>2. CASE PutDevice(w)
  <2>1. PICK i \in Occupied, allowed \in BOOLEAN :
          LET row == [rows[i] EXCEPT !.allowed = allowed]
          IN  Begin(w, Narrow("save", i, row, psk[row.mesh], rows[i],
                        IF allowed = rows[i].allowed THEN {} ELSE {Change(row, psk[row.mesh])},
                        "answer", "rollBackSave"))
    BY <1>2 DEF PutDevice
  <2> DEFINE row == [rows[i] EXCEPT !.allowed = allowed]
             todo == IF allowed = rows[i].allowed THEN {} ELSE {Change(row, psk[row.mesh])}
             r == Narrow("save", i, row, psk[row.mesh], rows[i], todo, "answer", "rollBackSave")
  <2>2. i \in Row /\ rows[i] \in DeviceRow /\ rows[i] # NoRow /\ psk[rows[i].mesh] \in Psk
    BY <1>0, RowFacts
  <2>3. /\ row \in DeviceRow /\ Same(rows[i], row) /\ psk[row.mesh] \in Psk
        /\ rows[i] = [row EXCEPT !.allowed = rows[i].allowed]
    BY <2>2 DEF DeviceRow, Same
  <2> HIDE DEF row
  <2>4. /\ Change(row, psk[row.mesh]) \in Event
        /\ Sound(Change(row, psk[row.mesh]), granted \cup Granted(row))
    BY <2>3, EventFacts, GrantingEvent DEF Change
  <2>6. todo \in SUBSET Event /\ \A e \in todo : Sound(e, granted \cup Granted(row))
    BY <2>4
  <2>7. Granted(rows[i]) \subseteq granted
    BY DEF IInv, RowsGranted
  <2> HIDE DEF todo
  <2>8. /\ r \in Request /\ r.pc = "save" /\ r.id = i /\ r.row = row /\ r.was = rows[i]
        /\ r.psk = psk[row.mesh] /\ r.todo = todo
        /\ r.then = "answer" /\ r.otherwise = "rollBackSave" /\ ~r.wide
    BY <2>2, <2>3, <2>6, NarrowFacts
  <2> HIDE DEF r
  <2>9. EventsGranted(r, granted) /\ UndoGranted(r, granted)
    BY <2>2, <2>3, <2>6, <2>7, <2>8 DEF EventsGranted, UndoGranted
  <2>10. Begin(w, r)
    BY <2>1 DEF r, row, todo
  <2>11. Shape(r) /\ (Unique => Kept(r))
    BY <2>2, <2>3, <2>8 DEF Shape, Kept, NarrowKept, Unique
  <2>12. todo = IF rows[i].allowed = row.allowed THEN {} ELSE {Change(row, psk[row.mesh])}
    BY <2>2 DEF todo, row, DeviceRow
  <2>13. \A e \in todo : e[2].op \in {"upsert", "delete"}
    <3>1. /\ Upsert(row, psk[row.mesh])[2].op = "upsert" /\ Delete(row)[2].op = "delete"
          /\ Reject(row)[2].op = "upsert" /\ Unreject(row)[2].op = "delete"
      BY <2>3, EventParts
    <3> QED BY <2>12, <3>1 DEF Change
  <2>14. Plan(r)
    BY <2>2, <2>8, <2>12, <2>13 DEF Plan, NarrowPlan
  <2>15. Begun(r)
    BY <2>8, <2>14 DEF Begun, RollBacks, Relies, NarrowRelies, ToDeregister, ToUnreject, Deleting
  <2> QED BY <2>2, <2>3, <2>8, <2>9, <2>10, <2>11, <2>15 DEF Fresh
<1>3. CASE DeleteDevice(w)
  <2>1. PICK i \in Occupied :
          LET row == rows[i]
              todo == IF row.gateway /\ row.allowed THEN {Delete(row)}
                      ELSE IF ~row.gateway /\ ~row.allowed THEN {Unreject(row)} ELSE {}
          IN  Begin(w, Narrow(IF todo = {} THEN "remove" ELSE "publish", i, row, psk[row.mesh],
                              row, todo, "remove", "answer"))
    BY <1>3 DEF DeleteDevice
  <2> DEFINE row == rows[i]
             todo == IF row.gateway /\ row.allowed THEN {Delete(row)}
                     ELSE IF ~row.gateway /\ ~row.allowed THEN {Unreject(row)} ELSE {}
             pc == IF todo = {} THEN "remove" ELSE "publish"
             r == Narrow(pc, i, row, psk[row.mesh], row, todo, "remove", "answer")
  <2>2. i \in Row /\ row \in DeviceRow /\ row # NoRow /\ psk[row.mesh] \in Psk
    BY <1>0, RowFacts
  <2>3. todo \in SUBSET Event /\ \A e \in todo : Sound(e, granted)
    BY <2>2, EventFacts
  <2>4. pc \in {"remove", "publish"}
    OBVIOUS
  <2> HIDE DEF todo, pc
  <2>5. /\ r \in Request /\ r.pc = pc /\ r.id = i /\ r.row = row /\ r.todo = todo
        /\ r.psk = psk[row.mesh] /\ r.was = row
        /\ r.then = "remove" /\ r.otherwise = "answer" /\ ~r.wide
    BY <2>2, <2>3, <2>4, NarrowFacts
  <2> HIDE DEF r
  <2>6. EventsGranted(r, granted) /\ UndoGranted(r, granted)
    BY <2>3, <2>4, <2>5 DEF EventsGranted, UndoGranted
  <2>7. Begin(w, r)
    BY <2>1 DEF r, todo, pc
  <2>8. row = [row EXCEPT !.allowed = row.allowed]
    BY <2>2 DEF DeviceRow
  <2>9. Shape(r) /\ Kept(r)
    BY <2>2, <2>4, <2>5, <2>8 DEF Shape, Kept, NarrowKept
  <2>10. /\ pc = IF todo = {} THEN "remove" ELSE "publish"
         /\ todo = IF row.gateway /\ row.allowed THEN {Delete(row)}
                   ELSE IF ~row.gateway /\ ~row.allowed THEN {Unreject(row)} ELSE {}
    BY DEF pc, todo
  <2>11. \A e \in todo : e[2].op \in {"upsert", "delete"}
    BY <2>2, <2>10, EventParts
  <2>12. /\ r.pc = "remove" => ~(r.row.gateway /\ r.row.allowed)
                                  /\ (r.row.gateway \/ r.row.allowed)
         /\ r.pc = "publish" => \/ r.row.gateway /\ r.row.allowed /\ r.todo = {Delete(r.row)}
                                \/ ~r.row.gateway /\ ~r.row.allowed /\ r.todo = {Unreject(r.row)}
    BY <2>5, <2>10
  <2>13. Plan(r)
    BY <2>2, <2>4, <2>5, <2>11, <2>12 DEF Plan, NarrowPlan
  <2>14. Begun(r)
    BY <2>4, <2>5, <2>12, <2>13
       DEF Begun, RollBacks, Relies, NarrowRelies, ToDeregister, ToUnreject, Deleting
  <2> QED BY <2>2, <2>5, <2>6, <2>7, <2>9, <2>14 DEF Fresh, Same
<1> QED BY <1>1, <1>2, <1>3

\* What they read when one about a mesh begins.
LEMMA MeshRequests ==
    ASSUME IInv, NEW w \in Worker, PutMesh(w) \/ DeleteMesh(w)
    PROVE  \E r \in Request : Begin(w, r) /\ Fresh(r)
<1>0. Types
  BY DEF IInv
<1>1. CASE PutMesh(w)
  <2>1. PICK m \in meshes, k \in Psk, then \in {"answer", "meshList"} :
          /\ Begin(w, Wide("meshSave", m, k, {}, then, "rollBackMesh"))
          /\ then = "answer" => k = psk[m]
    BY <1>0, <1>1 DEF PutMesh, Types
  <2> DEFINE r == Wide("meshSave", m, k, {}, then, "rollBackMesh")
  <2>2. m \in Mesh /\ k \in Psk
    BY <1>0 DEF Types
  <2>3. /\ r \in Request /\ r.pc = "meshSave" /\ r.id = NoRow /\ r.todo = {} /\ r.then = then
        /\ r.row.mesh = m /\ r.psk = k /\ r.was = psk[m] /\ r.otherwise = "rollBackMesh" /\ r.wide
    BY <1>0, <2>2, WideFacts
  <2> HIDE DEF r
  <2>4. EventsGranted(r, granted) /\ UndoGranted(r, granted)
    BY <2>3 DEF EventsGranted, UndoGranted
  <2>5. Begin(w, r)
    BY <2>1 DEF r
  <2>6. Shape(r) /\ Kept(r)
    BY <2>3 DEF Shape, Kept, WideKept
  <2>7. Plan(r)
    BY <2>1, <2>3 DEF Plan, WidePlan
  <2>8. Begun(r)
    BY <2>3, <2>7 DEF Begun, RollBacks, Relies, WideRelies, ToDeregister, ToUnreject, Deleting
  <2> QED BY <2>3, <2>4, <2>5, <2>6, <2>8 DEF Fresh
<1>2. CASE DeleteMesh(w)
  <2>1. PICK m \in meshes :
          LET todo == {Delete(rows[i]) : i \in AllowedGateways(m)}
                          \cup {Unreject(rows[i]) : i \in RejectedNodes(m)}
          IN  Begin(w, Wide(IF todo = {} THEN "meshRemove" ELSE "publish", m, psk[m],
                            todo, "meshRemove", "answer"))
    BY <1>2 DEF DeleteMesh
  <2> DEFINE todo == {Delete(rows[i]) : i \in AllowedGateways(m)}
                         \cup {Unreject(rows[i]) : i \in RejectedNodes(m)}
             pc == IF todo = {} THEN "meshRemove" ELSE "publish"
             r == Wide(pc, m, psk[m], todo, "meshRemove", "answer")
  <2>2. m \in Mesh /\ psk[m] \in Psk
    BY <1>0 DEF Types
  <2>3. \A i \in AllowedGateways(m) \cup RejectedNodes(m) : rows[i] \in DeviceRow
    BY <1>0, RowFacts DEF AllowedGateways, RejectedNodes, RowsOf
  <2>4. todo \in SUBSET Event /\ \A e \in todo : Sound(e, granted)
    <3>1. \A i \in AllowedGateways(m) \cup RejectedNodes(m) :
             /\ Delete(rows[i]) \in Event /\ Sound(Delete(rows[i]), granted)
             /\ Unreject(rows[i]) \in Event /\ Sound(Unreject(rows[i]), granted)
      BY <2>2, <2>3, EventFacts
    <3> QED BY <3>1
  <2>5. pc \in {"meshRemove", "publish"}
    OBVIOUS
  <2> HIDE DEF todo, pc
  <2>6. /\ r \in Request /\ r.pc = pc /\ r.id = NoRow /\ r.todo = todo /\ r.otherwise = "answer"
        /\ r.then = "meshRemove" /\ r.wide /\ r.row.mesh = m /\ r.was = psk[m]
    BY <1>0, <2>2, <2>4, <2>5, WideFacts
  <2> HIDE DEF r
  <2>7. EventsGranted(r, granted) /\ UndoGranted(r, granted)
    BY <2>4, <2>5, <2>6 DEF EventsGranted, UndoGranted
  <2>8. Begin(w, r)
    BY <2>1 DEF r, todo, pc
  <2>9. Shape(r) /\ Kept(r)
    BY <2>5, <2>6 DEF Shape, Kept, WideKept
  <2>10. pc = IF todo = {} THEN "meshRemove" ELSE "publish"
    BY DEF pc
  <2>11. \A e \in todo :
            /\ e[2].op = "delete" /\ (e[1] = "rejections" => e[2].key[1] = m)
            /\ e[1] = "keys" => \E i \in AllowedGateways(m) : rows[i].dev = DeviceOf(e)
            /\ e[1] = "rejections" => \E i \in RejectedNodes(m) : rows[i].dev = DeviceOf(e)
    <3>1. \A i \in AllowedGateways(m) \cup RejectedNodes(m) : rows[i].mesh = m
      BY DEF AllowedGateways, RejectedNodes, RowsOf
    <3>2. \A i \in AllowedGateways(m) \cup RejectedNodes(m) :
             /\ Delete(rows[i])[1] = "keys" /\ Delete(rows[i])[2].op = "delete"
             /\ DeviceOf(Delete(rows[i])) = rows[i].dev
             /\ Unreject(rows[i])[1] = "rejections" /\ Unreject(rows[i])[2].op = "delete"
             /\ Unreject(rows[i])[2].key[1] = m /\ DeviceOf(Unreject(rows[i])) = rows[i].dev
      BY <2>2, <2>3, <3>1, EventParts
    <3> QED BY <3>2 DEF todo
  <2>12. ASSUME NEW d \in Device
         PROVE  /\ Registering(m, d) # {} => \E e \in todo : KeyOf(e) = <<"keys", d>>
                /\ Rejecting(m, d) # {} =>
                      \E e \in todo : KeyOf(e) = <<"rejections", <<m, d>>>>
    <3>1. ASSUME NEW i \in Registering(m, d)
          PROVE  \E e \in todo : KeyOf(e) = <<"keys", d>>
      <4>1. i \in AllowedGateways(m) /\ rows[i].dev = d
        BY DEF Registering
      <4>2. Delete(rows[i]) \in todo
        BY <4>1 DEF todo
      <4>3. KeyOf(Delete(rows[i])) = <<"keys", d>>
        BY <2>2, <2>3, <4>1, EventParts
      <4> QED BY <4>2, <4>3
    <3>2. ASSUME NEW i \in Rejecting(m, d)
          PROVE  \E e \in todo : KeyOf(e) = <<"rejections", <<m, d>>>>
      <4>1. i \in RejectedNodes(m) /\ rows[i].dev = d /\ rows[i].mesh = m
        BY DEF Rejecting, RejectedNodes, RowsOf
      <4>2. Unreject(rows[i]) \in todo
        BY <4>1 DEF todo
      <4>3. KeyOf(Unreject(rows[i])) = <<"rejections", <<m, d>>>>
        BY <2>2, <2>3, <4>1, EventParts
      <4> QED BY <4>2, <4>3
    <3> QED BY <3>1, <3>2
  <2>13. Plan(r)
    BY <2>5, <2>6, <2>10, <2>11 DEF Plan, WidePlan
  <2>14. ASSUME NEW d \in Device PROVE Relies(r, d)
    BY <2>5, <2>6, <2>11 DEF Relies, WideRelies, Registering, Rejecting
  <2>15. ASSUME NEW d \in Device
         PROVE  /\ ToDeregister(r, d) => ToPublish(r, <<"keys", d>>)
                /\ \A x \in Mesh : ToUnreject(r, x, d) => ToPublish(r, <<"rejections", <<x, d>>>>)
    <3>1. r.pc # "remove"
      BY <2>5, <2>6
    <3>2. r.todo # {} => r.pc = "publish"
      BY <2>6, <2>10
    <3> QED BY <2>6, <2>12, <3>1, <3>2 DEF ToDeregister, ToUnreject, ToPublish
  <2>16. Begun(r)
    BY <2>5, <2>6, <2>13, <2>14, <2>15 DEF Begun, RollBacks
  <2> QED BY <2>6, <2>7, <2>8, <2>9, <2>16 DEF Fresh
<1> QED BY <1>1, <1>2

-----------------------------------------------------------------------------
\* Nothing reaches the decoder, and no more events are late.
LEMMA KafkaKept ==
    ASSUME IInv, granted \subseteq granted', keys' = keys, late' \subseteq late
    PROVE  /\ keys' \in [Device -> Entry \cup {Unknown}] /\ OnlyGrantedAreDecoded'
           /\ late' \subseteq Event /\ LateGranted'
<1>1. keys' \in [Device -> Entry \cup {Unknown}] /\ late' \subseteq Event
  BY DEF IInv, Types
<1>2. OnlyGrantedAreDecoded'
  BY DEF IInv, OnlyGrantedAreDecoded
<1>3. LateGranted'
  BY MoreGranted DEF IInv, LateGranted
<1> QED BY <1>1, <1>2, <1>3

\* A sound event reaches the decoder.
LEMMA Delivered ==
    ASSUME IInv, NEW e \in Event, Deliver(e), Sound(e, granted), granted' = granted
    PROVE  keys' \in [Device -> Entry \cup {Unknown}] /\ OnlyGrantedAreDecoded'
<1>0. keys \in [Device -> Entry \cup {Unknown}]
  BY DEF IInv, Types
<1>1. CASE e[1] # "keys"
  BY <1>0, <1>1 DEF Deliver, IInv, OnlyGrantedAreDecoded
<1>2. CASE e[1] = "keys"
  <2>1. e[2] \in KeyEvent /\ keys' = GatewayAfter(keys, e[2])
    BY <1>2 DEF Event, Deliver
  <2> QED
    BY <1>0, <1>2, <2>1
    DEF GatewayAfter, KeyEvent, Sound, IInv, OnlyGrantedAreDecoded, Device, DecodeConstants
<1> QED BY <1>1, <1>2

\* A step of a request under way keeps the invariant when each row it changes is gone, or
\* granted and about the device its holders read.
LEMMA StepOfRequest ==
    ASSUME IInv, NEW w \in Worker, Active(w),
           req' = [req EXCEPT ![w] = req'[w]],
           granted \subseteq granted',
           \/ req'[w] = Idle
           \/ /\ req'[w] \in Request /\ req'[w].row = req[w].row
              /\ \/ req'[w].id = req[w].id
                 \/ \A v \in Worker : Active(v) => req[v].id # req'[w].id
              /\ EventsGranted(req'[w], granted') /\ UndoGranted(req'[w], granted'),
           meshes' \subseteq Mesh, psk' \in [Mesh -> Psk],
           rows' \in [Row -> DeviceRow \cup {NoRow}],
           keys' \in [Device -> Entry \cup {Unknown}], OnlyGrantedAreDecoded',
           late' \subseteq Event, LateGranted',
           \A i \in Row :
              \/ rows'[i] = NoRow
              \/ rows'[i] = rows[i] /\ (Holds(w, i)' => Holds(w, i))
              \/ /\ Granted(rows'[i]) \subseteq granted'
                 /\ \A v \in Worker : Holds(v, i)' => Same(rows'[i], req[v].row)
    PROVE  IInv'
<1>1. /\ req' \in [Worker -> Request \cup {Idle}]
      /\ RequestsGranted' /\ RequestIdentity'
      /\ \A v \in Worker : Active(v)' => Active(v) /\ req'[v].row = req[v].row
      /\ \A v \in Worker : v # w => req'[v] = req[v]
  BY RequestStep
<1>2. Types'
  BY <1>1 DEF Types
<1>3. RowsGranted'
  <2> SUFFICES ASSUME NEW i \in Row, rows'[i] # NoRow
               PROVE  Granted(rows'[i]) \subseteq granted'
    BY DEF RowsGranted, Occupied
  <2>1. rows'[i] = rows[i] => Granted(rows[i]) \subseteq granted
    BY DEF IInv, RowsGranted, Occupied
  <2> QED BY <2>1
<1>4. RowIdentity'
  <2> SUFFICES ASSUME NEW v \in Worker, NEW i \in Row, Holds(v, i)', rows'[i] # NoRow
               PROVE  Same(rows'[i], req'[v].row)
    BY DEF RowIdentity
  <2>1. req'[v].row = req[v].row /\ Active(v)
    BY <1>1 DEF Holds
  <2>2. CASE rows'[i] = rows[i] /\ (Holds(w, i)' => Holds(w, i))
    <3>1. Holds(v, i)
      BY <1>1, <2>1, <2>2 DEF Holds
    <3> QED BY <2>1, <2>2, <3>1 DEF IInv, RowIdentity
  <2> QED BY <2>1, <2>2
<1> QED BY <1>1, <1>2, <1>3, <1>4 DEF IInv

\* The pcs that only the requests about one device have, and only those about a mesh.
LEMMA Shapes ==
    ASSUME NEW r \in Request
    PROVE  /\ r.pc \in {"insert", "save", "remove", "rollBackInsert", "rollBackSave"}
                 => r \in NarrowRequest /\ ~r.wide
           /\ r.pc \in {"meshSave", "meshList", "meshRemove", "rollBackMesh"}
                 => r \in WideRequest /\ r.wide /\ r.row.mesh \in Mesh
           /\ r.wide \in BOOLEAN
           /\ IF r.wide THEN r \in WideRequest ELSE r \in NarrowRequest
  BY DEF Request, NarrowRequest, WideRequest

\* Where a request goes next is all that changes about it.
LEMMA Moved ==
    ASSUME NEW r \in Request, NEW s, NEW pc, s = [r EXCEPT !.pc = pc],
           IF r.wide THEN pc \in {"publish", "meshSave", "meshList", "meshRemove", "rollBackMesh"}
           ELSE pc \in {"publish", "insert", "save", "remove", "rollBackInsert", "rollBackSave"}
    PROVE  /\ s \in Request /\ s.pc = pc
           /\ s.wide = r.wide /\ s.id = r.id /\ s.row = r.row /\ s.was = r.was
           /\ s.todo = r.todo /\ s.then = r.then /\ s.otherwise = r.otherwise
           /\ s.psk = r.psk /\ s.clean = r.clean
<1>1. CASE r \in NarrowRequest
  BY <1>1 DEF Request, NarrowRequest
<1>2. CASE r \in WideRequest
  BY <1>2 DEF Request, WideRequest
<1> QED BY <1>1, <1>2 DEF Request

\* A request that goes on to another step keeps what it read and has still to publish.
LEMMA Continued ==
    ASSUME IInv, NEW w \in Worker, Active(w), NEW pc, Continue(w, pc),
           \/ pc \in {"answer", "raise"}
           \/ IF req[w].wide
              THEN pc \in {"publish", "meshSave", "meshList", "meshRemove", "rollBackMesh"}
              ELSE pc \in {"publish", "insert", "save", "remove", "rollBackInsert", "rollBackSave"}
    PROVE  /\ req' = [req EXCEPT ![w] = req'[w]]
           /\ \/ pc \in {"answer", "raise"} /\ req'[w] = Idle
              \/ /\ pc \notin {"answer", "raise"} /\ req'[w] \in Request /\ req'[w].pc = pc
                 /\ req'[w].id = req[w].id /\ req'[w].row = req[w].row /\ req'[w].was = req[w].was
                 /\ req'[w].todo = req[w].todo /\ req'[w].otherwise = req[w].otherwise
                 /\ req'[w].then = req[w].then /\ SameScope(req'[w], req[w])
<1>1. req[w] \in Request /\ req \in [Worker -> Request \cup {Idle}]
  BY RequestFacts DEF IInv, Types
<1>2. req' = [req EXCEPT ![w] = req'[w]]
  BY <1>1 DEF Continue
<1>3. CASE pc \in {"answer", "raise"}
  BY <1>1, <1>2, <1>3 DEF Continue
<1>4. CASE pc \notin {"answer", "raise"}
  <2>1. req'[w] = [req[w] EXCEPT !.pc = pc]
    BY <1>1, <1>4 DEF Continue
  <2> QED BY <1>1, <1>2, <1>4, <2>1, Moved DEF SameScope
<1> QED BY <1>3, <1>4

\* A request whose row was inserted ends, or publishes with the id of the row.
LEMMA Inserted ==
    ASSUME IInv, NEW w \in Worker, req[w].pc = "insert", NEW i \in Row,
           req' = [req EXCEPT ![w] =
                      IF @.todo = {} THEN Idle ELSE [@ EXCEPT !.pc = "publish", !.id = i]]
    PROVE  /\ req' = [req EXCEPT ![w] = req'[w]]
           /\ \/ req'[w] = Idle
              \/ /\ req'[w] \in Request /\ req'[w].pc = "publish" /\ req'[w].id = i
                 /\ req'[w].was = req[w].was /\ req'[w].todo = req[w].todo
                 /\ req'[w].then = req[w].then /\ req'[w].otherwise = req[w].otherwise
                 /\ SameScope(req'[w], req[w])
<1>1. req \in [Worker -> Request \cup {Idle}] /\ req[w] \in NarrowRequest
  BY RequestFacts, Shapes DEF IInv, Types, Active
<1>2. req' = [req EXCEPT ![w] = req'[w]]
  BY <1>1
<1>3. CASE req[w].todo = {}
  BY <1>1, <1>3
<1>4. CASE req[w].todo # {}
  <2>1. req'[w] = [req[w] EXCEPT !.pc = "publish", !.id = i]
    BY <1>1, <1>4
  <2> QED BY <1>1, <1>2, <2>1 DEF Request, NarrowRequest, SameScope
<1> QED BY <1>2, <1>3, <1>4

\* A request that has listed the gateways of its mesh ends, or publishes to them.
LEMMA Listed ==
    ASSUME IInv, NEW w \in Worker, req[w].pc = "meshList", NEW todo \in SUBSET Event,
           req' = [req EXCEPT ![w] =
                      IF todo = {} THEN Idle
                      ELSE [@ EXCEPT !.pc = "publish", !.todo = todo, !.then = "answer"]]
    PROVE  /\ req' = [req EXCEPT ![w] = req'[w]]
           /\ \/ req'[w] = Idle
              \/ /\ req'[w] \in Request /\ req'[w].pc = "publish" /\ req'[w].id = req[w].id
                 /\ req'[w].was = req[w].was /\ req'[w].todo = todo
                 /\ req'[w].then = "answer" /\ req'[w].otherwise = req[w].otherwise
                 /\ SameScope(req'[w], req[w])
<1>1. req \in [Worker -> Request \cup {Idle}] /\ req[w] \in WideRequest
  BY RequestFacts, Shapes DEF IInv, Types, Active
<1>2. req' = [req EXCEPT ![w] = req'[w]]
  BY <1>1
<1>3. CASE todo = {}
  BY <1>1, <1>3
<1>4. CASE todo # {}
  <2>1. req'[w] = [req[w] EXCEPT !.pc = "publish", !.todo = todo, !.then = "answer"]
    BY <1>1, <1>4
  <2> QED BY <1>1, <1>2, <2>1 DEF Request, WideRequest, SameScope
<1> QED BY <1>2, <1>3, <1>4

\* A request that has less to publish is otherwise as it was.
LEMMA Trimmed ==
    ASSUME NEW r \in Request, NEW todo, todo \subseteq r.todo,
           NEW s, s = [r EXCEPT !.todo = todo]
    PROVE  /\ s \in Request /\ s.todo = todo
           /\ s.pc = r.pc /\ s.wide = r.wide /\ s.id = r.id /\ s.row = r.row
           /\ s.was = r.was /\ s.then = r.then /\ s.otherwise = r.otherwise
           /\ s.psk = r.psk /\ s.clean = r.clean
<1>1. CASE r \in NarrowRequest
  BY <1>1 DEF Request, NarrowRequest
<1>2. CASE r \in WideRequest
  BY <1>2 DEF Request, WideRequest
<1> QED BY <1>1, <1>2 DEF Request

\* What a request does once e is published.
Onward(r, e) ==
    IF r.todo # {e} THEN [r EXCEPT !.todo = r.todo \ {e}]
    ELSE IF r.then = "answer" THEN Idle
    ELSE [r EXCEPT !.todo = {}, !.pc = r.then]

\* It goes on with the other events, or to its end.
LEMMA OnwardFacts ==
    ASSUME NEW r \in Request, r.pc = "publish", NEW e
    PROVE  \/ Onward(r, e) = Idle
           \/ /\ Onward(r, e) \in Request /\ Onward(r, e).todo \subseteq r.todo
              /\ Onward(r, e).pc \in {"publish", "remove", "meshList", "meshRemove"}
              /\ Onward(r, e).pc \in {"publish", r.then}
              /\ Onward(r, e).id = r.id /\ Onward(r, e).was = r.was
              /\ Onward(r, e).then = r.then /\ Onward(r, e).otherwise = r.otherwise
              /\ SameScope(Onward(r, e), r)
<1> DEFINE rest == r.todo \ {e}
<1>1. rest \subseteq r.todo
  OBVIOUS
<1>2. Onward(r, e) \in {[r EXCEPT !.todo = rest], Idle, [r EXCEPT !.todo = {}, !.pc = r.then]}
      /\ (r.then = "answer" => Onward(r, e) \in {[r EXCEPT !.todo = rest], Idle})
  BY DEF Onward
<1> HIDE DEF rest
<1>3. CASE Onward(r, e) = [r EXCEPT !.todo = rest]
  <2> DEFINE left == [r EXCEPT !.todo = rest]
  <2>1. /\ left \in Request /\ left.todo = rest /\ left.pc = r.pc /\ SameScope(left, r)
        /\ left.id = r.id /\ left.was = r.was /\ left.then = r.then
        /\ left.otherwise = r.otherwise
    BY <1>1, Trimmed DEF SameScope
  <2> HIDE DEF left
  <2>2. Onward(r, e) = left
    BY <1>3 DEF left
  <2> QED BY <1>1, <2>1, <2>2
<1>4. CASE r.then # "answer" /\ Onward(r, e) = [r EXCEPT !.todo = {}, !.pc = r.then]
  <2> DEFINE left == [r EXCEPT !.todo = {}]
             next == [left EXCEPT !.pc = r.then]
  <2>1. /\ left \in Request /\ left.todo = {} /\ SameScope(left, r)
        /\ left.id = r.id /\ left.was = r.was /\ left.then = r.then
        /\ left.otherwise = r.otherwise
    BY Trimmed DEF SameScope
  <2>2. IF left.wide THEN r.then \in {"meshList", "meshRemove"} ELSE r.then = "remove"
    BY <1>4, <2>1, Shapes DEF NarrowRequest, WideRequest
  <2>3. Onward(r, e) = next
    BY <1>4
  <2> HIDE DEF left
  <2>4. /\ next \in Request /\ next.pc = r.then /\ SameScope(next, left)
        /\ next.id = left.id /\ next.was = left.was /\ next.todo = left.todo
        /\ next.then = left.then /\ next.otherwise = left.otherwise
    BY <2>1, <2>2, Moved DEF SameScope
  <2> HIDE DEF next
  <2> QED BY <2>1, <2>2, <2>3, <2>4 DEF SameScope
<1> QED BY <1>2, <1>3, <1>4

\* So does the request of w, whatever it published.
LEMMA Published ==
    ASSUME IInv, NEW w \in Worker, Publish(w)
    PROVE  /\ req' = [req EXCEPT ![w] = req'[w]]
           /\ \/ req'[w] = Idle
              \/ /\ req'[w] \in Request /\ req'[w].todo \subseteq req[w].todo
                 /\ req'[w].pc \in {"publish", "remove", "meshList", "meshRemove"}
                 /\ req'[w].pc \in {"publish", req[w].then}
                 /\ req'[w].id = req[w].id /\ req'[w].was = req[w].was
                 /\ req'[w].then = req[w].then /\ req'[w].otherwise = req[w].otherwise
                 /\ SameScope(req'[w], req[w])
<1>1. req \in [Worker -> Request \cup {Idle}] /\ req[w] \in Request /\ req[w].pc = "publish"
  BY RequestFacts DEF IInv, Types, Active, Publish
<1>2. PICK e \in Publishable(w) : req' = [req EXCEPT ![w] = Onward(req[w], e)]
  BY DEF Publish, Onward
<1>3. req'[w] = Onward(req[w], e) /\ req' = [req EXCEPT ![w] = req'[w]]
  BY <1>1, <1>2
<1> QED BY <1>1, <1>3, OnwardFacts

\* A request that ends.
LEMMA Answered ==
    ASSUME IInv, NEW w \in Worker, Answer(w)
    PROVE  req' = [req EXCEPT ![w] = req'[w]] /\ req'[w] = Idle /\ ~Active(w)'
  BY DEF Answer, IInv, Types, Active, Idle

-----------------------------------------------------------------------------
\* The row is inserted: from here on what it registers is granted.
LEMMA InsertStep ==
    ASSUME IInv, NEW w \in Worker, Insert(w)
    PROVE  IInv'
<1>1. Active(w) /\ req[w].pc = "insert" /\ UNCHANGED <<keys, late, meshes, psk>>
  BY DEF Insert, Active, kafka, db
<1>2. req[w] \in NarrowRequest /\ req[w] \in Request /\ req[w].row \in DeviceRow
  BY <1>1, RequestFacts, Shapes DEF IInv, NarrowRequest
<1>3. Types
  BY DEF IInv
<1>4. CASE Answer(w) /\ UNCHANGED <<db, granted>>
  <2>1. rows' = rows /\ granted' = granted
    BY <1>4 DEF db
  <2>2. req' = [req EXCEPT ![w] = req'[w]] /\ req'[w] = Idle /\ ~Active(w)'
    BY <1>4, Answered
  <2> QED BY <1>1, <1>3, <2>1, <2>2, KafkaKept, StepOfRequest DEF Types, Holds
<1>5. ASSUME NEW i \in Row \ (Occupied \cup {req[v].id : v \in {v \in Worker : Active(v)}}),
             rows' = [rows EXCEPT ![i] = req[w].row],
             req' = [req EXCEPT ![w] =
                        IF @.todo = {} THEN Idle ELSE [@ EXCEPT !.pc = "publish", !.id = i]],
             granted' = granted \cup Granted(req[w].row)
      PROVE  IInv'
  <2>1. req \in [Worker -> Request \cup {Idle}] /\ rows \in [Row -> DeviceRow \cup {NoRow}]
    BY <1>3 DEF Types
  <2>2. req' = [req EXCEPT ![w] = req'[w]]
    BY <1>1, <1>5, Inserted
  <2>3. \A v \in Worker : Active(v) => req[v].id # i
    BY <1>5
  <2>4. \/ req'[w] = Idle
        \/ /\ req'[w] \in Request /\ req'[w].row = req[w].row /\ req'[w].id = i
           /\ req'[w].pc = "publish" /\ req'[w].todo = req[w].todo
           /\ req'[w].was = req[w].was /\ req'[w].otherwise = req[w].otherwise
    BY <1>1, <1>5, Inserted DEF SameScope
  <2>5. EventsGranted(req[w], granted) /\ UndoGranted(req[w], granted)
    BY <1>1 DEF IInv, RequestsGranted
  <2>6. req'[w] # Idle => EventsGranted(req'[w], granted')
    BY <1>1, <1>5, <2>4, <2>5 DEF EventsGranted
  <2>7. req'[w] # Idle => UndoGranted(req'[w], granted')
    BY <1>1, <1>5, <2>4, <2>5 DEF UndoGranted
  <2>8. rows' \in [Row -> DeviceRow \cup {NoRow}]
    BY <1>2, <1>5, <2>1
  <2>9. ASSUME NEW j \in Row
        PROVE  \/ rows'[j] = NoRow
               \/ rows'[j] = rows[j] /\ (Holds(w, j)' => Holds(w, j))
               \/ /\ Granted(rows'[j]) \subseteq granted'
                  /\ \A v \in Worker : Holds(v, j)' => Same(rows'[j], req[v].row)
    <3>1. CASE j = i
      <4>1. rows'[j] = req[w].row
        BY <1>5, <2>1, <3>1
      <4>2. \A v \in Worker : Holds(v, j)' => v = w
        BY <2>1, <2>2, <2>3, <3>1 DEF Holds, Active
      <4> QED BY <1>5, <4>1, <4>2 DEF Same
    <3>2. CASE j # i
      BY <1>5, <2>1, <2>4, <3>2 DEF Holds, Active, Idle
    <3> QED BY <3>1, <3>2
  <2>10. granted \subseteq granted'
    BY <1>5
  <2>11. meshes' \subseteq Mesh /\ psk' \in [Mesh -> Psk] /\ late' \subseteq late
    BY <1>1, <1>3 DEF Types
  <2> QED
    BY <1>1, <2>2, <2>3, <2>4, <2>6, <2>7, <2>8, <2>9, <2>10, <2>11, KafkaKept, StepOfRequest
<1> QED BY <1>4, <1>5 DEF Insert

\* The row is written: the requests that have read it are about the same device.
LEMMA SaveStep ==
    ASSUME IInv, NEW w \in Worker, Save(w)
    PROVE  IInv'
<1>1. Active(w) /\ req[w].pc = "save" /\ UNCHANGED <<keys, late, meshes, psk>>
  BY DEF Save, Active, kafka, db
<1>2. req[w] \in NarrowRequest /\ ~req[w].wide /\ req[w].row \in DeviceRow
  BY <1>1, RequestFacts, Shapes DEF IInv, NarrowRequest
<1>3. Types
  BY DEF IInv
<1>4. CASE Answer(w) /\ UNCHANGED <<db, granted>>
  <2>1. rows' = rows /\ granted' = granted
    BY <1>4 DEF db
  <2>2. req' = [req EXCEPT ![w] = req'[w]] /\ req'[w] = Idle /\ ~Active(w)'
    BY <1>4, Answered
  <2> QED BY <1>1, <1>3, <2>1, <2>2, KafkaKept, StepOfRequest DEF Types, Holds
<1>5. CASE /\ rows' = [rows EXCEPT ![req[w].id] = req[w].row]
           /\ Continue(w, IF req[w].todo = {} THEN "answer" ELSE "publish")
           /\ granted' = granted \cup Granted(req[w].row)
  <2> DEFINE pc == IF req[w].todo = {} THEN "answer" ELSE "publish"
  <2>1. Continue(w, pc) /\ pc \in {"answer", "publish"}
    BY <1>5
  <2> HIDE DEF pc
  <2>2. /\ req' = [req EXCEPT ![w] = req'[w]]
        /\ \/ req'[w] = Idle
           \/ /\ req'[w] \in Request /\ req'[w].pc = "publish"
              /\ req'[w].id = req[w].id /\ req'[w].row = req[w].row /\ req'[w].was = req[w].was
              /\ req'[w].todo = req[w].todo /\ req'[w].otherwise = req[w].otherwise
    BY <1>1, <1>2, <2>1, Continued
  <2>3. EventsGranted(req[w], granted) /\ UndoGranted(req[w], granted)
    BY <1>1 DEF IInv, RequestsGranted
  <2>4. req'[w] # Idle => EventsGranted(req'[w], granted')
    BY <1>1, <1>5, <2>2, <2>3 DEF EventsGranted
  <2>5. req'[w] # Idle => UndoGranted(req'[w], granted')
    BY <1>1, <1>5, <2>2, <2>3 DEF UndoGranted
  <2>6. rows' \in [Row -> DeviceRow \cup {NoRow}] /\ rows \in [Row -> DeviceRow \cup {NoRow}]
    BY <1>2, <1>3, <1>5 DEF Types
  <2>7. \A v \in Worker : Active(v)' => Active(v) /\ req'[v].id = req[v].id
    BY <1>1, <1>3, <2>2 DEF Active, Idle, Types
  <2>8. ASSUME NEW j \in Row
        PROVE  \/ rows'[j] = NoRow
               \/ rows'[j] = rows[j] /\ (Holds(w, j)' => Holds(w, j))
               \/ /\ Granted(rows'[j]) \subseteq granted'
                  /\ \A v \in Worker : Holds(v, j)' => Same(rows'[j], req[v].row)
    <3>1. CASE j = req[w].id
      <4>1. rows'[j] = req[w].row
        BY <1>5, <2>6, <3>1
      <4>2. \A v \in Worker : Holds(v, j)' => Same(req[w].row, req[v].row)
        BY <1>1, <2>7, <3>1 DEF Holds, IInv, RequestIdentity
      <4> QED BY <1>5, <4>1, <4>2
    <3>2. CASE j # req[w].id
      BY <1>5, <2>6, <2>7, <3>2 DEF Holds
    <3> QED BY <3>1, <3>2
  <2>9. granted \subseteq granted'
    BY <1>5
  <2>10. meshes' \subseteq Mesh /\ psk' \in [Mesh -> Psk] /\ late' \subseteq late
    BY <1>1, <1>3 DEF Types
  <2> QED
    BY <1>1, <2>2, <2>4, <2>5, <2>6, <2>8, <2>9, <2>10, KafkaKept, StepOfRequest
<1> QED BY <1>4, <1>5 DEF Save

\* A request that ends and grants nothing.
LEMMA LastStep ==
    ASSUME IInv, NEW w \in Worker, Active(w), Answer(w),
           granted' = granted, keys' = keys,
           late' \subseteq Event, LateGranted',
           meshes' \subseteq Mesh, psk' \in [Mesh -> Psk],
           rows' \in [Row -> DeviceRow \cup {NoRow}],
           \A i \in Row :
              \/ rows'[i] = NoRow \/ rows'[i] = rows[i]
              \/ /\ Granted(rows'[i]) \subseteq granted
                 /\ \A v \in Worker : Holds(v, i) => Same(rows'[i], req[v].row)
    PROVE  IInv'
<1>1. req' = [req EXCEPT ![w] = req'[w]] /\ req'[w] = Idle /\ ~Active(w)'
  BY Answered
<1>2. \A v \in Worker, i \in Row : Holds(v, i)' => v # w /\ Holds(v, i)
  BY <1>1 DEF Holds, Active, IInv, Types
<1>3. keys' \in [Device -> Entry \cup {Unknown}] /\ OnlyGrantedAreDecoded'
  BY DEF IInv, Types, OnlyGrantedAreDecoded
<1> QED BY <1>1, <1>2, <1>3, StepOfRequest

\* A request that ends: what it removes, what it rolls back.
LEMMA EndSteps ==
    ASSUME IInv, NEW w \in Worker,
           Remove(w) \/ RollBackSave(w) \/ RollBackMesh(w) \/ RemoveMesh(w) \/ Crash(w)
    PROVE  IInv'
<1>1. /\ Active(w) /\ Answer(w) /\ UNCHANGED <<keys, late, granted>>
  BY DEF Remove, RollBackSave, RollBackMesh, RemoveMesh, Crash, Active, kafka, db
<1>2. /\ meshes \subseteq Mesh /\ psk \in [Mesh -> Psk]
      /\ rows \in [Row -> DeviceRow \cup {NoRow}]
  BY DEF IInv, Types
<1>3. late' \subseteq Event /\ LateGranted'
  BY <1>1, KafkaKept
<1>4. req[w] \in Request
  BY <1>1, RequestFacts DEF IInv
<1>5. CASE Remove(w)
  BY <1>1, <1>2, <1>3, <1>5, LastStep DEF Remove
<1>6. CASE RollBackMesh(w)
  <2>1. req[w].was \in Psk
    BY <1>4, <1>6, Shapes DEF RollBackMesh, WideRequest
  <2>2. psk' \in [Mesh -> Psk]
    BY <1>2, <1>6, <2>1 DEF RollBackMesh
  <2> QED BY <1>1, <1>2, <1>3, <1>6, <2>2, LastStep DEF RollBackMesh
<1>7. CASE RemoveMesh(w)
  BY <1>1, <1>2, <1>3, <1>7, LastStep DEF RemoveMesh
<1>8. CASE Crash(w)
  BY <1>1, <1>2, <1>3, <1>8, LastStep DEF Crash, db
<1>9. CASE RollBackSave(w)
  <2> DEFINE id == req[w].id
  <2>1. req[w].was \in DeviceRow /\ Same(req[w].was, req[w].row) /\ Granted(req[w].was) \subseteq granted
    BY <1>1, <1>9 DEF RollBackSave, IInv, RequestsGranted, UndoGranted
  <2>2. CASE rows' = rows
    BY <1>1, <1>2, <1>3, <1>9, <2>2, LastStep DEF RollBackSave
  <2>3. CASE rows[id] # NoRow /\ rows' = [rows EXCEPT ![id].allowed = req[w].was.allowed]
    <3>1. \A i \in Row : i # id => rows'[i] = rows[i]
      BY <1>2, <2>3
    <3>2. ASSUME id \in Row
          PROVE  /\ rows[id] \in DeviceRow /\ Same(rows[id], req[w].row)
                 /\ rows'[id] \in DeviceRow /\ Same(rows'[id], rows[id])
                 /\ rows'[id].allowed = req[w].was.allowed
      <4>1. rows[id] \in DeviceRow
        BY <1>2, <2>3, <3>2
      <4>2. Same(rows[id], req[w].row)
        BY <1>1, <2>3, <3>2 DEF IInv, RowIdentity, Holds
      <4>3. rows'[id] = [rows[id] EXCEPT !.allowed = req[w].was.allowed]
        BY <1>2, <2>3, <3>2
      <4> QED BY <2>1, <4>1, <4>2, <4>3 DEF DeviceRow, Same
    <3>3. rows' \in [Row -> DeviceRow \cup {NoRow}]
      <4>1. rows' = [i \in Row |-> rows'[i]]
        BY <1>2, <2>3
      <4>2. \A i \in Row : rows'[i] \in DeviceRow \cup {NoRow}
        BY <1>2, <3>1, <3>2
      <4> QED BY <4>1, <4>2
    <3>4. ASSUME NEW i \in Row, i = id
          PROVE  /\ Granted(rows'[i]) \subseteq granted
                 /\ \A v \in Worker : Holds(v, i) => Same(rows'[i], req[v].row)
      <4>1. Granted(rows'[i]) = Granted(req[w].was)
        BY <2>1, <3>2, <3>4 DEF Granted, Same
      <4>2. \A v \in Worker : Holds(v, i) => Same(rows[i], req[v].row)
        BY <2>3, <3>4 DEF IInv, RowIdentity
      <4> QED BY <2>1, <3>2, <3>4, <4>1, <4>2 DEF Same
    <3> QED BY <1>1, <1>2, <1>3, <1>9, <3>1, <3>3, <3>4, LastStep DEF RollBackSave
  <2> QED BY <1>9, <2>2, <2>3 DEF RollBackSave
<1> QED BY <1>5, <1>6, <1>7, <1>8, <1>9

\* The mesh is saved, and the gateways to send its key to are listed.
LEMMA MeshSteps ==
    ASSUME IInv, NEW w \in Worker, SaveMesh(w) \/ ListGateways(w)
    PROVE  IInv'
<1>1. /\ Active(w) /\ UNCHANGED <<rows, keys, late, granted>>
      /\ req[w].pc \in {"meshSave", "meshList"}
  BY DEF SaveMesh, ListGateways, Active, kafka, db
<1>2. req[w] \in WideRequest /\ req[w] \in Request /\ req[w].wide /\ req[w].row.mesh \in Mesh
  BY <1>1, RequestFacts, Shapes DEF IInv
<1>3. /\ meshes \subseteq Mesh /\ psk \in [Mesh -> Psk]
      /\ rows \in [Row -> DeviceRow \cup {NoRow}]
      /\ req \in [Worker -> Request \cup {Idle}]
  BY DEF IInv, Types
<1>4. EventsGranted(req[w], granted) /\ UndoGranted(req[w], granted)
  BY <1>1 DEF IInv, RequestsGranted
<1>5. CASE SaveMesh(w)
  <2>1. req[w].then \in {"answer", "meshList", "meshRemove"} /\ req[w].psk \in Psk
    BY <1>2 DEF WideRequest
  <2>2. /\ req' = [req EXCEPT ![w] = req'[w]]
        /\ \/ req'[w] = Idle
           \/ /\ req'[w] \in Request /\ req'[w].pc \in {"meshList", "meshRemove"}
              /\ req'[w].id = req[w].id /\ req'[w].row = req[w].row /\ req'[w].was = req[w].was
              /\ req'[w].todo = req[w].todo /\ req'[w].otherwise = req[w].otherwise
    BY <1>1, <1>2, <1>5, <2>1, Continued DEF SaveMesh
  <2>3. req'[w] # Idle => EventsGranted(req'[w], granted) /\ UndoGranted(req'[w], granted)
    BY <1>1, <1>4, <1>5, <2>2 DEF SaveMesh, EventsGranted, UndoGranted
  <2>4. meshes' \subseteq Mesh /\ psk' \in [Mesh -> Psk]
    BY <1>2, <1>3, <1>5, <2>1 DEF SaveMesh
  <2>5. \A i \in Row : Holds(w, i)' => Holds(w, i)
    BY <1>1, <2>2 DEF Holds, Active, Idle
  <2> QED BY <1>1, <1>3, <2>2, <2>3, <2>4, <2>5, KafkaKept, StepOfRequest
<1>6. CASE ListGateways(w)
  <2> DEFINE todo == {Upsert(rows[i], req[w].psk) : i \in AllowedGateways(req[w].row.mesh)}
  <2>1. req[w].psk \in Psk
    BY <1>2 DEF WideRequest
  <2>2. todo \subseteq Event /\ \A e \in todo : Sound(e, granted)
    <3>1. ASSUME NEW i \in AllowedGateways(req[w].row.mesh)
          PROVE  Upsert(rows[i], req[w].psk) \in Event /\ Sound(Upsert(rows[i], req[w].psk), granted)
      <4>1. i \in Occupied /\ rows[i].gateway /\ rows[i].allowed /\ rows[i] \in DeviceRow
        BY <1>3 DEF AllowedGateways, RowsOf, Occupied
      <4>2. Granted(rows[i]) \subseteq granted
        BY <4>1 DEF IInv, RowsGranted
      <4>3. granted \cup Granted(rows[i]) = granted
        BY <4>2
      <4> QED BY <2>1, <4>1, <4>3, GrantingEvent
    <3> QED BY <3>1
  <2>3. req' = [req EXCEPT ![w] =
                   IF todo = {} THEN Idle
                   ELSE [@ EXCEPT !.pc = "publish", !.todo = todo, !.then = "answer"]]
    BY <1>6 DEF ListGateways
  <2> HIDE DEF todo
  <2>4. /\ req' = [req EXCEPT ![w] = req'[w]]
        /\ \/ req'[w] = Idle
           \/ /\ req'[w] \in Request /\ req'[w].pc = "publish" /\ req'[w].todo = todo
              /\ req'[w].id = req[w].id /\ req'[w].row = req[w].row
              /\ req'[w].was = req[w].was /\ req'[w].otherwise = req[w].otherwise
    BY <1>6, <2>2, <2>3, Listed DEF ListGateways, SameScope
  <2>5. req'[w] # Idle => EventsGranted(req'[w], granted) /\ UndoGranted(req'[w], granted)
    BY <1>4, <2>2, <2>4 DEF EventsGranted, UndoGranted
  <2>6. \A i \in Row : Holds(w, i)' => Holds(w, i)
    BY <1>1, <2>4 DEF Holds, Active, Idle
  <2>7. UNCHANGED <<meshes, psk>>
    BY <1>6 DEF ListGateways, db
  <2> QED BY <1>1, <1>3, <2>4, <2>5, <2>6, <2>7, KafkaKept, StepOfRequest
<1> QED BY <1>5, <1>6

\* An event is published, and the request goes on or ends.
LEMMA PublishStep ==
    ASSUME IInv, NEW w \in Worker, Publish(w)
    PROVE  IInv'
<1>1. Active(w) /\ req[w].pc = "publish" /\ UNCHANGED <<meshes, psk, rows, late, granted>>
  BY DEF Publish, Active, db
<1>2. PICK e \in Publishable(w) :
        /\ Deliver(e)
        /\ req' = [req EXCEPT ![w] =
                     IF @.todo # {e} THEN [@ EXCEPT !.todo = req[w].todo \ {e}]
                     ELSE IF @.then = "answer" THEN Idle
                     ELSE [@ EXCEPT !.todo = {}, !.pc = req[w].then]]
  BY DEF Publish
<1>3. /\ meshes \subseteq Mesh /\ psk \in [Mesh -> Psk]
      /\ rows \in [Row -> DeviceRow \cup {NoRow}] /\ late \subseteq Event
      /\ req \in [Worker -> Request \cup {Idle}]
  BY DEF IInv, Types
<1>4. req[w] \in Request /\ EventsGranted(req[w], granted) /\ UndoGranted(req[w], granted)
  BY <1>1, RequestFacts DEF IInv, RequestsGranted
<1>5. e \in req[w].todo /\ req[w].todo \subseteq Event
  BY <1>2, <1>4 DEF Publishable, Request, NarrowRequest, WideRequest
<1>6. Sound(e, granted)
  BY <1>1, <1>4, <1>5 DEF EventsGranted
<1>7. keys' \in [Device -> Entry \cup {Unknown}] /\ OnlyGrantedAreDecoded'
  BY <1>1, <1>2, <1>5, <1>6, Delivered
<1>8. /\ req' = [req EXCEPT ![w] = req'[w]]
      /\ \/ req'[w] = Idle
         \/ /\ req'[w] \in Request /\ req'[w].todo \subseteq req[w].todo
            /\ req'[w].pc \in {"publish", "remove", "meshList", "meshRemove"}
            /\ req'[w].id = req[w].id /\ req'[w].row = req[w].row
            /\ req'[w].was = req[w].was /\ req'[w].otherwise = req[w].otherwise
  BY Published DEF SameScope
<1>9. req'[w] # Idle => EventsGranted(req'[w], granted) /\ UndoGranted(req'[w], granted)
  BY <1>1, <1>4, <1>8 DEF EventsGranted, UndoGranted
<1>10. \A i \in Row : Holds(w, i)' => Holds(w, i)
  BY <1>1, <1>8 DEF Holds, Active, Idle
<1>11. LateGranted'
  BY <1>1 DEF IInv, LateGranted
<1> QED BY <1>1, <1>3, <1>7, <1>8, <1>9, <1>10, <1>11, StepOfRequest

\* get() raises: the event is late at most, and what is rolled back was granted.
LEMMA PublishFailsStep ==
    ASSUME IInv, NEW w \in Worker, PublishFails(w)
    PROVE  IInv'
<1>1. /\ Active(w) /\ req[w].pc = "publish" /\ Continue(w, req[w].otherwise)
      /\ UNCHANGED <<meshes, psk, rows, keys, granted>>
  BY DEF PublishFails, Active, db
<1>2. PICK e \in req[w].todo : late' \subseteq late \cup {e}
  BY DEF PublishFails, Publishable
<1>3. /\ meshes \subseteq Mesh /\ psk \in [Mesh -> Psk]
      /\ rows \in [Row -> DeviceRow \cup {NoRow}] /\ late \subseteq Event
      /\ keys \in [Device -> Entry \cup {Unknown}]
  BY DEF IInv, Types
<1>4. req[w] \in Request /\ EventsGranted(req[w], granted) /\ UndoGranted(req[w], granted)
  BY <1>1, RequestFacts DEF IInv, RequestsGranted
<1>5. e \in Event /\ Sound(e, granted)
  BY <1>1, <1>4 DEF EventsGranted, Request, NarrowRequest, WideRequest
<1>6. late' \subseteq Event /\ LateGranted'
  BY <1>1, <1>2, <1>3, <1>5 DEF IInv, LateGranted
<1>7. IF req[w].wide THEN req[w].otherwise \in {"answer", "rollBackMesh"}
      ELSE req[w].otherwise \in {"answer", "raise", "rollBackInsert", "rollBackSave"}
  BY <1>4, Shapes DEF NarrowRequest, WideRequest
<1>8. /\ req' = [req EXCEPT ![w] = req'[w]]
      /\ \/ req'[w] = Idle
         \/ /\ req'[w] \in Request /\ req'[w].pc = req[w].otherwise
            /\ req[w].otherwise \notin {"answer", "raise"}
            /\ req'[w].id = req[w].id /\ req'[w].row = req[w].row /\ req'[w].was = req[w].was
            /\ req'[w].todo = req[w].todo /\ req'[w].otherwise = req[w].otherwise
  <2>1. \/ req[w].otherwise \in {"answer", "raise"}
        \/ IF req[w].wide
           THEN req[w].otherwise
                  \in {"publish", "meshSave", "meshList", "meshRemove", "rollBackMesh"}
           ELSE req[w].otherwise
                  \in {"publish", "insert", "save", "remove", "rollBackInsert", "rollBackSave"}
    BY <1>7
  <2> QED BY <1>1, <2>1, Continued
<1>9. req'[w] # Idle => EventsGranted(req'[w], granted)
  BY <1>1, <1>4, <1>7, <1>8 DEF EventsGranted
<1>10. req'[w] # Idle => UndoGranted(req'[w], granted)
  BY <1>4, <1>8 DEF UndoGranted
<1>11. \A i \in Row : Holds(w, i)' => Holds(w, i)
  BY <1>1, <1>8 DEF Holds, Active, Idle
<1>12. OnlyGrantedAreDecoded'
  BY <1>1 DEF IInv, OnlyGrantedAreDecoded
<1> QED BY <1>1, <1>3, <1>6, <1>8, <1>9, <1>10, <1>11, <1>12, StepOfRequest

\* A late event is an old registration, and may replace a newer one.
LEMMA LateSteps ==
    ASSUME IInv, DeliverLate \/ ExpireLate
    PROVE  IInv'
<1>1. UNCHANGED <<meshes, psk, rows, req, granted>> /\ late' \subseteq late
  BY DEF DeliverLate, ExpireLate, db
<1>2. late' \subseteq Event /\ LateGranted'
  BY <1>1 DEF IInv, Types, LateGranted
<1>3. keys' \in [Device -> Entry \cup {Unknown}] /\ OnlyGrantedAreDecoded'
  <2>1. CASE ExpireLate
    BY <1>1, <2>1, KafkaKept DEF ExpireLate
  <2>2. CASE DeliverLate
    <3>1. PICK e \in late : Deliver(e)
      BY <2>2 DEF DeliverLate
    <3>2. e \in Event /\ Sound(e, granted)
      BY DEF IInv, Types, LateGranted
    <3> QED BY <1>1, <3>1, <3>2, Delivered
  <2> QED BY <2>1, <2>2
<1>4. Types'
  BY <1>1, <1>2, <1>3 DEF IInv, Types
<1>5. RowsGranted' /\ RequestsGranted' /\ RowIdentity' /\ RequestIdentity'
  BY <1>1
  DEF IInv, RowsGranted, Occupied, RequestsGranted, RowIdentity, RequestIdentity, Holds, Active
<1> QED BY <1>2, <1>3, <1>4, <1>5 DEF IInv

\* A node seen on a mesh gets a row no request holds, and registers nothing.
LEMMA SightStep ==
    ASSUME IInv, Sight
    PROVE  IInv'
<1>1. UNCHANGED <<meshes, psk, keys, late, granted>>
  BY DEF Sight, kafka
<1>2. PICK d \in Device, m \in meshes, i \in Row \ Occupied :
        LET row == [dev |-> d, mesh |-> m, gateway |-> FALSE, allowed |-> TRUE] IN
        /\ i \notin {req[w].id : w \in {w \in Worker : Active(w)}}
        /\ rows' = [rows EXCEPT ![i] = row]
        /\ req' = [w \in Worker |->
                     IF Active(w) /\ d \in Touches(req[w]) THEN [req[w] EXCEPT !.clean = FALSE]
                     ELSE req[w]]
  BY DEF Sight
<1> DEFINE row == [dev |-> d, mesh |-> m, gateway |-> FALSE, allowed |-> TRUE]
<1>3. /\ meshes \subseteq Mesh
      /\ rows \in [Row -> DeviceRow \cup {NoRow}]
      /\ req \in [Worker -> Request \cup {Idle}]
  BY DEF IInv, Types
<1>4. row \in DeviceRow /\ Granted(row) = {}
  BY <1>3 DEF DeviceRow, Granted
<1>5. rows' = [rows EXCEPT ![i] = row]
  BY <1>2
<1> HIDE DEF row
<1>6. rows' \in [Row -> DeviceRow \cup {NoRow}] /\ rows'[i] = row
  BY <1>3, <1>4, <1>5
<1>7. ASSUME NEW w \in Worker
      PROVE  /\ req'[w] \in Request \cup {Idle}
             /\ Active(w)' => /\ Active(w)
                              /\ req'[w].id = req[w].id /\ req'[w].row = req[w].row
                              /\ EventsGranted(req'[w], granted) /\ UndoGranted(req'[w], granted)
  <2>1. CASE req'[w] = req[w]
    BY <1>3, <2>1 DEF IInv, RequestsGranted, Active
  <2>2. CASE Active(w) /\ req'[w] = [req[w] EXCEPT !.clean = FALSE]
    <3>1. req[w] \in Request /\ EventsGranted(req[w], granted) /\ UndoGranted(req[w], granted)
      BY <2>2, RequestFacts DEF IInv, RequestsGranted
    <3> QED BY <2>2, <3>1, Unclean
  <2> QED BY <1>2, <2>1, <2>2
<1>8. req' \in [Worker -> Request \cup {Idle}]
  <2>1. req' = [w \in Worker |-> req'[w]]
    BY <1>2
  <2> QED BY <1>7, <2>1
<1>9. Types'
  BY <1>1, <1>6, <1>8 DEF IInv, Types
<1>10. RowsGranted'
  <2> SUFFICES ASSUME NEW j \in Row, rows'[j] # NoRow
               PROVE  Granted(rows'[j]) \subseteq granted
    BY <1>1 DEF RowsGranted, Occupied
  <2>1. CASE j = i
    BY <1>4, <1>6, <2>1
  <2>2. CASE j # i
    BY <1>3, <1>5, <2>2 DEF IInv, RowsGranted, Occupied
  <2> QED BY <2>1, <2>2
<1>11. RequestsGranted'
  BY <1>1, <1>7 DEF RequestsGranted
<1>12. RowIdentity'
  <2> SUFFICES ASSUME NEW v \in Worker, NEW j \in Row, Holds(v, j)', rows'[j] # NoRow
               PROVE  Same(rows'[j], req'[v].row)
    BY DEF RowIdentity
  <2>1. Holds(v, j) /\ req'[v].row = req[v].row
    BY <1>7 DEF Holds
  <2>2. j # i
    BY <1>2, <2>1 DEF Holds
  <2>3. rows'[j] = rows[j]
    BY <1>3, <1>5, <2>2
  <2> QED BY <2>1, <2>3 DEF IInv, RowIdentity
<1>13. RequestIdentity'
  BY <1>7 DEF IInv, RequestIdentity, Holds
<1>14. OnlyGrantedAreDecoded' /\ LateGranted'
  BY <1>1 DEF IInv, OnlyGrantedAreDecoded, LateGranted
<1> QED BY <1>9, <1>10, <1>11, <1>12, <1>13, <1>14 DEF IInv

-----------------------------------------------------------------------------
\* The tables and the topics to start from are consistent.
LEMMA InitIInv == Init => IInv
<1> SUFFICES ASSUME Init PROVE IInv
  OBVIOUS
<1>1. /\ meshes \subseteq Mesh /\ psk \in [Mesh -> Psk]
      /\ rows \in [Row -> DeviceRow \cup {NoRow}]
      /\ late \subseteq Event /\ req \in [Worker -> Request \cup {Idle}]
  BY DEF Init
<1>2. ASSUME NEW d \in Device, Registered(d) # Unknown
      PROVE  \E i \in Occupied : /\ rows[i].dev = d /\ rows[i].gateway /\ rows[i].allowed
                                 /\ Registered(d) = [mesh |-> rows[i].mesh, psk |-> psk[rows[i].mesh]]
  BY <1>2 DEF Registered
<1>3. \A i \in Occupied : Granted(rows[i]) \subseteq granted /\ rows[i] \in DeviceRow
  BY <1>1 DEF Init, Occupied
<1>4. keys \in [Device -> Entry \cup {Unknown}]
  <2>1. \A d \in Device : Registered(d) \in Entry \cup {Unknown}
    BY <1>1, <1>2, <1>3 DEF DeviceRow, Entry
  <2> QED BY <2>1 DEF Init
<1>5. OnlyGrantedAreDecoded
  <2> SUFFICES ASSUME NEW d \in Device, keys[d] # Unknown
               PROVE  <<d, keys[d].mesh>> \in granted
    BY DEF OnlyGrantedAreDecoded
  <2>1. keys[d] = Registered(d)
    BY DEF Init
  <2>2. PICK i \in Occupied : /\ rows[i].dev = d /\ rows[i].gateway /\ rows[i].allowed
                              /\ keys[d].mesh = rows[i].mesh
    BY <1>2, <2>1
  <2> QED BY <1>3, <2>2 DEF Granted
<1>6. \A w \in Worker : ~Active(w)
  BY DEF Init, Active, Idle
<1> QED
  BY <1>1, <1>3, <1>4, <1>5, <1>6
  DEF IInv, Types, RowsGranted, LateGranted, RequestsGranted, RowIdentity, RequestIdentity,
      Holds, Init

\* Every step keeps the invariant.
LEMMA StepIInv == IInv /\ [Next]_vars => IInv'
<1> SUFFICES ASSUME IInv, [Next]_vars PROVE IInv'
  OBVIOUS
<1>1. CASE UNCHANGED vars
  BY <1>1
  DEF vars, db, kafka, IInv, Types, OnlyGrantedAreDecoded, RowsGranted, Occupied, LateGranted,
      RequestsGranted, RowIdentity, RequestIdentity, Holds, Active
<1>2. ASSUME NEW w \in Worker, PostDevice(w) \/ Seed(w) \/ PutDevice(w) \/ DeleteDevice(w)
      PROVE  IInv'
  BY <1>2, DeviceRequests, BeginStep
<1>3. ASSUME NEW w \in Worker, PutMesh(w) \/ DeleteMesh(w) PROVE IInv'
  BY <1>3, MeshRequests, BeginStep
<1>4. ASSUME NEW w \in Worker, Insert(w) PROVE IInv'
  BY <1>4, InsertStep
<1>5. ASSUME NEW w \in Worker, Save(w) PROVE IInv'
  BY <1>5, SaveStep
<1>6. ASSUME NEW w \in Worker,
             Remove(w) \/ RollBackSave(w) \/ RollBackMesh(w) \/ RemoveMesh(w) \/ Crash(w)
      PROVE  IInv'
  BY <1>6, EndSteps
<1>7. ASSUME NEW w \in Worker, SaveMesh(w) \/ ListGateways(w) PROVE IInv'
  BY <1>7, MeshSteps
<1>8. ASSUME NEW w \in Worker, Publish(w) PROVE IInv'
  BY <1>8, PublishStep
<1>9. ASSUME NEW w \in Worker, PublishFails(w) PROVE IInv'
  BY <1>9, PublishFailsStep
<1>10. CASE DeliverLate \/ ExpireLate
  BY <1>10, LateSteps
<1>11. CASE Sight
  BY <1>11, SightStep
<1> QED
  BY <1>1, <1>2, <1>3, <1>4, <1>5, <1>6, <1>7, <1>8, <1>9, <1>10, <1>11, ConnectionLost DEF Next

\* Whatever publish fails, whatever worker is killed and however requests race, the
\* decoder never takes a gateway to be on a mesh where no one registered and allowed it:
\* registry/views.py writes the row before it publishes, reads the gateways a new key goes
\* to from the rows, and rolls a row back only to what it read; an event that
\* kafka_publisher.py gave up and that is delivered late is an old registration.
THEOREM OnlyGrantedDecoded == Spec => []OnlyGrantedAreDecoded
<1>1. IInv => OnlyGrantedAreDecoded
  BY DEF IInv
<1> QED BY InitIInv, StepIInv, <1>1, PTL DEF Spec

-----------------------------------------------------------------------------
(* FailedRequestsUndo: Undoable is an invariant.                             *)

\* Requests that do not disturb each other are separate.
LEMMA Undisturbed ==
    ASSUME NEW p \in Request, NEW q \in Request, ~Disturb(p, q)
    PROVE  Separate(p, q) /\ Separate(q, p)
<1>1. p.wide \in BOOLEAN /\ q.wide \in BOOLEAN
  BY Shapes
<1>2. \A r : ~r.wide => Touches(r) = {r.row.dev}
  BY DEF Touches
<1>3. Meet(p, q) = {} /\ (p.wide /\ q.wide => p.row.mesh # q.row.mesh)
  BY DEF Disturb
<1>4. CASE ~p.wide /\ ~q.wide
  <2>1. Touches(p) \cap Touches(q) = {}
    BY <1>3 DEF Meet
  <2>2. Touches(p) = {p.row.dev} /\ Touches(q) = {q.row.dev}
    BY <1>2, <1>4
  <2>3. p.row.dev # q.row.dev
    BY <2>1, <2>2
  <2> QED BY <1>4, <2>3 DEF Separate
<1>5. CASE p.wide # q.wide
  <2>1. PICK x \in {p, q} : ~x.wide
    BY <1>1, <1>5
  <2>2. x.row.dev \in UNION {Touches(y) : y \in {z \in {p, q} : ~z.wide}}
    BY <1>2, <2>1
  <2>3. p.row.mesh # q.row.mesh
    BY <1>3, <1>5, <2>2 DEF Meet
  <2>4. ~(~p.wide /\ ~q.wide)
    BY <1>1, <1>5
  <2> QED BY <2>3, <2>4 DEF Separate
<1>6. CASE p.wide /\ q.wide
  BY <1>3, <1>6 DEF Separate
<1> QED BY <1>1, <1>4, <1>5, <1>6

\* Rows that go leave the others unique.
LEMMA UniqueStays ==
    ASSUME Unique, \A i \in Row : rows'[i] \in {rows[i], NoRow}
    PROVE  Unique'
<1> SUFFICES ASSUME NEW i \in Row, rows'[i] # NoRow, rows'[i].allowed,
                    NEW j \in Row, j # i, rows'[j] # NoRow,
                    rows'[j].dev = rows'[i].dev, rows'[j].allowed
             PROVE  FALSE
  BY DEF Unique, Taken, Occupied
<1>1. rows'[i] = rows[i] /\ rows'[j] = rows[j]
  OBVIOUS
<1> QED BY <1>1 DEF Unique, Taken, Occupied

\* So does a row that none forbids.
LEMMA UniqueWrite ==
    ASSUME Types, Unique, NEW i \in Row, NEW row \in DeviceRow, ~Taken(row, i),
           rows' = [rows EXCEPT ![i] = row]
    PROVE  Unique'
<1> SUFFICES ASSUME NEW k \in Row, rows'[k] # NoRow, rows'[k].allowed,
                    NEW j \in Row, j # k, rows'[j] # NoRow,
                    rows'[j].dev = rows'[k].dev, rows'[j].allowed
             PROVE  FALSE
  BY DEF Unique, Taken, Occupied
<1>1. rows'[i] = row /\ \A x \in Row : x # i => rows'[x] = rows[x]
  BY DEF Types
<1>2. CASE k = i
  BY <1>1, <1>2 DEF Taken, Occupied
<1>3. CASE j = i
  BY <1>1, <1>3 DEF Taken, Occupied
<1>4. CASE k # i /\ j # i
  BY <1>1, <1>4 DEF Unique, Taken, Occupied
<1> QED BY <1>2, <1>3, <1>4

\* A step of w leaves a request that is separate from it what it relies on.
LEMMA OthersKept ==
    ASSUME IInv, NEW w \in Worker, Active(w), WritesOwn(w),
           NEW v \in Worker, v # w, Active(v), Separate(req[v], req[w]),
           NEW r, r = req[v], Shape(r), Kept(r)
    PROVE  Kept(r)'
<1>1. r \in Request /\ req[w] \in Request /\ Types
  BY RequestFacts DEF IInv
<1>2. CASE r.wide /\ ~req[w].wide
  BY <1>2 DEF Kept, WideKept, WritesOwn
<1>3. CASE r.wide /\ req[w].wide
  <2>1. r.row.mesh \in Mesh /\ r.row.mesh # req[w].row.mesh
    BY <1>1, <1>3, Shapes DEF Separate, WideRequest
  <2>2. /\ psk'[r.row.mesh] = psk[r.row.mesh]
        /\ r.row.mesh \in meshes => r.row.mesh \in meshes'
    BY <1>3, <2>1 DEF WritesOwn
  <2> QED BY <1>3, <2>2 DEF Kept, WideKept
<1>4. ASSUME ~r.wide, r.otherwise \in {"rollBackSave", "answer"}
      PROVE  /\ NarrowKept(r) /\ r.id \in Row /\ r.was \in DeviceRow
             /\ r.row \in DeviceRow /\ r.was.dev = r.row.dev /\ r.was.mesh = r.row.mesh
  <2>1. /\ NarrowKept(r) /\ r.id \in Row /\ r.was \in DeviceRow
        /\ r.was = [r.row EXCEPT !.allowed = r.was.allowed]
    BY <1>4 DEF Kept, Shape
  <2>2. r.row \in DeviceRow
    BY <1>1, <1>4, Shapes DEF NarrowRequest
  <2> QED BY <2>1, <2>2 DEF DeviceRow
<1>5. ASSUME ~r.wide, r.otherwise \in {"rollBackSave", "answer"},
             \/ r.pc = "save" \/ (r.pc = "publish" /\ r.otherwise = "answer")
             \/ r.otherwise = "rollBackSave" /\ r.pc # "save"
      PROVE  rows'[r.id] = rows[r.id]
  <2>1. Holds(v, r.id)
    BY DEF Holds
  <2>2. CASE ~req[w].wide
    <3>1. r.row.dev # req[w].row.dev
      BY <1>5, <2>2 DEF Separate
    <3>2. ~Holds(w, r.id)
      BY <1>4, <1>5, <2>1, <3>1 DEF IInv, RequestIdentity, Same
    <3> QED BY <1>4, <1>5, <2>1, <2>2, <3>2 DEF WritesOwn
  <2>3. CASE req[w].wide
    <3>1. r.row.mesh # req[w].row.mesh
      BY <2>3 DEF Separate
    <3>2. rows[r.id].mesh = r.row.mesh
      BY <1>4, <1>5 DEF NarrowKept
    <3> QED BY <1>4, <1>5, <2>3, <3>1, <3>2 DEF WritesOwn
  <2> QED BY <1>1, <2>2, <2>3, Shapes
<1>6. ASSUME ~r.wide, r.otherwise = "rollBackSave"
      PROVE  ~Taken(r.was, r.id)'
  <2> SUFFICES ASSUME NEW i \in Row, i # r.id, rows'[i] # NoRow, r.was.allowed,
                      rows'[i].dev = r.was.dev, rows'[i].allowed
               PROVE  FALSE
    BY DEF Taken, Occupied
  <2>1. r.was.dev = r.row.dev /\ ~Taken(r.was, r.id)
    BY <1>4, <1>6 DEF NarrowKept
  <2>2. rows'[i] = rows[i]
    <3>1. CASE ~req[w].wide
      BY <1>6, <2>1, <3>1 DEF WritesOwn, Separate
    <3>2. CASE req[w].wide
      BY <3>2 DEF WritesOwn
    <3> QED BY <1>1, <3>1, <3>2, Shapes
  <2> QED BY <2>1, <2>2 DEF Taken, Occupied
<1>7. CASE ~r.wide
  <2>1. r.pc = "save" => r.otherwise = "rollBackSave"
    BY DEF Shape
  <2>2. NarrowKept(r)
    BY <1>7 DEF Kept
  <2>3. /\ r.pc = "save" \/ (r.pc = "publish" /\ r.otherwise = "answer") => rows'[r.id] = r.was
        /\ r.otherwise = "rollBackSave" /\ r.pc # "save" => rows'[r.id] = r.row
    BY <1>5, <1>7, <2>1, <2>2 DEF NarrowKept
  <2> QED BY <1>6, <1>7, <2>3 DEF Kept, NarrowKept
<1> QED BY <1>1, <1>2, <1>3, <1>7, Shapes

\* A step of the request of w keeps Undoable, when it writes its own and leaves the table
\* unique and its own request undoable.
LEMMA StepUndo ==
    ASSUME IInv, Undoable, NEW w \in Worker, Active(w), WritesOwn(w), Unique',
           NEW r, req' = [req EXCEPT ![w] = r],
           r = Idle \/ (SameScope(r, req[w]) /\ Shape(r) /\ (r.clean => Kept(r)'))
    PROVE  Undoable'
<1>1. req'[w] = r /\ \A v \in Worker : v # w => req'[v] = req[v]
  BY DEF IInv, Types
<1>2. \A v \in Worker :
         Active(v)' => /\ Active(v) /\ SameScope(req'[v], req[v])
                       /\ v = w => Shape(r) /\ (r.clean => Kept(r)')
  BY <1>1 DEF Active, Idle, SameScope
<1>3. AllSeparate'
  BY <1>2 DEF Undoable, AllSeparate, Separate, SameScope
<1>4. ASSUME NEW v \in Worker, Active(v)'
      PROVE  Shape(req'[v]) /\ (req'[v].clean => Kept(req[v])')
  <2>1. CASE v = w
    BY <1>1, <1>2, <1>4, <2>1 DEF Kept, WideKept, NarrowKept, Taken, Occupied
  <2>2. CASE v # w
    <3>1. Active(v) /\ req'[v] = req[v]
      BY <1>1, <1>2, <1>4, <2>2
    <3>2. Shape(req[v]) /\ (req[v].clean => Kept(req[v]))
      BY <3>1 DEF Undoable, Settled
    <3>3. ASSUME req[v].clean PROVE Kept(req[v])'
      <4>1. Separate(req[v], req[w])
        BY <2>2, <3>1, <3>3 DEF Undoable, AllSeparate
      <4>2. PICK s : s = req[v]
        OBVIOUS
      <4>3. Kept(s)'
        BY <2>2, <3>1, <3>2, <3>3, <4>1, <4>2, OthersKept
      <4> QED BY <3>1, <4>2, <4>3 DEF Kept, WideKept, NarrowKept, Taken, Occupied
    <3> QED BY <3>1, <3>2, <3>3
  <2> QED BY <2>1, <2>2
<1>5. \A v \in Worker : Settled(v)'
  BY <1>4 DEF Settled, Active
<1> QED BY <1>3, <1>5 DEF Undoable

-----------------------------------------------------------------------------
\* An insert takes a row no request holds, and none that another registration forbids.
LEMMA InsertUndo ==
    ASSUME IInv, Undoable, NEW w \in Worker, Insert(w)
    PROVE  Undoable'
<1>1. Active(w) /\ req[w].pc = "insert" /\ Types
  BY DEF Insert, Active, IInv
<1>2. req[w] \in NarrowRequest /\ ~req[w].wide /\ req[w].row \in DeviceRow
  BY <1>1, RequestFacts, Shapes DEF IInv, NarrowRequest
<1>3. Shape(req[w])
  BY <1>1 DEF Undoable, Settled
<1>4. CASE Answer(w) /\ UNCHANGED <<db, granted>>
  <2>1. UNCHANGED <<meshes, psk, rows>>
    BY <1>4 DEF db
  <2>2. Unique'
    BY <2>1, UniqueStays DEF Undoable
  <2>3. WritesOwn(w)
    BY <1>2, <2>1 DEF WritesOwn
  <2> QED BY <1>1, <1>4, <2>2, <2>3, StepUndo DEF Answer
<1>5. ASSUME NEW i \in Row \ (Occupied \cup {req[v].id : v \in {v \in Worker : Active(v)}}),
             rows' = [rows EXCEPT ![i] = req[w].row],
             req' = [req EXCEPT ![w] =
                        IF @.todo = {} THEN Idle ELSE [@ EXCEPT !.pc = "publish", !.id = i]],
             UNCHANGED <<meshes, psk>>, ~Refused(req[w].row, NoRow)
      PROVE  Undoable'
  <2>1. ~Taken(req[w].row, i)
    BY <1>5 DEF Refused, Taken, Occupied
  <2>2. Unique'
    BY <1>1, <1>2, <1>5, <2>1, UniqueWrite DEF Undoable
  <2>3. \A j \in Row : rows'[j] = rows[j] \/ (j = i /\ rows'[j].dev = req[w].row.dev)
    BY <1>1, <1>5 DEF Types
  <2>4. \A v \in Worker : ~Holds(v, i)
    BY <1>5 DEF Holds
  <2>5. WritesOwn(w)
    BY <1>2, <1>5, <2>3, <2>4 DEF WritesOwn
  <2>6. PICK r : r = req'[w]
    OBVIOUS
  <2>7. /\ req' = [req EXCEPT ![w] = r]
        /\ \/ r = Idle
           \/ /\ r.pc = "publish" /\ r.id = i /\ r.was = req[w].was /\ r.then = req[w].then
              /\ r.otherwise = req[w].otherwise /\ SameScope(r, req[w])
    BY <1>1, <1>5, <2>6, Inserted
  <2>8. r # Idle => Shape(r) /\ Kept(r)'
    BY <1>1, <1>2, <1>3, <2>7 DEF Shape, SameScope, Kept, NarrowKept
  <2> QED BY <1>1, <2>2, <2>5, <2>7, <2>8, StepUndo
<1> QED BY <1>4, <1>5 DEF Insert

\* A save writes the row the request holds, and leaves the way back open.
LEMMA SaveUndo ==
    ASSUME IInv, Undoable, NEW w \in Worker, Save(w)
    PROVE  Undoable'
<1>1. Active(w) /\ req[w].pc = "save" /\ Types
  BY DEF Save, Active, IInv
<1>2. req[w] \in NarrowRequest /\ ~req[w].wide /\ req[w].row \in DeviceRow
  BY <1>1, RequestFacts, Shapes DEF IInv, NarrowRequest
<1>3. /\ Shape(req[w]) /\ req[w].otherwise = "rollBackSave" /\ req[w].id \in Row
      /\ req[w].clean => NarrowKept(req[w])
  BY <1>1, <1>2 DEF Undoable, Settled, Shape, Kept
<1>4. CASE Answer(w) /\ UNCHANGED <<db, granted>>
  <2>1. UNCHANGED <<meshes, psk, rows>>
    BY <1>4 DEF db
  <2>2. Unique'
    BY <2>1, UniqueStays DEF Undoable
  <2>3. WritesOwn(w)
    BY <1>2, <2>1 DEF WritesOwn
  <2> QED BY <1>1, <1>4, <2>2, <2>3, StepUndo DEF Answer
<1>5. CASE /\ ~Refused(req[w].row, req[w].id)
           /\ rows' = [rows EXCEPT ![req[w].id] = req[w].row]
           /\ Continue(w, IF req[w].todo = {} THEN "answer" ELSE "publish")
           /\ UNCHANGED <<meshes, psk>>
  <2> DEFINE pc == IF req[w].todo = {} THEN "answer" ELSE "publish"
  <2>1. Unique'
    BY <1>1, <1>2, <1>3, <1>5, UniqueWrite DEF Undoable, Refused
  <2>2. rows'[req[w].id] = req[w].row /\ \A j \in Row : j # req[w].id => rows'[j] = rows[j]
    BY <1>1, <1>3, <1>5 DEF Types
  <2>3. WritesOwn(w)
    BY <1>1, <1>2, <1>5, <2>2 DEF WritesOwn, Holds
  <2>4. Continue(w, pc) /\ pc \in {"answer", "publish"}
    BY <1>5
  <2> HIDE DEF pc
  <2>5. PICK r : r = req'[w]
    OBVIOUS
  <2>6. /\ req' = [req EXCEPT ![w] = r]
        /\ \/ r = Idle
           \/ /\ r.pc = "publish" /\ r.id = req[w].id /\ r.was = req[w].was
              /\ r.then = req[w].then /\ r.otherwise = req[w].otherwise
              /\ SameScope(r, req[w])
    BY <1>1, <1>2, <2>4, <2>5, Continued
  <2>7. r # Idle => Shape(r)
    BY <1>1, <1>2, <1>3, <2>6 DEF Shape, SameScope
  <2>8. ASSUME r # Idle, r.clean PROVE Kept(r)'
    <3>1. r.id = req[w].id /\ r.was = req[w].was /\ ~Taken(r.was, r.id)
      BY <1>3, <2>6, <2>8 DEF NarrowKept, SameScope
    <3>2. ~Taken(r.was, r.id)'
      BY <2>2, <3>1 DEF Taken, Occupied
    <3> QED BY <1>2, <1>3, <2>2, <2>6, <2>8, <3>2 DEF Kept, NarrowKept, SameScope
  <2> QED BY <1>1, <2>1, <2>3, <2>6, <2>7, <2>8, StepUndo
<1> QED BY <1>4, <1>5 DEF Save

\* A request that ends needs nothing more.
LEMMA LastUndo ==
    ASSUME IInv, Undoable, NEW w \in Worker, Active(w), Answer(w), WritesOwn(w), Unique'
    PROVE  Undoable'
  BY StepUndo DEF Answer

\* What a request that ends removes or rolls back is its own.
LEMMA EndUndo ==
    ASSUME IInv, Undoable, NEW w \in Worker,
           Remove(w) \/ RollBackSave(w) \/ RollBackMesh(w) \/ RemoveMesh(w) \/ Crash(w)
    PROVE  Undoable'
<1>1. Active(w) /\ Answer(w) /\ Types /\ Unique
  BY DEF Remove, RollBackSave, RollBackMesh, RemoveMesh, Crash, Active, IInv, Undoable
<1>2. req[w] \in Request /\ Shape(req[w])
  BY <1>1, RequestFacts DEF Undoable, Settled
<1>3. psk \in [Mesh -> Psk] /\ rows \in [Row -> DeviceRow \cup {NoRow}]
  BY <1>1 DEF Types
<1>4. CASE Remove(w)
  <2>1. /\ rows' = [rows EXCEPT ![req[w].id] = NoRow] /\ UNCHANGED <<meshes, psk>>
        /\ ~req[w].wide
    BY <1>2, <1>4, Shapes DEF Remove
  <2>2. \A i \in Row : rows'[i] = rows[i] \/ (i = req[w].id /\ rows'[i] = NoRow)
    BY <1>3, <2>1
  <2>3. WritesOwn(w)
    BY <1>1, <2>1, <2>2 DEF WritesOwn, Holds
  <2>4. Unique'
    BY <1>1, <2>2, UniqueStays
  <2> QED BY <1>1, <2>3, <2>4, LastUndo
<1>5. CASE RollBackMesh(w)
  <2>1. /\ req[w].wide /\ req[w].row.mesh \in Mesh /\ UNCHANGED <<meshes, rows>>
        /\ psk' = psk \/ psk' = [psk EXCEPT ![req[w].row.mesh] = req[w].was]
    BY <1>2, <1>5, Shapes DEF RollBackMesh
  <2>2. WritesOwn(w)
    BY <1>3, <2>1 DEF WritesOwn
  <2>3. Unique'
    BY <1>1, <2>1, UniqueStays
  <2> QED BY <1>1, <2>2, <2>3, LastUndo
<1>6. CASE RemoveMesh(w)
  <2>1. /\ req[w].wide /\ psk' = psk /\ meshes' = meshes \ {req[w].row.mesh}
        /\ \A i \in Row : IF i \in RowsOf(req[w].row.mesh) THEN rows'[i] = NoRow
                          ELSE rows'[i] = rows[i]
    BY <1>2, <1>6, Shapes DEF RemoveMesh
  <2>2. WritesOwn(w)
    BY <2>1 DEF WritesOwn, RowsOf, Occupied
  <2>3. Unique'
    BY <1>1, <2>1, UniqueStays
  <2> QED BY <1>1, <2>2, <2>3, LastUndo
<1>7. CASE Crash(w)
  <2>1. UNCHANGED <<meshes, psk, rows>>
    BY <1>7 DEF Crash, db
  <2>2. Unique' /\ WritesOwn(w)
    BY <1>1, <2>1, UniqueStays DEF WritesOwn
  <2> QED BY <1>1, <2>2, LastUndo
<1>8. CASE RollBackSave(w)
  <2> DEFINE id == req[w].id
             row == [rows[id] EXCEPT !.allowed = req[w].was.allowed]
  <2>1. ~req[w].wide /\ UNCHANGED <<meshes, psk>> /\ id \in Row
        /\ req[w].was \in DeviceRow /\ req[w].was = [req[w].row EXCEPT !.allowed = req[w].was.allowed]
        /\ req[w].row \in DeviceRow
    BY <1>2, <1>8, Shapes DEF RollBackSave, Shape, NarrowRequest
  <2>2. CASE rows' = rows
    <3>1. Unique' /\ WritesOwn(w)
      BY <1>1, <2>1, <2>2, UniqueStays DEF WritesOwn
    <3> QED BY <1>1, <3>1, LastUndo
  <2>3. CASE /\ rows[id] # NoRow /\ ~Taken(req[w].was, id)
             /\ rows' = [rows EXCEPT ![id].allowed = req[w].was.allowed]
    <3>1. rows[id] \in DeviceRow /\ Same(rows[id], req[w].row)
      BY <1>1, <1>3, <2>1, <2>3 DEF IInv, RowIdentity, Holds
    <3>2. /\ row \in DeviceRow /\ row.dev = req[w].row.dev /\ row.dev = req[w].was.dev
          /\ row.allowed = req[w].was.allowed
      BY <2>1, <3>1 DEF DeviceRow, Same
    <3>3. rows' = [rows EXCEPT ![id] = row]
      BY <2>3
    <3> HIDE DEF row
    <3>4. ~Taken(row, id)
      BY <2>3, <3>2 DEF Taken
    <3>5. Unique'
      BY <1>1, <2>1, <3>2, <3>3, <3>4, UniqueWrite
    <3>6. \A i \in Row : rows'[i] = rows[i] \/ (i = id /\ rows'[i].dev = req[w].row.dev)
      BY <1>3, <2>1, <3>2, <3>3
    <3>7. WritesOwn(w)
      BY <1>1, <2>1, <3>6 DEF WritesOwn, Holds
    <3> QED BY <1>1, <3>5, <3>7, LastUndo
  <2> QED BY <1>8, <2>2, <2>3 DEF RollBackSave
<1> QED BY <1>4, <1>5, <1>6, <1>7, <1>8

\* A request that writes no row and goes on as it must.
LEMMA QuietUndo ==
    ASSUME IInv, Undoable, NEW w \in Worker, Active(w), UNCHANGED <<meshes, psk, rows>>,
           NEW r, req' = [req EXCEPT ![w] = r],
           r = Idle \/ (SameScope(r, req[w]) /\ Shape(r) /\ (Kept(req[w]) => Kept(r)))
    PROVE  Undoable'
<1>1. Unique' /\ WritesOwn(w)
  BY UniqueStays DEF Undoable, WritesOwn
<1>2. r # Idle /\ r.clean => Kept(r)
  BY DEF Undoable, Settled, SameScope
<1>3. r # Idle /\ r.clean => Kept(r)'
  BY <1>2 DEF Kept, WideKept, NarrowKept, Taken, Occupied
<1> QED BY <1>1, <1>3, StepUndo

\* The mesh is saved, and so is there; the gateways are listed.
LEMMA MeshUndo ==
    ASSUME IInv, Undoable, NEW w \in Worker, SaveMesh(w) \/ ListGateways(w)
    PROVE  Undoable'
<1>1. Active(w) /\ Types /\ req[w].pc \in {"meshSave", "meshList"}
  BY DEF SaveMesh, ListGateways, Active, IInv
<1>2. req[w] \in WideRequest /\ req[w].wide /\ req[w].row.mesh \in Mesh
  BY <1>1, RequestFacts, Shapes DEF IInv
<1>3. Shape(req[w]) /\ req[w].otherwise = "rollBackMesh"
  BY <1>1 DEF Undoable, Settled, Shape
<1>4. CASE SaveMesh(w)
  <2>1. /\ meshes' = meshes \cup {req[w].row.mesh} /\ rows' = rows
        /\ psk' = [psk EXCEPT ![req[w].row.mesh] = req[w].psk]
        /\ Continue(w, req[w].then)
    BY <1>4 DEF SaveMesh
  <2>2. WritesOwn(w)
    BY <1>1, <1>2, <2>1 DEF WritesOwn, Types
  <2>3. Unique'
    BY <2>1, UniqueStays DEF Undoable
  <2>4. req[w].then \in {"answer", "meshList", "meshRemove"}
    BY <1>2 DEF WideRequest
  <2>5. PICK r : r = req'[w]
    OBVIOUS
  <2>6. /\ req' = [req EXCEPT ![w] = r]
        /\ \/ r = Idle
           \/ /\ r.pc \in {"meshList", "meshRemove"} /\ r.id = req[w].id /\ r.was = req[w].was
              /\ r.then = req[w].then /\ r.otherwise = req[w].otherwise
              /\ SameScope(r, req[w])
    BY <1>1, <1>2, <2>1, <2>4, <2>5, Continued
  <2>7. r # Idle => Shape(r)
    BY <1>2, <1>3, <2>6 DEF Shape, SameScope
  <2>8. r # Idle => Kept(r)'
    BY <1>2, <1>3, <2>1, <2>6 DEF Kept, WideKept, SameScope
  <2> QED BY <1>1, <2>2, <2>3, <2>6, <2>7, <2>8, StepUndo
<1>5. CASE ListGateways(w)
  <2> DEFINE todo == {Upsert(rows[i], req[w].psk) : i \in AllowedGateways(req[w].row.mesh)}
  <2>1. todo \in SUBSET Event
    <3>1. req[w].psk \in Psk /\ \A i \in AllowedGateways(req[w].row.mesh) : rows[i] \in DeviceRow
      BY <1>1, <1>2, RowFacts DEF WideRequest, AllowedGateways, RowsOf
    <3>2. \A i \in AllowedGateways(req[w].row.mesh) : Upsert(rows[i], req[w].psk) \in Event
      BY <3>1, EventFacts
    <3> QED BY <3>2
  <2>2. /\ req' = [req EXCEPT ![w] =
                     IF todo = {} THEN Idle
                     ELSE [@ EXCEPT !.pc = "publish", !.todo = todo, !.then = "answer"]]
        /\ req[w].pc = "meshList" /\ UNCHANGED <<meshes, psk, rows>>
    BY <1>5 DEF ListGateways, db
  <2> HIDE DEF todo
  <2>3. PICK r : r = req'[w]
    OBVIOUS
  <2>4. /\ req' = [req EXCEPT ![w] = r]
        /\ \/ r = Idle
           \/ /\ r.pc = "publish" /\ r.id = req[w].id /\ r.was = req[w].was
              /\ r.then = "answer" /\ r.otherwise = req[w].otherwise /\ SameScope(r, req[w])
    BY <2>1, <2>2, <2>3, Listed
  <2>5. r # Idle => Shape(r)
    BY <1>2, <1>3, <2>4 DEF Shape, SameScope
  <2>6. r # Idle => (Kept(req[w]) => Kept(r))
    BY <1>2, <1>3, <2>2, <2>4 DEF Kept, WideKept, SameScope
  <2> QED BY <1>1, <2>2, <2>4, <2>5, <2>6, QuietUndo
<1> QED BY <1>4, <1>5

\* A request that publishes, or fails to, writes no row: it goes on, ends or is rolled back.
LEMMA PublishUndo ==
    ASSUME IInv, Undoable, NEW w \in Worker, Publish(w) \/ PublishFails(w)
    PROVE  Undoable'
<1>1. /\ Active(w) /\ Types /\ req[w].pc = "publish" /\ UNCHANGED <<meshes, psk, rows>>
  BY DEF Publish, PublishFails, Active, IInv, db
<1>2. req[w] \in Request /\ Shape(req[w])
  BY <1>1, RequestFacts DEF Undoable, Settled
<1>3. PICK r : r = req'[w]
  OBVIOUS
<1>4. /\ req' = [req EXCEPT ![w] = r]
      /\ \/ r = Idle
         \/ /\ \/ r.pc \in {"publish", "remove", "meshList", "meshRemove"}
                  /\ r.pc \in {"publish", req[w].then}
               \/ /\ r.pc = req[w].otherwise
                  /\ r.pc \in {"rollBackInsert", "rollBackSave", "rollBackMesh"}
            /\ r.id = req[w].id /\ r.was = req[w].was
            /\ r.then = req[w].then /\ r.otherwise = req[w].otherwise /\ SameScope(r, req[w])
  <2>1. CASE Publish(w)
    BY <1>3, <2>1, Published
  <2>2. CASE PublishFails(w)
    <3>1. Continue(w, req[w].otherwise)
      BY <2>2 DEF PublishFails
    <3>2. IF req[w].wide THEN req[w].otherwise \in {"answer", "rollBackMesh"}
          ELSE req[w].otherwise \in {"answer", "raise", "rollBackInsert", "rollBackSave"}
      BY <1>2, Shapes DEF NarrowRequest, WideRequest
    <3> QED BY <1>1, <1>3, <3>1, <3>2, Continued
  <2> QED BY <2>1, <2>2
<1>5. r # Idle => Shape(r)
  BY <1>1, <1>2, <1>4 DEF Shape, SameScope
<1>6. r # Idle => (Kept(req[w]) => Kept(r))
  BY <1>1, <1>4 DEF Kept, WideKept, NarrowKept, SameScope
<1> QED BY <1>1, <1>4, <1>5, <1>6, QuietUndo

-----------------------------------------------------------------------------
\* A request relies on what it is about, and not on whether it is clean.
LEMMA SameRequest ==
    ASSUME NEW r, NEW s, s.pc = r.pc, s.wide = r.wide, s.id = r.id, s.row = r.row,
           s.was = r.was, s.then = r.then, s.otherwise = r.otherwise
    PROVE  (Shape(r) => Shape(s)) /\ (Kept(r) => Kept(s))
  BY DEF Shape, Kept, WideKept, NarrowKept

\* A request that begins says which others it disturbs.
LEMMA BeginUndo ==
    ASSUME IInv, Undoable, NEW w \in Worker, NEW r \in Request, Begin(w, r), Fresh(r)
    PROVE  Undoable'
<1> DEFINE rivals == {v \in Worker : Active(v) /\ Disturb(r, req[v])}
<1>1. /\ UNCHANGED <<meshes, psk, rows>> /\ ~Active(w)
      /\ req' = [v \in Worker |->
                   IF v = w THEN [r EXCEPT !.clean = rivals = {}]
                   ELSE IF v \in rivals THEN [req[v] EXCEPT !.clean = FALSE]
                   ELSE req[v]]
  BY DEF Begin, db
<1>2. \A v \in Worker : Active(v) => v \in rivals \/ ~Disturb(r, req[v])
  OBVIOUS
<1>3. \A v \in rivals : v \in Worker /\ Active(v)
  OBVIOUS
<1> HIDE DEF rivals
<1>4. /\ req'[w] \in Request /\ (req'[w].clean => rivals = {}) /\ req'[w].pc = r.pc
      /\ req'[w].wide = r.wide /\ req'[w].id = r.id /\ req'[w].row = r.row
      /\ req'[w].was = r.was /\ req'[w].then = r.then /\ req'[w].otherwise = r.otherwise
  <2>1. PICK b \in BOOLEAN : (b => rivals = {}) /\ req'[w] = [r EXCEPT !.clean = b]
    BY <1>1
  <2> QED BY <2>1, Unclean
<1>5. ASSUME NEW v \in Worker, v # w, Active(v)'
      PROVE  /\ Active(v) /\ req[v] \in Request /\ req'[v].pc = req[v].pc
             /\ req'[v].wide = req[v].wide /\ req'[v].id = req[v].id
             /\ req'[v].row = req[v].row /\ req'[v].was = req[v].was
             /\ req'[v].then = req[v].then /\ req'[v].otherwise = req[v].otherwise
             /\ req'[v].clean => req[v].clean /\ v \notin rivals
  <2>1. CASE v \in rivals
    <3>1. req'[v] = [req[v] EXCEPT !.clean = FALSE] /\ Active(v) /\ req[v] \in Request
      BY <1>1, <1>3, <1>5, <2>1, RequestFacts DEF IInv
    <3> QED BY <3>1, Unclean
  <2>2. CASE v \notin rivals
    <3>1. req'[v] = req[v]
      BY <1>1, <1>5, <2>2
    <3> QED BY <1>5, <2>2, <3>1, RequestFacts DEF IInv, Active
  <2> QED BY <2>1, <2>2
<1>6. AllSeparate'
  <2> SUFFICES ASSUME NEW u \in Worker, NEW v \in Worker, u # v, Active(u)', Active(v)',
                      req'[u].clean
               PROVE  Separate(req'[u], req'[v])
    BY DEF AllSeparate
  <2>1. CASE u = w
    <3>1. Active(v) /\ req[v] \in Request /\ v \notin rivals
      BY <1>4, <1>5, <2>1
    <3>2. Separate(r, req[v])
      BY <1>2, <3>1, Undisturbed
    <3> QED BY <1>4, <1>5, <2>1, <3>2 DEF Separate
  <2>2. CASE v = w
    <3>1. Active(u) /\ req[u] \in Request /\ u \notin rivals
      BY <1>5, <2>2
    <3>2. Separate(req[u], r)
      BY <1>2, <3>1, Undisturbed
    <3> QED BY <1>4, <1>5, <2>2, <3>2 DEF Separate
  <2>3. CASE u # w /\ v # w
    <3>1. Separate(req[u], req[v])
      BY <1>5, <2>3 DEF Undoable, AllSeparate
    <3> QED BY <1>5, <2>3, <3>1 DEF Separate
  <2> QED BY <2>1, <2>2, <2>3
<1>7. ASSUME NEW v \in Worker, Active(v)'
      PROVE  Shape(req'[v]) /\ (req'[v].clean => Kept(req'[v]))
  <2>1. CASE v = w
    <3>1. Shape(r) /\ Kept(r)
      BY DEF Fresh, Undoable
    <3> QED BY <1>4, <2>1, <3>1, SameRequest
  <2>2. CASE v # w
    <3>1. Shape(req[v]) /\ (req'[v].clean => Kept(req[v]))
      BY <1>5, <1>7, <2>2 DEF Undoable, Settled
    <3> QED BY <1>5, <1>7, <2>2, <3>1, SameRequest
  <2> QED BY <2>1, <2>2
<1>8. \A v \in Worker : Settled(v)'
  BY <1>1, <1>7 DEF Settled, Active, Kept, WideKept, NarrowKept, Taken, Occupied
<1>9. Unique'
  BY <1>1, UniqueStays DEF Undoable
<1> QED BY <1>6, <1>8, <1>9 DEF Undoable

\* A node that is seen disturbs the requests about it, and takes a row that is free.
LEMMA SightUndo ==
    ASSUME IInv, Undoable, Sight
    PROVE  Undoable'
<1>1. PICK d \in Device, m \in meshes, i \in Row \ Occupied :
        LET row == [dev |-> d, mesh |-> m, gateway |-> FALSE, allowed |-> TRUE] IN
        /\ i \notin {req[w].id : w \in {w \in Worker : Active(w)}}
        /\ ~Taken(row, i)
        /\ rows' = [rows EXCEPT ![i] = row]
        /\ req' = [w \in Worker |->
                     IF Active(w) /\ d \in Touches(req[w]) THEN [req[w] EXCEPT !.clean = FALSE]
                     ELSE req[w]]
        /\ UNCHANGED <<meshes, psk>>
  BY DEF Sight
<1> DEFINE row == [dev |-> d, mesh |-> m, gateway |-> FALSE, allowed |-> TRUE]
<1>2. Types /\ row \in DeviceRow /\ row.dev = d
  BY DEF IInv, Types, DeviceRow
<1>3. ~Taken(row, i) /\ rows' = [rows EXCEPT ![i] = row] /\ UNCHANGED <<meshes, psk>>
  BY <1>1
<1> HIDE DEF row
<1>4. rows'[i] = row /\ \A j \in Row : j # i => rows'[j] = rows[j]
  BY <1>2, <1>3 DEF Types
<1>5. Unique'
  BY <1>2, <1>3, UniqueWrite DEF Undoable
<1>6. ASSUME NEW v \in Worker, Active(v)'
      PROVE  /\ Active(v) /\ req[v] \in Request /\ req'[v].pc = req[v].pc
             /\ req'[v].wide = req[v].wide /\ req'[v].id = req[v].id
             /\ req'[v].row = req[v].row /\ req'[v].was = req[v].was
             /\ req'[v].then = req[v].then /\ req'[v].otherwise = req[v].otherwise
             /\ req'[v].clean => req'[v] = req[v] /\ d \notin Touches(req[v])
  <2>1. CASE Active(v) /\ d \in Touches(req[v])
    <3>1. req'[v] = [req[v] EXCEPT !.clean = FALSE] /\ req[v] \in Request
      BY <1>1, <2>1, RequestFacts DEF IInv
    <3> QED BY <2>1, <3>1, Unclean
  <2>2. CASE ~(Active(v) /\ d \in Touches(req[v]))
    <3>1. req'[v] = req[v]
      BY <1>1, <2>2
    <3> QED BY <1>6, <2>2, <3>1, RequestFacts DEF IInv, Active
  <2> QED BY <2>1, <2>2
<1>7. AllSeparate'
  BY <1>6 DEF Undoable, AllSeparate, Separate
<1>8. ASSUME NEW v \in Worker, Active(v)', req'[v].clean, NEW r, r = req[v]
      PROVE  Kept(r)'
  <2>1. Shape(r) /\ Kept(r) /\ r \in Request /\ d \notin Touches(r) /\ r.id # i
    BY <1>1, <1>6, <1>8 DEF Undoable, Settled
  <2>2. CASE r.wide
    BY <1>3, <2>1, <2>2 DEF Kept, WideKept
  <2>3. CASE ~r.wide
    <3>1. /\ NarrowKept(r) /\ r.row.dev # d
          /\ r.otherwise \in {"rollBackSave", "answer"} => r.id \in Row
          /\ r.otherwise = "rollBackSave" =>
                r.was = [r.row EXCEPT !.allowed = r.was.allowed] /\ r.row \in DeviceRow
          /\ r.pc = "save" => r.otherwise = "rollBackSave"
      BY <2>1, <2>3, Shapes DEF Kept, Touches, Shape, NarrowRequest
    <3>2. r.otherwise \in {"rollBackSave", "answer"} => rows'[r.id] = rows[r.id]
      BY <1>4, <2>1, <3>1
    <3>3. ASSUME r.otherwise = "rollBackSave" PROVE ~Taken(r.was, r.id)'
      <4>1. r.was.dev # d /\ ~Taken(r.was, r.id)
        BY <3>1, <3>3 DEF DeviceRow, NarrowKept
      <4> QED BY <1>2, <1>4, <4>1 DEF Taken, Occupied
    <3> QED BY <2>3, <3>1, <3>2, <3>3 DEF Kept, NarrowKept
  <2> QED BY <2>2, <2>3
<1>9. ASSUME NEW v \in Worker PROVE Settled(v)'
  <2> SUFFICES ASSUME Active(v)' PROVE Shape(req'[v]) /\ (req'[v].clean => Kept(req[v])')
    BY DEF Settled, Active
  <2>1. Shape(req'[v])
    <3>1. Shape(req[v])
      BY <1>6 DEF Undoable, Settled
    <3> QED BY <1>6, <3>1, SameRequest
  <2>2. ASSUME req'[v].clean PROVE Kept(req[v])'
    <3>1. PICK r : r = req[v]
      OBVIOUS
    <3>2. Kept(r)' /\ req'[v] = r
      BY <1>6, <1>8, <2>2, <3>1
    <3> QED BY <3>2 DEF Kept, WideKept, NarrowKept, Taken, Occupied
  <2> QED BY <2>1, <2>2
<1> QED BY <1>5, <1>7, <1>9 DEF Undoable

\* To begin with no request is under way, and the table is unique.
LEMMA InitUndoable == Init => Undoable
  BY DEF Init, Undoable, Unique, AllSeparate, Settled, Active, Idle

\* Every step keeps Undoable.
LEMMA StepUndoable == IInv /\ Undoable /\ [Next]_vars => Undoable'
<1> SUFFICES ASSUME IInv, Undoable, [Next]_vars PROVE Undoable'
  OBVIOUS
<1>1. CASE UNCHANGED <<meshes, psk, rows, req>>
  BY <1>1
  DEF Undoable, Unique, AllSeparate, Settled, Active, Kept, WideKept, NarrowKept, Taken, Occupied
<1>2. CASE UNCHANGED vars \/ DeliverLate \/ ExpireLate
  BY <1>1, <1>2 DEF vars, db, DeliverLate, ExpireLate
<1>3. ASSUME NEW w \in Worker,
             \/ PostDevice(w) \/ Seed(w) \/ PutDevice(w) \/ DeleteDevice(w)
             \/ PutMesh(w) \/ DeleteMesh(w)
      PROVE  Undoable'
  BY <1>3, DeviceRequests, MeshRequests, BeginUndo
<1>4. ASSUME NEW w \in Worker, Insert(w) \/ Save(w) PROVE Undoable'
  BY <1>4, InsertUndo, SaveUndo
<1>5. ASSUME NEW w \in Worker,
             Remove(w) \/ RollBackSave(w) \/ RollBackMesh(w) \/ RemoveMesh(w) \/ Crash(w)
      PROVE  Undoable'
  BY <1>5, EndUndo
<1>6. ASSUME NEW w \in Worker, SaveMesh(w) \/ ListGateways(w) PROVE Undoable'
  BY <1>6, MeshUndo
<1>7. ASSUME NEW w \in Worker, Publish(w) \/ PublishFails(w) PROVE Undoable'
  BY <1>7, PublishUndo
<1>8. CASE Sight
  BY <1>8, SightUndo
<1> QED BY <1>2, <1>3, <1>4, <1>5, <1>6, <1>7, <1>8, ConnectionLost DEF Next

\* The faults are counted, so that a step that is one shows.
Counted == faults \in Nat

\* From none.
LEMMA InitCounted == Init => Counted
  BY DEF Init, Counted

\* A step counts one more or none.
LEMMA StepCounted == Counted /\ [Next]_vars => Counted'
<1> SUFFICES ASSUME faults \in Nat, [Next]_vars PROVE faults' \in Nat
  BY DEF Counted
<1>1. CASE UNCHANGED vars \/ DeliverLate \/ ExpireLate \/ Sight
  BY <1>1 DEF vars, bounds, DeliverLate, ExpireLate, Sight
<1>2. ASSUME NEW w \in Worker, NEW r, Begin(w, r) PROVE faults' \in Nat
  BY <1>2 DEF Begin
<1>3. ASSUME NEW w \in Worker, PostDevice(w) \/ Seed(w) \/ PutDevice(w) \/ DeleteDevice(w)
      PROVE  faults' \in Nat
  BY <1>2, <1>3 DEF PostDevice, Seed, PutDevice, DeleteDevice
<1>4. ASSUME NEW w \in Worker, PutMesh(w) \/ DeleteMesh(w) PROVE faults' \in Nat
  BY <1>2, <1>4 DEF PutMesh, DeleteMesh
<1>5. ASSUME NEW w \in Worker,
             \/ Insert(w) \/ Save(w) \/ Remove(w) \/ RollBackSave(w) \/ RollBackMesh(w)
             \/ RemoveMesh(w) \/ SaveMesh(w) \/ ListGateways(w) \/ Publish(w)
      PROVE  faults' \in Nat
  BY <1>5
  DEF bounds, Insert, Save, Remove, RollBackSave, RollBackMesh, RemoveMesh, SaveMesh,
      ListGateways, Publish
<1>6. ASSUME NEW w \in Worker, PublishFails(w) \/ Crash(w) PROVE faults' \in Nat
  BY <1>6 DEF PublishFails, Crash
<1> QED BY <1>1, <1>3, <1>4, <1>5, <1>6, ConnectionLost DEF Next

\* Only its own steps end a request.
LEMMA EndsItself ==
    ASSUME IInv, Next, NEW w \in Worker, Active(w), req'[w].pc = "idle"
    PROVE  \/ Insert(w) \/ Save(w) \/ Remove(w) \/ RollBackSave(w) \/ RollBackMesh(w)
           \/ RemoveMesh(w) \/ SaveMesh(w) \/ ListGateways(w)
           \/ Publish(w) \/ PublishFails(w) \/ Crash(w)
<1>1. req \in [Worker -> Request \cup {Idle}] /\ req[w] \in Request /\ req[w].pc # "idle"
  BY RequestFacts DEF IInv, Types, Active
<1>2. ASSUME NEW b \in BOOLEAN, req'[w] = [req[w] EXCEPT !.clean = b] PROVE FALSE
  <2>1. req'[w].pc = req[w].pc
    BY <1>1, <1>2, Unclean
  <2> QED BY <1>1, <2>1
<1>3. ASSUME NEW v \in Worker, NEW r, Begin(v, r) PROVE FALSE
  <2>1. v # w
    BY <1>3 DEF Begin
  <2>2. req'[w] = req[w] \/ req'[w] = [req[w] EXCEPT !.clean = FALSE]
    BY <1>3, <2>1 DEF Begin
  <2> QED BY <1>1, <1>2, <2>2
<1>4. ASSUME NEW v \in Worker,
             \/ PostDevice(v) \/ Seed(v) \/ PutDevice(v) \/ DeleteDevice(v)
             \/ PutMesh(v) \/ DeleteMesh(v)
      PROVE  FALSE
  BY <1>3, <1>4 DEF PostDevice, Seed, PutDevice, DeleteDevice, PutMesh, DeleteMesh
<1>5. CASE DeliverLate \/ ExpireLate
  BY <1>1, <1>5 DEF DeliverLate, ExpireLate
<1>6. CASE Sight
  <2>1. req'[w] = req[w] \/ req'[w] = [req[w] EXCEPT !.clean = FALSE]
    BY <1>6 DEF Sight
  <2> QED BY <1>1, <1>2, <2>1
<1>7. ASSUME NEW v \in Worker, v # w, NEW r, req' = [req EXCEPT ![v] = r] PROVE FALSE
  BY <1>1, <1>7
<1>8. ASSUME NEW v \in Worker, v # w,
             \/ Insert(v) \/ Save(v) \/ Remove(v) \/ RollBackSave(v) \/ RollBackMesh(v)
             \/ RemoveMesh(v) \/ SaveMesh(v) \/ ListGateways(v)
             \/ Publish(v) \/ PublishFails(v) \/ Crash(v)
      PROVE  FALSE
  <2>1. \E r : req' = [req EXCEPT ![v] = r]
    BY <1>8
    DEF Insert, Save, Remove, RollBackSave, RollBackMesh, RemoveMesh, SaveMesh, ListGateways,
        Publish, PublishFails, Crash, Answer, Continue
  <2> QED BY <1>7, <1>8, <2>1
<1> QED BY <1>4, <1>5, <1>6, <1>8, ConnectionLost DEF Next

\* What the step that ends a failing request leaves behind.
Undone(w) ==
    IF req[w].wide THEN psk'[req[w].row.mesh] = req[w].was
    ELSE IF req[w].id = NoRow THEN TRUE
    ELSE rows'[req[w].id] = req[w].was

\* A rollback puts back what the request read, and a removal that fails leaves it.
LEMMA FailingUndone ==
    ASSUME IInv, Undoable, Counted, [Next]_vars, NEW w \in Worker, Failing(w)
    PROVE  Undone(w)
<1>1. Active(w) /\ req[w].clean /\ req'[w].pc = "idle" /\ Types
  BY DEF Failing, IInv
<1>2. /\ req[w] \in Request /\ Shape(req[w]) /\ Kept(req[w])
      /\ psk \in [Mesh -> Psk] /\ rows \in [Row -> DeviceRow \cup {NoRow}]
  BY <1>1, RequestFacts DEF Undoable, Settled, Types
<1>3. Next
  BY <1>1 DEF vars, Active
<1>4. \/ Insert(w) \/ Save(w) \/ Remove(w) \/ RollBackSave(w) \/ RollBackMesh(w)
      \/ RemoveMesh(w) \/ SaveMesh(w) \/ ListGateways(w)
      \/ Publish(w) \/ PublishFails(w) \/ Crash(w)
  BY <1>1, <1>3, EndsItself
<1>5. CASE req[w].pc \in {"rollBackInsert", "rollBackSave", "rollBackMesh"} /\ faults' = faults
  <2>1. Remove(w) \/ RollBackSave(w) \/ RollBackMesh(w)
    <3>1. ~Crash(w)
      BY <1>5 DEF Crash, Counted
    <3> QED
      BY <1>4, <1>5, <3>1
      DEF Insert, Save, RemoveMesh, SaveMesh, ListGateways, Publish, PublishFails
  <2>2. CASE Remove(w)
    <3>1. /\ ~req[w].wide /\ req[w].id \in Row /\ req[w].was = NoRow
          /\ rows' = [rows EXCEPT ![req[w].id] = NoRow]
      BY <1>2, <1>5, <2>2, Shapes DEF Remove, Shape
    <3> QED BY <1>2, <3>1 DEF Undone
  <2>3. CASE RollBackSave(w)
    <3>1. /\ ~req[w].wide /\ req[w].otherwise = "rollBackSave" /\ req[w].pc = "rollBackSave"
          /\ req[w].id \in Row /\ req[w].was \in DeviceRow /\ req[w].row \in DeviceRow
          /\ req[w].was = [req[w].row EXCEPT !.allowed = req[w].was.allowed]
      BY <1>2, <2>3, Shapes DEF RollBackSave, Shape, NarrowRequest
    <3>2. rows[req[w].id] = req[w].row /\ ~Taken(req[w].was, req[w].id)
      BY <1>2, <3>1 DEF Kept, NarrowKept
    <3>3. rows' = [rows EXCEPT ![req[w].id].allowed = req[w].was.allowed]
      BY <2>3, <3>1, <3>2 DEF RollBackSave
    <3>4. rows'[req[w].id] = [rows[req[w].id] EXCEPT !.allowed = req[w].was.allowed]
      BY <1>2, <3>1, <3>3
    <3> QED BY <3>1, <3>2, <3>4 DEF Undone
  <2>4. CASE RollBackMesh(w)
    <3>1. /\ req[w].wide /\ req[w].row.mesh \in Mesh /\ req[w].otherwise = "rollBackMesh"
          /\ req[w].pc = "rollBackMesh"
      BY <1>2, <2>4, Shapes DEF RollBackMesh, Shape
    <3>2. req[w].row.mesh \in meshes
      BY <1>2, <3>1 DEF Kept, WideKept
    <3> QED BY <1>2, <2>4, <3>1, <3>2 DEF RollBackMesh, Undone
  <2> QED BY <2>1, <2>2, <2>3, <2>4
<1>6. CASE req[w].pc = "publish" /\ req[w].otherwise = "answer" /\ faults' # faults
  <2>1. UNCHANGED <<psk, rows>>
    BY <1>4, <1>6
    DEF Insert, Save, Remove, RollBackSave, RollBackMesh, RemoveMesh, SaveMesh, ListGateways,
        Publish, PublishFails, Crash, db
  <2>2. CASE req[w].wide
    BY <1>2, <1>6, <2>1, <2>2 DEF Kept, WideKept, Undone
  <2>3. CASE ~req[w].wide
    BY <1>2, <1>6, <2>1, <2>3 DEF Kept, NarrowKept, Undone
  <2> QED BY <2>2, <2>3
<1> QED BY <1>5, <1>6 DEF Failing

\* However many requests are served at once, one that no other disturbs and that ends
\* because a send raised inside its try leaves its row, of a mesh its key, as it read it: a
\* registration is deleted again, an update and a new key are rolled back
\* (registry/views.py:522, 631, 712), and what was to be deleted is kept (542, 547, 733).
\* uq_devices_device_id_allowed cannot refuse the rollback, and the row is neither gone nor
\* another's.  A request that cannot connect to Kafka at all ends outside the try and is
\* no such request (KeyChangesRollBack).
THEOREM FailedRequestsUndone == Spec => FailedRequestsUndo
<1>1. IInv /\ Undoable /\ Counted /\ [Next]_vars
        => [\A w \in Worker : Failing(w) =>
              IF req[w].wide THEN psk'[req[w].row.mesh] = req[w].was
              ELSE IF req[w].id = NoRow THEN TRUE
              ELSE rows'[req[w].id] = req[w].was]_vars
  BY FailingUndone DEF Undone
<1> QED
  BY InitIInv, StepIInv, InitUndoable, StepUndoable, InitCounted, StepCounted, <1>1, PTL
  DEF Spec, FailedRequestsUndo

-----------------------------------------------------------------------------
(* The decoder is in step with the database. *)

\* The keys of the events about a device.
LEMMA SuspectKeys ==
    ASSUME NEW d \in Device
    PROVE  /\ <<"keys", d>> \in KeysAbout({d})
           /\ \A m \in Mesh : <<"rejections", <<m, d>>>> \in KeysAbout({d})
           /\ \A D : d \in D => KeysAbout({d}) \subseteq KeysAbout(D)
           /\ \A D : KeysAbout({d}) \cap KeysAbout(D) # {} => d \in D
<1>1. \A D : KeysAbout(D) = {<<"keys", x>> : x \in D} \cup {<<"rejections", k>> : k \in Mesh \X D}
  BY DEF KeysAbout
<1>2. \A D : d \in D => KeysAbout({d}) \subseteq KeysAbout(D)
  BY <1>1
<1>3. \A D : KeysAbout({d}) \cap KeysAbout(D) # {} => d \in D
  BY <1>1
<1> QED BY <1>1, <1>2, <1>3

\* An event is about one device, and its key says which.
LEMMA EventKeys ==
    ASSUME NEW e \in Event, e[2].op \in {"upsert", "delete"}
    PROVE  /\ DeviceOf(e) \in Device /\ KeyOf(e) \in KeysAbout({DeviceOf(e)})
           /\ \A d : KeyOf(e) = <<"keys", d>> <=> e[1] = "keys" /\ DeviceOf(e) = d
           /\ \A m, d : KeyOf(e) = <<"rejections", <<m, d>>>> =>
                           e[1] = "rejections" /\ DeviceOf(e) = d /\ e[2].key[1] = m
           /\ e[1] = "rejections" => KeyOf(e) = <<"rejections", <<e[2].key[1], DeviceOf(e)>>>>
           /\ e[1] \in {"keys", "rejections"}
<1>1. CASE e \in {"keys"} \X KeyEvent
  <2>1. e[1] = "keys" /\ e[2] \in KeyEvent /\ e[2] # Ignored
    BY <1>1 DEF Ignored
  <2>2. e[2].key \in Gateway
    BY <2>1 DEF KeyEvent, Ignored
  <2>3. DeviceOf(e) = e[2].key /\ KeyOf(e) = <<"keys", e[2].key>>
    BY <2>1 DEF DeviceOf, KeyOf
  <2>4. KeyOf(e) \in KeysAbout({DeviceOf(e)})
    BY <2>2, <2>3, SuspectKeys DEF Device
  <2> QED BY <2>1, <2>2, <2>3, <2>4 DEF Device
<1>2. CASE e \in {"rejections"} \X RejectionEvent
  <2>1. e[1] = "rejections" /\ e[2] \in RejectionEvent /\ e[2] # Ignored
    BY <1>2 DEF Ignored
  <2>2. e[2].key \in Mesh \X Node
    BY <2>1 DEF RejectionEvent, Ignored
  <2>3. PICK m \in Mesh, d \in Node : e[2].key = <<m, d>>
    BY <2>2
  <2>4. DeviceOf(e) = d /\ KeyOf(e) = <<"rejections", <<m, d>>>> /\ e[2].key[1] = m
    BY <2>1, <2>3 DEF DeviceOf, KeyOf
  <2>5. <<"rejections", <<m, d>>>> \in KeysAbout({d})
    BY <2>3, SuspectKeys DEF Device
  <2> QED BY <2>1, <2>3, <2>4, <2>5 DEF Device
<1> QED BY <1>1, <1>2 DEF Event

\* What the rows say of a device: it has one registration at most.
RegisteredOnce ==
    \A d \in Device :
        /\ \A m \in Mesh : \A i \in Registering(m, d) :
              /\ Registered(d) = [mesh |-> m, psk |-> psk[m]]
              /\ \A n \in Mesh : \A j \in Registering(n, d) : j = i /\ n = m
        /\ (\A m \in Mesh : Registering(m, d) = {}) => Registered(d) = Unknown

\* So it is when the table is unique.
LEMMA RegisteredFacts == Types /\ Unique => RegisteredOnce
<1> SUFFICES ASSUME Types, Unique, NEW d \in Device
             PROVE  /\ \A m \in Mesh : \A i \in Registering(m, d) :
                          /\ Registered(d) = [mesh |-> m, psk |-> psk[m]]
                          /\ \A n \in Mesh : \A j \in Registering(n, d) : j = i /\ n = m
                    /\ (\A m \in Mesh : Registering(m, d) = {}) => Registered(d) = Unknown
  BY DEF RegisteredOnce
<1> DEFINE on == {i \in Occupied : rows[i].dev = d /\ rows[i].gateway /\ rows[i].allowed}
<1>1. \A m : Registering(m, d) = {i \in on : rows[i].mesh = m}
  BY DEF Registering, AllowedGateways, RowsOf
<1>2. \A i \in on : rows[i].mesh \in Mesh
  BY RowFacts
<1>3. \A i, j \in on : i = j
  BY DEF Unique, Taken
<1>4. Registered(d) = IF on = {} THEN Unknown
                      ELSE LET m == rows[CHOOSE i \in on : TRUE].mesh
                           IN  [mesh |-> m, psk |-> psk[m]]
  BY DEF Registered
<1> HIDE DEF on
<1>5. ASSUME NEW m \in Mesh, NEW i \in Registering(m, d)
      PROVE  Registered(d) = [mesh |-> m, psk |-> psk[m]]
  <2>1. i \in on /\ rows[i].mesh = m /\ on # {}
    BY <1>1
  <2>2. (CHOOSE j \in on : TRUE) = i
    BY <1>3, <2>1
  <2> QED BY <1>4, <2>1, <2>2
<1>6. (\A m \in Mesh : Registering(m, d) = {}) => on = {}
  BY <1>1, <1>2
<1> QED BY <1>1, <1>3, <1>4, <1>5, <1>6

\* And after every step.
LEMMA RegisteredFactsNext == Types' /\ Unique' => RegisteredOnce'
  BY RegisteredFacts, PTL

\* No row that the decoder is to know of changes.
SameRows(d) ==
    \A i \in Row : rows'[i] = rows[i] \/ (Silent(rows[i], d) /\ Silent(rows'[i], d))

\* The rows then register and reject the same.
LEMMA SameView ==
    ASSUME Types, Types', NEW d \in Device, SameRows(d)
    PROVE  /\ \A m : Registering(m, d)' = Registering(m, d)
           /\ \A m : Rejecting(m, d)' = Rejecting(m, d)
           /\ \A m : \A i \in Row : (~Silent(rows'[i], d) /\ rows'[i].mesh = m)
                               <=> (~Silent(rows[i], d) /\ rows[i].mesh = m)
<1>1. \A i \in Row : rows[i] \in DeviceRow \cup {NoRow} /\ rows'[i] \in DeviceRow \cup {NoRow}
  BY DEF Types
<1>2. \A i \in Row : \A m : i \in Registering(m, d) <=>
          rows[i] # NoRow /\ rows[i].mesh = m /\ rows[i].gateway /\ rows[i].allowed /\ rows[i].dev = d
  BY DEF Registering, AllowedGateways, RowsOf, Occupied
<1>3. \A i \in Row : \A m : i \in Registering(m, d)' <=>
          rows'[i] # NoRow /\ rows'[i].mesh = m /\ rows'[i].gateway /\ rows'[i].allowed /\ rows'[i].dev = d
  BY DEF Registering, AllowedGateways, RowsOf, Occupied
<1>4. \A i \in Row : \A m : i \in Rejecting(m, d) <=>
          rows[i] # NoRow /\ rows[i].mesh = m /\ ~rows[i].gateway /\ ~rows[i].allowed /\ rows[i].dev = d
  BY DEF Rejecting, RejectedNodes, RowsOf, Occupied
<1>5. \A i \in Row : \A m : i \in Rejecting(m, d)' <=>
          rows'[i] # NoRow /\ rows'[i].mesh = m /\ ~rows'[i].gateway /\ ~rows'[i].allowed /\ rows'[i].dev = d
  BY DEF Rejecting, RejectedNodes, RowsOf, Occupied
<1>6. \A m : /\ Registering(m, d) \subseteq Row /\ Registering(m, d)' \subseteq Row
             /\ Rejecting(m, d) \subseteq Row /\ Rejecting(m, d)' \subseteq Row
  BY DEF Registering, AllowedGateways, Rejecting, RejectedNodes, RowsOf, Occupied
<1>7. ASSUME NEW m, NEW i \in Row
      PROVE  /\ i \in Registering(m, d)' <=> i \in Registering(m, d)
             /\ i \in Rejecting(m, d)' <=> i \in Rejecting(m, d)
  BY <1>2, <1>3, <1>4, <1>5 DEF SameRows, Silent
<1>8. \A m : \A i \in Row : (~Silent(rows'[i], d) /\ rows'[i].mesh = m)
                               <=> (~Silent(rows[i], d) /\ rows[i].mesh = m)
  BY DEF SameRows
<1> QED BY <1>6, <1>7, <1>8

\* So the decoder is to know the same, if the key of the mesh is the same.
LEMMA SameRegistered ==
    ASSUME Types, Types', Unique, Unique', NEW d \in Device,
           \A m \in Mesh : Registering(m, d)' = Registering(m, d),
           \A m \in Mesh : Registering(m, d) # {} => psk'[m] = psk[m]
    PROVE  Registered(d)' = Registered(d)
<1>0. RegisteredOnce /\ RegisteredOnce'
  BY RegisteredFacts, RegisteredFactsNext
<1>1. CASE \A m \in Mesh : Registering(m, d) = {}
  BY <1>0, <1>1 DEF RegisteredOnce
<1>2. ASSUME NEW m \in Mesh, NEW i \in Registering(m, d) PROVE Registered(d)' = Registered(d)
  <2>1. Registered(d) = [mesh |-> m, psk |-> psk[m]]
    BY <1>0, <1>2 DEF RegisteredOnce
  <2>2. Registered(d)' = [mesh |-> m, psk |-> psk'[m]]
    BY <1>0, <1>2 DEF RegisteredOnce
  <2>3. psk'[m] = psk[m]
    BY <1>2
  <2> QED BY <2>1, <2>2, <2>3
<1> QED BY <1>1, <1>2

-----------------------------------------------------------------------------
\* The rows that a step of the request of w writes are of its device, or go from its mesh.
OnlyOwn(w) ==
    IF req[w].wide
    THEN /\ \A m \in Mesh : m # req[w].row.mesh => psk'[m] = psk[m]
         /\ \A i \in Row : \/ rows'[i] = rows[i]
                            \/ /\ rows'[i] = NoRow /\ rows[i] # NoRow
                               /\ rows[i].mesh = req[w].row.mesh
    ELSE /\ psk' = psk
         /\ \A i \in Row : \/ rows'[i] = rows[i]
                            \/ /\ rows[i] = NoRow \/ rows[i].dev = req[w].row.dev
                               /\ \/ rows'[i] = NoRow
                                  \/ /\ rows'[i].dev = req[w].row.dev
                                     /\ rows'[i].mesh = req[w].row.mesh

\* Of a device it does not concern nothing changes.
LEMMA Elsewhere ==
    ASSUME Types, Types', Unique, Unique', NEW w \in Worker, OnlyOwn(w), NEW d \in Device,
           ~Concerns(req[w], d)
    PROVE  SameRows(d) /\ Registered(d)' = Registered(d)
<1>1. SameRows(d)
  BY DEF SameRows, Silent, OnlyOwn, Concerns
<1>2. \A m \in Mesh : Registering(m, d)' = Registering(m, d)
  BY <1>1, SameView
<1>3. ASSUME NEW m \in Mesh, Registering(m, d) # {} PROVE psk'[m] = psk[m]
  <2>1. PICK i \in Row : ~Silent(rows[i], d) /\ rows[i].mesh = m
    BY <1>3 DEF Registering, AllowedGateways, RowsOf, Occupied, Silent
  <2> QED BY <2>1 DEF OnlyOwn, Concerns
<1> QED BY <1>1, <1>2, <1>3, SameRegistered

\* Another request comes to concern a device only through a request about the device.
LEMMA NewConcern ==
    ASSUME NEW w \in Worker, OnlyOwn(w), NEW d, NEW r, Concerns(r, d)'
    PROVE  Concerns(r, d) \/ Meets(req[w], r, d)
<1>1. CASE ~r.wide
  BY <1>1 DEF Concerns
<1>2. CASE r.wide /\ \E e \in r.todo : DeviceOf(e) = d
  BY <1>2 DEF Concerns
<1>3. ASSUME r.wide, NEW i \in Row, ~Silent(rows'[i], d), rows'[i].mesh = r.row.mesh
      PROVE  Concerns(r, d) \/ Meets(req[w], r, d)
  <2>1. CASE rows'[i] = rows[i]
    BY <1>3, <2>1 DEF Concerns
  <2>2. CASE rows'[i] # rows[i]
    BY <1>3, <2>2 DEF OnlyOwn, Silent, Meets
  <2> QED BY <2>1, <2>2
<1> QED BY <1>1, <1>2, <1>3 DEF Concerns

\* The request itself comes to concern none.
LEMMA OwnConcern ==
    ASSUME NEW w \in Worker, OnlyOwn(w), NEW d, NEW r, SameScope(r, req[w]),
           \A e \in r.todo : Concerns(req[w], DeviceOf(e)),
           Concerns(r, d)'
    PROVE  Concerns(req[w], d)
<1>1. CASE ~r.wide
  BY <1>1 DEF Concerns, SameScope
<1>2. ASSUME r.wide, NEW i \in Row, ~Silent(rows'[i], d), rows'[i].mesh = r.row.mesh
      PROVE  Concerns(req[w], d)
  BY <1>2 DEF Concerns, SameScope, OnlyOwn, Silent
<1> QED BY <1>1, <1>2 DEF Concerns

\* What registers or rejects a device is not silent.
LEMMA Loud ==
    ASSUME NEW m, NEW d, Registering(m, d) # {} \/ Rejecting(m, d) # {}
    PROVE  \E i \in Row : ~Silent(rows[i], d) /\ rows[i].mesh = m
  BY DEF Registering, AllowedGateways, Rejecting, RejectedNodes, RowsOf, Occupied, Silent

\* A request about a mesh that relies on what it read has a row of every device it concerns.
LEMMA ConcernedRow ==
    ASSUME NEW r \in Request, r.wide, Plan(r), NEW d \in Device, Concerns(r, d), WideRelies(r, d)
    PROVE  \E i \in Row : ~Silent(rows[i], d) /\ rows[i].mesh = r.row.mesh
<1> SUFFICES ASSUME NEW e \in r.todo, DeviceOf(e) = d
             PROVE  \E i \in Row : ~Silent(rows[i], d) /\ rows[i].mesh = r.row.mesh
  BY DEF Concerns
<1>1. r.todo \subseteq Event
  BY Shapes DEF WideRequest
<1>2. e[1] \in {"keys", "rejections"}
  BY <1>1, EventKeys DEF Plan
<1> QED BY <1>2, Loud DEF WideRelies

\* A request that clashes with none over a device keeps what it relies on.
LEMMA KeepsRelying ==
    ASSUME Types, Types', NEW w \in Worker, req[w] \in Request, OnlyOwn(w),
           NEW r \in Request, Plan(r), Shape(r), NEW d \in Device,
           Concerns(r, d), Relies(r, d), ~Clash(r, req[w], d)
    PROVE  Relies(r, d)'
<1>1. ~Concerns(req[w], d) /\ ~Meets(r, req[w], d)
  BY DEF Clash
<1>2. rows \in [Row -> DeviceRow \cup {NoRow}] /\ rows' \in [Row -> DeviceRow \cup {NoRow}]
  BY DEF Types
<1>3. SameRows(d)
  BY <1>1 DEF SameRows, Silent, OnlyOwn, Concerns
<1>4. \A m : Registering(m, d)' = Registering(m, d) /\ Rejecting(m, d)' = Rejecting(m, d)
  BY <1>3, SameView
<1>5. CASE ~r.wide
  <2>1. r.row.dev = d /\ r.row \in DeviceRow /\ r.row.mesh \in Mesh /\ NarrowRelies(r)
    BY <1>5, Shapes DEF Concerns, NarrowRequest, DeviceRow, Relies
  <2>2. psk'[r.row.mesh] = psk[r.row.mesh]
    BY <1>1, <1>5, <2>1 DEF OnlyOwn, Meets
  <2>3. ASSUME NEW i \in Row, rows[i] \in DeviceRow, rows[i].dev = d, rows[i].mesh = r.row.mesh
        PROVE  rows'[i] = rows[i]
    BY <1>1, <1>5, <2>1, <2>3 DEF OnlyOwn, Meets, Concerns
  <2>4. r.pc \in {"save", "remove", "publish"} => r.id \in Row
    BY <1>5, Shapes DEF Shape, NarrowRequest, Plan, NarrowPlan
  <2>5. \/ r.pc \in {"save", "remove"} \/ (r.pc = "publish" /\ r.otherwise = "answer")
        => rows'[r.id] = r.was
    <3> SUFFICES ASSUME r.pc \in {"save", "remove"} \/ (r.pc = "publish" /\ r.otherwise = "answer")
                 PROVE  rows'[r.id] = r.was
      OBVIOUS
    <3>1. r.was \in DeviceRow /\ r.was = [r.row EXCEPT !.allowed = r.was.allowed] /\ r.id \in Row
      BY <1>5 DEF Shape, Plan, NarrowPlan
    <3>2. rows[r.id] = r.was
      BY <2>1 DEF NarrowRelies
    <3>3. r.was.dev = d /\ r.was.mesh = r.row.mesh
      BY <2>1, <3>1 DEF DeviceRow
    <3> QED BY <2>3, <3>1, <3>2, <3>3
  <2>6. r.pc = "publish" /\ r.otherwise # "answer" => rows'[r.id] = r.row
    BY <2>1, <2>3, <2>4 DEF NarrowRelies
  <2> QED BY <1>4, <1>5, <2>1, <2>2, <2>5, <2>6 DEF Relies, NarrowRelies
<1>6. CASE r.wide
  <2>1. r.row.mesh \in Mesh /\ WideRelies(r, d)
    BY <1>6, Shapes DEF WideRequest, Relies
  <2>2. PICK i \in Row : ~Silent(rows[i], d) /\ rows[i].mesh = r.row.mesh
    BY <1>6, <2>1, ConcernedRow
  <2>3. psk'[r.row.mesh] = psk[r.row.mesh]
    BY <1>1, <2>1, <2>2 DEF OnlyOwn, Concerns
  <2> QED BY <1>4, <1>6, <2>1, <2>3 DEF Relies, WideRelies
<1> QED BY <1>5, <1>6, Shapes

\* What a step of the request of w does to the topics is about devices it concerns, and it
\* takes from the suspects only when no other request disturbs it.
Touched(w) ==
    /\ \A d \in Device : ~Concerns(req[w], d) =>
          /\ keys'[d] = keys[d]
          /\ \A m \in Mesh : <<m, d>> \in rejections' <=> <<m, d>> \in rejections
    /\ \A k \in suspect : k \in suspect' \/
          (req[w].clean /\ \E d \in Device : Concerns(req[w], d) /\ k \in KeysAbout({d}))

\* A step of the request of w, which is r after it.
OwnStep(w, r) ==
    /\ req' = [req EXCEPT ![w] = r]
    /\ \/ r = Idle
       \/ /\ r \in Request /\ SameScope(r, req[w])
          /\ \A e \in r.todo : Concerns(req[w], DeviceOf(e))
    /\ OnlyOwn(w) /\ Touched(w)

\* The other requests go on.
LEMMA OthersGoOn ==
    ASSUME IInv, NEW w \in Worker, Active(w), NEW r, OwnStep(w, r)
    PROVE  /\ req'[w] = r
           /\ \A v \in Worker : v # w =>
                 req'[v] = req[v] /\ (Active(v)' <=> Active(v))
           /\ r # Idle => r \in Request /\ SameScope(r, req[w])
           /\ r = Idle => ~Active(w)'
           /\ r # Idle => r.pc # "idle"
<1>1. req'[w] = r /\ \A v \in Worker : v # w => req'[v] = req[v]
  BY DEF OwnStep, IInv, Types
<1>2. r \in Request => r.pc # "idle"
  BY DEF Request, NarrowRequest, WideRequest
<1> QED BY <1>1, <1>2 DEF OwnStep, Active, Idle

\* What is suspect about a device that no undisturbed request of w concerns stays so.
LEMMA StaysSuspect ==
    ASSUME NEW w \in Worker, Touched(w), NEW d \in Device, ~Concerns(req[w], d) \/ ~req[w].clean
    PROVE  /\ \A k \in KeysAbout({d}) : k \in suspect => k \in suspect'
           /\ Suspicious(d) => Suspicious(d)'
<1>1. ASSUME NEW k \in KeysAbout({d}), k \in suspect PROVE k \in suspect'
  <2>1. ASSUME NEW x \in Device, Concerns(req[w], x), k \in KeysAbout({x}), req[w].clean PROVE FALSE
    <3>1. d \in {x}
      BY <1>1, <2>1, SuspectKeys
    <3> QED BY <2>1, <3>1
  <2> QED BY <1>1, <2>1 DEF Touched
<1> QED BY <1>1 DEF Suspicious

\* Of two requests that clash one cannot clear the device.
LEMMA Clashing ==
    ASSUME Apart, NEW w \in Worker, Active(w), Touched(w),
           NEW v \in Worker, v # w, Active(v), NEW d \in Device, Clash(req[v], req[w], d)
    PROVE  ~req[v].clean /\ ~req[w].clean /\ Suspicious(d) /\ Suspicious(d)'
<1>1. ~req[v].clean /\ ~req[w].clean /\ Suspicious(d)
  BY DEF Apart
<1> QED BY <1>1, StaysSuspect

\* Requests that clash after the step are disturbed, and the device is suspect.
LEMMA ApartStep ==
    ASSUME IInv, Apart, NEW w \in Worker, Active(w), NEW r, OwnStep(w, r)
    PROVE  Apart'
<1>1. OnlyOwn(w) /\ Touched(w)
  BY DEF OwnStep
<1>2. ASSUME NEW v \in Worker, Active(v)', NEW d \in Device, NEW s, s = req'[v], Concerns(s, d)'
      PROVE  \/ Active(v) /\ Concerns(req[v], d)
             \/ v # w /\ Active(v) /\ Meets(req[w], req[v], d)
  <2>1. CASE v = w
    <3>1. s = r /\ r # Idle
      BY <1>2, <2>1, OthersGoOn
    <3>2. SameScope(r, req[w]) /\ \A e \in r.todo : Concerns(req[w], DeviceOf(e))
      BY <3>1 DEF OwnStep
    <3> QED BY <1>1, <1>2, <2>1, <3>1, <3>2, OwnConcern
  <2>2. CASE v # w
    <3>1. s = req[v] /\ Active(v)
      BY <1>2, <2>2, OthersGoOn
    <3> QED BY <1>1, <1>2, <2>2, <3>1, NewConcern
  <2> QED BY <2>1, <2>2
<1>3. ASSUME NEW v \in Worker, Active(v)'
      PROVE  /\ Active(v) /\ req'[v].wide = req[v].wide /\ req'[v].row = req[v].row
             /\ req'[v].clean = req[v].clean
  BY <1>3, OthersGoOn DEF SameScope, Active
<1>4. SUFFICES ASSUME NEW v \in Worker, NEW u \in Worker, v # u, Active(v)', Active(u)',
                      NEW d \in Device, Clash(req[v], req[u], d)'
               PROVE  ~req[v].clean /\ ~req[u].clean /\ Suspicious(d)'
  BY <1>3 DEF Apart
<1>5. Active(v) /\ Active(u)
  BY <1>3, <1>4
<1>6. \/ Clash(req[v], req[u], d)
      \/ v # w /\ u # w /\ Clash(req[v], req[w], d) /\ Clash(req[u], req[w], d)
  <2>1. CASE Meets(req[v], req[u], d)' \/ Meets(req[u], req[v], d)'
    <3>1. Meets(req[v], req[u], d) \/ Meets(req[u], req[v], d)
      BY <1>3, <1>4, <2>1 DEF Meets
    <3> QED BY <3>1 DEF Clash
  <2>2. CASE Concerns(req[v], d)' /\ Concerns(req[u], d)'
    <3>1. PICK s, t : s = req'[v] /\ t = req'[u]
      OBVIOUS
    <3>2. Concerns(s, d)' /\ Concerns(t, d)'
      BY <2>2, <3>1 DEF Concerns
    <3>3. /\ Concerns(req[v], d) \/ (v # w /\ Meets(req[w], req[v], d))
          /\ Concerns(req[u], d) \/ (u # w /\ Meets(req[w], req[u], d))
      BY <1>2, <1>4, <3>1, <3>2
    <3>4. \A x, y : Meets(x, y, d) => Concerns(x, d)
      BY DEF Meets, Concerns
    <3> QED BY <1>4, <3>3, <3>4 DEF Clash
  <2> QED BY <1>4, <2>1, <2>2 DEF Clash
<1>7. CASE v # w /\ u # w /\ Clash(req[v], req[w], d) /\ Clash(req[u], req[w], d)
  BY <1>1, <1>5, <1>7, Clashing
<1>8. CASE Clash(req[v], req[u], d)
  <2>1. ~req[v].clean /\ ~req[u].clean /\ Suspicious(d)
    BY <1>4, <1>5, <1>8 DEF Apart
  <2>2. CASE v = w \/ u = w
    BY <1>1, <2>1, <2>2, StaysSuspect
  <2>3. CASE v # w /\ u # w /\ Concerns(req[w], d)
    <3>1. Concerns(req[v], d) \/ Concerns(req[u], d)
      BY <1>8 DEF Clash, Meets, Concerns
    <3>2. Clash(req[v], req[w], d) \/ Clash(req[u], req[w], d)
      BY <2>3, <3>1 DEF Clash
    <3>3. Suspicious(d)'
      BY <1>1, <1>5, <2>3, <3>2, Clashing
    <3> QED BY <2>1, <3>3
  <2>4. CASE ~Concerns(req[w], d)
    BY <1>1, <2>1, <2>4, StaysSuspect
  <2> QED BY <2>1, <2>2, <2>3, <2>4
<1> QED BY <1>6, <1>7, <1>8

\* Another request that concerns a device afterwards did before, or clashes.
LEMMA OtherConcern ==
    ASSUME IInv, Apart, NEW w \in Worker, Active(w), NEW r, OwnStep(w, r),
           NEW v \in Worker, v # w, Active(v), NEW s, s = req[v],
           NEW d \in Device, Concerns(s, d)'
    PROVE  /\ Concerns(s, d) \/ (~s.clean /\ Suspicious(d) /\ Suspicious(d)')
           /\ Suspicious(d) => Suspicious(d)'
           /\ Concerns(req[w], d) => ~req[w].clean /\ Suspicious(d) /\ Suspicious(d)'
<1>1. OnlyOwn(w) /\ Touched(w)
  BY DEF OwnStep
<1>2. Concerns(s, d) \/ Meets(req[w], s, d)
  BY <1>1, NewConcern
<1>3. \A x, y : Meets(x, y, d) => Concerns(x, d) /\ Clash(y, x, d)
  BY DEF Meets, Concerns, Clash
<1>4. Clash(s, req[w], d) => ~s.clean /\ ~req[w].clean /\ Suspicious(d) /\ Suspicious(d)'
  BY <1>1, Clashing
<1>5. Concerns(s, d) /\ Concerns(req[w], d) => Clash(s, req[w], d)
  BY DEF Clash
<1>6. ~Concerns(req[w], d) => (Suspicious(d) => Suspicious(d)')
  BY <1>1, StaysSuspect
<1> QED BY <1>2, <1>3, <1>4, <1>5, <1>6

\* The other requests still rely on what they read.
LEMMA OthersSteady ==
    ASSUME IInv, Undoable, Types', Apart, Planned, Steady,
           NEW w \in Worker, Active(w), NEW r, OwnStep(w, r),
           NEW v \in Worker, v # w, Active(v), NEW s, s = req[v],
           NEW d \in Device, Free(s, d)'
    PROVE  Relies(s, d)'
<1>1. OnlyOwn(w) /\ Touched(w) /\ Types
  BY DEF OwnStep, IInv
<1>2. Concerns(s, d)' /\ (s.clean \/ ~Suspicious(d)')
  BY DEF Free
<1>3. Concerns(s, d) /\ (s.clean \/ ~Suspicious(d))
  BY <1>2, OtherConcern
<1>4. ~Clash(s, req[w], d)
  BY <1>3 DEF Apart
<1>5. /\ s \in Request /\ req[w] \in Request /\ Plan(s) /\ Shape(s)
      /\ Relies(s, d)
  BY <1>1, <1>3, RequestFacts DEF Undoable, Settled, Planned, Steady, Free
<1> QED BY <1>1, <1>3, <1>4, <1>5, KeepsRelying

\* What a request has yet to do says how far the decoder is from the rows, on both topics.
DeviceInStep(d) == KeyInStep(d) /\ \A m \in Mesh : RejectionInStep(m, d)

\* A device that the request of w does not concern stays in step.
LEMMA ElsewhereInStep ==
    ASSUME IInv, Undoable, Types', Unique', NEW w \in Worker, Active(w), NEW r, OwnStep(w, r),
           NEW d \in Device, ~Concerns(req[w], d), DeviceInStep(d)
    PROVE  DeviceInStep(d)'
<1>1. OnlyOwn(w) /\ Touched(w) /\ Types /\ Unique
  BY DEF OwnStep, IInv, Undoable
<1>2. SameRows(d) /\ Registered(d)' = Registered(d)
  BY <1>1, Elsewhere
<1>3. /\ \A m : Registering(m, d)' = Registering(m, d) /\ Rejecting(m, d)' = Rejecting(m, d)
      /\ \A m : \A i \in Row : (~Silent(rows'[i], d) /\ rows'[i].mesh = m)
                              <=> (~Silent(rows[i], d) /\ rows[i].mesh = m)
  BY <1>1, <1>2, SameView
<1>4. /\ keys'[d] = keys[d] /\ \A m \in Mesh : <<m, d>> \in rejections' <=> <<m, d>> \in rejections
      /\ \A k \in KeysAbout({d}) : k \in suspect => k \in suspect'
  BY <1>1, StaysSuspect DEF Touched
<1>5. ASSUME NEW v \in Worker, Active(v)', Concerns(req[v], d)'
      PROVE  v # w /\ Active(v) /\ req'[v] = req[v] /\ Concerns(req[v], d)
  <2>1. CASE v = w
    <3>1. req'[v] = r /\ r # Idle
      BY <1>5, <2>1, OthersGoOn
    <3>2. SameScope(r, req[w]) /\ \A e \in r.todo : Concerns(req[w], DeviceOf(e))
      BY <3>1 DEF OwnStep
    <3>3. Concerns(r, d)'
      BY <1>5, <3>1 DEF Concerns
    <3> QED BY <1>1, <3>2, <3>3, OwnConcern
  <2>2. CASE v # w
    <3>1. Active(v) /\ req'[v] = req[v]
      BY <1>5, <2>2, OthersGoOn
    <3> QED BY <1>3, <1>5, <2>2, <3>1 DEF Concerns
  <2> QED BY <2>1, <2>2
<1>6. ASSUME NEW v \in Worker, v # w, Active(v), Concerns(req[v], d)
      PROVE  Active(v)' /\ Concerns(req[v], d)'
  <2>1. Active(v)' /\ req'[v] = req[v]
    BY <1>6, OthersGoOn
  <2> QED BY <1>3, <1>6, <2>1 DEF Concerns
<1>7. KeyInStep(d)'
  <2> SUFFICES ASSUME <<"keys", d>> \notin suspect' PROVE KeyInStep(d)'
    BY DEF KeyInStep
  <2>1. <<"keys", d>> \notin suspect
    BY <1>4, SuspectKeys
  <2>2. ASSUME NEW v \in Worker, Active(v)', Concerns(req[v], d)'
        PROVE  KeyOwn(req[v], d)'
    <3>1. req'[v] = req[v] /\ KeyOwn(req[v], d)
      BY <1>5, <2>1, <2>2 DEF DeviceInStep, KeyInStep
    <3> QED BY <1>2, <1>3, <1>4, <3>1 DEF KeyOwn, ToDeregister, ToList
  <2>3. (\A v \in Worker : Active(v)' => ~Concerns(req[v], d)') => keys'[d] = Registered(d)'
    BY <1>2, <1>4, <1>6, <2>1 DEF DeviceInStep, KeyInStep
  <2> QED BY <2>2, <2>3 DEF KeyInStep
<1>8. ASSUME NEW m \in Mesh PROVE RejectionInStep(m, d)'
  <2> SUFFICES ASSUME <<"rejections", <<m, d>>>> \notin suspect' PROVE RejectionInStep(m, d)'
    BY DEF RejectionInStep
  <2>1. <<"rejections", <<m, d>>>> \notin suspect
    BY <1>4, SuspectKeys
  <2>2. ASSUME NEW v \in Worker, Active(v)', Concerns(req[v], d)'
        PROVE  RejectionOwn(req[v], m, d)'
    <3>1. req'[v] = req[v] /\ RejectionOwn(req[v], m, d)
      BY <1>5, <2>1, <2>2 DEF DeviceInStep, RejectionInStep
    <3> QED BY <1>3, <1>4, <3>1 DEF RejectionOwn, ToUnreject
  <2>3. (\A v \in Worker : Active(v)' => ~Concerns(req[v], d)')
          => (<<m, d>> \in rejections' <=> Rejecting(m, d)' # {})
    BY <1>3, <1>4, <1>6, <2>1 DEF DeviceInStep, RejectionInStep
  <2> QED BY <2>2, <2>3 DEF RejectionInStep
<1> QED BY <1>7, <1>8 DEF DeviceInStep

-----------------------------------------------------------------------------
\* A request that no longer concerns a device has nothing to do about it.
LEMMA NothingToDo ==
    ASSUME IInv, NEW w \in Worker, Active(w), NEW r, OwnStep(w, r), r # Idle => Plan(r),
           NEW d \in Device, Concerns(req[w], d), r = Idle \/ ~Concerns(r, d)'
    PROVE  /\ KeyOwn(r, d)' => keys'[d] = Registered(d)'
           /\ \A m \in Mesh : RejectionOwn(r, m, d)' =>
                 (<<m, d>> \in rejections' <=> Rejecting(m, d)' # {})
<1>1. CASE r = Idle
  BY <1>1 DEF KeyOwn, RejectionOwn, ToPublish, ToDeregister, ToList, ToUnreject, Deleting, Idle
<1>2. CASE r # Idle
  <2>1. /\ r \in Request /\ SameScope(r, req[w]) /\ Plan(r) /\ ~Concerns(r, d)'
    BY <1>2 DEF OwnStep
  <2>2. r.wide /\ r \in WideRequest
    BY <2>1, Shapes DEF Concerns, SameScope
  <2>3. \A e \in r.todo : DeviceOf(e) # d /\ e \in Event /\ e[2].op \in {"upsert", "delete"}
    BY <2>1, <2>2 DEF Concerns, WideRequest, Plan
  <2>4. ~ToPublish(r, <<"keys", d>>) /\ \A m \in Mesh : ~ToPublish(r, <<"rejections", <<m, d>>>>)
    <3>1. ASSUME NEW e \in r.todo
          PROVE  KeyOf(e) # <<"keys", d>> /\ \A m \in Mesh : KeyOf(e) # <<"rejections", <<m, d>>>>
      <4>1. e \in Event /\ e[2].op \in {"upsert", "delete"} /\ DeviceOf(e) # d
        BY <2>3
      <4>2. KeyOf(e) = <<"keys", d>> => DeviceOf(e) = d
        BY <4>1, EventKeys
      <4>3. \A m : KeyOf(e) = <<"rejections", <<m, d>>>> => DeviceOf(e) = d
        BY <4>1, EventKeys
      <4> QED BY <4>1, <4>2, <4>3
    <3> QED BY <3>1 DEF ToPublish
  <2>5. Registering(r.row.mesh, d)' = {} /\ Rejecting(r.row.mesh, d)' = {}
    <3>1. \A i \in Row : ~Silent(rows'[i], d) => rows'[i].mesh # r.row.mesh
      BY <2>1, <2>2 DEF Concerns
    <3> QED
      BY <3>1 DEF Registering, AllowedGateways, Rejecting, RejectedNodes, RowsOf, Occupied, Silent
  <2>6. r.pc # "remove"
    BY <2>2 DEF WideRequest
  <2> QED
    BY <2>4, <2>5, <2>6 DEF KeyOwn, RejectionOwn, ToDeregister, ToList, ToUnreject
<1> QED BY <1>1, <1>2

\* A device that the request of w concerns stays in step, when its step leaves the decoder
\* as far from the rows as what it has yet to do says.
LEMMA OwnInStep ==
    ASSUME IInv, Undoable, Apart, NEW w \in Worker, Active(w), NEW r, OwnStep(w, r),
           r # Idle => Plan(r),
           NEW d \in Device, Concerns(req[w], d), DeviceInStep(d),
           Free(req[w], d) =>
              /\ <<"keys", d>> \notin suspect'
                    /\ (<<"keys", d>> \in suspect \/ KeyOwn(req[w], d)) => KeyOwn(r, d)'
              /\ \A m \in Mesh :
                    <<"rejections", <<m, d>>>> \notin suspect'
                       /\ (<<"rejections", <<m, d>>>> \in suspect \/ RejectionOwn(req[w], m, d))
                    => RejectionOwn(r, m, d)'
    PROVE  DeviceInStep(d)'
<1>1. ASSUME NEW k \in KeysAbout({d}), k \notin suspect'
      PROVE  /\ Free(req[w], d)
             /\ \A v \in Worker : Active(v)' /\ Concerns(req[v], d)' => v = w
  <2>1. req[w].clean \/ k \notin suspect
    BY <1>1 DEF OwnStep, Touched
  <2>2. Free(req[w], d)
    BY <1>1, <2>1 DEF Free, Suspicious
  <2>3. ASSUME NEW v \in Worker, v # w, Active(v)', Concerns(req[v], d)' PROVE FALSE
    <3>1. Active(v) /\ req'[v] = req[v]
      BY <2>3, OthersGoOn
    <3>2. PICK s : s = req[v]
      OBVIOUS
    <3>3. Concerns(s, d)'
      BY <2>3, <3>1, <3>2 DEF Concerns
    <3>4. Suspicious(d)'
      BY <2>3, <3>1, <3>2, <3>3, OtherConcern
    <3> QED BY <1>1, <3>4 DEF Suspicious
  <2> QED BY <2>2, <2>3
<1>2. req'[w] = r /\ (r = Idle => ~Active(w)')
  BY OthersGoOn
<1>3. (r # Idle => Active(w)')
  BY OthersGoOn DEF Active
<1>4. KeyInStep(d)'
  <2> SUFFICES ASSUME <<"keys", d>> \notin suspect' PROVE KeyInStep(d)'
    BY DEF KeyInStep
  <2>1. Free(req[w], d) /\ \A v \in Worker : Active(v)' /\ Concerns(req[v], d)' => v = w
    BY <1>1, SuspectKeys
  <2>2. <<"keys", d>> \in suspect \/ KeyOwn(req[w], d)
    BY DEF DeviceInStep, KeyInStep
  <2>3. KeyOwn(r, d)'
    BY <2>1, <2>2
  <2>4. KeyOwn(req[w], d)'
    BY <1>2, <2>3 DEF KeyOwn, ToPublish, ToDeregister, ToList, Deleting
  <2>5. ASSUME ~(Active(w)' /\ Concerns(req[w], d)') PROVE keys'[d] = Registered(d)'
    <3>1. r = Idle \/ ~Concerns(r, d)'
      BY <1>2, <1>3, <2>5 DEF Concerns
    <3> QED BY <2>3, <3>1, NothingToDo
  <2> QED BY <2>1, <2>4, <2>5 DEF KeyInStep
<1>5. ASSUME NEW m \in Mesh PROVE RejectionInStep(m, d)'
  <2> SUFFICES ASSUME <<"rejections", <<m, d>>>> \notin suspect' PROVE RejectionInStep(m, d)'
    BY DEF RejectionInStep
  <2>1. Free(req[w], d) /\ \A v \in Worker : Active(v)' /\ Concerns(req[v], d)' => v = w
    BY <1>1, SuspectKeys
  <2>2. <<"rejections", <<m, d>>>> \in suspect \/ RejectionOwn(req[w], m, d)
    BY DEF DeviceInStep, RejectionInStep
  <2>3. RejectionOwn(r, m, d)'
    BY <2>1, <2>2
  <2>4. RejectionOwn(req[w], m, d)'
    BY <1>2, <2>3 DEF RejectionOwn, ToPublish, ToUnreject, Deleting
  <2>5. ASSUME ~(Active(w)' /\ Concerns(req[w], d)')
        PROVE  <<m, d>> \in rejections' <=> Rejecting(m, d)' # {}
    <3>1. r = Idle \/ ~Concerns(r, d)'
      BY <1>2, <1>3, <2>5 DEF Concerns
    <3> QED BY <2>3, <3>1, NothingToDo
  <2> QED BY <2>1, <2>4, <2>5 DEF RejectionInStep
<1> QED BY <1>4, <1>5 DEF DeviceInStep

\* A step of the request of w keeps every device in step.
LEMMA StepInStep ==
    ASSUME IInv, Undoable, InStep, IInv', Undoable', NEW w \in Worker, Active(w),
           NEW r, OwnStep(w, r), LateSuspect', r # Idle => Plan(r),
           \A d \in Device : r # Idle /\ r.pc \in RollBacks /\ Concerns(r, d)' => Suspicious(d)',
           \A d \in Device : r # Idle /\ Free(req[w], d) => Relies(r, d)',
           \A d \in Device : Free(req[w], d) /\ <<"keys", d>> \notin suspect'
                 /\ (<<"keys", d>> \in suspect \/ KeyOwn(req[w], d)) => KeyOwn(r, d)',
           \A d \in Device, m \in Mesh :
                 Free(req[w], d) /\ <<"rejections", <<m, d>>>> \notin suspect'
                    /\ (<<"rejections", <<m, d>>>> \in suspect \/ RejectionOwn(req[w], m, d))
                 => RejectionOwn(r, m, d)'
    PROVE  InStep'
<1>1. /\ Types' /\ Unique' /\ Apart /\ RollBackSuspect /\ Planned /\ Steady
      /\ \A d \in Device : DeviceInStep(d)
      /\ OnlyOwn(w) /\ Touched(w)
  BY DEF IInv, Undoable, InStep, DeviceInStep, OwnStep
<1>2. Apart'
  BY <1>1, ApartStep
<1>3. ASSUME NEW v \in Worker, Active(v)', v # w, NEW d \in Device, NEW s, s = req'[v]
      PROVE  /\ s = req[v] /\ Active(v)
             /\ s.pc \in RollBacks /\ Concerns(s, d)' => Suspicious(d)'
             /\ Plan(s)
             /\ Free(s, d)' => Relies(s, d)'
  <2>1. s = req[v] /\ Active(v)
    BY <1>3, OthersGoOn
  <2>2. ASSUME s.pc \in RollBacks, Concerns(s, d)' PROVE Suspicious(d)'
    <3>1. Concerns(s, d) => Suspicious(d)
      BY <1>1, <2>1, <2>2 DEF RollBackSuspect
    <3> QED BY <1>1, <1>3, <2>1, <2>2, <3>1, OtherConcern
  <2>3. Plan(s)
    BY <1>1, <2>1 DEF Planned
  <2>4. Free(s, d)' => Relies(s, d)'
    BY <1>1, <1>3, <2>1, OthersSteady
  <2> QED BY <2>1, <2>2, <2>3, <2>4
<1>4. req'[w] = r /\ (Active(w)' <=> r # Idle)
  BY OthersGoOn DEF Active
<1>5. ASSUME NEW d \in Device, r # Idle, Concerns(r, d)' PROVE Concerns(req[w], d)
  BY <1>1, <1>5, OwnConcern DEF OwnStep
<1>6. RollBackSuspect'
  <2> SUFFICES ASSUME NEW v \in Worker, NEW d \in Device,
                      Active(v)', req'[v].pc \in RollBacks, Concerns(req[v], d)'
               PROVE  Suspicious(d)'
    BY DEF RollBackSuspect
  <2>1. PICK s : s = req'[v]
    OBVIOUS
  <2>2. Concerns(s, d)'
    BY <2>1 DEF Concerns
  <2>3. CASE v = w
    BY <1>4, <2>1, <2>2, <2>3
  <2>4. CASE v # w
    BY <1>3, <2>1, <2>2, <2>4
  <2> QED BY <2>3, <2>4
<1>7. Planned'
  <2> SUFFICES ASSUME NEW v \in Worker, Active(v)' PROVE Plan(req'[v])
    BY DEF Planned
  <2>1. CASE v = w
    BY <1>4, <2>1
  <2>2. CASE v # w
    <3>1. req'[v] = req[v] /\ Active(v)
      BY <2>2, OthersGoOn
    <3> QED BY <1>1, <3>1 DEF Planned
  <2> QED BY <2>1, <2>2
<1>8. Steady'
  <2> SUFFICES ASSUME NEW v \in Worker, NEW d \in Device, Active(v)', Free(req[v], d)'
               PROVE  Relies(req[v], d)'
    BY DEF Steady
  <2>1. PICK s : s = req'[v]
    OBVIOUS
  <2>2. Free(s, d)'
    BY <2>1 DEF Free, Concerns
  <2>3. Relies(s, d)'
    <3>1. CASE v # w
      BY <1>3, <2>1, <2>2, <3>1
    <3>2. CASE v = w
      <4>1. s = r /\ r # Idle /\ Concerns(req[w], d) /\ r.clean = req[w].clean
        BY <1>4, <1>5, <2>1, <2>2, <3>2 DEF Free, OwnStep, SameScope
      <4>2. req[w].clean \/ ~Suspicious(d)
        BY <1>1, <2>2, <4>1, StaysSuspect DEF Free
      <4> QED BY <4>1, <4>2 DEF Free
    <3> QED BY <3>1, <3>2
  <2> QED BY <2>1, <2>3 DEF Relies, NarrowRelies, WideRelies
<1>9. ASSUME NEW d \in Device PROVE DeviceInStep(d)'
  <2>1. CASE Concerns(req[w], d)
    BY <1>1, <2>1, OwnInStep
  <2>2. CASE ~Concerns(req[w], d)
    BY <1>1, <2>2, ElsewhereInStep
  <2> QED BY <2>1, <2>2
<1> QED BY <1>2, <1>6, <1>7, <1>8, <1>9 DEF InStep, DeviceInStep

\* A step of the request of w that only the database sees.
LEMMA QuietInStep ==
    ASSUME IInv, Undoable, InStep, IInv', Undoable', NEW w \in Worker, Active(w),
           UNCHANGED <<keys, rejections, late, suspect>>,
           NEW r, req' = [req EXCEPT ![w] = r], OnlyOwn(w),
           \/ r = Idle
           \/ /\ r \in Request /\ SameScope(r, req[w]) /\ Plan(r) /\ r.pc \notin RollBacks
              /\ \A e \in r.todo : Concerns(req[w], DeviceOf(e)),
           \A d \in Device : Free(req[w], d) /\ Relies(req[w], d) =>
              /\ r # Idle => Relies(r, d)'
              /\ KeyOwn(req[w], d) => KeyOwn(r, d)'
              /\ \A m \in Mesh : RejectionOwn(req[w], m, d) => RejectionOwn(r, m, d)'
    PROVE  InStep'
<1>1. Touched(w)
  BY DEF Touched
<1>2. OwnStep(w, r)
  BY <1>1 DEF OwnStep
<1>3. LateSuspect'
  BY DEF InStep, LateSuspect
<1>4. \A d \in Device : Free(req[w], d) => Relies(req[w], d)
  BY DEF InStep, Steady
<1> QED BY <1>2, <1>3, <1>4, StepInStep

\* A step of the request of w after which all that it concerns is suspect.
LEMMA SuspectInStep ==
    ASSUME IInv, Undoable, InStep, IInv', Undoable', NEW w \in Worker, Active(w),
           UNCHANGED <<keys, rejections>>, suspect \subseteq suspect', LateSuspect',
           NEW r, req' = [req EXCEPT ![w] = r], OnlyOwn(w),
           \/ r = Idle
           \/ /\ r \in Request /\ SameScope(r, req[w]) /\ Plan(r)
              /\ \A e \in r.todo : Concerns(req[w], DeviceOf(e)),
           \A d \in Device : Concerns(req[w], d) => Suspicious(d)',
           \A d \in Device : r # Idle /\ Free(req[w], d) /\ Relies(req[w], d) => Relies(r, d)'
    PROVE  InStep'
<1>1. Touched(w)
  BY DEF Touched
<1>2. OwnStep(w, r)
  BY <1>1 DEF OwnStep
<1>3. \A d \in Device : Free(req[w], d) => Relies(req[w], d) /\ Suspicious(d)'
  BY DEF InStep, Steady, Free
<1>4. \A d \in Device : r # Idle /\ Concerns(r, d)' => Suspicious(d)'
  BY OwnConcern
<1>5. \A d \in Device : Suspicious(d)' =>
         /\ <<"keys", d>> \in suspect'
         /\ \A m \in Mesh : <<"rejections", <<m, d>>>> \in suspect'
  BY SuspectKeys DEF Suspicious
<1> QED BY <1>2, <1>3, <1>4, <1>5, StepInStep

\* What a request may concern it touches, and what it is about to publish concerns it.
LEMMA ConcernsTouches ==
    ASSUME NEW r, NEW d \in Device, Concerns(r, d)
    PROVE  d \in Touches(r)
<1>1. CASE ~r.wide
  BY <1>1 DEF Concerns, Touches
<1>2. CASE r.wide
  <2>1. ASSUME NEW i \in Row, ~Silent(rows[i], d), rows[i].mesh = r.row.mesh
        PROVE  d \in {rows[j].dev : j \in RowsOf(r.row.mesh)}
    BY <2>1 DEF Silent, RowsOf, Occupied
  <2> QED BY <1>2, <2>1 DEF Concerns, Touches
<1> QED BY <1>1, <1>2

\* What a request is about to publish is about a device that it concerns.
LEMMA TodoConcerns ==
    ASSUME NEW r \in Request, Plan(r), r.pc \in {"insert", "save", "publish"} \/ r.wide,
           r.pc = "save" => r.otherwise = "rollBackSave"
    PROVE  \A e \in r.todo : Concerns(r, DeviceOf(e))
<1>1. CASE r.wide
  BY <1>1 DEF Concerns
<1>2. CASE ~r.wide
  <2>1. r.row \in DeviceRow /\ r.psk \in Psk /\ NarrowPlan(r)
        /\ r.otherwise \in {"answer", "raise", "rollBackInsert", "rollBackSave"}
        /\ r.pc \in {"insert", "save", "publish"}
    BY <1>2, Shapes DEF NarrowRequest, Plan
  <2>2. r.todo \subseteq {Upsert(r.row, r.psk), Delete(r.row), Reject(r.row), Unreject(r.row)}
    BY <2>1 DEF NarrowPlan, Change
  <2>3. /\ DeviceOf(Upsert(r.row, r.psk)) = r.row.dev /\ DeviceOf(Delete(r.row)) = r.row.dev
        /\ DeviceOf(Reject(r.row)) = r.row.dev /\ DeviceOf(Unreject(r.row)) = r.row.dev
    BY <2>1, EventParts
  <2> QED BY <1>2, <2>2, <2>3 DEF Concerns
<1> QED BY <1>1, <1>2, Shapes

\* Crash, RollBackSave and RollBackMesh leave suspect what they leave behind.
LEMMA EndsSuspect ==
    ASSUME IInv, Undoable, InStep, IInv', Undoable', NEW w \in Worker, OnlyOwn(w),
           Crash(w) \/ RollBackSave(w) \/ RollBackMesh(w) \/ (Remove(w) /\ req[w].pc = "rollBackInsert")
    PROVE  InStep'
<1>1. /\ Active(w) /\ req' = [req EXCEPT ![w] = Idle] /\ UNCHANGED <<keys, rejections, late>>
      /\ suspect \subseteq suspect'
  BY DEF Crash, RollBackSave, RollBackMesh, Remove, Active, Answer, kafka
<1>2. LateSuspect'
  BY <1>1 DEF InStep, LateSuspect
<1>3. ASSUME NEW d \in Device, Concerns(req[w], d) PROVE Suspicious(d)'
  <2>1. CASE Crash(w)
    <3>1. d \in Touches(req[w]) /\ KeysAbout(Touches(req[w])) \subseteq suspect'
      BY <1>3, <2>1, ConcernsTouches DEF Crash
    <3> QED BY <3>1, SuspectKeys DEF Suspicious
  <2>2. CASE ~Crash(w)
    <3>1. req[w].pc \in RollBacks
      BY <2>2 DEF RollBackSave, RollBackMesh, RollBacks
    <3> QED BY <1>1, <1>3, <3>1 DEF InStep, RollBackSuspect, Suspicious
  <2> QED BY <2>1, <2>2
<1> QED BY <1>1, <1>2, <1>3, SuspectInStep

\* A publish that fails makes suspect what the request is about; it is rolled back, or ends.
LEMMA PublishFailsInStep ==
    ASSUME IInv, Undoable, InStep, IInv', Undoable', NEW w \in Worker, PublishFails(w)
    PROVE  InStep'
<1>1. /\ Active(w) /\ req[w].pc = "publish" /\ UNCHANGED <<meshes, psk, rows, keys, rejections>>
      /\ suspect' = suspect \cup KeysAbout(Touches(req[w])) /\ Continue(w, req[w].otherwise)
  BY DEF PublishFails, Active, db
<1>2. req[w] \in Request /\ Plan(req[w]) /\ Shape(req[w]) /\ Types
  BY <1>1, RequestFacts DEF IInv, InStep, Planned, Undoable, Settled
<1>3. \A e \in req[w].todo : Concerns(req[w], DeviceOf(e))
  BY <1>1, <1>2, TodoConcerns
<1>4. ASSUME NEW d \in Device, Concerns(req[w], d) PROVE Suspicious(d)'
  <2>1. d \in Touches(req[w])
    BY <1>4, ConcernsTouches
  <2> QED BY <1>1, <2>1, SuspectKeys DEF Suspicious
<1>5. LateSuspect'
  <2>1. PICK e \in req[w].todo : late' \subseteq late \cup {e}
    BY DEF PublishFails, Publishable
  <2>2. e \in Event /\ e[2].op \in {"upsert", "delete"}
    BY <1>2, <2>1, Shapes DEF Plan, WideRequest, NarrowRequest
  <2>3. DeviceOf(e) \in Device /\ KeyOf(e) \in KeysAbout({DeviceOf(e)})
    BY <2>2, EventKeys
  <2>4. KeyOf(e) \in suspect'
    BY <1>3, <1>4, <2>3 DEF Suspicious
  <2>5. \A l \in late : l[2].op \in {"upsert", "delete"} /\ KeyOf(l) \in suspect
    BY DEF InStep, LateSuspect
  <2> QED BY <1>1, <2>1, <2>2, <2>4, <2>5 DEF LateSuspect
<1>6. IF req[w].wide THEN req[w].otherwise \in {"answer", "rollBackMesh"}
      ELSE req[w].otherwise \in {"answer", "raise", "rollBackInsert", "rollBackSave"}
  BY <1>2, Shapes DEF NarrowRequest, WideRequest
<1>7. PICK r : r = req'[w]
  OBVIOUS
<1>8. /\ req' = [req EXCEPT ![w] = r]
      /\ \/ r = Idle
         \/ /\ r \in Request /\ r.pc = req[w].otherwise /\ r.pc \in RollBacks
            /\ r.id = req[w].id /\ r.row = req[w].row /\ r.was = req[w].was
            /\ r.todo = req[w].todo /\ r.otherwise = req[w].otherwise
            /\ r.then = req[w].then /\ SameScope(r, req[w])
  BY <1>1, <1>6, <1>7, Continued DEF RollBacks
<1>9. r # Idle => Plan(r)
  <2> SUFFICES ASSUME r # Idle PROVE Plan(r)
    OBVIOUS
  <2>1. CASE r.wide
    <3>1. /\ r.pc = "rollBackMesh" /\ r.todo = req[w].todo /\ r.then = req[w].then
          /\ r.row = req[w].row /\ r.psk = req[w].psk /\ req[w].wide
      BY <1>6, <1>8, <2>1 DEF SameScope, RollBacks
    <3>2. WidePlan(req[w]) /\ \A e \in r.todo : e[2].op \in {"upsert", "delete"}
      BY <1>2, <3>1 DEF Plan
    <3>3. WidePlan(r)
      BY <3>1, <3>2 DEF WidePlan
    <3> QED BY <2>1, <3>2, <3>3 DEF Plan
  <2>2. CASE ~r.wide
    BY <1>1, <1>2, <1>6, <1>8, <2>2 DEF Plan, NarrowPlan, SameScope, RollBacks
  <2> QED BY <2>1, <2>2
<1>10. ASSUME NEW d \in Device, r # Idle, Relies(req[w], d) PROVE Relies(r, d)'
  <2>1. CASE r.wide
    <3>1. WideRelies(req[w], d) /\ r.wide = req[w].wide /\ r.row = req[w].row
      BY <1>8, <1>10, <2>1 DEF Relies, SameScope
    <3>2. WideRelies(r, d)'
      BY <1>1, <1>8, <1>10, <3>1
      DEF WideRelies, RollBacks, Registering, AllowedGateways, Rejecting, RejectedNodes, RowsOf, Occupied
    <3> QED BY <2>1, <3>2 DEF Relies
  <2>2. CASE ~r.wide
    BY <1>1, <1>8, <1>10, <2>2 DEF Relies, NarrowRelies, SameScope, RollBacks
  <2> QED BY <2>1, <2>2
<1>11. OnlyOwn(w)
  BY <1>1 DEF OnlyOwn
<1> QED BY <1>1, <1>3, <1>4, <1>5, <1>8, <1>9, <1>10, <1>11, SuspectInStep

-----------------------------------------------------------------------------
\* A request that has yet to write its row, its mesh, and publishes nothing yet.
LEMMA NotYet ==
    ASSUME NEW r, r.pc \in {"insert", "save", "meshSave"} \/ r = Idle, NEW d
    PROVE  /\ KeyOwn(r, d) <=> keys[d] = Registered(d)
           /\ \A m : RejectionOwn(r, m, d) <=> (<<m, d>> \in rejections <=> Rejecting(m, d) # {})
  BY DEF KeyOwn, RejectionOwn, ToPublish, ToDeregister, ToList, ToUnreject, Deleting, Idle

\* The same after a step.
LEMMA NotYetNext ==
    ASSUME NEW r, r.pc \in {"insert", "save", "meshSave"} \/ r = Idle, NEW d
    PROVE  /\ KeyOwn(r, d)' <=> keys'[d] = Registered(d)'
           /\ \A m : RejectionOwn(r, m, d)' <=>
                        (<<m, d>> \in rejections' <=> Rejecting(m, d)' # {})
  BY DEF KeyOwn, RejectionOwn, ToPublish, ToDeregister, ToList, ToUnreject, Deleting, Idle

\* A request about a device that publishes an event: what it has yet to do.
LEMMA Publishing ==
    ASSUME NEW r, ~r.wide, r.pc = "publish", NEW e, r.todo = {e}, NEW d, r.then # "meshRemove"
    PROVE  /\ KeyOwn(r, d) <=> (KeyOf(e) # <<"keys", d>> => keys[d] = Registered(d))
           /\ \A m : RejectionOwn(r, m, d) <=>
                 (KeyOf(e) # <<"rejections", <<m, d>>>>
                     => (<<m, d>> \in rejections <=> Rejecting(m, d) # {}))
  BY DEF KeyOwn, RejectionOwn, ToPublish, ToDeregister, ToList, ToUnreject, Deleting

\* The same after a step.
LEMMA PublishingNext ==
    ASSUME NEW r, ~r.wide, r.pc = "publish", NEW e, r.todo = {e}, NEW d, r.then # "meshRemove"
    PROVE  /\ KeyOwn(r, d)' <=> (KeyOf(e) # <<"keys", d>> => keys'[d] = Registered(d)')
           /\ \A m : RejectionOwn(r, m, d)' <=>
                 (KeyOf(e) # <<"rejections", <<m, d>>>>
                     => (<<m, d>> \in rejections' <=> Rejecting(m, d)' # {}))
  BY DEF KeyOwn, RejectionOwn, ToPublish, ToDeregister, ToList, ToUnreject, Deleting

\* A request that the database refuses ends where it began.
LEMMA RefusedInStep ==
    ASSUME IInv, Undoable, InStep, IInv', Undoable', NEW w \in Worker,
           req[w].pc \in {"insert", "save"}, Answer(w),
           UNCHANGED <<psk, rows, keys, rejections, late, suspect>>
    PROVE  InStep'
<1>1. req' = [req EXCEPT ![w] = Idle] /\ Active(w) /\ OnlyOwn(w)
  BY DEF Answer, Active, OnlyOwn
<1>2. ASSUME NEW d \in Device
      PROVE  /\ KeyOwn(req[w], d) => KeyOwn(Idle, d)'
             /\ \A m \in Mesh : RejectionOwn(req[w], m, d) => RejectionOwn(Idle, m, d)'
  <2>1. /\ Registered(d)' = Registered(d) /\ keys'[d] = keys[d]
        /\ \A m : Rejecting(m, d)' = Rejecting(m, d)
    BY DEF Registered, Rejecting, RejectedNodes, RowsOf, Occupied
  <2>2. /\ KeyOwn(req[w], d) <=> keys[d] = Registered(d)
       /\ \A m : RejectionOwn(req[w], m, d) <=> (<<m, d>> \in rejections <=> Rejecting(m, d) # {})
    BY NotYet
  <2>3. /\ KeyOwn(Idle, d)' <=> keys'[d] = Registered(d)'
       /\ \A m : RejectionOwn(Idle, m, d)' <=>
                  (<<m, d>> \in rejections' <=> Rejecting(m, d)' # {})
    BY NotYetNext
  <2> QED BY <2>1, <2>2, <2>3
<1> QED BY <1>1, <1>2, QuietInStep

\* A new row is that of an allowed node, which the decoder need not know of, or that of a
\* gateway, which is yet to be published.
LEMMA InsertInStep ==
    ASSUME IInv, Undoable, InStep, IInv', Undoable', NEW w \in Worker, Insert(w)
    PROVE  InStep'
<1>1. /\ Active(w) /\ req[w].pc = "insert" /\ Types /\ Types' /\ Unique /\ Unique'
      /\ UNCHANGED <<keys, rejections, late, suspect>>
  BY DEF Insert, Active, IInv, Undoable, kafka
<1>2. req[w] \in NarrowRequest /\ req[w] \in Request /\ ~req[w].wide /\ req[w].row \in DeviceRow
  BY <1>1, RequestFacts, Shapes DEF NarrowRequest
<1>3. /\ req[w].row.allowed /\ req[w].psk \in Psk /\ Plan(req[w]) /\ Shape(req[w])
      /\ req[w].todo = IF req[w].row.gateway THEN {Upsert(req[w].row, req[w].psk)} ELSE {}
      /\ req[w].otherwise \in {"rollBackInsert", "raise"} /\ req[w].then = "answer"
  BY <1>1, <1>2
  DEF InStep, Planned, Plan, NarrowPlan, Undoable, Settled, Shape, NarrowRequest
<1>4. CASE Answer(w) /\ UNCHANGED <<db, granted>>
  BY <1>1, <1>4, RefusedInStep DEF db
<1>5. ASSUME NEW i \in Row \ (Occupied \cup {req[v].id : v \in {v \in Worker : Active(v)}}),
             rows' = [rows EXCEPT ![i] = req[w].row],
             req' = [req EXCEPT ![w] =
                        IF @.todo = {} THEN Idle ELSE [@ EXCEPT !.pc = "publish", !.id = i]],
             UNCHANGED <<meshes, psk>>
      PROVE  InStep'
  <2>1. rows[i] = NoRow /\ rows'[i] = req[w].row /\ \A j \in Row : j # i => rows'[j] = rows[j]
    BY <1>1, <1>5 DEF Types, Occupied
  <2>2. OnlyOwn(w)
    BY <1>2, <1>5, <2>1 DEF OnlyOwn
  <2>3. CASE ~req[w].row.gateway
    <3>1. req' = [req EXCEPT ![w] = Idle]
      BY <1>1, <1>3, <1>5, <2>3 DEF Types
    <3>2. ASSUME NEW d \in Device
          PROVE  Registered(d)' = Registered(d) /\ \A m : Rejecting(m, d)' = Rejecting(m, d)
      <4>1. SameRows(d)
        BY <1>3, <2>1, <2>3 DEF SameRows, Silent
      <4> QED BY <1>1, <1>5, <4>1, SameView, SameRegistered
    <3>3. ASSUME NEW d \in Device
          PROVE  /\ KeyOwn(req[w], d) => KeyOwn(Idle, d)'
                 /\ \A m \in Mesh : RejectionOwn(req[w], m, d) => RejectionOwn(Idle, m, d)'
      <4>1. /\ KeyOwn(req[w], d) <=> keys[d] = Registered(d)
           /\ \A m : RejectionOwn(req[w], m, d) <=> (<<m, d>> \in rejections <=> Rejecting(m, d) # {})
        BY <1>1, NotYet
      <4>2. /\ KeyOwn(Idle, d)' <=> keys'[d] = Registered(d)'
           /\ \A m : RejectionOwn(Idle, m, d)' <=>
                      (<<m, d>> \in rejections' <=> Rejecting(m, d)' # {})
        BY NotYetNext
      <4> QED BY <1>1, <3>2, <4>1, <4>2
    <3> QED BY <1>1, <2>2, <3>1, <3>3, QuietInStep
  <2>4. CASE req[w].row.gateway
    <3> DEFINE e == Upsert(req[w].row, req[w].psk)
    <3>1. PICK r : r = req'[w]
      OBVIOUS
    <3>2. req[w].todo = {e}
      BY <1>3, <2>4
    <3>3. req[w].todo # {}
      BY <3>2
    <3>4. /\ req' = [req EXCEPT ![w] = r]
          /\ r \in Request /\ r.pc = "publish" /\ r.id = i /\ r.was = req[w].was
          /\ r.todo = req[w].todo /\ r.then = req[w].then /\ r.otherwise = req[w].otherwise
          /\ SameScope(r, req[w])
      <4>1. req'[w] # Idle
        BY <1>1, <1>2, <1>5, <3>3 DEF Types, Idle, NarrowRequest
      <4> QED BY <1>1, <1>5, <3>1, <4>1, Inserted
    <3>5. KeyOf(e) = <<"keys", req[w].row.dev>> /\ DeviceOf(e) = req[w].row.dev
      BY <1>2, <1>3, EventParts
    <3> HIDE DEF e
    <3>6. ~r.wide /\ r.row = req[w].row /\ r.psk = req[w].psk /\ r.todo = {e}
      BY <1>2, <3>2, <3>4 DEF SameScope
    <3>7. Plan(r)
      BY <1>3, <1>5, <2>4, <3>2, <3>4, <3>6 DEF Plan, NarrowPlan, e
    <3>8. \A x \in r.todo : Concerns(req[w], DeviceOf(x))
      BY <1>2, <3>5, <3>6 DEF Concerns
    <3>9. ASSUME NEW d \in Device, Free(req[w], d), Relies(req[w], d)
          PROVE  /\ Relies(r, d)'
                 /\ KeyOwn(req[w], d) => KeyOwn(r, d)'
                 /\ \A m \in Mesh : RejectionOwn(req[w], m, d) => RejectionOwn(r, m, d)'
      <4>1. d = req[w].row.dev /\ psk[req[w].row.mesh] = req[w].psk
        BY <1>2, <3>9 DEF Free, Concerns, Relies, NarrowRelies
      <4>2. Relies(r, d)'
        BY <1>3, <1>5, <2>1, <3>4, <3>6, <4>1 DEF Relies, NarrowRelies
      <4>3. \A m : Rejecting(m, d)' = Rejecting(m, d)
        <5>1. \A m : \A j \in Row : j \in Rejecting(m, d)' <=> j \in Rejecting(m, d)
          BY <2>1, <2>4 DEF Rejecting, RejectedNodes, RowsOf, Occupied
        <5> QED BY <5>1 DEF Rejecting, RejectedNodes, RowsOf, Occupied
      <4>4. KeyOf(e) = <<"keys", d>> /\ \A m : KeyOf(e) # <<"rejections", <<m, d>>>>
        BY <3>5, <4>1
      <4>5. r.then # "meshRemove" /\ r.pc = "publish"
        BY <1>3, <3>4
      <4>7. /\ KeyOwn(req[w], d) <=> keys[d] = Registered(d)
           /\ \A m : RejectionOwn(req[w], m, d) <=> (<<m, d>> \in rejections <=> Rejecting(m, d) # {})
        BY <1>1, NotYet
      <4>6. /\ KeyOwn(r, d)' <=> (KeyOf(e) # <<"keys", d>> => keys'[d] = Registered(d)')
            /\ \A m : RejectionOwn(r, m, d)' <=>
                  (KeyOf(e) # <<"rejections", <<m, d>>>>
                      => (<<m, d>> \in rejections' <=> Rejecting(m, d)' # {}))
        BY <3>6, <4>5, PublishingNext
      <4> QED BY <1>1, <4>2, <4>3, <4>4, <4>6, <4>7
    <3>10. r.pc \notin RollBacks
      BY <3>4 DEF RollBacks
    <3> QED BY <1>1, <2>2, <3>4, <3>7, <3>8, <3>9, <3>10, QuietInStep
  <2> QED BY <1>2, <2>3, <2>4
<1> QED BY <1>4, <1>5 DEF Insert

\* Rows that register and reject the same on every mesh, with every key as it was.
LEMMA SameSays ==
    ASSUME Types, Types', Unique, Unique', NEW d \in Device, psk' = psk,
           \A m \in Mesh : \A i \in Row : i \in Registering(m, d)' <=> i \in Registering(m, d)
    PROVE  Registered(d)' = Registered(d)
<1>1. \A m \in Mesh : Registering(m, d)' = Registering(m, d)
  BY DEF Registering, AllowedGateways, RowsOf, Occupied
<1> QED BY <1>1, SameRegistered

\* The row that was read is the row that is changed: all that the decoder is to know of
\* besides the event is as it was.
LEMMA SaveInStep ==
    ASSUME IInv, Undoable, InStep, IInv', Undoable', NEW w \in Worker, Save(w)
    PROVE  InStep'
<1>1. /\ Active(w) /\ req[w].pc = "save" /\ Types /\ Types' /\ Unique /\ Unique'
      /\ UNCHANGED <<keys, rejections, late, suspect>>
  BY DEF Save, Active, IInv, Undoable, kafka
<1>2. req[w] \in NarrowRequest /\ req[w] \in Request /\ ~req[w].wide /\ req[w].row \in DeviceRow
  BY <1>1, RequestFacts, Shapes DEF NarrowRequest
<1>3. /\ req[w].psk \in Psk /\ Plan(req[w]) /\ Shape(req[w]) /\ req[w].id \in Row
      /\ req[w].todo = IF req[w].was.allowed = req[w].row.allowed THEN {}
                       ELSE {Change(req[w].row, req[w].psk)}
      /\ req[w].otherwise = "rollBackSave" /\ req[w].then = "answer"
      /\ req[w].was \in DeviceRow /\ req[w].was = [req[w].row EXCEPT !.allowed = req[w].was.allowed]
  BY <1>1, <1>2
  DEF InStep, Planned, Plan, NarrowPlan, Undoable, Settled, Shape, NarrowRequest
<1>4. CASE Answer(w) /\ UNCHANGED <<db, granted>>
  BY <1>1, <1>4, RefusedInStep DEF db
<1>5. CASE /\ rows' = [rows EXCEPT ![req[w].id] = req[w].row]
           /\ Continue(w, IF req[w].todo = {} THEN "answer" ELSE "publish")
           /\ UNCHANGED <<meshes, psk>>
  <2> DEFINE id == req[w].id
             row == req[w].row
             was == req[w].was
  <2>1. rows'[id] = row /\ \A j \in Row : j # id => rows'[j] = rows[j]
    BY <1>1, <1>3, <1>5 DEF Types
  <2>2. rows[id] = NoRow \/ Same(rows[id], row)
    BY <1>1, <1>3 DEF IInv, RowIdentity, Holds
  <2>3. OnlyOwn(w)
    BY <1>2, <1>5, <2>1, <2>2 DEF OnlyOwn, Same
  <2>4. ASSUME NEW d \in Device, Free(req[w], d), Relies(req[w], d)
        PROVE  d = row.dev /\ psk[row.mesh] = req[w].psk /\ rows[id] = was
    BY <1>1, <1>2, <2>4 DEF Free, Concerns, Relies, NarrowRelies
  <2>5. /\ was.dev = row.dev /\ was.mesh = row.mesh /\ was.gateway = row.gateway
        /\ was # NoRow /\ row # NoRow
    BY <1>2, <1>3 DEF DeviceRow
  <2>6. CASE was.allowed = row.allowed
    <3>1. req' = [req EXCEPT ![w] = Idle]
      BY <1>3, <1>5, <2>6 DEF Continue
    <3>2. was = row
      BY <1>2, <1>3, <2>6 DEF DeviceRow
    <3>3. ASSUME NEW d \in Device, Free(req[w], d), Relies(req[w], d)
          PROVE  /\ KeyOwn(req[w], d) => KeyOwn(Idle, d)'
                 /\ \A m \in Mesh : RejectionOwn(req[w], m, d) => RejectionOwn(Idle, m, d)'
      <4>1. \A i \in Row : rows'[i] = rows[i]
        BY <2>1, <2>4, <3>2, <3>3
      <4>2. SameRows(d)
        BY <4>1 DEF SameRows
      <4>3. Registered(d)' = Registered(d) /\ \A m : Rejecting(m, d)' = Rejecting(m, d)
        BY <1>1, <1>5, <4>2, SameView, SameRegistered
      <4>4. /\ KeyOwn(req[w], d) <=> keys[d] = Registered(d)
            /\ \A m : RejectionOwn(req[w], m, d) <=>
                         (<<m, d>> \in rejections <=> Rejecting(m, d) # {})
        BY <1>1, NotYet
      <4>5. /\ KeyOwn(Idle, d)' <=> keys'[d] = Registered(d)'
            /\ \A m : RejectionOwn(Idle, m, d)' <=>
                         (<<m, d>> \in rejections' <=> Rejecting(m, d)' # {})
        BY NotYetNext
      <4> QED BY <1>1, <4>3, <4>4, <4>5
    <3> QED BY <1>1, <2>3, <3>1, <3>3, QuietInStep
  <2>7. CASE was.allowed # row.allowed
    <3> DEFINE e == Change(row, req[w].psk)
    <3>1. PICK r : r = req'[w]
      OBVIOUS
    <3>2. req[w].todo = {e}
      BY <1>3, <2>7
    <3>3. Continue(w, "publish")
      BY <1>5, <3>2
    <3>4. /\ req' = [req EXCEPT ![w] = r]
          /\ r \in Request /\ r.pc = "publish" /\ r.id = id /\ r.was = was
          /\ r.todo = req[w].todo /\ r.then = req[w].then /\ r.otherwise = req[w].otherwise
          /\ SameScope(r, req[w])
      BY <1>1, <1>2, <3>1, <3>3, Continued
    <3>5. /\ DeviceOf(e) = row.dev
          /\ KeyOf(e) = IF row.gateway THEN <<"keys", row.dev>>
                        ELSE <<"rejections", <<row.mesh, row.dev>>>>
      BY <1>2, <1>3, EventParts DEF Change
    <3> HIDE DEF e
    <3>6. ~r.wide /\ r.row = row /\ r.psk = req[w].psk /\ r.todo = {e}
      BY <1>2, <3>2, <3>4 DEF SameScope
    <3>7. Plan(r)
      BY <1>3, <2>7, <3>2, <3>4, <3>6 DEF Plan, NarrowPlan, e
    <3>8. \A x \in r.todo : Concerns(req[w], DeviceOf(x))
      BY <1>2, <3>5, <3>6 DEF Concerns
    <3>9. ASSUME NEW d \in Device, Free(req[w], d), Relies(req[w], d)
          PROVE  /\ Relies(r, d)'
                 /\ KeyOwn(req[w], d) => KeyOwn(r, d)'
                 /\ \A m \in Mesh : RejectionOwn(req[w], m, d) => RejectionOwn(r, m, d)'
      <4>1. d = row.dev /\ psk[row.mesh] = req[w].psk /\ rows[id] = was
        BY <2>4, <3>9
      <4>2. ASSUME row.gateway, ~row.allowed, NEW m \in Mesh PROVE Registering(m, d)' = {}
        <5> SUFFICES ASSUME NEW i \in Row, i \in Registering(m, d)' PROVE FALSE
          BY DEF Registering, AllowedGateways, RowsOf, Occupied
        <5>1. rows'[i] # NoRow /\ rows'[i].dev = d /\ rows'[i].allowed
          BY DEF Registering, AllowedGateways, RowsOf, Occupied
        <5>2. i # id /\ rows[i] = rows'[i]
          BY <2>1, <4>2, <5>1
        <5>3. was.allowed
          BY <1>2, <1>3, <2>7, <4>2 DEF DeviceRow
        <5> QED BY <1>1, <1>3, <2>5, <4>1, <5>1, <5>2, <5>3 DEF Unique, Taken, Occupied
      <4>3. Relies(r, d)'
        BY <1>3, <1>5, <2>1, <3>4, <3>6, <4>1, <4>2 DEF Relies, NarrowRelies
      <4>4. ~row.gateway => Registered(d)' = Registered(d)
        <5> SUFFICES ASSUME ~row.gateway PROVE Registered(d)' = Registered(d)
          OBVIOUS
        <5>1. \A m \in Mesh : \A i \in Row : i \in Registering(m, d)' <=> i \in Registering(m, d)
          BY <2>1, <2>5, <4>1 DEF Registering, AllowedGateways, RowsOf, Occupied
        <5> QED BY <1>1, <1>5, <5>1, SameSays
      <4>5. ASSUME NEW m, row.gateway \/ m # row.mesh PROVE Rejecting(m, d)' = Rejecting(m, d)
        <5>1. \A i \in Row : i \in Rejecting(m, d)' <=> i \in Rejecting(m, d)
          BY <2>1, <2>5, <4>1, <4>5 DEF Rejecting, RejectedNodes, RowsOf, Occupied
        <5> QED BY <5>1 DEF Rejecting, RejectedNodes, RowsOf, Occupied
      <4>6. r.then # "meshRemove" /\ r.pc = "publish"
        BY <1>3, <3>4
      <4>7. /\ KeyOwn(r, d)' <=> (KeyOf(e) # <<"keys", d>> => keys'[d] = Registered(d)')
            /\ \A m : RejectionOwn(r, m, d)' <=>
                  (KeyOf(e) # <<"rejections", <<m, d>>>>
                      => (<<m, d>> \in rejections' <=> Rejecting(m, d)' # {}))
        BY <3>6, <4>6, PublishingNext
      <4>8. /\ KeyOwn(req[w], d) <=> keys[d] = Registered(d)
            /\ \A m : RejectionOwn(req[w], m, d) <=>
                         (<<m, d>> \in rejections <=> Rejecting(m, d) # {})
        BY <1>1, NotYet
      <4>9. KeyOwn(req[w], d) => KeyOwn(r, d)'
        BY <1>1, <3>5, <4>1, <4>4, <4>7, <4>8
      <4>10. ASSUME NEW m \in Mesh, RejectionOwn(req[w], m, d) PROVE RejectionOwn(r, m, d)'
        <5>1. CASE row.gateway \/ m # row.mesh
          BY <1>1, <4>5, <4>7, <4>8, <4>10, <5>1
        <5>2. CASE ~row.gateway /\ m = row.mesh
          BY <3>5, <4>1, <4>7, <5>2
        <5> QED BY <5>1, <5>2
      <4> QED BY <4>3, <4>9, <4>10
    <3>10. r.pc \notin RollBacks
      BY <3>4 DEF RollBacks
    <3> QED BY <1>1, <2>3, <3>4, <3>7, <3>8, <3>9, <3>10, QuietInStep
  <2> QED BY <2>6, <2>7
<1> QED BY <1>4, <1>5 DEF Save

\* The row goes whose end was published, or that was silent.
LEMMA RemoveInStep ==
    ASSUME IInv, Undoable, InStep, IInv', Undoable', NEW w \in Worker, Remove(w), OnlyOwn(w),
           req[w].pc = "remove"
    PROVE  InStep'
<1>1. /\ Active(w) /\ Types /\ Types' /\ Unique /\ Unique' /\ req' = [req EXCEPT ![w] = Idle]
      /\ UNCHANGED <<psk, keys, rejections, late, suspect>>
      /\ rows' = [rows EXCEPT ![req[w].id] = NoRow]
  BY DEF Remove, Active, IInv, Undoable, kafka, Answer
<1>2. req[w] \in NarrowRequest /\ req[w] \in Request /\ ~req[w].wide /\ req[w].row \in DeviceRow
  BY <1>1, RequestFacts, Shapes DEF NarrowRequest
<1>3. req[w].was = req[w].row /\ req[w].id \in Row
  BY <1>1, <1>2 DEF InStep, Planned, Plan, NarrowPlan
<1> DEFINE id == req[w].id
           row == req[w].row
<1>4. ASSUME NEW d \in Device, Free(req[w], d), Relies(req[w], d)
      PROVE  /\ KeyOwn(req[w], d) => KeyOwn(Idle, d)'
             /\ \A m \in Mesh : RejectionOwn(req[w], m, d) => RejectionOwn(Idle, m, d)'
  <2>1. d = row.dev /\ rows[id] = row /\ row # NoRow
    BY <1>1, <1>2, <1>3, <1>4 DEF Free, Concerns, Relies, NarrowRelies
  <2>2. rows'[id] = NoRow /\ \A j \in Row : j # id => rows'[j] = rows[j]
    BY <1>1, <1>3 DEF Types
  <2>3. /\ KeyOwn(Idle, d)' <=> keys'[d] = Registered(d)'
        /\ \A m : RejectionOwn(Idle, m, d)' <=>
                     (<<m, d>> \in rejections' <=> Rejecting(m, d)' # {})
    BY NotYetNext
  <2>4. /\ KeyOwn(req[w], d) <=> keys[d] = IF row.gateway /\ row.allowed THEN Unknown
                                           ELSE Registered(d)
        /\ \A m : RejectionOwn(req[w], m, d) <=>
              IF row.mesh = m /\ ~row.gateway /\ ~row.allowed
              THEN <<m, d>> \notin rejections /\ Rejecting(m, d) \subseteq {id}
              ELSE <<m, d>> \in rejections <=> Rejecting(m, d) # {}
    BY <1>2 DEF Remove, KeyOwn, RejectionOwn, ToPublish, ToDeregister, ToList, ToUnreject, Deleting
  <2>5. Registered(d)' = IF row.gateway /\ row.allowed THEN Unknown ELSE Registered(d)
    <3>1. CASE row.gateway /\ row.allowed
      <4>1. ASSUME NEW m \in Mesh PROVE Registering(m, d)' = {}
        <5> SUFFICES ASSUME NEW i \in Row, i \in Registering(m, d)' PROVE FALSE
          BY DEF Registering, AllowedGateways, RowsOf, Occupied
        <5>1. rows'[i] # NoRow /\ rows'[i].dev = d /\ rows'[i].allowed
          BY DEF Registering, AllowedGateways, RowsOf, Occupied
        <5>2. i # id /\ rows[i] = rows'[i]
          BY <2>2, <5>1
        <5> QED BY <1>1, <1>3, <2>1, <3>1, <5>1, <5>2 DEF Unique, Taken, Occupied
      <4>2. Registered(d)' = Unknown
        BY <1>1, <4>1, RegisteredFactsNext DEF RegisteredOnce
      <4> QED BY <3>1, <4>2
    <3>2. CASE ~(row.gateway /\ row.allowed)
      <4>1. \A m \in Mesh : \A i \in Row : i \in Registering(m, d)' <=> i \in Registering(m, d)
        BY <2>1, <2>2, <3>2 DEF Registering, AllowedGateways, RowsOf, Occupied
      <4> QED BY <1>1, <3>2, <4>1, SameSays
    <3> QED BY <3>1, <3>2
  <2>6. ASSUME NEW m \in Mesh, RejectionOwn(req[w], m, d) PROVE RejectionOwn(Idle, m, d)'
    <3>1. CASE row.mesh = m /\ ~row.gateway /\ ~row.allowed
      <4>1. Rejecting(m, d) \subseteq {id} /\ <<m, d>> \notin rejections
        BY <2>4, <2>6, <3>1
      <4>2. \A i \in Row : i \notin Rejecting(m, d)'
        BY <2>2, <4>1 DEF Rejecting, RejectedNodes, RowsOf, Occupied
      <4>3. Rejecting(m, d)' = {}
        BY <4>2 DEF Rejecting, RejectedNodes, RowsOf, Occupied
      <4> QED BY <1>1, <2>3, <4>1, <4>3
    <3>2. CASE ~(row.mesh = m /\ ~row.gateway /\ ~row.allowed)
      <4>1. <<m, d>> \in rejections <=> Rejecting(m, d) # {}
        BY <2>4, <2>6, <3>2
      <4>2. \A i \in Row : i \in Rejecting(m, d)' <=> i \in Rejecting(m, d)
        BY <2>1, <2>2, <3>2 DEF Rejecting, RejectedNodes, RowsOf, Occupied
      <4>3. Rejecting(m, d)' = Rejecting(m, d)
        BY <4>2 DEF Rejecting, RejectedNodes, RowsOf, Occupied
      <4> QED BY <1>1, <2>3, <4>1, <4>3
    <3> QED BY <3>1, <3>2
  <2>7. KeyOwn(req[w], d) => KeyOwn(Idle, d)'
    BY <1>1, <2>3, <2>4, <2>5
  <2> QED BY <2>6, <2>7
<1> QED BY <1>1, <1>4, QuietInStep

\* What the last step of a request removes or rolls back is its own.
LEMMA EndsOwn ==
    ASSUME IInv, NEW w \in Worker,
           Remove(w) \/ RollBackSave(w) \/ RollBackMesh(w) \/ RemoveMesh(w) \/ Crash(w)
    PROVE  OnlyOwn(w)
<1>1. Active(w) /\ Types
  BY DEF Remove, RollBackSave, RollBackMesh, RemoveMesh, Crash, Active, IInv
<1>2. req[w] \in Request
  BY <1>1, RequestFacts
<1>3. psk \in [Mesh -> Psk] /\ rows \in [Row -> DeviceRow \cup {NoRow}]
  BY <1>1 DEF Types
<1>4. \A i \in Row : req[w].id = i => rows[i] = NoRow \/ Same(rows[i], req[w].row)
  BY <1>1 DEF IInv, RowIdentity, Holds
<1>5. CASE Remove(w)
  <2>1. ~req[w].wide /\ psk' = psk /\ rows' = [rows EXCEPT ![req[w].id] = NoRow]
    BY <1>2, <1>5, Shapes DEF Remove
  <2> QED BY <1>3, <1>4, <2>1 DEF OnlyOwn, Same
<1>6. CASE RollBackSave(w)
  <2>1. ~req[w].wide /\ psk' = psk
    BY <1>2, <1>6, Shapes DEF RollBackSave
  <2>2. CASE rows' = rows
    BY <2>1, <2>2 DEF OnlyOwn
  <2>3. CASE /\ rows[req[w].id] # NoRow
             /\ rows' = [rows EXCEPT ![req[w].id].allowed = req[w].was.allowed]
    <3>1. ASSUME NEW i \in Row
          PROVE  \/ rows'[i] = rows[i]
                 \/ /\ rows[i].dev = req[w].row.dev
                    /\ rows'[i].dev = req[w].row.dev /\ rows'[i].mesh = req[w].row.mesh
      <4>1. CASE i # req[w].id
        BY <1>3, <2>3, <4>1
      <4>2. CASE i = req[w].id
        <5>1. rows[i] \in DeviceRow /\ Same(rows[i], req[w].row)
          BY <1>3, <1>4, <2>3, <4>2
        <5>2. rows'[i] = [rows[i] EXCEPT !.allowed = req[w].was.allowed]
          BY <1>3, <2>3, <4>2
        <5> QED BY <5>1, <5>2 DEF DeviceRow, Same
      <4> QED BY <4>1, <4>2
    <3> QED BY <2>1, <3>1 DEF OnlyOwn
  <2> QED BY <1>6, <2>2, <2>3 DEF RollBackSave
<1>7. CASE RollBackMesh(w)
  <2>1. /\ req[w].wide /\ rows' = rows
        /\ psk' = psk \/ psk' = [psk EXCEPT ![req[w].row.mesh] = req[w].was]
    BY <1>2, <1>7, Shapes DEF RollBackMesh
  <2> QED BY <1>3, <2>1 DEF OnlyOwn
<1>8. CASE RemoveMesh(w)
  <2>1. /\ req[w].wide /\ psk' = psk
        /\ \A i \in Row : IF i \in RowsOf(req[w].row.mesh) THEN rows'[i] = NoRow
                          ELSE rows'[i] = rows[i]
    BY <1>2, <1>8, Shapes DEF RemoveMesh
  <2> QED BY <2>1 DEF OnlyOwn, RowsOf, Occupied
<1>9. CASE Crash(w)
  BY <1>9 DEF Crash, db, OnlyOwn
<1> QED BY <1>5, <1>6, <1>7, <1>8, <1>9

\* A mesh that is saved without a new key tells the decoder nothing; a new key is yet to be
\* published to the gateways on the mesh.
LEMMA SaveMeshInStep ==
    ASSUME IInv, Undoable, InStep, IInv', Undoable', NEW w \in Worker, SaveMesh(w)
    PROVE  InStep'
<1>1. /\ Active(w) /\ req[w].pc = "meshSave" /\ Types /\ Types' /\ Unique /\ Unique'
      /\ UNCHANGED <<rows, keys, rejections, late, suspect>>
      /\ psk' = [psk EXCEPT ![req[w].row.mesh] = req[w].psk] /\ Continue(w, req[w].then)
  BY DEF SaveMesh, Active, IInv, Undoable, kafka
<1>2. /\ req[w] \in WideRequest /\ req[w] \in Request /\ req[w].wide /\ req[w].row.mesh \in Mesh
      /\ req[w].psk \in Psk /\ Plan(req[w])
  BY <1>1, RequestFacts, Shapes DEF WideRequest, InStep, Planned
<1>3. /\ req[w].then \in {"answer", "meshList"} /\ req[w].todo = {}
      /\ req[w].then = "answer" => req[w].psk = req[w].was
  BY <1>1, <1>2 DEF Plan, WidePlan
<1> DEFINE mesh == req[w].row.mesh
<1>4. psk'[mesh] = req[w].psk /\ \A m \in Mesh : m # mesh => psk'[m] = psk[m]
  BY <1>1, <1>2 DEF Types
<1>5. OnlyOwn(w)
  BY <1>1, <1>2, <1>4 DEF OnlyOwn
<1>6. PICK r : r = req'[w]
  OBVIOUS
<1>7. /\ req' = [req EXCEPT ![w] = r]
      /\ \/ r = Idle /\ req[w].then = "answer"
         \/ /\ r \in Request /\ r.pc = "meshList" /\ req[w].then = "meshList"
            /\ r.then = req[w].then /\ r.todo = {} /\ SameScope(r, req[w])
  BY <1>1, <1>2, <1>3, <1>6, Continued
<1>8. r # Idle => Plan(r) /\ r.wide /\ r.pc \notin RollBacks
  BY <1>2, <1>7 DEF Plan, WidePlan, SameScope, RollBacks
<1>9. ASSUME NEW d \in Device, Free(req[w], d), Relies(req[w], d)
      PROVE  /\ r # Idle => Relies(r, d)'
             /\ KeyOwn(req[w], d) => KeyOwn(r, d)'
             /\ \A m \in Mesh : RejectionOwn(req[w], m, d) => RejectionOwn(r, m, d)'
  <2>1. psk[mesh] = req[w].was
    BY <1>1, <1>2, <1>9 DEF Relies, WideRelies
  <2>2. \A m : Registering(m, d)' = Registering(m, d) /\ Rejecting(m, d)' = Rejecting(m, d)
    BY <1>1 DEF Registering, AllowedGateways, Rejecting, RejectedNodes, RowsOf, Occupied
  <2>3. req[w].then = "answer" \/ Registering(mesh, d) = {} => Registered(d)' = Registered(d)
    BY <1>1, <1>3, <1>4, <2>1, <2>2, SameRegistered
  <2>4. /\ KeyOwn(req[w], d) <=> keys[d] = Registered(d)
        /\ \A m : RejectionOwn(req[w], m, d) <=>
                     (<<m, d>> \in rejections <=> Rejecting(m, d) # {})
    BY <1>1, NotYet
  <2>5. CASE r = Idle /\ req[w].then = "answer"
    <3>1. /\ KeyOwn(r, d)' <=> keys'[d] = Registered(d)'
          /\ \A m : RejectionOwn(r, m, d)' <=>
                       (<<m, d>> \in rejections' <=> Rejecting(m, d)' # {})
      BY <2>5, NotYetNext
    <3>2. KeyOwn(req[w], d) => KeyOwn(r, d)'
      BY <1>1, <2>3, <2>4, <2>5, <3>1
    <3>3. \A m \in Mesh : RejectionOwn(req[w], m, d) => RejectionOwn(r, m, d)'
      BY <1>1, <2>2, <2>4, <3>1
    <3> QED BY <2>5, <3>2, <3>3
  <2>6. CASE r # Idle
    <3>1. r.pc = "meshList" /\ r.then = "meshList" /\ r.todo = {} /\ SameScope(r, req[w])
      BY <1>7, <2>6
    <3>2. Relies(r, d)'
      BY <1>4, <1>8, <2>6, <3>1 DEF Relies, WideRelies, SameScope
    <3>3. KeyOwn(req[w], d) => KeyOwn(r, d)'
      BY <1>1, <2>2, <2>3, <2>4, <3>1
      DEF KeyOwn, ToPublish, ToDeregister, ToList, Deleting, SameScope
    <3>4. \A m \in Mesh : RejectionOwn(req[w], m, d) => RejectionOwn(r, m, d)'
      BY <1>1, <2>2, <2>4, <3>1 DEF RejectionOwn, ToPublish, ToUnreject, Deleting
    <3> QED BY <3>2, <3>3, <3>4
  <2>7. r = Idle => req[w].then = "answer"
    BY <1>7 DEF Idle
  <2> QED BY <2>5, <2>6, <2>7
<1> QED BY <1>1, <1>5, <1>7, <1>8, <1>9, QuietInStep

\* The gateways on the mesh are listed: each has the new key published.
LEMMA ListInStep ==
    ASSUME IInv, Undoable, InStep, IInv', Undoable', NEW w \in Worker, ListGateways(w)
    PROVE  InStep'
<1> DEFINE mesh == req[w].row.mesh
           todo == {Upsert(rows[i], req[w].psk) : i \in AllowedGateways(mesh)}
<1>1. /\ Active(w) /\ req[w].pc = "meshList" /\ Types
      /\ UNCHANGED <<psk, rows, keys, rejections, late, suspect>>
      /\ req' = [req EXCEPT ![w] =
                   IF todo = {} THEN Idle
                   ELSE [@ EXCEPT !.pc = "publish", !.todo = todo, !.then = "answer"]]
  BY DEF ListGateways, Active, IInv, kafka, db
<1>2. /\ req[w] \in WideRequest /\ req[w] \in Request /\ req[w].wide /\ mesh \in Mesh
      /\ req[w].psk \in Psk /\ Plan(req[w])
  BY <1>1, RequestFacts, Shapes DEF WideRequest, InStep, Planned
<1>3. \A i \in AllowedGateways(mesh) :
         i \in Row /\ rows[i] \in DeviceRow /\ rows[i] # NoRow /\ rows[i].mesh = mesh
            /\ rows[i].gateway
  BY <1>1, RowFacts DEF AllowedGateways, RowsOf
<1>4. ASSUME NEW i \in AllowedGateways(mesh), NEW e, e = Upsert(rows[i], req[w].psk)
      PROVE  /\ e \in Event /\ e[1] = "keys" /\ e[2].op = "upsert" /\ DeviceOf(e) = rows[i].dev
             /\ KeyOf(e) = <<"keys", rows[i].dev>>
             /\ e[2].entry = [mesh |-> mesh, psk |-> req[w].psk]
             /\ Concerns(req[w], DeviceOf(e)) /\ Registering(mesh, DeviceOf(e)) # {}
  <2>0. rows[i] \in DeviceRow /\ req[w].psk \in Psk /\ rows[i].mesh = mesh
    BY <1>2, <1>3, <1>4
  <2>a. e \in Event
    BY <1>4, <2>0, EventFacts
  <2>b. /\ e[1] = "keys" /\ e[2].op = "upsert" /\ DeviceOf(e) = rows[i].dev
        /\ KeyOf(e) = <<"keys", rows[i].dev>>
        /\ e[2].entry = [mesh |-> rows[i].mesh, psk |-> req[w].psk]
    BY <1>4 DEF Upsert, DeviceOf, KeyOf
  <2>1. /\ e \in Event /\ e[1] = "keys" /\ e[2].op = "upsert" /\ DeviceOf(e) = rows[i].dev
        /\ KeyOf(e) = <<"keys", rows[i].dev>>
        /\ e[2].entry = [mesh |-> mesh, psk |-> req[w].psk]
    BY <2>0, <2>a, <2>b
  <2>2. Concerns(req[w], rows[i].dev)
    BY <1>2, <1>3 DEF Concerns, Silent
  <2>3. i \in Registering(mesh, rows[i].dev)
    BY DEF Registering
  <2> QED BY <2>1, <2>2, <2>3
<1>5. /\ todo \in SUBSET Event
      /\ \A e \in todo :
            /\ e[1] = "keys" /\ e[2].op = "upsert" /\ e[2].entry = [mesh |-> mesh, psk |-> req[w].psk]
            /\ Concerns(req[w], DeviceOf(e)) /\ Registering(mesh, DeviceOf(e)) # {}
  BY <1>4
<1>6. ASSUME NEW d, Registering(mesh, d) # {}
      PROVE  \E e \in todo : KeyOf(e) = <<"keys", d>>
  <2>1. PICK i \in AllowedGateways(mesh) : rows[i].dev = d
    BY <1>6 DEF Registering
  <2>2. Upsert(rows[i], req[w].psk) \in todo
    OBVIOUS
  <2> QED BY <1>4, <2>1, <2>2
<1> HIDE DEF todo
<1>7. OnlyOwn(w)
  BY <1>1 DEF OnlyOwn
<1>8. PICK r : r = req'[w]
  OBVIOUS
<1>9. /\ req' = [req EXCEPT ![w] = r]
      /\ \/ r = Idle
         \/ /\ r \in Request /\ r.pc = "publish" /\ r.todo = todo
            /\ r.then = "answer" /\ SameScope(r, req[w])
  BY <1>1, <1>5, <1>8, Listed
<1>10. r = Idle => todo = {}
  BY <1>1, <1>2, <1>8 DEF Types, Idle, WideRequest
<1>11. r # Idle => todo # {}
  BY <1>1, <1>8 DEF Types
<1>12. r # Idle => Plan(r) /\ r.wide /\ r.pc \notin RollBacks
  BY <1>2, <1>5, <1>9, <1>11 DEF Plan, WidePlan, SameScope, RollBacks
<1>13. ASSUME NEW d \in Device, Free(req[w], d), Relies(req[w], d)
       PROVE  /\ r # Idle => Relies(r, d)'
              /\ KeyOwn(req[w], d) => KeyOwn(r, d)'
              /\ \A m \in Mesh : RejectionOwn(req[w], m, d) => RejectionOwn(r, m, d)'
  <2>1. psk[mesh] = req[w].psk
    BY <1>1, <1>2, <1>13 DEF Relies, WideRelies
  <2>2. /\ \A m : Registering(m, d)' = Registering(m, d) /\ Rejecting(m, d)' = Rejecting(m, d)
        /\ Registered(d)' = Registered(d)
    BY <1>1
    DEF Registering, AllowedGateways, Rejecting, RejectedNodes, RowsOf, Occupied, Registered
  <2>3. /\ KeyOwn(req[w], d) <=> (Registering(mesh, d) = {} => keys[d] = Registered(d))
        /\ \A m : RejectionOwn(req[w], m, d) <=>
                     (<<m, d>> \in rejections <=> Rejecting(m, d) # {})
    BY <1>1 DEF KeyOwn, RejectionOwn, ToPublish, ToDeregister, ToList, ToUnreject, Deleting
  <2>4. CASE r = Idle
    <3>1. /\ KeyOwn(Idle, d)' <=> keys'[d] = Registered(d)'
          /\ \A m : RejectionOwn(Idle, m, d)' <=>
                       (<<m, d>> \in rejections' <=> Rejecting(m, d)' # {})
      BY NotYetNext
    <3>2. Registering(mesh, d) = {}
      BY <1>6, <1>10, <2>4
    <3> QED BY <1>1, <2>2, <2>3, <2>4, <3>1, <3>2
  <2>5. CASE r # Idle
    <3>1. r.pc = "publish" /\ r.todo = todo /\ r.then = "answer" /\ SameScope(r, req[w])
      BY <1>9, <2>5
    <3>2. Relies(r, d)'
      BY <1>1, <1>5, <1>12, <2>1, <2>2, <2>5, <3>1 DEF Relies, WideRelies, SameScope
    <3>3. Registering(mesh, d) # {} => ToPublish(r, <<"keys", d>>)
      BY <1>6, <3>1 DEF ToPublish
    <3>4. KeyOwn(req[w], d) => KeyOwn(r, d)'
      <4>1. ~ToDeregister(r, d)' /\ ~ToList(r, d)'
        BY <3>1 DEF ToDeregister, ToList, Deleting
      <4>2. KeyOwn(r, d)' <=> (~ToPublish(r, <<"keys", d>>) => keys'[d] = Registered(d)')
        BY <4>1 DEF KeyOwn, ToPublish
      <4> QED BY <1>1, <2>2, <2>3, <3>3, <4>2
    <3>5. \A m \in Mesh : RejectionOwn(req[w], m, d) => RejectionOwn(r, m, d)'
      BY <1>1, <2>2, <2>3, <3>1 DEF RejectionOwn, ToUnreject, Deleting
    <3> QED BY <3>2, <3>4, <3>5
  <2> QED BY <2>4, <2>5
<1> QED BY <1>1, <1>5, <1>7, <1>9, <1>12, <1>13, QuietInStep

\* The mesh goes, and its devices with it, whose end was published.
LEMMA RemoveMeshInStep ==
    ASSUME IInv, Undoable, InStep, IInv', Undoable', NEW w \in Worker, RemoveMesh(w), OnlyOwn(w)
    PROVE  InStep'
<1> DEFINE mesh == req[w].row.mesh
<1>1. /\ Active(w) /\ req[w].pc = "meshRemove" /\ Types /\ Types' /\ Unique /\ Unique'
      /\ UNCHANGED <<psk, keys, rejections, late, suspect>> /\ req' = [req EXCEPT ![w] = Idle]
      /\ \A i \in Row : rows'[i] = IF i \in RowsOf(mesh) THEN NoRow ELSE rows[i]
  BY DEF RemoveMesh, Active, IInv, Undoable, kafka, Answer
<1>2. /\ req[w] \in WideRequest /\ req[w] \in Request /\ req[w].wide /\ mesh \in Mesh
      /\ req[w].then = "meshRemove" /\ req[w].todo = {}
  BY <1>1, RequestFacts, Shapes DEF InStep, Planned, Plan, WidePlan
<1>3. ASSUME NEW d \in Device, Free(req[w], d), Relies(req[w], d)
      PROVE  /\ KeyOwn(req[w], d) => KeyOwn(Idle, d)'
             /\ \A m \in Mesh : RejectionOwn(req[w], m, d) => RejectionOwn(Idle, m, d)'
  <2>1. \A m \in Mesh : /\ Registering(m, d)' = IF m = mesh THEN {} ELSE Registering(m, d)
                        /\ Rejecting(m, d)' = IF m = mesh THEN {} ELSE Rejecting(m, d)
    <3>1. \A m \in Mesh : \A i \in Row :
             /\ i \in Registering(m, d)' <=> m # mesh /\ i \in Registering(m, d)
             /\ i \in Rejecting(m, d)' <=> m # mesh /\ i \in Rejecting(m, d)
      BY <1>1 DEF Registering, AllowedGateways, Rejecting, RejectedNodes, RowsOf, Occupied
    <3>2. \A m : /\ Registering(m, d)' \subseteq Row /\ Registering(m, d) \subseteq Row
                 /\ Rejecting(m, d)' \subseteq Row /\ Rejecting(m, d) \subseteq Row
      BY DEF Registering, AllowedGateways, Rejecting, RejectedNodes, RowsOf, Occupied
    <3> QED BY <3>1, <3>2
  <2>2. /\ KeyOwn(Idle, d)' <=> keys'[d] = Registered(d)'
        /\ \A m : RejectionOwn(Idle, m, d)' <=>
                     (<<m, d>> \in rejections' <=> Rejecting(m, d)' # {})
    BY NotYetNext
  <2>3. /\ KeyOwn(req[w], d) <=>
              keys[d] = IF Registering(mesh, d) # {} THEN Unknown ELSE Registered(d)
        /\ \A m : RejectionOwn(req[w], m, d) <=>
              IF m = mesh /\ Rejecting(m, d) # {} THEN <<m, d>> \notin rejections
              ELSE <<m, d>> \in rejections <=> Rejecting(m, d) # {}
    BY <1>1, <1>2
    DEF KeyOwn, RejectionOwn, ToPublish, ToDeregister, ToList, ToUnreject, Deleting
  <2>4. CASE Registering(mesh, d) # {}
    <3>1. \A m \in Mesh : Registering(m, d)' = {}
      BY <1>1, <1>2, <2>1, <2>4, RegisteredFacts DEF RegisteredOnce
    <3>2. Registered(d)' = Unknown
      BY <1>1, <3>1, RegisteredFactsNext DEF RegisteredOnce
    <3> QED BY <1>1, <2>1, <2>2, <2>3, <2>4, <3>2
  <2>5. CASE Registering(mesh, d) = {}
    <3>1. Registered(d)' = Registered(d)
      BY <1>1, <2>1, <2>5, SameRegistered
    <3> QED BY <1>1, <2>1, <2>2, <2>3, <2>5, <3>1
  <2> QED BY <2>4, <2>5
<1> QED BY <1>1, <1>3, QuietInStep

-----------------------------------------------------------------------------
\* What an event does to what the decoder knows: only its key changes.
LEMMA Delivery ==
    ASSUME Types, NEW e \in Event, e[2].op \in {"upsert", "delete"}, Deliver(e)
    PROVE  /\ \A d \in Device : KeyOf(e) # <<"keys", d>> => keys'[d] = keys[d]
           /\ \A m \in Mesh, d \in Device : KeyOf(e) # <<"rejections", <<m, d>>>> =>
                 (<<m, d>> \in rejections' <=> <<m, d>> \in rejections)
           /\ \A d \in Device : KeyOf(e) = <<"keys", d>> =>
                 keys'[d] = IF e[2].op = "delete" THEN Unknown ELSE e[2].entry
           /\ \A m \in Mesh, d \in Device : KeyOf(e) = <<"rejections", <<m, d>>>> =>
                 (<<m, d>> \in rejections' <=> e[2].op = "upsert")
<1>1. e[2] # Ignored
  BY DEF Ignored
<1>2. CASE e[1] = "keys"
  <2>1. keys' = [keys EXCEPT ![e[2].key] = IF e[2].op = "delete" THEN Unknown ELSE e[2].entry]
    BY <1>1, <1>2 DEF Deliver, GatewayAfter
  <2>2. rejections' = rejections
    BY <1>2 DEF Deliver
  <2>3. keys \in [Device -> Entry \cup {Unknown}]
    BY DEF Types
  <2> QED BY <1>2, <2>1, <2>2, <2>3 DEF KeyOf
<1>3. CASE e[1] # "keys"
  <2>1. rejections' = IF e[2].op = "delete" THEN rejections \ {e[2].key}
                      ELSE rejections \cup {e[2].key}
    BY <1>1, <1>3 DEF Deliver, RejectedAfter
  <2>2. keys' = keys
    BY <1>3 DEF Deliver
  <2>3. e[1] = "rejections"
    BY <1>3 DEF Event
  <2> QED BY <1>3, <2>1, <2>2, <2>3 DEF KeyOf
<1> QED BY <1>2, <1>3

\* While the tables stay as they are, so do the views of them.
LEMMA SameTables ==
    ASSUME UNCHANGED <<psk, rows>>
    PROVE  /\ \A m, d : /\ Registering(m, d)' = Registering(m, d)
                        /\ Rejecting(m, d)' = Rejecting(m, d)
           /\ \A d : Registered(d)' = Registered(d)
  BY DEF Registering, AllowedGateways, Rejecting, RejectedNodes, RowsOf, Occupied, Registered

\* What is left to publish once e is.
LEMMA OnwardTodo ==
    ASSUME NEW r \in Request, r.pc = "publish", NEW e \in r.todo
    PROVE  /\ r.todo # {e} => /\ Onward(r, e) \in Request /\ Onward(r, e).pc = "publish"
                              /\ Onward(r, e).todo = r.todo \ {e}
           /\ r.todo = {e} /\ r.then # "answer" =>
                 /\ Onward(r, e) \in Request /\ Onward(r, e).pc = r.then
                 /\ Onward(r, e).todo = {}
           /\ r.todo = {e} /\ r.then = "answer" => Onward(r, e) = Idle
           /\ Onward(r, e) # Idle => Onward(r, e).todo = r.todo \ {e}
<1> DEFINE rest == r.todo \ {e}
<1>1. ASSUME r.todo # {e}
      PROVE  /\ Onward(r, e) \in Request /\ Onward(r, e).pc = "publish"
             /\ Onward(r, e).todo = r.todo \ {e}
  <2>1. Onward(r, e) = [r EXCEPT !.todo = rest] /\ rest \subseteq r.todo
    BY <1>1 DEF Onward
  <2> HIDE DEF rest
  <2>2. /\ Onward(r, e) \in Request /\ Onward(r, e).todo = rest /\ Onward(r, e).pc = r.pc
    BY <2>1, Trimmed
  <2> QED BY <2>2 DEF rest
<1>2. ASSUME r.todo = {e}, r.then # "answer"
      PROVE  /\ Onward(r, e) \in Request /\ Onward(r, e).pc = r.then
             /\ Onward(r, e).todo = {}
  <2> DEFINE left == [r EXCEPT !.todo = {}]
             next == [left EXCEPT !.pc = r.then]
  <2>1. /\ left \in Request /\ left.todo = {} /\ left.wide = r.wide /\ left.then = r.then
    BY Trimmed
  <2>2. IF left.wide THEN r.then \in {"meshList", "meshRemove"} ELSE r.then = "remove"
    BY <1>2, <2>1, Shapes DEF NarrowRequest, WideRequest
  <2>3. Onward(r, e) = next
    BY <1>2 DEF Onward
  <2> HIDE DEF left
  <2>4. next \in Request /\ next.pc = r.then /\ next.todo = left.todo
    BY <2>1, <2>2, Moved
  <2> QED BY <2>1, <2>3, <2>4
<1>3. r.todo = {e} /\ r.then = "answer" => Onward(r, e) = Idle
  BY DEF Onward
<1> QED BY <1>1, <1>2, <1>3

\* An event of the request of w that is delivered.
Publishes(w, e) ==
    /\ e \in req[w].todo
    /\ e \in Event /\ e[2].op \in {"upsert", "delete"} /\ Deliver(e)
    /\ Concerns(req[w], DeviceOf(e)) /\ DeviceOf(e) \in Device
    /\ req' = [req EXCEPT ![w] = Onward(req[w], e)]
    /\ \A k : k # KeyOf(e) => (k \in suspect' <=> k \in suspect)
    /\ LetsIn(w, e) => KeyOf(e) \in suspect'
    /\ KeyOf(e) \in suspect /\ KeyOf(e) \notin suspect' =>
          req[w].clean /\ \A l \in late : KeyOf(l) # KeyOf(e)

\* A request publishes: what it says is about its own devices, and all else stays.
LEMMA PublishFacts ==
    ASSUME IInv, Undoable, InStep, NEW w \in Worker, Publish(w)
    PROVE  /\ Active(w) /\ req[w].pc = "publish" /\ req[w] \in Request /\ Plan(req[w])
           /\ UNCHANGED <<psk, rows, late>>
           /\ \E e : Publishes(w, e)
<1>1. /\ Active(w) /\ req[w].pc = "publish" /\ req[w] \in Request /\ Plan(req[w])
      /\ UNCHANGED <<psk, rows, late>>
  BY RequestFacts DEF Publish, Active, db, IInv, InStep, Planned
<1>2. PICK e \in Publishable(w) :
        /\ Deliver(e)
        /\ req' = [req EXCEPT ![w] = Onward(req[w], e)]
        /\ suspect' = IF LetsIn(w, e) THEN suspect \cup {KeyOf(e)}
                      ELSE IF req[w].clean /\ \A l \in late : KeyOf(l) # KeyOf(e)
                      THEN suspect \ {KeyOf(e)} ELSE suspect
  BY DEF Publish, Onward
<1>3. e \in req[w].todo /\ req[w].todo \subseteq Event
  BY <1>1 DEF Publishable, Request, NarrowRequest, WideRequest
<1>4. e \in Event /\ e[2].op \in {"upsert", "delete"}
  BY <1>1, <1>3 DEF Plan
<1>5. Concerns(req[w], DeviceOf(e)) /\ DeviceOf(e) \in Device
  BY <1>1, <1>3, <1>4, TodoConcerns, EventKeys
<1>6. \A k : k # KeyOf(e) => (k \in suspect' <=> k \in suspect)
  BY <1>2
<1>7. LetsIn(w, e) => KeyOf(e) \in suspect'
  BY <1>2
<1>8. KeyOf(e) \in suspect /\ KeyOf(e) \notin suspect' =>
         req[w].clean /\ \A l \in late : KeyOf(l) # KeyOf(e)
  BY <1>2
<1> QED BY <1>1, <1>2, <1>3, <1>4, <1>5, <1>6, <1>7, <1>8 DEF Publishes

\* It is a step of its own, and what is late stays suspect.
LEMMA PublishOwn ==
    ASSUME IInv, Undoable, InStep, NEW w \in Worker, Publish(w), NEW e, Publishes(w, e)
    PROVE  OwnStep(w, Onward(req[w], e)) /\ LateSuspect'
<1>1. /\ Active(w) /\ req[w].pc = "publish" /\ req[w] \in Request /\ Plan(req[w])
      /\ UNCHANGED <<psk, rows, late>>
  BY PublishFacts
<1>2. OnlyOwn(w)
  BY <1>1 DEF OnlyOwn
<1>3. /\ e \in req[w].todo /\ e \in Event /\ e[2].op \in {"upsert", "delete"} /\ Deliver(e)
      /\ Concerns(req[w], DeviceOf(e)) /\ DeviceOf(e) \in Device
      /\ req' = [req EXCEPT ![w] = Onward(req[w], e)]
  BY DEF Publishes
<1>4. /\ \A d : KeyOf(e) = <<"keys", d>> => DeviceOf(e) = d
      /\ \A m, d : KeyOf(e) = <<"rejections", <<m, d>>>> => DeviceOf(e) = d
      /\ KeyOf(e) \in KeysAbout({DeviceOf(e)})
  BY <1>3, EventKeys
<1>5. Touched(w)
  <2>1. ASSUME NEW d \in Device, ~Concerns(req[w], d)
        PROVE  /\ keys'[d] = keys[d]
               /\ \A m \in Mesh : <<m, d>> \in rejections' <=> <<m, d>> \in rejections
    <3>1. DeviceOf(e) # d
      BY <1>3, <2>1
    <3> QED BY <1>3, <1>4, <3>1, Delivery DEF IInv
  <2>2. ASSUME NEW k \in suspect, k \notin suspect'
        PROVE  req[w].clean /\ \E d \in Device : Concerns(req[w], d) /\ k \in KeysAbout({d})
    <3>1. k = KeyOf(e) /\ req[w].clean
      BY <2>2 DEF Publishes
    <3> QED BY <1>3, <1>4, <3>1
  <2> QED BY <2>1, <2>2 DEF Touched
<1>6. \/ Onward(req[w], e) = Idle
      \/ /\ Onward(req[w], e) \in Request /\ SameScope(Onward(req[w], e), req[w])
         /\ \A f \in Onward(req[w], e).todo : Concerns(req[w], DeviceOf(f))
  <2>1. \A f \in req[w].todo : Concerns(req[w], DeviceOf(f))
    BY <1>1, TodoConcerns
  <2> QED BY <1>1, <2>1, OnwardFacts
<1>7. LateSuspect'
  <2> SUFFICES ASSUME NEW l \in late
               PROVE  l[2].op \in {"upsert", "delete"} /\ KeyOf(l) \in suspect'
    BY <1>1 DEF LateSuspect, KeyOf
  <2>1. l[2].op \in {"upsert", "delete"} /\ KeyOf(l) \in suspect
    BY DEF InStep, LateSuspect
  <2> QED BY <2>1 DEF Publishes
<1> QED BY <1>2, <1>3, <1>5, <1>6, <1>7 DEF OwnStep

\* What a request about a mesh plans stays so, and what it relies on.
LEMMA PublishWidePlan ==
    ASSUME IInv, Undoable, InStep, NEW w \in Worker, Publish(w), NEW e, Publishes(w, e),
           NEW q, q = req[w], q.wide, NEW r, r = Onward(q, e), r # Idle
    PROVE  /\ Plan(r) /\ r.pc \notin RollBacks
           /\ r.pc \in {"publish", "meshRemove"} /\ r.then = q.then /\ r.row = q.row
           /\ r.todo = q.todo \ {e} /\ r.wide /\ r.psk = q.psk
           /\ q.then = "answer" => r.pc = "publish"
           /\ \A d \in Device : Relies(q, d) => Relies(r, d)'
<1>1. /\ q.pc = "publish" /\ q \in Request /\ Plan(q) /\ UNCHANGED <<psk, rows>> /\ e \in q.todo
  BY PublishFacts DEF Publishes
<1>2. WidePlan(q) /\ q.then \in {"answer", "meshRemove"}
  BY <1>1 DEF Plan, WidePlan
<1>3. /\ r \in Request /\ SameScope(r, q) /\ r.then = q.then /\ r.was = q.was
      /\ r.pc \in {"publish", q.then} /\ r.pc # "answer"
  BY <1>1, OnwardFacts
<1>4. /\ r.todo = q.todo \ {e}
      /\ q.todo # {e} => r.pc = "publish"
      /\ q.todo = {e} => q.then = "meshRemove" /\ r.pc = "meshRemove"
  <2>1. r.todo = q.todo \ {e}
    BY <1>1, OnwardTodo
  <2>2. q.todo # {e} => r.pc = "publish"
    BY <1>1, OnwardTodo
  <2>3. q.todo = {e} => q.then # "answer" /\ r.pc = q.then
    BY <1>1, OnwardTodo
  <2> QED BY <1>2, <2>1, <2>2, <2>3
<1>5. r.wide /\ r.row = q.row /\ r.psk = q.psk
  BY <1>3 DEF SameScope
<1>6. r.pc \in {"publish", "meshRemove"}
  BY <1>4
<1>7. WidePlan(r)
  BY <1>1, <1>2, <1>3, <1>4, <1>5 DEF WidePlan
<1>8. Plan(r)
  BY <1>1, <1>4, <1>5, <1>7 DEF Plan
<1>9. ASSUME NEW d \in Device, Relies(q, d) PROVE Relies(r, d)'
  <2>1. WideRelies(q, d)
    BY <1>9 DEF Relies
  <2>2. WideRelies(r, d)'
    BY <1>1, <1>3, <1>4, <1>5, <1>6, <2>1, SameTables DEF WideRelies
  <2> QED BY <1>5, <2>2 DEF Relies
<1> QED BY <1>2, <1>3, <1>4, <1>5, <1>6, <1>8, <1>9 DEF RollBacks

\* A key of a mesh is sent to a gateway, or a gateway or a node of the mesh is let go.
LEMMA PublishWideOwn ==
    ASSUME IInv, Undoable, InStep, IInv', Undoable', NEW w \in Worker, Publish(w),
           NEW e, Publishes(w, e), NEW q, q = req[w], q.wide, NEW r, r = Onward(q, e),
           NEW d \in Device, Free(q, d), Relies(q, d)
    PROVE  /\ <<"keys", d>> \notin suspect'
                 /\ (<<"keys", d>> \in suspect \/ KeyOwn(q, d)) => KeyOwn(r, d)'
           /\ \A m \in Mesh :
                 <<"rejections", <<m, d>>>> \notin suspect'
                    /\ (<<"rejections", <<m, d>>>> \in suspect \/ RejectionOwn(q, m, d))
                 => RejectionOwn(r, m, d)'
<1> DEFINE mesh == q.row.mesh
<1>1. /\ q.pc = "publish" /\ q \in Request /\ WidePlan(q) /\ UNCHANGED <<psk, rows>>
      /\ mesh \in Mesh
  BY PublishFacts, Shapes DEF Plan, WideRequest
<1>2. /\ e \in q.todo /\ e \in Event /\ e[2].op \in {"upsert", "delete"} /\ Deliver(e) /\ Types
      /\ \A k : k # KeyOf(e) => (k \in suspect' <=> k \in suspect)
  BY DEF Publishes, IInv
<1>3. /\ psk[mesh] = q.psk \/ q.then # "answer"
      /\ e[1] = "keys" /\ DeviceOf(e) = d => Registering(mesh, d) # {}
      /\ e[1] = "rejections" /\ DeviceOf(e) = d => Rejecting(mesh, d) # {}
  BY <1>1, <1>2 DEF Relies, WideRelies
<1>4. r # Idle => /\ r.pc \in {"publish", "meshRemove"} /\ r.then = q.then /\ r.row = q.row
                  /\ r.todo = q.todo \ {e}
                  /\ (q.then = "answer" => r.pc = "publish")
  BY PublishWidePlan
<1>5. /\ KeyOf(e) = <<"keys", d>> <=> e[1] = "keys" /\ DeviceOf(e) = d
      /\ \A m \in Mesh : KeyOf(e) = <<"rejections", <<m, d>>>> =>
            e[1] = "rejections" /\ DeviceOf(e) = d /\ e[2].key[1] = m
  <2>1. KeyOf(e) = <<"keys", d>> <=> e[1] = "keys" /\ DeviceOf(e) = d
    BY <1>2, EventKeys
  <2>2. \A m, x : KeyOf(e) = <<"rejections", <<m, x>>>> =>
            e[1] = "rejections" /\ DeviceOf(e) = x /\ e[2].key[1] = m
    BY <1>2, EventKeys
  <2> QED BY <2>1, <2>2
<1>6. r = Idle => q.todo = {e} /\ q.then = "answer"
  <2>1. ASSUME r = Idle PROVE r.pc # "publish"
    BY <2>1 DEF Idle
  <2>2. ASSUME r = Idle PROVE r \notin Request
    BY <2>2 DEF Idle, Request, NarrowRequest, WideRequest
  <2> QED BY <1>1, <1>2, <2>1, <2>2, OnwardTodo
<1>8. ASSUME NEW k, k # KeyOf(e), ToPublish(q, k) PROVE r # Idle /\ ToPublish(r, k)
  <2>1. PICK f \in q.todo : KeyOf(f) = k
    BY <1>8 DEF ToPublish
  <2>2. f # e /\ q.todo # {e}
    BY <1>8, <2>1
  <2>3. r.pc = "publish" /\ r.todo = q.todo \ {e}
    BY <1>1, <1>2, <2>2, OnwardTodo
  <2>4. r # Idle
    BY <1>6, <2>2
  <2> QED BY <2>1, <2>2, <2>3, <2>4 DEF ToPublish
<1>9. CASE q.then = "answer"
  <2>1. e[1] = "keys" /\ e[2].op = "upsert" /\ e[2].entry = [mesh |-> mesh, psk |-> q.psk]
    BY <1>1, <1>2, <1>9 DEF WidePlan
  <2>2. /\ KeyOwn(q, d) => ToPublish(q, <<"keys", d>>) \/ keys[d] = Registered(d)
        /\ \A m \in Mesh : RejectionOwn(q, m, d) =>
              ToPublish(q, <<"rejections", <<m, d>>>>)
                 \/ (<<m, d>> \in rejections <=> Rejecting(m, d) # {})
    BY <1>1, <1>9 DEF KeyOwn, RejectionOwn, ToDeregister, ToList, ToUnreject, Deleting
  <2>3. r = Idle \/ (r.pc = "publish" /\ r.then = "answer")
    BY <1>4, <1>9
  <2>4. ~ToDeregister(r, d)' /\ ~ToList(r, d)' /\ \A m \in Mesh : ~ToUnreject(r, m, d)'
    BY <2>3 DEF ToDeregister, ToList, ToUnreject, Deleting, Idle
  <2>5. ASSUME <<"keys", d>> \notin suspect', <<"keys", d>> \in suspect \/ KeyOwn(q, d)
        PROVE  KeyOwn(r, d)'
    <3>1. CASE KeyOf(e) = <<"keys", d>>
      <4>1. PICK i \in Registering(mesh, d) : TRUE
        BY <1>3, <1>5, <3>1
      <4>2. Registered(d) = [mesh |-> mesh, psk |-> psk[mesh]]
        BY <1>1, <4>1, RegisteredFacts DEF RegisteredOnce, IInv, Undoable
      <4>3. keys'[d] = e[2].entry
        BY <1>2, <2>1, <3>1, Delivery
      <4>4. keys'[d] = Registered(d)'
        BY <1>1, <1>3, <1>9, <2>1, <4>2, <4>3, SameTables
      <4> QED BY <2>4, <4>4 DEF KeyOwn
    <3>2. CASE KeyOf(e) # <<"keys", d>>
      <4>1. ToPublish(q, <<"keys", d>>) \/ keys[d] = Registered(d)
        BY <1>2, <2>2, <2>5, <3>2
      <4>2. keys'[d] = keys[d] /\ Registered(d)' = Registered(d)
        BY <1>1, <1>2, <3>2, Delivery, SameTables
      <4>3. ToPublish(q, <<"keys", d>>) => ToPublish(r, <<"keys", d>>)
        BY <1>8, <3>2
      <4>4. ToPublish(r, <<"keys", d>>)' <=> ToPublish(r, <<"keys", d>>)
        BY DEF ToPublish
      <4> QED BY <2>4, <4>1, <4>2, <4>3, <4>4 DEF KeyOwn
    <3> QED BY <3>1, <3>2
  <2>6. ASSUME NEW m \in Mesh, <<"rejections", <<m, d>>>> \notin suspect',
               <<"rejections", <<m, d>>>> \in suspect \/ RejectionOwn(q, m, d)
        PROVE  RejectionOwn(r, m, d)'
    <3>1. KeyOf(e) # <<"rejections", <<m, d>>>>
      BY <1>5, <2>1
    <3>2. ToPublish(q, <<"rejections", <<m, d>>>>)
             \/ (<<m, d>> \in rejections <=> Rejecting(m, d) # {})
      BY <1>2, <2>2, <2>6, <3>1
    <3>3. /\ <<m, d>> \in rejections' <=> <<m, d>> \in rejections
          /\ Rejecting(m, d)' = Rejecting(m, d)
      BY <1>1, <1>2, <3>1, Delivery, SameTables
    <3>4. ToPublish(q, <<"rejections", <<m, d>>>>) => ToPublish(r, <<"rejections", <<m, d>>>>)
      BY <1>8, <3>1
    <3>5. ToPublish(r, <<"rejections", <<m, d>>>>)' <=> ToPublish(r, <<"rejections", <<m, d>>>>)
      BY DEF ToPublish
    <3> QED BY <2>4, <3>2, <3>3, <3>4, <3>5 DEF RejectionOwn
  <2> QED BY <2>5, <2>6
<1>10. CASE q.then # "answer"
  <2>1. /\ q.then = "meshRemove" /\ e[2].op = "delete" /\ r # Idle
        /\ e[1] = "rejections" => e[2].key[1] = mesh
    BY <1>1, <1>2, <1>6, <1>10 DEF WidePlan
  <2>2. r.pc \in {"publish", "meshRemove"} /\ r.then = "meshRemove" /\ r.row = q.row
    BY <1>4, <2>1
  <2>3. /\ ~ToList(q, d) /\ ~ToList(r, d)'
        /\ ToDeregister(q, d) <=> Registering(mesh, d) # {}
        /\ ToDeregister(r, d)' <=> Registering(mesh, d) # {}
    <3>1. Registering(mesh, d)' = Registering(mesh, d)
      BY <1>1, SameTables
    <3> QED BY <1>1, <2>1, <2>2, <3>1 DEF ToDeregister, ToList, Deleting
  <2>4. ASSUME NEW m \in Mesh
        PROVE  /\ ToUnreject(q, m, d) <=> m = mesh /\ Rejecting(m, d) # {}
               /\ ToUnreject(r, m, d)' <=> m = mesh /\ Rejecting(m, d) # {}
    <3>1. Rejecting(m, d)' = Rejecting(m, d)
      BY <1>1, SameTables
    <3> QED BY <1>1, <2>1, <2>2, <3>1 DEF ToUnreject, Deleting
  <2>5. ASSUME <<"keys", d>> \notin suspect', <<"keys", d>> \in suspect \/ KeyOwn(q, d)
        PROVE  KeyOwn(r, d)'
    <3>1. CASE KeyOf(e) = <<"keys", d>>
      <4>1. keys'[d] = Unknown /\ Registering(mesh, d) # {}
        BY <1>2, <1>3, <1>5, <2>1, <3>1, Delivery
      <4> QED BY <2>3, <4>1 DEF KeyOwn
    <3>2. CASE KeyOf(e) # <<"keys", d>>
      <4>1. KeyOwn(q, d)
        BY <1>2, <2>5, <3>2
      <4>2. keys'[d] = keys[d] /\ Registered(d)' = Registered(d)
        BY <1>1, <1>2, <3>2, Delivery, SameTables
      <4>3. ToPublish(q, <<"keys", d>>) => ToPublish(r, <<"keys", d>>)
        BY <1>8, <3>2
      <4>4. ToPublish(r, <<"keys", d>>)' <=> ToPublish(r, <<"keys", d>>)
        BY DEF ToPublish
      <4> QED BY <2>3, <4>1, <4>2, <4>3, <4>4 DEF KeyOwn
    <3> QED BY <3>1, <3>2
  <2>6. ASSUME NEW m \in Mesh, <<"rejections", <<m, d>>>> \notin suspect',
               <<"rejections", <<m, d>>>> \in suspect \/ RejectionOwn(q, m, d)
        PROVE  RejectionOwn(r, m, d)'
    <3>1. CASE KeyOf(e) = <<"rejections", <<m, d>>>>
      <4>1. m = mesh /\ Rejecting(m, d) # {} /\ <<m, d>> \notin rejections'
        BY <1>2, <1>3, <1>5, <2>1, <3>1, Delivery
      <4>2. r.pc # "remove"
        BY <2>2
      <4> QED BY <2>4, <4>1, <4>2 DEF RejectionOwn
    <3>2. CASE KeyOf(e) # <<"rejections", <<m, d>>>>
      <4>1. RejectionOwn(q, m, d)
        BY <1>2, <2>6, <3>2
      <4>2. /\ <<m, d>> \in rejections' <=> <<m, d>> \in rejections
            /\ Rejecting(m, d)' = Rejecting(m, d)
        BY <1>1, <1>2, <3>2, Delivery, SameTables
      <4>3. ToPublish(q, <<"rejections", <<m, d>>>>) => ToPublish(r, <<"rejections", <<m, d>>>>)
        BY <1>8, <3>2
      <4>4. ToPublish(r, <<"rejections", <<m, d>>>>)' <=> ToPublish(r, <<"rejections", <<m, d>>>>)
        BY DEF ToPublish
      <4>5. r.pc # "remove"
        BY <2>2
      <4> QED BY <2>4, <4>1, <4>2, <4>3, <4>4, <4>5 DEF RejectionOwn
    <3> QED BY <3>1, <3>2
  <2> QED BY <2>5, <2>6
<1> QED BY <1>9, <1>10

\* A request about a device has one event to publish, about what it read or wrote.
LEMMA NarrowPublishes ==
    ASSUME NEW q \in Request, ~q.wide, q.pc = "publish", Plan(q), NEW e \in q.todo
    PROVE  /\ q.todo = {e} /\ q.row \in DeviceRow /\ q.psk \in Psk /\ q.id \in Row
           /\ q.then = IF q.otherwise = "answer" THEN "remove" ELSE "answer"
           /\ q.otherwise # "answer" => e = Change(q.row, q.psk)
           /\ q.otherwise # "rollBackSave" /\ q.otherwise # "answer" =>
                 q.row.gateway /\ q.row.allowed
           /\ q.otherwise = "answer" =>
                 /\ q.was = q.row
                 /\ \/ q.row.gateway /\ q.row.allowed /\ e = Delete(q.row)
                    \/ ~q.row.gateway /\ ~q.row.allowed /\ e = Unreject(q.row)
<1>1. q \in NarrowRequest /\ NarrowPlan(q)
  BY Shapes DEF Plan
<1>2. q.otherwise \in {"answer", "raise", "rollBackInsert", "rollBackSave"}
  BY <1>1 DEF NarrowRequest
<1>3. CASE q.otherwise = "answer"
  BY <1>1, <1>3 DEF NarrowPlan, NarrowRequest
<1>4. CASE q.otherwise # "answer"
  BY <1>1, <1>2, <1>4 DEF NarrowPlan, NarrowRequest, Change
<1> QED BY <1>3, <1>4

\* What it says of its device is then what the table says, or, of a device about to go,
\* nothing.
LEMMA PublishNarrowOwn ==
    ASSUME IInv, Undoable, InStep, NEW w \in Worker, Publish(w),
           NEW e, Publishes(w, e), NEW q, q = req[w], ~q.wide, NEW r, r = Onward(q, e),
           NEW d \in Device, Free(q, d), Relies(q, d)
    PROVE  /\ <<"keys", d>> \notin suspect'
                 /\ (<<"keys", d>> \in suspect \/ KeyOwn(q, d)) => KeyOwn(r, d)'
           /\ \A m \in Mesh :
                 <<"rejections", <<m, d>>>> \notin suspect'
                    /\ (<<"rejections", <<m, d>>>> \in suspect \/ RejectionOwn(q, m, d))
                 => RejectionOwn(r, m, d)'
<1> DEFINE mesh == q.row.mesh
<1>1. /\ q.pc = "publish" /\ q \in Request /\ Plan(q) /\ UNCHANGED <<psk, rows>>
  BY PublishFacts
<1>2. /\ e \in q.todo /\ e \in Event /\ e[2].op \in {"upsert", "delete"} /\ Deliver(e) /\ Types
      /\ \A k : k # KeyOf(e) => (k \in suspect' <=> k \in suspect)
      /\ LetsIn(w, e) => KeyOf(e) \in suspect'
  BY DEF Publishes, IInv
<1>3. /\ q.todo = {e} /\ q.row \in DeviceRow /\ q.psk \in Psk /\ q.id \in Row
      /\ q.then = IF q.otherwise = "answer" THEN "remove" ELSE "answer"
      /\ q.otherwise # "answer" => e = Change(q.row, q.psk)
      /\ q.otherwise # "rollBackSave" /\ q.otherwise # "answer" => q.row.gateway /\ q.row.allowed
      /\ q.otherwise = "answer" =>
            /\ q.was = q.row
            /\ \/ q.row.gateway /\ q.row.allowed /\ e = Delete(q.row)
               \/ ~q.row.gateway /\ ~q.row.allowed /\ e = Unreject(q.row)
  BY <1>1, <1>2, NarrowPublishes
<1>4. mesh \in Mesh /\ q.row.dev = d /\ rows[q.id] = q.row /\ psk[mesh] = q.psk
      /\ q.row.gateway \in BOOLEAN /\ q.row.allowed \in BOOLEAN
      /\ rows[q.id] # NoRow
      /\ (q.otherwise = "rollBackSave" /\ q.row.gateway /\ ~q.row.allowed =>
            \A m \in Mesh : Registering(m, d) = {})
  BY <1>1, <1>3 DEF Free, Concerns, Relies, NarrowRelies, DeviceRow
<1>5. /\ KeyOwn(q, d) <=> (KeyOf(e) # <<"keys", d>> => keys[d] = Registered(d))
      /\ \A m : RejectionOwn(q, m, d) <=>
            (KeyOf(e) # <<"rejections", <<m, d>>>>
                => (<<m, d>> \in rejections <=> Rejecting(m, d) # {}))
  <2>1. q.then # "meshRemove" /\ q.todo = {e}
    BY <1>3
  <2> QED BY <1>1, <2>1, Publishing
<1>6. ASSUME <<"keys", d>> \in suspect \/ KeyOwn(q, d), <<"keys", d>> \notin suspect',
             KeyOf(e) # <<"keys", d>>
      PROVE  keys'[d] = Registered(d)'
  <2>1. keys[d] = Registered(d)
    BY <1>2, <1>5, <1>6
  <2>2. keys'[d] = keys[d] /\ Registered(d)' = Registered(d)
    BY <1>1, <1>2, <1>6, Delivery, SameTables
  <2> QED BY <2>1, <2>2
<1>7. ASSUME NEW m \in Mesh, <<"rejections", <<m, d>>>> \in suspect \/ RejectionOwn(q, m, d),
             <<"rejections", <<m, d>>>> \notin suspect', KeyOf(e) # <<"rejections", <<m, d>>>>
      PROVE  <<m, d>> \in rejections' <=> Rejecting(m, d)' # {}
  <2>1. <<m, d>> \in rejections <=> Rejecting(m, d) # {}
    BY <1>2, <1>5, <1>7
  <2>2. (<<m, d>> \in rejections' <=> <<m, d>> \in rejections) /\ Rejecting(m, d)' = Rejecting(m, d)
    BY <1>1, <1>2, <1>7, Delivery, SameTables
  <2> QED BY <2>1, <2>2
<1>8. /\ q.row.gateway /\ q.row.allowed => q.id \in Registering(mesh, d)
      /\ ~q.row.gateway /\ ~q.row.allowed => q.id \in Rejecting(mesh, d)
      /\ \A m : q.row.gateway \/ q.row.allowed => q.id \notin Rejecting(m, d)
  BY <1>3, <1>4
  DEF Registering, AllowedGateways, Rejecting, RejectedNodes, RowsOf, Occupied
<1>9. ASSUME e = Unreject(q.row), KeyOf(e) \notin suspect'
      PROVE  Rejecting(mesh, d) \subseteq {q.id}
  <2>1. ~LetsIn(w, e) /\ e[1] = "rejections" /\ e[2].op = "delete"
    BY <1>2, <1>3, <1>9, EventParts
  <2>2. \A i \in RejectedNodes(mesh) \ {q.id} : rows[i].dev # d
    BY <1>4, <2>1 DEF LetsIn
  <2> QED BY <2>2 DEF Rejecting
<1>10. RegisteredOnce
  BY RegisteredFacts DEF IInv, Undoable
<1>11. CASE q.otherwise # "answer"
  <2>1. r = Idle
    BY <1>1, <1>2, <1>3, <1>11, OnwardTodo
  <2>2. /\ KeyOwn(r, d)' <=> keys'[d] = Registered(d)'
        /\ \A m : RejectionOwn(r, m, d)' <=> (<<m, d>> \in rejections' <=> Rejecting(m, d)' # {})
    BY <2>1, NotYetNext
  <2>3. CASE q.row.gateway /\ q.row.allowed
    <3>1. e = Upsert(q.row, q.psk)
      BY <1>3, <1>11, <2>3 DEF Change
    <3>2. e[2].op = "upsert" /\ e[2].entry = [mesh |-> mesh, psk |-> q.psk]
          /\ KeyOf(e) = <<"keys", d>>
      BY <1>3, <1>4, <3>1, EventParts
    <3>3. Registered(d) = [mesh |-> mesh, psk |-> psk[mesh]]
      BY <1>4, <1>8, <1>10, <2>3 DEF RegisteredOnce
    <3>4. keys'[d] = Registered(d)'
      BY <1>1, <1>2, <1>4, <3>2, <3>3, Delivery, SameTables
    <3>5. \A m : KeyOf(e) # <<"rejections", <<m, d>>>>
      BY <3>2
    <3> QED BY <1>7, <2>2, <3>4, <3>5
  <2>4. CASE q.row.gateway /\ ~q.row.allowed
    <3>1. e = Delete(q.row)
      BY <1>3, <1>11, <2>4 DEF Change
    <3>2. e[2].op = "delete" /\ KeyOf(e) = <<"keys", d>>
      BY <1>3, <1>4, <3>1, EventParts
    <3>3. Registered(d) = Unknown
      BY <1>3, <1>4, <1>10, <1>11, <2>4 DEF RegisteredOnce
    <3>4. keys'[d] = Registered(d)'
      BY <1>1, <1>2, <3>2, <3>3, Delivery, SameTables
    <3>5. \A m : KeyOf(e) # <<"rejections", <<m, d>>>>
      BY <3>2
    <3> QED BY <1>7, <2>2, <3>4, <3>5
  <2>5. CASE ~q.row.gateway /\ q.row.allowed
    <3>1. e = Unreject(q.row)
      BY <1>3, <1>11, <2>5 DEF Change
    <3>2. e[2].op = "delete" /\ KeyOf(e) = <<"rejections", <<mesh, d>>>>
      BY <1>3, <1>4, <3>1, EventParts
    <3>3. ASSUME <<"rejections", <<mesh, d>>>> \notin suspect'
          PROVE  <<mesh, d>> \in rejections' <=> Rejecting(mesh, d)' # {}
      <4>1. Rejecting(mesh, d) = {}
        BY <1>8, <1>9, <2>5, <3>1, <3>2, <3>3
      <4>2. <<mesh, d>> \notin rejections'
        BY <1>2, <1>4, <3>2, Delivery
      <4>3. Rejecting(mesh, d)' = Rejecting(mesh, d)
        BY <1>1, SameTables
      <4> QED BY <4>1, <4>2, <4>3
    <3>4. KeyOf(e) # <<"keys", d>> /\ \A m : m # mesh => KeyOf(e) # <<"rejections", <<m, d>>>>
      BY <3>2
    <3> QED BY <1>6, <1>7, <2>2, <3>3, <3>4
  <2>6. CASE ~q.row.gateway /\ ~q.row.allowed
    <3>1. e = Reject(q.row)
      BY <1>3, <1>11, <2>6 DEF Change
    <3>2. e[2].op = "upsert" /\ KeyOf(e) = <<"rejections", <<mesh, d>>>>
      BY <1>3, <1>4, <3>1, EventParts
    <3>3. <<mesh, d>> \in rejections' /\ Rejecting(mesh, d)' # {}
      <4>1. Rejecting(mesh, d)' = Rejecting(mesh, d)
        BY <1>1, SameTables
      <4> QED BY <1>2, <1>4, <1>8, <2>6, <3>2, <4>1, Delivery
    <3>4. KeyOf(e) # <<"keys", d>> /\ \A m : m # mesh => KeyOf(e) # <<"rejections", <<m, d>>>>
      BY <3>2
    <3> QED BY <1>6, <1>7, <2>2, <3>3, <3>4
  <2> QED BY <1>4, <2>3, <2>4, <2>5, <2>6
<1>12. CASE q.otherwise = "answer"
  <2>1. r.pc = "remove" /\ r.todo = {} /\ r \in Request
    BY <1>1, <1>2, <1>3, <1>12, OnwardTodo
  <2>2. r # Idle
    BY <2>1 DEF Idle
  <2>3. r.row = q.row /\ r.id = q.id /\ r.wide = q.wide
    BY <1>1, <2>2, OnwardFacts DEF SameScope
  <2>4. ~ToList(r, d)' /\ (\A k : ~ToPublish(r, k)) /\ (\A k : ~ToPublish(r, k)')
    BY <2>1 DEF ToList, ToPublish
  <2>5. CASE q.row.gateway /\ q.row.allowed
    <3>1. e = Delete(q.row)
      BY <1>3, <1>12, <2>5
    <3>2. e[2].op = "delete" /\ KeyOf(e) = <<"keys", d>>
      BY <1>3, <1>4, <3>1, EventParts
    <3>3. ToDeregister(r, d)' /\ \A m : ~ToUnreject(r, m, d)'
      BY <2>1, <2>3, <2>5 DEF ToDeregister, ToUnreject, Deleting
    <3>4. keys'[d] = Unknown
      BY <1>2, <3>2, Delivery
    <3>5. \A m : KeyOf(e) # <<"rejections", <<m, d>>>>
      BY <3>2
    <3>6. KeyOwn(r, d)'
      BY <3>3, <3>4 DEF KeyOwn
    <3>7. ASSUME NEW m \in Mesh, <<"rejections", <<m, d>>>> \in suspect \/ RejectionOwn(q, m, d),
                 <<"rejections", <<m, d>>>> \notin suspect'
          PROVE  RejectionOwn(r, m, d)'
      BY <1>7, <3>3, <3>5, <3>7 DEF RejectionOwn
    <3> QED BY <3>6, <3>7
  <2>6. CASE ~q.row.gateway /\ ~q.row.allowed
    <3>1. e = Unreject(q.row)
      BY <1>3, <1>12, <2>6
    <3>2. e[2].op = "delete" /\ KeyOf(e) = <<"rejections", <<mesh, d>>>>
      BY <1>3, <1>4, <3>1, EventParts
    <3>3. ~ToDeregister(r, d)' /\ \A m : ToUnreject(r, m, d)' <=> m = mesh
      BY <2>1, <2>3, <2>6 DEF ToDeregister, ToUnreject, Deleting
    <3>4. KeyOf(e) # <<"keys", d>> /\ \A m : m # mesh => KeyOf(e) # <<"rejections", <<m, d>>>>
      BY <3>2
    <3>5. ASSUME <<"keys", d>> \in suspect \/ KeyOwn(q, d), <<"keys", d>> \notin suspect'
          PROVE  KeyOwn(r, d)'
      BY <1>6, <3>3, <3>4, <3>5 DEF KeyOwn
    <3>6. ASSUME <<"rejections", <<mesh, d>>>> \notin suspect' PROVE RejectionOwn(r, mesh, d)'
      <4>1. Rejecting(mesh, d)' \subseteq {r.id}
        <5>1. Rejecting(mesh, d)' = Rejecting(mesh, d)
          BY <1>1, SameTables
        <5> QED BY <1>9, <2>3, <3>1, <3>2, <3>6, <5>1
      <4>2. <<mesh, d>> \notin rejections'
        BY <1>2, <1>4, <3>2, Delivery
      <4> QED BY <3>3, <4>1, <4>2 DEF RejectionOwn
    <3>7. ASSUME NEW m \in Mesh, m # mesh,
                 <<"rejections", <<m, d>>>> \in suspect \/ RejectionOwn(q, m, d),
                 <<"rejections", <<m, d>>>> \notin suspect'
          PROVE  RejectionOwn(r, m, d)'
      BY <1>7, <3>3, <3>4, <3>7 DEF RejectionOwn
    <3> QED BY <3>5, <3>6, <3>7
  <2> QED BY <1>3, <1>12, <2>5, <2>6
<1> QED BY <1>11, <1>12

\* One event after the other: who is concerned and undisturbed stays in step.
LEMMA PublishInStep ==
    ASSUME IInv, Undoable, InStep, IInv', Undoable', NEW w \in Worker, Publish(w)
    PROVE  InStep'
<1>1. /\ Active(w) /\ req[w].pc = "publish" /\ req[w] \in Request /\ Plan(req[w])
      /\ UNCHANGED <<psk, rows, late>>
  BY PublishFacts
<1>2. PICK e : Publishes(w, e)
  BY PublishFacts
<1>3. PICK q : q = req[w]
  OBVIOUS
<1>4. PICK r : r = Onward(q, e)
  OBVIOUS
<1>5. OwnStep(w, r) /\ LateSuspect' /\ e \in q.todo
  BY <1>2, <1>3, <1>4, PublishOwn DEF Publishes
<1>6. CASE q.wide
  <2>1. r # Idle => Plan(r) /\ r.pc \notin RollBacks
    BY <1>2, <1>3, <1>4, <1>6, PublishWidePlan
  <2>2. ASSUME NEW d \in Device, Free(q, d)
        PROVE  /\ r # Idle => Relies(r, d)'
               /\ <<"keys", d>> \notin suspect'
                     /\ (<<"keys", d>> \in suspect \/ KeyOwn(q, d)) => KeyOwn(r, d)'
               /\ \A m \in Mesh :
                     <<"rejections", <<m, d>>>> \notin suspect'
                        /\ (<<"rejections", <<m, d>>>> \in suspect \/ RejectionOwn(q, m, d))
                     => RejectionOwn(r, m, d)'
    <3>1. Relies(q, d)
      BY <1>1, <1>3, <2>2 DEF InStep, Steady
    <3>2. r # Idle => Relies(r, d)'
      BY <1>2, <1>3, <1>4, <1>6, <3>1, PublishWidePlan
    <3> QED BY <1>2, <1>3, <1>4, <1>6, <2>2, <3>1, <3>2, PublishWideOwn
  <2> QED BY <1>1, <1>3, <1>5, <2>1, <2>2, StepInStep
<1>7. CASE ~q.wide
  <2>1. /\ q.todo = {e} /\ q.row \in DeviceRow /\ q.id \in Row
        /\ q.then = IF q.otherwise = "answer" THEN "remove" ELSE "answer"
        /\ q.otherwise = "answer" => q.was = q.row
    BY <1>1, <1>3, <1>5, <1>7, NarrowPublishes
  <2>2. r # Idle => /\ r.pc = "remove" /\ r.todo = {} /\ r.then = "remove"
                    /\ r.id = q.id /\ r.was = q.was /\ r.otherwise = "answer"
                    /\ q.otherwise = "answer" /\ SameScope(r, q)
    <3>1. q.then = "answer" => r = Idle
      BY <1>1, <1>3, <1>4, <1>5, <2>1, OnwardTodo
    <3>2. r # Idle => r.pc = q.then /\ r.todo = {}
      BY <1>1, <1>3, <1>4, <1>5, <2>1, <3>1, OnwardTodo
    <3>3. r # Idle => /\ r.then = q.then /\ r.id = q.id /\ r.was = q.was
                      /\ r.otherwise = q.otherwise /\ SameScope(r, q)
      BY <1>1, <1>3, <1>4, OnwardFacts
    <3> QED BY <2>1, <3>1, <3>2, <3>3
  <2>3. r # Idle => Plan(r) /\ r.pc \notin RollBacks
    BY <1>7, <2>1, <2>2 DEF Plan, NarrowPlan, SameScope, RollBacks
  <2>4. ASSUME NEW d \in Device, Free(q, d)
        PROVE  /\ r # Idle => Relies(r, d)'
               /\ <<"keys", d>> \notin suspect'
                     /\ (<<"keys", d>> \in suspect \/ KeyOwn(q, d)) => KeyOwn(r, d)'
               /\ \A m \in Mesh :
                     <<"rejections", <<m, d>>>> \notin suspect'
                        /\ (<<"rejections", <<m, d>>>> \in suspect \/ RejectionOwn(q, m, d))
                     => RejectionOwn(r, m, d)'
    <3>1. Relies(q, d)
      BY <1>1, <1>3, <2>4 DEF InStep, Steady
    <3>2. r # Idle => Relies(r, d)'
      BY <1>1, <1>3, <1>7, <2>2, <3>1 DEF Relies, NarrowRelies, SameScope
    <3> QED BY <1>2, <1>3, <1>4, <1>7, <2>4, <3>1, <3>2, PublishNarrowOwn
  <2> QED BY <1>1, <1>3, <1>5, <2>3, <2>4, StepInStep
<1> QED BY <1>6, <1>7

-----------------------------------------------------------------------------
\* Late events, and steps that are none: what is not suspect stays as it is.
LEMMA StillInStep ==
    ASSUME InStep, UNCHANGED <<psk, rows, req, suspect>>, late' \subseteq late,
           \A d \in Device : <<"keys", d>> \notin suspect => keys'[d] = keys[d],
           \A m \in Mesh, d \in Device : <<"rejections", <<m, d>>>> \notin suspect =>
              (<<m, d>> \in rejections' <=> <<m, d>> \in rejections)
    PROVE  InStep'
<1>1. /\ \A m, d : /\ Registering(m, d)' = Registering(m, d)
                   /\ Rejecting(m, d)' = Rejecting(m, d)
      /\ \A d : Registered(d)' = Registered(d)
  BY SameTables
<1>2. \A r, d : /\ Concerns(r, d)' <=> Concerns(r, d)
                /\ Relies(r, d)' <=> Relies(r, d)
  BY <1>1 DEF Concerns, Relies, NarrowRelies, WideRelies
<1>3. \A d : Suspicious(d)' <=> Suspicious(d)
  BY DEF Suspicious
<1>4. \A v : (Active(v)' <=> Active(v)) /\ req'[v] = req[v]
  BY DEF Active
<1>5. Apart'
  BY <1>2, <1>3, <1>4 DEF InStep, Apart, Clash, Meets
<1>6. LateSuspect'
  BY DEF InStep, LateSuspect, KeyOf
<1>7. RollBackSuspect'
  BY <1>2, <1>3, <1>4 DEF InStep, RollBackSuspect
<1>8. Planned'
  BY <1>4 DEF InStep, Planned
<1>9. Steady'
  BY <1>2, <1>3, <1>4 DEF InStep, Steady, Free
<1>10. ASSUME NEW d \in Device PROVE KeyInStep(d)'
  <2> SUFFICES ASSUME <<"keys", d>> \notin suspect'
               PROVE  /\ \A w \in Worker : Active(w) /\ Concerns(req[w], d) => KeyOwn(req[w], d)'
                      /\ (\A w \in Worker : Active(w) => ~Concerns(req[w], d)) =>
                            keys'[d] = Registered(d)'
    BY <1>2, <1>4 DEF KeyInStep
  <2>1. KeyInStep(d) /\ keys'[d] = keys[d]
    BY DEF InStep
  <2>2. \A r : KeyOwn(r, d) => KeyOwn(r, d)'
    BY <1>1, <2>1 DEF KeyOwn, ToPublish, ToDeregister, ToList, Deleting
  <2>3. ASSUME NEW w \in Worker, Active(w), Concerns(req[w], d) PROVE KeyOwn(req[w], d)'
    <3>1. PICK r : r = req[w]
      OBVIOUS
    <3>2. KeyOwn(r, d)'
      BY <2>1, <2>2, <2>3, <3>1 DEF KeyInStep
    <3>3. req'[w] = r
      BY <3>1
    <3> QED BY <3>2, <3>3 DEF KeyOwn, ToPublish, ToDeregister, ToList, Deleting
  <2> QED BY <1>1, <2>1, <2>3 DEF KeyInStep
<1>11. ASSUME NEW m \in Mesh, NEW d \in Device PROVE RejectionInStep(m, d)'
  <2> SUFFICES ASSUME <<"rejections", <<m, d>>>> \notin suspect'
               PROVE  /\ \A w \in Worker : Active(w) /\ Concerns(req[w], d) =>
                            RejectionOwn(req[w], m, d)'
                      /\ (\A w \in Worker : Active(w) => ~Concerns(req[w], d)) =>
                            (<<m, d>> \in rejections' <=> Rejecting(m, d)' # {})
    BY <1>2, <1>4 DEF RejectionInStep
  <2>1. RejectionInStep(m, d) /\ (<<m, d>> \in rejections' <=> <<m, d>> \in rejections)
    BY DEF InStep
  <2>2. \A r : RejectionOwn(r, m, d) => RejectionOwn(r, m, d)'
    BY <1>1, <2>1 DEF RejectionOwn, ToPublish, ToUnreject, Deleting
  <2>3. ASSUME NEW w \in Worker, Active(w), Concerns(req[w], d) PROVE RejectionOwn(req[w], m, d)'
    <3>1. PICK r : r = req[w]
      OBVIOUS
    <3>2. RejectionOwn(r, m, d)'
      BY <2>1, <2>2, <2>3, <3>1 DEF RejectionInStep
    <3>3. req'[w] = r
      BY <3>1
    <3> QED BY <3>2, <3>3 DEF RejectionOwn, ToPublish, ToUnreject, Deleting
  <2> QED BY <1>1, <2>1, <2>3 DEF RejectionInStep
<1> QED BY <1>5, <1>6, <1>7, <1>8, <1>9, <1>10, <1>11 DEF InStep

\* A late event is about something suspect.
LEMMA LateInStep ==
    ASSUME IInv, InStep, DeliverLate \/ ExpireLate
    PROVE  InStep'
<1>1. UNCHANGED <<psk, rows, req, suspect>> /\ late' \subseteq late
  BY DEF DeliverLate, ExpireLate, db
<1>2. CASE ExpireLate
  BY <1>1, <1>2, StillInStep DEF ExpireLate
<1>3. CASE DeliverLate
  <2>1. PICK e \in late : Deliver(e)
    BY <1>3 DEF DeliverLate
  <2>2. e \in Event /\ e[2].op \in {"upsert", "delete"} /\ KeyOf(e) \in suspect /\ Types
    BY DEF IInv, Types, InStep, LateSuspect
  <2>3. /\ \A d \in Device : <<"keys", d>> \notin suspect => keys'[d] = keys[d]
        /\ \A m \in Mesh, d \in Device : <<"rejections", <<m, d>>>> \notin suspect =>
              (<<m, d>> \in rejections' <=> <<m, d>> \in rejections)
    BY <2>1, <2>2, Delivery
  <2> QED BY <1>1, <2>3, StillInStep
<1> QED BY <1>2, <1>3

\* Nothing changes of what the table says of a device.
Unmoved(d) ==
    /\ psk' = psk /\ keys' = keys /\ rejections' = rejections
    /\ \A m \in Mesh : Registering(m, d)' = Registering(m, d) /\ Rejecting(m, d)' = Rejecting(m, d)
    /\ \A m : \A i \in Row : (~Silent(rows'[i], d) /\ rows'[i].mesh = m)
                                <=> (~Silent(rows[i], d) /\ rows[i].mesh = m)
    /\ Registered(d)' = Registered(d)

\* All that history notes of a request under way is whether it was disturbed.
Kin(p, q) ==
    /\ p.pc = q.pc /\ p.wide = q.wide /\ p.id = q.id /\ p.row = q.row /\ p.psk = q.psk
    /\ p.was = q.was /\ p.todo = q.todo /\ p.then = q.then /\ p.otherwise = q.otherwise

\* What a request is about, relies on and has to do does not depend on it.
LEMMA KinFacts ==
    ASSUME NEW d \in Device, Unmoved(d), NEW p \in Request, NEW q, Kin(p, q), Plan(p),
           p.id \in Row => rows'[p.id] = rows[p.id]
    PROVE  /\ Concerns(q, d)' <=> Concerns(p, d)
           /\ Plan(q)
           /\ Concerns(p, d) /\ Relies(p, d) => Relies(q, d)'
           /\ KeyOwn(p, d) => KeyOwn(q, d)'
           /\ \A m \in Mesh : RejectionOwn(p, m, d) => RejectionOwn(q, m, d)'
<1>1. p.wide => p.row.mesh \in Mesh
  BY Shapes DEF WideRequest
<1>2. Concerns(q, d)' <=> Concerns(p, d)
  BY DEF Concerns, Unmoved, Kin
<1>3. Plan(q)
  BY DEF Plan, NarrowPlan, WidePlan, Kin
<1>4. ASSUME Concerns(p, d), Relies(p, d) PROVE Relies(q, d)'
  <2>1. CASE p.wide
    <3>1. WideRelies(p, d)
      BY <1>4, <2>1 DEF Relies
    <3>2. WideRelies(q, d)'
      BY <1>1, <2>1, <3>1 DEF WideRelies, Kin, Unmoved
    <3> QED BY <2>1, <3>2 DEF Relies, Kin
  <2>2. CASE ~p.wide
    <3>1. NarrowRelies(p) /\ p.row.dev = d /\ (p.pc # "insert" => p.id \in Row)
      BY <1>4, <2>2 DEF Relies, Concerns, Plan, NarrowPlan
    <3>2. NarrowRelies(q)'
      BY <3>1 DEF NarrowRelies, Kin, Unmoved
    <3> QED BY <2>2, <3>2 DEF Relies, Kin
  <2> QED BY <2>1, <2>2
<1>5. KeyOwn(p, d) => KeyOwn(q, d)'
  <2>1. /\ ToList(q, d)' <=> ToList(p, d)
        /\ ToDeregister(q, d)' <=> ToDeregister(p, d)
        /\ \A k : ToPublish(q, k)' <=> ToPublish(p, k)
    <3>1. p.pc \in {"meshList", "meshRemove"} \/ p.then = "meshRemove" => p.row.mesh \in Mesh
      BY <1>1, Shapes DEF NarrowRequest
    <3>2. /\ ToList(q, d)' <=> ToList(p, d)
          /\ Deleting(q) <=> Deleting(p)
      BY <3>1 DEF ToList, Deleting, Kin, Unmoved
    <3>3. \A k : ToPublish(q, k)' <=> ToPublish(p, k)
      BY DEF ToPublish, Kin
    <3>4. Deleting(p) => p.row.mesh \in Mesh
      BY <3>1 DEF Deleting
    <3>5. ToDeregister(q, d)' <=> ToDeregister(p, d)
      BY <3>1, <3>2, <3>4 DEF ToDeregister, Deleting, Kin, Unmoved
    <3> QED BY <3>2, <3>3, <3>5
  <2> QED BY <2>1 DEF KeyOwn, Unmoved
<1>6. ASSUME NEW m \in Mesh, RejectionOwn(p, m, d) PROVE RejectionOwn(q, m, d)'
  <2>1. /\ ToUnreject(q, m, d)' <=> ToUnreject(p, m, d)
        /\ \A k : ToPublish(q, k)' <=> ToPublish(p, k)
    BY DEF ToUnreject, Deleting, ToPublish, Kin, Unmoved
  <2> QED BY <1>6, <2>1 DEF RejectionOwn, Unmoved, Kin
<1> QED BY <1>2, <1>3, <1>4, <1>5, <1>6

\* A request that another step is noted to disturb goes on as it was.
LEMMA SideFacts ==
    ASSUME Types, Planned, NEW d \in Device, Unmoved(d), NEW v \in Worker, Active(v),
           Kin(req[v], req'[v]), req[v].id \in Row => rows'[req[v].id] = rows[req[v].id]
    PROVE  /\ Active(v)' /\ Plan(req[v])'
           /\ Concerns(req[v], d)' <=> Concerns(req[v], d)
           /\ Concerns(req[v], d) /\ Relies(req[v], d) => Relies(req[v], d)'
           /\ KeyOwn(req[v], d) => KeyOwn(req[v], d)'
           /\ \A m \in Mesh : RejectionOwn(req[v], m, d) => RejectionOwn(req[v], m, d)'
<1>1. PICK p : p = req[v]
  OBVIOUS
<1>2. PICK q : q = req'[v]
  OBVIOUS
<1>3. p \in Request /\ Plan(p) /\ Kin(p, q) /\ (p.id \in Row => rows'[p.id] = rows[p.id])
  BY <1>1, <1>2, RequestFacts DEF Planned
<1>4. /\ Concerns(q, d)' <=> Concerns(p, d)
      /\ Plan(q)
      /\ Concerns(p, d) /\ Relies(p, d) => Relies(q, d)'
      /\ KeyOwn(p, d) => KeyOwn(q, d)'
      /\ \A m \in Mesh : RejectionOwn(p, m, d) => RejectionOwn(q, m, d)'
  BY <1>3, KinFacts
<1>5. Active(v)'
  BY <1>1, <1>2, <1>3 DEF Active, Kin
<1>6. Concerns(req[v], d)' <=> Concerns(q, d)'
  BY <1>2 DEF Concerns
<1>7. Relies(req[v], d)' <=> Relies(q, d)'
  BY <1>2 DEF Relies, NarrowRelies, WideRelies
<1>8. KeyOwn(req[v], d)' <=> KeyOwn(q, d)'
  BY <1>2 DEF KeyOwn, ToPublish, ToDeregister, ToList, Deleting
<1>9. \A m : RejectionOwn(req[v], m, d)' <=> RejectionOwn(q, m, d)'
  BY <1>2 DEF RejectionOwn, ToPublish, ToUnreject, Deleting
<1>10. Plan(req[v])'
  BY <1>2, <1>4 DEF Plan, NarrowPlan, WidePlan
<1> QED BY <1>1, <1>4, <1>5, <1>6, <1>7, <1>8, <1>9, <1>10

\* A node that is seen has a row that says nothing to the decoder.
LEMMA SightInStep ==
    ASSUME IInv, Undoable, InStep, IInv', Undoable', Sight
    PROVE  InStep'
<1>1. PICK x \in Device, m \in meshes, i \in Row \ Occupied :
        LET row == [dev |-> x, mesh |-> m, gateway |-> FALSE, allowed |-> TRUE] IN
        /\ i \notin {req[w].id : w \in {w \in Worker : Active(w)}}
        /\ rows' = [rows EXCEPT ![i] = row]
        /\ req' = [w \in Worker |->
                     IF Active(w) /\ x \in Touches(req[w]) THEN [req[w] EXCEPT !.clean = FALSE]
                     ELSE req[w]]
        /\ UNCHANGED <<psk, keys, rejections, late, suspect>>
  BY DEF Sight, kafka
<1>2. Types /\ Types' /\ Unique /\ Unique' /\ Planned
  BY DEF IInv, Undoable, InStep
<1>3. \A j \in Row : j # i => rows'[j] = rows[j]
  BY <1>1, <1>2 DEF Types
<1>4. ASSUME NEW d \in Device PROVE Unmoved(d)
  <2>1. SameRows(d)
    <3>1. rows[i] = NoRow /\ rows'[i].dev = x /\ ~rows'[i].gateway /\ rows'[i].allowed
      BY <1>1, <1>2 DEF Types, Occupied
    <3> QED BY <1>3, <3>1 DEF SameRows, Silent
  <2>2. /\ \A n : Registering(n, d)' = Registering(n, d)
        /\ \A n : Rejecting(n, d)' = Rejecting(n, d)
        /\ \A n : \A j \in Row : (~Silent(rows'[j], d) /\ rows'[j].mesh = n)
                             <=> (~Silent(rows[j], d) /\ rows[j].mesh = n)
    BY <1>2, <2>1, SameView
  <2>3. Registered(d)' = Registered(d)
    BY <1>1, <1>2, <2>2, SameRegistered
  <2> QED BY <1>1, <2>2, <2>3 DEF Unmoved
<1>5. ASSUME NEW v \in Worker, Active(v)'
      PROVE  /\ Active(v) /\ Kin(req[v], req'[v]) /\ (req'[v].clean => req[v].clean)
             /\ req[v].id \in Row => rows'[req[v].id] = rows[req[v].id]
  <2>1. CASE Active(v) /\ x \in Touches(req[v])
    <3>1. req'[v] = [req[v] EXCEPT !.clean = FALSE] /\ req[v] \in Request
      BY <1>1, <1>2, <2>1, RequestFacts
    <3>2. Kin(req[v], req'[v]) /\ req'[v].clean = FALSE
      BY <3>1, Unclean DEF Kin
    <3> QED BY <1>1, <1>3, <2>1, <3>2
  <2>2. CASE ~(Active(v) /\ x \in Touches(req[v]))
    <3>1. req'[v] = req[v]
      BY <1>1, <2>2
    <3>2. Active(v)
      BY <1>5, <3>1 DEF Active
    <3> QED BY <1>1, <1>3, <3>1, <3>2 DEF Kin
  <2> QED BY <2>1, <2>2
<1>6. ASSUME NEW v \in Worker, Active(v) PROVE Active(v)'
  <2>1. req'[v] = req[v] \/ req'[v] = [req[v] EXCEPT !.clean = FALSE]
    BY <1>1
  <2>2. req'[v].pc = req[v].pc
    BY <1>2, <1>6, <2>1, RequestFacts, Unclean
  <2> QED BY <1>6, <2>2 DEF Active
<1>7. ASSUME NEW v \in Worker, Active(v)', NEW d \in Device
      PROVE  /\ Plan(req[v])'
             /\ Concerns(req[v], d)' <=> Concerns(req[v], d)
             /\ Concerns(req[v], d) /\ Relies(req[v], d) => Relies(req[v], d)'
             /\ KeyOwn(req[v], d) => KeyOwn(req[v], d)'
             /\ \A n \in Mesh : RejectionOwn(req[v], n, d) => RejectionOwn(req[v], n, d)'
  BY <1>2, <1>4, <1>5, <1>7, SideFacts
<1>8. \A d : Suspicious(d)' <=> Suspicious(d)
  BY <1>1 DEF Suspicious
<1>9. Apart'
  <2> SUFFICES ASSUME NEW u \in Worker, NEW v \in Worker, NEW d \in Device, u # v,
                      Active(u)', Active(v)', Clash(req[u], req[v], d)'
               PROVE  ~req'[u].clean /\ ~req'[v].clean /\ Suspicious(d)'
    BY DEF Apart
  <2>1. Clash(req[u], req[v], d)
    BY <1>5, <1>7 DEF Clash, Meets, Kin
  <2> QED BY <1>5, <1>8, <2>1 DEF InStep, Apart
<1>10. LateSuspect'
  BY <1>1 DEF InStep, LateSuspect, KeyOf
<1>11. RollBackSuspect'
  <2>1. ASSUME NEW v \in Worker, NEW d \in Device, Active(v)', req'[v].pc \in RollBacks,
               Concerns(req[v], d)'
        PROVE  Suspicious(d)'
    BY <1>5, <1>7, <1>8, <2>1 DEF InStep, RollBackSuspect, Kin
  <2> QED BY <2>1 DEF RollBackSuspect
<1>12. Planned'
  <2>1. \E d : d \in Device
    BY <1>1
  <2> QED BY <1>7, <2>1 DEF Planned
<1>13. Steady'
  <2> SUFFICES ASSUME NEW v \in Worker, NEW d \in Device, Active(v)', Free(req[v], d)'
               PROVE  Relies(req[v], d)'
    BY DEF Steady
  <2>1. Active(v) /\ Free(req[v], d) /\ Concerns(req[v], d)
    BY <1>5, <1>7, <1>8 DEF Free
  <2> QED BY <1>7, <2>1 DEF InStep, Steady
<1>14. ASSUME NEW d \in Device PROVE KeyInStep(d)'
  <2>1. KeyInStep(d) /\ keys'[d] = keys[d] /\ Registered(d)' = Registered(d)
    BY <1>1, <1>4 DEF InStep, Unmoved
  <2>2. \A v \in Worker : Active(v)' /\ Concerns(req[v], d)' => Active(v) /\ Concerns(req[v], d)
    BY <1>5, <1>7
  <2>3. \A v \in Worker : Active(v) /\ Concerns(req[v], d) => Active(v)' /\ Concerns(req[v], d)'
    BY <1>6, <1>7
  <2> QED BY <1>1, <1>7, <2>1, <2>2, <2>3 DEF KeyInStep
<1>15. ASSUME NEW n \in Mesh, NEW d \in Device PROVE RejectionInStep(n, d)'
  <2>1. RejectionInStep(n, d) /\ rejections' = rejections /\ Rejecting(n, d)' = Rejecting(n, d)
    BY <1>1, <1>4 DEF InStep, Unmoved
  <2>2. \A v \in Worker : Active(v)' /\ Concerns(req[v], d)' => Active(v) /\ Concerns(req[v], d)
    BY <1>5, <1>7
  <2>3. \A v \in Worker : Active(v) /\ Concerns(req[v], d) => Active(v)' /\ Concerns(req[v], d)'
    BY <1>6, <1>7
  <2> QED BY <1>1, <1>7, <2>1, <2>2, <2>3 DEF RejectionInStep
<1> QED BY <1>9, <1>10, <1>11, <1>12, <1>13, <1>14, <1>15 DEF InStep

\* Requests that clash over a device meet on it.
LEMMA ClashMeets ==
    ASSUME NEW p, NEW q, NEW d \in Device, Clash(p, q, d)
    PROVE  d \in Meet(p, q) /\ Disturb(p, q)
<1>1. CASE Concerns(p, d) /\ Concerns(q, d)
  BY <1>1, ConcernsTouches DEF Meet, Disturb
<1>2. CASE Meets(p, q, d) \/ Meets(q, p, d)
  <2>1. PICK x \in {p, q} : ~x.wide /\ x.row.dev = d
    BY <1>2 DEF Meets
  <2>2. p.row.mesh = q.row.mesh /\ p.wide # q.wide
    BY <1>2 DEF Meets
  <2>3. d \in Touches(x) /\ x \in {y \in {p, q} : ~y.wide}
    BY <2>1 DEF Touches
  <2>4. d \in UNION {Touches(y) : y \in {z \in {p, q} : ~z.wide}}
    BY <2>3
  <2> QED BY <2>2, <2>4 DEF Meet, Disturb
<1> QED BY <1>1, <1>2 DEF Clash

\* A request begins: it has all to do, and whoever it meets is noted.
LEMMA BeginInStep ==
    ASSUME IInv, Undoable, InStep, IInv', Undoable',
           NEW w \in Worker, NEW r \in Request, Begin(w, r), Fresh(r)
    PROVE  InStep'
<1> DEFINE rivals == {v \in Worker : Active(v) /\ Disturb(r, req[v])}
<1>1. /\ UNCHANGED <<meshes, psk, rows, keys, rejections, late>> /\ ~Active(w)
      /\ req' = [v \in Worker |->
                   IF v = w THEN [r EXCEPT !.clean = rivals = {}]
                   ELSE IF v \in rivals THEN [req[v] EXCEPT !.clean = FALSE]
                   ELSE req[v]]
      /\ suspect' = suspect \cup KeysAbout(UNION {Meet(r, req[v]) : v \in rivals})
  BY DEF Begin, db, kafka
<1>2. Types /\ Types' /\ Planned
  BY DEF IInv, InStep
<1>3. \A v \in Worker : v \in rivals <=> Active(v) /\ Disturb(r, req[v])
  OBVIOUS
<1>4. rivals \subseteq Worker
  OBVIOUS
<1> HIDE DEF rivals
<1>5. /\ Kin(r, req'[w]) /\ (req'[w].clean => rivals = {})
  <2>1. PICK b \in BOOLEAN : (b => rivals = {}) /\ req'[w] = [r EXCEPT !.clean = b]
    BY <1>1
  <2> QED BY <2>1, Unclean DEF Kin
<1>6. ASSUME NEW v \in Worker, v # w, Active(v)
      PROVE  /\ Active(v)' /\ Kin(req[v], req'[v])
             /\ req'[v].clean => req[v].clean /\ v \notin rivals
  <2>1. CASE v \in rivals
    <3>1. req'[v] = [req[v] EXCEPT !.clean = FALSE] /\ req[v] \in Request
      BY <1>1, <1>2, <1>6, <2>1, RequestFacts
    <3>2. Kin(req[v], req'[v]) /\ req'[v].clean = FALSE
      BY <3>1, Unclean DEF Kin
    <3> QED BY <1>6, <3>2 DEF Active, Kin
  <2>2. CASE v \notin rivals
    <3>1. req'[v] = req[v]
      BY <1>1, <1>6, <2>2
    <3> QED BY <1>6, <2>2, <3>1 DEF Active, Kin
  <2> QED BY <2>1, <2>2
<1>7. ASSUME NEW v \in Worker, v # w, Active(v)' PROVE Active(v)
  <2>1. CASE v \in rivals
    BY <1>3, <2>1
  <2>2. CASE v \notin rivals
    BY <1>1, <1>7, <2>2 DEF Active
  <2> QED BY <2>1, <2>2
<1>8. ASSUME NEW d \in Device PROVE Unmoved(d)
  BY <1>1, SameTables DEF Unmoved
<1>9. ASSUME NEW v \in Worker, v # w, Active(v), NEW d \in Device
      PROVE  /\ Plan(req[v])'
             /\ Concerns(req[v], d)' <=> Concerns(req[v], d)
             /\ Concerns(req[v], d) /\ Relies(req[v], d) => Relies(req[v], d)'
             /\ KeyOwn(req[v], d) => KeyOwn(req[v], d)'
             /\ \A m \in Mesh : RejectionOwn(req[v], m, d) => RejectionOwn(req[v], m, d)'
  BY <1>1, <1>2, <1>6, <1>8, <1>9, SideFacts
<1>10. /\ Plan(r) /\ r.pc \notin RollBacks \cup {"meshList"}
       /\ \A d \in Device :
             /\ Concerns(r, d) => Relies(r, d)
             /\ Concerns(r, d) /\ ToDeregister(r, d) => ToPublish(r, <<"keys", d>>)
             /\ \A m \in Mesh : Concerns(r, d) /\ ToUnreject(r, m, d) =>
                   ToPublish(r, <<"rejections", <<m, d>>>>)
  BY DEF Fresh, Begun
<1>11. PICK s : s = req'[w]
  OBVIOUS
<1>12. ASSUME NEW d \in Device
       PROVE  /\ Plan(s)
              /\ Concerns(req[w], d)' <=> Concerns(r, d)
              /\ Concerns(r, d) => Relies(req[w], d)'
              /\ KeyOwn(r, d) => KeyOwn(req[w], d)'
              /\ \A m \in Mesh : RejectionOwn(r, m, d) => RejectionOwn(req[w], m, d)'
  <2>1. Kin(r, s) /\ Unmoved(d) /\ (r.id \in Row => rows'[r.id] = rows[r.id])
    BY <1>1, <1>5, <1>8, <1>11
  <2>2. /\ Concerns(s, d)' <=> Concerns(r, d)
        /\ Plan(s)
        /\ Concerns(r, d) /\ Relies(r, d) => Relies(s, d)'
        /\ KeyOwn(r, d) => KeyOwn(s, d)'
        /\ \A m \in Mesh : RejectionOwn(r, m, d) => RejectionOwn(s, m, d)'
    BY <1>10, <2>1, KinFacts
  <2>3. Concerns(req[w], d)' <=> Concerns(s, d)'
    BY <1>11 DEF Concerns
  <2>4. Relies(req[w], d)' <=> Relies(s, d)'
    BY <1>11 DEF Relies, NarrowRelies, WideRelies
  <2>5. KeyOwn(req[w], d)' <=> KeyOwn(s, d)'
    BY <1>11 DEF KeyOwn, ToPublish, ToDeregister, ToList, Deleting
  <2>6. \A m : RejectionOwn(req[w], m, d)' <=> RejectionOwn(s, m, d)'
    BY <1>11 DEF RejectionOwn, ToPublish, ToUnreject, Deleting
  <2> QED BY <1>10, <2>2, <2>3, <2>4, <2>5, <2>6
<1>13. suspect \subseteq suspect' /\ \A d : Suspicious(d) => Suspicious(d)'
  BY <1>1 DEF Suspicious
<1>14. ASSUME NEW v \in Worker, v # w, Active(v), NEW d \in Device, Clash(r, req[v], d)
       PROVE  ~req'[v].clean /\ ~req'[w].clean /\ Suspicious(d)'
  <2>1. d \in Meet(r, req[v]) /\ v \in rivals
    BY <1>3, <1>14, ClashMeets
  <2>2. Suspicious(d)'
    <3>1. d \in UNION {Meet(r, req[u]) : u \in rivals}
      BY <2>1
    <3>2. KeysAbout({d}) \subseteq KeysAbout(UNION {Meet(r, req[u]) : u \in rivals})
      BY <3>1, SuspectKeys
    <3> QED BY <1>1, <3>2 DEF Suspicious
  <2> QED BY <1>5, <1>6, <1>14, <2>1, <2>2
<1>15. Apart'
  <2> SUFFICES ASSUME NEW u \in Worker, NEW v \in Worker, NEW d \in Device, u # v,
                      Active(u)', Active(v)', Clash(req[u], req[v], d)'
               PROVE  ~req'[u].clean /\ ~req'[v].clean /\ Suspicious(d)'
    BY DEF Apart
  <2>1. CASE u # w /\ v # w
    <3>1. Active(u) /\ Active(v)
      BY <1>7, <2>1
    <3>2. Clash(req[u], req[v], d)
      BY <1>6, <1>9, <2>1, <3>1 DEF Clash, Meets, Kin
    <3>3. ~req[u].clean /\ ~req[v].clean /\ Suspicious(d)
      BY <3>1, <3>2 DEF InStep, Apart
    <3> QED BY <1>6, <1>13, <2>1, <3>1, <3>3
  <2>2. CASE u = w
    <3>1. Active(v) /\ v # w
      BY <1>7, <2>2
    <3>2. Clash(r, req[v], d)
      BY <1>5, <1>6, <1>9, <1>12, <2>2, <3>1 DEF Clash, Meets, Kin
    <3> QED BY <1>14, <2>2, <3>1, <3>2
  <2>3. CASE v = w
    <3>1. Active(u) /\ u # w
      BY <1>7, <2>3
    <3>2. Clash(r, req[u], d)
      BY <1>5, <1>6, <1>9, <1>12, <2>3, <3>1 DEF Clash, Meets, Kin
    <3> QED BY <1>14, <2>3, <3>1, <3>2
  <2> QED BY <2>1, <2>2, <2>3
<1>16. LateSuspect'
  BY <1>1, <1>13 DEF InStep, LateSuspect, KeyOf
<1>17. RollBackSuspect'
  <2> SUFFICES ASSUME NEW v \in Worker, NEW d \in Device, Active(v)', req'[v].pc \in RollBacks,
                      Concerns(req[v], d)'
               PROVE  Suspicious(d)'
    BY DEF RollBackSuspect
  <2>1. v # w
    BY <1>5, <1>10 DEF Kin
  <2>2. Active(v) /\ req[v].pc \in RollBacks /\ Concerns(req[v], d)
    BY <1>6, <1>7, <1>9, <2>1 DEF Kin
  <2> QED BY <1>13, <2>2 DEF InStep, RollBackSuspect
<1>18. Planned'
  <2> SUFFICES ASSUME NEW v \in Worker, Active(v)' PROVE Plan(req[v])'
    BY DEF Planned
  <2>1. CASE v = w
    <3>1. Plan(s)
      BY <1>5, <1>10, <1>11 DEF Plan, NarrowPlan, WidePlan, Kin
    <3> QED BY <1>11, <2>1, <3>1 DEF Plan, NarrowPlan, WidePlan
  <2>2. CASE v # w
    <3>1. Kin(req[v], req'[v]) /\ Plan(req[v])
      BY <1>2, <1>6, <1>7, <2>2 DEF Planned
    <3> QED BY <3>1 DEF Plan, NarrowPlan, WidePlan, Kin
  <2> QED BY <2>1, <2>2
<1>19. Steady'
  <2> SUFFICES ASSUME NEW v \in Worker, NEW d \in Device, Active(v)', Free(req[v], d)'
               PROVE  Relies(req[v], d)'
    BY DEF Steady
  <2>1. CASE v = w
    BY <1>12, <2>1 DEF Free
  <2>2. CASE v # w
    <3>1. Active(v) /\ Free(req[v], d) /\ Concerns(req[v], d)
      BY <1>6, <1>7, <1>9, <1>13, <2>2 DEF Free
    <3> QED BY <1>9, <2>2, <3>1 DEF InStep, Steady
  <2> QED BY <2>1, <2>2
<1>20. ASSUME NEW d \in Device, ~Suspicious(d)', Concerns(r, d), NEW v \in Worker, Active(v)
       PROVE  ~Concerns(req[v], d)
  <2>1. v # w
    BY <1>1, <1>20
  <2> QED BY <1>14, <1>20, <2>1 DEF Clash
<1>21. ASSUME NEW d \in Device PROVE KeyInStep(d)'
  <2> SUFFICES ASSUME <<"keys", d>> \notin suspect'
               PROVE  /\ \A v \in Worker : Active(v)' /\ Concerns(req[v], d)' => KeyOwn(req[v], d)'
                      /\ (\A v \in Worker : Active(v)' => ~Concerns(req[v], d)') =>
                            keys'[d] = Registered(d)'
    BY DEF KeyInStep
  <2>1. /\ \A v \in Worker : Active(v) /\ Concerns(req[v], d) => KeyOwn(req[v], d)
        /\ (\A v \in Worker : Active(v) => ~Concerns(req[v], d)) => keys[d] = Registered(d)
    BY <1>13 DEF InStep, KeyInStep
  <2>2. keys'[d] = keys[d] /\ Registered(d)' = Registered(d)
    BY <1>8 DEF Unmoved
  <2>3. ~Suspicious(d)'
    BY SuspectKeys DEF Suspicious
  <2>4. ASSUME Concerns(r, d) PROVE KeyOwn(r, d)
    <3>1. keys[d] = Registered(d)
      BY <1>20, <2>1, <2>3, <2>4
    <3>2. ~ToList(r, d) /\ (ToDeregister(r, d) => ToPublish(r, <<"keys", d>>))
      BY <1>10, <2>4 DEF ToList
    <3> QED BY <3>1, <3>2 DEF KeyOwn
  <2>5. ASSUME NEW v \in Worker, Active(v)', Concerns(req[v], d)' PROVE KeyOwn(req[v], d)'
    <3>1. CASE v = w
      BY <1>12, <2>4, <2>5, <3>1
    <3>2. CASE v # w
      BY <1>7, <1>9, <2>1, <2>5, <3>2
    <3> QED BY <3>1, <3>2
  <2>6. ASSUME \A v \in Worker : Active(v)' => ~Concerns(req[v], d)'
        PROVE  \A v \in Worker : Active(v) => ~Concerns(req[v], d)
    BY <1>1, <1>6, <1>9, <2>6
  <2> QED BY <2>1, <2>2, <2>5, <2>6
<1>22. ASSUME NEW m \in Mesh, NEW d \in Device PROVE RejectionInStep(m, d)'
  <2> SUFFICES ASSUME <<"rejections", <<m, d>>>> \notin suspect'
               PROVE  /\ \A v \in Worker : Active(v)' /\ Concerns(req[v], d)' =>
                            RejectionOwn(req[v], m, d)'
                      /\ (\A v \in Worker : Active(v)' => ~Concerns(req[v], d)') =>
                            (<<m, d>> \in rejections' <=> Rejecting(m, d)' # {})
    BY DEF RejectionInStep
  <2>1. /\ \A v \in Worker : Active(v) /\ Concerns(req[v], d) => RejectionOwn(req[v], m, d)
        /\ (\A v \in Worker : Active(v) => ~Concerns(req[v], d)) =>
              (<<m, d>> \in rejections <=> Rejecting(m, d) # {})
    BY <1>13 DEF InStep, RejectionInStep
  <2>2. rejections' = rejections /\ Rejecting(m, d)' = Rejecting(m, d)
    BY <1>8 DEF Unmoved
  <2>3. ~Suspicious(d)'
    BY SuspectKeys DEF Suspicious
  <2>4. ASSUME Concerns(r, d) PROVE RejectionOwn(r, m, d)
    <3>1. <<m, d>> \in rejections <=> Rejecting(m, d) # {}
      BY <1>20, <2>1, <2>3, <2>4
    <3>2. ToUnreject(r, m, d) => ToPublish(r, <<"rejections", <<m, d>>>>)
      BY <1>10, <2>4
    <3> QED BY <3>1, <3>2 DEF RejectionOwn
  <2>5. ASSUME NEW v \in Worker, Active(v)', Concerns(req[v], d)' PROVE RejectionOwn(req[v], m, d)'
    <3>1. CASE v = w
      BY <1>12, <2>4, <2>5, <3>1
    <3>2. CASE v # w
      BY <1>7, <1>9, <2>1, <2>5, <3>2
    <3> QED BY <3>1, <3>2
  <2>6. ASSUME \A v \in Worker : Active(v)' => ~Concerns(req[v], d)'
        PROVE  \A v \in Worker : Active(v) => ~Concerns(req[v], d)
    BY <1>1, <1>6, <1>9, <2>6
  <2> QED BY <2>1, <2>2, <2>5, <2>6
<1> QED BY <1>15, <1>16, <1>17, <1>18, <1>19, <1>21, <1>22 DEF InStep

-----------------------------------------------------------------------------
\* To begin with the decoder knows what the table says, and no request is under way.
LEMMA InitInStep == Init => InStep
<1> SUFFICES ASSUME Init PROVE InStep
  OBVIOUS
<1>1. \A w \in Worker : ~Active(w)
  BY DEF Init, Active, Idle
<1>2. Apart /\ LateSuspect /\ RollBackSuspect /\ Planned /\ Steady
  BY <1>1 DEF Init, Apart, LateSuspect, RollBackSuspect, Planned, Steady
<1>3. \A d \in Device : KeyInStep(d)
  BY <1>1 DEF Init, KeyInStep
<1>4. ASSUME NEW m \in Mesh, NEW d \in Device
      PROVE  <<m, d>> \in rejections <=> Rejecting(m, d) # {}
  <2>1. rejections = {<<rows[i].mesh, rows[i].dev>> : i \in UNION {RejectedNodes(n) : n \in Mesh}}
    BY DEF Init
  <2>2. ASSUME <<m, d>> \in rejections PROVE Rejecting(m, d) # {}
    <3>1. PICK i \in UNION {RejectedNodes(n) : n \in Mesh} :
             <<m, d>> = <<rows[i].mesh, rows[i].dev>>
      BY <2>1, <2>2
    <3>2. i \in Rejecting(m, d)
      BY <3>1 DEF Rejecting, RejectedNodes, RowsOf
    <3> QED BY <3>2
  <2>3. ASSUME NEW i \in Rejecting(m, d) PROVE <<m, d>> \in rejections
    <3>1. i \in RejectedNodes(m) /\ rows[i].mesh = m /\ rows[i].dev = d
      BY <2>3 DEF Rejecting, RejectedNodes, RowsOf
    <3>2. i \in UNION {RejectedNodes(n) : n \in Mesh}
      BY <3>1
    <3> QED BY <2>1, <3>1, <3>2
  <2> QED BY <2>2, <2>3
<1> QED BY <1>1, <1>2, <1>3, <1>4 DEF InStep, RejectionInStep

\* Every step keeps the decoder in step.
LEMMA NextInStep == IInv /\ Undoable /\ InStep /\ [Next]_vars => InStep'
<1> SUFFICES ASSUME IInv, Undoable, InStep, [Next]_vars PROVE InStep'
  OBVIOUS
<1>0. IInv' /\ Undoable'
  BY StepIInv, StepUndoable
<1>1. CASE UNCHANGED vars
  BY <1>1, StillInStep DEF vars, db, kafka
<1>2. CASE DeliverLate \/ ExpireLate
  BY <1>2, LateInStep
<1>3. ASSUME NEW w \in Worker,
             \/ PostDevice(w) \/ Seed(w) \/ PutDevice(w) \/ DeleteDevice(w)
             \/ PutMesh(w) \/ DeleteMesh(w)
      PROVE  InStep'
  <2>1. PICK r \in Request : Begin(w, r) /\ Fresh(r)
    BY <1>3, DeviceRequests, MeshRequests
  <2> QED BY <1>0, <2>1, BeginInStep
<1>4. ASSUME NEW w \in Worker, Insert(w) \/ Save(w) PROVE InStep'
  BY <1>0, <1>4, InsertInStep, SaveInStep
<1>5. ASSUME NEW w \in Worker, Remove(w) PROVE InStep'
  <2>1. OnlyOwn(w) /\ req[w].pc \in {"remove", "rollBackInsert"}
    BY <1>5, EndsOwn DEF Remove
  <2> QED BY <1>0, <1>5, <2>1, RemoveInStep, EndsSuspect
<1>6. ASSUME NEW w \in Worker, RollBackSave(w) \/ RollBackMesh(w) \/ Crash(w) PROVE InStep'
  BY <1>0, <1>6, EndsOwn, EndsSuspect
<1>7. ASSUME NEW w \in Worker, RemoveMesh(w) PROVE InStep'
  BY <1>0, <1>7, EndsOwn, RemoveMeshInStep
<1>8. ASSUME NEW w \in Worker, SaveMesh(w) \/ ListGateways(w) PROVE InStep'
  BY <1>0, <1>8, SaveMeshInStep, ListInStep
<1>9. ASSUME NEW w \in Worker, Publish(w) \/ PublishFails(w) PROVE InStep'
  BY <1>0, <1>9, PublishInStep, PublishFailsInStep
<1>10. CASE Sight
  BY <1>0, <1>10, SightInStep
<1> QED BY <1>1, <1>2, <1>3, <1>4, <1>5, <1>6, <1>7, <1>8, <1>9, <1>10, ConnectionLost DEF Next

\* What history and the bounds range over.
Noted ==
    /\ rejections \subseteq Mesh \X Device
    /\ granted \subseteq Device \X Mesh
    /\ suspect \subseteq KeysAbout(Device)
    /\ served \in 0..MaxRequests
    /\ faults \in 0..MaxFaults

\* From nothing suspect.
LEMMA InitNoted == Init => Noted
<1> SUFFICES ASSUME Init PROVE Noted
  OBVIOUS
<1>1. \A i \in Occupied : rows[i] \in DeviceRow
  BY DEF Init, Occupied
<1>2. rejections \subseteq Mesh \X Device
  <2>1. \A i \in UNION {RejectedNodes(m) : m \in Mesh} : i \in Occupied
    BY DEF RejectedNodes, RowsOf
  <2> QED BY <1>1, <2>1 DEF Init, DeviceRow
<1>3. granted \subseteq Device \X Mesh
  BY <1>1 DEF Init, Granted, DeviceRow
<1> QED BY <1>2, <1>3 DEF Init, Noted

\* Requests are about devices.
LEMMA TouchesDevices ==
    ASSUME Types, NEW r \in Request, Plan(r)
    PROVE  Touches(r) \subseteq Device
<1>1. CASE r.wide
  <2>1. r.todo \subseteq Event
    BY DEF Request, NarrowRequest, WideRequest
  <2>2. \A e \in r.todo : DeviceOf(e) \in Device
    BY <2>1, EventKeys DEF Plan
  <2>3. \A i \in RowsOf(r.row.mesh) : rows[i].dev \in Device
    BY DEF RowsOf, Occupied, Types, DeviceRow
  <2> QED BY <1>1, <2>2, <2>3 DEF Touches
<1>2. CASE ~r.wide
  <2>1. r \in NarrowRequest
    BY <1>2, Shapes
  <2> QED BY <1>2, <2>1 DEF Touches, NarrowRequest, DeviceRow
<1> QED BY <1>1, <1>2

\* What is about some devices is about devices.
LEMMA MoreKeys ==
    ASSUME NEW D, D \subseteq Device
    PROVE  KeysAbout(D) \subseteq KeysAbout(Device)
  BY DEF KeysAbout

\* Only nodes are rejected, on meshes.
LEMMA DeliveredNoted ==
    ASSUME NEW e \in Event, Deliver(e), rejections \subseteq Mesh \X Device
    PROVE  rejections' \subseteq Mesh \X Device
<1>1. CASE e[1] = "keys"
  BY <1>1 DEF Deliver
<1>2. CASE e[1] # "keys"
  <2>1. e[2] \in RejectionEvent /\ rejections' = RejectedAfter(rejections, e[2])
    BY <1>2 DEF Event, Deliver
  <2> QED BY <2>1 DEF RejectedAfter, RejectionEvent, Device
<1> QED BY <1>1, <1>2

\* Every step keeps to these ranges.
LEMMA StepNoted == IInv /\ Undoable /\ InStep /\ Noted /\ [Next]_vars => Noted'
<1> SUFFICES ASSUME IInv, Undoable, InStep, Noted, [Next]_vars PROVE Noted'
  OBVIOUS
<1>0. Types /\ Planned
  BY DEF IInv, InStep
<1>1. CASE UNCHANGED vars
  BY <1>1 DEF vars, db, kafka, bounds, Noted
<1>2. CASE DeliverLate \/ ExpireLate
  <2>1. UNCHANGED <<granted, suspect, served, faults>>
    BY <1>2 DEF DeliverLate, ExpireLate, bounds
  <2>2. rejections' \subseteq Mesh \X Device
    <3>1. CASE ExpireLate
      BY <3>1 DEF ExpireLate, Noted
    <3>2. CASE DeliverLate
      <4>1. PICK e \in late : Deliver(e)
        BY <3>2 DEF DeliverLate
      <4> QED BY <1>0, <4>1, DeliveredNoted DEF Types, Noted
    <3> QED BY <1>2, <3>1, <3>2
  <2> QED BY <2>1, <2>2 DEF Noted
<1>3. ASSUME NEW w \in Worker,
             \/ PostDevice(w) \/ Seed(w) \/ PutDevice(w) \/ DeleteDevice(w)
             \/ PutMesh(w) \/ DeleteMesh(w)
      PROVE  Noted'
  <2>1. PICK r \in Request : Begin(w, r) /\ Fresh(r)
    BY <1>3, DeviceRequests, MeshRequests
  <2> DEFINE rivals == {v \in Worker : Active(v) /\ Disturb(r, req[v])}
  <2>2. /\ UNCHANGED <<rejections, granted, faults>>
        /\ served < MaxRequests /\ served' = served + 1
        /\ suspect' = suspect \cup KeysAbout(UNION {Meet(r, req[v]) : v \in rivals})
    BY <2>1 DEF Begin, kafka
  <2>3. ASSUME NEW v \in rivals PROVE Meet(r, req[v]) \subseteq Device
    <3>1. req[v] \in Request /\ Plan(req[v]) /\ Plan(r)
      BY <1>0, <2>1, RequestFacts DEF Planned, Fresh, Begun
    <3>2. Touches(r) \subseteq Device /\ Touches(req[v]) \subseteq Device
      BY <1>0, <3>1, TouchesDevices
    <3>3. \A x \in {y \in {r, req[v]} : ~y.wide} : Touches(x) \subseteq Device
      BY <3>2
    <3> QED BY <3>2, <3>3 DEF Meet
  <2> HIDE DEF rivals
  <2>4. KeysAbout(UNION {Meet(r, req[v]) : v \in rivals}) \subseteq KeysAbout(Device)
    BY <2>3, MoreKeys
  <2> QED BY <2>2, <2>4 DEF Noted
<1>4. ASSUME NEW w \in Worker, Insert(w) \/ Save(w) PROVE Noted'
  <2>1. req[w] \in NarrowRequest /\ UNCHANGED <<rejections, suspect, served, faults>>
    BY <1>0, <1>4, RequestFacts, Shapes DEF Insert, Save, Active, kafka, bounds
  <2>2. granted' = granted \/ granted' = granted \cup Granted(req[w].row)
    BY <1>4 DEF Insert, Save
  <2>3. Granted(req[w].row) \subseteq Device \X Mesh
    <3>1. req[w].row \in DeviceRow
      BY <2>1 DEF NarrowRequest
    <3> QED BY <3>1 DEF DeviceRow, Granted
  <2> QED BY <2>1, <2>2, <2>3 DEF Noted
<1>5. ASSUME NEW w \in Worker,
             \/ Remove(w) \/ RollBackSave(w) \/ RollBackMesh(w) \/ RemoveMesh(w)
             \/ SaveMesh(w) \/ ListGateways(w)
      PROVE  Noted'
  BY <1>5
  DEF Noted, kafka, bounds, Remove, RollBackSave, RollBackMesh, RemoveMesh, SaveMesh, ListGateways
<1>6. ASSUME NEW w \in Worker, PublishFails(w) \/ Crash(w) PROVE Noted'
  <2>1. /\ UNCHANGED <<rejections, granted, served>> /\ Active(w)
        /\ faults < MaxFaults /\ faults' = faults + 1
        /\ suspect' = suspect \cup KeysAbout(Touches(req[w]))
    BY <1>6 DEF PublishFails, Crash, Active, kafka
  <2>2. Touches(req[w]) \subseteq Device
    BY <1>0, <2>1, RequestFacts, TouchesDevices DEF Planned
  <2> QED BY <2>1, <2>2, MoreKeys DEF Noted
<1>7. ASSUME NEW w \in Worker, Publish(w) PROVE Noted'
  <2>0. PICK e : Publishes(w, e)
    BY <1>7, PublishFacts
  <2>1. /\ e \in Event /\ e[2].op \in {"upsert", "delete"} /\ Deliver(e)
        /\ DeviceOf(e) \in Device
        /\ \A k : k # KeyOf(e) => (k \in suspect' <=> k \in suspect)
    BY <2>0 DEF Publishes
  <2>2. UNCHANGED <<granted, served, faults>>
    BY <1>7 DEF Publish, bounds
  <2>3. KeyOf(e) \in KeysAbout(Device)
    <3>1. KeyOf(e) \in KeysAbout({DeviceOf(e)}) /\ {DeviceOf(e)} \subseteq Device
      BY <2>1, EventKeys
    <3> QED BY <3>1, MoreKeys
  <2>4. rejections' \subseteq Mesh \X Device
    BY <2>1, DeliveredNoted DEF Noted
  <2> QED BY <2>1, <2>2, <2>3, <2>4 DEF Noted
<1>8. CASE Sight
  BY <1>8 DEF Sight, kafka, bounds, Noted
<1> QED BY <1>1, <1>2, <1>3, <1>4, <1>5, <1>6, <1>7, <1>8, ConnectionLost DEF Next

\* The type invariant.
LEMMA TypedRegistry ==
    ASSUME Types, Planned, Noted
    PROVE  TypeOK
<1>1. \A e \in late : e[1] \in {"keys", "rejections"}
  BY DEF Types, Event
<1>2. ASSUME NEW w \in Worker, Active(w)
      PROVE  /\ req[w].id \in Row \cup {NoRow}
             /\ req[w].pc \in {"publish", "insert", "save", "remove", "meshSave", "meshList",
                               "meshRemove", "rollBackInsert", "rollBackSave", "rollBackMesh"}
             /\ req[w].pc = "publish" => req[w].todo # {}
             /\ req[w].pc \in {"save", "remove", "rollBackInsert", "rollBackSave"} =>
                   req[w].id \in Row
  <2>1. req[w] \in Request /\ Plan(req[w])
    BY <1>2, RequestFacts DEF Planned
  <2>2. /\ req[w].id \in Row \cup {NoRow}
        /\ req[w].pc \in {"publish", "insert", "save", "remove", "meshSave", "meshList",
                          "meshRemove", "rollBackInsert", "rollBackSave", "rollBackMesh"}
    BY <2>1 DEF Request, NarrowRequest, WideRequest
  <2>3. CASE req[w].wide
    BY <2>1, <2>2, <2>3, Shapes DEF Plan, WidePlan
  <2>4. CASE ~req[w].wide
    <3>1. NarrowPlan(req[w]) /\ req[w] \in NarrowRequest
      BY <2>1, <2>4, Shapes DEF Plan
    <3>2. req[w].otherwise \in {"answer", "raise", "rollBackInsert", "rollBackSave"}
      BY <3>1 DEF NarrowRequest
    <3>3. req[w].pc = "publish" => req[w].todo # {}
      BY <3>1, <3>2 DEF NarrowPlan
    <3> QED BY <2>2, <3>1, <3>3 DEF NarrowPlan
  <2> QED BY <2>3, <2>4
<1> QED BY <1>1, <1>2 DEF Types, Noted, TypeOK

\* When no request is under way, in step is what the properties say.
LEMMA InStepAgrees ==
    ASSUME IInv, InStep, Noted
    PROVE  DecoderAgrees /\ RejectionsAreBacked /\ RejectedStayOut
<1>1. TypeOK
  BY TypedRegistry DEF IInv, InStep
<1>2. Quiescent => \A w \in Worker : ~Active(w)
  BY DEF Quiescent
<1>3. ASSUME Quiescent, NEW d \in Device PROVE <<"keys", d>> \in suspect \/ keys[d] = Registered(d)
  BY <1>2, <1>3 DEF InStep, KeyInStep
<1>4. ASSUME Quiescent, NEW m \in Mesh, NEW d \in Device
      PROVE  \/ <<"rejections", <<m, d>>>> \in suspect
             \/ <<m, d>> \in rejections <=> Rejecting(m, d) # {}
  BY <1>2, <1>4 DEF InStep, RejectionInStep
<1>5. RejectionsAreBacked
  <2> SUFFICES ASSUME Quiescent, NEW k \in rejections
               PROVE  \/ <<"rejections", k>> \in suspect
                      \/ \E i \in RejectedNodes(k[1]) : rows[i].dev = k[2]
    BY DEF RejectionsAreBacked
  <2>1. PICK m \in Mesh, d \in Device : k = <<m, d>>
    BY DEF Noted
  <2> QED BY <1>4, <2>1 DEF Rejecting
<1>6. RejectedStayOut
  <2> SUFFICES ASSUME Quiescent, NEW m \in Mesh, NEW i \in RejectedNodes(m)
               PROVE  \/ <<"rejections", <<m, rows[i].dev>>>> \in suspect
                      \/ <<m, rows[i].dev>> \in rejections
    BY DEF RejectedStayOut
  <2>1. rows[i].dev \in Device /\ i \in Rejecting(m, rows[i].dev)
    BY DEF IInv, Types, Rejecting, RejectedNodes, RowsOf, Occupied, DeviceRow
  <2> QED BY <1>4, <2>1
<1> QED BY <1>1, <1>3, <1>5, <1>6 DEF DecoderAgrees

\* However many requests are served at once, whatever publish fails and whoever is killed:
\* when no request is under way the decoder knows of every gateway what the table says of
\* it, the mesh it is registered on and that mesh's key, unless a failed, killed or racing
\* request left it suspect (registry/views.py keeps rows and mesh.keys.v1 in step by hand).
THEOREM DecoderInStep == Spec => []DecoderAgrees
  BY InitIInv, StepIInv, InitUndoable, StepUndoable, InitInStep, NextInStep,
     InitNoted, StepNoted, InStepAgrees, PTL DEF Spec

\* When no request is under way, a node the decoder rejects on a mesh is one a row rejects
\* there: deleting the row, or the mesh, lets it in again (registry/views.py publishes the
\* deletes first, and keeps the row when one fails).
THEOREM RejectionsBacked == Spec => []RejectionsAreBacked
  BY InitIInv, StepIInv, InitUndoable, StepUndoable, InitInStep, NextInStep,
     InitNoted, StepNoted, InStepAgrees, PTL DEF Spec

\* When no request is under way, a node that a row rejects is one the decoder rejects: no
\* sequence of answered requests lets it in but one that lets in or deletes another
\* registration of the node on the same mesh, whose event has the same key.
THEOREM RejectedStaysOut == Spec => []RejectedStayOut
  BY InitIInv, StepIInv, InitUndoable, StepUndoable, InitInStep, NextInStep,
     InitNoted, StepNoted, InStepAgrees, PTL DEF Spec
=============================================================================
