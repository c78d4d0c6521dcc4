--------------------------- MODULE DeviceSightings ---------------------------
(***************************************************************************)
(* From the radio to the position keyapi shows of a device: the bridge,    *)
(* and keyapi's consume_device_sightings with the views that change the    *)
(* same row (DeviceDetailView, DeviceListCreateView.post).  The row is     *)
(* read and written without a transaction, so a sighting and a request are *)
(* each a read and one or two writes.                                      *)
(*                                                                         *)
(* One device, on a mesh that exists.  A packet is the position it         *)
(* reports, Nowhere if it reports none.  The decoder between the raw and   *)
(* the sightings topic, which has modules of its own, passes every packet  *)
(* on, in order: raw stands for both.  Of the fields that are filled in    *)
(* until the owner sets them the position stands for all.                  *)
(***************************************************************************)
EXTENDS Bridge

CONSTANTS
    Position, Nowhere,
    NoRow, Idle,
    Deleted,      \* a row that was read and is gone
    MaxRequests   \* bound: requests served

ASSUME PacketAssumption == Packet \subseteq Position \cup {Nowhere} /\ Nowhere \notin Position
ASSUME RequestsAssumption == MaxRequests \in Nat

VARIABLES
    polled, handled,  \* how much of the topic the consumer has polled, and dealt with
    committed,        \* the offset committed for keyapi-device-catalog-group
    sighting,         \* the row as _upsert read it, NoRow outside _upsert
    row,              \* latitude and longitude, and location_overridden
    req,              \* the request under way: what it is to write and what it read
    promised,         \* history: the row as the docstrings promise it, one sighting
                      \* and one request after the other
    raced,            \* history: a write followed a read that was out of date
    settled,          \* history: the reports that were written, found a position set,
                      \* or whose _upsert raised
    served

consumer == <<polled, handled, committed, sighting>>
keyapi == <<row, req>>
history == <<promised, raced, settled>>
vars == <<bridgeVars, consumer, keyapi, history, served>>

Row == [at : Position \cup {Nowhere}, pinned : BOOLEAN]
Unset == [at |-> Nowhere, pinned |-> FALSE]
Set(p) == [at |-> p, pinned |-> p # Nowhere]
Request == [pc : {"save", "flag"}, read : Row, new : Row, gone : BOOLEAN]

ASSUME MarksAssumption ==
    NoRow \notin Row /\ Deleted \notin Row \cup {NoRow} /\ Idle \notin Request

TypeOK ==
    /\ BridgeTypeOK
    /\ committed \in 0 .. handled /\ handled \in 0 .. polled /\ polled \in 0 .. Len(raw)
    /\ sighting \in Row \cup {NoRow, Deleted} /\ sighting # NoRow => handled < polled
    /\ row \in Row \cup {NoRow} /\ promised \in Row \cup {NoRow}
    /\ req \in Request \cup {Idle}
    /\ raced \in BOOLEAN
    /\ settled \subseteq Number
    /\ served \in 0 .. MaxRequests

Init ==
    /\ BridgeInit
    /\ polled = 0 /\ handled = 0 /\ committed = 0 /\ sighting = NoRow
    /\ row = NoRow /\ req = Idle
    /\ promised = NoRow /\ raced = FALSE /\ settled = {}
    /\ served = 0

\* A PUT is between its two writes.
HalfDone == req # Idle /\ req.pc = "flag"

BridgeStep == BridgeNext /\ UNCHANGED <<consumer, keyapi, history, served>>

-----------------------------------------------------------------------------
(* consume_device_sightings *)

Poll ==
    /\ handled = polled /\ committed = polled /\ polled < Len(raw)
    /\ polled' \in polled + 1 .. Len(raw)
    /\ UNCHANGED <<bridgeVars, handled, committed, sighting, keyapi, history, served>>

\* The report _upsert is about.
Report == published[raw[handled + 1]]

\* get_or_create
GetOrCreate ==
    /\ handled < polled /\ sighting = NoRow
    /\ row' = IF row = NoRow THEN Unset ELSE row
    /\ promised' = IF row = NoRow THEN Unset ELSE promised
    /\ sighting' = row'
    /\ UNCHANGED <<bridgeVars, polled, handled, committed, req, raced, settled, served>>

\* The fault: whether a position is set is not asked.
FillInAlways ==
    /\ sighting \in Row
    /\ row' = IF Report = Nowhere THEN row ELSE [row EXCEPT !.at = Report]
    /\ promised' = IF Report = Nowhere \/ promised.pinned THEN promised
                   ELSE [promised EXCEPT !.at = Report]
    /\ sighting' = NoRow /\ handled' = handled + 1
    /\ raced' = (raced \/ sighting.pinned # row.pinned \/ HalfDone)
    /\ settled' = settled \cup {raw[handled + 1]}
    /\ UNCHANGED <<bridgeVars, polled, committed, req, served>>

\* The fields of update_fields only, decided by the row as it was read.  That the
\* decision is out of date, or falls between the two writes of a request, is a race.
FillIn ==
    /\ sighting \in Row
    /\ row' = IF Report = Nowhere \/ sighting.pinned THEN row ELSE [row EXCEPT !.at = Report]
    /\ promised' = IF promised = NoRow \/ Report = Nowhere \/ promised.pinned THEN promised
                   ELSE [promised EXCEPT !.at = Report]
    /\ sighting' = NoRow /\ handled' = handled + 1
    /\ raced' = (raced \/ sighting.pinned # row.pinned \/ HalfDone)
    /\ settled' = settled \cup {raw[handled + 1]}
    /\ UNCHANGED <<bridgeVars, polled, committed, req, served>>

\* save(update_fields) of a row that is gone raises, as a database that fails does:
\* the sighting is skipped.
SkipSighting ==
    /\ sighting # NoRow
    /\ \/ sighting = Deleted /\ UNCHANGED faults
       \/ Fault
    /\ sighting' = NoRow /\ handled' = handled + 1
    /\ settled' = settled \cup {raw[handled + 1]}
    /\ UNCHANGED <<broker, process, raw, lost, overtaken, polled, committed, keyapi,
                   promised, raced, served>>

\* The fault: what was polled is committed when the batch begins.
CommitFirst ==
    /\ handled < polled /\ committed < polled
    /\ committed' = polled
    /\ UNCHANGED <<bridgeVars, polled, handled, sighting, keyapi, history, served>>

Commit ==
    /\ handled = polled /\ committed < polled
    /\ committed' = polled
    /\ UNCHANGED <<bridgeVars, polled, handled, sighting, keyapi, history, served>>

\* The consumer dies, and goes on from the committed offset.
RestartConsumer ==
    /\ Fault
    /\ polled' = committed /\ handled' = committed /\ sighting' = NoRow
    /\ UNCHANGED <<broker, process, raw, lost, overtaken, committed, keyapi, history, served>>

-----------------------------------------------------------------------------
(* The views. *)

Serve == served < MaxRequests /\ served' = served + 1

\* POST /devices: one INSERT.
PostDevice ==
    /\ Serve /\ row = NoRow
    /\ \E p \in Position \cup {Nowhere} : row' = Set(p)
    /\ promised' = row' /\ raced' = FALSE
    /\ UNCHANGED <<bridgeVars, consumer, req, settled>>

\* DELETE /devices/{id}: what is under way has read a row that is no more.  The
\* second write of a PUT will find nothing to update.
DeleteDevice ==
    /\ Serve /\ row # NoRow
    /\ row' = NoRow /\ promised' = NoRow /\ raced' = FALSE
    /\ sighting' = IF sighting = NoRow THEN NoRow ELSE Deleted
    /\ req' = IF req = Idle \/ HalfDone THEN Idle ELSE [req EXCEPT !.gone = TRUE]
    /\ UNCHANGED <<bridgeVars, polled, handled, committed, settled>>

\* PUT /devices/{id} reads the row: with a position, to set it or (both null) to
\* leave it to the device again, or without one.
PutDevice ==
    /\ Serve /\ req = Idle /\ row # NoRow
    /\ \E new \in {Set(p) : p \in Position \cup {Nowhere}} \cup {row} :
          req' = [pc |-> "save", read |-> row, new |-> new, gone |-> FALSE]
    /\ UNCHANGED <<bridgeVars, consumer, row, history>>

\* serializer.save(): the whole row, location_overridden as it was read; an INSERT if
\* it is gone, refused if the device has another row by then.
SavePut ==
    /\ req # Idle /\ req.pc = "save"
    /\ IF req.gone /\ row # NoRow
       THEN req' = Idle /\ UNCHANGED <<row, promised, raced>>
       ELSE /\ row' = [at |-> req.new.at, pinned |-> req.read.pinned]
            /\ promised' = IF req.new = req.read THEN promised ELSE req.new
            /\ raced' = (raced \/ row # req.read)
            /\ req' = IF req.new.pinned = req.read.pinned THEN Idle
                      ELSE [req EXCEPT !.pc = "flag"]
    /\ UNCHANGED <<bridgeVars, consumer, settled, served>>

\* updated.save(update_fields=["location_overridden"])
SaveFlag ==
    /\ HalfDone
    /\ row' = [row EXCEPT !.pinned = req.new.pinned]
    /\ req' = Idle
    /\ UNCHANGED <<bridgeVars, consumer, history, served>>

\* gunicorn kills the worker; between the two writes it leaves half a change.
Kill ==
    /\ req # Idle /\ Fault
    /\ req' = Idle
    /\ raced' = (raced \/ HalfDone)
    /\ UNCHANGED <<broker, process, raw, lost, overtaken, consumer, row, promised, settled,
                   served>>

-----------------------------------------------------------------------------
Upsert == GetOrCreate \/ FillIn \/ SkipSighting

Next ==
    \/ BridgeStep
    \/ Poll \/ GetOrCreate \/ FillIn \/ SkipSighting \/ Commit \/ RestartConsumer
    \/ PostDevice \/ DeleteDevice \/ PutDevice \/ SavePut \/ SaveFlag \/ Kill

\* The bridge's fairness, and a consumer that polls, handles and commits.
Fairness == BridgeFairness /\ WF_vars(Poll) /\ WF_vars(Upsert) /\ WF_vars(Commit)

Spec == Init /\ [][Next]_vars /\ Fairness

-----------------------------------------------------------------------------
(* Properties. *)

\* "Position and identity fields are filled in from what the device reports until
\* they are set here, after which the values given take precedence" (views.py:652):
\* between requests the row is what serving sightings and requests one by one makes
\* of it, whatever is redelivered, unless one wrote by a read that was out of date or
\* was left half done.
PinnedTakesPrecedence ==
    TypeOK /\ (~HalfDone /\ ~raced => row = promised)

\* A packet the broker took gets to the device's row, whatever connections break and
\* whichever process restarts, unless the bridge lost a copy of it or its sighting
\* was skipped: from the radio to the database nothing stops for good.
DeviceAppears ==
    \A i \in 1 .. MaxPublished :
        i <= Len(published) ~> i \in lost \cup settled
=============================================================================
