------------------------------ MODULE OwnerAccess ------------------------------
(***************************************************************************)
(* keyapi's owner account together with queryapi, which asks keyapi for    *)
(* the owner of an API key and caches the answer                           *)
(* (queryapi/telemetry/authentication.py), and with the worker that drops  *)
(* the answers about revoked keys (consume_owner_auth_revocations.py).     *)
(***************************************************************************)
EXTENDS OwnerAccount

CONSTANT Lookup   \* the requests queryapi serves at a time

VARIABLES
    cache,      \* what Redis says of each key: "none", "valid" or "invalid"
    lookup,     \* the requests whose key is not cached
    handled,    \* the worker's position in revocations
    committed,  \* the offset it committed
    late        \* history: keys whose cached answer was obtained before the
                \* worker dropped the key, and stored after it

Question == [key : Key, answer : {"none", "valid", "invalid"}, overtaken : BOOLEAN]

ASSUME QuestionAssumption == Idle \notin Question

queryapi == <<cache, lookup, handled, committed, late>>
accessVars == <<vars, queryapi>>

AccessTypeOK ==
    /\ TypeOK
    /\ cache \in [Key -> {"none", "valid", "invalid"}]
    /\ lookup \in [Lookup -> Question \cup {Idle}]
    /\ \A q \in Lookup : lookup[q] # Idle => lookup[q].key \in 1 .. keys
    /\ handled \in 0 .. Len(revocations)
    /\ committed \in 0 .. handled
    /\ late \subseteq {k \in Key : cache[k] = "valid"}

AccessInit ==
    /\ Init
    /\ cache = [k \in Key |-> "none"]
    /\ lookup = [q \in Lookup |-> Idle]
    /\ handled = 0 /\ committed = 0
    /\ late = {}

\* OwnerBearerAuthentication of keyapi.
Works(k) == row # NoRow /\ row.key = k

-----------------------------------------------------------------------------
(* KeyapiIntrospectionAuthentication.authenticate.  A cached answer changes  *)
(* nothing.                                                                  *)

Present(q) ==
    /\ lookup[q] = Idle
    /\ \E k \in 1 .. keys :
          /\ cache[k] = "none"
          /\ lookup' = [lookup EXCEPT ![q] = [key |-> k, answer |-> "none", overtaken |-> FALSE]]
    /\ UNCHANGED <<vars, cache, handled, committed, late>>

\* keyapi answers GET /owners/me.
Introspect(q) ==
    /\ lookup[q] # Idle /\ lookup[q].answer = "none"
    /\ LET k == lookup[q].key
           answer == IF Works(k) THEN "valid" ELSE "invalid"
       IN  lookup' = [lookup EXCEPT ![q] = [key |-> k, answer |-> answer, overtaken |-> FALSE]]
    /\ UNCHANGED <<vars, cache, handled, committed, late>>

\* Too many attempts, keyapi unreachable, or an answer other than 200, 401 and 403.
Unavailable(q) ==
    /\ lookup[q] # Idle /\ lookup[q].answer = "none"
    /\ lookup' = [lookup EXCEPT ![q] = Idle]
    /\ UNCHANGED <<vars, cache, handled, committed, late>>

Store(q) ==
    LET k == lookup[q].key IN
    /\ lookup[q] # Idle /\ lookup[q].answer # "none"
    /\ cache' = [cache EXCEPT ![k] = lookup[q].answer]
    /\ late' = IF lookup[q].answer = "valid" /\ lookup[q].overtaken
               THEN late \cup {k} ELSE late \ {k}
    /\ lookup' = [lookup EXCEPT ![q] = Idle]
    /\ UNCHANGED <<vars, handled, committed>>

\* The fault: refusals are kept for good.
ExpireValid(k) ==
    /\ cache[k] = "valid"
    /\ cache' = [cache EXCEPT ![k] = "none"]
    /\ late' = late \ {k}
    /\ UNCHANGED <<vars, lookup, handled, committed>>

\* CACHE_TTL_SECONDS have passed.
Expire(k) ==
    /\ cache[k] # "none"
    /\ cache' = [cache EXCEPT ![k] = "none"]
    /\ late' = late \ {k}
    /\ UNCHANGED <<vars, lookup, handled, committed>>

-----------------------------------------------------------------------------
(* consume_owner_auth_revocations. *)

\* The fault: the record is skipped.
HandleNothing ==
    /\ handled < Len(revocations)
    /\ handled' = handled + 1
    /\ UNCHANGED <<vars, cache, lookup, committed, late>>

\* _handle of the next record; requests that have their answer are overtaken.
Handle ==
    LET k == revocations[handled + 1] IN
    /\ handled < Len(revocations)
    /\ handled' = handled + 1
    /\ cache' = [cache EXCEPT ![k] = "none"]
    /\ late' = late \ {k}
    /\ lookup' = [q \in Lookup |->
                     IF lookup[q] # Idle /\ lookup[q].key = k
                     THEN [lookup[q] EXCEPT !.overtaken = TRUE] ELSE lookup[q]]
    /\ UNCHANGED <<vars, committed>>

\* cache.delete raises: the record is logged and skipped.
HandleFails ==
    /\ handled < Len(revocations) /\ faults < MaxFaults
    /\ handled' = handled + 1
    /\ faults' = faults + 1
    /\ unrevoked' = unrevoked \cup {revocations[handled + 1]}
    /\ UNCHANGED <<row, generated, mail, revocations, req, opened, resets, collided, served,
                   cache, lookup, committed, late>>

\* The commit at the end of a batch.
CommitHandled ==
    /\ committed < handled
    /\ committed' = handled
    /\ UNCHANGED <<vars, cache, lookup, handled, late>>

\* The worker dies, or its commit raises, and it starts again.
WorkerRestarts ==
    /\ faults < MaxFaults
    /\ faults' = faults + 1
    /\ handled' = committed
    /\ UNCHANGED <<row, generated, mail, revocations, req, history, served,
                   cache, lookup, committed, late>>

AccessNext ==
    \/ Next /\ UNCHANGED queryapi
    \/ \E q \in Lookup : Present(q) \/ Introspect(q) \/ Unavailable(q) \/ Store(q)
    \/ \E k \in Key : Expire(k)
    \/ Handle \/ HandleFails \/ CommitHandled \/ WorkerRestarts

\* A request for an answer has a timeout, and a cached answer a lifetime.
Fairness ==
    /\ \A q \in Lookup : WF_accessVars(Introspect(q) \/ Unavailable(q)) /\ WF_accessVars(Store(q))
    /\ \A k \in Key : WF_accessVars(Expire(k))

AccessSpec == AccessInit /\ [][AccessNext]_accessVars /\ Fairness

-----------------------------------------------------------------------------
(* Properties. *)

\* A key that has stopped working is accepted from the cache only while its
\* revocation is on its way, if it was lost (a failed publish, a killed worker, a
\* failed delete, a request that wrote over the key), or if the answer was already
\* on its way when the cache was cleared.
StaleAnswersExplained ==
    /\ AccessTypeOK
    /\ \A k \in Key : cache[k] = "valid" /\ ~Works(k) =>
          \/ \E i \in handled + 1 .. Len(revocations) : revocations[i] = k
          \/ \E w \in Worker : At(w, "revoke") /\ req[w].arg = k
          \/ k \in unrevoked \cup late

\* However late or lost the revocations: a key that stops working for good is
\* refused for good some time later, and one that works for good is not refused.
AnswersConverge ==
    \A k \in Key :
        /\ <>[]~Works(k) => <>[](cache[k] # "valid")
        /\ <>[]Works(k) => <>[](cache[k] # "invalid")
=============================================================================
