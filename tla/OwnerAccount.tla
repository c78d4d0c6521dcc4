----------------------------- MODULE OwnerAccount -----------------------------
(***************************************************************************)
(* keyapi: the life of one owner account, the row of the owners table and  *)
(* the requests of registry/views.py that change it.  No transaction       *)
(* encloses a request and two gunicorn workers serve them, so a request is *)
(* what it read at its start (the row, by API key, session, link or        *)
(* address), then a step for each statement, email and publish.            *)
(*                                                                         *)
(* A request that is refused changes nothing and is left out.  A link that *)
(* expired is refused, so that every link may be followed at any time is   *)
(* more than the code allows.  API keys and tokens are counted: each is    *)
(* new.  Passwords, sessions and names are left out, so is the             *)
(* deregistration of gateways a deletion begins with.                      *)
(***************************************************************************)
EXTENDS Integers, Sequences

CONSTANTS
    Address,      \* the email addresses the owner uses
    Worker,       \* the gunicorn workers
    Kinds,        \* the kinds of requests served
    NoRow, Idle, NoArg,
    MaxRequests,  \* bound: requests served
    MaxFaults     \* bound: failed emails and publishes plus workers killed

ASSUME BoundsAssumption == MaxRequests \in Nat /\ MaxFaults \in Nat
ASSUME KindsAssumption ==
    Kinds \subseteq {"signup", "put", "resend", "verify", "rotate", "delete", "forgot", "reset"}

VARIABLES
    row,          \* the owner's row
    keys, tokens, \* how many API keys, and how many link tokens, were generated
    mail,         \* the links delivered, each with the address it went to
    revocations,  \* the topic mesh.owner_auth_revocations.v1
    req,          \* what each worker is doing
    opened,       \* history: the verification links that made the account active
    resets,       \* history: the tokens a password was reset with, in order
    unrevoked,    \* history: keys replaced or deleted whose revocation is not published
    collided,     \* history: a request wrote over, or relied on, a row that another
                  \* had changed since it read it, or died half way
    served, faults

generated == <<keys, tokens>>
history == <<opened, resets, unrevoked, collided>>
bounds == <<served, faults>>
vars == <<row, generated, mail, revocations, req, history, bounds>>

Key == 1 .. MaxRequests + 1
Token == 1 .. MaxRequests + 2
Link == [link : {"verify", "reset"}, token : Token, to : Address]

\* verify and reset are the tokens whose hashes the row holds, 0 for none.
OwnerRow ==
    [email : Address, active : BOOLEAN, key : Key, verify : Token, reset : Token \cup {0}]

Stages == {"profile", "deactivate", "renew", "activate", "key", "remove", "remind",
           "password", "email", "revoke"}

\* What a worker is doing: the step it is at, the row as it read it, and the address,
\* link or key it goes on with.
Request == [at : Stages, row : OwnerRow, arg : Address \cup Link \cup Key \cup {NoArg}]

ASSUME MarksAssumption == NoRow \notin OwnerRow /\ Idle \notin Request

TypeOK ==
    /\ row \in OwnerRow \cup {NoRow}
    /\ keys \in Key \cup {0} /\ tokens \in Token \cup {0}
    /\ mail \subseteq Link
    /\ revocations \in Seq(Key)
    /\ \A w \in Worker : req[w] # Idle =>
          req[w].at \in Stages /\ req[w].row \in OwnerRow
    /\ opened \subseteq mail
    /\ resets \in Seq(Token)
    /\ unrevoked \subseteq Key
    /\ collided \in BOOLEAN
    /\ served \in 0 .. MaxRequests /\ faults \in 0 .. MaxFaults

Fresh(a) == [email |-> a, active |-> FALSE, key |-> 1, verify |-> 1, reset |-> 0]
Verification(t, a) == [link |-> "verify", token |-> t, to |-> a]
Resetting(t, a) == [link |-> "reset", token |-> t, to |-> a]

\* No account yet, or one whose address is verified and whose owner has asked to reset
\* the password.
Init ==
    /\ \/ row = NoRow /\ keys = 0 /\ tokens = 0 /\ mail = {} /\ opened = {}
       \/ \E a \in Address :
             /\ row = [Fresh(a) EXCEPT !.active = TRUE, !.reset = 2]
             /\ keys = 1 /\ tokens = 2
             /\ opened = {Verification(1, a)} /\ mail = opened \cup {Resetting(2, a)}
    /\ revocations = <<>>
    /\ req = [w \in Worker |-> Idle]
    /\ resets = <<>> /\ unrevoked = {} /\ collided = FALSE
    /\ served = 0 /\ faults = 0

-----------------------------------------------------------------------------
(* The start of a request: what it reads, and the step it goes on with. *)

Begin(w, stage, arg) ==
    /\ row # NoRow
    /\ req[w] = Idle /\ served < MaxRequests
    /\ served' = served + 1
    /\ req' = [req EXCEPT ![w] = [at |-> stage, row |-> row, arg |-> arg]]
    /\ UNCHANGED <<row, generated, mail, revocations, history, faults>>

\* OwnerMeView.put with a name or an address, which may be the one it has.
PutMe(w) == "put" \in Kinds /\ \E a \in Address : Begin(w, "profile", a)

\* OwnerResendVerificationView.post
ResendVerification(w) ==
    "resend" \in Kinds /\ row # NoRow /\ ~row.active /\ Begin(w, "renew", NoArg)

\* OwnerVerifyEmailView.get: the link's token is looked up.
VerifyEmail(w) ==
    /\ "verify" \in Kinds /\ row # NoRow /\ ~row.active
    /\ \E m \in mail : /\ m.link = "verify" /\ m.token = row.verify
                       /\ Begin(w, "activate", m)

\* OwnerRotateKeyView.post, for verified owners.
RotateKey(w) == "rotate" \in Kinds /\ row # NoRow /\ row.active /\ Begin(w, "key", NoArg)

\* OwnerMeView.delete, its gateways deregistered.
DeleteMe(w) == "delete" \in Kinds /\ Begin(w, "remove", NoArg)

\* OwnerRequestPasswordResetView.post with the owner's address.
RequestPasswordReset(w) == "forgot" \in Kinds /\ Begin(w, "remind", NoArg)

\* OwnerResetPasswordView.post
ResetPassword(w) ==
    /\ "reset" \in Kinds /\ row # NoRow
    /\ \E m \in mail : /\ m.link = "reset" /\ m.token = row.reset
                       /\ Begin(w, "password", m)

\* OwnerListCreateView.post: create_user is one INSERT, the email follows.
Signup(w) ==
    /\ "signup" \in Kinds /\ row = NoRow /\ keys = 0
    /\ req[w] = Idle /\ served < MaxRequests
    /\ \E a \in Address :
          /\ row' = Fresh(a)
          /\ req' = [req EXCEPT ![w] =
                        [at |-> "email", row |-> Fresh(a), arg |-> Verification(1, a)]]
    /\ keys' = 1 /\ tokens' = 1 /\ served' = served + 1
    /\ UNCHANGED <<mail, revocations, history, faults>>

-----------------------------------------------------------------------------
(* The statements.  Goes(w, stage, arg) is where the request is afterwards. *)

At(w, stage) == req[w] # Idle /\ req[w].at = stage
Goes(w, stage, arg) ==
    req' = [req EXCEPT ![w] = [at |-> stage, row |-> req[w].row, arg |-> arg]]
Ends(w) == req' = [req EXCEPT ![w] = Idle]

\* Another request changed one of the fields since this one read the row.
Changed(w, fields) == row = NoRow \/ \E f \in fields : row[f] # req[w].row[f]
Collide(here) == collided' = (collided \/ here)

\* The key that the statement of w takes away and that w will not revoke.
Displaced(w) == IF row # NoRow /\ row.key # req[w].row.key THEN {row.key} ELSE {}

\* serializer.save(): all columns are written as the request read them, and the
\* row is inserted again if it is gone.
SaveProfile(w) ==
    LET read == req[w].row
        new == [read EXCEPT !.email = req[w].arg]
    IN
    /\ At(w, "profile")
    /\ row' = new
    /\ Collide(row # read)
    /\ unrevoked' = unrevoked \cup Displaced(w)
    /\ req' = [req EXCEPT ![w] = IF new.email # read.email
                                 THEN [at |-> "deactivate", row |-> new, arg |-> NoArg]
                                 ELSE Idle]
    /\ UNCHANGED <<generated, mail, revocations, opened, resets, bounds>>

\* A new verification link, for the address as the request knows it.
NewLink(w) == Verification(tokens + 1, req[w].row.email)

\* The fault: a changed address keeps the old link.
DeactivateKeepingLink(w) ==
    /\ At(w, "deactivate") /\ row # NoRow
    /\ row' = [row EXCEPT !.active = FALSE]
    /\ tokens' = tokens + 1
    /\ Goes(w, "email", NewLink(w))
    /\ Collide(Changed(w, {"email"}))
    /\ UNCHANGED <<keys, mail, revocations, opened, resets, unrevoked, bounds>>

\* The rest of put when the address changes.
Deactivate(w) ==
    /\ At(w, "deactivate") /\ row # NoRow
    /\ row' = [row EXCEPT !.active = FALSE, !.verify = tokens + 1]
    /\ tokens' = tokens + 1
    /\ Goes(w, "email", NewLink(w))
    /\ Collide(Changed(w, {"email"}))
    /\ UNCHANGED <<keys, mail, revocations, opened, resets, unrevoked, bounds>>

RenewLink(w) ==
    /\ At(w, "renew") /\ row # NoRow
    /\ row' = [row EXCEPT !.verify = tokens + 1]
    /\ tokens' = tokens + 1
    /\ Goes(w, "email", NewLink(w))
    /\ Collide(Changed(w, {"email"}))
    /\ UNCHANGED <<keys, mail, revocations, opened, resets, unrevoked, bounds>>

Activate(w) ==
    /\ At(w, "activate") /\ row # NoRow
    /\ row' = [row EXCEPT !.active = TRUE]
    /\ opened' = opened \cup {req[w].arg}
    /\ Ends(w)
    /\ Collide(Changed(w, {"email", "verify"}))
    /\ UNCHANGED <<generated, mail, revocations, resets, unrevoked, bounds>>

\* The fault: the new key is revoked in place of the old one.
SaveKeyRevokingIt(w) ==
    /\ At(w, "key") /\ row # NoRow
    /\ row' = [row EXCEPT !.key = keys + 1]
    /\ keys' = keys + 1
    /\ Goes(w, "revoke", keys + 1)
    /\ unrevoked' = unrevoked \cup Displaced(w)
    /\ UNCHANGED <<tokens, mail, revocations, opened, resets, collided, bounds>>

SaveKey(w) ==
    /\ At(w, "key") /\ row # NoRow
    /\ row' = [row EXCEPT !.key = keys + 1]
    /\ keys' = keys + 1
    /\ Goes(w, "revoke", req[w].row.key)
    /\ unrevoked' = unrevoked \cup Displaced(w)
    /\ UNCHANGED <<tokens, mail, revocations, opened, resets, collided, bounds>>

Remove(w) ==
    /\ At(w, "remove")
    /\ row' = NoRow
    /\ Goes(w, "revoke", req[w].row.key)
    /\ unrevoked' = unrevoked \cup Displaced(w)
    /\ UNCHANGED <<generated, mail, revocations, opened, resets, collided, bounds>>

SaveResetLink(w) ==
    /\ At(w, "remind") /\ row # NoRow
    /\ row' = [row EXCEPT !.reset = tokens + 1]
    /\ tokens' = tokens + 1
    /\ Goes(w, "email", Resetting(tokens + 1, req[w].row.email))
    /\ UNCHANGED <<keys, mail, revocations, history, bounds>>

\* The fault: the link stays valid.
SavePasswordKeepingLink(w) ==
    /\ At(w, "password") /\ row # NoRow
    /\ resets' = Append(resets, req[w].arg.token)
    /\ Ends(w)
    /\ Collide(Changed(w, {"reset"}))
    /\ UNCHANGED <<row, generated, mail, revocations, opened, unrevoked, bounds>>

SavePassword(w) ==
    /\ At(w, "password") /\ row # NoRow
    /\ row' = [row EXCEPT !.reset = 0]
    /\ resets' = Append(resets, req[w].arg.token)
    /\ Ends(w)
    /\ Collide(Changed(w, {"reset"}))
    /\ UNCHANGED <<generated, mail, revocations, opened, unrevoked, bounds>>

\* save(update_fields=...) of a row that is gone raises DatabaseError.
SaveMissesRow(w) ==
    /\ row = NoRow /\ req[w] # Idle
    /\ req[w].at \in {"deactivate", "renew", "activate", "key", "remind", "password"}
    /\ Ends(w)
    /\ UNCHANGED <<row, generated, mail, revocations, history, bounds>>

-----------------------------------------------------------------------------
(* What a request does after its last statement, and what can fail. *)

SendEmail(w) ==
    /\ At(w, "email")
    /\ mail' = mail \cup {req[w].arg}
    /\ Ends(w)
    /\ UNCHANGED <<row, generated, revocations, history, bounds>>

\* send_mail raises.  The row stays as it is, the failure is logged or answered.
EmailFails(w) ==
    /\ At(w, "email") /\ faults < MaxFaults
    /\ faults' = faults + 1
    /\ Ends(w)
    /\ UNCHANGED <<row, generated, mail, revocations, history, served>>

PublishRevoked(w) ==
    /\ At(w, "revoke")
    /\ revocations' = Append(revocations, req[w].arg)
    /\ Ends(w)
    /\ UNCHANGED <<row, generated, mail, history, bounds>>

\* publish_key_revoked raises; "best-effort".  An event that is delivered in spite
\* of that only removes an answer, as the end of its lifetime does.
PublishRevokedFails(w) ==
    /\ At(w, "revoke") /\ faults < MaxFaults
    /\ faults' = faults + 1
    /\ unrevoked' = unrevoked \cup {req[w].arg}
    /\ Ends(w)
    /\ UNCHANGED <<row, generated, mail, revocations, opened, resets, collided, served>>

\* gunicorn kills a worker, for example because the mail server hangs.
WorkerKilled(w) ==
    /\ req[w] # Idle /\ faults < MaxFaults
    /\ faults' = faults + 1
    /\ unrevoked' = IF At(w, "revoke") THEN unrevoked \cup {req[w].arg} ELSE unrevoked
    /\ Collide(At(w, "deactivate"))
    /\ Ends(w)
    /\ UNCHANGED <<row, generated, mail, revocations, opened, resets, served>>

Serve(w) ==
    \/ Signup(w) \/ PutMe(w) \/ ResendVerification(w) \/ VerifyEmail(w) \/ RotateKey(w)
    \/ DeleteMe(w) \/ RequestPasswordReset(w) \/ ResetPassword(w)
    \/ SaveProfile(w) \/ Deactivate(w) \/ RenewLink(w) \/ Activate(w) \/ SaveKey(w)
    \/ Remove(w) \/ SaveResetLink(w) \/ SavePassword(w) \/ SaveMissesRow(w)
    \/ SendEmail(w) \/ EmailFails(w) \/ PublishRevoked(w) \/ PublishRevokedFails(w)
    \/ WorkerKilled(w)

Next == \E w \in Worker : Serve(w)

Spec == Init /\ [][Next]_vars

-----------------------------------------------------------------------------
(* Properties.  All of them hold of requests that do not collide; the README *)
(* says what those that do may leave behind.                                 *)

\* An active account has an address that a link mailed to it has verified, except
\* while a change of address is between its two statements ("is_active means
\* email-verified", models.py:39).
ActiveIsVerified ==
    /\ TypeOK
    /\ ~collided /\ row # NoRow /\ row.active =>
          \/ \E m \in opened : m.to = row.email
          \/ \E w \in Worker : At(w, "deactivate") /\ req[w].row.email = row.email

\* A reset link sets a password once, and never after a newer one did.
ResetLinksWorkOnce ==
    ~collided => \A i, j \in DOMAIN resets : i < j => resets[i] < resets[j]

\* "Issue a new API key and revoke the previous one immediately." (views.py:395): a key
\* whose revocation was published is the key of no account any more.
RevokedStayRevoked ==
    ~collided => \A i \in DOMAIN revocations : row = NoRow \/ row.key # revocations[i]
=============================================================================
