---------------------------- MODULE OwnerAccessProofs ----------------------------
(***************************************************************************)
(* Proofs about the owner account, and about queryapi's answers from its   *)
(* cache, for any number of workers, requests and faults.                  *)
(*                                                                         *)
(* Every invariant of the account is about requests that do not collide.   *)
(* What they rest on is that keys and tokens are new whenever they are     *)
(* made (Known), and that there are enough of them (Bounded).              *)
(***************************************************************************)
EXTENDS OwnerAccess, FiniteSetTheorems, TLAPS

USE BoundsAssumption

Typed ==
    /\ row \in OwnerRow \cup {NoRow}
    /\ keys \in Nat /\ tokens \in Nat
    /\ mail \subseteq Link /\ opened \subseteq mail
    /\ revocations \in Seq(Key) /\ resets \in Seq(Token)
    /\ req \in [Worker -> Request \cup {Idle}]
    /\ unrevoked \subseteq Key /\ collided \in BOOLEAN
    /\ served \in 0 .. MaxRequests /\ faults \in 0 .. MaxFaults

\* No key or token is beyond the last that was made.
KnownRow(r, k, t) == r.key <= k /\ r.verify <= t /\ r.reset <= t

\* What a request goes on with.
ArgOK(r, links, k, t) ==
    /\ r.at = "profile" => r.arg \in Address
    /\ r.at = "email" => r.arg \in Link /\ r.arg.token <= t
    /\ r.at = "activate" => r.arg \in links /\ r.arg.link = "verify" /\ r.arg.token = r.row.verify
    /\ r.at = "password" => r.arg \in links /\ r.arg.link = "reset" /\ r.arg.token = r.row.reset
    /\ r.at = "revoke" => r.arg \in 1 .. k

Known ==
    /\ keys = 0 => tokens = 0 /\ row = NoRow /\ mail = {} /\ \A w \in Worker : req[w] = Idle
    /\ row # NoRow => KnownRow(row, keys, tokens)
    /\ \A w \in Worker : req[w] # Idle =>
          KnownRow(req[w].row, keys, tokens) /\ ArgOK(req[w], mail, keys, tokens)
    /\ \A m \in mail : m.token <= tokens
    /\ \A i \in DOMAIN revocations : revocations[i] <= keys
    /\ \A i \in DOMAIN resets : resets[i] <= tokens

\* The requests that may still make a link, and those that may still make a key: each
\* has been counted as served.
Busy(stages) == {w \in Worker : req[w] # Idle /\ req[w].at \in stages}
Linking == {"profile", "deactivate", "renew", "remind"}
Rotating == {"key"}

Bounded ==
    /\ IsFiniteSet(Busy(Linking)) /\ tokens + Cardinality(Busy(Linking)) <= served + 2
    /\ IsFiniteSet(Busy(Rotating)) /\ keys + Cardinality(Busy(Rotating)) <= served + 1

AccountInv == Typed /\ Known /\ Bounded

-----------------------------------------------------------------------------
\* A set that gains or loses a member.
LEMMA CountChanges ==
    ASSUME NEW S, IsFiniteSet(S), NEW T, NEW w
    PROVE  /\ Cardinality(S) \in Nat
           /\ T \subseteq S => IsFiniteSet(T) /\ Cardinality(T) <= Cardinality(S)
           /\ T \subseteq S \cup {w} => IsFiniteSet(T) /\ Cardinality(T) <= Cardinality(S) + 1
           /\ w \in S /\ T \subseteq S \ {w} => IsFiniteSet(T) /\ Cardinality(T) + 1 <= Cardinality(S)
<1>1. Cardinality(S) \in Nat
  BY FS_CardinalityType
<1>2. ASSUME NEW R, IsFiniteSet(R), T \subseteq R
      PROVE  IsFiniteSet(T) /\ Cardinality(T) <= Cardinality(R) /\ Cardinality(T) \in Nat
  BY <1>2, FS_Subset, FS_CardinalityType
<1>3. IsFiniteSet(S \cup {w}) /\ Cardinality(S \cup {w}) <= Cardinality(S) + 1
  BY <1>1, FS_AddElement
<1>4. w \in S => IsFiniteSet(S \ {w}) /\ Cardinality(S \ {w}) = Cardinality(S) - 1
  BY FS_RemoveElement
<1>6. ASSUME T \subseteq S \cup {w}
      PROVE  IsFiniteSet(T) /\ Cardinality(T) <= Cardinality(S) + 1
  <2>1. IsFiniteSet(T) /\ Cardinality(T) <= Cardinality(S \cup {w}) /\ Cardinality(T) \in Nat
    BY <1>2, <1>3, <1>6
  <2>2. Cardinality(S \cup {w}) \in Nat
    BY <1>3, FS_CardinalityType
  <2> QED BY <1>1, <1>3, <2>1, <2>2
<1>7. ASSUME w \in S, T \subseteq S \ {w}
      PROVE  IsFiniteSet(T) /\ Cardinality(T) + 1 <= Cardinality(S)
  <2>1. IsFiniteSet(T) /\ Cardinality(T) <= Cardinality(S \ {w}) /\ Cardinality(T) \in Nat
    BY <1>2, <1>4, <1>7
  <2> QED BY <1>1, <1>4, <1>7, <2>1
<1>8. T \subseteq S => IsFiniteSet(T) /\ Cardinality(T) <= Cardinality(S)
  BY <1>2
<1>9. T \subseteq S \cup {w} => IsFiniteSet(T) /\ Cardinality(T) <= Cardinality(S) + 1
  BY <1>6
<1>10. w \in S /\ T \subseteq S \ {w} => IsFiniteSet(T) /\ Cardinality(T) + 1 <= Cardinality(S)
  BY <1>7
<1> QED BY <1>1, <1>8, <1>9, <1>10, Zenon

\* The request of w goes on with another stage and argument.
LEMMA GoesOn ==
    ASSUME Typed, NEW w \in Worker, req[w] # Idle, NEW stage \in Stages,
           NEW arg \in Address \cup Link \cup Key \cup {NoArg}, Goes(w, stage, arg)
    PROVE  LET r == [at |-> stage, row |-> req[w].row, arg |-> arg]
           IN  r \in Request /\ req' = [req EXCEPT ![w] = r]
<1>1. req[w] \in Request
  BY DEF Typed
<1>2. [at |-> stage, row |-> req[w].row, arg |-> arg] \in Request
  BY <1>1 DEF Request
<1> QED BY <1>2 DEF Goes

\* What is made is in its range.
LEMMA InRange ==
    ASSUME AccountInv
    PROVE  /\ keys \in Key \cup {0} /\ tokens \in Token \cup {0}
           /\ \A w \in Busy(Linking) : tokens + 1 \in Token
           /\ \A w \in Busy(Rotating) : keys + 1 \in Key
           /\ \A w \in Worker : req[w] # Idle => req[w] \in Request /\ keys \in Key
<1>1. /\ Cardinality(Busy(Linking)) \in Nat /\ Cardinality(Busy(Rotating)) \in Nat
      /\ \A w \in Busy(Linking) : Cardinality(Busy(Linking)) >= 1
      /\ \A w \in Busy(Rotating) : Cardinality(Busy(Rotating)) >= 1
  <2>1. /\ Cardinality(Busy(Linking)) \in Nat /\ Cardinality(Busy(Rotating)) \in Nat
        /\ Busy(Linking) = {} <=> Cardinality(Busy(Linking)) = 0
        /\ Busy(Rotating) = {} <=> Cardinality(Busy(Rotating)) = 0
    BY FS_CardinalityType, FS_EmptySet DEF AccountInv, Bounded
  <2> QED BY <2>1
<1>2. /\ keys \in Nat /\ tokens \in Nat /\ served \in 0 .. MaxRequests
      /\ tokens + Cardinality(Busy(Linking)) <= served + 2
      /\ keys + Cardinality(Busy(Rotating)) <= served + 1
  BY DEF AccountInv, Typed, Bounded
<1>3. /\ keys \in Key \cup {0} /\ tokens \in Token \cup {0}
      /\ \A w \in Busy(Linking) : tokens + 1 \in Token
      /\ \A w \in Busy(Rotating) : keys + 1 \in Key
  BY <1>1, <1>2 DEF Key, Token
<1>4. \A w \in Worker : req[w] # Idle => req[w] \in Request /\ keys \in Key
  BY <1>3 DEF AccountInv, Typed, Known
<1> QED BY <1>3, <1>4

\* Nothing is made: what was known stays known, and what is new must be.
LEMMA KnownStays ==
    ASSUME Typed, Known, NEW w \in Worker, NEW r, req' = [req EXCEPT ![w] = r],
           r # Idle => KnownRow(r.row, keys', tokens') /\ ArgOK(r, mail', keys', tokens'),
           keys' \in Nat /\ keys' # 0 /\ keys <= keys' /\ tokens' \in Nat /\ tokens <= tokens',
           row' # NoRow => KnownRow(row', keys', tokens'),
           mail \subseteq mail', \A m \in mail' \ mail : m.token <= tokens',
           \/ revocations' = revocations
           \/ \E k \in Key : k <= keys' /\ revocations' = Append(revocations, k),
           \/ resets' = resets
           \/ \E t \in Token : t <= tokens' /\ resets' = Append(resets, t)
    PROVE  Known'
<1>0. /\ keys \in Nat /\ tokens \in Nat /\ mail \subseteq Link
      /\ revocations \in Seq(Key) /\ resets \in Seq(Token)
      /\ req \in [Worker -> Request \cup {Idle}]
  BY DEF Typed
<1>1. ASSUME NEW v \in Worker, req'[v] # Idle
      PROVE  KnownRow(req'[v].row, keys', tokens') /\ ArgOK(req'[v], mail', keys', tokens')
  <2>1. CASE v = w
    <3>1. req'[v] = r
      BY <1>0, <2>1
    <3> QED BY <1>1, <3>1
  <2>2. CASE v # w
    <3>1. req'[v] = req[v] /\ req[v] \in Request
      BY <1>0, <1>1, <2>2
    <3>2. KnownRow(req[v].row, keys, tokens) /\ ArgOK(req[v], mail, keys, tokens)
      BY <1>1, <3>1 DEF Known
    <3>3. /\ req[v].row.key \in Nat /\ req[v].row.verify \in Nat /\ req[v].row.reset \in Nat
      BY <3>1 DEF Request, OwnerRow, Key, Token
    <3>4. KnownRow(req[v].row, keys', tokens')
      BY <1>0, <3>2, <3>3 DEF KnownRow
    <3>5. req[v].at = "email" => req[v].arg.token \in Nat
      BY <3>2 DEF ArgOK, Link, Token
    <3>6. ArgOK(req[v], mail', keys', tokens')
      BY <1>0, <3>2, <3>5 DEF ArgOK
    <3> QED BY <3>1, <3>4, <3>6
  <2> QED BY <2>1, <2>2
<1>2. \A m \in mail' : m.token <= tokens'
  <2>1. \A m \in mail : m.token \in Nat /\ m.token <= tokens
    BY <1>0 DEF Known, Link, Token
  <2> QED BY <1>0, <2>1
<1>3. \A i \in DOMAIN revocations' : revocations'[i] <= keys'
  <2>1. \A i \in DOMAIN revocations : revocations[i] \in Nat /\ revocations[i] <= keys
    BY <1>0 DEF Known, Key
  <2>2. \A i \in DOMAIN revocations : revocations[i] <= keys'
    BY <1>0, <2>1
  <2>3. ASSUME NEW k \in Key, k <= keys', revocations' = Append(revocations, k)
        PROVE  \A i \in DOMAIN revocations' : revocations'[i] <= keys'
    BY <1>0, <2>2, <2>3
  <2> QED BY <2>2, <2>3
<1>4. \A i \in DOMAIN resets' : resets'[i] <= tokens'
  <2>1. \A i \in DOMAIN resets : resets[i] \in Nat /\ resets[i] <= tokens
    BY <1>0 DEF Known, Token
  <2>2. \A i \in DOMAIN resets : resets[i] <= tokens'
    BY <1>0, <2>1
  <2>3. ASSUME NEW t \in Token, t <= tokens', resets' = Append(resets, t)
        PROVE  \A i \in DOMAIN resets' : resets'[i] <= tokens'
    BY <1>0, <2>2, <2>3
  <2> QED BY <2>2, <2>3
<1> QED BY <1>1, <1>2, <1>3, <1>4 DEF Known

-----------------------------------------------------------------------------
\* How a request starts: it has read the row, and nothing else changes.
Started(w, r) ==
    /\ row # NoRow /\ req[w] = Idle /\ served < MaxRequests
    /\ r \in Request /\ r.row = row /\ r.at \notin {"email", "revoke", "deactivate"}
    /\ ArgOK(r, mail, keys, tokens)
    /\ req' = [req EXCEPT ![w] = r] /\ served' = served + 1
    /\ UNCHANGED <<row, generated, mail, revocations, history, faults>>

Starts(w) ==
    \/ PutMe(w) \/ ResendVerification(w) \/ VerifyEmail(w) \/ RotateKey(w) \/ DeleteMe(w)
    \/ RequestPasswordReset(w) \/ ResetPassword(w)

\* What a request that begins writes: the worker's record, and nothing of the owner.
LEMMA StartShape ==
    ASSUME AccountInv, NEW w \in Worker, Starts(w)
    PROVE  \E r : Started(w, r)
<1>1. ASSUME NEW stage \in Stages \ {"email", "revoke", "deactivate"},
             NEW arg \in Address \cup Link \cup Key \cup {NoArg}, Begin(w, stage, arg),
             row # NoRow => ArgOK([at |-> stage, row |-> row, arg |-> arg], mail, keys, tokens)
      PROVE  \E r : Started(w, r)
  <2>1. row # NoRow /\ row \in OwnerRow
    BY <1>1 DEF Begin, AccountInv, Typed
  <2>2. [at |-> stage, row |-> row, arg |-> arg] \in Request
    BY <2>1 DEF Request
  <2>3. Started(w, [at |-> stage, row |-> row, arg |-> arg])
    BY <1>1, <2>1, <2>2 DEF Begin, Started
  <2> QED BY <2>3
<1>2. CASE PutMe(w)
  BY <1>1, <1>2 DEF PutMe, Stages, ArgOK
<1>3. CASE ResendVerification(w) \/ RotateKey(w) \/ DeleteMe(w) \/ RequestPasswordReset(w)
  BY <1>1, <1>3 DEF ResendVerification, RotateKey, DeleteMe, RequestPasswordReset, Stages, ArgOK
<1>4. CASE VerifyEmail(w)
  <2>1. PICK m \in mail : m.link = "verify" /\ m.token = row.verify /\ Begin(w, "activate", m)
    BY <1>4 DEF VerifyEmail
  <2>2. m \in Link
    BY DEF AccountInv, Typed
  <2> QED BY <1>1, <2>1, <2>2 DEF Stages, ArgOK
<1>5. CASE ResetPassword(w)
  <2>1. PICK m \in mail : m.link = "reset" /\ m.token = row.reset /\ Begin(w, "password", m)
    BY <1>5 DEF ResetPassword
  <2>2. m \in Link
    BY DEF AccountInv, Typed
  <2> QED BY <1>1, <2>1, <2>2 DEF Stages, ArgOK
<1> QED BY <1>2, <1>3, <1>4, <1>5 DEF Starts

\* How a statement makes a link: the row has it, and it is to be mailed.
Linked(w, m) ==
    /\ req[w] \in Request /\ w \in Busy(Linking) /\ req[w].at # "profile"
    /\ row # NoRow /\ m \in Link /\ m.token = tokens + 1 /\ m.to = req[w].row.email
    /\ tokens' = tokens + 1
    /\ [at |-> "email", row |-> req[w].row, arg |-> m] \in Request
    /\ req' = [req EXCEPT ![w] = [at |-> "email", row |-> req[w].row, arg |-> m]]
    /\ row' \in OwnerRow /\ row'.key = row.key /\ row'.email = row.email
    /\ \/ m.link = "verify" /\ row'.verify = tokens + 1 /\ row'.reset = row.reset
       \/ m.link = "reset" /\ row'.reset = tokens + 1 /\ row'.verify = row.verify
    /\ UNCHANGED <<keys, mail, revocations, opened, resets, unrevoked, bounds>>

\* What a statement that makes a link writes: the row, a token and the email to send.
LEMMA LinkShape ==
    ASSUME AccountInv, NEW w \in Worker, Deactivate(w) \/ RenewLink(w) \/ SaveResetLink(w)
    PROVE  /\ collided' \in BOOLEAN
           /\ \E m : Linked(w, m) /\ (m.link = "verify" <=> ~SaveResetLink(w))
<1>1. /\ row # NoRow /\ req[w] # Idle /\ req[w].at \in {"deactivate", "renew", "remind"}
      /\ w \in Busy(Linking) /\ collided' \in BOOLEAN
  BY DEF Deactivate, RenewLink, SaveResetLink, At, Busy, Linking, Collide, AccountInv, Typed,
         history
<1>2. row \in OwnerRow /\ req[w] \in Request /\ tokens + 1 \in Token
  BY <1>1, InRange DEF AccountInv, Typed
<1>3. req[w].row.email \in Address
  BY <1>2 DEF Request, OwnerRow
<1> DEFINE kind == IF SaveResetLink(w) THEN "reset" ELSE "verify"
           m == [link |-> kind, token |-> tokens + 1, to |-> req[w].row.email]
<1>4. m \in Link
  BY <1>2, <1>3 DEF Link
<1>5. /\ Goes(w, "email", m) /\ tokens' = tokens + 1
      /\ UNCHANGED <<keys, mail, revocations, opened, resets, unrevoked, bounds>>
  <2>1. CASE SaveResetLink(w)
    BY <2>1 DEF SaveResetLink, Resetting, history
  <2>2. CASE ~SaveResetLink(w)
    BY <2>2 DEF Deactivate, RenewLink, NewLink, Verification
  <2> QED BY <2>1, <2>2
<1>6. /\ row' \in OwnerRow /\ row'.key = row.key /\ row'.email = row.email
      /\ SaveResetLink(w) => row'.reset = tokens + 1 /\ row'.verify = row.verify
      /\ ~SaveResetLink(w) => row'.verify = tokens + 1 /\ row'.reset = row.reset
  <2>1. CASE SaveResetLink(w)
    <3>1. row' = [row EXCEPT !.reset = tokens + 1] /\ At(w, "remind")
      BY <2>1 DEF SaveResetLink
    <3> QED BY <1>2, <2>1, <3>1 DEF OwnerRow
  <2>2. CASE ~SaveResetLink(w)
    <3>1. \/ row' = [row EXCEPT !.active = FALSE, !.verify = tokens + 1]
          \/ row' = [row EXCEPT !.verify = tokens + 1]
      BY <2>2 DEF Deactivate, RenewLink
    <3> QED BY <1>2, <2>2, <3>1 DEF OwnerRow
  <2> QED BY <2>1, <2>2
<1>7. m.link = kind /\ m.token = tokens + 1 /\ m.to = req[w].row.email
  OBVIOUS
<1>8. m.link = "verify" <=> ~SaveResetLink(w)
  BY <1>7
<1>9. (~SaveResetLink(w) => m.link = "verify") /\ (SaveResetLink(w) => m.link = "reset")
  BY <1>7
<1> HIDE DEF m
<1>10. /\ [at |-> "email", row |-> req[w].row, arg |-> m] \in Request
       /\ req' = [req EXCEPT ![w] = [at |-> "email", row |-> req[w].row, arg |-> m]]
  BY <1>1, <1>4, <1>5, GoesOn DEF AccountInv, Stages
<1>11. Linked(w, m)
  BY <1>1, <1>2, <1>4, <1>5, <1>6, <1>7, <1>9, <1>10 DEF Linked
<1> QED BY <1>1, <1>8, <1>11

-----------------------------------------------------------------------------
\* The requests at some stages, after a step of w.
LEMMA BusyChanges ==
    ASSUME Typed, NEW w \in Worker, NEW r, req' = [req EXCEPT ![w] = r], NEW stages
    PROVE  /\ Busy(stages)' \subseteq Busy(stages) \cup {w}
           /\ ~(r # Idle /\ r.at \in stages) => Busy(stages)' \subseteq Busy(stages) \ {w}
<1>1. req'[w] = r /\ \A v \in Worker : v # w => req'[v] = req[v]
  BY DEF Typed
<1> QED BY <1>1 DEF Busy

\* The count of what may still be made, after a step of w.
LEMMA BoundedStays ==
    ASSUME AccountInv, NEW w \in Worker, NEW r, req' = [req EXCEPT ![w] = r],
           \/ /\ UNCHANGED <<keys, tokens, served>>
              /\ r # Idle /\ r.at \in Linking => w \in Busy(Linking)
              /\ r # Idle /\ r.at \in Rotating => w \in Busy(Rotating)
           \/ UNCHANGED generated /\ served' = served + 1
           \/ /\ tokens' = tokens + 1 /\ UNCHANGED <<keys, served>>
              /\ w \in Busy(Linking) /\ r.at \notin Linking \cup Rotating
           \/ /\ keys' = keys + 1 /\ UNCHANGED <<tokens, served>>
              /\ w \in Busy(Rotating) /\ r.at \notin Linking \cup Rotating
           \/ /\ keys = 0 /\ keys' = 1 /\ tokens' = 1 /\ served' = served + 1
              /\ r.at \notin Linking \cup Rotating
    PROVE  Bounded'
<1> DEFINE L == Busy(Linking)  R == Busy(Rotating)
<1>1. /\ IsFiniteSet(L) /\ tokens + Cardinality(L) <= served + 2
      /\ IsFiniteSet(R) /\ keys + Cardinality(R) <= served + 1
      /\ keys \in Nat /\ tokens \in Nat /\ served \in Nat
  BY DEF AccountInv, Bounded, Typed
<1>2. /\ L' \subseteq L \cup {w} /\ R' \subseteq R \cup {w}
      /\ ~(r # Idle /\ r.at \in Linking) => L' \subseteq L \ {w}
      /\ ~(r # Idle /\ r.at \in Rotating) => R' \subseteq R \ {w}
  BY BusyChanges DEF AccountInv
<1> HIDE DEF L, R
<1>3. /\ Cardinality(L) \in Nat /\ Cardinality(R) \in Nat
      /\ L' \subseteq L => IsFiniteSet(L') /\ Cardinality(L') <= Cardinality(L)
      /\ IsFiniteSet(L') /\ Cardinality(L') <= Cardinality(L) + 1
      /\ w \in L /\ L' \subseteq L \ {w} => Cardinality(L') + 1 <= Cardinality(L)
      /\ R' \subseteq R => IsFiniteSet(R') /\ Cardinality(R') <= Cardinality(R)
      /\ IsFiniteSet(R') /\ Cardinality(R') <= Cardinality(R) + 1
      /\ w \in R /\ R' \subseteq R \ {w} => Cardinality(R') + 1 <= Cardinality(R)
  BY <1>1, <1>2, CountChanges
<1>4. Cardinality(L') \in Nat /\ Cardinality(R') \in Nat
  BY <1>3, FS_CardinalityType
<1>5. tokens' + Cardinality(L') <= served' + 2 /\ keys' + Cardinality(R') <= served' + 1
  <2>1. CASE /\ UNCHANGED <<keys, tokens, served>>
             /\ r # Idle /\ r.at \in Linking => w \in L
             /\ r # Idle /\ r.at \in Rotating => w \in R
    <3>1. L' \subseteq L /\ R' \subseteq R
      BY <1>2, <2>1
    <3> QED BY <1>1, <1>3, <1>4, <2>1, <3>1
  <2>2. CASE UNCHANGED generated /\ served' = served + 1
    BY <1>1, <1>3, <1>4, <2>2 DEF generated
  <2>3. CASE /\ tokens' = tokens + 1 /\ UNCHANGED <<keys, served>>
             /\ w \in L /\ r.at \notin Linking \cup Rotating
    <3>1. L' \subseteq L \ {w} /\ R' \subseteq R
      BY <1>2, <2>3
    <3> QED BY <1>1, <1>3, <1>4, <2>3, <3>1
  <2>4. CASE /\ keys' = keys + 1 /\ UNCHANGED <<tokens, served>>
             /\ w \in R /\ r.at \notin Linking \cup Rotating
    <3>1. R' \subseteq R \ {w} /\ L' \subseteq L
      BY <1>2, <2>4
    <3> QED BY <1>1, <1>3, <1>4, <2>4, <3>1
  <2>5. CASE /\ keys = 0 /\ keys' = 1 /\ tokens' = 1 /\ served' = served + 1
             /\ r.at \notin Linking \cup Rotating
    <3>1. L = {} /\ R = {}
      BY <2>5 DEF L, R, Busy, AccountInv, Known
    <3>2. L' = {} /\ R' = {}
      BY <1>2, <2>5, <3>1
    <3>3. Cardinality(L') = 0 /\ Cardinality(R') = 0
      BY <3>2, FS_EmptySet
    <3> QED BY <1>1, <2>5, <3>3
  <2> QED BY <2>1, <2>2, <2>3, <2>4, <2>5 DEF L, R
<1> QED BY <1>3, <1>5 DEF Bounded, L, R

\* A request starts, or a sign-up makes the account.
LEMMA StartAccount ==
    ASSUME AccountInv, NEW w \in Worker, Starts(w) \/ Signup(w)
    PROVE  AccountInv'
<1>1. CASE Starts(w)
  <2>1. PICK r : Started(w, r)
    BY <1>1, StartShape
  <2>2. Typed'
    BY <2>1 DEF Started, AccountInv, Typed, generated, history
  <2>3. KnownRow(row, keys, tokens) /\ keys # 0 /\ Typed /\ Known
    BY <2>1 DEF Started, AccountInv, Known
  <2>4. Known'
    <3>1. /\ req' = [req EXCEPT ![w] = r] /\ UNCHANGED <<row, keys, tokens, mail, revocations, resets>>
          /\ r.row = row /\ ArgOK(r, mail, keys, tokens)
      BY <2>1 DEF Started, generated, history
    <3>2. keys \in Nat /\ tokens \in Nat
      BY <2>3 DEF Typed
    <3>3. /\ ArgOK(r, mail', keys', tokens') /\ KnownRow(r.row, keys', tokens')
          /\ KnownRow(row', keys', tokens') /\ keys' \in Nat /\ tokens' \in Nat /\ keys' # 0
          /\ keys <= keys' /\ tokens <= tokens'
          /\ mail \subseteq mail' /\ \A m \in mail' \ mail : m.token <= tokens'
      BY <2>3, <3>1, <3>2
    <3> QED BY <2>3, <3>1, <3>3, KnownStays
  <2>5. Bounded'
    BY <2>1, BoundedStays DEF Started
  <2> QED BY <2>2, <2>4, <2>5 DEF AccountInv
<1>2. CASE Signup(w)
  <2>1. PICK a \in Address :
           /\ row' = Fresh(a)
           /\ req' = [req EXCEPT ![w] = [at |-> "email", row |-> Fresh(a), arg |-> Verification(1, a)]]
    BY <1>2 DEF Signup
  <2>2. /\ keys = 0 /\ keys' = 1 /\ tokens' = 1 /\ served < MaxRequests /\ served' = served + 1
        /\ UNCHANGED <<mail, revocations, opened, resets, unrevoked, collided, faults>>
    BY <1>2 DEF Signup, history
  <2>3. 1 \in Key /\ 1 \in Token /\ 0 \in Token \cup {0}
    BY DEF Key, Token
  <2>4. Fresh(a) \in OwnerRow /\ Verification(1, a) \in Link
    BY <2>3 DEF Fresh, OwnerRow, Verification, Link
  <2> DEFINE r == [at |-> "email", row |-> Fresh(a), arg |-> Verification(1, a)]
  <2>5. r \in Request
    BY <2>4 DEF Request, Stages
  <2>6. KnownRow(Fresh(a), 1, 1) /\ Verification(1, a).token <= 1
    BY DEF KnownRow, Fresh, Verification
  <2>7. r.at = "email" /\ ArgOK(r, mail, 1, 1) /\ KnownRow(r.row, 1, 1)
    BY <2>4, <2>6 DEF ArgOK
  <2>8. req' = [req EXCEPT ![w] = r]
    BY <2>1
  <2> HIDE DEF r
  <2>9. Typed'
    BY <2>1, <2>2, <2>4, <2>5, <2>8 DEF AccountInv, Typed
  <2>10. Typed /\ Known /\ keys \in Nat /\ tokens \in Nat /\ tokens <= 1
    BY <2>2 DEF AccountInv, Typed, Known
  <2>11. Known'
    <3>1. /\ ArgOK(r, mail', keys', tokens') /\ KnownRow(r.row, keys', tokens')
          /\ KnownRow(row', keys', tokens') /\ keys' \in Nat /\ tokens' \in Nat /\ keys' # 0
          /\ keys <= keys' /\ tokens <= tokens'
          /\ mail \subseteq mail' /\ \A m \in mail' \ mail : m.token <= tokens'
      BY <2>1, <2>2, <2>6, <2>7, <2>10
    <3> QED BY <2>2, <2>8, <2>10, <3>1, KnownStays
  <2>12. Bounded'
    BY <2>2, <2>7, <2>8, BoundedStays DEF Linking, Rotating
  <2> QED BY <2>9, <2>11, <2>12 DEF AccountInv
<1> QED BY <1>1, <1>2

\* A step of w that makes no key and no link.
LEMMA OtherAccount ==
    ASSUME AccountInv, NEW w \in Worker, NEW r \in Request \cup {Idle},
           req[w] # Idle, req' = [req EXCEPT ![w] = r],
           r # Idle => /\ (r.row = req[w].row \/ (r.row = row' /\ row' # NoRow))
                       /\ r.at \in {"deactivate", "revoke"} /\ ArgOK(r, mail, keys, tokens)
                       /\ (r.at = "deactivate" => At(w, "profile")),
           row' \in OwnerRow \cup {NoRow}, row' # NoRow => KnownRow(row', keys, tokens),
           UNCHANGED generated, mail \subseteq mail', mail' \subseteq Link, opened' \subseteq mail',
           \A m \in mail' \ mail : m.token <= tokens,
           revocations' \in Seq(Key),
           \/ revocations' = revocations
           \/ \E k \in Key : k <= keys /\ revocations' = Append(revocations, k),
           resets' \in Seq(Token),
           \/ resets' = resets
           \/ \E t \in Token : t <= tokens /\ resets' = Append(resets, t),
           unrevoked' \subseteq Key, collided' \in BOOLEAN,
           served' = served, faults' \in 0 .. MaxFaults
    PROVE  AccountInv'
<1>1. Typed'
  BY DEF AccountInv, Typed, generated
<1>2. /\ Typed /\ Known /\ keys' = keys /\ tokens' = tokens /\ keys \in Nat /\ tokens \in Nat
      /\ keys # 0 /\ KnownRow(req[w].row, keys, tokens)
  BY DEF AccountInv, Typed, Known, generated
<1>3. r # Idle => KnownRow(r.row, keys, tokens)
  BY <1>2
<1>4. r # Idle => ArgOK(r, mail', keys', tokens') /\ KnownRow(r.row, keys', tokens')
  BY <1>2, <1>3 DEF ArgOK
<1>5. Known'
  <2>1. /\ row' # NoRow => KnownRow(row', keys', tokens')
        /\ keys' \in Nat /\ tokens' \in Nat /\ keys' # 0 /\ keys <= keys' /\ tokens <= tokens'
        /\ \A m \in mail' \ mail : m.token <= tokens'
        /\ \/ revocations' = revocations
           \/ \E k \in Key : k <= keys' /\ revocations' = Append(revocations, k)
        /\ \/ resets' = resets
           \/ \E t \in Token : t <= tokens' /\ resets' = Append(resets, t)
    BY <1>2
  <2> QED BY <1>2, <1>4, <2>1, KnownStays
<1>6. Bounded'
  <2>1. r # Idle /\ r.at \in Linking => w \in Busy(Linking)
    BY DEF At, Busy, Linking
  <2>2. r # Idle => r.at \notin Rotating
    BY DEF Rotating
  <2> QED BY <1>2, <2>1, <2>2, BoundedStays
<1> QED BY <1>1, <1>5, <1>6 DEF AccountInv

\* What a worker that has read the row knows.
LEMMA AtWork ==
    ASSUME AccountInv, NEW w \in Worker, req[w] # Idle
    PROVE  /\ req[w] \in Request /\ req[w].row \in OwnerRow /\ req[w].row # NoRow
           /\ KnownRow(req[w].row, keys, tokens) /\ ArgOK(req[w], mail, keys, tokens)
           /\ req[w].row.key \in Key /\ req[w].row.key \in 1 .. keys
           /\ Displaced(w) \subseteq Key
           /\ row \in OwnerRow \cup {NoRow} /\ (row # NoRow => row \in OwnerRow /\ row.key \in Key)
           /\ \A m \in Link : m.token \in Nat
<1>1. /\ req[w] \in Request /\ row \in OwnerRow \cup {NoRow} /\ keys \in Nat
      /\ KnownRow(req[w].row, keys, tokens) /\ ArgOK(req[w], mail, keys, tokens)
  BY DEF AccountInv, Typed, Known
<1>2. req[w].row \in OwnerRow /\ req[w].row # NoRow
  BY <1>1, MarksAssumption DEF Request
<1>3. req[w].row.key \in Key /\ req[w].row.key \in 1 .. keys
  BY <1>1, <1>2 DEF OwnerRow, Key, KnownRow
<1>4. row # NoRow => row \in OwnerRow /\ row.key \in Key
  BY <1>1 DEF OwnerRow
<1>5. \A m \in Link : m.token \in Nat
  BY DEF Link, Token
<1> QED BY <1>1, <1>2, <1>3, <1>4, <1>5 DEF Displaced

\* PUT writes all columns back; a new address takes a second statement.
SavedProfile(w, r) ==
    /\ req[w] # Idle /\ req[w].at = "profile" /\ req[w].arg \in Address
    /\ row' \in OwnerRow /\ row' = [req[w].row EXCEPT !.email = req[w].arg]
    /\ row'.key = req[w].row.key /\ row'.verify = req[w].row.verify
    /\ row'.reset = req[w].row.reset /\ row'.active = req[w].row.active
    /\ \/ r = Idle /\ row' = req[w].row
       \/ r = [at |-> "deactivate", row |-> row', arg |-> NoArg]
    /\ r \in Request \cup {Idle} /\ req' = [req EXCEPT ![w] = r]
    /\ collided' = (collided \/ row # req[w].row)
    /\ unrevoked' = unrevoked \cup Displaced(w)
    /\ UNCHANGED <<generated, mail, revocations, opened, resets, bounds>>

\* What PUT /owners/me saves: the row it read, with the address it was given.
LEMMA ProfileShape ==
    ASSUME AccountInv, NEW w \in Worker, SaveProfile(w)
    PROVE  \E r : SavedProfile(w, r)
<1> DEFINE read == req[w].row
           new == [read EXCEPT !.email = req[w].arg]
<1>1. req[w] # Idle /\ req[w].at = "profile"
  BY DEF SaveProfile, At
<1>2. read \in OwnerRow /\ req[w].arg \in Address
  BY <1>1, AtWork DEF ArgOK
<1>3. /\ new \in OwnerRow /\ new.key = read.key /\ new.verify = read.verify
      /\ new.reset = read.reset /\ new.active = read.active
      /\ new.email = read.email => new = read
  BY <1>2 DEF OwnerRow
<1> DEFINE r == IF new.email # read.email THEN [at |-> "deactivate", row |-> new, arg |-> NoArg]
                ELSE Idle
<1>4. /\ row' = new /\ req' = [req EXCEPT ![w] = r] /\ collided' = (collided \/ row # read)
      /\ unrevoked' = unrevoked \cup Displaced(w)
      /\ UNCHANGED <<generated, mail, revocations, opened, resets, bounds>>
  BY DEF SaveProfile, Collide
<1> HIDE DEF new
<1>5. r \in Request \cup {Idle}
  BY <1>3 DEF Request, Stages
<1>6. (r = Idle /\ new = read) \/ r = [at |-> "deactivate", row |-> new, arg |-> NoArg]
  BY <1>3
<1> HIDE DEF r
<1> QED BY <1>1, <1>2, <1>3, <1>4, <1>5, <1>6 DEF SavedProfile, new

\* A statement that takes the key away: another key, or the row is gone.
TookKey(w, r) ==
    /\ req[w] # Idle /\ r \in Request /\ r.at = "revoke" /\ r.row = req[w].row
    /\ r.arg = req[w].row.key /\ req' = [req EXCEPT ![w] = r]
    /\ unrevoked' = unrevoked \cup Displaced(w)
    /\ UNCHANGED <<tokens, mail, revocations, opened, resets, collided, bounds>>

\* What a rotation and a deletion write, each taking the old key to revoke it.
LEMMA KeyShape ==
    ASSUME AccountInv, NEW w \in Worker, SaveKey(w) \/ Remove(w)
    PROVE  \E r : /\ TookKey(w, r)
                  /\ \/ Remove(w) /\ row' = NoRow /\ keys' = keys
                     \/ /\ SaveKey(w) /\ row # NoRow /\ w \in Busy(Rotating)
                        /\ keys' = keys + 1 /\ keys + 1 \in Key
                        /\ row' = [row EXCEPT !.key = keys + 1] /\ row' \in OwnerRow
<1>1. req[w] # Idle /\ Goes(w, "revoke", req[w].row.key)
  BY DEF SaveKey, Remove, At
<1>2. req[w].row.key \in Key
  BY <1>1, AtWork
<1> DEFINE r == [at |-> "revoke", row |-> req[w].row, arg |-> req[w].row.key]
<1>3. r \in Request /\ req' = [req EXCEPT ![w] = r]
  BY <1>1, <1>2, GoesOn DEF AccountInv, Stages
<1>4. r.at = "revoke" /\ r.row = req[w].row /\ r.arg = req[w].row.key
  OBVIOUS
<1> HIDE DEF r
<1>5. TookKey(w, r)
  BY <1>1, <1>3, <1>4 DEF TookKey, SaveKey, Remove, generated
<1>6. CASE Remove(w)
  BY <1>5, <1>6 DEF Remove, generated
<1>7. CASE SaveKey(w)
  <2>1. w \in Busy(Rotating) /\ row # NoRow /\ keys' = keys + 1 /\ row' = [row EXCEPT !.key = keys + 1]
    BY <1>1, <1>7 DEF SaveKey, At, Busy, Rotating
  <2>2. keys + 1 \in Key /\ row \in OwnerRow
    BY <2>1, InRange DEF AccountInv, Typed
  <2>3. row' \in OwnerRow
    BY <2>1, <2>2 DEF OwnerRow
  <2> QED BY <1>5, <1>7, <2>1, <2>2, <2>3
<1> QED BY <1>6, <1>7

\* The statements.
LEMMA StatementAccount ==
    ASSUME AccountInv, NEW w \in Worker,
           \/ SaveProfile(w) \/ Deactivate(w) \/ RenewLink(w) \/ Activate(w) \/ SaveKey(w)
           \/ Remove(w) \/ SaveResetLink(w) \/ SavePassword(w) \/ SaveMissesRow(w)
    PROVE  AccountInv'
<1>0. /\ Typed /\ Known /\ keys \in Nat /\ tokens \in Nat /\ mail \subseteq Link
      /\ opened \subseteq mail /\ revocations \in Seq(Key) /\ resets \in Seq(Token)
      /\ row \in OwnerRow \cup {NoRow} /\ (row # NoRow => KnownRow(row, keys, tokens) /\ keys # 0)
      /\ unrevoked \subseteq Key /\ collided \in BOOLEAN /\ faults \in 0 .. MaxFaults
      /\ \A m \in mail : m.token <= tokens
  BY DEF AccountInv, Typed, Known
<1>1. CASE SaveProfile(w)
  <2>1. PICK r : SavedProfile(w, r)
    BY <1>1, ProfileShape
  <2>2. /\ row' # NoRow /\ KnownRow(row', keys, tokens) /\ Displaced(w) \subseteq Key
        /\ At(w, "profile")
    BY <2>1, AtWork, MarksAssumption DEF SavedProfile, KnownRow, At
  <2>3. r # Idle => /\ r.row = row' /\ r.at = "deactivate" /\ ArgOK(r, mail, keys, tokens)
    BY <2>1 DEF SavedProfile, ArgOK
  <2>4. collided' \in BOOLEAN /\ unrevoked' \subseteq Key
    BY <1>0, <2>1, <2>2 DEF SavedProfile
  <2> QED BY <1>0, <2>1, <2>2, <2>3, <2>4, OtherAccount DEF SavedProfile, bounds
<1>2. CASE Deactivate(w) \/ RenewLink(w) \/ SaveResetLink(w)
  <2>1. PICK m : Linked(w, m)
    BY <1>2, LinkShape
  <2>2. collided' \in BOOLEAN
    BY <1>2, LinkShape
  <2> DEFINE r == [at |-> "email", row |-> req[w].row, arg |-> m]
  <2>3. /\ r \in Request /\ req' = [req EXCEPT ![w] = r] /\ r.at = "email"
        /\ r.row = req[w].row /\ r.arg = m
    BY <2>1 DEF Linked
  <2> HIDE DEF r
  <2>4. /\ tokens' = tokens + 1 /\ UNCHANGED <<keys, mail, revocations, opened, resets, unrevoked>>
        /\ served' = served /\ faults' = faults /\ row \in OwnerRow /\ row' \in OwnerRow
        /\ req[w] # Idle /\ row # NoRow /\ m \in Link /\ m.token = tokens + 1
    BY <1>0, <2>1 DEF Linked, bounds, Busy
  <2>5. Typed'
    BY <1>0, <2>2, <2>3, <2>4 DEF Typed
  <2>6. KnownRow(row', keys', tokens')
    <3>1. /\ row'.key = row.key /\ (row'.verify = row.verify \/ row'.verify = tokens + 1)
          /\ (row'.reset = row.reset \/ row'.reset = tokens + 1)
      BY <2>1 DEF Linked
    <3>2. row.verify \in Nat /\ row.reset \in Nat /\ KnownRow(row, keys, tokens)
      BY <1>0, <2>4 DEF OwnerRow, Token
    <3> QED BY <1>0, <2>4, <3>1, <3>2 DEF KnownRow
  <2>7. KnownRow(r.row, keys', tokens') /\ ArgOK(r, mail', keys', tokens')
    <3>1. KnownRow(req[w].row, keys, tokens) /\ req[w].row \in OwnerRow
      BY <2>4, AtWork
    <3>2. req[w].row.verify \in Nat /\ req[w].row.reset \in Nat
      BY <3>1 DEF OwnerRow, Token
    <3> QED BY <1>0, <2>3, <2>4, <3>1, <3>2 DEF KnownRow, ArgOK
  <2>8. Known'
    <3>1. /\ keys' \in Nat /\ keys' # 0 /\ keys <= keys' /\ tokens' \in Nat /\ tokens <= tokens'
          /\ mail \subseteq mail' /\ \A n \in mail' \ mail : n.token <= tokens'
      BY <1>0, <2>4
    <3> QED BY <1>0, <2>3, <2>4, <2>6, <2>7, <3>1, KnownStays
  <2>9. Bounded'
    <3>1. w \in Busy(Linking) /\ r.at \notin Linking \cup Rotating
      BY <2>1, <2>3 DEF Linked, Linking, Rotating
    <3> QED BY <2>3, <2>4, <3>1, BoundedStays
  <2> QED BY <2>5, <2>8, <2>9 DEF AccountInv
<1>3. CASE Activate(w)
  <2>1. /\ req[w] # Idle /\ req[w].at = "activate" /\ row # NoRow /\ row' = [row EXCEPT !.active = TRUE]
        /\ opened' = opened \cup {req[w].arg} /\ req' = [req EXCEPT ![w] = Idle]
        /\ collided' = (collided \/ Changed(w, {"email", "verify"}))
        /\ UNCHANGED <<generated, mail, revocations, resets, unrevoked, bounds>>
    BY <1>3 DEF Activate, At, Ends, Collide
  <2>2. req[w].arg \in mail /\ row \in OwnerRow /\ KnownRow(row, keys, tokens)
    BY <1>0, <2>1, AtWork DEF ArgOK
  <2>3. row' \in OwnerRow /\ KnownRow(row', keys, tokens)
    BY <2>1, <2>2 DEF OwnerRow, KnownRow
  <2>4. opened' \subseteq mail' /\ collided' \in BOOLEAN
    BY <1>0, <2>1, <2>2
  <2> QED BY <1>0, <2>1, <2>3, <2>4, OtherAccount DEF bounds
<1>4. CASE SaveKey(w)
  <2>1. PICK r : TookKey(w, r) /\ row # NoRow /\ w \in Busy(Rotating) /\ keys' = keys + 1
                 /\ keys + 1 \in Key /\ row' = [row EXCEPT !.key = keys + 1] /\ row' \in OwnerRow
    BY <1>4, KeyShape DEF SaveKey, Remove, At
  <2>2. /\ req[w] # Idle /\ r \in Request /\ r.at = "revoke" /\ r.row = req[w].row
        /\ r.arg = req[w].row.key /\ req' = [req EXCEPT ![w] = r]
        /\ UNCHANGED <<tokens, mail, revocations, opened, resets, collided>>
        /\ unrevoked' = unrevoked \cup Displaced(w) /\ served' = served /\ faults' = faults
    BY <2>1 DEF TookKey, bounds
  <2>3. /\ KnownRow(req[w].row, keys, tokens) /\ req[w].row.key \in 1 .. keys
        /\ Displaced(w) \subseteq Key /\ req[w].row \in OwnerRow
    BY <2>2, AtWork
  <2>4. Typed'
    BY <1>0, <2>1, <2>2, <2>3 DEF Typed
  <2>5. KnownRow(row', keys', tokens')
    BY <1>0, <2>1, <2>2 DEF KnownRow, OwnerRow
  <2>6. KnownRow(r.row, keys', tokens') /\ ArgOK(r, mail', keys', tokens')
    <3>1. req[w].row.key \in Nat
      BY <2>3 DEF OwnerRow, Key
    <3> QED BY <1>0, <2>1, <2>2, <2>3, <3>1 DEF KnownRow, ArgOK
  <2>7. Known'
    <3>1. /\ keys' \in Nat /\ keys' # 0 /\ keys <= keys' /\ tokens' \in Nat /\ tokens <= tokens'
          /\ mail \subseteq mail' /\ \A n \in mail' \ mail : n.token <= tokens'
      BY <1>0, <2>1, <2>2
    <3> QED BY <1>0, <2>2, <2>5, <2>6, <3>1, KnownStays
  <2>8. Bounded'
    BY <2>1, <2>2, BoundedStays DEF Linking, Rotating
  <2> QED BY <2>4, <2>7, <2>8 DEF AccountInv
<1>5. CASE Remove(w)
  <2>1. PICK r : TookKey(w, r) /\ row' = NoRow /\ keys' = keys
    BY <1>5, KeyShape DEF Remove, generated
  <2>2. /\ req[w] # Idle /\ r \in Request /\ r.at = "revoke" /\ r.row = req[w].row
        /\ r.arg = req[w].row.key /\ req' = [req EXCEPT ![w] = r]
        /\ UNCHANGED <<generated, mail, revocations, opened, resets, collided, bounds>>
        /\ unrevoked' = unrevoked \cup Displaced(w)
    BY <2>1 DEF TookKey, generated
  <2>3. req[w].row.key \in 1 .. keys /\ Displaced(w) \subseteq Key
    BY <2>2, AtWork
  <2>4. ArgOK(r, mail, keys, tokens) /\ unrevoked' \subseteq Key
    BY <1>0, <2>2, <2>3 DEF ArgOK
  <2> QED BY <1>0, <2>1, <2>2, <2>4, OtherAccount DEF bounds
<1>6. CASE SavePassword(w)
  <2>1. /\ req[w] # Idle /\ req[w].at = "password" /\ row # NoRow /\ row' = [row EXCEPT !.reset = 0]
        /\ resets' = Append(resets, req[w].arg.token) /\ req' = [req EXCEPT ![w] = Idle]
        /\ collided' = (collided \/ Changed(w, {"reset"}))
        /\ UNCHANGED <<generated, mail, revocations, opened, unrevoked, bounds>>
    BY <1>6 DEF SavePassword, At, Ends, Collide
  <2>2. req[w].arg \in mail /\ row \in OwnerRow /\ KnownRow(row, keys, tokens)
    BY <1>0, <2>1, AtWork DEF ArgOK
  <2>3. req[w].arg.token \in Token /\ req[w].arg.token <= tokens
    BY <1>0, <2>2 DEF Link
  <2>4. row' \in OwnerRow /\ KnownRow(row', keys, tokens)
    <3>1. row' \in OwnerRow
      BY <2>1, <2>2 DEF OwnerRow
    <3>2. row'.key = row.key /\ row'.verify = row.verify /\ row'.reset = 0
      BY <2>1, <2>2 DEF OwnerRow
    <3> QED BY <1>0, <2>2, <3>1, <3>2 DEF KnownRow
  <2>5. resets' \in Seq(Token) /\ collided' \in BOOLEAN
    BY <1>0, <2>1, <2>3
  <2> QED BY <1>0, <2>1, <2>3, <2>4, <2>5, OtherAccount DEF bounds
<1>7. CASE SaveMissesRow(w)
  <2>1. /\ req[w] # Idle /\ req' = [req EXCEPT ![w] = Idle]
        /\ UNCHANGED <<row, generated, mail, revocations, opened, resets, unrevoked, collided, bounds>>
    BY <1>7 DEF SaveMissesRow, Ends, history
  <2> QED BY <1>0, <2>1, OtherAccount DEF bounds
<1> QED BY <1>1, <1>2, <1>3, <1>4, <1>5, <1>6, <1>7

\* How a request ends that has no statement to make.
Ended(w) ==
    /\ req[w] # Idle /\ req' = [req EXCEPT ![w] = Idle]
    /\ UNCHANGED <<row, generated, opened, resets, served>>
    /\ mail' = mail \/ (At(w, "email") /\ mail' = mail \cup {req[w].arg})
    /\ revocations' = revocations
         \/ (At(w, "revoke") /\ revocations' = Append(revocations, req[w].arg))
    /\ unrevoked' = unrevoked \/ (At(w, "revoke") /\ unrevoked' = unrevoked \cup {req[w].arg})
    /\ At(w, "revoke") => \/ revocations' = Append(revocations, req[w].arg)
                          \/ req[w].arg \in unrevoked'
    /\ collided' = (collided \/ At(w, "deactivate"))
    /\ faults' \in 0 .. MaxFaults

EndsOnly(w) ==
    \/ SendEmail(w) \/ EmailFails(w) \/ PublishRevoked(w) \/ PublishRevokedFails(w)
    \/ WorkerKilled(w)

\* What the last step of a request, a failure or a death writes.
LEMMA EndShape ==
    ASSUME AccountInv, NEW w \in Worker, EndsOnly(w)
    PROVE  Ended(w)
<1>1. faults \in 0 .. MaxFaults /\ (faults < MaxFaults => faults + 1 \in 0 .. MaxFaults)
      /\ collided \in BOOLEAN
  BY DEF AccountInv, Typed
<1>2. CASE SendEmail(w) \/ EmailFails(w)
  BY <1>1, <1>2 DEF SendEmail, EmailFails, Ends, Ended, At, history, bounds
<1>3. CASE PublishRevoked(w) \/ PublishRevokedFails(w)
  BY <1>1, <1>3 DEF PublishRevoked, PublishRevokedFails, Ends, Ended, At, history, bounds
<1>4. CASE WorkerKilled(w)
  BY <1>1, <1>4 DEF WorkerKilled, Ends, Ended, At, Collide
<1> QED BY <1>2, <1>3, <1>4 DEF EndsOnly

\* The end of a request keeps what is known of the owner.
LEMMA EndAccount ==
    ASSUME AccountInv, NEW w \in Worker, Ended(w)
    PROVE  AccountInv'
<1>0. /\ keys \in Nat /\ tokens \in Nat /\ mail \subseteq Link /\ opened \subseteq mail
      /\ revocations \in Seq(Key) /\ resets \in Seq(Token)
      /\ row \in OwnerRow \cup {NoRow} /\ (row # NoRow => KnownRow(row, keys, tokens))
      /\ unrevoked \subseteq Key /\ collided \in BOOLEAN /\ keys \in Key \cup {0}
  BY InRange DEF AccountInv, Typed, Known
<1>1. /\ At(w, "email") => req[w].arg \in Link /\ req[w].arg.token <= tokens
      /\ At(w, "revoke") => req[w].arg \in Key /\ req[w].arg <= keys
  <2>1. req[w] # Idle => ArgOK(req[w], mail, keys, tokens)
    BY AtWork
  <2>2. \A k \in 1 .. keys : k \in Key /\ k <= keys
    BY <1>0 DEF Key
  <2> QED BY <2>1, <2>2 DEF At, ArgOK
<1>2. /\ mail \subseteq mail' /\ mail' \subseteq Link /\ opened' \subseteq mail'
      /\ \A m \in mail' \ mail : m.token <= tokens
      /\ unrevoked' \subseteq Key /\ collided' \in BOOLEAN
  BY <1>0, <1>1 DEF Ended
<1>3. /\ revocations' \in Seq(Key)
      /\ \/ revocations' = revocations
         \/ \E k \in Key : k <= keys /\ revocations' = Append(revocations, k)
  <2>1. CASE revocations' = revocations
    BY <1>0, <2>1
  <2>2. CASE At(w, "revoke") /\ revocations' = Append(revocations, req[w].arg)
    <3>1. Append(revocations, req[w].arg) \in Seq(Key)
      BY <1>0, <1>1, <2>2
    <3> QED BY <1>1, <2>2, <3>1
  <2> QED BY <2>1, <2>2 DEF Ended
<1> QED BY <1>0, <1>2, <1>3, OtherAccount DEF Ended

\* Every step of the account keeps its types and what is known.
LEMMA StepAccount == ASSUME AccountInv, [Next]_vars PROVE AccountInv'
<1>1. CASE UNCHANGED vars
  BY <1>1 DEF vars, generated, history, bounds, AccountInv, Typed, Known, Bounded, Busy
<1>2. ASSUME NEW w \in Worker, Serve(w) PROVE AccountInv'
  <2>1. CASE EndsOnly(w)
    BY <2>1, EndShape, EndAccount
  <2>2. CASE ~EndsOnly(w)
    BY <1>2, <2>2, StartAccount, StatementAccount DEF Serve, EndsOnly, Starts
  <2> QED BY <2>1, <2>2
<1> QED BY <1>1, <1>2 DEF Next

\* What is known of the owner holds at the start, with or without an account.
LEMMA InitAccount == Init => AccountInv
<1> SUFFICES ASSUME Init PROVE AccountInv
  OBVIOUS
<1>1. /\ revocations = <<>> /\ resets = <<>> /\ unrevoked = {} /\ collided = FALSE
      /\ served = 0 /\ faults = 0 /\ req = [w \in Worker |-> Idle]
  BY Zenon DEF Init
<1>2. /\ req \in [Worker -> Request \cup {Idle}] /\ revocations \in Seq(Key)
      /\ resets \in Seq(Token) /\ unrevoked \subseteq Key
      /\ served \in 0 .. MaxRequests /\ faults \in 0 .. MaxFaults
  BY <1>1
<1>3. collided \in BOOLEAN
  BY <1>1
<1>4. Busy(Linking) = {} /\ Busy(Rotating) = {}
  BY <1>1 DEF Busy
<1>5. IsFiniteSet({}) /\ Cardinality({}) = 0
  BY FS_EmptySet
<1>6. CASE row = NoRow /\ keys = 0 /\ tokens = 0 /\ mail = {} /\ opened = {}
  <2>1. Typed
    BY <1>2, <1>3, <1>6 DEF Typed
  <2>2. Known
    BY <1>1, <1>6 DEF Known
  <2> QED BY <1>1, <1>4, <1>5, <1>6, <2>1, <2>2 DEF AccountInv, Bounded
<1>7. ASSUME NEW a \in Address, row = [Fresh(a) EXCEPT !.active = TRUE, !.reset = 2],
             keys = 1, tokens = 2,
             opened = {Verification(1, a)}, mail = opened \cup {Resetting(2, a)}
      PROVE  AccountInv
  <2>1. 1 \in Key /\ 1 \in Token /\ 2 \in Token
    BY BoundsAssumption DEF Key, Token
  <2>2. /\ Verification(1, a) \in Link /\ Verification(1, a).token = 1
        /\ Resetting(2, a) \in Link /\ Resetting(2, a).token = 2
    BY <2>1 DEF Verification, Resetting, Link
  <2>3. row \in OwnerRow /\ KnownRow(row, 1, 2)
    <3>1. row = [email |-> a, active |-> TRUE, key |-> 1, verify |-> 1, reset |-> 2]
      BY <1>7 DEF Fresh
    <3>2. row \in OwnerRow
      BY <2>1, <3>1 DEF OwnerRow
    <3> QED BY <3>1, <3>2 DEF KnownRow
  <2>4. Typed
    BY <1>2, <1>3, <1>7, <2>1, <2>2, <2>3 DEF Typed
  <2>5. Known
    BY <1>1, <1>7, <2>2, <2>3 DEF Known
  <2> QED BY <1>1, <1>4, <1>5, <1>7, <2>4, <2>5 DEF AccountInv, Bounded
<1> QED BY <1>6, <1>7 DEF Init

-----------------------------------------------------------------------------
(***************************************************************************)
(* Revoked keys.  A key whose revocation is published, or about to be, is  *)
(* not the account's: it was displaced by one that did not exist yet.      *)
(***************************************************************************)
Revoking(k) == \E w \in Worker : At(w, "revoke") /\ req[w].arg = k
Withdrawn(k) == Revoking(k) \/ \E i \in DOMAIN revocations : revocations[i] = k

RevokedInv == ~collided => \A k \in Key : Withdrawn(k) => ~Works(k)

\* Which keys are withdrawn after a step of w that withdraws none.
LEMMA WithdrawnBefore ==
    ASSUME AccountInv, NEW w \in Worker, NEW r, req' = [req EXCEPT ![w] = r],
           r # Idle => r.at # "revoke",
           revocations' = revocations
             \/ (At(w, "revoke") /\ revocations' = Append(revocations, req[w].arg)),
           NEW k, Withdrawn(k)'
    PROVE  Withdrawn(k)
<1>1. /\ req'[w] = r /\ \A v \in Worker : v # w => req'[v] = req[v]
      /\ revocations \in Seq(Key)
  BY DEF AccountInv, Typed
<1>2. CASE Revoking(k)'
  BY <1>1, <1>2 DEF Withdrawn, Revoking, At
<1>3. ASSUME NEW i \in DOMAIN revocations', revocations'[i] = k
      PROVE  Withdrawn(k)
  <2>1. CASE revocations' = revocations
    BY <1>3, <2>1 DEF Withdrawn
  <2>2. CASE At(w, "revoke") /\ revocations' = Append(revocations, req[w].arg)
    <3>1. i \in 1 .. Len(revocations) + 1 /\ DOMAIN revocations = 1 .. Len(revocations)
      BY <1>1, <1>3, <2>2
    <3>2. i \in 1 .. Len(revocations) => revocations'[i] = revocations[i]
      BY <1>1, <2>2
    <3>3. i = Len(revocations) + 1 => revocations'[i] = req[w].arg
      BY <1>1, <2>2
    <3>4. i \in 1 .. Len(revocations) \/ i = Len(revocations) + 1
      BY <1>1, <3>1
    <3> QED BY <1>3, <2>2, <3>1, <3>2, <3>3, <3>4 DEF Withdrawn, Revoking
  <2> QED BY <1>3, <2>1, <2>2
<1> QED BY <1>2, <1>3 DEF Withdrawn

\* A step that withdraws no key and leaves the account the key it has.
LEMMA RevokedStays ==
    ASSUME RevokedInv, ~collided' => ~collided,
           \A k \in Key : Withdrawn(k)' => Withdrawn(k),
           ~collided' => row' = NoRow \/ (row # NoRow /\ row'.key = row.key)
    PROVE  RevokedInv'
  BY DEF RevokedInv, Works

\* Every step keeps withdrawn keys from working.
LEMMA StepRevoked ==
    ASSUME AccountInv, RevokedInv, NEW w \in Worker, Serve(w)
    PROVE  RevokedInv'
<1>0. /\ row \in OwnerRow \cup {NoRow} /\ NoRow \notin OwnerRow /\ collided \in BOOLEAN
      /\ req \in [Worker -> Request \cup {Idle}] /\ Idle \notin Request
      /\ revocations \in Seq(Key) /\ keys \in Nat
  BY MarksAssumption DEF AccountInv, Typed
<1>1. ASSUME NEW r, req' = [req EXCEPT ![w] = r], r # Idle => r.at # "revoke",
             revocations' = revocations
               \/ (At(w, "revoke") /\ revocations' = Append(revocations, req[w].arg))
      PROVE  \A k \in Key : Withdrawn(k)' => Withdrawn(k)
  BY <1>1, WithdrawnBefore
<1>2. CASE Starts(w)
  <2>1. PICK r : Started(w, r)
    BY <1>2, StartShape
  <2>2. /\ req' = [req EXCEPT ![w] = r] /\ r.at # "revoke" /\ row' = row /\ row # NoRow
        /\ revocations' = revocations /\ collided' = collided
    BY <2>1 DEF Started, history
  <2> QED BY <1>1, <2>2, RevokedStays
<1>3. CASE Signup(w)
  <2>1. PICK a : req' = [req EXCEPT ![w] =
                            [at |-> "email", row |-> Fresh(a), arg |-> Verification(1, a)]]
    BY <1>3 DEF Signup
  <2>2. keys = 0 /\ revocations' = revocations /\ collided' = collided
    BY <1>3 DEF Signup, history
  <2>3. \A k \in Key : ~Withdrawn(k)
    <3>1. \A i \in DOMAIN revocations : revocations[i] \in Key /\ revocations[i] <= 0
      BY <1>0, <2>2 DEF AccountInv, Known
    <3>2. \A i \in DOMAIN revocations : FALSE
      BY <3>1 DEF Key
    <3> QED BY <2>2, <3>2 DEF Withdrawn, Revoking, At, AccountInv, Known
  <2>4. \A k \in Key : Withdrawn(k)' => Withdrawn(k)
    BY <1>1, <2>1, <2>2
  <2> QED BY <2>3, <2>4 DEF RevokedInv
<1>4. CASE SaveProfile(w)
  <2>1. PICK r : SavedProfile(w, r)
    BY <1>4, ProfileShape
  <2>2. /\ req' = [req EXCEPT ![w] = r] /\ (r # Idle => r.at # "revoke")
        /\ revocations' = revocations /\ collided' = (collided \/ row # req[w].row)
        /\ row'.key = req[w].row.key /\ req[w] # Idle
    BY <2>1 DEF SavedProfile
  <2>3. ~collided' => row = req[w].row /\ row # NoRow
    BY <1>0, <2>2, AtWork
  <2> QED BY <1>1, <2>2, <2>3, RevokedStays
<1>5. CASE Deactivate(w) \/ RenewLink(w) \/ SaveResetLink(w)
  <2>1. PICK m : Linked(w, m)
    BY <1>5, LinkShape
  <2>2. ~collided' => ~collided
    BY <1>0, <1>5 DEF Deactivate, RenewLink, SaveResetLink, Collide, history
  <2>3. /\ req' = [req EXCEPT ![w] = [at |-> "email", row |-> req[w].row, arg |-> m]]
        /\ revocations' = revocations /\ row # NoRow /\ row'.key = row.key
    BY <2>1 DEF Linked
  <2> QED BY <1>1, <2>2, <2>3, RevokedStays
<1>6. CASE SaveKey(w) \/ Remove(w)
  <2>1. PICK r : /\ TookKey(w, r)
                 /\ \/ row' = NoRow
                    \/ keys' = keys + 1 /\ row # NoRow /\ row' = [row EXCEPT !.key = keys + 1]
    BY <1>6, KeyShape
  <2>2. /\ r.arg = req[w].row.key /\ req' = [req EXCEPT ![w] = r] /\ req[w] # Idle
        /\ revocations' = revocations /\ collided' = collided
    BY <2>1 DEF TookKey
  <2>3. row' = NoRow \/ row'.key = keys + 1
    BY <1>0, <2>1 DEF OwnerRow
  <2>4. ASSUME NEW k \in Key, Withdrawn(k)' PROVE k <= keys
    <3>1. CASE Revoking(k)'
      <4>1. PICK v \in Worker : req'[v] # Idle /\ req'[v].at = "revoke" /\ req'[v].arg = k
        BY <3>1 DEF Revoking, At
      <4>2. CASE v = w
        <5>1. k = req[w].row.key
          BY <1>0, <2>2, <4>1, <4>2
        <5>2. req[w].row.key \in 1 .. keys
          BY <2>2, AtWork
        <5> QED BY <1>0, <5>1, <5>2
      <4>3. CASE v # w
        <5>1. req'[v] = req[v]
          BY <1>0, <2>2, <4>3
        <5>2. ArgOK(req[v], mail, keys, tokens)
          BY <4>1, <5>1, AtWork
        <5> QED BY <1>0, <4>1, <5>1, <5>2 DEF ArgOK
      <4> QED BY <4>2, <4>3
    <3>2. CASE \E i \in DOMAIN revocations' : revocations'[i] = k
      BY <2>2, <3>2 DEF AccountInv, Known
    <3> QED BY <2>4, <3>1, <3>2 DEF Withdrawn
  <2>5. \A k \in Key : k <= keys => k # keys + 1
    BY <1>0 DEF Key
  <2> QED BY <2>3, <2>4, <2>5 DEF RevokedInv, Works
<1>7. CASE Activate(w) \/ SavePassword(w) \/ SaveMissesRow(w)
  <2>1. /\ req' = [req EXCEPT ![w] = Idle] /\ revocations' = revocations
        /\ ~collided' => ~collided
        /\ \/ row' = [row EXCEPT !.active = TRUE] /\ row # NoRow
           \/ row' = [row EXCEPT !.reset = 0] /\ row # NoRow
           \/ row' = NoRow
    BY <1>0, <1>7 DEF Activate, SavePassword, SaveMissesRow, Ends, Collide, history
  <2>2. row' = NoRow \/ (row # NoRow /\ row'.key = row.key)
    BY <1>0, <2>1 DEF OwnerRow
  <2> QED BY <1>1, <2>1, <2>2, RevokedStays
<1>8. CASE EndsOnly(w)
  <2>1. Ended(w)
    BY <1>8, EndShape
  <2>2. /\ req' = [req EXCEPT ![w] = Idle] /\ row' = row /\ (~collided' => ~collided)
        /\ revocations' = revocations
             \/ (At(w, "revoke") /\ revocations' = Append(revocations, req[w].arg))
    BY <1>0, <2>1 DEF Ended
  <2> QED BY <1>1, <2>2, RevokedStays
<1> QED
  BY <1>2, <1>3, <1>4, <1>5, <1>6, <1>7, <1>8 DEF Serve, Starts, EndsOnly

\* A key whose revocation was published is the key of no account any more: rotations,
\* deletions and the rows other requests write bring none back, unless two requests
\* collide (registry/views.py:399-414).
THEOREM RevokedKeysStayRevoked == Spec => []RevokedStayRevoked
<1>1. Init => RevokedInv
  <2> SUFFICES ASSUME Init PROVE RevokedInv
    OBVIOUS
  <2>1. revocations = <<>> /\ \A w \in Worker : ~At(w, "revoke")
    BY DEF Init, At
  <2>2. DOMAIN revocations = {}
    BY <2>1
  <2> QED BY <2>1, <2>2 DEF RevokedInv, Withdrawn, Revoking
<1>2. AccountInv /\ RevokedInv /\ [Next]_vars => RevokedInv'
  <2>1. CASE UNCHANGED vars
    BY <2>1 DEF vars, generated, history, RevokedInv, Withdrawn, Revoking, At, Works
  <2> QED BY <2>1, StepRevoked DEF Next
<1>3. AccountInv /\ RevokedInv => RevokedStayRevoked
  <2> SUFFICES ASSUME AccountInv, RevokedInv, ~collided, NEW i \in DOMAIN revocations
               PROVE  row = NoRow \/ row.key # revocations[i]
    BY DEF RevokedStayRevoked
  <2>1. revocations[i] \in Key
    BY DEF AccountInv, Typed
  <2> QED BY <2>1 DEF RevokedInv, Withdrawn, Works
<1> QED
  BY <1>1, <1>2, <1>3, InitAccount, StepAccount, PTL DEF Spec

-----------------------------------------------------------------------------
(***************************************************************************)
(* Reset links.  The link the row holds is newer than any that was used.   *)
(***************************************************************************)
ResetInv ==
    ~collided => /\ ResetLinksWorkOnce
                 /\ row # NoRow /\ row.reset # 0 =>
                       \A i \in DOMAIN resets : resets[i] < row.reset

\* A step that resets no password and leaves the account the link it has.
LEMMA ResetStays ==
    ASSUME ResetInv, ~collided' => ~collided, resets' = resets,
           ~collided' => row' = NoRow \/ (row # NoRow /\ row'.reset = row.reset)
    PROVE  ResetInv'
  BY DEF ResetInv, ResetLinksWorkOnce

\* Each step of a request keeps used reset links from working again.
LEMMA StepReset ==
    ASSUME AccountInv, ResetInv, NEW w \in Worker, Serve(w)
    PROVE  ResetInv'
<1>0. /\ row \in OwnerRow \cup {NoRow} /\ NoRow \notin OwnerRow /\ collided \in BOOLEAN
      /\ resets \in Seq(Token) /\ tokens \in Nat
      /\ \A i \in DOMAIN resets : resets[i] \in Nat /\ resets[i] <= tokens
  BY MarksAssumption DEF AccountInv, Typed, Known, Token
<1>1. CASE Starts(w)
  <2>1. PICK r : Started(w, r)
    BY <1>1, StartShape
  <2> QED BY <2>1, ResetStays DEF Started, history
<1>2. CASE Signup(w)
  <2>1. PICK a : row' = Fresh(a)
    BY <1>2 DEF Signup
  <2>2. row'.reset = 0 /\ resets' = resets /\ collided' = collided
    BY <1>2, <2>1 DEF Signup, history, Fresh
  <2> QED BY <2>2 DEF ResetInv, ResetLinksWorkOnce
<1>3. CASE SaveProfile(w)
  <2>1. PICK r : SavedProfile(w, r)
    BY <1>3, ProfileShape
  <2>2. /\ resets' = resets /\ collided' = (collided \/ row # req[w].row)
        /\ row'.reset = req[w].row.reset /\ req[w] # Idle
    BY <2>1 DEF SavedProfile
  <2>3. ~collided' => row = req[w].row /\ row # NoRow
    BY <1>0, <2>2, AtWork
  <2> QED BY <2>2, <2>3, ResetStays
<1>4. CASE Deactivate(w) \/ RenewLink(w) \/ SaveResetLink(w)
  <2>1. PICK m : Linked(w, m)
    BY <1>4, LinkShape
  <2>2. ~collided' => ~collided
    BY <1>0, <1>4 DEF Deactivate, RenewLink, SaveResetLink, Collide, history
  <2>3. resets' = resets /\ row # NoRow /\ (row'.reset = row.reset \/ row'.reset = tokens + 1)
    BY <2>1 DEF Linked
  <2>4. CASE row'.reset = row.reset
    BY <2>2, <2>3, <2>4, ResetStays
  <2>5. CASE row'.reset = tokens + 1
    <3>1. \A i \in DOMAIN resets : resets[i] < tokens + 1
      BY <1>0
    <3> QED BY <2>2, <2>3, <2>5, <3>1 DEF ResetInv, ResetLinksWorkOnce
  <2> QED BY <2>3, <2>4, <2>5
<1>5. CASE SaveKey(w) \/ Remove(w) \/ Activate(w) \/ SaveMissesRow(w)
  <2>1. /\ resets' = resets /\ (~collided' => ~collided)
        /\ \/ row' = [row EXCEPT !.key = keys + 1] /\ row # NoRow
           \/ row' = [row EXCEPT !.active = TRUE] /\ row # NoRow
           \/ row' = NoRow
    BY <1>0, <1>5 DEF SaveKey, Remove, Activate, SaveMissesRow, Collide, history
  <2>2. row' = NoRow \/ (row # NoRow /\ row'.reset = row.reset)
    BY <1>0, <2>1 DEF OwnerRow
  <2> QED BY <2>1, <2>2, ResetStays
<1>6. CASE SavePassword(w)
  <2>1. /\ req[w] # Idle /\ req[w].at = "password" /\ row # NoRow /\ row' = [row EXCEPT !.reset = 0]
        /\ resets' = Append(resets, req[w].arg.token)
        /\ collided' = (collided \/ Changed(w, {"reset"}))
    BY <1>6 DEF SavePassword, At, Collide
  <2>2. row'.reset = 0
    BY <1>0, <2>1 DEF OwnerRow
  <2> SUFFICES ASSUME ~collided' PROVE ResetLinksWorkOnce'
    BY <2>2 DEF ResetInv
  <2>3. ~collided /\ row.reset = req[w].row.reset
    BY <1>0, <2>1 DEF Changed
  <2>4. req[w].arg \in Link /\ req[w].arg.token = req[w].row.reset
    BY <2>1, AtWork DEF ArgOK, AccountInv, Typed
  <2>5. req[w].arg.token = row.reset /\ row.reset \in Nat \ {0}
    BY <2>3, <2>4 DEF Link, Token
  <2>6. \A i \in DOMAIN resets : resets[i] < req[w].arg.token
    BY <2>1, <2>3, <2>5 DEF ResetInv
  <2>7. /\ DOMAIN resets = 1 .. Len(resets) /\ Len(resets) \in Nat
        /\ DOMAIN resets' = 1 .. Len(resets) + 1
        /\ \A i \in 1 .. Len(resets) : resets'[i] = resets[i]
        /\ resets'[Len(resets) + 1] = req[w].arg.token
    BY <1>0, <2>1
  <2>8. ASSUME NEW i \in 1 .. Len(resets) + 1, NEW j \in 1 .. Len(resets) + 1, i < j
        PROVE  resets'[i] < resets'[j]
    <3>1. i \in 1 .. Len(resets)
      BY <2>7, <2>8
    <3>2. CASE j \in 1 .. Len(resets)
      <4>1. resets[i] < resets[j]
        BY <2>3, <2>7, <2>8, <3>1, <3>2 DEF ResetInv, ResetLinksWorkOnce
      <4> QED BY <2>7, <3>1, <3>2, <4>1
    <3>3. CASE j = Len(resets) + 1
      BY <2>6, <2>7, <3>1, <3>3
    <3> QED BY <2>7, <3>2, <3>3
  <2> QED BY <2>7, <2>8 DEF ResetLinksWorkOnce
<1>7. CASE EndsOnly(w)
  <2>1. Ended(w)
    BY <1>7, EndShape
  <2>2. row' = row /\ resets' = resets /\ (~collided' => ~collided)
    BY <1>0, <2>1 DEF Ended
  <2> QED BY <2>2, ResetStays
<1> QED BY <1>1, <1>2, <1>3, <1>4, <1>5, <1>6, <1>7 DEF Serve, Starts, EndsOnly

\* A password is reset with a link at most once, and never with one that is older than
\* the last that was used, unless two requests collide (registry/views.py:284-304).
THEOREM PasswordLinksWorkOnce == Spec => []ResetLinksWorkOnce
<1>1. Init => ResetInv
  <2> SUFFICES ASSUME Init PROVE ResetInv
    OBVIOUS
  <2>0. resets = <<>>
    BY Zenon DEF Init
  <2>1. DOMAIN resets = {}
    BY <2>0
  <2> QED BY <2>1 DEF ResetInv, ResetLinksWorkOnce
<1>2. AccountInv /\ ResetInv /\ [Next]_vars => ResetInv'
  <2>1. CASE UNCHANGED vars
    BY <2>1 DEF vars, history, ResetInv, ResetLinksWorkOnce
  <2> QED BY <2>1, StepReset DEF Next
<1>3. AccountInv /\ ResetInv => ResetLinksWorkOnce
  BY DEF ResetInv, ResetLinksWorkOnce
<1> QED
  BY <1>1, <1>2, <1>3, InitAccount, StepAccount, PTL DEF Spec

-----------------------------------------------------------------------------
(***************************************************************************)
(* Verified addresses.  A link that is the row's goes to the row's         *)
(* address, unless a change of address still has to replace it.            *)
(***************************************************************************)
Changing(a) == \E w \in Worker : At(w, "deactivate") /\ req[w].row.email = a

\* A verification link that was mailed or is about to be.
Outgoing(m) == m \in mail \/ \E w \in Worker : At(w, "email") /\ req[w].arg = m

LinksLeadHome ==
    \A m \in Link :
        Outgoing(m) /\ m.link = "verify" /\ m.token = row.verify =>
            m.to = row.email \/ Changing(row.email)

Verified(a) == (\E m \in opened : m.to = a) \/ Changing(a)

VerifiedInv ==
    ~collided /\ row # NoRow => LinksLeadHome /\ (row.active => Verified(row.email))

\* A step of w after which the row has the address and the link it had, and which
\* makes no link and changes no address.
LEMMA VerifiedStays ==
    ASSUME AccountInv, VerifiedInv, NEW w \in Worker, NEW r, req' = [req EXCEPT ![w] = r],
           ~collided' => ~collided,
           r # Idle => r.at # "email",
           ~collided' /\ row' # NoRow => ~At(w, "deactivate"),
           \A m \in mail' \ mail : At(w, "email") /\ m = req[w].arg,
           opened \subseteq opened',
           ~collided' /\ row' # NoRow =>
              /\ row # NoRow /\ row'.email = row.email /\ row'.verify = row.verify
              /\ row'.active => row.active \/ Verified(row.email)'
    PROVE  VerifiedInv'
<1> SUFFICES ASSUME ~collided', row' # NoRow
             PROVE  LinksLeadHome' /\ (row'.active => Verified(row.email)')
  BY DEF VerifiedInv
<1>1. /\ req'[w] = r /\ \A v \in Worker : v # w => req'[v] = req[v]
  BY DEF AccountInv, Typed
<1>2. /\ LinksLeadHome /\ (row.active => Verified(row.email))
      /\ row # NoRow /\ row'.email = row.email /\ row'.verify = row.verify /\ ~At(w, "deactivate")
  BY DEF VerifiedInv
<1>3. Changing(row.email) => Changing(row.email)'
  BY <1>1, <1>2 DEF Changing, At
<1>4. Verified(row.email) => Verified(row.email)'
  BY <1>2, <1>3 DEF Verified
<1>5. \A m \in Link : Outgoing(m)' => Outgoing(m)
  BY <1>1 DEF Outgoing, At
<1>6. LinksLeadHome'
  BY <1>2, <1>3, <1>5 DEF LinksLeadHome
<1> QED BY <1>2, <1>4, <1>6

\* Each step of a request keeps an active row's address verified.
LEMMA StepVerified ==
    ASSUME AccountInv, VerifiedInv, NEW w \in Worker, Serve(w)
    PROVE  VerifiedInv'
<1>0. /\ row \in OwnerRow \cup {NoRow} /\ NoRow \notin OwnerRow /\ collided \in BOOLEAN
      /\ mail \subseteq Link /\ tokens \in Nat /\ req \in [Worker -> Request \cup {Idle}]
      /\ Idle \notin Request
  BY MarksAssumption DEF AccountInv, Typed
<1>1. CASE Starts(w)
  <2>1. PICK r : Started(w, r)
    BY <1>1, StartShape
  <2>2. /\ req' = [req EXCEPT ![w] = r] /\ r.at # "email" /\ req[w] = Idle
        /\ UNCHANGED <<row, mail, opened, collided>>
    BY <2>1 DEF Started, history
  <2> QED BY <2>2, VerifiedStays DEF At
<1>2. CASE Signup(w)
  <2>1. PICK a \in Address :
           /\ row' = Fresh(a)
           /\ req' = [req EXCEPT ![w] = [at |-> "email", row |-> Fresh(a), arg |-> Verification(1, a)]]
    BY <1>2 DEF Signup
  <2>2. /\ mail = {} /\ mail' = mail /\ \A v \in Worker : req[v] = Idle
    BY <1>2 DEF Signup, AccountInv, Known
  <2>3. ~row'.active /\ row'.email = a
    BY <2>1 DEF Fresh
  <2>4. \A m \in Link : Outgoing(m)' => m = Verification(1, a)
    <3>1. \A v \in Worker : v # w => req'[v] = Idle
      BY <1>0, <2>1, <2>2
    <3>2. req'[w].arg = Verification(1, a)
      BY <1>0, <2>1
    <3> QED BY <2>2, <3>1, <3>2 DEF Outgoing, At
  <2>5. LinksLeadHome'
    BY <2>3, <2>4 DEF LinksLeadHome, Verification
  <2> QED BY <2>3, <2>5 DEF VerifiedInv
<1>3. CASE SaveProfile(w)
  <2>1. PICK r : SavedProfile(w, r)
    BY <1>3, ProfileShape
  <2>2. /\ req' = [req EXCEPT ![w] = r] /\ collided' = (collided \/ row # req[w].row)
        /\ req[w] # Idle /\ req[w].at = "profile" /\ UNCHANGED <<mail, opened>>
        /\ r \in Request \cup {Idle}
        /\ \/ r = Idle /\ row' = req[w].row
           \/ r = [at |-> "deactivate", row |-> row', arg |-> NoArg]
    BY <2>1 DEF SavedProfile
  <2>3. ~collided' => ~collided /\ row = req[w].row /\ row # NoRow
    BY <1>0, <2>2, AtWork
  <2>4. CASE r = Idle /\ row' = req[w].row
    BY <2>2, <2>3, <2>4, VerifiedStays DEF At
  <2>5. CASE r = [at |-> "deactivate", row |-> row', arg |-> NoArg]
    <3>1. r # Idle /\ r.at = "deactivate" /\ r.row = row'
      <4>1. r \in Request
        BY <1>0, <2>1, <2>5, AtWork DEF SavedProfile, Request, Stages
      <4> QED BY <1>0, <2>5, <4>1
    <3>2. req'[w] = r
      BY <1>0, <2>2
    <3>3. Changing(row.email)'
      BY <3>1, <3>2 DEF Changing, At
    <3> QED BY <3>3 DEF VerifiedInv, LinksLeadHome, Verified
  <2> QED BY <2>2, <2>4, <2>5
<1>4. CASE Deactivate(w) \/ RenewLink(w)
  <2>1. PICK m : Linked(w, m) /\ m.link = "verify"
    <3>1. ~SaveResetLink(w)
      BY <1>4 DEF Deactivate, RenewLink, SaveResetLink, At
    <3> QED BY <1>4, <3>1, LinkShape
  <2>2. /\ collided' = (collided \/ Changed(w, {"email"}))
        /\ opened' = opened /\ mail' = mail /\ row # NoRow
        /\ RenewLink(w) => row' = [row EXCEPT !.verify = tokens + 1]
        /\ Deactivate(w) => row' = [row EXCEPT !.active = FALSE, !.verify = tokens + 1]
    BY <1>4 DEF Deactivate, RenewLink, Collide
  <2> SUFFICES ASSUME ~collided', row' # NoRow
               PROVE  LinksLeadHome' /\ (row'.active => Verified(row.email)')
    BY DEF VerifiedInv
  <2>3. ~collided /\ row.email = req[w].row.email
    BY <1>0, <2>2 DEF Changed
  <2>4. /\ req' = [req EXCEPT ![w] = [at |-> "email", row |-> req[w].row, arg |-> m]]
        /\ m.token = tokens + 1 /\ m.to = req[w].row.email /\ row'.email = row.email
        /\ row'.verify = tokens + 1
    BY <2>1 DEF Linked
  <2>5. \A n \in Link : Outgoing(n)' => n = m \/ n.token <= tokens
    <3> SUFFICES ASSUME NEW n \in Link, Outgoing(n)', n # m PROVE n.token <= tokens
      OBVIOUS
    <3>1. CASE n \in mail
      BY <3>1 DEF AccountInv, Known
    <3>2. CASE n \notin mail
      <4>1. PICK v \in Worker : req'[v] # Idle /\ req'[v].at = "email" /\ req'[v].arg = n
        BY <2>2, <3>2 DEF Outgoing, At
      <4>2. v # w
        BY <1>0, <2>4, <4>1
      <4>3. req'[v] = req[v]
        BY <1>0, <2>4, <4>2
      <4>4. ArgOK(req[v], mail, keys, tokens)
        BY <4>1, <4>3, AtWork
      <4> QED BY <4>1, <4>3, <4>4 DEF ArgOK
    <3> QED BY <3>1, <3>2
  <2>6. LinksLeadHome'
    <3>1. \A n \in Link : n.token <= tokens => n.token # tokens + 1
      BY <1>0 DEF Link, Token
    <3> QED BY <2>3, <2>4, <2>5, <3>1 DEF LinksLeadHome
  <2>7. CASE Deactivate(w)
    <3>1. ~row'.active
      BY <1>0, <2>2, <2>7 DEF OwnerRow
    <3> QED BY <2>6, <3>1
  <2>8. CASE RenewLink(w)
    <3>1. row'.active = row.active /\ req[w].at = "renew"
      BY <1>0, <2>2, <2>8 DEF OwnerRow, RenewLink, At
    <3>2. \A v \in Worker : v # w => req'[v] = req[v]
      BY <1>0, <2>4
    <3>3. Verified(row.email) => Verified(row.email)'
      BY <2>2, <2>4, <3>1, <3>2 DEF Verified, Changing, At
    <3> QED BY <2>2, <2>3, <2>6, <3>1, <3>3 DEF VerifiedInv
  <2> QED BY <1>4, <2>7, <2>8
<1>5. CASE SaveResetLink(w)
  <2>1. PICK m : Linked(w, m) /\ m.link # "verify"
    BY <1>5, LinkShape
  <2>2. /\ opened' = opened /\ mail' = mail /\ row # NoRow /\ collided' = collided
        /\ row' = [row EXCEPT !.reset = tokens + 1] /\ req[w].at = "remind"
    BY <1>5 DEF SaveResetLink, At, history
  <2> SUFFICES ASSUME ~collided', row' # NoRow
               PROVE  LinksLeadHome' /\ (row'.active => Verified(row.email)')
    BY DEF VerifiedInv
  <2>3. req' = [req EXCEPT ![w] = [at |-> "email", row |-> req[w].row, arg |-> m]]
    BY <2>1 DEF Linked
  <2>4. /\ req'[w].at = "email" /\ req'[w].arg = m /\ \A v \in Worker : v # w => req'[v] = req[v]
    BY <1>0, <2>3
  <2>5. row'.email = row.email /\ row'.verify = row.verify /\ row'.active = row.active
    BY <1>0, <2>2 DEF OwnerRow
  <2>6. \A n \in Link : Outgoing(n)' /\ n.link = "verify" => Outgoing(n)
    BY <2>1, <2>2, <2>4 DEF Outgoing, At
  <2>7. Changing(row.email) => Changing(row.email)'
    BY <2>2, <2>4, <2>5 DEF Changing, At
  <2>8. Verified(row.email) => Verified(row.email)'
    BY <2>2, <2>5, <2>7 DEF Verified
  <2> QED BY <2>2, <2>5, <2>6, <2>7, <2>8 DEF VerifiedInv, LinksLeadHome
<1>6. CASE Activate(w)
  <2>1. /\ req[w] # Idle /\ req[w].at = "activate" /\ row # NoRow /\ row' = [row EXCEPT !.active = TRUE]
        /\ opened' = opened \cup {req[w].arg} /\ req' = [req EXCEPT ![w] = Idle] /\ mail' = mail
        /\ collided' = (collided \/ Changed(w, {"email", "verify"}))
    BY <1>6 DEF Activate, At, Ends, Collide
  <2>2. row'.email = row.email /\ row'.verify = row.verify
    BY <1>0, <2>1 DEF OwnerRow
  <2>3. ASSUME ~collided' PROVE Verified(row.email)'
    <3>1. ~collided /\ row.verify = req[w].row.verify
      BY <1>0, <2>1, <2>3 DEF Changed
    <3>2. req[w].arg \in mail /\ req[w].arg.link = "verify" /\ req[w].arg.token = row.verify
      BY <2>1, <3>1, AtWork DEF ArgOK
    <3>3. req[w].arg.to = row.email \/ Changing(row.email)
      BY <1>0, <2>1, <3>1, <3>2 DEF VerifiedInv, LinksLeadHome, Outgoing
    <3>4. CASE req[w].arg.to = row.email
      BY <2>1, <2>2, <3>4 DEF Verified
    <3>5. CASE Changing(row.email)
      <4>1. \A v \in Worker : v # w => req'[v] = req[v]
        BY <1>0, <2>1
      <4>2. Changing(row.email)'
        BY <2>1, <2>2, <3>5, <4>1 DEF Changing, At
      <4> QED BY <4>2 DEF Verified
    <3> QED BY <3>3, <3>4, <3>5
  <2>4. ~collided' => ~collided
    BY <1>0, <2>1
  <2> QED BY <2>1, <2>2, <2>3, <2>4, VerifiedStays DEF At
<1>7. CASE SaveKey(w)
  <2>1. PICK r : TookKey(w, r) /\ row # NoRow /\ row' = [row EXCEPT !.key = keys + 1]
    BY <1>7, KeyShape DEF SaveKey, Remove, At
  <2>2. /\ req' = [req EXCEPT ![w] = r] /\ r.at = "revoke" /\ UNCHANGED <<mail, opened, collided>>
    BY <2>1 DEF TookKey
  <2>3. row'.email = row.email /\ row'.verify = row.verify /\ row'.active = row.active
    BY <1>0, <2>1 DEF OwnerRow
  <2>4. ~At(w, "deactivate")
    BY <1>7 DEF SaveKey, At
  <2> QED BY <2>1, <2>2, <2>3, <2>4, VerifiedStays
<1>8. CASE Remove(w) \/ (SaveMissesRow(w) /\ row' = NoRow)
  BY <1>8 DEF Remove, VerifiedInv
<1>9. CASE SavePassword(w)
  <2>1. /\ row # NoRow /\ row' = [row EXCEPT !.reset = 0] /\ req' = [req EXCEPT ![w] = Idle]
        /\ (~collided' => ~collided) /\ UNCHANGED <<mail, opened>> /\ ~At(w, "deactivate")
    BY <1>0, <1>9 DEF SavePassword, At, Ends, Collide
  <2>2. row'.email = row.email /\ row'.verify = row.verify /\ row'.active = row.active
    BY <1>0, <2>1 DEF OwnerRow
  <2> QED BY <2>1, <2>2, VerifiedStays
<1>10. CASE EndsOnly(w)
  <2>1. Ended(w)
    BY <1>10, EndShape
  <2>2. /\ req' = [req EXCEPT ![w] = Idle] /\ row' = row /\ opened' = opened
        /\ (~collided' => ~collided /\ ~At(w, "deactivate"))
        /\ \A m \in mail' \ mail : At(w, "email") /\ m = req[w].arg
    BY <1>0, <2>1 DEF Ended
  <2> QED BY <2>2, VerifiedStays
<1>11. SaveMissesRow(w) => row' = NoRow
  BY DEF SaveMissesRow
<1> QED
  BY <1>1, <1>2, <1>3, <1>4, <1>5, <1>6, <1>7, <1>8, <1>9, <1>10, <1>11
  DEF Serve, Starts, EndsOnly

\* "is_active means email-verified" (models.py:39): an active account has an address that
\* a link mailed to it has verified, except while a change of address is between its two
\* statements, unless two requests collide.
THEOREM ActiveAccountsAreVerified == Spec => []ActiveIsVerified
<1>1. Init => VerifiedInv
  <2> SUFFICES ASSUME Init, row # NoRow PROVE LinksLeadHome /\ Verified(row.email)
    BY DEF VerifiedInv
  <2>1. PICK a \in Address : /\ row = [Fresh(a) EXCEPT !.active = TRUE, !.reset = 2]
                             /\ opened = {Verification(1, a)}
                             /\ mail = opened \cup {Resetting(2, a)}
    BY DEF Init
  <2>2. row.email = a /\ Verification(1, a).to = a /\ Resetting(2, a).to = a
    BY <2>1 DEF Fresh, Verification, Resetting
  <2>3. \A m : Outgoing(m) => m \in {Verification(1, a), Resetting(2, a)}
    BY <2>1 DEF Outgoing, At, Init
  <2> QED BY <2>1, <2>2, <2>3 DEF LinksLeadHome, Verified
<1>2. AccountInv /\ VerifiedInv /\ [Next]_vars => VerifiedInv'
  <2>1. CASE UNCHANGED vars
    BY <2>1 DEF vars, history, VerifiedInv, LinksLeadHome, Outgoing, Verified, Changing, At
  <2> QED BY <2>1, StepVerified DEF Next
<1>3. AccountInv /\ VerifiedInv => ActiveIsVerified
  <2> SUFFICES ASSUME AccountInv, VerifiedInv PROVE ActiveIsVerified
    OBVIOUS
  <2>1. \A w \in Worker : req[w] # Idle => req[w].at \in Stages /\ req[w].row \in OwnerRow
    BY DEF AccountInv, Typed, Request
  <2>2. TypeOK
    BY <2>1, InRange DEF AccountInv, Typed, TypeOK
  <2> QED BY <2>2 DEF ActiveIsVerified, VerifiedInv, Verified, Changing
<1> QED
  BY <1>1, <1>2, <1>3, InitAccount, StepAccount, PTL DEF Spec

-----------------------------------------------------------------------------
(***************************************************************************)
(* The answers of queryapi.  An answer that is on its way to the cache, and *)
(* that no revocation has overtaken, is out of date only while the key's    *)
(* revocation is still to come or was lost, like one that is in the cache.  *)
(***************************************************************************)
Coming(k) ==
    \/ \E i \in handled + 1 .. Len(revocations) : revocations[i] = k
    \/ Revoking(k)
    \/ k \in unrevoked

AccessTyped ==
    /\ cache \in [Key -> {"none", "valid", "invalid"}]
    /\ lookup \in [Lookup -> Question \cup {Idle}]
    /\ \A q \in Lookup : lookup[q] # Idle => lookup[q].key \in 1 .. keys
    /\ handled \in 0 .. Len(revocations) /\ committed \in 0 .. handled
    /\ late \subseteq {k \in Key : cache[k] = "valid"}

CachedOK == \A k \in Key : cache[k] = "valid" /\ ~Works(k) => Coming(k) \/ k \in late

AnswersOK ==
    \A q \in Lookup :
        lookup[q] # Idle /\ lookup[q].answer = "valid" /\ ~lookup[q].overtaken =>
            Works(lookup[q].key) \/ Coming(lookup[q].key)

AccessInv == AccountInv /\ AccessTyped /\ CachedOK /\ AnswersOK

\* A revocation that is to come is still to come after a step of another request.
LEMMA StillComing ==
    ASSUME AccountInv, AccessTyped, NEW w \in Worker, NEW r, req' = [req EXCEPT ![w] = r],
           handled' = handled, unrevoked \subseteq unrevoked',
           \/ revocations' = revocations /\ ~At(w, "revoke")
           \/ revocations' = revocations /\ req[w].arg \in unrevoked'
           \/ revocations' = Append(revocations, req[w].arg) /\ At(w, "revoke"),
           NEW k, Coming(k)
    PROVE  Coming(k)'
<1>1. /\ req'[w] = r /\ \A v \in Worker : v # w => req'[v] = req[v]
      /\ revocations \in Seq(Key) /\ Len(revocations) \in Nat
      /\ handled \in Nat /\ handled <= Len(revocations)
  BY DEF AccountInv, Typed, AccessTyped
<1>2. /\ Len(revocations') \in Nat /\ Len(revocations) <= Len(revocations')
      /\ \A i \in 1 .. Len(revocations) : revocations'[i] = revocations[i]
      /\ revocations' = revocations
           \/ (Len(revocations') = Len(revocations) + 1 /\ At(w, "revoke")
               /\ revocations'[Len(revocations) + 1] = req[w].arg)
  <2>1. CASE revocations' = revocations
    BY <1>1, <2>1
  <2>2. CASE revocations' = Append(revocations, req[w].arg) /\ At(w, "revoke")
    BY <1>1, <2>2
  <2> QED BY <2>1, <2>2
<1>3. CASE \E i \in handled + 1 .. Len(revocations) : revocations[i] = k
  <2>1. PICK i \in handled + 1 .. Len(revocations) : revocations[i] = k
    BY <1>3
  <2>2. i \in handled' + 1 .. Len(revocations') /\ revocations'[i] = k
    BY <1>1, <1>2, <2>1
  <2> QED BY <2>2 DEF Coming
<1>4. CASE Revoking(k)
  <2>1. PICK v \in Worker : At(v, "revoke") /\ req[v].arg = k
    BY <1>4 DEF Revoking
  <2>2. CASE v # w
    BY <1>1, <2>1, <2>2 DEF Coming, Revoking, At
  <2>3. CASE v = w /\ revocations' = revocations
    BY <2>1, <2>3 DEF Coming
  <2>4. CASE v = w /\ revocations' # revocations
    <3>1. Len(revocations) + 1 \in handled' + 1 .. Len(revocations')
      BY <1>1, <1>2, <2>4
    <3>2. revocations'[Len(revocations) + 1] = k
      BY <1>2, <2>1, <2>4
    <3> QED BY <3>1, <3>2 DEF Coming
  <2> QED BY <2>2, <2>3, <2>4
<1>5. CASE k \in unrevoked
  BY <1>5 DEF Coming
<1> QED BY <1>3, <1>4, <1>5 DEF Coming

\* A key that stops working has its revocation to come.
LEMMA StopsComing ==
    ASSUME AccountInv, AccessTyped, NEW w \in Worker, Serve(w), handled' = handled,
           NEW k, Works(k) \/ Coming(k)
    PROVE  Works(k)' \/ Coming(k)'
<1>0. /\ row \in OwnerRow \cup {NoRow} /\ NoRow \notin OwnerRow /\ Idle \notin Request
      /\ req \in [Worker -> Request \cup {Idle}]
  BY MarksAssumption DEF AccountInv, Typed
<1>1. ASSUME NEW r, req' = [req EXCEPT ![w] = r], unrevoked \subseteq unrevoked',
             \/ revocations' = revocations /\ ~At(w, "revoke")
             \/ revocations' = revocations /\ req[w].arg \in unrevoked'
             \/ revocations' = Append(revocations, req[w].arg) /\ At(w, "revoke"),
             Works(k) => Works(k)' \/ Coming(k)'
      PROVE  Works(k)' \/ Coming(k)'
  BY <1>1, StillComing
<1>2. CASE Starts(w)
  <2>1. PICK r : Started(w, r)
    BY <1>2, StartShape
  <2> QED BY <1>1, <2>1 DEF Started, history, At, Works
<1>3. CASE Signup(w)
  BY <1>1, <1>3 DEF Signup, history, At, Works
<1>4. CASE SaveProfile(w)
  <2>1. PICK r : SavedProfile(w, r)
    BY <1>4, ProfileShape
  <2>2. /\ req' = [req EXCEPT ![w] = r] /\ unrevoked' = unrevoked \cup Displaced(w)
        /\ revocations' = revocations /\ ~At(w, "revoke")
        /\ row' # NoRow /\ row'.key = req[w].row.key
    BY <1>0, <2>1 DEF SavedProfile, At
  <2>3. Works(k) => Works(k)' \/ Coming(k)'
    BY <2>2 DEF Works, Displaced, Coming
  <2> QED BY <1>1, <2>2, <2>3
<1>5. CASE Deactivate(w) \/ RenewLink(w) \/ SaveResetLink(w)
  <2>1. PICK m : Linked(w, m)
    BY <1>5, LinkShape
  <2>2. /\ req' = [req EXCEPT ![w] = [at |-> "email", row |-> req[w].row, arg |-> m]]
        /\ UNCHANGED <<revocations, unrevoked>> /\ ~At(w, "revoke")
        /\ row' # NoRow /\ row'.key = row.key
    BY <1>0, <2>1 DEF Linked, At, Busy, Linking
  <2> QED BY <1>1, <2>2 DEF Works
<1>6. CASE SaveKey(w) \/ Remove(w)
  <2>1. PICK r : TookKey(w, r)
    BY <1>6, KeyShape
  <2>2. /\ req[w] # Idle /\ r \in Request /\ r.at = "revoke" /\ r.arg = req[w].row.key
        /\ req' = [req EXCEPT ![w] = r] /\ unrevoked' = unrevoked \cup Displaced(w)
        /\ revocations' = revocations /\ ~At(w, "revoke")
    BY <1>6, <2>1 DEF TookKey, SaveKey, Remove, At
  <2>3. ASSUME Works(k) PROVE Coming(k)'
    <3>1. CASE k = req[w].row.key
      <4>1. req'[w] # Idle /\ req'[w].at = "revoke" /\ req'[w].arg = k
        BY <1>0, <2>2, <3>1
      <4> QED BY <4>1 DEF Coming, Revoking, At
    <3>2. CASE k # req[w].row.key
      BY <2>2, <2>3, <3>2 DEF Works, Displaced, Coming
    <3> QED BY <3>1, <3>2
  <2> QED BY <1>1, <2>2, <2>3
<1>7. CASE Activate(w) \/ SavePassword(w) \/ SaveMissesRow(w)
  <2>1. /\ req' = [req EXCEPT ![w] = Idle] /\ UNCHANGED <<revocations, unrevoked>>
        /\ ~At(w, "revoke")
        /\ \/ row' = [row EXCEPT !.active = TRUE] /\ row # NoRow
           \/ row' = [row EXCEPT !.reset = 0] /\ row # NoRow
           \/ row' = row
    BY <1>7 DEF Activate, SavePassword, SaveMissesRow, At, Ends, history
  <2>2. Works(k) => Works(k)'
    <3>1. row # NoRow => row'.key = row.key /\ row' # NoRow
      BY <1>0, <2>1 DEF OwnerRow
    <3> QED BY <3>1 DEF Works
  <2> QED BY <1>1, <2>1, <2>2
<1>8. CASE EndsOnly(w)
  <2>1. Ended(w)
    BY <1>8, EndShape
  <2>2. /\ req' = [req EXCEPT ![w] = Idle] /\ row' = row /\ unrevoked \subseteq unrevoked'
        /\ \/ revocations' = revocations /\ ~At(w, "revoke")
           \/ revocations' = revocations /\ req[w].arg \in unrevoked'
           \/ revocations' = Append(revocations, req[w].arg) /\ At(w, "revoke")
    BY <2>1 DEF Ended
  <2> QED BY <1>1, <2>2 DEF Works
<1> QED
  BY <1>2, <1>3, <1>4, <1>5, <1>6, <1>7, <1>8 DEF Serve, Starts, EndsOnly

\* A step of the account makes keys and revocations and unmakes none.
LEMMA AccountGrows ==
    ASSUME AccountInv, NEW w \in Worker, Serve(w)
    PROVE  /\ keys <= keys' /\ keys \in Nat /\ keys' \in Nat
           /\ Len(revocations) \in Nat /\ Len(revocations') \in Nat
           /\ Len(revocations) <= Len(revocations')
<1>1. AccountInv'
  BY StepAccount DEF Next
<1>2. revocations \in Seq(Key) /\ keys \in Nat /\ revocations' \in Seq(Key) /\ keys' \in Nat
  BY <1>1 DEF AccountInv, Typed
<1>3. CASE EndsOnly(w)
  <2>1. /\ keys' = keys
        /\ revocations' = revocations \/ revocations' = Append(revocations, req[w].arg)
    BY <1>3, EndShape DEF Ended, generated
  <2> QED BY <1>2, <2>1
<1>4. CASE ~EndsOnly(w)
  <2>1. /\ revocations' = revocations
        /\ keys' = keys \/ keys' = keys + 1 \/ (keys = 0 /\ keys' = 1)
    BY <1>4 DEF Serve, EndsOnly, Signup, PutMe, ResendVerification, VerifyEmail, RotateKey, DeleteMe,
            RequestPasswordReset, ResetPassword, Begin, SaveProfile, Deactivate, RenewLink,
            Activate, SaveKey, Remove, SaveResetLink, SavePassword, SaveMissesRow, generated, history
  <2> QED BY <1>2, <2>1
<1> QED BY <1>3, <1>4

\* The account goes on while queryapi waits.
LEMMA AccountSteps ==
    ASSUME AccessInv, Next, UNCHANGED queryapi
    PROVE  AccessInv'
<1> PICK w \in Worker : Serve(w)
  BY DEF Next
<1>1. AccountInv'
  BY StepAccount DEF AccessInv
<1>2. UNCHANGED <<cache, lookup, handled, committed, late>>
  BY DEF queryapi
<1>3. AccessTyped'
  <2>1. /\ keys <= keys' /\ keys \in Nat /\ keys' \in Nat
        /\ Len(revocations) \in Nat /\ Len(revocations') \in Nat
        /\ Len(revocations) <= Len(revocations')
    BY AccountGrows DEF AccessInv
  <2>2. 1 .. keys \subseteq 1 .. keys' /\ 0 .. Len(revocations) \subseteq 0 .. Len(revocations')
    BY <2>1
  <2> QED BY <1>2, <2>2 DEF AccessInv, AccessTyped
<1>4. \A k : Works(k) \/ Coming(k) => Works(k)' \/ Coming(k)'
  BY <1>2, StopsComing DEF AccessInv
<1>5. CachedOK'
  BY <1>2, <1>4 DEF AccessInv, CachedOK
<1>6. AnswersOK'
  BY <1>2, <1>4 DEF AccessInv, AnswersOK
<1> QED BY <1>1, <1>3, <1>5, <1>6 DEF AccessInv

\* queryapi and its worker change nothing of the account but the history.
LEMMA AccountRests ==
    ASSUME AccountInv,
           UNCHANGED <<row, generated, mail, revocations, req, opened, resets, collided, served>>,
           unrevoked' \subseteq Key, faults' \in 0 .. MaxFaults
    PROVE  AccountInv'
  BY DEF generated, AccountInv, Typed, Known, Bounded, Busy

\* The requests of queryapi: an answer is as good as the row keyapi gave it by.
LEMMA LookupSteps ==
    ASSUME AccessInv, NEW q \in Lookup, Present(q) \/ Introspect(q) \/ Unavailable(q) \/ Store(q)
    PROVE  AccessInv'
<1> USE DEF AccessInv
<1>0. /\ UNCHANGED <<vars, handled, committed>> /\ Idle \notin Question
      /\ lookup \in [Lookup -> Question \cup {Idle}] /\ keys \in Nat
      /\ \A p \in Lookup : lookup[p] # Idle => lookup[p].key \in 1 .. keys
      /\ keys \in Key \cup {0}
  BY QuestionAssumption, InRange DEF Present, Introspect, Unavailable, Store, AccessTyped,
     AccountInv, Typed
<1>1. /\ UNCHANGED <<row, generated, mail, revocations, req, opened, resets, collided, served,
                     unrevoked, faults>>
      /\ UNCHANGED <<keys, handled, committed>>
  BY <1>0 DEF vars, generated, history, bounds
<1>2. AccountInv'
  BY <1>1, AccountRests DEF AccountInv, Typed
<1>3. \A k : (Coming(k)' <=> Coming(k)) /\ (Works(k)' <=> Works(k))
  BY <1>1 DEF Coming, Revoking, At, Works
<1>4. CASE Present(q) \/ Introspect(q) \/ Unavailable(q)
  <2>1. PICK a \in Question \cup {Idle} :
           /\ lookup' = [lookup EXCEPT ![q] = a] /\ UNCHANGED <<cache, late>>
           /\ a # Idle => /\ a.key \in 1 .. keys /\ ~a.overtaken
                          /\ a.answer = "valid" => Works(a.key)
    <3>1. CASE Present(q)
      <4>1. PICK k \in 1 .. keys :
               lookup' = [lookup EXCEPT ![q] = [key |-> k, answer |-> "none", overtaken |-> FALSE]]
        BY <3>1 DEF Present
      <4>2. k \in Key
        BY <1>0 DEF Key
      <4>3. [key |-> k, answer |-> "none", overtaken |-> FALSE] \in Question
        BY <4>2 DEF Question
      <4> QED BY <3>1, <4>1, <4>3 DEF Present
    <3>2. CASE Introspect(q)
      <4> DEFINE k == lookup[q].key
                 a == [key |-> k, answer |-> IF Works(k) THEN "valid" ELSE "invalid",
                       overtaken |-> FALSE]
      <4>1. lookup' = [lookup EXCEPT ![q] = a] /\ lookup[q] # Idle /\ UNCHANGED <<cache, late>>
        BY <3>2 DEF Introspect
      <4>2. k \in Key /\ k \in 1 .. keys
        BY <1>0, <4>1 DEF Question
      <4>3. a \in Question
        BY <4>2 DEF Question
      <4>4. a.key = k /\ ~a.overtaken /\ (a.answer = "valid" => Works(k))
        OBVIOUS
      <4> HIDE DEF a
      <4> QED BY <4>1, <4>2, <4>3, <4>4
    <3>3. CASE Unavailable(q)
      BY <3>3 DEF Unavailable
    <3> QED BY <1>4, <3>1, <3>2, <3>3
  <2>2. /\ lookup' \in [Lookup -> Question \cup {Idle}] /\ lookup'[q] = a
        /\ \A p \in Lookup : p # q => lookup'[p] = lookup[p]
    BY <1>0, <2>1
  <2>3. AccessTyped'
    BY <1>0, <1>1, <2>1, <2>2 DEF AccessTyped
  <2>4. CachedOK'
    BY <1>3, <2>1 DEF CachedOK
  <2>5. AnswersOK'
    BY <1>3, <2>1, <2>2 DEF AnswersOK
  <2> QED BY <1>2, <2>3, <2>4, <2>5
<1>5. CASE Store(q)
  <2> DEFINE k == lookup[q].key
  <2>1. /\ lookup[q] # Idle /\ lookup[q].answer # "none"
        /\ cache' = [cache EXCEPT ![k] = lookup[q].answer]
        /\ late' = IF lookup[q].answer = "valid" /\ lookup[q].overtaken
                   THEN late \cup {k} ELSE late \ {k}
        /\ lookup' = [lookup EXCEPT ![q] = Idle]
    BY <1>5 DEF Store
  <2>2. lookup[q] \in Question /\ k \in Key /\ lookup[q].answer \in {"valid", "invalid"}
    BY <1>0, <2>1 DEF Question
  <2>3. /\ lookup' \in [Lookup -> Question \cup {Idle}] /\ lookup'[q] = Idle
        /\ \A p \in Lookup : p # q => lookup'[p] = lookup[p]
    BY <1>0, <2>1
  <2>4. /\ cache' \in [Key -> {"none", "valid", "invalid"}] /\ cache'[k] = lookup[q].answer
        /\ \A j \in Key : j # k => cache'[j] = cache[j]
    BY <2>1, <2>2 DEF AccessTyped
  <2> HIDE DEF k
  <2>5. late' \subseteq {j \in Key : cache'[j] = "valid"}
    BY <2>1, <2>2, <2>4 DEF AccessTyped
  <2>6. AccessTyped'
    BY <1>0, <1>1, <2>3, <2>4, <2>5 DEF AccessTyped
  <2>7. CachedOK'
    <3> SUFFICES ASSUME NEW j \in Key, cache'[j] = "valid", ~Works(j)
                 PROVE  Coming(j) \/ j \in late'
      BY <1>3 DEF CachedOK
    <3>1. CASE j = k
      BY <2>1, <2>4, <3>1 DEF AnswersOK, k
    <3>2. CASE j # k
      BY <2>1, <2>4, <3>2 DEF CachedOK
    <3> QED BY <3>1, <3>2
  <2>8. AnswersOK'
    BY <1>3, <2>3 DEF AnswersOK
  <2> QED BY <1>2, <2>6, <2>7, <2>8
<1> QED BY <1>4, <1>5

\* What leaves the cache, and the worker that empties it by the revocations.
LEMMA WorkerSteps ==
    ASSUME AccessInv,
           (\E k \in Key : Expire(k)) \/ Handle \/ HandleFails \/ CommitHandled \/ WorkerRestarts
    PROVE  AccessInv'
<1> USE DEF AccessInv
<1>0. /\ Idle \notin Question /\ lookup \in [Lookup -> Question \cup {Idle}]
      /\ cache \in [Key -> {"none", "valid", "invalid"}]
      /\ late \subseteq {k \in Key : cache[k] = "valid"}
      /\ unrevoked \subseteq Key /\ faults \in 0 .. MaxFaults /\ revocations \in Seq(Key)
      /\ Len(revocations) \in Nat /\ handled \in Nat /\ handled <= Len(revocations)
      /\ committed \in Nat /\ committed <= handled
  BY QuestionAssumption DEF AccessTyped, AccountInv, Typed
<1>1. ASSUME UNCHANGED vars
      PROVE  AccountInv' /\ \A k : Works(k)' <=> Works(k)
  <2>1. UNCHANGED <<row, generated, mail, revocations, req, opened, resets, collided, served,
                    unrevoked, faults>>
    BY <1>1 DEF vars, generated, history, bounds
  <2> QED BY <1>0, <2>1, AccountRests DEF Works
<1>2. ASSUME NEW j \in Key, Expire(j) PROVE AccessInv'
  <2>1. /\ cache' = [cache EXCEPT ![j] = "none"] /\ late' = late \ {j}
        /\ UNCHANGED <<vars, lookup, handled, committed>>
    BY <1>2 DEF Expire
  <2>2. /\ cache' \in [Key -> {"none", "valid", "invalid"}] /\ cache'[j] = "none"
        /\ \A k \in Key : k # j => cache'[k] = cache[k]
    BY <1>0, <2>1
  <2>3. UNCHANGED <<revocations, req, unrevoked, keys>>
    BY <2>1 DEF vars, generated, history
  <2>4. \A k : Coming(k)' <=> Coming(k)
    BY <2>1, <2>3 DEF Coming, Revoking, At
  <2>5. late' \subseteq {k \in Key : cache'[k] = "valid"}
    BY <1>0, <2>1, <2>2
  <2>6. AccessTyped'
    BY <2>1, <2>2, <2>3, <2>5 DEF AccessTyped
  <2>7. CachedOK' /\ AnswersOK'
    BY <1>1, <2>1, <2>2, <2>4 DEF CachedOK, AnswersOK
  <2> QED BY <1>1, <2>1, <2>6, <2>7
<1>3. CASE Handle
  <2> DEFINE j == revocations[handled + 1]
  <2>1. /\ handled < Len(revocations) /\ handled' = handled + 1
        /\ cache' = [cache EXCEPT ![j] = "none"] /\ late' = late \ {j}
        /\ lookup' = [q \in Lookup |-> IF lookup[q] # Idle /\ lookup[q].key = j
                                       THEN [lookup[q] EXCEPT !.overtaken = TRUE] ELSE lookup[q]]
        /\ UNCHANGED <<vars, committed>>
    BY <1>3 DEF Handle
  <2>2. j \in Key
    BY <1>0, <2>1
  <2> HIDE DEF j
  <2>3. /\ cache' \in [Key -> {"none", "valid", "invalid"}] /\ cache'[j] = "none"
        /\ \A k \in Key : k # j => cache'[k] = cache[k]
    BY <1>0, <2>1, <2>2
  <2>4. late' \subseteq {k \in Key : cache'[k] = "valid"}
    BY <1>0, <2>1, <2>3
  <2>5. ASSUME NEW q \in Lookup
        PROVE  /\ lookup'[q] \in Question \cup {Idle}
               /\ lookup'[q] # Idle =>
                     /\ lookup[q] # Idle /\ lookup'[q].key = lookup[q].key
                     /\ lookup'[q].answer = lookup[q].answer
                     /\ ~lookup'[q].overtaken => ~lookup[q].overtaken /\ lookup[q].key # j
    <3>1. CASE lookup[q] # Idle /\ lookup[q].key = j
      <4>1. lookup[q] \in Question /\ lookup'[q] = [lookup[q] EXCEPT !.overtaken = TRUE]
        BY <1>0, <2>1, <3>1
      <4>2. /\ lookup'[q] \in Question /\ lookup'[q].key = lookup[q].key
            /\ lookup'[q].answer = lookup[q].answer /\ lookup'[q].overtaken
        BY <4>1 DEF Question
      <4> QED BY <3>1, <4>2
    <3>2. CASE ~(lookup[q] # Idle /\ lookup[q].key = j)
      <4>1. lookup'[q] = lookup[q]
        BY <2>1, <3>2
      <4> QED BY <1>0, <3>2, <4>1
    <3> QED BY <3>1, <3>2
  <2>6. lookup' \in [Lookup -> Question \cup {Idle}]
    <3>1. lookup' = [q \in Lookup |-> lookup'[q]]
      BY <2>1
    <3> QED BY <2>5, <3>1
  <2>7. UNCHANGED <<revocations, req, unrevoked, keys>>
    BY <2>1 DEF vars, generated, history
  <2>8. ASSUME NEW k, Coming(k), k # j PROVE Coming(k)'
    <3>1. CASE \E i \in handled + 1 .. Len(revocations) : revocations[i] = k
      <4>1. PICK i \in handled + 1 .. Len(revocations) : revocations[i] = k
        BY <3>1
      <4>2. i # handled + 1
        BY <2>8, <4>1 DEF j
      <4>3. i \in handled' + 1 .. Len(revocations')
        BY <1>0, <2>1, <2>7, <4>1, <4>2
      <4> QED BY <2>7, <4>1, <4>3 DEF Coming
    <3>2. CASE Revoking(k) \/ k \in unrevoked
      BY <2>7, <3>2 DEF Coming, Revoking, At
    <3> QED BY <2>8, <3>1, <3>2 DEF Coming
  <2>9. AccessTyped'
    <3>1. \A q \in Lookup : lookup'[q] # Idle => lookup'[q].key \in 1 .. keys'
      BY <2>5, <2>7 DEF AccessTyped
    <3>2. handled' \in 0 .. Len(revocations') /\ committed' \in 0 .. handled'
      BY <1>0, <2>1, <2>7
    <3> QED BY <2>3, <2>4, <2>6, <3>1, <3>2 DEF AccessTyped
  <2>10. CachedOK'
    BY <1>1, <2>1, <2>3, <2>8 DEF CachedOK
  <2>11. AnswersOK'
    BY <1>1, <2>1, <2>5, <2>8 DEF AnswersOK
  <2> QED BY <1>1, <2>1, <2>9, <2>10, <2>11
<1>4. CASE HandleFails
  <2>1. /\ handled < Len(revocations) /\ handled' = handled + 1
        /\ unrevoked' = unrevoked \cup {revocations[handled + 1]} /\ faults' \in 0 .. MaxFaults
        /\ UNCHANGED <<row, generated, mail, revocations, req, opened, resets, collided, served,
                       cache, lookup, committed, late>>
    BY <1>0, <1>4 DEF HandleFails
  <2>2. revocations[handled + 1] \in Key
    BY <1>0, <2>1
  <2>3. AccountInv'
    BY <1>0, <2>1, <2>2, AccountRests
  <2>4. ASSUME NEW k, Coming(k) PROVE Coming(k)'
    <3>1. CASE \E i \in handled + 1 .. Len(revocations) : revocations[i] = k
      <4>1. PICK i \in handled + 1 .. Len(revocations) : revocations[i] = k
        BY <3>1
      <4>2. i = handled + 1 \/ i \in handled' + 1 .. Len(revocations')
        BY <1>0, <2>1, <4>1
      <4> QED BY <2>1, <4>1, <4>2 DEF Coming
    <3>2. CASE Revoking(k) \/ k \in unrevoked
      BY <2>1, <3>2 DEF Coming, Revoking, At
    <3> QED BY <2>4, <3>1, <3>2 DEF Coming
  <2>5. AccessTyped'
    <3>1. handled' \in 0 .. Len(revocations') /\ committed' \in 0 .. handled'
      BY <1>0, <2>1
    <3> QED BY <2>1, <3>1 DEF AccessTyped, generated
  <2>6. CachedOK' /\ AnswersOK'
    BY <2>1, <2>4 DEF CachedOK, AnswersOK, Works
  <2> QED BY <2>3, <2>5, <2>6
<1>5. CASE CommitHandled
  <2>1. committed' = handled /\ UNCHANGED <<vars, cache, lookup, handled, late>>
    BY <1>5 DEF CommitHandled
  <2>2. UNCHANGED <<revocations, req, unrevoked, keys>>
    BY <2>1 DEF vars, generated, history
  <2>3. AccessTyped'
    BY <1>0, <2>1, <2>2 DEF AccessTyped
  <2>4. CachedOK' /\ AnswersOK'
    BY <1>1, <2>1, <2>2 DEF CachedOK, AnswersOK, Coming, Revoking, At
  <2> QED BY <1>1, <2>1, <2>3, <2>4
<1>6. CASE WorkerRestarts
  <2>1. /\ handled' = committed /\ faults' \in 0 .. MaxFaults
        /\ UNCHANGED <<row, generated, mail, revocations, req, history, served,
                       cache, lookup, committed, late>>
    BY <1>0, <1>6 DEF WorkerRestarts
  <2>2. UNCHANGED <<opened, resets, unrevoked, collided, keys>>
    BY <2>1 DEF history, generated
  <2>3. AccountInv'
    BY <1>0, <2>1, <2>2, AccountRests
  <2>4. handled + 1 .. Len(revocations) \subseteq handled' + 1 .. Len(revocations')
    BY <1>0, <2>1
  <2>5. \A k : Coming(k) => Coming(k)'
    BY <2>1, <2>2, <2>4 DEF Coming, Revoking, At
  <2>6. AccessTyped'
    BY <1>0, <2>1, <2>2 DEF AccessTyped
  <2>7. CachedOK' /\ AnswersOK'
    BY <2>1, <2>5 DEF CachedOK, AnswersOK, Works
  <2> QED BY <2>3, <2>6, <2>7
<1> QED BY <1>2, <1>3, <1>4, <1>5, <1>6

\* A key that has stopped working is accepted from queryapi's cache only while its
\* revocation is on its way, if it was lost, or if the answer was on its way when the
\* worker emptied the cache, whatever collides in keyapi and whoever restarts
\* (authentication.py of queryapi, consume_owner_auth_revocations.py).
THEOREM StaleAnswersAreExplained == AccessSpec => []StaleAnswersExplained
<1>1. AccessInit => AccessInv
  <2> SUFFICES ASSUME AccessInit PROVE AccessInv
    OBVIOUS
  <2>1. AccountInv
    BY InitAccount DEF AccessInit
  <2>2. /\ cache = [k \in Key |-> "none"] /\ lookup = [q \in Lookup |-> Idle]
        /\ handled = 0 /\ committed = 0 /\ late = {} /\ revocations = <<>>
    BY DEF AccessInit, Init
  <2>3. AccessTyped
    BY <2>2 DEF AccessTyped
  <2>4. CachedOK /\ AnswersOK
    BY <2>2 DEF CachedOK, AnswersOK
  <2> QED BY <2>1, <2>3, <2>4 DEF AccessInv
<1>2. AccessInv /\ [AccessNext]_accessVars => AccessInv'
  <2> SUFFICES ASSUME AccessInv, [AccessNext]_accessVars PROVE AccessInv'
    OBVIOUS
  <2>1. CASE UNCHANGED accessVars
    <3>1. UNCHANGED <<vars, cache, lookup, handled, committed, late>>
      BY <2>1 DEF accessVars, queryapi
    <3>2. UNCHANGED <<row, keys, revocations, req, unrevoked>>
      BY <3>1 DEF vars, generated, history
    <3>3. AccountInv'
      BY <3>1, StepAccount DEF AccessInv
    <3> QED BY <3>1, <3>2, <3>3 DEF AccessInv, AccessTyped, CachedOK, AnswersOK, Coming, Revoking,
                                    At, Works
  <2>2. CASE AccessNext
    BY <2>2, AccountSteps, LookupSteps, WorkerSteps DEF AccessNext
  <2> QED BY <2>1, <2>2
<1>3. AccessInv => StaleAnswersExplained
  <2> SUFFICES ASSUME AccessInv PROVE StaleAnswersExplained
    OBVIOUS
  <2>1. \A w \in Worker : req[w] # Idle => req[w].at \in Stages /\ req[w].row \in OwnerRow
    BY DEF AccessInv, AccountInv, Typed, Request
  <2>2. TypeOK
    BY <2>1, InRange DEF AccessInv, AccountInv, Typed, TypeOK
  <2>3. AccessTypeOK
    BY <2>2 DEF AccessInv, AccessTyped, AccessTypeOK
  <2> QED BY <2>3 DEF AccessInv, StaleAnswersExplained, CachedOK, Coming, Revoking
<1> QED
  BY <1>1, <1>2, <1>3, PTL DEF AccessSpec
==============================================================================
