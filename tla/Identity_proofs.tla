--------------------------- MODULE Identity_proofs ---------------------------
(***************************************************************************)
(* Proofs about Identity for any users, serial codes and requests under    *)
(* way: a serial code pays once, licences and successors of a token are    *)
(* bounded, a reset link is spent once and no token outlives its password. *)
(*                                                                         *)
(* Each of them rests on what the requests under way have locked: the      *)
(* argument is about pairs of requests, and no step of a third one can     *)
(* come between them.                                                      *)
(***************************************************************************)
EXTENDS Identity, FiniteSetTheorems, SequenceTheorems, TLAPS

-----------------------------------------------------------------------------
(* The types of the rows and of the requests under way.                    *)

Ops     == {"register", "registered", "provision", "upgrade", "insert", "delete",
            "login", "rotate", "superseded", "logout", "consumed", "locked", "revoked"}
Row     == Licences \cup Nat \cup {None}
Request == [op : Ops, user : Users, row : Row, seen : SUBSET Nat]
Token   == [user : Users, state : {"active", "revoked", "expired"}, parent : Nat, stored : Nat]
Link    == [user : Users, state : {"open", "used", "expired"}]
Account == [owner : Users, active : BOOLEAN, trading : BOOLEAN]

Typed ==
    /\ users \in SUBSET Users
    /\ password \in [Users -> Nat]
    /\ tokens \in Seq(Token)
    /\ resets \in Seq(Link)
    /\ licence \in [Licences -> Licence \cup {None}]
    /\ accounts \in Seq(Account)
    /\ req \in [Requests -> Request \cup {None}]
    /\ started \in 0..MaxRequests
    /\ paid \in [Users -> Serials \cup {None}]

-----------------------------------------------------------------------------
(* Licences.                                                               *)

(* A code that is sold has a row; a user who registered with it owns it.   *)
Sold ==
    /\ \A c \in Serials : licence[c] \in Licence
    /\ \A u \in users : /\ paid[u] \in Serials /\ licence[paid[u]].owner = u
                        /\ licence[paid[u]].status # "UNUSED"

(* A registration names a code; past its SELECT ... FOR UPDATE it holds    *)
(* one that is not used, for an address that is not taken.                 *)
Holds ==
    /\ \A r \in Requests : At(r, "register") => req[r].row \in Serials
    /\ \A r \in Requests : At(r, "registered") =>
          /\ req[r].row \in Serials /\ licence[req[r].row].status = "UNUSED"
          /\ req[r].user \notin users

(* No two of them hold one code or one address.                            *)
Exclusive ==
    \A r, q \in Requests : r # q /\ At(r, "registered") /\ At(q, "registered") =>
        req[r].user # req[q].user /\ req[r].row # req[q].row

(* A licence that somebody has.                                            *)
Begun(l) == l \in Licences /\ licence[l] \in Licence /\ licence[l].status # "UNUSED"

(* Licences and requests for accounts belong to users.                     *)
Known ==
    /\ \A l \in Licences : licence[l] # None /\ licence[l].status = "ACTIVE" => licence[l].owner \in users
    /\ \A r \in Requests : At(r, "provision") =>
          req[r].user \in users /\ (req[r].row = None \/ Begun(req[r].row))
    /\ \A r \in Requests : At(r, "upgrade") => req[r].row \in Licences /\ licence[req[r].row] \in Licence

(* The requests that will give u a licence.                                *)
Pending(u) == {r \in Requests : At(r, "provision") /\ req[r].user = u}

(* The licences those requests will end, and the others.                   *)
Doomed(u) == {req[r].row : r \in Pending(u)}

Spare(u) == Active(u) \ Doomed(u)

(* A licence that nobody is to end, or a request that will give one, for   *)
(* each slot at most.                                                      *)
Slots ==
    \A u \in Users : /\ IsFiniteSet(Active(u))
                     /\ Cardinality(Spare(u)) + Cardinality(Pending(u)) <= Cardinality(Requests)

Licensing == Sold /\ Holds /\ Exclusive /\ Known

-----------------------------------------------------------------------------
(* Reset links and sessions.                                               *)

(* A request that has consumed a link has it for itself.                   *)
Spending ==
    /\ \A r \in Requests : req[r] # None /\ req[r].op \in Consuming =>
          /\ req[r].row \in DOMAIN resets
          /\ resets[req[r].row].user = req[r].user /\ resets[req[r].row].state # "used"
    /\ \A r, q \in Requests :
          r # q /\ req[r] # None /\ req[r].op \in Consuming /\ req[q] # None /\ req[q].op \in Consuming =>
             req[r].row # req[q].row

(* The UPDATE of a reset covers what there is to revoke until it commits.  *)
Covered ==
    \A r \in Requests : At(r, "revoked") => Unrevoked(req[r].user) \subseteq req[r].seen

(* What is not revoked was stored under the present password.              *)
Settled == \A t \in DOMAIN tokens : tokens[t].state # "revoked" => tokens[t].stored = password[tokens[t].user]

-----------------------------------------------------------------------------
(* Rotation.                                                               *)

(* The requests that are to store a successor of t.                        *)
Rotating(t) == {r \in Requests : (At(r, "rotate") \/ At(r, "superseded")) /\ req[r].row = t}

(* A request rotates a token that is stored; past its UPDATE it has        *)
(* revoked the token or found it revoked.                                  *)
Rotations ==
    /\ \A r \in Requests : At(r, "rotate") \/ At(r, "superseded") => req[r].row \in DOMAIN tokens
    /\ \A r \in Requests : At(r, "superseded") =>
          req[r].row \in req[r].seen \/ tokens[req[r].row].state = "revoked"

(* A token that has a successor is revoked; those it has, and those under  *)
(* way, are no more than the requests.                                     *)
Chains ==
    /\ \A t \in DOMAIN tokens : tokens[t].parent <= Len(tokens)
    /\ \A t \in DOMAIN tokens :
          /\ Successors(t) # {} => tokens[t].state = "revoked"
          /\ Cardinality(Successors(t)) + Cardinality(Rotating(t)) <= Cardinality(Requests)

-----------------------------------------------------------------------------
(* What a step does to the requests under way.                             *)

(* No request comes to one of these statements, or changes at it.          *)
Quiet(ops) == \A q \in Requests : req'[q] # None /\ req'[q].op \in ops => req'[q] = req[q]

(* A request that begins: its slot was free.                               *)
LEMMA BeginWithStep ==
  ASSUME Typed, NEW r \in Requests, NEW op \in Ops, NEW u \in Users, NEW row \in Row, NEW seen \in SUBSET Nat,
         BeginWith(r, op, u, row, seen)
  PROVE  /\ req' \in [Requests -> Request \cup {None}]
         /\ started' \in 0..MaxRequests
         /\ req[r] = None
         /\ req'[r] = [op |-> op, user |-> u, row |-> row, seen |-> seen]
         /\ \A q \in Requests \ {r} : req'[q] = req[q]
         /\ \A ops : op \notin ops => Quiet(ops)
  <1>1. [op |-> op, user |-> u, row |-> row, seen |-> seen] \in Request
    BY DEF Typed, Request
  <1>2. /\ req'[r] = [op |-> op, user |-> u, row |-> row, seen |-> seen]
        /\ \A q \in Requests \ {r} : req'[q] = req[q]
        /\ req[r] = None
    BY DEF Typed, BeginWith
  <1>3. req' \in [Requests -> Request \cup {None}]
    BY <1>1 DEF Typed, BeginWith
  <1>4. started' \in 0..MaxRequests
    BY IdentityAssumption DEF Typed, BeginWith
  <1>5. req'[r].op = op
    BY <1>2
  <1>6. QED
    BY <1>2, <1>3, <1>4, <1>5 DEF Quiet

(* One that begins without a lock.                                         *)
LEMMA BeginStep ==
  ASSUME Typed, NEW r \in Requests, NEW op \in Ops, NEW u \in Users, NEW row \in Row, Begin(r, op, u, row)
  PROVE  /\ req' \in [Requests -> Request \cup {None}]
         /\ started' \in 0..MaxRequests
         /\ req[r] = None
         /\ req'[r] = [op |-> op, user |-> u, row |-> row, seen |-> {}]
         /\ \A q \in Requests \ {r} : req'[q] = req[q]
         /\ \A ops : op \notin ops => Quiet(ops)
  BY BeginWithStep DEF Begin

(* A request that goes on.                                                 *)
LEMMA ProceedStep ==
  ASSUME Typed, NEW r \in Requests, NEW op \in Ops, NEW seen \in SUBSET Nat, req[r] # None, Proceed(r, op, seen)
  PROVE  /\ req' \in [Requests -> Request \cup {None}]
         /\ started' = started
         /\ req'[r] = [req[r] EXCEPT !.op = op, !.seen = seen]
         /\ req'[r].op = op /\ req'[r].seen = seen
         /\ req'[r].user = req[r].user /\ req'[r].row = req[r].row
         /\ \A q \in Requests \ {r} : req'[q] = req[q]
         /\ \A ops : op \notin ops => Quiet(ops)
  <1>1. req[r] \in Request
    BY DEF Typed
  <1>2. /\ req'[r] = [req[r] EXCEPT !.op = op, !.seen = seen]
        /\ \A q \in Requests \ {r} : req'[q] = req[q]
    BY DEF Typed, Proceed
  <1>3. /\ req'[r] \in Request
        /\ req'[r].op = op /\ req'[r].seen = seen
        /\ req'[r].user = req[r].user /\ req'[r].row = req[r].row
    BY <1>1, <1>2 DEF Request
  <1>4. req' \in [Requests -> Request \cup {None}]
    BY <1>2, <1>3 DEF Typed, Proceed
  <1>5. QED
    BY <1>2, <1>3, <1>4 DEF Quiet, Proceed

(* A request that ends.                                                    *)
LEMMA EndStep ==
  ASSUME Typed, NEW r \in Requests, End(r)
  PROVE  /\ req' \in [Requests -> Request \cup {None}]
         /\ started' = started
         /\ req'[r] = None /\ \A q \in Requests \ {r} : req'[q] = req[q]
         /\ \A ops : Quiet(ops)
  BY DEF Typed, End, Quiet

(* A request of one statement leaves the others alone.                     *)
LEMMA SingleStep ==
  ASSUME Typed, Single
  PROVE  req' = req /\ started' \in 0..MaxRequests /\ started' = started + 1 /\ \A ops : Quiet(ops)
  BY IdentityAssumption DEF Typed, Single, Quiet

(* Revoking keeps the rows and their owners.                               *)
LEMMA RevokedRows ==
  ASSUME Typed, NEW S
  PROVE  /\ Revoked(S) \in Seq(Token) /\ Len(Revoked(S)) = Len(tokens)
         /\ \A t \in 1..Len(tokens) :
               /\ Revoked(S)[t].user = tokens[t].user /\ Revoked(S)[t].parent = tokens[t].parent
               /\ Revoked(S)[t].stored = tokens[t].stored
               /\ Revoked(S)[t].state = IF t \in S THEN "revoked" ELSE tokens[t].state
  <1>1. DOMAIN tokens = 1..Len(tokens) /\ Len(tokens) \in Nat /\ \A t \in 1..Len(tokens) : tokens[t] \in Token
    BY DEF Typed
  <1>2. ASSUME NEW t \in 1..Len(tokens)
        PROVE  /\ Revoked(S)[t] \in Token
               /\ Revoked(S)[t].user = tokens[t].user /\ Revoked(S)[t].parent = tokens[t].parent
               /\ Revoked(S)[t].stored = tokens[t].stored
               /\ Revoked(S)[t].state = IF t \in S THEN "revoked" ELSE tokens[t].state
    BY <1>1 DEF Revoked, Token
  <1>3. Revoked(S) = [t \in 1..Len(tokens) |-> Revoked(S)[t]]
    BY <1>1 DEF Revoked
  <1>4. Revoked(S) \in Seq(Token)
    BY <1>1, <1>2, <1>3, IsASeq
  <1>5. QED
    BY <1>1, <1>2, <1>3, <1>4, LenProperties

-----------------------------------------------------------------------------
(* Type correctness.                                                       *)

(* The serial codes, and the licences given away, are licences.            *)
LEMMA LicencesOf == Serials \subseteq Licences /\ \A l \in 1..MaxRequests : l \in Licences /\ l \notin Serials
  BY IdentityAssumption DEF Licences

(* An activated licence.                                                   *)
LEMMA ActivatedType == ASSUME NEW u \in Users, NEW n \in Int PROVE Activated(u, n) \in Licence
  BY DEF Activated, Licence

(* Expiring keeps the type, the owner, and every other licence.            *)
LEMMA ExpiredRows ==
  ASSUME Typed, NEW S, \A l \in S \cap Licences : licence[l] \in Licence
  PROVE  /\ Expired(S) \in [Licences -> Licence \cup {None}]
         /\ \A l \in Licences :
               IF l \in S
               THEN /\ Expired(S)[l] \in Licence /\ Expired(S)[l].owner = licence[l].owner
                    /\ Expired(S)[l].status = "EXPIRED" /\ licence[l] \in Licence
                    /\ Expired(S)[l].past = licence[l].past
               ELSE Expired(S)[l] = licence[l]
  <1>1. ASSUME NEW l \in Licences, l \in S
        PROVE  /\ Expired(S)[l] \in Licence /\ Expired(S)[l].owner = licence[l].owner
               /\ Expired(S)[l].status = "EXPIRED" /\ licence[l] \in Licence
               /\ Expired(S)[l].past = licence[l].past
    <2>1. licence[l] \in Licence
      BY <1>1
    <2>2. Expired(S)[l] = [licence[l] EXCEPT !.status = "EXPIRED"]
      BY <1>1 DEF Expired
    <2>3. QED
      BY <2>1, <2>2 DEF Licence
  <1>2. ASSUME NEW l \in Licences, l \notin S
        PROVE  Expired(S)[l] = licence[l]
    BY <1>2 DEF Expired
  <1>3. Expired(S) \in [Licences -> Licence \cup {None}]
    <2>1. Expired(S) = [l \in Licences |-> Expired(S)[l]]
      BY DEF Expired
    <2>2. \A l \in Licences : Expired(S)[l] \in Licence \cup {None}
      BY <1>1, <1>2 DEF Typed
    <2>3. QED
      BY <2>1, <2>2
  <1>4. QED
    BY <1>1, <1>2, <1>3

(* The first state has the types.                                          *)
LEMMA InitTyped == Init => Typed
  <1> SUFFICES ASSUME Init PROVE Typed
    OBVIOUS
  <1>1. PICK code \in [Early -> Serials] : paid = [u \in Users |-> IF u \in Early THEN code[u] ELSE None]
    BY DEF Init
  <1>2. paid \in [Users -> Serials \cup {None}]
    BY <1>1
  <1>3. ASSUME NEW l \in Licences PROVE licence[l] \in Licence \cup {None}
    <2>1. CASE l \notin Serials
      BY <2>1 DEF Init
    <2>2. CASE l \in Serials /\ \E u \in Early : paid[u] = l
      <3>1. licence[l] = Activated(CHOOSE u \in Early : paid[u] = l, 1)
        BY <2>2 DEF Init
      <3>2. (CHOOSE u \in Early : paid[u] = l) \in Users
        BY <2>2, IdentityAssumption
      <3>3. QED
        BY <3>1, <3>2, ActivatedType
    <2>3. CASE l \in Serials /\ ~\E u \in Early : paid[u] = l
      <3>1. licence[l] = [owner |-> None, status |-> "UNUSED", past |-> FALSE, limit |-> 1]
        BY <2>3 DEF Init
      <3>2. QED
        BY <3>1 DEF Licence
    <2>4. QED
      BY <2>1, <2>2, <2>3
  <1>4. licence \in [Licences -> Licence \cup {None}]
    BY <1>3 DEF Init
  <1>5. tokens \in Seq(Token) /\ resets \in Seq(Link) /\ accounts \in Seq(Account)
    BY DEF Init
  <1>6. users \in SUBSET Users /\ started \in 0..MaxRequests
    BY IdentityAssumption DEF Init
  <1>7. /\ password \in [Users -> Nat]
        /\ req \in [Requests -> Request \cup {None}]
    BY DEF Init
  <1>8. QED
    BY <1>2, <1>4, <1>5, <1>6, <1>7 DEF Typed

(* Replacing one row of a table.                                           *)
LEMMA RowReplaced ==
  ASSUME NEW S, NEW s \in Seq(S), NEW i \in DOMAIN s, NEW x \in S
  PROVE  /\ [s EXCEPT ![i] = x] \in Seq(S) /\ Len([s EXCEPT ![i] = x]) = Len(s)
         /\ DOMAIN [s EXCEPT ![i] = x] = DOMAIN s
         /\ \A j \in DOMAIN s : [s EXCEPT ![i] = x][j] = IF j = i THEN x ELSE s[j]
  <1>1. i \in 1..Len(s)
    BY LenProperties
  <1>2. QED
    BY <1>1, ExceptSeq, LenProperties

(* The requests that begin keep the types.                                 *)
LEMMA StartTyped == ASSUME Typed, NEW r \in Requests, Start(r) PROVE Typed'
  <1> USE DEF rows
  <1>1. ASSUME NEW op \in Ops, NEW u \in Users, NEW row \in Row, Begin(r, op, u, row), UNCHANGED <<rows, paid>>
        PROVE  Typed'
    <2>1. req' \in [Requests -> Request \cup {None}] /\ started' \in 0..MaxRequests
      BY <1>1, BeginStep
    <2>2. QED
      BY <2>1, <1>1 DEF Typed
  <1>2. ASSUME NEW u \in Users, NEW c \in Serials, register(r, u, c) PROVE Typed'
    <2>1. c \in Row /\ "register" \in Ops
      BY LicencesOf DEF Row, Ops
    <2>2. QED
      BY <2>1, <1>1, <1>2 DEF register
  <1>3. ASSUME NEW u \in Users, create_account(r, u) PROVE Typed'
    <2>1. (\A l \in Licences \cup {None} : l \in Row) /\ {"provision", "upgrade", "insert"} \subseteq Ops
      BY DEF Row, Ops
    <2>2. \A l \in get_user_active_license(u) : l \in Row
      BY DEF get_user_active_license, Over, Active, Row
    <2>3. \/ \E l \in Licences \cup {None} : Begin(r, "provision", u, l)
          \/ \E l \in get_user_active_license(u) : Begin(r, "upgrade", u, l) \/ Begin(r, "insert", u, l)
      BY <1>3 DEF create_account, Over, Active
    <2>4. UNCHANGED <<rows, paid>>
      BY <1>3 DEF create_account
    <2>5. QED
      BY <2>1, <2>2, <2>3, <2>4, <1>1
  <1>4. ASSUME NEW u \in Users, login(r, u) PROVE Typed'
    <2>1. None \in Row /\ "login" \in Ops
      BY DEF Row, Ops
    <2>2. QED
      BY <2>1, <1>1, <1>4 DEF login
  <1>5. ASSUME NEW a \in DOMAIN accounts, delete_account(r, a) PROVE Typed'
    <2>1. a \in Row /\ "delete" \in Ops
      BY DEF Row, Ops, Typed
    <2>2. accounts[a] \in Account
      BY DEF Typed
    <2>3. accounts[a].owner \in Users
      BY <2>2 DEF Account
    <2>4. QED
      BY <2>1, <2>3, <1>1, <1>5 DEF delete_account
  <1>6. ASSUME NEW t \in DOMAIN tokens, refresh_token(r, t) PROVE Typed'
    <2>1. t \in Row /\ "rotate" \in Ops
      BY DEF Row, Ops, Typed
    <2>2. tokens[t] \in Token
      BY DEF Typed
    <2>3. tokens[t].user \in Users
      BY <2>2 DEF Token
    <2>4. QED
      BY <2>1, <2>3, <1>1, <1>6 DEF refresh_token
  <1>7. ASSUME NEW k \in DOMAIN resets, verify_and_consume_token(r, k) PROVE Typed'
    <2>1. k \in Row /\ "consumed" \in Ops
      BY DEF Row, Ops, Typed
    <2>2. resets[k] \in Link
      BY DEF Typed
    <2>3. resets[k].user \in Users
      BY <2>2 DEF Link
    <2>4. QED
      BY <2>1, <2>3, <1>1, <1>7 DEF verify_and_consume_token
  <1>8. ASSUME NEW t \in DOMAIN tokens, NEW u \in Users, logout(r, u, t) PROVE Typed'
    <2>1. t \in Row /\ "logout" \in Ops /\ revoke_refresh_jti(t) \in SUBSET Nat
      BY DEF Row, Ops, Typed, revoke_refresh_jti
    <2>2. BeginWith(r, "logout", u, t, revoke_refresh_jti(t)) /\ UNCHANGED <<rows, paid>>
      BY <1>8 DEF logout
    <2>3. req' \in [Requests -> Request \cup {None}] /\ started' \in 0..MaxRequests
      BY <2>1, <2>2, BeginWithStep
    <2>4. QED
      BY <2>2, <2>3 DEF Typed
  <1>9. QED
    BY <1>2, <1>3, <1>4, <1>5, <1>6, <1>7, <1>8 DEF Start

(* The user of a request under way.                                        *)
LEMMA RequestType ==
  ASSUME Typed, NEW r \in Requests, req[r] # None
  PROVE  /\ req[r] \in Request /\ req[r].user \in Users /\ req[r].row \in Row
         /\ req[r].seen \in SUBSET Nat /\ req[r].op \in Ops
  <1>1. req[r] \in Request
    BY DEF Typed
  <1>2. QED
    BY <1>1 DEF Request

(* What a registration that ends has done.                                 *)
LEMMA RegisteredStep ==
  ASSUME Typed, Sold, Holds, NEW r \in Requests, Registered(r)
  PROVE  /\ req[r].row \in Serials /\ req[r].row \in Licences /\ req[r].user \in Users
         /\ licence' \in [Licences -> Licence \cup {None}]
         /\ licence'[req[r].row] \in Licence /\ licence'[req[r].row].owner = req[r].user
         /\ licence'[req[r].row].status = "ACTIVE" /\ licence'[req[r].row].past = FALSE
         /\ \A l \in Licences \ {req[r].row} : licence'[l] = licence[l]
         /\ users' = users \cup {req[r].user}
         /\ paid' \in [Users -> Serials \cup {None}]
         /\ paid'[req[r].user] = req[r].row
         /\ \A u \in Users \ {req[r].user} : paid'[u] = paid[u]
         /\ At(r, "registered") /\ End(r)
  <1>1. At(r, "registered") /\ End(r)
    BY DEF Registered
  <1>2. req[r].user \in Users
    BY <1>1, RequestType DEF At
  <1>3. req[r].row \in Serials /\ req[r].row \in Licences
    BY <1>1, LicencesOf DEF Holds
  <1>4. licence[req[r].row] \in Licence
    BY <1>3 DEF Sold
  <1>5. licence[req[r].row].limit \in Int
    BY <1>4 DEF Licence
  <1>6. licence' = [licence EXCEPT ![req[r].row] = Activated(req[r].user, licence[req[r].row].limit)]
    BY DEF Registered
  <1>7. Activated(req[r].user, licence[req[r].row].limit) \in Licence
    BY <1>2, <1>5, ActivatedType
  <1>8. /\ licence' \in [Licences -> Licence \cup {None}]
        /\ licence'[req[r].row] = Activated(req[r].user, licence[req[r].row].limit)
        /\ \A l \in Licences \ {req[r].row} : licence'[l] = licence[l]
    BY <1>3, <1>6, <1>7 DEF Typed
  <1>9. /\ licence'[req[r].row].owner = req[r].user
        /\ licence'[req[r].row].status = "ACTIVE" /\ licence'[req[r].row].past = FALSE
    BY <1>8 DEF Activated
  <1>10. users' = users \cup {req[r].user} /\ paid' = [paid EXCEPT ![req[r].user] = req[r].row]
    BY DEF Registered
  <1>11. /\ paid' \in [Users -> Serials \cup {None}] /\ paid'[req[r].user] = req[r].row
         /\ \A u \in Users \ {req[r].user} : paid'[u] = paid[u]
    BY <1>2, <1>3, <1>10 DEF Typed
  <1>12. QED
    BY <1>1, <1>2, <1>3, <1>7, <1>8, <1>9, <1>10, <1>11

(* What Provision has done: the licence it read is over, one more is given.*)
LEMMA ProvisionStep ==
  ASSUME Typed, Known, NEW r \in Requests, Provision(r)
  PROVE  /\ At(r, "provision") /\ req[r].user \in Users /\ Proceed(r, "insert", {})
         /\ licence' \in [Licences -> Licence \cup {None}]
         /\ \E l \in 1..MaxRequests :
               /\ l \in Licences /\ l \notin Serials /\ licence[l] = None
               /\ licence'[l] = Activated(req[r].user, -1)
               /\ \A k \in Licences \ {l} :
                     IF k = req[r].row
                     THEN /\ licence[k] \in Licence /\ licence'[k] \in Licence
                          /\ licence'[k].owner = licence[k].owner
                          /\ licence[k].status # "UNUSED" /\ licence'[k].status = "EXPIRED"
                     ELSE licence'[k] = licence[k]
         /\ UNCHANGED <<users, paid>>
  <1>1. At(r, "provision") /\ Proceed(r, "insert", {}) /\ UNCHANGED <<users, paid>>
    BY DEF Provision
  <1>2. req[r].user \in Users
    BY <1>1, RequestType DEF At
  <1>3. PICK E : E = Expired({req[r].row})
    OBVIOUS
  <1>4. PICK l \in 1..MaxRequests :
           licence[l] = None /\ licence' = [E EXCEPT ![l] = Activated(req[r].user, -1)]
    BY <1>3 DEF Provision
  <1>5. Activated(req[r].user, -1) \in Licence
    BY <1>2, ActivatedType
  <1>6. None \notin Licences /\ (req[r].row \in Licences => Begun(req[r].row))
    BY <1>1, IdentityAssumption DEF Known, Licences
  <1>7. /\ E \in [Licences -> Licence \cup {None}]
        /\ \A k \in Licences :
              IF k \in {req[r].row}
              THEN /\ E[k] \in Licence /\ E[k].owner = licence[k].owner
                   /\ E[k].status = "EXPIRED" /\ licence[k] \in Licence
              ELSE E[k] = licence[k]
    <2>1. \A k \in {req[r].row} \cap Licences : licence[k] \in Licence
      BY <1>6 DEF Begun
    <2>2. QED
      BY <1>3, <2>1, ExpiredRows
  <1>8. l \in Licences /\ l \notin Serials
    BY LicencesOf
  <1>9. licence' \in [Licences -> Licence \cup {None}]
    BY <1>4, <1>5, <1>7, <1>8
  <1>10. /\ licence'[l] = Activated(req[r].user, -1)
         /\ \A k \in Licences \ {l} : licence'[k] = E[k]
    BY <1>4, <1>7, <1>8
  <1>11. \A k \in Licences \ {l} :
            IF k = req[r].row
            THEN /\ licence[k] \in Licence /\ licence'[k] \in Licence
                 /\ licence'[k].owner = licence[k].owner
                 /\ licence[k].status # "UNUSED" /\ licence'[k].status = "EXPIRED"
            ELSE licence'[k] = licence[k]
    BY <1>6, <1>7, <1>10 DEF Begun
  <1>12. QED
    BY <1>1, <1>2, <1>4, <1>8, <1>9, <1>10, <1>11

(* What Upgrade has done: a licence without a limit.                       *)
LEMMA UpgradeStep ==
  ASSUME Typed, Known, NEW r \in Requests, Upgrade(r)
  PROVE  /\ At(r, "upgrade") /\ Proceed(r, "insert", {})
         /\ licence' \in [Licences -> Licence \cup {None}]
         /\ \A l \in Licences : \/ licence'[l] = licence[l]
                                \/ /\ licence[l] \in Licence /\ licence'[l] \in Licence
                                   /\ licence'[l].owner = licence[l].owner /\ licence'[l].status = licence[l].status
                                   /\ licence'[l].past = licence[l].past
         /\ UNCHANGED <<users, paid>>
  <1>1. At(r, "upgrade") /\ Proceed(r, "insert", {}) /\ UNCHANGED <<users, paid>>
    BY DEF Upgrade
  <1>2. req[r].row \in Licences /\ licence[req[r].row] \in Licence
    BY <1>1 DEF Known
  <1>3. licence' = [licence EXCEPT ![req[r].row].limit = -1]
    BY DEF Upgrade
  <1>4. licence'[req[r].row] = [licence[req[r].row] EXCEPT !.limit = -1]
    BY <1>2, <1>3 DEF Typed
  <1>5. /\ licence'[req[r].row] \in Licence
        /\ licence'[req[r].row].owner = licence[req[r].row].owner
        /\ licence'[req[r].row].status = licence[req[r].row].status
        /\ licence'[req[r].row].past = licence[req[r].row].past
    BY <1>2, <1>4 DEF Licence
  <1>6. \A l \in Licences \ {req[r].row} : licence'[l] = licence[l]
    BY <1>3 DEF Typed
  <1>7. DOMAIN licence' = Licences
    BY <1>3 DEF Typed
  <1>8. licence' \in [Licences -> Licence \cup {None}]
    <2>1. licence' = [l \in Licences |-> licence'[l]]
      BY <1>3, <1>7 DEF Typed
    <2>2. \A l \in Licences : licence'[l] \in Licence \cup {None}
      BY <1>5, <1>6 DEF Typed
    <2>3. QED
      BY <2>1, <2>2
  <1>9. QED
    BY <1>1, <1>2, <1>5, <1>6, <1>8

(* A licence comes to its end.                                             *)
LEMMA LicenceEndsStep ==
  ASSUME Typed, NEW l \in Licences, LicenceEnds(l)
  PROVE  /\ licence' \in [Licences -> Licence \cup {None}]
         /\ licence[l] \in Licence /\ licence'[l] \in Licence /\ licence'[l].past = TRUE
         /\ licence'[l].owner = licence[l].owner /\ licence'[l].status = licence[l].status
         /\ \A k \in Licences \ {l} : licence'[k] = licence[k]
         /\ UNCHANGED <<users, paid, req, started>>
  <1>1. licence[l] \in Licence
    BY DEF LicenceEnds, Typed
  <1>2. licence' = [licence EXCEPT ![l].past = TRUE]
    BY DEF LicenceEnds
  <1>3. licence'[l] = [licence[l] EXCEPT !.past = TRUE] /\ \A k \in Licences \ {l} : licence'[k] = licence[k]
    BY <1>2 DEF Typed
  <1>4. /\ licence'[l] \in Licence /\ licence'[l].past = TRUE
        /\ licence'[l].owner = licence[l].owner /\ licence'[l].status = licence[l].status
    BY <1>1, <1>3 DEF Licence
  <1>5. licence' = [k \in Licences |-> licence'[k]]
    BY <1>2 DEF Typed
  <1>6. \A k \in Licences : licence'[k] \in Licence \cup {None}
    BY <1>3, <1>4 DEF Typed
  <1>7. licence' \in [Licences -> Licence \cup {None}]
    BY <1>5, <1>6
  <1>8. UNCHANGED <<users, paid, req, started>>
    BY DEF LicenceEnds
  <1>9. QED
    BY <1>1, <1>3, <1>4, <1>7, <1>8

(* Tokens keep their owner and history; what is revoked stays revoked.     *)
TokensForward ==
    /\ tokens' \in Seq(Token) /\ Len(tokens) <= Len(tokens')
    /\ \A t \in 1..Len(tokens) :
          /\ tokens'[t].user = tokens[t].user /\ tokens'[t].parent = tokens[t].parent
          /\ tokens'[t].stored = tokens[t].stored
          /\ tokens[t].state = "revoked" => tokens'[t].state = "revoked"

(* A table with one more row.                                              *)
LEMMA RowAdded ==
  ASSUME NEW S, NEW s \in Seq(S), NEW x \in S
  PROVE  /\ Append(s, x) \in Seq(S) /\ Len(Append(s, x)) = Len(s) + 1
         /\ DOMAIN Append(s, x) = 1..Len(s) + 1 /\ DOMAIN s = 1..Len(s) /\ Len(s) \in Nat
         /\ Append(s, x)[Len(s) + 1] = x
         /\ \A i \in 1..Len(s) : Append(s, x)[i] = s[i]
  BY AppendProperties, LenProperties

(* What a request stores is a token of its user, under the password there  *)
(* is, and it holds no lock of a reset of that user.                       *)
Stores(r, parent) ==
    /\ TokensForward /\ Len(tokens') = Len(tokens) + 1 /\ End(r)
    /\ tokens'[Len(tokens) + 1].user = req[r].user
    /\ tokens'[Len(tokens) + 1].parent = parent
    /\ tokens'[Len(tokens) + 1].stored = password[req[r].user]
    /\ \A p \in Requests : p # r => ~UserLocked(p, req[r].user)
    /\ UNCHANGED <<password, resets>>

(* A login stores a token that has no parent.                              *)
LEMMA LoggedInStep ==
  ASSUME Typed, NEW r \in Requests, LoggedIn(r)
  PROVE  Stores(r, 0) /\ At(r, "login")
  <1>1. At(r, "login") /\ End(r) /\ Free(r) /\ UNCHANGED <<password, resets>>
    BY DEF LoggedIn
  <1>2. req[r].user \in Users /\ req[r] # None
    BY <1>1, RequestType DEF At
  <1>3. PICK x : x = [user |-> req[r].user, state |-> "active", parent |-> 0,
                      stored |-> password[req[r].user]]
    OBVIOUS
  <1>4. tokens \in Seq(Token) /\ Len(tokens) \in Nat /\ password[req[r].user] \in Nat
    BY <1>2 DEF Typed
  <1>5. /\ x \in Token /\ x.user = req[r].user /\ x.parent = 0 /\ x.stored = password[req[r].user]
    BY <1>2, <1>3, <1>4 DEF Token
  <1>6. tokens' = Append(tokens, x)
    BY <1>3 DEF LoggedIn, store_refresh_jti
  <1>7. /\ tokens' \in Seq(Token) /\ Len(tokens') = Len(tokens) + 1
        /\ tokens'[Len(tokens) + 1] = x
        /\ \A t \in 1..Len(tokens) : tokens'[t] = tokens[t]
    BY <1>4, <1>5, <1>6, RowAdded
  <1>8. TokensForward
    BY <1>4, <1>7 DEF TokensForward
  <1>9. \A p \in Requests : p # r => ~UserLocked(p, req[r].user)
    BY <1>1, <1>2 DEF Free, Waits, Referring, At
  <1>10. QED
    BY <1>1, <1>5, <1>7, <1>8, <1>9 DEF Stores

(* A rotation revokes what it has locked, and stores a successor.          *)
LEMMA RotatedStep ==
  ASSUME Typed, Rotations, NEW r \in Requests, Rotated(r)
  PROVE  /\ Stores(r, req[r].row) /\ At(r, "superseded") /\ req[r].row \in 1..Len(tokens)
         /\ tokens'[req[r].row].state = "revoked"
  <1>1. At(r, "superseded") /\ End(r) /\ Free(r) /\ UNCHANGED <<password, resets>>
    BY DEF Rotated
  <1>2. req[r].user \in Users /\ req[r] # None
    BY <1>1, RequestType DEF At
  <1>3. /\ tokens \in Seq(Token) /\ Len(tokens) \in Nat /\ DOMAIN tokens = 1..Len(tokens)
        /\ password[req[r].user] \in Nat
    BY <1>2 DEF Typed
  <1>4. PICK c : c = req[r].row
    OBVIOUS
  <1>5. c \in 1..Len(tokens) /\ (c \in req[r].seen \/ tokens[c].state = "revoked")
    BY <1>1, <1>3, <1>4 DEF Rotations
  <1>6. tokens[c] \in Token
    BY <1>3, <1>5
  <1>7. PICK x : x = [user |-> req[r].user, state |-> "active", parent |-> c,
                      stored |-> password[req[r].user]]
    OBVIOUS
  <1>8. c \in Nat
    BY <1>3, <1>5, <1>6 DEF Token
  <1>9. /\ x \in Token /\ x.user = req[r].user /\ x.parent = c /\ x.stored = password[req[r].user]
    BY <1>2, <1>3, <1>7, <1>8 DEF Token
  <1>10. PICK old : old = Revoked(req[r].seen)
    OBVIOUS
  <1>11. /\ old \in Seq(Token) /\ Len(old) = Len(tokens)
         /\ \A t \in 1..Len(tokens) :
               /\ old[t].user = tokens[t].user /\ old[t].parent = tokens[t].parent
               /\ old[t].stored = tokens[t].stored
               /\ old[t].state = IF t \in req[r].seen THEN "revoked" ELSE tokens[t].state
    BY <1>10, RevokedRows
  <1>12. tokens' = Append(old, x)
    BY <1>4, <1>7, <1>10 DEF Rotated, store_refresh_jti
  <1>13. /\ tokens' \in Seq(Token) /\ Len(tokens') = Len(tokens) + 1
         /\ tokens'[Len(tokens) + 1] = x
         /\ \A t \in 1..Len(tokens) : tokens'[t] = old[t]
    BY <1>9, <1>11, <1>12, RowAdded
  <1>14. TokensForward
    <2>1. \A t \in 1..Len(tokens) : tokens[t].state = "revoked" => tokens'[t].state = "revoked"
      BY <1>11, <1>13
    <2>2. \A t \in 1..Len(tokens) : /\ tokens'[t].user = tokens[t].user /\ tokens'[t].parent = tokens[t].parent
                                    /\ tokens'[t].stored = tokens[t].stored
      BY <1>11, <1>13
    <2>3. QED
      BY <1>3, <1>13, <2>1, <2>2 DEF TokensForward
  <1>15. tokens'[c].state = "revoked"
    BY <1>5, <1>11, <1>13
  <1>16. \A p \in Requests : p # r => ~UserLocked(p, req[r].user)
    BY <1>1, <1>2 DEF Free, Waits, Referring, At
  <1>17. QED
    BY <1>1, <1>4, <1>5, <1>9, <1>13, <1>14, <1>15, <1>16 DEF Stores

(* Revoking and expiring leave the table as long as it is.                 *)
LEMMA RevokeStep ==
  ASSUME Typed, NEW S, tokens' = Revoked(S)
  PROVE  /\ TokensForward /\ Len(tokens') = Len(tokens)
         /\ \A t \in 1..Len(tokens) : t \in S => tokens'[t].state = "revoked"
  <1>1. /\ tokens' \in Seq(Token) /\ Len(tokens') = Len(tokens)
        /\ \A t \in 1..Len(tokens) :
              /\ tokens'[t].user = tokens[t].user /\ tokens'[t].parent = tokens[t].parent
              /\ tokens'[t].stored = tokens[t].stored
              /\ tokens'[t].state = IF t \in S THEN "revoked" ELSE tokens[t].state
    BY RevokedRows
  <1>2. Len(tokens) \in Nat
    BY DEF Typed
  <1>3. \A t \in 1..Len(tokens) : tokens[t].state = "revoked" => tokens'[t].state = "revoked"
    BY <1>1
  <1>4. QED
    BY <1>1, <1>2, <1>3 DEF TokensForward

(* A token comes to its end.                                               *)
LEMMA TokenEndsStep ==
  ASSUME Typed, NEW t \in DOMAIN tokens, TokenEnds(t)
  PROVE  /\ TokensForward /\ Len(tokens') = Len(tokens)
         /\ \A j \in 1..Len(tokens) : tokens'[j].state = "revoked" => tokens[j].state = "revoked"
  <1>1. tokens \in Seq(Token) /\ Len(tokens) \in Nat /\ DOMAIN tokens = 1..Len(tokens)
    BY DEF Typed
  <1>2. tokens[t] \in Token
    BY <1>1
  <1>3. tokens' = [tokens EXCEPT ![t] = [tokens[t] EXCEPT !.state = "expired"]]
    BY DEF TokenEnds
  <1> DEFINE x == [tokens[t] EXCEPT !.state = "expired"]
  <1>4. /\ x \in Token /\ x.user = tokens[t].user /\ x.parent = tokens[t].parent /\ x.state = "expired"
        /\ x.stored = tokens[t].stored
    BY <1>2 DEF Token
  <1> HIDE DEF x
  <1>5. /\ tokens' \in Seq(Token) /\ Len(tokens') = Len(tokens)
        /\ \A j \in DOMAIN tokens : tokens'[j] = IF j = t THEN x ELSE tokens[j]
    BY <1>1, <1>3, <1>4, RowReplaced DEF x
  <1>6. tokens[t].state = "active"
    BY DEF TokenEnds
  <1>7. QED
    BY <1>1, <1>4, <1>5, <1>6 DEF TokensForward

(* A reset that is applied: the link is used, the sessions it covers end.  *)
LEMMA ApplyStep ==
  ASSUME Typed, Spending, NEW r \in Requests, apply_password_reset(r)
  PROVE  /\ At(r, "revoked") /\ End(r) /\ req[r].row \in DOMAIN resets /\ req[r].user \in Users
         /\ resets' \in Seq(Link) /\ Len(resets') = Len(resets)
         /\ resets'[req[r].row].user = req[r].user /\ resets'[req[r].row].state = "used"
         /\ \A k \in DOMAIN resets \ {req[r].row} : resets'[k] = resets[k]
         /\ password' \in [Users -> Nat] /\ password'[req[r].user] = password[req[r].user] + 1
         /\ \A u \in Users \ {req[r].user} : password'[u] = password[u]
         /\ tokens' = Revoked(req[r].seen)
  <1>1. At(r, "revoked") /\ End(r) /\ tokens' = Revoked(req[r].seen)
    BY DEF apply_password_reset
  <1>2. req[r].user \in Users
    BY <1>1, RequestType DEF At
  <1> DEFINE k == req[r].row
             x == [resets[k] EXCEPT !.state = "used"]
  <1>3. k \in DOMAIN resets /\ resets[k].user = req[r].user
    BY <1>1 DEF Spending, At, Consuming
  <1>4. resets[k] \in Link
    BY <1>3 DEF Typed
  <1>5. x \in Link /\ x.user = req[r].user /\ x.state = "used"
    BY <1>2, <1>3, <1>4 DEF Link
  <1>6. resets' = [resets EXCEPT ![k] = x]
    BY DEF apply_password_reset
  <1>7. resets \in Seq(Link)
    BY DEF Typed
  <1>8. password' = [password EXCEPT ![req[r].user] = @ + 1]
    BY DEF apply_password_reset
  <1>9. /\ password' \in [Users -> Nat] /\ password'[req[r].user] = password[req[r].user] + 1
        /\ \A u \in Users \ {req[r].user} : password'[u] = password[u]
    BY <1>2, <1>8 DEF Typed
  <1> HIDE DEF x, k
  <1>10. /\ resets' \in Seq(Link) /\ Len(resets') = Len(resets)
         /\ \A j \in DOMAIN resets : resets'[j] = IF j = k THEN x ELSE resets[j]
    BY <1>3, <1>5, <1>6, <1>7, RowReplaced
  <1>11. resets'[k] = x /\ \A j \in DOMAIN resets \ {k} : resets'[j] = resets[j]
    BY <1>3, <1>10
  <1>12. QED
    BY <1>1, <1>2, <1>3, <1>5, <1>9, <1>10, <1>11 DEF k

(* A link comes to its end.                                                *)
LEMMA LinkEndsStep ==
  ASSUME Typed, NEW k \in DOMAIN resets, LinkEnds(k)
  PROVE  /\ resets' \in Seq(Link) /\ Len(resets') = Len(resets)
         /\ resets'[k].user = resets[k].user /\ resets'[k].state = "expired" /\ resets[k].state = "open"
         /\ \A j \in DOMAIN resets \ {k} : resets'[j] = resets[j]
  <1> DEFINE x == [resets[k] EXCEPT !.state = "expired"]
  <1>1. resets \in Seq(Link) /\ resets[k] \in Link
    BY DEF Typed
  <1>2. x \in Link /\ x.user = resets[k].user /\ x.state = "expired"
    BY <1>1 DEF Link
  <1>3. resets' = [resets EXCEPT ![k] = x] /\ resets[k].state = "open"
    BY DEF LinkEnds
  <1> HIDE DEF x
  <1>4. /\ resets' \in Seq(Link) /\ Len(resets') = Len(resets)
        /\ \A j \in DOMAIN resets : resets'[j] = IF j = k THEN x ELSE resets[j]
    BY <1>1, <1>2, <1>3, RowReplaced
  <1>5. QED
    BY <1>2, <1>3, <1>4

(* A link is sent.                                                         *)
LEMMA ForgotStep ==
  ASSUME Typed, NEW u \in Users, forgot_password(u)
  PROVE  /\ resets' \in Seq(Link) /\ Len(resets') = Len(resets) + 1
         /\ resets'[Len(resets) + 1].state = "open"
         /\ \A k \in 1..Len(resets) : resets'[k] = resets[k]
  <1> DEFINE x == [user |-> u, state |-> "open"]
  <1>1. resets \in Seq(Link)
    BY DEF Typed
  <1>2. x \in Link /\ x.state = "open"
    BY DEF Link
  <1>3. resets' = Append(resets, x)
    BY DEF forgot_password
  <1> HIDE DEF x
  <1>4. QED
    BY <1>1, <1>2, <1>3, RowAdded

(* The statements of a request keep the types.                             *)
LEMMA StepTyped == ASSUME Typed, Licensing, Rotations, Spending, NEW r \in Requests, Step(r) PROVE Typed'
  <1> USE DEF rows
  <1>1. CASE activate_license_for_user(r)
    <2>1. req' \in [Requests -> Request \cup {None}] /\ started' = started
      <3>1. req[r] # None /\ Proceed(r, "registered", {})
        BY <1>1 DEF activate_license_for_user, At
      <3>2. "registered" \in Ops /\ {} \in SUBSET Nat
        BY DEF Ops
      <3>3. QED
        BY <3>1, <3>2, ProceedStep
    <2>2. QED
      BY <1>1, <2>1 DEF Typed, activate_license_for_user
  <1>2. CASE Refuse(r)
    BY <1>2, EndStep DEF Refuse, Typed
  <1>3. CASE Registered(r)
    <2>1. /\ licence' \in [Licences -> Licence \cup {None}] /\ users' = users \cup {req[r].user}
          /\ req[r].user \in Users /\ paid' \in [Users -> Serials \cup {None}] /\ End(r)
      BY <1>3, RegisteredStep DEF Licensing
    <2>2. req' \in [Requests -> Request \cup {None}] /\ started' = started
      BY <2>1, EndStep
    <2>3. QED
      BY <1>3, <2>1, <2>2 DEF Typed, Registered
  <1>4. CASE Provision(r)
    <2>1. licence' \in [Licences -> Licence \cup {None}] /\ At(r, "provision") /\ Proceed(r, "insert", {})
      BY <1>4, ProvisionStep DEF Licensing
    <2>2. req' \in [Requests -> Request \cup {None}] /\ started' = started
      <3>1. req[r] # None /\ "insert" \in Ops /\ {} \in SUBSET Nat
        BY <2>1 DEF At, Ops
      <3>2. QED
        BY <2>1, <3>1, ProceedStep
    <2>3. QED
      BY <1>4, <2>1, <2>2 DEF Typed, Provision
  <1>5. CASE Upgrade(r)
    <2>1. licence' \in [Licences -> Licence \cup {None}] /\ At(r, "upgrade") /\ Proceed(r, "insert", {})
      BY <1>5, UpgradeStep DEF Licensing
    <2>2. req' \in [Requests -> Request \cup {None}] /\ started' = started
      <3>1. req[r] # None /\ "insert" \in Ops /\ {} \in SUBSET Nat
        BY <2>1 DEF At, Ops
      <3>2. QED
        BY <2>1, <3>1, ProceedStep
    <2>3. QED
      BY <1>5, <2>1, <2>2 DEF Typed, Upgrade
  <1>6. CASE Insert(r)
    <2>1. req[r].user \in Users
      BY <1>6, RequestType DEF Insert, At
    <2>2. [owner |-> req[r].user, active |-> TRUE, trading |-> FALSE] \in Account
      BY <2>1 DEF Account
    <2>3. accounts' \in Seq(Account)
      BY <1>6, <2>2 DEF Insert, Typed
    <2>4. req' \in [Requests -> Request \cup {None}] /\ started' = started
      BY <1>6, EndStep DEF Insert
    <2>5. QED
      BY <1>6, <2>3, <2>4 DEF Typed, Insert
  <1>7. CASE Deleted(r)
    <2>1. accounts' \in Seq(Account)
      <3>1. CASE req[r].row \in DOMAIN accounts
        <4>1. accounts[req[r].row] \in Account
          BY <3>1 DEF Typed
        <4>2. [accounts[req[r].row] EXCEPT !.active = FALSE] \in Account
          BY <4>1 DEF Account
        <4>3. accounts' = [accounts EXCEPT ![req[r].row] = [accounts[req[r].row] EXCEPT !.active = FALSE]]
          BY <1>7 DEF Deleted
        <4>4. QED
          BY <3>1, <4>2, <4>3, RowReplaced DEF Typed
      <3>2. CASE req[r].row \notin DOMAIN accounts
        <4>1. accounts \in [1..Len(accounts) -> Account] /\ DOMAIN accounts = 1..Len(accounts)
          BY LenProperties DEF Typed
        <4>2. accounts' = accounts
          BY <1>7, <3>2, <4>1 DEF Deleted
        <4>3. QED
          BY <4>2 DEF Typed
      <3>3. QED
        BY <3>1, <3>2
    <2>2. req' \in [Requests -> Request \cup {None}] /\ started' = started
      BY <1>7, EndStep DEF Deleted
    <2>3. QED
      BY <1>7, <2>1, <2>2 DEF Typed, Deleted
  <1>8. CASE LoggedIn(r)
    <2>1. tokens' \in Seq(Token) /\ End(r)
      BY <1>8, LoggedInStep DEF Stores, TokensForward
    <2>2. req' \in [Requests -> Request \cup {None}] /\ started' = started
      BY <2>1, EndStep
    <2>3. QED
      BY <1>8, <2>1, <2>2 DEF Typed, LoggedIn
  <1>9. CASE Rotated(r)
    <2>1. tokens' \in Seq(Token) /\ End(r)
      BY <1>9, RotatedStep DEF Stores, TokensForward
    <2>2. req' \in [Requests -> Request \cup {None}] /\ started' = started
      BY <2>1, EndStep
    <2>3. QED
      BY <1>9, <2>1, <2>2 DEF Typed, Rotated
  <1>10. CASE revoke_all_user_refresh_tokens(r) \/ LockUser(r) \/ Supersede(r)
    <2>1. /\ Unrevoked(req[r].user) \in SUBSET Nat /\ revoke_refresh_jti(req[r].row) \in SUBSET Nat
          /\ {} \in SUBSET Nat
      BY DEF Unrevoked, revoke_refresh_jti, Typed
    <2>2. \E op \in Ops, seen \in SUBSET Nat : req[r] # None /\ Proceed(r, op, seen)
      BY <1>10, <2>1 DEF revoke_all_user_refresh_tokens, LockUser, Supersede, At, Ops
    <2>3. req' \in [Requests -> Request \cup {None}] /\ started' = started
      BY <2>2, ProceedStep
    <2>4. UNCHANGED <<rows, paid>>
      BY <1>10 DEF revoke_all_user_refresh_tokens, LockUser, Supersede
    <2>5. QED
      BY <2>3, <2>4 DEF Typed
  <1>11. CASE apply_password_reset(r)
    <2>1. /\ resets' \in Seq(Link) /\ password' \in [Users -> Nat] /\ End(r)
          /\ tokens' = Revoked(req[r].seen)
      BY <1>11, ApplyStep
    <2>2. tokens' \in Seq(Token)
      BY <2>1, RevokedRows
    <2>3. req' \in [Requests -> Request \cup {None}] /\ started' = started
      BY <2>1, EndStep
    <2>4. QED
      BY <1>11, <2>1, <2>2, <2>3 DEF Typed, apply_password_reset
  <1>12. CASE LoggedOut(r)
    <2>1. tokens' = Revoked(req[r].seen) /\ End(r)
      BY <1>12 DEF LoggedOut
    <2>2. tokens' \in Seq(Token)
      BY <2>1, RevokedRows
    <2>3. req' \in [Requests -> Request \cup {None}] /\ started' = started
      BY <2>1, EndStep
    <2>4. QED
      BY <1>12, <2>2, <2>3 DEF Typed, LoggedOut
  <1>13. QED
    BY <1>1, <1>2, <1>3, <1>4, <1>5, <1>6, <1>7, <1>8, <1>9, <1>10, <1>11, <1>12 DEF Step

(* So do requests of one statement, and time.                              *)
LEMMA OtherTyped == ASSUME Typed, Short \/ Time PROVE Typed'
  <1> USE DEF rows
  <1>1. ASSUME NEW u \in Users, me(u) PROVE Typed'
    <2>1. licence' = Expired(Over(u)) /\ \A l \in Over(u) : licence[l] \in Licence
      BY <1>1 DEF me, Over, Active, Typed
    <2>2. licence' \in [Licences -> Licence \cup {None}]
      BY <2>1, ExpiredRows
    <2>3. req' = req /\ started' \in 0..MaxRequests
      BY <1>1, SingleStep DEF me
    <2>4. QED
      BY <1>1, <2>2, <2>3 DEF Typed, me
  <1>2. ASSUME NEW u \in Users, forgot_password(u) PROVE Typed'
    <2>1. resets' \in Seq(Link)
      BY <1>2, ForgotStep
    <2>2. req' = req /\ started' \in 0..MaxRequests
      BY <1>2, SingleStep DEF forgot_password
    <2>3. QED
      BY <1>2, <2>1, <2>2 DEF Typed, forgot_password
  <1>3. ASSUME NEW a \in DOMAIN accounts, NEW x \in BOOLEAN, NEW y \in BOOLEAN, patch_account(a, x, y)
        PROVE  Typed'
    <2>1. accounts[a] \in Account
      BY DEF Typed
    <2>2. [accounts[a] EXCEPT !.active = x, !.trading = y] \in Account
      BY <2>1 DEF Account
    <2>3. accounts' = [accounts EXCEPT ![a] = [accounts[a] EXCEPT !.active = x, !.trading = y]]
      BY <1>3 DEF patch_account
    <2>4. accounts' \in Seq(Account)
      BY <2>2, <2>3, RowReplaced DEF Typed
    <2>5. req' = req /\ started' \in 0..MaxRequests
      BY <1>3, SingleStep DEF patch_account
    <2>6. QED
      BY <1>3, <2>4, <2>5 DEF Typed, patch_account
  <1>4. ASSUME NEW l \in Licences, LicenceEnds(l) PROVE Typed'
    <2>1. licence' \in [Licences -> Licence \cup {None}]
      BY <1>4, LicenceEndsStep
    <2>2. QED
      BY <1>4, <2>1 DEF Typed, LicenceEnds
  <1>5. ASSUME NEW t \in DOMAIN tokens, TokenEnds(t) PROVE Typed'
    <2>1. tokens' \in Seq(Token)
      BY <1>5, TokenEndsStep DEF TokensForward
    <2>2. QED
      BY <1>5, <2>1 DEF Typed, TokenEnds
  <1>6. ASSUME NEW k \in DOMAIN resets, LinkEnds(k) PROVE Typed'
    <2>1. resets' \in Seq(Link)
      BY <1>6, LinkEndsStep
    <2>2. QED
      BY <1>6, <2>1 DEF Typed, LinkEnds
  <1>7. QED
    BY <1>1, <1>2, <1>3, <1>4, <1>5, <1>6 DEF Short, Time

(* Every step keeps the types.                                             *)
LEMMA NextTyped == ASSUME Typed, Licensing, Rotations, Spending, [Next]_vars PROVE Typed'
  <1>1. ASSUME NEW r \in Requests, Rollback(r) PROVE Typed'
    <2>1. req' \in [Requests -> Request \cup {None}] /\ started' = started
      BY <1>1, EndStep DEF Rollback
    <2>2. QED
      BY <1>1, <2>1 DEF Typed, Rollback, rows
  <1>2. CASE UNCHANGED vars
    BY <1>2 DEF Typed, vars, rows
  <1>3. QED
    BY <1>1, <1>2, StartTyped, StepTyped, OtherTyped DEF Next

-----------------------------------------------------------------------------
(* Licences.                                                               *)

LicenceOps == {"register", "registered", "provision", "upgrade"}

(* What a request that is not about licences leaves alone.                 *)
LEMMA QuietLicensing ==
  ASSUME Typed, Licensing, UNCHANGED <<users, licence, paid>>, Quiet(LicenceOps)
  PROVE  Licensing'
  <1>1. ASSUME NEW r \in Requests, NEW op \in LicenceOps, At(r, op)' PROVE At(r, op) /\ req'[r] = req[r]
    BY <1>1 DEF Quiet, At
  <1>2. Sold'
    BY DEF Licensing, Sold
  <1>3. Holds'
    BY <1>1 DEF Licensing, Holds, LicenceOps
  <1>4. Exclusive'
    BY <1>1 DEF Licensing, Exclusive, LicenceOps
  <1>5. Known'
    BY <1>1 DEF Licensing, Known, Begun, LicenceOps
  <1>6. QED
    BY <1>2, <1>3, <1>4, <1>5 DEF Licensing

(* The steps that concern licences.                                        *)
Licenced ==
    \/ \E r \in Requests : activate_license_for_user(r) \/ Registered(r) \/ Provision(r) \/ Upgrade(r)
    \/ \E r \in Requests, u \in Users : create_account(r, u) \/ \E c \in Serials : register(r, u, c)
    \/ \E u \in Users : me(u)
    \/ \E l \in Licences : LicenceEnds(l)

(* No other step changes a licence, a user, or a request that holds one.   *)
LEMMA UnlicencedQuiet ==
  ASSUME Typed, [Next]_vars, ~Licenced
  PROVE  UNCHANGED <<users, licence, paid>> /\ Quiet(LicenceOps)
  <1> DEFINE Goal == UNCHANGED <<users, licence, paid>> /\ Quiet(LicenceOps)
  <1> USE DEF rows
  <1>1. ASSUME NEW r \in Requests, Start(r) PROVE Goal
    <2>1. \A x \in DOMAIN accounts \cup DOMAIN tokens \cup DOMAIN resets : x \in Row
      BY DEF Typed, Row
    <2>2. \A a \in DOMAIN accounts : accounts[a].owner \in Users
      <3>1. \A a \in DOMAIN accounts : accounts[a] \in Account
        BY DEF Typed
      <3>2. QED
        BY <3>1 DEF Account
    <2>3. \A t \in DOMAIN tokens : tokens[t].user \in Users
      <3>1. \A t \in DOMAIN tokens : tokens[t] \in Token
        BY DEF Typed
      <3>2. QED
        BY <3>1 DEF Token
    <2>4. \A k \in DOMAIN resets : resets[k].user \in Users
      <3>1. \A k \in DOMAIN resets : resets[k] \in Link
        BY DEF Typed
      <3>2. QED
        BY <3>1 DEF Link
    <2>5. None \in Row
      BY DEF Row
    <2>6. \E op \in {"login", "delete", "rotate", "logout", "consumed"}, u \in Users, row \in Row, seen \in SUBSET Nat :
             BeginWith(r, op, u, row, seen)
      <3>1. ASSUME NEW u \in Users, NEW c \in Serials, register(r, u, c) PROVE FALSE
        BY <3>1 DEF Licenced
      <3>2. ASSUME NEW u \in Users, login(r, u) PROVE Begin(r, "login", u, None) /\ None \in Row
        BY <3>2, <2>5 DEF login
      <3>3. ASSUME NEW a \in DOMAIN accounts, delete_account(r, a)
            PROVE  Begin(r, "delete", accounts[a].owner, a) /\ a \in Row /\ accounts[a].owner \in Users
        BY <3>3, <2>1, <2>2 DEF delete_account
      <3>4. ASSUME NEW t \in DOMAIN tokens, refresh_token(r, t)
            PROVE  Begin(r, "rotate", tokens[t].user, t) /\ t \in Row /\ tokens[t].user \in Users
        BY <3>4, <2>1, <2>3 DEF refresh_token
      <3>5. ASSUME NEW k \in DOMAIN resets, verify_and_consume_token(r, k)
            PROVE  Begin(r, "consumed", resets[k].user, k) /\ k \in Row /\ resets[k].user \in Users
        BY <3>5, <2>1, <2>4 DEF verify_and_consume_token
      <3>6. ASSUME NEW t \in DOMAIN tokens, NEW u \in Users, logout(r, u, t)
            PROVE  /\ BeginWith(r, "logout", u, t, revoke_refresh_jti(t)) /\ t \in Row
                   /\ revoke_refresh_jti(t) \in SUBSET Nat
        BY <3>6, <2>1 DEF logout, revoke_refresh_jti, Typed
      <3>7. {} \in SUBSET Nat
        OBVIOUS
      <3>8. QED
        BY <1>1, <3>1, <3>2, <3>3, <3>4, <3>5, <3>6, <3>7 DEF Start, Licenced, Begin
    <2>7. UNCHANGED <<users, licence, paid>>
      BY <1>1 DEF Start, register, create_account, login, delete_account, refresh_token, logout, verify_and_consume_token
    <2>8. Quiet(LicenceOps)
      <3>1. PICK op \in {"login", "delete", "rotate", "logout", "consumed"}, u \in Users, row \in Row, seen \in SUBSET Nat :
               BeginWith(r, op, u, row, seen)
        BY <2>6
      <3>2. op \in Ops /\ op \notin LicenceOps
        BY DEF Ops, LicenceOps
      <3>3. QED
        BY <3>1, <3>2, BeginWithStep
    <2>9. QED
      BY <2>7, <2>8
  <1>2. ASSUME NEW r \in Requests, Step(r) PROVE Goal
    <2>1. CASE \/ Refuse(r) \/ Insert(r) \/ Deleted(r) \/ LoggedIn(r) \/ Rotated(r) \/ LoggedOut(r)
               \/ apply_password_reset(r)
      <3>1. End(r) /\ UNCHANGED <<users, licence, paid>>
        BY <2>1 DEF Refuse, Insert, Deleted, LoggedIn, Rotated, LoggedOut, apply_password_reset
      <3>2. QED
        BY <3>1, EndStep
    <2>2. CASE revoke_all_user_refresh_tokens(r) \/ LockUser(r) \/ Supersede(r)
      <3>1. /\ Unrevoked(req[r].user) \in SUBSET Nat /\ revoke_refresh_jti(req[r].row) \in SUBSET Nat
            /\ {} \in SUBSET Nat
        BY DEF Unrevoked, revoke_refresh_jti, Typed
      <3>2. \E op \in {"revoked", "locked", "superseded"}, seen \in SUBSET Nat : req[r] # None /\ Proceed(r, op, seen)
        BY <2>2, <3>1 DEF revoke_all_user_refresh_tokens, LockUser, Supersede, At
      <3>3. \A op \in {"revoked", "locked", "superseded"} : op \in Ops /\ op \notin LicenceOps
        BY DEF Ops, LicenceOps
      <3>4. Quiet(LicenceOps)
        BY <3>2, <3>3, ProceedStep
      <3>5. UNCHANGED <<users, licence, paid>>
        BY <2>2 DEF revoke_all_user_refresh_tokens, LockUser, Supersede
      <3>6. QED
        BY <3>4, <3>5
    <2>3. QED
      BY <1>2, <2>1, <2>2 DEF Step, Licenced
  <1>3. ASSUME NEW r \in Requests, Rollback(r) PROVE Goal
    BY <1>3, EndStep DEF Rollback
  <1>4. CASE Short
    <2>1. Single /\ UNCHANGED <<users, licence, paid>>
      BY <1>4 DEF Short, Licenced, forgot_password, patch_account
    <2>2. QED
      BY <2>1, SingleStep
  <1>5. CASE Time
    <2>1. UNCHANGED <<users, licence, paid, req>>
      BY <1>5 DEF Time, Licenced, TokenEnds, LinkEnds
    <2>2. QED
      BY <2>1 DEF Quiet
  <1>6. CASE UNCHANGED vars
    BY <1>6 DEF vars, Quiet
  <1>7. QED
    BY <1>1, <1>2, <1>3, <1>4, <1>5, <1>6 DEF Next

(* Activating takes the locks: no other registration has this address or   *)
(* this code.                                                              *)
LEMMA ActivateLicensing ==
  ASSUME Typed, Licensing, NEW r \in Requests, activate_license_for_user(r)
  PROVE  Licensing'
  <1>1. /\ At(r, "register") /\ req[r].user \notin users /\ licence[req[r].row].status = "UNUSED"
        /\ \A q \in Requests \ {r} : At(q, "registered") => req[q].user # req[r].user /\ req[q].row # req[r].row
        /\ Proceed(r, "registered", {}) /\ UNCHANGED <<users, licence, paid>>
    BY DEF activate_license_for_user, Free, Waits, At, rows
  <1>2. req[r] # None /\ "registered" \in Ops /\ {} \in SUBSET Nat
    BY <1>1 DEF At, Ops
  <1>3. /\ req'[r].op = "registered" /\ req'[r].user = req[r].user /\ req'[r].row = req[r].row
        /\ \A q \in Requests \ {r} : req'[q] = req[q]
    BY <1>1, <1>2, ProceedStep
  <1>4. \A q \in Requests \ {r}, op \in Ops : At(q, op)' <=> At(q, op)
    BY <1>3 DEF At
  <1>5. \A op \in Ops : At(r, op)' => op = "registered"
    BY <1>3 DEF At
  <1>6. req[r].row \in Serials
    BY <1>1 DEF Licensing, Holds
  <1>7. Sold'
    BY <1>1 DEF Licensing, Sold
  <1>8. Holds'
    BY <1>1, <1>3, <1>4, <1>5, <1>6 DEF Licensing, Holds, Ops
  <1>9. Exclusive'
    BY <1>1, <1>3, <1>4, <1>5 DEF Licensing, Exclusive, Ops
  <1>10. Known'
    BY <1>1, <1>3, <1>4, <1>5 DEF Licensing, Known, Begun, Ops
  <1>11. QED
    BY <1>7, <1>8, <1>9, <1>10 DEF Licensing

(* A registration that ends uses the code it holds, and nobody else's.     *)
LEMMA RegisteredLicensing ==
  ASSUME Typed, Licensing, NEW r \in Requests, Registered(r)
  PROVE  Licensing'
  <1> DEFINE u == req[r].user
             c == req[r].row
  <1>1. /\ c \in Serials /\ c \in Licences /\ u \in Users
        /\ licence'[c] \in Licence /\ licence'[c].owner = u /\ licence'[c].status = "ACTIVE"
        /\ \A l \in Licences \ {c} : licence'[l] = licence[l]
        /\ users' = users \cup {u} /\ paid'[u] = c
        /\ \A v \in Users \ {u} : paid'[v] = paid[v]
        /\ At(r, "registered") /\ End(r)
    BY RegisteredStep DEF Licensing
  <1>2. req'[r] = None /\ \A q \in Requests \ {r} : req'[q] = req[q]
    BY <1>1, EndStep
  <1>3. \A op \in Ops : ~At(r, op)' /\ \A q \in Requests \ {r} : At(q, op)' <=> At(q, op)
    BY <1>2 DEF At
  <1>4. licence[c].status = "UNUSED" /\ u \notin users
    BY <1>1 DEF Licensing, Holds
  <1>5. users \subseteq Users
    BY DEF Typed
  <1> HIDE DEF u, c
  <1>6. Sold'
    <2>1. \A l \in Serials : licence'[l] \in Licence
      BY <1>1, LicencesOf DEF Licensing, Sold
    <2>2. \A v \in users : /\ paid[v] \in Serials /\ licence[paid[v]].owner = v
                           /\ licence[paid[v]].status # "UNUSED"
      BY DEF Licensing, Sold
    <2>3. \A v \in users : v # u /\ paid[v] # c /\ paid'[v] = paid[v] /\ licence'[paid[v]] = licence[paid[v]]
      BY <1>1, <1>4, <1>5, <2>2, LicencesOf
    <2>4. \A v \in users' : /\ paid'[v] \in Serials /\ licence'[paid'[v]].owner = v
                            /\ licence'[paid'[v]].status # "UNUSED"
      BY <1>1, <2>2, <2>3
    <2>5. QED
      BY <2>1, <2>4 DEF Sold
  <1>7. \A q \in Requests \ {r} : At(q, "registered") =>
            req[q].user # u /\ req[q].row # c /\ req[q].row \in Licences /\ licence'[req[q].row] = licence[req[q].row]
    BY <1>1, LicencesOf DEF Licensing, Exclusive, Holds, u, c
  <1>8. Holds'
    BY <1>1, <1>2, <1>3, <1>7 DEF Licensing, Holds, Ops
  <1>9. Exclusive'
    BY <1>2, <1>3 DEF Licensing, Exclusive, Ops
  <1>10. Known'
    <2>1. \A l \in Licences : licence'[l] # None /\ licence'[l].status = "ACTIVE" => licence'[l].owner \in users'
      BY <1>1 DEF Licensing, Known
    <2>2. \A l : Begun(l) => Begun(l)'
      BY <1>1 DEF Begun
    <2>3. \A q \in Requests : At(q, "provision")' => At(q, "provision") /\ req'[q] = req[q]
      BY <1>2, <1>3 DEF Ops
    <2>4. \A q \in Requests : At(q, "provision") => req[q].user \in users /\ (req[q].row = None \/ Begun(req[q].row))
      BY DEF Licensing, Known
    <2>5. \A q \in Requests : At(q, "provision")' => (req[q].user \in users /\ (req[q].row = None \/ Begun(req[q].row)))'
      BY <1>1, <2>2, <2>3, <2>4
    <2>6. \A q \in Requests : At(q, "upgrade")' => req'[q].row \in Licences /\ licence'[req'[q].row] \in Licence
      BY <1>1, <1>2, <1>3 DEF Licensing, Known, Ops
    <2>7. QED
      BY <2>1, <2>5, <2>6 DEF Known
  <1>11. QED
    BY <1>6, <1>8, <1>9, <1>10 DEF Licensing

(* What may happen to the rows of licences beside a registration.          *)
Gentle ==
    /\ UNCHANGED <<users, paid>>
    /\ \A l \in Licences :
          \/ licence'[l] = licence[l]
          \/ /\ licence[l] \in Licence /\ licence'[l] \in Licence
             /\ licence'[l].owner = licence[l].owner
             /\ licence[l].status = "UNUSED" <=> licence'[l].status = "UNUSED"
             /\ licence'[l].status = "ACTIVE" => licence[l].status = "ACTIVE"
          \/ /\ l \notin Serials /\ licence'[l] \in Licence
             /\ licence'[l].owner \in users /\ licence'[l].status # "UNUSED"

(* It disturbs no registration.                                            *)
LEMMA GentleLicensing ==
  ASSUME Typed, Licensing, Gentle,
         \A q \in Requests : req'[q] # None /\ req'[q].op \in {"registered", "upgrade"} =>
             \/ req'[q] = req[q]
             \/ req'[q].op = "upgrade" /\ req'[q].row \in Licences /\ licence'[req'[q].row] \in Licence,
         \A q \in Requests : At(q, "register")' => req'[q].row \in Serials,
         \A q \in Requests : At(q, "provision")' =>
             req'[q].user \in users /\ (req'[q].row = None \/ Begun(req'[q].row))
  PROVE  Licensing'
  <1>1. users' = users /\ paid' = paid
    BY DEF Gentle
  <1>2. \A l \in Serials : /\ licence'[l] \in Licence /\ licence'[l].owner = licence[l].owner
                           /\ licence[l].status = "UNUSED" <=> licence'[l].status = "UNUSED"
    BY LicencesOf DEF Gentle, Licensing, Sold
  <1>3. Sold'
    BY <1>1, <1>2 DEF Licensing, Sold
  <1>4. \A q \in Requests : At(q, "registered")' => At(q, "registered") /\ req'[q] = req[q]
    BY DEF At
  <1>5. Holds'
    BY <1>1, <1>2, <1>4 DEF Licensing, Holds
  <1>6. Exclusive'
    BY <1>4 DEF Licensing, Exclusive
  <1>7. \A l \in Licences : licence'[l] # None /\ licence'[l].status = "ACTIVE" => licence'[l].owner \in users
    BY LicenceAssumption DEF Gentle, Licensing, Known
  <1>8. \A l \in Licences : licence[l] \in Licence => licence'[l] \in Licence
    <2> SUFFICES ASSUME NEW l \in Licences, licence[l] \in Licence PROVE licence'[l] \in Licence
      OBVIOUS
    <2>1. licence'[l] = licence[l] \/ licence'[l] \in Licence
      BY DEF Gentle
    <2>2. QED
      BY <2>1
  <1>9. \A q \in Requests : At(q, "upgrade")' => req'[q].row \in Licences /\ licence'[req'[q].row] \in Licence
    <2> SUFFICES ASSUME NEW q \in Requests, At(q, "upgrade")'
                 PROVE  req'[q].row \in Licences /\ licence'[req'[q].row] \in Licence
      OBVIOUS
    <2>1. req'[q] = req[q] \/ (req'[q].row \in Licences /\ licence'[req'[q].row] \in Licence)
      BY DEF At
    <2>2. CASE req'[q] = req[q]
      <3>1. At(q, "upgrade")
        BY <2>2 DEF At
      <3>2. req[q].row \in Licences /\ licence[req[q].row] \in Licence
        BY <3>1 DEF Licensing, Known
      <3>3. QED
        BY <2>2, <3>2, <1>8
    <2>3. QED
      BY <2>1, <2>2
  <1>10. \A l : Begun(l) => Begun(l)'
    BY <1>8 DEF Gentle, Begun
  <1>11. \A q \in Requests : At(q, "provision")' => (req[q].user \in users /\ (req[q].row = None \/ Begun(req[q].row)))'
    BY <1>1, <1>10
  <1>12. Known'
    BY <1>1, <1>7, <1>9, <1>11 DEF Known
  <1>13. QED
    BY <1>3, <1>5, <1>6, <1>12 DEF Licensing

(* A request about licences that begins.                                   *)
LEMMA BeginLicensing ==
  ASSUME Typed, Licensing, NEW r \in Requests, NEW op \in {"register", "provision", "upgrade", "insert"},
         NEW u \in Users, NEW row \in Row, Begin(r, op, u, row), UNCHANGED <<users, licence, paid>>,
         op = "register" => row \in Serials, op = "provision" => u \in users /\ (row = None \/ Begun(row)),
         op = "upgrade" => row \in Licences /\ licence[row] \in Licence
  PROVE  Licensing'
  <1>1. op \in Ops
    BY DEF Ops
  <1>2. /\ req'[r] = [op |-> op, user |-> u, row |-> row, seen |-> {}]
        /\ \A q \in Requests \ {r} : req'[q] = req[q]
    BY <1>1, BeginStep
  <1>3. req'[r].op = op /\ req'[r].user = u /\ req'[r].row = row
    BY <1>2
  <1>4. Gentle
    BY DEF Gentle
  <1>5. \A q \in Requests : req'[q] # None /\ req'[q].op \in {"registered", "upgrade"} =>
            \/ req'[q] = req[q]
            \/ req'[q].op = "upgrade" /\ req'[q].row \in Licences /\ licence'[req'[q].row] \in Licence
    BY <1>2, <1>3
  <1>6. \A q \in Requests : At(q, "register")' => req'[q].row \in Serials
    BY <1>2, <1>3 DEF Licensing, Holds, At
  <1>7. \A q \in Requests : At(q, "provision")' =>
           req'[q].user \in users /\ (req'[q].row = None \/ Begun(req'[q].row))
    BY <1>2, <1>3 DEF Licensing, Known, At
  <1>8. QED
    BY <1>4, <1>5, <1>6, <1>7, GentleLicensing

(* A step that leaves the requests, or sends one on to its insert.         *)
LEMMA InsertLicensing ==
  ASSUME Typed, Licensing, Gentle,
         req' = req \/ \E r \in Requests : (At(r, "provision") \/ At(r, "upgrade")) /\ Proceed(r, "insert", {})
  PROVE  Licensing'
  <1>1. \A q \in Requests : req'[q] # None /\ req'[q].op # "insert" => req'[q] = req[q]
    <2>1. CASE req' = req
      BY <2>1
    <2>2. ASSUME NEW r \in Requests, req[r] # None, Proceed(r, "insert", {})
          PROVE  \A q \in Requests : req'[q] # None /\ req'[q].op # "insert" => req'[q] = req[q]
      <3>1. "insert" \in Ops /\ {} \in SUBSET Nat
        BY DEF Ops
      <3>2. req'[r].op = "insert" /\ \A q \in Requests \ {r} : req'[q] = req[q]
        BY <2>2, <3>1, ProceedStep
      <3>3. QED
        BY <3>2
    <2>3. QED
      BY <2>1, <2>2 DEF At
  <1>2. \A q \in Requests : req'[q] # None /\ req'[q].op \in {"registered", "upgrade"} => req'[q] = req[q]
    BY <1>1
  <1>3. \A q \in Requests : At(q, "register")' => req'[q].row \in Serials
    BY <1>1 DEF Licensing, Holds, At
  <1>4. \A q \in Requests : At(q, "provision")' =>
           req'[q].user \in users /\ (req'[q].row = None \/ Begun(req'[q].row))
    BY <1>1 DEF Licensing, Known, At
  <1>5. QED
    BY <1>2, <1>3, <1>4, GentleLicensing

(* What me expires is the user's, and is not unused.                       *)
LEMMA MeStep ==
  ASSUME Typed, NEW u \in Users, me(u)
  PROVE  /\ \A l \in Licences :
              \/ licence'[l] = licence[l]
              \/ /\ licence[l] \in Licence /\ licence'[l] \in Licence
                 /\ licence'[l].owner = licence[l].owner
                 /\ licence[l].status = "ACTIVE" /\ licence'[l].status = "EXPIRED"
         /\ UNCHANGED <<users, paid, req>>
  <1>1. licence' = Expired(Over(u)) /\ UNCHANGED <<users, paid>>
    BY DEF me
  <1>2. \A l \in Over(u) : l \in Licences /\ licence[l] \in Licence /\ licence[l].status = "ACTIVE"
    BY DEF Over, Active, Typed
  <1>3. req' = req
    BY SingleStep DEF me
  <1>4. QED
    BY <1>1, <1>2, <1>3, ExpiredRows

(* What a request for an account begins with.                              *)
LEMMA CreateStep ==
  ASSUME Typed, NEW r \in Requests, NEW u \in Users, create_account(r, u)
  PROVE  /\ u \in users /\ UNCHANGED <<rows, paid>>
         /\ \/ \E l \in get_user_active_license(u), op \in {"upgrade", "insert"} :
                 Begin(r, op, u, l) /\ l \in Row /\ l \in Licences /\ licence[l] \in Licence
            \/ \E l \in Row : /\ Begin(r, "provision", u, l)
                              /\ l = None \/ Begun(l)
                              /\ Active(u) \subseteq Over(u)
                              /\ Over(u) = {} \/ l \in Over(u)
                              /\ Cardinality(Active(u)) <= 1
  <1>1. \A l \in Active(u) : l \in Row /\ l \in Licences /\ licence[l] \in Licence /\ Begun(l)
    BY DEF Active, Row, Typed, Begun
  <1>2. get_user_active_license(u) \subseteq Active(u) /\ Over(u) \subseteq Active(u)
    BY DEF get_user_active_license, Over
  <1>3. u \in users /\ UNCHANGED <<rows, paid>> /\ Cardinality(Active(u)) <= 1
    BY DEF create_account
  <1>4. CASE \E l \in get_user_active_license(u) : Begin(r, "upgrade", u, l) \/ Begin(r, "insert", u, l)
    BY <1>1, <1>2, <1>3, <1>4
  <1>5. CASE /\ get_user_active_license(u) = {}
             /\ \E l \in IF Over(u) = {} THEN {None} ELSE Over(u) : Begin(r, "provision", u, l)
    <2>1. Active(u) \subseteq Over(u)
      BY <1>5 DEF get_user_active_license
    <2>2. None \in Row
      BY DEF Row
    <2>3. QED
      BY <1>1, <1>2, <1>3, <1>5, <2>1, <2>2
  <1>6. QED
    BY <1>4, <1>5 DEF create_account

(* The licensing invariant is inductive.                                   *)
LEMMA NextLicensing == ASSUME Typed, Licensing, [Next]_vars PROVE Licensing'
  <1> USE DEF rows
  <1>1. ASSUME NEW r \in Requests, activate_license_for_user(r) PROVE Licensing'
    BY <1>1, ActivateLicensing
  <1>2. ASSUME NEW r \in Requests, Registered(r) PROVE Licensing'
    BY <1>2, RegisteredLicensing
  <1>3. ASSUME NEW r \in Requests, Provision(r) PROVE Licensing'
    <2>1. /\ At(r, "provision") /\ req[r].user \in Users /\ Proceed(r, "insert", {}) /\ UNCHANGED <<users, paid>>
      BY <1>3, ProvisionStep DEF Licensing
    <2>2. PICK l \in 1..MaxRequests :
               /\ l \in Licences /\ l \notin Serials
               /\ licence'[l] = Activated(req[r].user, -1)
               /\ \A k \in Licences \ {l} :
                     IF k = req[r].row
                     THEN /\ licence[k] \in Licence /\ licence'[k] \in Licence
                          /\ licence'[k].owner = licence[k].owner
                          /\ licence[k].status # "UNUSED" /\ licence'[k].status = "EXPIRED"
                     ELSE licence'[k] = licence[k]
      BY <1>3, ProvisionStep DEF Licensing
    <2>3. req[r].user \in users
      BY <2>1 DEF Licensing, Known
    <2>4. licence'[l] \in Licence /\ licence'[l].owner \in users /\ licence'[l].status # "UNUSED"
      BY <2>1, <2>2, <2>3, ActivatedType DEF Activated
    <2>5. Gentle
      BY <2>1, <2>2, <2>4 DEF Gentle
    <2>6. QED
      BY <2>1, <2>5, InsertLicensing
  <1>4. ASSUME NEW r \in Requests, Upgrade(r) PROVE Licensing'
    <2>1. Gentle /\ At(r, "upgrade") /\ Proceed(r, "insert", {})
      BY <1>4, UpgradeStep DEF Gentle, Licensing
    <2>2. QED
      BY <2>1, InsertLicensing
  <1>5. ASSUME NEW r \in Requests, NEW u \in Users, create_account(r, u) PROVE Licensing'
    <2>1. u \in users /\ UNCHANGED <<users, licence, paid>>
      BY <1>5, CreateStep
    <2>2. CASE \E l \in get_user_active_license(u), op \in {"upgrade", "insert"} :
                  Begin(r, op, u, l) /\ l \in Row /\ l \in Licences /\ licence[l] \in Licence
      BY <2>1, <2>2, BeginLicensing
    <2>3. CASE \E l \in Row : Begin(r, "provision", u, l) /\ (l = None \/ Begun(l))
      BY <2>1, <2>3, BeginLicensing
    <2>4. QED
      BY <1>5, <2>2, <2>3, CreateStep
  <1>6. ASSUME NEW r \in Requests, NEW u \in Users, NEW c \in Serials, register(r, u, c) PROVE Licensing'
    <2>1. Begin(r, "register", u, c) /\ UNCHANGED <<users, licence, paid>>
      BY <1>6 DEF register
    <2>2. c \in Row
      BY LicencesOf DEF Row
    <2>3. QED
      BY <2>1, <2>2, BeginLicensing
  <1>7. ASSUME NEW u \in Users, me(u) PROVE Licensing'
    <2>1. Gentle /\ req' = req
      BY <1>7, MeStep DEF Gentle
    <2>2. QED
      BY <2>1, InsertLicensing
  <1>8. ASSUME NEW l \in Licences, LicenceEnds(l) PROVE Licensing'
    <2>1. Gentle /\ req' = req
      BY <1>8, LicenceEndsStep DEF Gentle
    <2>2. QED
      BY <2>1, InsertLicensing
  <1>9. CASE ~Licenced
    BY <1>9, UnlicencedQuiet, QuietLicensing
  <1>10. QED
    BY <1>1, <1>2, <1>3, <1>4, <1>5, <1>6, <1>7, <1>8, <1>9 DEF Licenced

(* The first state is licensed: each early user with a code of its own.    *)
LEMMA InitLicensing == Init => Licensing
  <1> SUFFICES ASSUME Init PROVE Licensing
    OBVIOUS
  <1>1. PICK code \in [Early -> Serials] :
           /\ \A u, v \in Early : code[u] = code[v] => u = v
           /\ paid = [u \in Users |-> IF u \in Early THEN code[u] ELSE None]
    BY DEF Init
  <1>2. \A u \in Early : u \in Users /\ paid[u] = code[u] /\ paid[u] \in Serials
    BY <1>1, IdentityAssumption
  <1>3. ASSUME NEW l \in Serials, NEW u \in Early, paid[u] = l
        PROVE  licence[l] = Activated(u, 1)
    <2>1. (CHOOSE v \in Early : paid[v] = l) = u
      BY <1>1, <1>2, <1>3
    <2>2. licence[l] = Activated(CHOOSE v \in Early : paid[v] = l, 1)
      BY <1>3, LicencesOf DEF Init
    <2>3. QED
      BY <2>1, <2>2
  <1>4. ASSUME NEW l \in Serials, ~\E u \in Early : paid[u] = l
        PROVE  licence[l] = [owner |-> None, status |-> "UNUSED", past |-> FALSE, limit |-> 1]
    BY <1>4, LicencesOf DEF Init
  <1>5. \A l \in Licences : l \notin Serials => licence[l] = None
    BY DEF Init
  <1>6. Sold
    <2>1. ASSUME NEW l \in Serials PROVE licence[l] \in Licence
      <3>1. CASE \E u \in Early : paid[u] = l
        <4>1. PICK u \in Early : paid[u] = l
          BY <3>1
        <4>2. licence[l] = Activated(u, 1) /\ u \in Users /\ 1 \in Int
          BY <1>2, <1>3, <4>1
        <4>3. QED
          BY <4>2, ActivatedType
      <3>2. CASE ~\E u \in Early : paid[u] = l
        <4>1. licence[l] = [owner |-> None, status |-> "UNUSED", past |-> FALSE, limit |-> 1]
          BY <1>4, <3>2
        <4>2. QED
          BY <4>1 DEF Licence
      <3>3. QED
        BY <3>1, <3>2
    <2>2. ASSUME NEW u \in users
          PROVE  paid[u] \in Serials /\ licence[paid[u]].owner = u /\ licence[paid[u]].status # "UNUSED"
      <3>1. u \in Early
        BY DEF Init
      <3>2. paid[u] \in Serials /\ licence[paid[u]] = Activated(u, 1)
        BY <1>2, <1>3, <3>1
      <3>3. QED
        BY <3>2 DEF Activated
    <2>3. QED
      BY <2>1, <2>2 DEF Sold
  <1>7. \A r \in Requests, op \in Ops : ~At(r, op)
    BY DEF Init, At
  <1>8. Holds /\ Exclusive
    BY <1>7 DEF Holds, Exclusive, Ops
  <1>9. ASSUME NEW l \in Licences, licence[l] # None, licence[l].status = "ACTIVE" PROVE licence[l].owner \in users
    <2>1. l \in Serials
      BY <1>5, <1>9
    <2>2. CASE \E u \in Early : paid[u] = l
      BY <1>2, <1>3, <2>1, <2>2 DEF Activated, Init
    <2>3. CASE ~\E u \in Early : paid[u] = l
      BY <1>4, <1>9, <2>1, <2>3
    <2>4. QED
      BY <2>2, <2>3
  <1>10. Known
    BY <1>7, <1>9 DEF Known, Ops
  <1>11. QED
    BY <1>6, <1>8, <1>10 DEF Licensing

-----------------------------------------------------------------------------
(* The requests under way, step by step.                                   *)

(* What begins a request.                                                  *)
LEMMA StartBegins ==
  ASSUME Typed, NEW r \in Requests, Start(r)
  PROVE  /\ UNCHANGED <<rows, paid>>
         /\ \/ \E k \in DOMAIN resets : verify_and_consume_token(r, k)
            \/ \E t \in DOMAIN tokens : refresh_token(r, t)
            \/ \E op \in {"register", "provision", "upgrade", "insert", "login", "delete", "logout"},
                  u \in Users, row \in Row, seen \in SUBSET Nat : BeginWith(r, op, u, row, seen)
  <1> DEFINE Others == {"register", "provision", "upgrade", "insert", "login", "delete", "logout"}
             Goal   == /\ UNCHANGED <<rows, paid>>
                       /\ \E op \in Others, u \in Users, row \in Row, seen \in SUBSET Nat : BeginWith(r, op, u, row, seen)
  <1>1. None \in Row /\ {} \in SUBSET Nat /\ \A x \in DOMAIN accounts \cup DOMAIN tokens : x \in Row
    BY DEF Typed, Row
  <1>2. ASSUME NEW op \in Others, NEW u \in Users, NEW row \in Row, Begin(r, op, u, row), UNCHANGED <<rows, paid>>
        PROVE  Goal
    BY <1>1, <1>2 DEF Begin
  <1>3. ASSUME NEW u \in Users, NEW c \in Serials, register(r, u, c) PROVE Goal
    <2>1. c \in Row
      BY LicencesOf DEF Row
    <2>2. QED
      BY <1>2, <1>3, <2>1 DEF register
  <1>4. ASSUME NEW u \in Users, create_account(r, u) PROVE Goal
    BY <1>2, <1>4, CreateStep
  <1>5. ASSUME NEW u \in Users, login(r, u) PROVE Goal
    BY <1>1, <1>2, <1>5 DEF login
  <1>6. ASSUME NEW a \in DOMAIN accounts, delete_account(r, a) PROVE Goal
    <2>1. accounts[a] \in Account
      BY DEF Typed
    <2>2. accounts[a].owner \in Users
      BY <2>1 DEF Account
    <2>3. QED
      BY <1>1, <1>2, <1>6, <2>2 DEF delete_account
  <1>7. ASSUME NEW t \in DOMAIN tokens, NEW u \in Users, logout(r, u, t) PROVE Goal
    <2>1. revoke_refresh_jti(t) \in SUBSET Nat
      BY DEF revoke_refresh_jti, Typed
    <2>2. BeginWith(r, "logout", u, t, revoke_refresh_jti(t)) /\ UNCHANGED <<rows, paid>>
      BY <1>7 DEF logout
    <2>3. "logout" \in Others
      OBVIOUS
    <2>4. QED
      BY <1>1, <2>1, <2>2, <2>3
  <1>8. ASSUME NEW t \in DOMAIN tokens, refresh_token(r, t) PROVE UNCHANGED <<rows, paid>>
    BY <1>8 DEF refresh_token
  <1>9. ASSUME NEW k \in DOMAIN resets, verify_and_consume_token(r, k) PROVE UNCHANGED <<rows, paid>>
    BY <1>9 DEF verify_and_consume_token
  <1>10. QED
    BY <1>3, <1>4, <1>5, <1>6, <1>7, <1>8, <1>9 DEF Start

(* A step is one request's.                                                *)
LEMMA OneActs ==
  ASSUME Typed, [Next]_vars
  PROVE  \E r \in Requests : \A q \in Requests \ {r} : req'[q] = req[q]
  <1>1. ASSUME NEW r \in Requests, Start(r) PROVE \A q \in Requests \ {r} : req'[q] = req[q]
    BY <1>1, StartBegins DEF BeginWith, Begin, refresh_token, verify_and_consume_token, Typed
  <1>2. ASSUME NEW r \in Requests, Step(r) PROVE \A q \in Requests \ {r} : req'[q] = req[q]
    <2>1. End(r) \/ \E op, seen : Proceed(r, op, seen)
      BY <1>2 DEF Step, activate_license_for_user, Refuse, Registered, Provision, Upgrade, Insert, Deleted,
                  LoggedIn, Supersede, Rotated, LoggedOut, LockUser, revoke_all_user_refresh_tokens, apply_password_reset
    <2>2. QED
      BY <2>1 DEF End, Proceed, Typed
  <1>3. ASSUME NEW r \in Requests, Rollback(r) PROVE \A q \in Requests \ {r} : req'[q] = req[q]
    BY <1>3 DEF Rollback, End, Typed
  <1>4. CASE Short \/ Time \/ UNCHANGED vars
    <2>1. req' = req
      BY <1>4 DEF Short, Time, me, forgot_password, patch_account, Single, LicenceEnds, TokenEnds, LinkEnds, vars
    <2>2. QED
      BY <2>1, IdentityAssumption
  <1>5. QED
    BY <1>1, <1>2, <1>3, <1>4 DEF Next

-----------------------------------------------------------------------------
(* The number of licences.                                                 *)

(* The slots of one user.                                                  *)
SlotsOf(u) ==
    /\ IsFiniteSet(Active(u))
    /\ Cardinality(Spare(u)) + Cardinality(Pending(u)) <= Cardinality(Requests)

(* What is counted is finite.                                              *)
LEMMA Counts ==
  ASSUME NEW u \in Users, IsFiniteSet(Active(u))
  PROVE  /\ IsFiniteSet(Spare(u)) /\ IsFiniteSet(Pending(u))
         /\ Cardinality(Spare(u)) \in Nat /\ Cardinality(Pending(u)) \in Nat /\ Cardinality(Requests) \in Nat
         /\ Cardinality(Pending(u)) <= Cardinality(Requests) /\ Cardinality(Requests) >= 1
  <1>1. IsFiniteSet(Requests) /\ Requests # {}
    BY IdentityAssumption
  <1>2. Spare(u) \in SUBSET Active(u) /\ Pending(u) \in SUBSET Requests
    BY DEF Spare, Pending
  <1>3. /\ IsFiniteSet(Spare(u)) /\ IsFiniteSet(Pending(u))
        /\ Cardinality(Pending(u)) <= Cardinality(Requests)
    BY <1>1, <1>2, FS_Subset
  <1>4. Cardinality(Requests) # 0
    BY <1>1, FS_EmptySet
  <1>5. QED
    BY <1>1, <1>3, <1>4, FS_CardinalityType

(* Two sets that do not grow.                                              *)
LEMMA Shrink ==
  ASSUME NEW S, NEW P, NEW T, NEW Q, NEW n \in Nat, IsFiniteSet(S), IsFiniteSet(P),
         T \subseteq S, Q \subseteq P, Cardinality(S) + Cardinality(P) <= n
  PROVE  Cardinality(T) + Cardinality(Q) <= n
  <1>1. T \in SUBSET S /\ Q \in SUBSET P
    OBVIOUS
  <1>2. /\ IsFiniteSet(T) /\ Cardinality(T) <= Cardinality(S)
        /\ IsFiniteSet(Q) /\ Cardinality(Q) <= Cardinality(P)
    BY <1>1, FS_Subset
  <1>3. /\ Cardinality(S) \in Nat /\ Cardinality(P) \in Nat
        /\ Cardinality(T) \in Nat /\ Cardinality(Q) \in Nat
    BY <1>2, FS_CardinalityType
  <1>4. QED
    BY <1>2, <1>3

(* An element moves from one to the other, under another name.             *)
LEMMA Shift ==
  ASSUME NEW S, NEW P, NEW x, NEW r \in P, NEW n \in Nat, IsFiniteSet(S), IsFiniteSet(P),
         Cardinality(S) + Cardinality(P) <= n
  PROVE  /\ IsFiniteSet(S \cup {x}) /\ IsFiniteSet(P \ {r})
         /\ Cardinality(S \cup {x}) + Cardinality(P \ {r}) <= n
  <1>1. IsFiniteSet(S \cup {x}) /\ Cardinality(S \cup {x}) <= Cardinality(S) + 1
    <2>1. Cardinality(S) \in Nat
      BY FS_CardinalityType
    <2>2. /\ IsFiniteSet(S \cup {x})
          /\ Cardinality(S \cup {x}) = IF x \in S THEN Cardinality(S) ELSE Cardinality(S) + 1
      BY FS_AddElement
    <2>3. QED
      BY <2>1, <2>2
  <1>2. IsFiniteSet(P \ {r}) /\ Cardinality(P \ {r}) = Cardinality(P) - 1
    BY FS_RemoveElement
  <1>3. /\ Cardinality(S) \in Nat /\ Cardinality(P) \in Nat
        /\ Cardinality(S \cup {x}) \in Nat /\ Cardinality(P \ {r}) \in Nat
    BY <1>1, <1>2, FS_CardinalityType
  <1>4. QED
    BY <1>1, <1>2, <1>3

(* Nothing is added for this user: a request that gives up its grant       *)
(* spares one licence at most.                                             *)
LEMMA SlotsKept ==
  ASSUME NEW u \in Users, SlotsOf(u), NEW r \in Requests, \A q \in Requests \ {r} : req'[q] = req[q],
         r \notin Pending(u)' \/ req'[r] = req[r], Active(u)' \subseteq Active(u)
  PROVE  SlotsOf(u)'
  <1>1. PICK S, P, T, Q, A, B : /\ S = Spare(u) /\ P = Pending(u) /\ T = Spare(u)' /\ Q = Pending(u)'
                                /\ A = Active(u) /\ B = Active(u)'
    OBVIOUS
  <1>2. /\ IsFiniteSet(S) /\ IsFiniteSet(P) /\ IsFiniteSet(A) /\ Cardinality(Requests) \in Nat
        /\ Cardinality(S) + Cardinality(P) <= Cardinality(Requests)
    BY <1>1, Counts DEF SlotsOf
  <1>3. IsFiniteSet(B)
    <2>1. B \in SUBSET A
      BY <1>1
    <2>2. QED
      BY <1>2, <2>1, FS_Subset
  <1>4. \A q \in Requests \ {r} : q \in Q <=> q \in P
    BY <1>1 DEF Pending, At
  <1>5. Q \subseteq Requests /\ P \subseteq Requests
    BY <1>1 DEF Pending
  <1>6. \A l : l \in T <=> l \in B /\ ~\E q \in Q : l = req'[q].row
    BY <1>1 DEF Spare, Doomed
  <1>7. \A l : l \in S <=> l \in A /\ ~\E q \in P : l = req[q].row
    BY <1>1 DEF Spare, Doomed
  <1>8. B \subseteq A
    BY <1>1
  <1>9. Cardinality(T) + Cardinality(Q) <= Cardinality(Requests)
    <2>1. CASE r \in P /\ r \notin Q
      <3>1. PICK x : x = req[r].row
        OBVIOUS
      <3>2. Q \subseteq P \ {r}
        BY <1>4, <1>5, <2>1
      <3>3. ASSUME NEW l \in T, l # x PROVE l \in S
        <4>1. \A q \in P : l # req[q].row
          BY <1>4, <1>5, <1>6, <3>1, <3>3
        <4>2. QED
          BY <1>6, <1>7, <1>8, <4>1
      <3>4. T \subseteq S \cup {x}
        BY <3>3
      <3>5. PICK n \in Nat : n = Cardinality(Requests)
        BY <1>2
      <3>6. Cardinality(S) + Cardinality(P) <= n
        BY <1>2, <3>5
      <3>7. PICK V, W : V = S \cup {x} /\ W = P \ {r}
        OBVIOUS
      <3>8. IsFiniteSet(V) /\ IsFiniteSet(W) /\ Cardinality(V) + Cardinality(W) <= n
        BY <1>2, <2>1, <3>6, <3>7, Shift
      <3>9. T \subseteq V /\ Q \subseteq W
        BY <3>2, <3>4, <3>7
      <3>10. Cardinality(T) + Cardinality(Q) <= n
        BY <3>8, <3>9, Shrink
      <3>11. QED
        BY <3>5, <3>10
    <2>2. CASE ~(r \in P /\ r \notin Q)
      <3>1. Q = P /\ \A q \in P : req'[q] = req[q]
        <4>1. r \in Q => req'[r] = req[r]
          BY <1>1
        <4>2. r \in Q <=> r \in P
          BY <1>1, <2>2, <4>1 DEF Pending, At
        <4>3. QED
          BY <1>4, <1>5, <4>1, <4>2
      <3>2. T \subseteq S
        BY <1>6, <1>7, <1>8, <3>1
      <3>3. QED
        BY <1>2, <3>1, <3>2, Shrink
    <2>3. QED
      BY <2>1, <2>2
  <1>10. QED
    BY <1>1, <1>3, <1>9 DEF SlotsOf

(* A step that adds no licence and begins no grant.                        *)
LEMMA QuietSlots ==
  ASSUME Typed, Slots, [Next]_vars, Quiet({"provision"}), \A u \in Users : Active(u)' \subseteq Active(u)
  PROVE  Slots'
  <1> SUFFICES ASSUME NEW u \in Users PROVE SlotsOf(u)'
    BY DEF Slots, SlotsOf
  <1>1. SlotsOf(u) /\ Active(u)' \subseteq Active(u)
    BY DEF Slots, SlotsOf
  <1>2. PICK r \in Requests : \A q \in Requests \ {r} : req'[q] = req[q]
    BY OneActs
  <1>3. r \notin Pending(u)' \/ req'[r] = req[r]
    BY DEF Quiet, Pending, At
  <1>4. QED
    BY <1>1, <1>2, <1>3, SlotsKept

(* Rows that keep their owner and do not become ACTIVE add nothing.        *)
LEMMA RowsKept ==
  ASSUME NEW u \in Users,
         \A l \in Licences :
            \/ licence'[l] = licence[l]
            \/ /\ licence[l] # None /\ licence'[l].owner = licence[l].owner
               /\ licence'[l].status = "ACTIVE" => licence[l].status = "ACTIVE"
            \/ licence'[l].owner # u
  PROVE  Active(u)' \subseteq Active(u)
  BY DEF Active

(* A registration: the first licence of its user, who asked for no other.  *)
LEMMA RegisteredSlots ==
  ASSUME Typed, Licensing, Slots, NEW r \in Requests, Registered(r)
  PROVE  Slots'
  <1>0. PICK w, c : w = req[r].user /\ c = req[r].row
    OBVIOUS
  <1>1. /\ c \in Licences /\ w \in Users
        /\ licence'[c] \in Licence /\ licence'[c].owner = w /\ licence'[c].status = "ACTIVE"
        /\ \A l \in Licences \ {c} : licence'[l] = licence[l]
        /\ At(r, "registered") /\ End(r)
    BY <1>0, RegisteredStep DEF Licensing
  <1>2. w \notin users
    BY <1>0, <1>1 DEF Licensing, Holds
  <1>3. req'[r] = None /\ \A q \in Requests \ {r} : req'[q] = req[q]
    BY <1>1, EndStep
  <1>4. ASSUME NEW u \in Users, u # w PROVE SlotsOf(u)'
    <2>1. licence'[c].owner # u
      BY <1>1, <1>4
    <2>2. Active(u)' \subseteq Active(u)
      BY <1>1, <2>1, RowsKept
    <2>3. SlotsOf(u) /\ r \notin Pending(u)'
      BY <1>3 DEF Slots, SlotsOf, Pending, At
    <2>4. QED
      BY <1>3, <2>2, <2>3, SlotsKept
  <1>5. Active(w)' \subseteq {c} /\ Pending(w)' = {}
    <2>1. Active(w) = {} /\ Pending(w) = {}
      BY <1>2 DEF Active, Pending, Licensing, Known
    <2>2. Pending(w)' = {}
      BY <1>3, <2>1 DEF Pending, At
    <2>3. \A l \in Licences \ {c} : l \notin Active(w)'
      BY <1>1, <2>1 DEF Active
    <2>4. QED
      BY <2>2, <2>3 DEF Active
  <1>6. SlotsOf(w)'
    <2>1. PICK A, S : A = Active(w)' /\ S = Spare(w)'
      OBVIOUS
    <2>2. A \in SUBSET {c} /\ S \in SUBSET {c}
      BY <1>5, <2>1 DEF Spare
    <2>3. IsFiniteSet({c}) /\ Cardinality({c}) = 1
      BY FS_Singleton
    <2>4. IsFiniteSet(A) /\ IsFiniteSet(S) /\ Cardinality(S) <= 1
      BY <2>2, <2>3, FS_Subset
    <2>5. Cardinality(S) \in Nat /\ Cardinality({}) = 0
      BY <2>4, FS_CardinalityType, FS_EmptySet
    <2>6. Cardinality(Requests) \in Nat /\ Cardinality(Requests) >= 1
      BY <1>1, Counts DEF Slots
    <2>7. Cardinality(Pending(w)') = 0
      BY <1>5, <2>5
    <2>8. Cardinality(S) + Cardinality(Pending(w)') <= Cardinality(Requests)
      BY <2>4, <2>5, <2>6, <2>7
    <2>9. QED
      BY <2>1, <2>4, <2>8 DEF SlotsOf
  <1>7. QED
    BY <1>4, <1>6 DEF Slots, SlotsOf

(* A grant: the licence that the request read is over, and the request     *)
(* gives another in its place.                                             *)
LEMMA ProvisionSlots ==
  ASSUME Typed, Licensing, Slots, NEW r \in Requests, Provision(r)
  PROVE  Slots'
  <1>0. PICK w, x : w = req[r].user /\ x = req[r].row
    OBVIOUS
  <1>1. At(r, "provision") /\ w \in Users /\ Proceed(r, "insert", {})
    BY <1>0, ProvisionStep DEF Licensing
  <1>2. PICK c \in 1..MaxRequests :
           /\ c \in Licences /\ licence[c] = None /\ licence'[c] = Activated(w, -1)
           /\ \A k \in Licences \ {c} :
                 IF k = x
                 THEN /\ licence[k] \in Licence /\ licence'[k].owner = licence[k].owner
                      /\ licence'[k].status = "EXPIRED"
                 ELSE licence'[k] = licence[k]
    BY <1>0, ProvisionStep DEF Licensing
  <1>3. req'[r].op = "insert" /\ \A q \in Requests \ {r} : req'[q] = req[q]
    <2>1. req[r] # None /\ "insert" \in Ops /\ {} \in SUBSET Nat
      BY <1>1 DEF At, Ops
    <2>2. QED
      BY <1>1, <2>1, ProceedStep
  <1>4. licence'[c].owner = w
    BY <1>2 DEF Activated
  <1>5. ASSUME NEW u \in Users, u # w PROVE SlotsOf(u)'
    <2>1. Active(u)' \subseteq Active(u)
      BY <1>2, <1>4, <1>5, LicenceAssumption DEF Active
    <2>2. SlotsOf(u) /\ r \notin Pending(u)'
      BY <1>3 DEF Slots, SlotsOf, Pending, At
    <2>3. QED
      BY <1>3, <2>1, <2>2, SlotsKept
  <1>6. SlotsOf(w)'
    <2>1. PICK S, P, T, Q, A, B : /\ S = Spare(w) /\ P = Pending(w) /\ T = Spare(w)' /\ Q = Pending(w)'
                                  /\ A = Active(w) /\ B = Active(w)'
      OBVIOUS
    <2>2. PICK n \in Nat : n = Cardinality(Requests)
      BY <1>1, Counts DEF Slots
    <2>3. /\ IsFiniteSet(S) /\ IsFiniteSet(P) /\ IsFiniteSet(A)
          /\ Cardinality(S) + Cardinality(P) <= n
      BY <1>1, <2>1, <2>2, Counts DEF Slots
    <2>4. r \in P /\ Q \subseteq P \ {r}
      BY <1>0, <1>1, <1>3, <2>1 DEF Pending, At
    <2>5. \A q \in Q : q \in P /\ q # r /\ req'[q] = req[q]
      BY <1>3, <2>1, <2>4 DEF Pending
    <2>6. \A q \in P : q = r \/ (q \in Q /\ req'[q] = req[q])
      BY <1>3, <2>1 DEF Pending, At
    <2>7. \A l \in B : l = c \/ (l \in A /\ l # x)
      BY <1>2, <2>1 DEF Active
    <2>8. \A l \in T : l \in B /\ \A q \in Q : l # req'[q].row
      BY <2>1 DEF Spare, Doomed
    <2>9. \A l \in A : (\A q \in P : l # req[q].row) => l \in S
      BY <2>1 DEF Spare, Doomed
    <2>10. ASSUME NEW l \in T, l # c PROVE l \in S
      <3>1. l \in A /\ l # x
        BY <2>7, <2>8, <2>10
      <3>2. \A q \in P : l # req[q].row
        BY <1>0, <2>6, <2>8, <3>1
      <3>3. QED
        BY <2>9, <3>1, <3>2
    <2>11. T \subseteq S \cup {c}
      BY <2>10
    <2>12. Cardinality(T) + Cardinality(Q) <= n
      <3>1. PICK V, W : V = S \cup {c} /\ W = P \ {r}
        OBVIOUS
      <3>2. IsFiniteSet(V) /\ IsFiniteSet(W) /\ Cardinality(V) + Cardinality(W) <= n
        BY <2>3, <2>4, <3>1, Shift
      <3>3. T \subseteq V /\ Q \subseteq W
        BY <2>4, <2>11, <3>1
      <3>4. QED
        BY <3>2, <3>3, Shrink
    <2>13. IsFiniteSet(B)
      <3>1. IsFiniteSet(A \cup {c}) /\ B \in SUBSET (A \cup {c})
        BY <2>3, <2>7, FS_AddElement
      <3>2. QED
        BY <3>1, FS_Subset
    <2>14. QED
      BY <2>1, <2>2, <2>12, <2>13 DEF SlotsOf
  <1>7. QED
    BY <1>5, <1>6 DEF Slots, SlotsOf

(* A request for a grant begins when its user has no licence, or one that  *)
(* the request is to end.                                                  *)
LEMMA CreateSlots ==
  ASSUME Typed, Licensing, Slots, NEW r \in Requests, NEW w \in Users, create_account(r, w)
  PROVE  Slots'
  <1>1. \A u \in Users : Active(u)' = Active(u) /\ SlotsOf(u)
    BY CreateStep DEF Active, rows, Slots, SlotsOf
  <1>2. ASSUME NEW l \in get_user_active_license(w), NEW op \in {"upgrade", "insert"}, Begin(r, op, w, l), l \in Row
        PROVE  Slots'
    <2>1. op \in Ops /\ op # "provision"
      BY DEF Ops
    <2>2. /\ req'[r] = [op |-> op, user |-> w, row |-> l, seen |-> {}]
          /\ \A q \in Requests \ {r} : req'[q] = req[q]
      BY <1>2, <2>1, BeginStep
    <2>3. req'[r].op # "provision"
      BY <2>1, <2>2
    <2>4. ASSUME NEW u \in Users PROVE SlotsOf(u)'
      <3>1. r \notin Pending(u)' /\ Active(u)' \subseteq Active(u) /\ SlotsOf(u)
        BY <1>1, <2>3 DEF Pending, At
      <3>2. QED
        BY <2>2, <3>1, SlotsKept
    <2>5. QED
      BY <2>4 DEF Slots, SlotsOf
  <1>3. ASSUME NEW l \in Row, Begin(r, "provision", w, l), Active(w) \subseteq Over(w),
               Over(w) = {} \/ l \in Over(w), Cardinality(Active(w)) <= 1
        PROVE  Slots'
    <2>1. "provision" \in Ops
      BY DEF Ops
    <2>2. /\ req'[r] = [op |-> "provision", user |-> w, row |-> l, seen |-> {}]
          /\ \A q \in Requests \ {r} : req'[q] = req[q]
      BY <1>3, <2>1, BeginStep
    <2>3. req'[r].user = w /\ req'[r].op = "provision" /\ req'[r].row = l
      BY <2>2
    <2>4. ASSUME NEW u \in Users, u # w PROVE SlotsOf(u)'
      <3>1. r \notin Pending(u)' /\ Active(u)' \subseteq Active(u) /\ SlotsOf(u)
        BY <1>1, <2>3, <2>4 DEF Pending
      <3>2. QED
        BY <2>2, <3>1, SlotsKept
    <2>5. ASSUME r \in Pending(w)' PROVE Spare(w)' = {}
      <3>1. Active(w) \subseteq {l}
        <4>1. PICK A : A = Active(w)
          OBVIOUS
        <4>2. IsFiniteSet(A) /\ Cardinality(A) <= 1 /\ A \subseteq Over(w) /\ (Over(w) = {} \/ l \in Over(w))
          BY <1>1, <1>3, <4>1 DEF SlotsOf
        <4>3. l \in A \/ A = {}
          BY <4>1, <4>2 DEF Over
        <4>4. Cardinality(A) \in Nat
          BY <4>2, FS_CardinalityType
        <4>5. CASE l \in A
          <5>1. Cardinality(A) # 0
            BY <4>2, <4>5, FS_EmptySet
          <5>2. \E y : A = {y}
            BY <4>2, <4>4, <5>1, FS_Singleton
          <5>3. QED
            BY <4>1, <4>5, <5>2
        <4>6. QED
          BY <4>1, <4>3, <4>5
      <3>2. l \in Doomed(w)'
        BY <2>3, <2>5 DEF Doomed
      <3>3. QED
        BY <1>1, <3>1, <3>2 DEF Spare
    <2>6. CASE r \in Pending(w)'
      <3>1. PICK Q : Q = Pending(w)'
        OBVIOUS
      <3>2. Q \in SUBSET Requests
        BY <3>1 DEF Pending
      <3>3. IsFiniteSet(Requests) /\ IsFiniteSet(Q) /\ Cardinality(Q) <= Cardinality(Requests)
        BY <3>2, IdentityAssumption, FS_Subset
      <3>4. Cardinality(Q) \in Nat /\ Cardinality({}) = 0 /\ Cardinality(Requests) \in Nat
        BY <3>3, FS_CardinalityType, FS_EmptySet
      <3>5. Cardinality({}) + Cardinality(Q) <= Cardinality(Requests)
        BY <3>3, <3>4
      <3>6. IsFiniteSet(Active(w)')
        BY <1>1 DEF SlotsOf
      <3>7. SlotsOf(w)'
        BY <2>5, <2>6, <3>1, <3>5, <3>6 DEF SlotsOf
      <3>8. QED
        BY <2>4, <3>7 DEF Slots, SlotsOf
    <2>7. CASE r \notin Pending(w)'
      <3>1. SlotsOf(w)'
        BY <1>1, <2>2, <2>7, SlotsKept
      <3>2. QED
        BY <2>4, <3>1 DEF Slots, SlotsOf
    <2>8. QED
      BY <2>6, <2>7
  <1>4. QED
    BY <1>2, <1>3, CreateStep

(* The slots are inductive.                                                *)
LEMMA NextSlots == ASSUME Typed, Licensing, Slots, [Next]_vars PROVE Slots'
  <1> USE DEF rows
  <1>1. ASSUME UNCHANGED licence, Quiet({"provision"}) PROVE Slots'
    <2>1. \A u \in Users : Active(u)' \subseteq Active(u)
      BY <1>1 DEF Active
    <2>2. QED
      BY <1>1, <2>1, QuietSlots
  <1>2. ASSUME NEW r \in Requests, activate_license_for_user(r) PROVE Slots'
    <2>1. UNCHANGED licence /\ req[r] # None /\ Proceed(r, "registered", {})
      BY <1>2 DEF activate_license_for_user, At
    <2>2. "registered" \in Ops /\ {} \in SUBSET Nat /\ "registered" \notin {"provision"}
      BY DEF Ops
    <2>3. Quiet({"provision"})
      BY <2>1, <2>2, ProceedStep
    <2>4. QED
      BY <1>1, <2>1, <2>3
  <1>3. ASSUME NEW r \in Requests, Upgrade(r) PROVE Slots'
    <2>1. /\ req[r] # None /\ Proceed(r, "insert", {})
          /\ \A l \in Licences : \/ licence'[l] = licence[l]
                                 \/ /\ licence[l] \in Licence
                                    /\ licence'[l].owner = licence[l].owner /\ licence'[l].status = licence[l].status
      BY <1>3, UpgradeStep DEF Licensing, At
    <2>2. "insert" \in Ops /\ {} \in SUBSET Nat /\ "insert" \notin {"provision"}
      BY DEF Ops
    <2>3. Quiet({"provision"})
      BY <2>1, <2>2, ProceedStep
    <2>4. \A u \in Users : Active(u)' \subseteq Active(u)
      BY <2>1, LicenceAssumption, RowsKept
    <2>5. QED
      BY <2>3, <2>4, QuietSlots
  <1>4. ASSUME NEW r \in Requests, NEW u \in Users, create_account(r, u) PROVE Slots'
    BY <1>4, CreateSlots
  <1>5. ASSUME NEW r \in Requests, NEW u \in Users, NEW c \in Serials, register(r, u, c) PROVE Slots'
    <2>1. Begin(r, "register", u, c) /\ UNCHANGED licence
      BY <1>5 DEF register
    <2>2. c \in Row /\ "register" \in Ops /\ "register" \notin {"provision"}
      BY LicencesOf DEF Row, Ops
    <2>3. Quiet({"provision"})
      BY <2>1, <2>2, BeginStep
    <2>4. QED
      BY <1>1, <2>1, <2>3
  <1>6. ASSUME NEW u \in Users, me(u) PROVE Slots'
    <2>1. \A l \in Licences :
             \/ licence'[l] = licence[l]
             \/ licence[l] \in Licence /\ licence'[l].owner = licence[l].owner /\ licence[l].status = "ACTIVE"
      BY <1>6, MeStep
    <2>2. \A v \in Users : Active(v)' \subseteq Active(v)
      BY <2>1, LicenceAssumption, RowsKept
    <2>3. Quiet({"provision"})
      BY <1>6, MeStep DEF Quiet
    <2>4. QED
      BY <2>2, <2>3, QuietSlots
  <1>7. ASSUME NEW l \in Licences, LicenceEnds(l) PROVE Slots'
    <2>1. /\ licence[l] # None
          /\ licence'[l].owner = licence[l].owner /\ licence'[l].status = licence[l].status
          /\ \A k \in Licences \ {l} : licence'[k] = licence[k]
          /\ Quiet({"provision"})
      BY <1>7, LicenceEndsStep DEF LicenceEnds, Quiet
    <2>2. \A v \in Users : Active(v)' \subseteq Active(v)
      BY <2>1, RowsKept
    <2>3. QED
      BY <2>1, <2>2, QuietSlots
  <1>8. CASE ~Licenced
    <2>1. UNCHANGED licence /\ Quiet(LicenceOps)
      BY <1>8, UnlicencedQuiet
    <2>2. Quiet({"provision"})
      BY <2>1 DEF Quiet, LicenceOps
    <2>3. QED
      BY <1>1, <2>1, <2>2
  <1>9. ASSUME NEW r \in Requests, Registered(r) PROVE Slots'
    BY <1>9, RegisteredSlots
  <1>10. ASSUME NEW r \in Requests, Provision(r) PROVE Slots'
    BY <1>10, ProvisionSlots
  <1>11. QED
    BY <1>2, <1>3, <1>4, <1>5, <1>6, <1>7, <1>8, <1>9, <1>10 DEF Licenced

(* At the start a user has one licence at most, and no request is under    *)
(* way.                                                                    *)
LEMMA InitSlots == Init => Slots
  <1> SUFFICES ASSUME Init, NEW u \in Users PROVE SlotsOf(u)
    BY DEF Slots, SlotsOf
  <1>1. PICK code \in [Early -> Serials] :
           /\ \A v, w \in Early : code[v] = code[w] => v = w
           /\ paid = [v \in Users |-> IF v \in Early THEN code[v] ELSE None]
    BY DEF Init
  <1>2. Active(u) \subseteq {paid[u]}
    <2> SUFFICES ASSUME NEW l \in Active(u) PROVE l = paid[u]
      OBVIOUS
    <2>1. l \in Licences /\ licence[l] # None /\ licence[l].owner = u /\ licence[l].status = "ACTIVE"
      BY DEF Active
    <2>2. l \in Serials
      BY <2>1 DEF Init
    <2>3. CASE \E v \in Early : paid[v] = l
      <3>1. licence[l] = Activated(CHOOSE v \in Early : paid[v] = l, 1)
        BY <2>1, <2>2, <2>3 DEF Init
      <3>2. u = CHOOSE v \in Early : paid[v] = l
        BY <2>1, <3>1 DEF Activated
      <3>3. QED
        BY <2>3, <3>2
    <2>4. CASE ~\E v \in Early : paid[v] = l
      <3>1. licence[l] = [owner |-> None, status |-> "UNUSED", past |-> FALSE, limit |-> 1]
        BY <2>1, <2>2, <2>4 DEF Init
      <3>2. QED
        BY <2>1, <3>1
    <2>5. QED
      BY <2>3, <2>4
  <1>3. PICK A, S : A = Active(u) /\ S = Spare(u)
    OBVIOUS
  <1>4. PICK c : c = paid[u]
    OBVIOUS
  <1>5. A \in SUBSET {c} /\ S \in SUBSET {c}
    BY <1>2, <1>3, <1>4 DEF Spare
  <1>6. IsFiniteSet({c}) /\ Cardinality({c}) = 1
    BY FS_Singleton
  <1>7. IsFiniteSet(A) /\ IsFiniteSet(S) /\ Cardinality(S) <= 1
    BY <1>5, <1>6, FS_Subset
  <1>8. Cardinality(S) \in Nat /\ Cardinality({}) = 0
    BY <1>7, FS_CardinalityType, FS_EmptySet
  <1>9. Pending(u) = {}
    BY DEF Init, Pending, At
  <1>10. Cardinality(Requests) \in Nat /\ Cardinality(Requests) >= 1
    BY <1>3, <1>7, Counts
  <1>11. QED
    BY <1>3, <1>7, <1>8, <1>9, <1>10 DEF SlotsOf

(* The bound: what is doomed has a request that dooms it.                  *)
LEMMA SlotsBound == ASSUME Slots PROVE LicenceBound
  <1> SUFFICES ASSUME NEW u \in Users PROVE Cardinality(Active(u)) <= Cardinality(Requests)
    BY DEF LicenceBound
  <1>1. PICK A, S, P, D : A = Active(u) /\ S = Spare(u) /\ P = Pending(u) /\ D = Doomed(u)
    OBVIOUS
  <1>2. PICK f : f = [r \in P |-> req[r].row]
    OBVIOUS
  <1>3. /\ IsFiniteSet(A) /\ IsFiniteSet(S) /\ IsFiniteSet(P) /\ Cardinality(Requests) \in Nat
        /\ Cardinality(S) + Cardinality(P) <= Cardinality(Requests)
    BY <1>1, Counts DEF Slots
  <1>4. f \in Surjection(P, D)
    BY <1>1, <1>2 DEF Doomed, Surjection
  <1>5. IsFiniteSet(D) /\ Cardinality(D) <= Cardinality(P)
    BY <1>3, <1>4, FS_Surjection
  <1>6. PICK V : V = S \cup D
    OBVIOUS
  <1>7. IsFiniteSet(V) /\ Cardinality(V) = Cardinality(S) + Cardinality(D) - Cardinality(S \cap D)
    BY <1>3, <1>5, <1>6, FS_Union
  <1>8. IsFiniteSet(S \cap D)
    <2>1. S \cap D \in SUBSET S
      OBVIOUS
    <2>2. QED
      BY <1>3, <2>1, FS_Subset
  <1>9. A \in SUBSET V
    BY <1>1, <1>6 DEF Spare
  <1>10. Cardinality(A) <= Cardinality(V)
    BY <1>7, <1>9, FS_Subset
  <1>11. /\ Cardinality(A) \in Nat /\ Cardinality(V) \in Nat /\ Cardinality(S) \in Nat
         /\ Cardinality(P) \in Nat /\ Cardinality(D) \in Nat /\ Cardinality(S \cap D) \in Nat
    BY <1>3, <1>5, <1>7, <1>8, FS_CardinalityType
  <1>12. Cardinality(A) <= Cardinality(Requests)
    BY <1>3, <1>5, <1>7, <1>10, <1>11
  <1>13. QED
    BY <1>1, <1>12

-----------------------------------------------------------------------------
(* Reset links.                                                            *)

(* The links a user has used.                                              *)
Used(u) == {k \in DOMAIN resets : resets[k].user = u /\ resets[k].state = "used"}

(* The steps that concern reset links.                                     *)
Resetting ==
    \/ \E r \in Requests, k \in DOMAIN resets : verify_and_consume_token(r, k)
    \/ \E r \in Requests : LockUser(r) \/ revoke_all_user_refresh_tokens(r) \/ apply_password_reset(r)
    \/ \E u \in Users : forgot_password(u)
    \/ \E k \in DOMAIN resets : LinkEnds(k)

(* No other step changes a link, a password, or a request that has         *)
(* consumed a link.                                                        *)
LEMMA OtherwiseQuiet ==
  ASSUME Typed, Licensing, [Next]_vars, ~Resetting
  PROVE  UNCHANGED <<resets, password>> /\ Quiet(Consuming)
  <1> DEFINE Goal == UNCHANGED <<resets, password>> /\ Quiet(Consuming)
  <1> USE DEF rows
  <1>1. ASSUME NEW r \in Requests, Start(r) PROVE Goal
    <2>1. UNCHANGED <<resets, password>>
      BY <1>1, StartBegins
    <2>2. CASE \E t \in DOMAIN tokens : refresh_token(r, t)
      <3>1. PICK t \in DOMAIN tokens : Begin(r, "rotate", tokens[t].user, t)
        BY <2>2 DEF refresh_token
      <3>2. tokens[t] \in Token /\ t \in Row
        BY DEF Typed, Row
      <3>3. tokens[t].user \in Users /\ "rotate" \in Ops /\ "rotate" \notin Consuming
        BY <3>2 DEF Token, Ops, Consuming
      <3>4. QED
        BY <2>1, <3>1, <3>2, <3>3, BeginStep
    <2>3. ASSUME NEW op \in {"register", "provision", "upgrade", "insert", "login", "delete", "logout"},
                 NEW u \in Users, NEW row \in Row, NEW seen \in SUBSET Nat, BeginWith(r, op, u, row, seen)
          PROVE  Goal
      <3>1. op \in Ops /\ op \notin Consuming
        BY DEF Ops, Consuming
      <3>2. QED
        BY <2>1, <2>3, <3>1, BeginWithStep
    <2>4. QED
      BY <1>1, <2>2, <2>3, StartBegins DEF Resetting
  <1>2. ASSUME NEW r \in Requests, Step(r) PROVE Goal
    <2>1. CASE Refuse(r) \/ Registered(r) \/ Insert(r) \/ Deleted(r) \/ LoggedIn(r) \/ Rotated(r) \/ LoggedOut(r)
      <3>1. End(r) /\ UNCHANGED <<resets, password>>
        BY <2>1 DEF Refuse, Registered, Insert, Deleted, LoggedIn, Rotated, LoggedOut
      <3>2. QED
        BY <3>1, EndStep
    <2>2. CASE activate_license_for_user(r) \/ Provision(r) \/ Upgrade(r) \/ Supersede(r)
      <3>1. revoke_refresh_jti(req[r].row) \in SUBSET Nat /\ {} \in SUBSET Nat
        BY DEF revoke_refresh_jti, Unrevoked, Typed
      <3>2. /\ req[r] # None /\ UNCHANGED <<resets, password>>
            /\ \E op \in {"registered", "insert", "superseded"}, seen \in SUBSET Nat : Proceed(r, op, seen)
        BY <2>2, <3>1 DEF activate_license_for_user, Provision, Upgrade, Supersede, At
      <3>3. PICK op \in {"registered", "insert", "superseded"}, seen \in SUBSET Nat : Proceed(r, op, seen)
        BY <3>2
      <3>4. op \in Ops /\ op \notin Consuming
        BY DEF Ops, Consuming
      <3>5. Quiet(Consuming)
        BY <3>2, <3>3, <3>4, ProceedStep
      <3>6. QED
        BY <3>2, <3>5
    <2>3. QED
      BY <1>2, <2>1, <2>2 DEF Step, Resetting
  <1>3. ASSUME NEW r \in Requests, Rollback(r) PROVE Goal
    BY <1>3, EndStep DEF Rollback
  <1>4. CASE Short
    <2>1. Single /\ UNCHANGED <<resets, password>>
      BY <1>4 DEF Short, Resetting, me, patch_account
    <2>2. QED
      BY <2>1, SingleStep
  <1>5. CASE Time
    <2>1. UNCHANGED <<resets, password, req>>
      BY <1>5 DEF Time, Resetting, TokenEnds, LicenceEnds
    <2>2. QED
      BY <2>1 DEF Quiet
  <1>6. CASE UNCHANGED vars
    BY <1>6 DEF vars, Quiet
  <1>7. QED
    BY <1>1, <1>2, <1>3, <1>4, <1>5, <1>6 DEF Next

(* A request that has consumed a link.                                     *)
Consumes(r) == req[r] # None /\ req[r].op \in Consuming

(* Used links are finitely many.                                           *)
LEMMA UsedFinite == ASSUME Typed, NEW u PROVE IsFiniteSet(Used(u)) /\ Cardinality(Used(u)) \in Nat
  <1>1. DOMAIN resets = 1..Len(resets) /\ Len(resets) \in Nat
    BY DEF Typed
  <1>2. IsFiniteSet(DOMAIN resets)
    BY <1>1, FS_Interval
  <1>3. Used(u) \in SUBSET (DOMAIN resets)
    BY DEF Used
  <1>4. QED
    BY <1>2, <1>3, FS_Subset, FS_CardinalityType

(* A step that uses no link and lets no request consume one.               *)
LEMMA QuietSpending ==
  ASSUME Typed, Spending, ResetOnce, UNCHANGED password,
         \A q \in Requests : Consumes(q)' => Consumes(q) /\ req'[q].row = req[q].row /\ req'[q].user = req[q].user,
         DOMAIN resets \subseteq DOMAIN resets',
         \A k \in DOMAIN resets : /\ resets'[k].user = resets[k].user
                                  /\ resets'[k].state = "used" <=> resets[k].state = "used",
         \A k \in DOMAIN resets' \ DOMAIN resets : resets'[k].state # "used"
  PROVE  Spending' /\ ResetOnce'
  <1>1. Spending'
    BY DEF Spending, Consumes
  <1>2. \A u \in Users : Used(u)' = Used(u)
    BY DEF Used
  <1>3. QED
    BY <1>1, <1>2 DEF ResetOnce, Used

(* Links are spent once: the invariant is inductive.                       *)
LEMMA NextSpending ==
  ASSUME Typed, Licensing, Spending, ResetOnce, [Next]_vars
  PROVE  Spending' /\ ResetOnce'
  <1> USE DEF rows
  <1>1. ASSUME NEW r \in Requests, NEW k \in DOMAIN resets, verify_and_consume_token(r, k)
        PROVE  Spending' /\ ResetOnce'
    <2>1. /\ resets[k].state = "open" /\ Begin(r, "consumed", resets[k].user, k)
          /\ \A q \in Requests : Consumes(q) => req[q].row # k
          /\ UNCHANGED <<resets, password>>
      BY <1>1 DEF verify_and_consume_token, Consumes
    <2>2. "consumed" \in Ops /\ k \in Row /\ resets[k] \in Link
      BY DEF Ops, Row, Typed
    <2>3. resets[k].user \in Users
      BY <2>2 DEF Link
    <2>4. /\ req'[r] = [op |-> "consumed", user |-> resets[k].user, row |-> k, seen |-> {}]
          /\ \A q \in Requests \ {r} : req'[q] = req[q]
      BY <2>1, <2>2, <2>3, BeginStep
    <2>5. req'[r].row = k /\ req'[r].user = resets[k].user
      BY <2>4
    <2>6. Spending'
      BY <2>1, <2>4, <2>5 DEF Spending, Consumes
    <2>7. ResetOnce'
      BY <2>1 DEF ResetOnce
    <2>8. QED
      BY <2>6, <2>7
  <1>2. ASSUME NEW r \in Requests, LockUser(r) \/ revoke_all_user_refresh_tokens(r) PROVE Spending' /\ ResetOnce'
    <2>1. Unrevoked(req[r].user) \in SUBSET Nat /\ {} \in SUBSET Nat /\ {"locked", "revoked"} \subseteq Ops
      BY DEF Ops, Unrevoked, Typed
    <2>2. /\ At(r, "consumed") \/ At(r, "locked")
          /\ \E op \in {"locked", "revoked"}, seen \in SUBSET Nat : Proceed(r, op, seen)
          /\ UNCHANGED <<resets, password>>
      BY <1>2, <2>1 DEF LockUser, revoke_all_user_refresh_tokens
    <2>3. req[r] # None
      BY <2>2 DEF At
    <2>4. req'[r].user = req[r].user /\ req'[r].row = req[r].row /\ \A q \in Requests \ {r} : req'[q] = req[q]
      BY <2>1, <2>2, <2>3, ProceedStep
    <2>5. Consumes(r)
      BY <2>2 DEF Consumes, At, Consuming
    <2>6. \A q \in Requests : Consumes(q)' => Consumes(q) /\ req'[q].row = req[q].row /\ req'[q].user = req[q].user
      BY <2>4, <2>5 DEF Consumes
    <2>7. QED
      BY <2>2, <2>6, QuietSpending
  <1>3. ASSUME NEW r \in Requests, apply_password_reset(r) PROVE Spending' /\ ResetOnce'
    <2>1. PICK k, w : k = req[r].row /\ w = req[r].user
      OBVIOUS
    <2>2. /\ At(r, "revoked") /\ End(r) /\ k \in DOMAIN resets /\ w \in Users
          /\ resets' \in Seq(Link) /\ Len(resets') = Len(resets)
          /\ resets'[k].user = w /\ resets'[k].state = "used"
          /\ \A j \in DOMAIN resets \ {k} : resets'[j] = resets[j]
          /\ password'[w] = password[w] + 1
          /\ \A u \in Users \ {w} : password'[u] = password[u]
      BY <1>3, <2>1, ApplyStep
    <2>3. req'[r] = None /\ \A q \in Requests \ {r} : req'[q] = req[q]
      BY <2>2, EndStep
    <2>4. Consumes(r)
      BY <2>2 DEF Consumes, At, Consuming
    <2>5. resets[k].user = w /\ resets[k].state # "used"
      BY <2>1, <2>4 DEF Spending, Consumes
    <2>6. DOMAIN resets' = DOMAIN resets
      BY <2>2, LenProperties DEF Typed
    <2>7. Spending'
      <3>1. \A q \in Requests : Consumes(q)' => q # r /\ Consumes(q) /\ req'[q] = req[q] /\ req[q].row # k
        BY <2>1, <2>3, <2>4 DEF Spending, Consumes
      <3>2. QED
        BY <2>2, <2>6, <3>1 DEF Spending, Consumes
    <2>8. \A u \in Users \ {w} : Used(u)' = Used(u)
      BY <2>2, <2>5, <2>6 DEF Used
    <2>9. Used(w)' = Used(w) \cup {k} /\ k \notin Used(w)
      BY <2>2, <2>5, <2>6 DEF Used
    <2>10. Cardinality(Used(w) \cup {k}) = Cardinality(Used(w)) + 1
      BY <2>9, UsedFinite, FS_AddElement
    <2>11. \A u \in Users : password[u] = Cardinality(Used(u))
      BY DEF ResetOnce, Used
    <2>12. \A u \in Users : password'[u] = Cardinality(Used(u)')
      BY <2>2, <2>8, <2>9, <2>10, <2>11
    <2>13. ResetOnce'
      BY <2>12 DEF ResetOnce, Used
    <2>14. QED
      BY <2>7, <2>13
  <1>4. ASSUME NEW u \in Users, forgot_password(u) PROVE Spending' /\ ResetOnce'
    <2>1. /\ resets' \in Seq(Link) /\ Len(resets') = Len(resets) + 1
          /\ resets'[Len(resets) + 1].state = "open"
          /\ \A k \in 1..Len(resets) : resets'[k] = resets[k]
      BY <1>4, ForgotStep
    <2>2. DOMAIN resets = 1..Len(resets) /\ DOMAIN resets' = 1..Len(resets) + 1 /\ Len(resets) \in Nat
      BY <2>1, LenProperties DEF Typed
    <2>3. req' = req /\ UNCHANGED password
      BY <1>4, SingleStep DEF forgot_password
    <2>4. \A q \in Requests : Consumes(q)' => Consumes(q) /\ req'[q].row = req[q].row /\ req'[q].user = req[q].user
      BY <2>3 DEF Consumes
    <2>5. \A k \in DOMAIN resets' \ DOMAIN resets : resets'[k].state # "used"
      BY <2>1, <2>2
    <2>6. \A k \in DOMAIN resets : resets'[k] = resets[k]
      BY <2>1, <2>2
    <2>7. DOMAIN resets \subseteq DOMAIN resets'
      BY <2>2
    <2>8. QED
      BY <2>3, <2>4, <2>5, <2>6, <2>7, QuietSpending
  <1>5. ASSUME NEW k \in DOMAIN resets, LinkEnds(k) PROVE Spending' /\ ResetOnce'
    <2>1. /\ resets' \in Seq(Link) /\ Len(resets') = Len(resets)
          /\ resets'[k].user = resets[k].user /\ resets'[k].state = "expired" /\ resets[k].state = "open"
          /\ \A j \in DOMAIN resets \ {k} : resets'[j] = resets[j]
      BY <1>5, LinkEndsStep
    <2>2. DOMAIN resets' = DOMAIN resets
      BY <2>1, LenProperties DEF Typed
    <2>3. req' = req /\ UNCHANGED password
      BY <1>5 DEF LinkEnds
    <2>4. \A q \in Requests : Consumes(q)' => Consumes(q) /\ req'[q].row = req[q].row /\ req'[q].user = req[q].user
      BY <2>3 DEF Consumes
    <2>5. \A j \in DOMAIN resets : /\ resets'[j].user = resets[j].user
                                   /\ resets'[j].state = "used" <=> resets[j].state = "used"
      BY <2>1
    <2>6. QED
      BY <2>2, <2>3, <2>4, <2>5, QuietSpending
  <1>6. CASE ~Resetting
    <2>1. UNCHANGED <<resets, password>> /\ Quiet(Consuming)
      BY <1>6, OtherwiseQuiet
    <2>2. \A q \in Requests : Consumes(q)' => Consumes(q) /\ req'[q].row = req[q].row /\ req'[q].user = req[q].user
      BY <2>1 DEF Quiet, Consumes
    <2>3. QED
      BY <2>1, <2>2, QuietSpending
  <1>7. QED
    BY <1>1, <1>2, <1>3, <1>4, <1>5, <1>6 DEF Resetting

(* At the start no link has been used.                                     *)
LEMMA InitSpending == Init => Spending /\ ResetOnce
  <1> SUFFICES ASSUME Init PROVE Spending /\ ResetOnce
    OBVIOUS
  <1>1. resets = << >> /\ password = [u \in Users |-> 0] /\ \A r \in Requests : req[r] = None
    BY DEF Init
  <1>2. \A u \in Users : Used(u) = {}
    BY <1>1 DEF Used
  <1>3. Cardinality({}) = 0
    BY FS_EmptySet
  <1>4. ResetOnce
    BY <1>1, <1>2, <1>3 DEF ResetOnce, Used
  <1>5. QED
    BY <1>1, <1>4 DEF Spending

-----------------------------------------------------------------------------
(* Sessions.                                                               *)

(* How a request comes to the statements that concern tokens.              *)
LEMMA RequestsForward ==
  ASSUME Typed, [Next]_vars, NEW q \in Requests, req'[q] # None, req'[q].op \in {"rotate", "superseded", "revoked"}
  PROVE  \/ req'[q] = req[q]
         \/ \E t \in DOMAIN tokens : refresh_token(q, t)
         \/ Supersede(q) \/ revoke_all_user_refresh_tokens(q)
  <1> DEFINE Goal == \/ req'[q] = req[q]
                     \/ \E t \in DOMAIN tokens : refresh_token(q, t)
                     \/ Supersede(q) \/ revoke_all_user_refresh_tokens(q)
  <1>1. ASSUME NEW r \in Requests, Start(r) PROVE Goal
    <2>1. ASSUME NEW k \in DOMAIN resets, verify_and_consume_token(r, k) PROVE Goal
      <3>1. Begin(r, "consumed", resets[k].user, k)
        BY <2>1 DEF verify_and_consume_token
      <3>2. resets[k] \in Link /\ k \in Row
        BY DEF Typed, Row
      <3>3. resets[k].user \in Users /\ "consumed" \in Ops
        BY <3>2 DEF Link, Ops
      <3>4. Quiet({"rotate", "superseded", "revoked"})
        BY <3>1, <3>2, <3>3, BeginStep
      <3>5. QED
        BY <3>4 DEF Quiet
    <2>2. ASSUME NEW t \in DOMAIN tokens, refresh_token(r, t) PROVE Goal
      <3>1. \A p \in Requests \ {r} : req'[p] = req[p]
        BY <2>2 DEF refresh_token, Begin, BeginWith, Typed
      <3>2. QED
        BY <2>2, <3>1
    <2>3. ASSUME NEW op \in {"register", "provision", "upgrade", "insert", "login", "delete", "logout"},
                 NEW u \in Users, NEW row \in Row, NEW seen \in SUBSET Nat, BeginWith(r, op, u, row, seen)
          PROVE  Goal
      <3>1. op \in Ops /\ op \notin {"rotate", "superseded", "revoked"}
        BY DEF Ops
      <3>2. Quiet({"rotate", "superseded", "revoked"})
        BY <2>3, <3>1, BeginWithStep
      <3>3. QED
        BY <3>2 DEF Quiet
    <2>4. QED
      BY <1>1, <2>1, <2>2, <2>3, StartBegins
  <1>2. ASSUME NEW r \in Requests, Step(r) PROVE Goal
    <2>1. CASE \/ Refuse(r) \/ Registered(r) \/ Insert(r) \/ Deleted(r)
               \/ LoggedIn(r) \/ Rotated(r) \/ LoggedOut(r) \/ apply_password_reset(r)
      <3>1. End(r)
        BY <2>1 DEF Refuse, Registered, Insert, Deleted, LoggedIn, Rotated, LoggedOut, apply_password_reset
      <3>2. QED
        BY <3>1, EndStep DEF Quiet
    <2>2. CASE activate_license_for_user(r) \/ Provision(r) \/ Upgrade(r) \/ LockUser(r)
      <3>1. PICK op \in {"registered", "insert", "locked"} : req[r] # None /\ Proceed(r, op, {})
        BY <2>2 DEF activate_license_for_user, Provision, Upgrade, LockUser, At
      <3>2. op \in Ops /\ op \notin {"rotate", "superseded", "revoked"} /\ {} \in SUBSET Nat
        BY DEF Ops
      <3>3. Quiet({"rotate", "superseded", "revoked"})
        BY <3>1, <3>2, ProceedStep
      <3>4. QED
        BY <3>3 DEF Quiet
    <2>3. CASE Supersede(r) \/ revoke_all_user_refresh_tokens(r)
      <3>1. \A p \in Requests \ {r} : req'[p] = req[p]
        BY <2>3 DEF Supersede, revoke_all_user_refresh_tokens, Proceed, Typed
      <3>2. QED
        BY <2>3, <3>1
    <2>4. QED
      BY <1>2, <2>1, <2>2, <2>3 DEF Step
  <1>3. ASSUME NEW r \in Requests, Rollback(r) PROVE Goal
    BY <1>3, EndStep DEF Rollback, Quiet
  <1>4. CASE Short \/ Time \/ UNCHANGED vars
    <2>1. req' = req
      BY <1>4 DEF Short, Time, me, forgot_password, patch_account, Single, LicenceEnds, TokenEnds, LinkEnds, vars
    <2>2. QED
      BY <2>1
  <1>5. QED
    BY <1>1, <1>2, <1>3, <1>4 DEF Next

(* Coming to them changes no row.                                          *)
LEMMA ArrivesStep ==
  ASSUME NEW q \in Requests,
         (\E t \in DOMAIN tokens : refresh_token(q, t)) \/ Supersede(q) \/ revoke_all_user_refresh_tokens(q)
  PROVE  UNCHANGED <<tokens, password>>
  BY DEF refresh_token, Supersede, revoke_all_user_refresh_tokens, rows

(* What an UPDATE of a reset has found.                                    *)
LEMMA RevokedAllStep ==
  ASSUME Typed, NEW q \in Requests, revoke_all_user_refresh_tokens(q)
  PROVE  req'[q].user = req[q].user /\ req'[q].seen = Unrevoked(req[q].user)
  <1>1. req[q] # None /\ Proceed(q, "revoked", Unrevoked(req[q].user))
    BY DEF revoke_all_user_refresh_tokens, At
  <1>2. "revoked" \in Ops /\ Unrevoked(req[q].user) \in SUBSET Nat
    BY DEF Ops, Unrevoked, Typed
  <1>3. QED
    BY <1>1, <1>2, ProceedStep

(* A password is changed by a reset only.                                  *)
LEMMA PasswordKept ==
  ASSUME Typed, [Next]_vars, \A r \in Requests : ~apply_password_reset(r)
  PROVE  UNCHANGED password
  <1> USE DEF rows
  <1>1. ASSUME NEW r \in Requests, Start(r) PROVE UNCHANGED password
    BY <1>1, StartBegins
  <1>2. ASSUME NEW r \in Requests, Step(r) PROVE UNCHANGED password
    BY <1>2 DEF Step, activate_license_for_user, Refuse, Registered, Provision, Upgrade, Insert, Deleted,
                LoggedIn, Supersede, Rotated, LoggedOut, LockUser, revoke_all_user_refresh_tokens
  <1>3. ASSUME NEW r \in Requests, Rollback(r) PROVE UNCHANGED password
    BY <1>3 DEF Rollback
  <1>4. CASE Short \/ Time \/ UNCHANGED vars
    BY <1>4 DEF Short, Time, me, forgot_password, patch_account, LicenceEnds, TokenEnds, LinkEnds, vars
  <1>5. QED
    BY <1>1, <1>2, <1>3, <1>4 DEF Next

(* Tokens are stored by logins and rotations; no other step adds one, and  *)
(* none takes a revocation back.                                           *)
LEMMA UnstoredStep ==
  ASSUME Typed, [Next]_vars, \A r \in Requests : ~LoggedIn(r) /\ ~Rotated(r)
  PROVE  TokensForward /\ Len(tokens') = Len(tokens)
  <1> USE DEF rows
  <1>1. ASSUME UNCHANGED tokens PROVE TokensForward /\ Len(tokens') = Len(tokens)
    BY <1>1 DEF TokensForward, Typed
  <1>2. ASSUME NEW r \in Requests, Start(r) PROVE UNCHANGED tokens
    BY <1>2, StartBegins
  <1>3. ASSUME NEW r \in Requests, Step(r), ~apply_password_reset(r), ~LoggedOut(r) PROVE UNCHANGED tokens
    BY <1>3 DEF Step, activate_license_for_user, Refuse, Registered, Provision, Upgrade, Insert, Deleted,
                Supersede, LockUser, revoke_all_user_refresh_tokens
  <1>4. ASSUME NEW r \in Requests, apply_password_reset(r) \/ LoggedOut(r)
        PROVE  TokensForward /\ Len(tokens') = Len(tokens)
    <2>1. tokens' = Revoked(req[r].seen)
      BY <1>4 DEF apply_password_reset, LoggedOut
    <2>2. QED
      BY <2>1, RevokeStep
  <1>5. ASSUME NEW r \in Requests, Rollback(r) PROVE UNCHANGED tokens
    BY <1>5 DEF Rollback
  <1>6. CASE Short
    BY <1>1, <1>6 DEF Short, me, forgot_password, patch_account
  <1>7. CASE Time
    <2>1. UNCHANGED tokens \/ \E t \in DOMAIN tokens : TokenEnds(t)
      BY <1>7 DEF Time, LicenceEnds, LinkEnds
    <2>2. QED
      BY <1>1, <2>1, TokenEndsStep
  <1>8. CASE UNCHANGED vars
    BY <1>1, <1>8 DEF vars
  <1>9. QED
    BY <1>1, <1>2, <1>3, <1>4, <1>5, <1>6, <1>7, <1>8 DEF Next

(* What is not revoked after a step that keeps the table was not before.   *)
LEMMA UnrevokedKept ==
  ASSUME Typed, TokensForward, Len(tokens') = Len(tokens), NEW u
  PROVE  Unrevoked(u)' \subseteq Unrevoked(u)
  <1>1. /\ DOMAIN tokens = 1..Len(tokens) /\ DOMAIN tokens' = 1..Len(tokens)
        /\ \A t \in 1..Len(tokens) : /\ tokens'[t].user = tokens[t].user
                                     /\ tokens[t].state = "revoked" => tokens'[t].state = "revoked"
    BY LenProperties DEF Typed, TokensForward
  <1>2. QED
    BY <1>1 DEF Unrevoked

(* A token that is stored: no reset of its user is between its UPDATE and  *)
(* its commit.                                                             *)
LEMMA StoredSettled ==
  ASSUME Typed, Covered, Settled, NEW r \in Requests, NEW parent, Stores(r, parent)
  PROVE  Covered' /\ Settled'
  <1>1. PICK new : new = Len(tokens) + 1
    OBVIOUS
  <1>2. /\ DOMAIN tokens = 1..Len(tokens) /\ DOMAIN tokens' = 1..new /\ Len(tokens) \in Nat
        /\ tokens'[new].user = req[r].user /\ tokens'[new].stored = password[req[r].user]
        /\ password' = password
    BY <1>1, LenProperties DEF Typed, Stores, TokensForward
  <1>3. \A t \in 1..Len(tokens) :
           /\ tokens'[t].user = tokens[t].user /\ tokens'[t].stored = tokens[t].stored
           /\ tokens[t].state = "revoked" => tokens'[t].state = "revoked"
    BY DEF Stores, TokensForward
  <1>4. \A t \in 1..new : t \in 1..Len(tokens) \/ t = new
    BY <1>1, <1>2
  <1>5. req'[r] = None /\ \A p \in Requests \ {r} : req'[p] = req[p] /\ ~UserLocked(p, req[r].user)
    BY EndStep DEF Stores
  <1>6. Settled'
    BY <1>2, <1>3, <1>4 DEF Settled
  <1>7. ASSUME NEW p \in Requests, At(p, "revoked")', NEW t, (t \in Unrevoked(req[p].user))'
        PROVE  t \in req'[p].seen
    <2>1. p # r /\ req'[p] = req[p] /\ At(p, "revoked") /\ ~UserLocked(p, req[r].user)
      BY <1>5, <1>7 DEF At
    <2>2. req[p].user # req[r].user
      BY <2>1 DEF UserLocked
    <2>3. t \in 1..new /\ tokens'[t].user = req[p].user /\ tokens'[t].state # "revoked"
      BY <1>2, <1>7, <2>1 DEF Unrevoked
    <2>4. t \in 1..Len(tokens)
      BY <1>2, <1>4, <2>2, <2>3
    <2>5. t \in Unrevoked(req[p].user)
      BY <1>2, <1>3, <2>3, <2>4 DEF Unrevoked
    <2>6. QED
      BY <2>1, <2>5 DEF Covered
  <1>8. Covered'
    BY <1>7 DEF Covered
  <1>9. QED
    BY <1>6, <1>8

(* The sessions of a user are those of the present password: the invariant *)
(* is inductive.                                                           *)
LEMMA NextSettled ==
  ASSUME Typed, Spending, Rotations, Covered, Settled, [Next]_vars
  PROVE  Covered' /\ Settled'
  <1>1. CASE \E r \in Requests : LoggedIn(r) \/ Rotated(r)
    BY <1>1, LoggedInStep, RotatedStep, StoredSettled
  <1>2. CASE ~\E r \in Requests : LoggedIn(r) \/ Rotated(r)
    <2>1. TokensForward /\ Len(tokens') = Len(tokens)
      BY <1>2, UnstoredStep
    <2>2. /\ DOMAIN tokens = 1..Len(tokens) /\ DOMAIN tokens' = 1..Len(tokens)
          /\ \A t \in 1..Len(tokens) : /\ tokens'[t].user = tokens[t].user /\ tokens'[t].stored = tokens[t].stored
                                       /\ tokens[t].state = "revoked" => tokens'[t].state = "revoked"
      BY <2>1, LenProperties DEF Typed, TokensForward
    <2>3. ASSUME NEW q \in Requests, At(q, "revoked")'
          PROVE  Unrevoked(req[q].user)' \subseteq req'[q].seen
      <3>1. PICK u : u = req'[q].user
        OBVIOUS
      <3>2. Unrevoked(u)' \subseteq Unrevoked(u)
        BY <2>1, UnrevokedKept
      <3>3. CASE req'[q] = req[q]
        <4>1. At(q, "revoked")
          BY <2>3, <3>3 DEF At
        <4>2. Unrevoked(req[q].user) \subseteq req[q].seen
          BY <4>1 DEF Covered
        <4>3. Unrevoked(u)' \subseteq req'[q].seen
          BY <3>1, <3>2, <3>3, <4>2
        <4>4. QED
          BY <3>1, <4>3
      <3>4. CASE revoke_all_user_refresh_tokens(q)
        <4>1. req'[q].seen = Unrevoked(u)
          BY <3>1, <3>4, RevokedAllStep
        <4>2. Unrevoked(u)' \subseteq req'[q].seen
          BY <3>2, <4>1
        <4>3. QED
          BY <3>1, <4>2
      <3>5. ~Supersede(q) /\ \A t \in DOMAIN tokens : ~refresh_token(q, t)
        <4>1. req'[q].op = "revoked"
          BY <2>3 DEF At
        <4>2. ASSUME Supersede(q) PROVE FALSE
          <5>1. req[q] # None /\ Proceed(q, "superseded", revoke_refresh_jti(req[q].row))
            BY <4>2 DEF Supersede, At
          <5>2. "superseded" \in Ops /\ revoke_refresh_jti(req[q].row) \in SUBSET Nat
            BY DEF Ops, revoke_refresh_jti, Unrevoked, Typed
          <5>3. QED
            BY <4>1, <5>1, <5>2, ProceedStep
        <4>3. ASSUME NEW t \in DOMAIN tokens, refresh_token(q, t) PROVE FALSE
          <5>1. req'[q] = [op |-> "rotate", user |-> tokens[t].user, row |-> t, seen |-> {}]
            BY <4>3 DEF refresh_token, Begin, BeginWith, Typed
          <5>2. QED
            BY <4>1, <5>1
        <4>4. QED
          BY <4>2, <4>3
      <3>6. req'[q] # None /\ req'[q].op \in {"rotate", "superseded", "revoked"}
        BY <2>3 DEF At
      <3>7. QED
        BY <3>3, <3>4, <3>5, <3>6, RequestsForward
    <2>4. Covered'
      BY <2>3 DEF Covered
    <2>5. CASE \E r \in Requests : apply_password_reset(r)
      <3>1. PICK r \in Requests : apply_password_reset(r)
        BY <2>5
      <3>2. PICK w : w = req[r].user
        OBVIOUS
      <3>3. /\ At(r, "revoked") /\ tokens' = Revoked(req[r].seen)
            /\ \A u \in Users \ {w} : password'[u] = password[u]
        BY <3>1, <3>2, ApplyStep
      <3>4. Unrevoked(w) \subseteq req[r].seen
        BY <3>2, <3>3 DEF Covered
      <3>5. ASSUME NEW t \in 1..Len(tokens), tokens'[t].state # "revoked"
            PROVE  tokens'[t].stored = password'[tokens'[t].user]
        <4>1. t \notin req[r].seen /\ tokens[t].state # "revoked"
          BY <3>3, <3>5, RevokedRows
        <4>2. tokens[t].user # w
          BY <2>2, <3>4, <4>1 DEF Unrevoked
        <4>3. tokens[t].user \in Users
          <5>1. tokens[t] \in Token
            BY <2>2 DEF Typed
          <5>2. QED
            BY <5>1 DEF Token
        <4>4. tokens[t].stored = password[tokens[t].user]
          BY <2>2, <4>1 DEF Settled
        <4>5. QED
          BY <2>2, <3>3, <4>2, <4>3, <4>4
      <3>6. QED
        BY <2>2, <2>4, <3>5 DEF Settled
    <2>6. CASE ~\E r \in Requests : apply_password_reset(r)
      <3>1. password' = password
        BY <2>6, PasswordKept
      <3>2. QED
        BY <2>2, <2>4, <3>1 DEF Settled
    <2>7. QED
      BY <2>5, <2>6
  <1>3. QED
    BY <1>1, <1>2

(* At the start there is no request and no token.                          *)
LEMMA InitSettled == Init => Covered /\ Settled
  BY DEF Init, Covered, Settled, At

-----------------------------------------------------------------------------
(* Rotation.                                                               *)

(* No step takes a token away, or a revocation back.                       *)
LEMMA NextTokens ==
  ASSUME Typed, Rotations, [Next]_vars
  PROVE  TokensForward
  BY LoggedInStep, RotatedStep, UnstoredStep DEF Stores

(* The request that finds its token valid.                                 *)
LEMMA RefreshStep ==
  ASSUME Typed, NEW q \in Requests, NEW t \in DOMAIN tokens, refresh_token(q, t)
  PROVE  req'[q].op = "rotate" /\ req'[q].row = t /\ tokens[t].state = "active" /\ UNCHANGED tokens
  <1>1. req'[q] = [op |-> "rotate", user |-> tokens[t].user, row |-> t, seen |-> {}]
    BY DEF refresh_token, Begin, BeginWith, Typed
  <1>2. QED
    BY <1>1 DEF refresh_token, is_refresh_jti_valid, rows

(* The request that revokes it.                                            *)
LEMMA SupersedeStep ==
  ASSUME Typed, NEW q \in Requests, Supersede(q)
  PROVE  /\ At(q, "rotate") /\ req'[q].op = "superseded" /\ req'[q].row = req[q].row
         /\ req'[q].seen = revoke_refresh_jti(req[q].row) /\ UNCHANGED tokens
  <1>1. At(q, "rotate") /\ Proceed(q, "superseded", revoke_refresh_jti(req[q].row)) /\ UNCHANGED tokens
    BY DEF Supersede, rows
  <1>2. req[q] # None /\ "superseded" \in Ops /\ revoke_refresh_jti(req[q].row) \in SUBSET Nat
    BY <1>1 DEF At, Ops, revoke_refresh_jti, Unrevoked, Typed
  <1>3. QED
    BY <1>1, <1>2, ProceedStep

(* A request rotates a token there is, and leaves it revoked.              *)
LEMMA NextRotations == ASSUME Typed, Rotations, [Next]_vars PROVE Rotations'
  <1>1. /\ DOMAIN tokens = 1..Len(tokens) /\ DOMAIN tokens' = 1..Len(tokens')
        /\ Len(tokens) \in Nat /\ Len(tokens') \in Nat /\ Len(tokens) <= Len(tokens')
        /\ \A t \in 1..Len(tokens) : tokens[t].state = "revoked" => tokens'[t].state = "revoked"
    BY NextTokens, LenProperties DEF Typed, TokensForward
  <1>2. DOMAIN tokens \subseteq DOMAIN tokens'
    BY <1>1
  <1>3. ASSUME NEW q \in Requests, (At(q, "rotate") \/ At(q, "superseded"))'
        PROVE  /\ req'[q].row \in DOMAIN tokens
               /\ req'[q].op = "superseded" => req'[q].row \in req'[q].seen \/ tokens'[req'[q].row].state = "revoked"
    <2>1. req'[q] # None /\ req'[q].op \in {"rotate", "superseded", "revoked"} /\ req'[q].op # "revoked"
      BY <1>3 DEF At
    <2>2. CASE req'[q] = req[q]
      <3>1. (At(q, "rotate") \/ At(q, "superseded")) /\ (req[q].op = "superseded" => At(q, "superseded"))
        BY <1>3, <2>2 DEF At
      <3>2. PICK c : c = req[q].row
        OBVIOUS
      <3>3. c \in DOMAIN tokens /\ (req[q].op = "superseded" => c \in req[q].seen \/ tokens[c].state = "revoked")
        BY <3>1, <3>2 DEF Rotations
      <3>4. tokens[c].state = "revoked" => tokens'[c].state = "revoked"
        BY <1>1, <3>3
      <3>5. QED
        BY <2>2, <3>2, <3>3, <3>4
    <2>3. ASSUME NEW t \in DOMAIN tokens, refresh_token(q, t)
          PROVE  req'[q].row \in DOMAIN tokens /\ req'[q].op = "rotate"
      BY <2>3, RefreshStep
    <2>4. CASE Supersede(q)
      <3>1. PICK c : c = req[q].row
        OBVIOUS
      <3>2. /\ At(q, "rotate") /\ req'[q].row = c /\ req'[q].seen = revoke_refresh_jti(c) /\ UNCHANGED tokens
        BY <2>4, <3>1, SupersedeStep
      <3>3. c \in DOMAIN tokens
        BY <3>1, <3>2 DEF Rotations
      <3>4. c \in revoke_refresh_jti(c) \/ tokens[c].state = "revoked"
        BY <3>3 DEF revoke_refresh_jti, Unrevoked
      <3>5. QED
        BY <3>2, <3>3, <3>4
    <2>5. CASE revoke_all_user_refresh_tokens(q)
      <3>1. req[q] # None /\ Proceed(q, "revoked", Unrevoked(req[q].user))
        BY <2>5 DEF revoke_all_user_refresh_tokens, At
      <3>2. "revoked" \in Ops /\ Unrevoked(req[q].user) \in SUBSET Nat
        BY DEF Ops, Unrevoked, Typed
      <3>3. QED
        BY <2>1, <3>1, <3>2, ProceedStep
    <2>6. CASE \E t \in DOMAIN tokens : refresh_token(q, t)
      BY <2>3, <2>6
    <2>7. QED
      BY <2>1, <2>2, <2>4, <2>5, <2>6, RequestsForward
  <1>4. QED
    BY <1>2, <1>3 DEF Rotations, At

(* The slots of one token.                                                 *)
ChainOf(t) ==
    /\ Successors(t) # {} => tokens[t].state = "revoked"
    /\ Cardinality(Successors(t)) + Cardinality(Rotating(t)) <= Cardinality(Requests)

(* What is counted is finite.                                              *)
LEMMA ChainFinite ==
  ASSUME Typed, NEW t
  PROVE  /\ IsFiniteSet(Successors(t)) /\ IsFiniteSet(Rotating(t)) /\ Cardinality(Requests) \in Nat
         /\ Cardinality(Rotating(t)) \in Nat /\ Cardinality(Rotating(t)) <= Cardinality(Requests)
  <1>1. DOMAIN tokens = 1..Len(tokens) /\ Len(tokens) \in Nat
    BY DEF Typed
  <1>2. IsFiniteSet(DOMAIN tokens) /\ IsFiniteSet(Requests)
    BY <1>1, FS_Interval, IdentityAssumption
  <1>3. Successors(t) \in SUBSET (DOMAIN tokens) /\ Rotating(t) \in SUBSET Requests
    BY DEF Successors, Rotating
  <1>4. QED
    BY <1>2, <1>3, FS_Subset, FS_CardinalityType

(* No successor, and no more than the requests under way.                  *)
LEMMA NoSuccessors ==
  ASSUME NEW t, Successors(t)' = {}
  PROVE  ChainOf(t)'
  <1>1. PICK Q : Q = Rotating(t)'
    OBVIOUS
  <1>2. Q \in SUBSET Requests /\ IsFiniteSet(Requests)
    BY <1>1, IdentityAssumption DEF Rotating
  <1>3. IsFiniteSet(Q) /\ Cardinality(Q) <= Cardinality(Requests) /\ Cardinality({}) = 0
    BY <1>2, FS_Subset, FS_EmptySet
  <1>4. Cardinality(Q) \in Nat /\ Cardinality(Requests) \in Nat
    BY <1>2, <1>3, FS_CardinalityType
  <1>5. Cardinality({}) + Cardinality(Q) <= Cardinality(Requests)
    BY <1>3, <1>4
  <1>6. QED
    BY <1>1, <1>5 DEF ChainOf

(* A request that stores a token gives its place to it.                    *)
LEMMA StoredChains ==
  ASSUME Typed, Typed', Rotations, Chains, NEW r \in Requests, NEW c \in 0..Len(tokens), Stores(r, c),
         c # 0 => r \in Rotating(c) /\ tokens'[c].state = "revoked"
  PROVE  Chains'
  <1>1. PICK new : new = Len(tokens) + 1
    OBVIOUS
  <1>2. /\ DOMAIN tokens = 1..Len(tokens) /\ DOMAIN tokens' = 1..new /\ Len(tokens') = new
        /\ Len(tokens) \in Nat /\ new \in Nat /\ new \notin 1..Len(tokens)
        /\ \A t \in 1..new : t \in 1..Len(tokens) \/ t = new
        /\ tokens'[new].parent = c
    BY <1>1, LenProperties DEF Typed, Stores, TokensForward
  <1>3. \A t \in 1..Len(tokens) : /\ tokens'[t].parent = tokens[t].parent
                                  /\ tokens[t].state = "revoked" => tokens'[t].state = "revoked"
    BY DEF Stores, TokensForward
  <1>4. req'[r] = None /\ \A p \in Requests \ {r} : req'[p] = req[p]
    BY EndStep DEF Stores
  <1>5. \A t \in 1..new : tokens'[t].parent <= Len(tokens)
    <2>1. \A t \in 1..Len(tokens) : tokens[t].parent <= Len(tokens)
      BY <1>2 DEF Chains
    <2>2. c <= Len(tokens)
      BY <1>2
    <2>3. QED
      BY <1>2, <1>3, <2>1, <2>2
  <1>6. \A t \in 1..new : tokens'[t].parent <= Len(tokens')
    <2>1. \A t \in 1..new : tokens'[t].parent \in Nat
      <3>1. \A t \in 1..new : tokens'[t] \in Token
        BY <1>2 DEF Typed
      <3>2. QED
        BY <3>1 DEF Token
    <2>2. QED
      BY <1>1, <1>2, <1>5, <2>1
  <1>7. ASSUME NEW t \in 1..Len(tokens) PROVE ChainOf(t)'
    <2>1. PICK S, P, T, Q : S = Successors(t) /\ P = Rotating(t) /\ T = Successors(t)' /\ Q = Rotating(t)'
      OBVIOUS
    <2>2. PICK n \in Nat : n = Cardinality(Requests)
      BY ChainFinite
    <2>3. /\ IsFiniteSet(S) /\ IsFiniteSet(P) /\ Cardinality(S) + Cardinality(P) <= n
          /\ S # {} => tokens[t].state = "revoked"
      BY <1>2, <1>7, <2>1, <2>2, ChainFinite DEF Chains
    <2>4. Q \subseteq P \ {r}
      BY <1>4, <2>1 DEF Rotating, At
    <2>5. \A s \in T : s \in S \/ (s = new /\ c = t)
      BY <1>2, <1>3, <2>1 DEF Successors
    <2>6. CASE c = t
      <3>1. r \in P /\ tokens'[t].state = "revoked"
        BY <1>7, <2>1, <2>6
      <3>2. PICK V, W : V = S \cup {new} /\ W = P \ {r}
        OBVIOUS
      <3>3. IsFiniteSet(V) /\ IsFiniteSet(W) /\ Cardinality(V) + Cardinality(W) <= n
        BY <2>3, <3>1, <3>2, Shift
      <3>4. T \subseteq V /\ Q \subseteq W
        BY <2>4, <2>5, <3>2
      <3>5. Cardinality(T) + Cardinality(Q) <= n
        BY <3>3, <3>4, Shrink
      <3>6. QED
        BY <2>1, <2>2, <3>1, <3>5 DEF ChainOf
    <2>7. CASE c # t
      <3>1. T \subseteq S /\ Q \subseteq P
        BY <2>4, <2>5, <2>7
      <3>2. Cardinality(T) + Cardinality(Q) <= n
        BY <2>3, <3>1, Shrink
      <3>3. T # {} => tokens'[t].state = "revoked"
        BY <1>3, <2>3, <3>1
      <3>4. QED
        BY <2>1, <2>2, <3>2, <3>3 DEF ChainOf
    <2>8. QED
      BY <2>6, <2>7
  <1>8. ChainOf(new)'
    <2>1. \A t \in 1..new : tokens'[t].parent # new
      <3>1. \A t \in 1..new : tokens'[t].parent \in Nat
        <4>1. \A t \in 1..new : tokens'[t] \in Token
          BY <1>2 DEF Typed
        <4>2. QED
          BY <4>1 DEF Token
      <3>2. QED
        BY <1>1, <1>2, <1>5, <3>1
    <2>2. Successors(new)' = {}
      BY <1>2, <2>1 DEF Successors
    <2>3. QED
      BY <2>2, NoSuccessors
  <1>9. \A t \in 1..new : ChainOf(t)'
    BY <1>2, <1>7, <1>8
  <1>10. QED
    BY <1>2, <1>6, <1>9 DEF Chains, ChainOf

(* The successors of a token are bounded: the invariant is inductive.      *)
LEMMA NextChains ==
  ASSUME Typed, Typed', Rotations, Chains, [Next]_vars
  PROVE  Chains'
  <1>0. Len(tokens) \in Nat /\ DOMAIN tokens = 1..Len(tokens)
    BY DEF Typed
  <1>1. ASSUME NEW r \in Requests, LoggedIn(r) PROVE Chains'
    <2>1. Stores(r, 0) /\ 0 \in 0..Len(tokens)
      BY <1>0, <1>1, LoggedInStep
    <2>2. QED
      BY <2>1, StoredChains
  <1>2. ASSUME NEW r \in Requests, Rotated(r) PROVE Chains'
    <2>1. PICK c : c = req[r].row
      OBVIOUS
    <2>2. Stores(r, c) /\ At(r, "superseded") /\ c \in 1..Len(tokens) /\ tokens'[c].state = "revoked"
      BY <1>2, <2>1, RotatedStep
    <2>3. r \in Rotating(c) /\ c \in 0..Len(tokens)
      BY <1>0, <2>1, <2>2 DEF Rotating
    <2>4. QED
      BY <2>2, <2>3, StoredChains
  <1>3. CASE ~\E r \in Requests : LoggedIn(r) \/ Rotated(r)
    <2>1. TokensForward /\ Len(tokens') = Len(tokens)
      BY <1>3, UnstoredStep
    <2>2. /\ DOMAIN tokens' = 1..Len(tokens)
          /\ \A t \in 1..Len(tokens) : /\ tokens'[t].parent = tokens[t].parent
                                       /\ tokens[t].state = "revoked" => tokens'[t].state = "revoked"
      BY <2>1, LenProperties DEF TokensForward
    <2>3. \A t : Successors(t)' = Successors(t)
      BY <1>0, <2>2 DEF Successors
    <2>4. ASSUME NEW t \in 1..Len(tokens) PROVE ChainOf(t)'
      <3>1. ChainOf(t)
        BY <1>0 DEF Chains, ChainOf
      <3>2. CASE \E q \in Requests : refresh_token(q, t)
        <4>1. tokens[t].state = "active"
          BY <1>0, <3>2, RefreshStep
        <4>2. Successors(t)' = {}
          BY <2>3, <3>1, <4>1 DEF ChainOf
        <4>3. QED
          BY <4>2, NoSuccessors
      <3>3. CASE ~\E q \in Requests : refresh_token(q, t)
        <4>1. ASSUME NEW q \in Requests, (At(q, "rotate") \/ At(q, "superseded"))', req'[q].row = t
              PROVE  q \in Rotating(t)
          <5>1. req'[q] # None /\ req'[q].op \in {"rotate", "superseded", "revoked"} /\ req'[q].op # "revoked"
            BY <4>1 DEF At
          <5>2. CASE req'[q] = req[q]
            BY <4>1, <5>2 DEF Rotating, At
          <5>3. CASE Supersede(q)
            BY <4>1, <5>3, SupersedeStep DEF Rotating
          <5>4. CASE \E k \in DOMAIN tokens : refresh_token(q, k)
            BY <3>3, <4>1, <5>4, RefreshStep
          <5>5. CASE revoke_all_user_refresh_tokens(q)
            <6>1. req[q] # None /\ Proceed(q, "revoked", Unrevoked(req[q].user))
              BY <5>5 DEF revoke_all_user_refresh_tokens, At
            <6>2. "revoked" \in Ops /\ Unrevoked(req[q].user) \in SUBSET Nat
              BY DEF Ops, Unrevoked, Typed
            <6>3. QED
              BY <5>1, <6>1, <6>2, ProceedStep
          <5>6. QED
            BY <5>1, <5>2, <5>3, <5>4, <5>5, RequestsForward
        <4>2. Rotating(t)' \subseteq Rotating(t)
          BY <4>1 DEF Rotating
        <4>3. PICK S, P, Q : S = Successors(t) /\ P = Rotating(t) /\ Q = Rotating(t)'
          OBVIOUS
        <4>4. PICK n \in Nat : n = Cardinality(Requests)
          BY ChainFinite
        <4>5. IsFiniteSet(S) /\ IsFiniteSet(P) /\ Cardinality(S) + Cardinality(P) <= n
          BY <3>1, <4>3, <4>4, ChainFinite DEF ChainOf
        <4>6. Cardinality(S) + Cardinality(Q) <= n
          BY <4>2, <4>3, <4>5, Shrink
        <4>7. QED
          BY <2>2, <2>3, <3>1, <4>3, <4>4, <4>6 DEF ChainOf
      <3>4. QED
        BY <3>2, <3>3
    <2>5. \A t \in 1..Len(tokens) : tokens'[t].parent <= Len(tokens')
      BY <1>0, <2>1, <2>2 DEF Chains
    <2>6. QED
      BY <2>2, <2>4, <2>5 DEF Chains, ChainOf
  <1>4. QED
    BY <1>1, <1>2, <1>3

(* At the start there is no token.                                         *)
LEMMA InitRotations == Init => Rotations /\ Chains
  BY DEF Init, Rotations, Chains, At

-----------------------------------------------------------------------------
(* The invariant and what follows from it.                                 *)

IInv ==
    /\ Typed /\ Licensing /\ Slots
    /\ Spending /\ ResetOnce
    /\ Covered /\ Settled
    /\ Rotations /\ Chains

(* The invariant holds at the start and is kept by every step of every     *)
(* request, by requests that end in a rollback, and by time.               *)
LEMMA Inductive == (Init => IInv) /\ (IInv /\ [Next]_vars => IInv')
  <1>1. Init => IInv
    BY InitTyped, InitLicensing, InitSlots, InitSpending, InitSettled, InitRotations DEF IInv
  <1>2. IInv /\ [Next]_vars => IInv'
    BY NextTyped, NextLicensing, NextSlots, NextSpending, NextSettled, NextRotations, NextChains DEF IInv
  <1>3. QED
    BY <1>1, <1>2

(* The invariant holds in every state.                                     *)
LEMMA Invariant == Spec => []IInv
  BY Inductive, PTL DEF Spec

(* activate_license_for_user: however many registrations race for a serial *)
(* code, it pays for one, and every registered user has paid with one.     *)
THEOREM SerialCodePaysOnce == Spec => []SerialOnce
  <1>1. IInv => SerialOnce
    BY IdentityAssumption DEF IInv, Licensing, Sold, SerialOnce
  <1>2. QED
    BY <1>1, Invariant, PTL

(* create_account: overlapping requests may each give a user a licence,    *)
(* but no user ever has more active ones than requests can be under way.   *)
THEOREM LicencesBounded == Spec => []LicenceBound
  <1>1. IInv => LicenceBound
    BY SlotsBound DEF IInv
  <1>2. QED
    BY <1>1, Invariant, PTL

(* verify_and_consume_token, apply_password_reset: a password is changed   *)
(* once for each reset link that is spent, and by nothing else.            *)
THEOREM ResetLinkSpentOnce == Spec => []ResetOnce
  <1>1. IInv => ResetOnce
    BY DEF IInv
  <1>2. QED
    BY <1>1, Invariant, PTL

(* apply_password_reset: an active token was stored under the password its *)
(* user has now; nothing that overlaps a reset leaves another behind.      *)
THEOREM ActiveTokensAreNew == Spec => []ResetEndsSessions
  <1>1. IInv => ResetEndsSessions
    BY DEF IInv, Settled, ResetEndsSessions
  <1>2. QED
    BY <1>1, Invariant, PTL

(* refresh_token: a token is exchanged for one token, or for one by each   *)
(* of the requests that found it valid before the first of them committed. *)
THEOREM SuccessorsBounded == Spec => []SuccessorsBound
  <1>1. ASSUME IInv, NEW t \in DOMAIN tokens
        PROVE  Cardinality(Successors(t)) <= Cardinality(Requests)
    <2>1. PICK S, P : S = Successors(t) /\ P = Rotating(t)
      OBVIOUS
    <2>2. /\ IsFiniteSet(S) /\ IsFiniteSet(P) /\ Cardinality(Requests) \in Nat
          /\ Cardinality(S) + Cardinality(P) <= Cardinality(Requests)
      BY <1>1, <2>1, ChainFinite DEF IInv, Chains
    <2>3. Cardinality(S) \in Nat /\ Cardinality(P) \in Nat
      BY <2>2, FS_CardinalityType
    <2>4. QED
      BY <2>1, <2>2, <2>3
  <1>2. IInv => SuccessorsBound
    BY <1>1 DEF SuccessorsBound
  <1>3. QED
    BY <1>2, Invariant, PTL
=============================================================================
