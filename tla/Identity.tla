------------------------------ MODULE Identity ------------------------------
(***************************************************************************)
(* Users, refresh tokens, password reset links, licences and trading       *)
(* accounts behind the REST interface.  A request is one transaction at    *)
(* READ COMMITTED: it reads committed rows, and get_db commits at its end  *)
(* or rolls everything back.  It is split at the points where what another *)
(* request commits makes a difference, and waits where PostgreSQL makes it *)
(* wait: for a row another request has locked.                             *)
(*                                                                         *)
(* A request that fails before its first write changes nothing and has no  *)
(* action.  An INSERT is part of the step that commits (the session does   *)
(* not flush before), and waits there for the users row it refers to.      *)
(***************************************************************************)
EXTENDS Integers, Sequences, FiniteSets

CONSTANTS Users,        \* e-mail addresses
          Early,        \* those registered at the start
          Serials,      \* serial codes that were sold
          Requests,     \* requests that may be under way at a time
          None,
          MaxRequests   \* bound on the number of requests

ASSUME IdentityAssumption ==
    /\ Early \subseteq Users
    /\ MaxRequests \in Nat
    /\ Serials \cap 1..MaxRequests = {}
    /\ None \notin Serials \cup 1..MaxRequests
    /\ IsFiniteSet(Requests) /\ Requests # {}

Licences == Serials \cup 1..MaxRequests

(* A row of licenses.                                                      *)
Licence == [owner : Users \cup {None}, status : {"UNUSED", "ACTIVE", "EXPIRED"}, past : BOOLEAN, limit : Int]

ASSUME LicenceAssumption == None \notin Licence

VARIABLES
    users,      \* rows of users
    password,   \* how often the hash of a user has been replaced
    tokens,     \* rows of refresh_tokens in the order they were stored
    resets,     \* rows of password_reset_tokens
    licence,    \* rows of licenses, or None
    accounts,   \* rows of trading_accounts
    req,        \* the requests under way, None for a free slot
    started,    \* number of requests so far
    paid        \* history: the licence a user registered with

(* A row of refresh_tokens records, as history, the token it was rotated   *)
(* from (0 for a login), and the password there was when it was stored.    *)

rows == <<users, password, tokens, resets, licence, accounts>>
vars == <<rows, req, started, paid>>

-----------------------------------------------------------------------------
(* Requests.                                                               *)

BeginWith(r, op, user, row, seen) ==
    /\ req[r] = None
    /\ started < MaxRequests
    /\ started' = started + 1
    /\ req' = [req EXCEPT ![r] = [op |-> op, user |-> user, row |-> row, seen |-> seen]]

Begin(r, op, user, row) == BeginWith(r, op, user, row, {})

(* The next statement of a request that goes on.                           *)
Proceed(r, op, seen) ==
    /\ req' = [req EXCEPT ![r].op = op, ![r].seen = seen]
    /\ UNCHANGED started

At(r, op) == req[r] # None /\ req[r].op = op

(* get_db: the slot is free again once the transaction has ended.          *)
End(r) == req' = [req EXCEPT ![r] = None] /\ UNCHANGED started

(* A request of one statement.                                             *)
Single ==
    /\ started < MaxRequests
    /\ started' = started + 1
    /\ UNCHANGED req

(* An exception rolls the transaction back; what it committed before (see  *)
(* Provision and Upgrade) stays.                                           *)
Rollback(r) ==
    /\ req[r] # None
    /\ End(r)
    /\ UNCHANGED <<rows, paid>>

-----------------------------------------------------------------------------
(* Locks.  PostgreSQL keeps them until the transaction ends.               *)

(* The rows of a user that an UPDATE of the tokens not revoked finds.      *)
Unrevoked(u) == {t \in DOMAIN tokens : tokens[t].user = u /\ tokens[t].state # "revoked"}

(* The tokens a request has updated.                                       *)
TokensLocked(r) == IF req[r] = None THEN {} ELSE req[r].seen

Consuming == {"consumed", "locked", "revoked"}

(* Mutant: the row of the user is read without FOR UPDATE.                 *)
UserLocked_Never(r, u) == FALSE

(* apply_password_reset holds the row of its user FOR UPDATE.              *)
UserLocked(r, u) == (At(r, "locked") \/ At(r, "revoked")) /\ req[r].user = u

(* Requests whose next statement inserts a row that refers to the user:    *)
(* the foreign key takes a share of the users row.                         *)
Referring == {"provision", "insert", "delete", "login", "superseded", "logout"}

(* The next statement of q waits for p.                                    *)
Waits(q, p) ==
    /\ q # p /\ req[q] # None
    /\ \/ /\ At(q, "register") /\ At(p, "registered")
          /\ req[q].user = req[p].user \/ req[q].row = req[p].row
       \/ At(q, "rotate") /\ req[q].row \in TokensLocked(p)
       \/ At(q, "locked") /\ Unrevoked(req[q].user) \cap TokensLocked(p) # {}
       \/ req[q].op \in Referring \cup {"consumed"} /\ UserLocked(p, req[q].user)

Free(r) == \A p \in Requests : ~Waits(r, p)

(* A single statement that refers to u.                                    *)
Refers(u) == \A p \in Requests : ~UserLocked(p, u)

(* The database ends a request that waits in a circle.                     *)
Deadlocked(r) ==
    \E S \in SUBSET Requests : r \in S /\ \A q \in S : \E p \in S : Waits(q, p)

Abort(r) == Deadlocked(r) /\ Rollback(r)

-----------------------------------------------------------------------------
(* Registration and licences.                                              *)

Active(u) == {l \in Licences : licence[l] # None /\ licence[l].owner = u /\ licence[l].status = "ACTIVE"}

Activated(u, limit) == [owner |-> u, status |-> "ACTIVE", past |-> FALSE, limit |-> limit]

register(r, u, c) ==
    /\ u \notin users
    /\ Begin(r, "register", u, c)
    /\ UNCHANGED <<rows, paid>>

(* Mutant: the row is read without FOR UPDATE.                             *)
activate_license_for_user_NoLock(r) ==
    /\ At(r, "register")
    /\ req[r].user \notin users
    /\ licence[req[r].row].status = "UNUSED"
    /\ Proceed(r, "registered", {})
    /\ UNCHANGED <<rows, paid>>

(* The flush of the user waits for another insert of the same address, the *)
(* SELECT ... FOR UPDATE for another activation of the same code.          *)
activate_license_for_user(r) ==
    /\ At(r, "register")
    /\ req[r].user \notin users
    /\ Free(r)
    /\ licence[req[r].row].status = "UNUSED"
    /\ Proceed(r, "registered", {})
    /\ UNCHANGED <<rows, paid>>

(* IntegrityError, or an HTTPException of activate_license_for_user.       *)
Refuse(r) ==
    /\ At(r, "register")
    /\ \/ req[r].user \in users
       \/ licence[req[r].row].status # "UNUSED"
    /\ End(r)
    /\ UNCHANGED <<rows, paid>>

Registered(r) ==
    /\ At(r, "registered")
    /\ LET u == req[r].user
           c == req[r].row
       IN  /\ users' = users \cup {u}
           /\ licence' = [licence EXCEPT ![c] = Activated(u, @.limit)]
           /\ paid' = [paid EXCEPT ![u] = c]
    /\ End(r)
    /\ UNCHANGED <<password, tokens, resets, accounts>>

(* The licences that are ACTIVE although their time is over.               *)
Over(u) == {l \in Active(u) : licence[l].past}

(* Mutant: the row of an expired licence stays ACTIVE.                     *)
Expired_Kept(S) == licence

(* get_user_active_license: the one ACTIVE row, which a user must not have *)
(* two of (scalar_one_or_none raises), and which is EXPIRED when its time  *)
(* is over.                                                                *)
Expired(S) == [l \in Licences |-> IF l \in S THEN [licence[l] EXCEPT !.status = "EXPIRED"] ELSE licence[l]]

get_user_active_license(u) == Active(u) \ Over(u)

me(u) ==
    /\ u \in users /\ Cardinality(Active(u)) <= 1
    /\ Single
    /\ licence' = Expired(Over(u))
    /\ UNCHANGED <<users, password, tokens, resets, accounts, paid>>

-----------------------------------------------------------------------------
(* Accounts.                                                               *)

Owned(u) == {a \in DOMAIN accounts : accounts[a].owner = u}

ActiveAccounts(u) == {a \in Owned(u) : accounts[a].active}

(* check_user_can_create_account, up to its decision.                      *)
create_account(r, u) ==
    /\ u \in users /\ Cardinality(Active(u)) <= 1
    /\ LET valid == get_user_active_license(u)
       IN  \/ valid = {} /\ \E l \in IF Over(u) = {} THEN {None} ELSE Over(u) : Begin(r, "provision", u, l)
           \/ \E l \in valid :
                 LET n == Cardinality(ActiveAccounts(u))
                 IN  Begin(r, IF licence[l].limit # -1 /\ n >= licence[l].limit THEN "upgrade" ELSE "insert", u, l)
    /\ UNCHANGED <<rows, paid>>

(* A user without a licence is given one, and that is committed together   *)
(* with the end of the one the request read.                               *)
Provision(r) ==
    /\ At(r, "provision") /\ Free(r)
    /\ \E l \in 1..MaxRequests :
          /\ licence[l] = None /\ \A k \in 1..l - 1 : licence[k] # None
          /\ licence' = [Expired({req[r].row}) EXCEPT ![l] = Activated(req[r].user, -1)]
    /\ Proceed(r, "insert", {})
    /\ UNCHANGED <<users, password, tokens, resets, accounts, paid>>

Upgrade(r) ==
    /\ At(r, "upgrade")
    /\ licence' = [licence EXCEPT ![req[r].row].limit = -1]
    /\ Proceed(r, "insert", {})
    /\ UNCHANGED <<users, password, tokens, resets, accounts, paid>>

(* A broker that is not supported or a factor that is not positive rolls   *)
(* back here: see Rollback.                                                *)
Insert(r) ==
    /\ At(r, "insert") /\ Free(r)
    /\ accounts' = Append(accounts, [owner |-> req[r].user, active |-> TRUE, trading |-> FALSE])
    /\ End(r)
    /\ UNCHANGED <<users, password, tokens, resets, licence, paid>>

patch_account(a, active, trading) ==
    /\ Refers(accounts[a].owner)
    /\ Single
    /\ accounts' = [accounts EXCEPT ![a] = [@ EXCEPT !.active = active, !.trading = trading]]
    /\ UNCHANGED <<users, password, tokens, resets, licence, paid>>

delete_account(r, a) ==
    /\ ~accounts[a].trading
    /\ Begin(r, "delete", accounts[a].owner, a)
    /\ UNCHANGED <<rows, paid>>

Deleted(r) ==
    /\ At(r, "delete") /\ Free(r)
    /\ accounts' = [accounts EXCEPT ![req[r].row].active = FALSE]
    /\ End(r)
    /\ UNCHANGED <<users, password, tokens, resets, licence, paid>>

-----------------------------------------------------------------------------
(* Refresh tokens.                                                         *)

Revoked(S) ==
    [t \in DOMAIN tokens |-> IF t \in S THEN [tokens[t] EXCEPT !.state = "revoked"] ELSE tokens[t]]

store_refresh_jti(rowsOf, u, parent) ==
    Append(rowsOf, [user |-> u, state |-> "active", parent |-> parent, stored |-> password[u]])

login(r, u) ==
    /\ u \in users
    /\ Begin(r, "login", u, None)
    /\ UNCHANGED <<rows, paid>>

LoggedIn(r) ==
    /\ At(r, "login") /\ Free(r)
    /\ tokens' = store_refresh_jti(tokens, req[r].user, 0)
    /\ End(r)
    /\ UNCHANGED <<users, password, resets, licence, accounts, paid>>

is_refresh_jti_valid(t) == tokens[t].state = "active"

refresh_token(r, t) ==
    /\ is_refresh_jti_valid(t)
    /\ Begin(r, "rotate", tokens[t].user, t)
    /\ UNCHANGED <<rows, paid>>

(* Mutant: the old token stays valid.                                      *)
revoke_refresh_jti_Keep(t) == {}

(* The row the UPDATE finds: none when the token has been revoked.         *)
revoke_refresh_jti(t) == {t} \cap Unrevoked(tokens[t].user)

(* Whether it was, the caller does not ask.                                *)
Supersede(r) ==
    /\ At(r, "rotate") /\ Free(r)
    /\ Proceed(r, "superseded", revoke_refresh_jti(req[r].row))
    /\ UNCHANGED <<rows, paid>>

Rotated(r) ==
    /\ At(r, "superseded") /\ Free(r)
    /\ LET t == req[r].row
       IN  tokens' = store_refresh_jti(Revoked(req[r].seen), req[r].user, t)
    /\ End(r)
    /\ UNCHANGED <<users, password, resets, licence, accounts, paid>>

(* The token in the body need not be one of the user who logs out.         *)
logout(r, u, t) ==
    /\ u \in users
    /\ \A p \in Requests : t \notin TokensLocked(p)
    /\ BeginWith(r, "logout", u, t, revoke_refresh_jti(t))
    /\ UNCHANGED <<rows, paid>>

LoggedOut(r) ==
    /\ At(r, "logout") /\ Free(r)
    /\ tokens' = Revoked(req[r].seen)
    /\ End(r)
    /\ UNCHANGED <<users, password, resets, licence, accounts, paid>>

-----------------------------------------------------------------------------
(* Password reset.                                                         *)

forgot_password(u) ==
    /\ u \in users /\ Refers(u)
    /\ Single
    /\ resets' = Append(resets, [user |-> u, state |-> "open"])
    /\ UNCHANGED <<users, password, tokens, licence, accounts, paid>>

(* Mutant: the row is read without FOR UPDATE.                             *)
verify_and_consume_token_NoLock(r, k) ==
    /\ resets[k].state = "open"
    /\ Begin(r, "consumed", resets[k].user, k)
    /\ UNCHANGED <<rows, paid>>

verify_and_consume_token(r, k) ==
    /\ resets[k].state = "open"
    /\ \A q \in Requests : req[q] # None /\ req[q].op \in Consuming => req[q].row # k
    /\ Begin(r, "consumed", resets[k].user, k)
    /\ UNCHANGED <<rows, paid>>

(* Mutant: a reset waits for every other reset of the user.                *)
LockUser_Waits(r) ==
    /\ At(r, "consumed") /\ Free(r)
    /\ \A q \in Requests \ {r} : req[q] # None /\ req[q].op \in Consuming => req[q].user # req[r].user
    /\ Proceed(r, "locked", {})
    /\ UNCHANGED <<rows, paid>>

LockUser(r) ==
    /\ At(r, "consumed") /\ Free(r)
    /\ Proceed(r, "locked", {})
    /\ UNCHANGED <<rows, paid>>

(* No row of the user can be added while the lock is held.                 *)
revoke_all_user_refresh_tokens(r) ==
    /\ At(r, "locked") /\ Free(r)
    /\ Proceed(r, "revoked", Unrevoked(req[r].user))
    /\ UNCHANGED <<rows, paid>>

apply_password_reset(r) ==
    /\ At(r, "revoked")
    /\ resets' = [resets EXCEPT ![req[r].row].state = "used"]
    /\ password' = [password EXCEPT ![req[r].user] = @ + 1]
    /\ tokens' = Revoked(req[r].seen)
    /\ End(r)
    /\ UNCHANGED <<users, licence, accounts, paid>>

-----------------------------------------------------------------------------
(* Time.                                                                   *)

LicenceEnds(l) ==
    /\ licence[l] # None /\ licence[l].status = "ACTIVE" /\ ~licence[l].past
    /\ licence' = [licence EXCEPT ![l].past = TRUE]
    /\ UNCHANGED <<users, password, tokens, resets, accounts, req, started, paid>>

TokenEnds(t) ==
    /\ tokens[t].state = "active"
    /\ tokens' = [tokens EXCEPT ![t].state = "expired"]
    /\ UNCHANGED <<users, password, resets, licence, accounts, req, started, paid>>

LinkEnds(k) ==
    /\ resets[k].state = "open"
    /\ resets' = [resets EXCEPT ![k].state = "expired"]
    /\ UNCHANGED <<users, password, tokens, licence, accounts, req, started, paid>>

-----------------------------------------------------------------------------
(* The users of Early have registered with a serial code each.             *)
Init ==
    /\ users = Early
    /\ \E code \in [Early -> Serials] :
          /\ \A u, v \in Early : code[u] = code[v] => u = v
          /\ paid = [u \in Users |-> IF u \in Early THEN code[u] ELSE None]
    /\ licence = [l \in Licences |->
          IF l \notin Serials THEN None
          ELSE IF \E u \in Early : paid[u] = l
               THEN Activated(CHOOSE u \in Early : paid[u] = l, 1)
               ELSE [owner |-> None, status |-> "UNUSED", past |-> FALSE, limit |-> 1]]
    /\ password = [u \in Users |-> 0]
    /\ tokens = <<>> /\ resets = <<>> /\ accounts = <<>>
    /\ req = [r \in Requests |-> None]
    /\ started = 0

Start(r) ==
    \/ \E u \in Users : (\E c \in Serials : register(r, u, c)) \/ create_account(r, u) \/ login(r, u)
    \/ \E a \in DOMAIN accounts : delete_account(r, a)
    \/ \E t \in DOMAIN tokens : refresh_token(r, t) \/ \E u \in Users : logout(r, u, t)
    \/ \E k \in DOMAIN resets : verify_and_consume_token(r, k)

Step(r) ==
    \/ activate_license_for_user(r) \/ Refuse(r) \/ Registered(r)
    \/ Provision(r) \/ Upgrade(r) \/ Insert(r) \/ Deleted(r)
    \/ LoggedIn(r) \/ Supersede(r) \/ Rotated(r) \/ LoggedOut(r)
    \/ LockUser(r) \/ revoke_all_user_refresh_tokens(r) \/ apply_password_reset(r)

Short ==
    \/ \E u \in Users : me(u) \/ forgot_password(u)
    \/ \E a \in DOMAIN accounts, active, trading \in BOOLEAN : patch_account(a, active, trading)

Time ==
    \/ \E l \in Licences : LicenceEnds(l)
    \/ \E t \in DOMAIN tokens : TokenEnds(t)
    \/ \E k \in DOMAIN resets : LinkEnds(k)

Next == (\E r \in Requests : Start(r) \/ Step(r) \/ Rollback(r)) \/ Short \/ Time

(* A request that can go on does; the database ends a circle of waits.     *)
Fairness == \A r \in Requests : WF_vars(Step(r)) /\ WF_vars(Abort(r))

Spec == Init /\ [][Next]_vars /\ Fairness

-----------------------------------------------------------------------------
(* Properties.                                                             *)

(* activate_license_for_user: a serial code pays for one registration,     *)
(* however many race for it, and a registered user has paid with one.      *)
SerialOnce ==
    \A u \in users : /\ paid[u] # None /\ licence[paid[u]].owner = u
                     /\ \A v \in users : paid[u] = paid[v] => u = v

(* create_account gives a licence to a user who has none.  Requests that   *)
(* overlap may each do so, and the user then has as many ACTIVE ones, which *)
(* get_user_active_license cannot read; never more than that.              *)
LicenceBound == \A u \in Users : Cardinality(Active(u)) <= Cardinality(Requests)

(* verify_and_consume_token: every change of a password has spent a reset  *)
(* link of its own.                                                        *)
ResetOnce ==
    \A u \in Users : password[u] = Cardinality({k \in DOMAIN resets : resets[k].user = u /\ resets[k].state = "used"})

(* apply_password_reset: whatever token is active has been stored under    *)
(* the present password; a request that overlaps a reset cannot leave one  *)
(* behind that the reset did not see.  (The session that it belongs to may *)
(* be older: a rotation that waits for the reset stores its token after.)  *)
ResetEndsSessions ==
    \A t \in DOMAIN tokens : tokens[t].state = "active" => tokens[t].stored = password[tokens[t].user]

(* The tokens issued for a token.                                          *)
Successors(t) == {s \in DOMAIN tokens : tokens[s].parent = t}

(* Rotation: a token is exchanged once, or by requests that overlap; when  *)
(* one of them has committed no other can begin.                           *)
SuccessorsBound == \A t \in DOMAIN tokens : Cardinality(Successors(t)) <= Cardinality(Requests)

(* Every request ends: a circle of row locks is broken, and nothing else   *)
(* makes two requests wait for each other.                                 *)
RequestsEnd == \A r \in Requests : (req[r] # None) ~> (req[r] = None)
=============================================================================
