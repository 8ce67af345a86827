------------------------------ MODULE Sessions ------------------------------
(***************************************************************************)
(* Logins, sessions and requests of the web interface (web/auth.py).  A      *)
(* login goes to an external identity provider and comes back to the         *)
(* callback; it leaves a row that carries the level of the user.  Every      *)
(* request looks up its session, renews it and is let in or refused.  The    *)
(* handlers run concurrently; each with-block of the code is a transaction,  *)
(* but a row that was read may have changed when it is written.  A restart   *)
(* of the server loses the handlers, not the rows.                           *)
(*                                                                         *)
(* Cookies and their hashes are identified with the login they were made     *)
(* for.  Content types, audit events and headers are left out.               *)
(***************************************************************************)
EXTENDS Integers, FiniteSets

CONSTANTS Logins,
          Callbacks,     \* callbacks of the provider that arrive
          CallbackOf,    \* CallbackOf[c]: the login of the state they carry
          Requests,      \* concurrent requests
          Levels,        \* ROLE_LEVEL, positive numbers
          Tokens,        \* ID tokens the provider may answer with
          TxnLife,       \* 600 s
          Lifetime,      \* AUTH_SESSION_LIFETIME
          IdleTime,      \* AUTH_IDLE_TIMEOUT
          Leeway,        \* 60 s
          MaxAuthTime,   \* bound
          Absent

ASSUME SessionsAssumption ==
  /\ Levels \subseteq Nat /\ Lifetime \in Nat \ {0} /\ IdleTime \in Nat
  /\ CallbackOf \in [Callbacks -> Logins]
  /\ \A t \in Tokens : /\ t.levels \subseteq Levels
                       /\ t.levels # {} => \E n \in t.levels : \A k \in t.levels : k <= n
  /\ Absent \notin [level : Levels, used : Nat, expires : Nat]
  /\ Absent \notin [login : Logins, need : Levels, leaves : BOOLEAN,
                    level : Levels, step : {"read", "leaving"}]

VARIABLES authTime,   \* the clock
          begun,      \* logins whose transaction was made
          txn,        \* rows of oidc_login_transactions: their expiry
          redeemed,   \* logins whose code the provider has redeemed
          callback,   \* how far each callback is
          session,    \* rows of auth_sessions
          req,        \* what each request has read of its session
          admitted    \* <<login, level>>: the requests that were let in

sessionVars ==
  <<authTime, begun, txn, redeemed, callback, session, req, admitted>>

SessionInit ==
  /\ authTime = 0
  /\ begun = {}
  /\ txn = [l \in Logins |-> Absent]
  /\ redeemed = {}
  /\ callback = [c \in Callbacks |-> "coming"]
  /\ session = [l \in Logins |-> Absent]
  /\ req = [r \in Requests |-> Absent]
  /\ admitted = {}

-----------------------------------------------------------------------------
(* Logging in.                                                              *)

\* login: a new transaction; those that expired are deleted.
Login(l) ==
  /\ l \notin begun
  /\ begun' = begun \cup {l}
  /\ txn' = [k \in Logins |->
               IF k = l THEN authTime + TxnLife
               ELSE IF txn[k] # Absent /\ txn[k] <= authTime THEN Absent ELSE txn[k]]
  /\ UNCHANGED <<authTime, redeemed, callback, session, req, admitted>>

Goes(c, to) == callback' = [callback EXCEPT ![c] = to]

\* callback: the transaction is read; two callbacks may both have read it.
ReadTransaction(c) ==
  /\ callback[c] = "coming"
  /\ CallbackOf[c] \in begun
  /\ \E ownBrowser \in BOOLEAN :
       IF ownBrowser /\ txn[CallbackOf[c]] # Absent /\ txn[CallbackOf[c]] > authTime
       THEN Goes(c, "read") ELSE Goes(c, "refused")
  /\ UNCHANGED <<authTime, begun, txn, redeemed, session, req, admitted>>

DeleteTransaction(c) ==
  /\ callback[c] = "read"
  /\ txn' = [txn EXCEPT ![CallbackOf[c]] = Absent]
  /\ Goes(c, "redeeming")
  /\ UNCHANGED <<authTime, begun, redeemed, session, req, admitted>>

\* The checks of the claims of an ID token, made when it has arrived.
ClaimsAccepted(t, l) ==
  /\ t.ours /\ t.nonce = l
  /\ "us" \in t.aud
  /\ t.exp # Absent => authTime - Leeway <= t.exp
  /\ t.nbf # Absent => t.nbf - Leeway <= authTime
  /\ Cardinality(t.aud) > 1 => t.azp = "us"
  /\ t.azp \in {Absent, "us"}

Level(t) == CHOOSE n \in t.levels : \A k \in t.levels : k <= n

\* The code is redeemed, which the provider does once (external); the session
\* begins with the highest level of the user, and expired rows are deleted.
Issue(c) ==
  LET l == CallbackOf[c] IN
  /\ callback[c] = "redeeming"
  /\ l \notin redeemed
  /\ redeemed' = redeemed \cup {l}
  /\ \E t \in Tokens :
       IF ClaimsAccepted(t, l) /\ t.levels # {}
       THEN /\ Goes(c, "issued")
            /\ session' = [k \in Logins |->
                 IF k = l THEN [level |-> Level(t), used |-> authTime,
                                expires |-> authTime + Lifetime]
                 ELSE IF session[k] # Absent /\ session[k].expires <= authTime THEN Absent
                 ELSE session[k]]
       ELSE Goes(c, "refused") /\ UNCHANGED session
  /\ UNCHANGED <<authTime, begun, txn, req, admitted>>

\* No answer, no usable key, no valid signature, or the code was redeemed.
ExchangeFails(c) ==
  /\ callback[c] = "redeeming"
  /\ Goes(c, "refused")
  /\ UNCHANGED <<authTime, begun, txn, redeemed, session, req, admitted>>

-----------------------------------------------------------------------------
(* Requests.                                                               *)

Usable(l) == session[l] # Absent /\ session[l].expires > authTime

IdleTooLong(l) == authTime - session[l].used > IdleTime

\* security_before_request: the row is read; one that was idle too long is
\* deleted.  Logging out is a request like the others.
Look(r, l, need, leaves) ==
  /\ req[r] = Absent
  /\ Usable(l)
  /\ IF IdleTooLong(l)
     THEN session' = [session EXCEPT ![l] = Absent] /\ UNCHANGED req
     ELSE /\ req' = [req EXCEPT ![r] = [login |-> l, need |-> need, leaves |-> leaves,
                                        level |-> session[l].level, step |-> "read"]]
          /\ UNCHANGED session
  /\ UNCHANGED <<authTime, begun, txn, redeemed, callback, admitted>>

\* Mutant: the row is written whether it is still there or not.
RenewedAnew(q) ==
  [session EXCEPT ![q.login] = [level |-> q.level, used |-> authTime,
                                expires |-> authTime + Lifetime]]

Renewed(q) ==
  IF session[q.login] = Absent THEN session
  ELSE [session EXCEPT ![q.login].used = authTime]

\* The row is renewed, which fails if it was deleted meanwhile; then the level
\* and the token of the form are checked.
Renew(r) ==
  LET q == req[r] IN
  /\ q # Absent /\ q.step = "read"
  /\ session' = Renewed(q)
  /\ \E formToken \in BOOLEAN :
       IF session[q.login] # Absent /\ q.level >= q.need /\ formToken
       THEN /\ admitted' = admitted \cup {<<q.login, q.need>>}
            /\ req' = [req EXCEPT ![r] = IF q.leaves THEN [q EXCEPT !.step = "leaving"]
                                         ELSE Absent]
       ELSE req' = [req EXCEPT ![r] = Absent] /\ UNCHANGED admitted
  /\ UNCHANGED <<authTime, begun, txn, redeemed, callback>>

\* logout
Leave(r) ==
  /\ req[r] # Absent /\ req[r].step = "leaving"
  /\ session' = [session EXCEPT ![req[r].login] = Absent]
  /\ req' = [req EXCEPT ![r] = Absent]
  /\ UNCHANGED <<authTime, begun, txn, redeemed, callback, admitted>>

-----------------------------------------------------------------------------
\* A request takes far less than a unit of time.
SessionTick ==
  /\ authTime < MaxAuthTime
  /\ \A r \in Requests : req[r] = Absent
  /\ authTime' = authTime + 1
  /\ UNCHANGED <<begun, txn, redeemed, callback, session, req, admitted>>

SessionRestart ==
  /\ req' = [r \in Requests |-> Absent]
  /\ callback' = [c \in Callbacks |->
                    IF callback[c] \in {"read", "redeeming"} THEN "refused" ELSE callback[c]]
  /\ UNCHANGED <<authTime, begun, txn, redeemed, session, admitted>>

SessionNext ==
  \/ \E l \in Logins : Login(l)
  \/ \E c \in Callbacks :
       ReadTransaction(c) \/ DeleteTransaction(c) \/ Issue(c) \/ ExchangeFails(c)
  \/ \E r \in Requests :
       \/ \E l \in Logins, need \in Levels, leaves \in BOOLEAN : Look(r, l, need, leaves)
       \/ Renew(r) \/ Leave(r)
  \/ SessionTick \/ SessionRestart

SessionSpec == SessionInit /\ [][SessionNext]_sessionVars

-----------------------------------------------------------------------------
(* The contract.                                                            *)

Issued(l) == \E c \in Callbacks : CallbackOf[c] = l /\ callback[c] = "issued"

SessionState ==
  [l \in Logins |->
     IF session[l] # Absent
     THEN [phase |-> "open", level |-> session[l].level,
           opened |-> session[l].expires - Lifetime, used |-> session[l].used]
     ELSE [phase |-> IF Issued(l) THEN "ended" ELSE "unopened",
           level |-> 0, opened |-> 0, used |-> 0]]

Contract == INSTANCE SessionContract
              WITH Idle <- IdleTime, time <- authTime, state <- SessionState

\* Whatever order the handlers take, sessions follow the contract: a login
\* opens one at most, requests are let in only up to its level and only while it
\* is neither too old nor idle, and one that was ended does not come back when a
\* request that had read it renews it.
SessionsFollowContract == Contract!ContractSpec
=============================================================================
