--------------------------- MODULE MobileSession ---------------------------
(***************************************************************************)
(* Who is signed in on the phone: auth.service.ts and auth.context.tsx     *)
(* over the secure store, the socket of realtime.service.ts that           *)
(* realtime.context.tsx opens and closes after them, and the backend's     *)
(* AuthService and OperationalGateway on the other end.                    *)
(*                                                                         *)
(* A session is one pair of tokens; it carries the user it was issued to   *)
(* and the number of the call that asked for it.  The secure store's calls *)
(* finish in any order, but in order on one key.                           *)
(***************************************************************************)
EXTENDS Integers, FiniteSets
LOCAL INSTANCE TLC

CONSTANTS Users,
          MaxCalls,  \* bound: what the user and the backend ask of the phone
          MaxFaults  \* bound: failed calls, lost messages, expiries, kills in the middle

ASSUME MobileSessionAssumption == MaxCalls \in Nat /\ MaxFaults \in Nat

VARIABLES accounts, \* the users that are registered
          expired,  \* the sessions whose access token has expired
          secure,   \* the secure store
          native,   \* its writes and deletions that are not done yet
          auth,     \* AuthState.status
          session,  \* AuthState.session: a user and a session's tokens
          call,     \* the login, registration or logout that is on
          due,      \* the lifecycle effect of RealtimeProvider has to run
          socket,   \* RealtimeService: its socket, token and status
          calls, faults

sessionVars == <<accounts, expired, secure, native, auth, session, call, due, socket>>
vars_phone == <<sessionVars, calls, faults>>

(* ACCESS_KEY, REFRESH_KEY and USER_KEY; EXPIRES_AT_KEY goes with them and *)
(* decides nothing.                                                        *)
Keys == {"auth.access", "auth.refresh", "auth.user"}

None == [is |-> "none"]
Idle == [at |-> "idle"]
Issued(user, n) == [user |-> user, n |-> n]

(* The phone as it is after an installation, or after somebody signed in. *)
SessionInit ==
    /\ \/ accounts = {} /\ secure = [k \in Keys |-> None]
       \/ \E u \in Users : accounts = {u} /\ secure = [k \in Keys |-> Issued(u, 0)]
    /\ expired = {} /\ native = {}
    /\ auth = "initializing" /\ session = None /\ call = Idle
    /\ due = FALSE /\ socket = None
    /\ calls = 0 /\ faults = 0

Called == calls < MaxCalls /\ calls' = calls + 1
Fault == faults < MaxFaults /\ faults' = faults + 1

(* setState: the effect depends on the status and on the access token. *)
Becomes(status, s) == auth' = status /\ session' = s /\ due' = TRUE

----------------------------------------------------------------------------
(* setSecure and deleteSecure: a native call for each key. *)

Ops(value) == {[key |-> k, value |-> value, n |-> call.n] : k \in Keys}

(* op belongs to the Promise.all that the call awaits. *)
Awaited(op) == call.at \in {"persist", "delete"} /\ op.n = call.n

Persisted == [user |-> call.token.user, token |-> call.token]

NativeDone(op) ==
    /\ op \in native /\ \A o \in native : o.key = op.key => o.n >= op.n
    /\ secure' = [secure EXCEPT ![op.key] = op.value]
    /\ native' = native \ {op}
    /\ IF ~Awaited(op) \/ \E o \in native \ {op} : Awaited(o)
       THEN UNCHANGED <<auth, session, due, call>>
       ELSE /\ call' = Idle
            /\ IF call.at = "persist" THEN Becomes("authenticated", Persisted)
               ELSE Becomes("unauthenticated", None)
    /\ UNCHANGED <<accounts, expired, socket, calls, faults>>

(* The first failure rejects Promise.all; the other calls go on.  A login  *)
(* that fails leaves the status as it is, a logout ends in any case.       *)
NativeFails(op) ==
    /\ Fault
    /\ op \in native /\ native' = native \ {op}
    /\ IF ~Awaited(op) THEN UNCHANGED <<auth, session, due, call>>
       ELSE /\ call' = Idle
            /\ IF call.at = "persist" THEN UNCHANGED <<auth, session, due>>
               ELSE Becomes("unauthenticated", None)
    /\ UNCHANGED <<accounts, expired, secure, socket, calls>>

----------------------------------------------------------------------------
(* RootNavigator: the screens that are mounted. *)
Stack == CASE auth = "initializing"  -> {}
           [] auth = "authenticated" -> {"Dashboard", "Missions", "Alerts", "Log", "Settings"}
           [] OTHER                  -> {"Login", "Register"}

(* OperationalButton is off while the context is busy. *)
Pressable == call = Idle

Submit(kind, user) ==
    /\ Pressable /\ Called
    /\ call' = [at |-> "server", n |-> calls', kind |-> kind, user |-> user]
    /\ UNCHANGED <<accounts, expired, secure, native, auth, session, due, socket, faults>>

Login(user)    == "Login" \in Stack /\ Submit("login", user)
Register(user) == "Register" \in Stack /\ Submit("register", user)

(* AuthService.login and register of the backend: who may sign in. *)
Accepted == IF call.kind = "register" THEN call.user \notin accounts ELSE call.user \in accounts

(* The answer: persistSession writes the four keys, or the error is shown. *)
Served ==
    /\ call.at = "server"
    /\ IF Accepted
       THEN LET token == Issued(call.user, call.n) IN
            /\ accounts' = accounts \cup {call.user}
            /\ native' = native \cup Ops(token)
            /\ call' = [at |-> "persist", n |-> call.n, token |-> token]
       ELSE call' = Idle /\ UNCHANGED <<accounts, native>>
    /\ UNCHANGED <<expired, secure, auth, session, due, socket, calls, faults>>

(* The request or its answer is lost, or 15 s pass. *)
ServedInVain ==
    /\ Fault /\ call.at = "server"
    /\ accounts' \in {accounts, IF Accepted THEN accounts \cup {call.user} ELSE accounts}
    /\ call' = Idle
    /\ UNCHANGED <<expired, secure, native, auth, session, due, socket, calls>>

Logout ==
    /\ "Settings" \in Stack /\ Pressable /\ Called
    /\ call' = [at |-> "read", n |-> calls']
    /\ UNCHANGED <<accounts, expired, secure, native, auth, session, due, socket, faults>>

(* A fault for the runs: the user is left behind. *)
DiscardFault ==
    /\ call.at = "read"
    /\ call' = [call EXCEPT !.at = "delete"]
    /\ native' = native \cup {op \in Ops(None) : op.key # "auth.user"}
    /\ UNCHANGED <<accounts, expired, secure, auth, session, due, socket, calls, faults>>

(* logout: the token is read and, if there is one, sent to a route that    *)
(* the backend does not have; whatever comes of it, the keys are deleted.  *)
Discard ==
    /\ call.at = "read"
    /\ call' = [call EXCEPT !.at = "delete"]
    /\ native' = native \cup Ops(None)
    /\ UNCHANGED <<accounts, expired, secure, auth, session, due, socket, calls, faults>>

(* getAccessToken is rejected: nothing is deleted. *)
DiscardFails ==
    /\ Fault /\ call.at = "read"
    /\ call' = Idle /\ Becomes("unauthenticated", None)
    /\ UNCHANGED <<accounts, expired, secure, native, socket, calls>>

----------------------------------------------------------------------------
(* loadPersistedSession: the user, the access token and the refresh token  *)
(* have to be there; whether they expired is not looked at.                *)
loadPersistedSession ==
    IF \E k \in Keys : secure[k] = None THEN None
    ELSE [user |-> secure["auth.user"].user, token |-> secure["auth.access"]]

Restore ==
    /\ auth = "initializing"
    /\ LET s == loadPersistedSession IN
       Becomes(IF s = None THEN "unauthenticated" ELSE "authenticated", s)
    /\ UNCHANGED <<accounts, expired, secure, native, call, socket, calls, faults>>

RestoreFails ==
    /\ Fault /\ auth = "initializing" /\ Becomes("unauthenticated", None)
    /\ UNCHANGED <<accounts, expired, secure, native, call, socket, calls>>

(* The process is killed; it counts as a fault while a call is on. *)
SessionKilled ==
    /\ auth # "initializing"
    /\ IF call = Idle /\ native = {} THEN UNCHANGED faults ELSE Fault
    /\ auth' = "initializing" /\ session' = None /\ call' = Idle /\ native' = {}
    /\ due' = FALSE /\ socket' = None
    /\ UNCHANGED <<accounts, expired, secure, calls>>

(* The access token of the session expires. *)
Expire ==
    /\ Fault /\ session # None
    /\ expired' = expired \cup {session.token}
    /\ UNCHANGED <<accounts, secure, native, auth, session, call, due, socket, calls>>

(* JwtStrategy: the signature holds, the token has not expired, and nobody *)
(* deactivates a user.                                                     *)
Valid(token) == token \notin expired

(* A request with the token of the store gets through: the user it is for. *)
Bearer == IF secure["auth.access"] = None \/ ~Valid(secure["auth.access"]) THEN None
          ELSE [is |-> "user", user |-> secure["auth.access"].user]

----------------------------------------------------------------------------
(* RealtimeService *)

disconnect == None
Opened(token) == [token |-> token, status |-> "connecting"]
SocketIs(status) == socket' = [socket EXCEPT !.status = status]

(* connect: nothing happens if there is a socket with that token. *)
connect(token) == IF socket # None /\ socket.token = token THEN socket ELSE Opened(token)

(* A fault for the runs: the socket is left open at logout. *)
LifecycleFault ==
    /\ due /\ due' = FALSE
    /\ socket' = IF auth # "authenticated" THEN socket ELSE connect(session.token)
    /\ UNCHANGED <<accounts, expired, secure, native, auth, session, call, calls, faults>>

(* The lifecycle effect of RealtimeProvider. *)
Lifecycle ==
    /\ due /\ due' = FALSE
    /\ socket' = IF auth # "authenticated" THEN disconnect ELSE connect(session.token)
    /\ UNCHANGED <<accounts, expired, secure, native, auth, session, call, calls, faults>>

restOfSession == <<accounts, expired, secure, native, auth, session, call, due>>

(* authenticateSocket *)
Authentic == socket.token \notin expired

(* The socket connects, and handleConnection joins the user's room or      *)
(* disconnects; socket.io does not connect again after that.               *)
HandleConnection ==
    /\ socket # None /\ socket.status \in {"connecting", "reconnecting"}
    /\ SocketIs(IF Authentic THEN "connected" ELSE "offline")
    /\ UNCHANGED <<restOfSession, calls, faults>>

(* The connection breaks, or cannot be made. *)
OnDisconnect ==
    /\ Fault
    /\ socket # None /\ socket.status \in {"connecting", "connected"}
    /\ SocketIs("reconnecting")
    /\ UNCHANGED <<restOfSession, calls>>

SessionNext ==
    \/ \E u \in Users : Login(u) \/ Register(u)
    \/ Served \/ ServedInVain \/ Logout \/ Discard \/ DiscardFails
    \/ \E op \in native : NativeDone(op) \/ NativeFails(op)
    \/ Restore \/ RestoreFails \/ Expire
    \/ Lifecycle \/ HandleConnection \/ OnDisconnect

(* The users are alike. *)
Symmetry == Permutations(Users)

----------------------------------------------------------------------------

(* auth.service.ts:39-163.  Without a fault the secure store is empty when *)
(* nobody is signed in, and holds the session when somebody is: the phone  *)
(* starts again as it was.  A session whose user is not the one its tokens *)
(* were issued to is put together from two only after two faults, such as  *)
(* a logout and a login that were both interrupted.                        *)
SessionIsWhole ==
    /\ faults = 0 /\ call = Idle =>
          /\ auth = "unauthenticated" => \A k \in Keys : secure[k] = None
          /\ auth = "authenticated"   => \A k \in Keys : secure[k] = session.token
    /\ faults <= 1 /\ session # None => session.user = session.token.user

(* realtime.context.tsx:62-77, realtime.service.ts:120-210,                *)
(* operational.gateway.ts:66-85.  Once the effect has run, the socket is   *)
(* the one of the session, and there is none without a session: what is    *)
(* pushed reaches nobody who signed out, nor the next user what is for the *)
(* one before.  A socket is given up for good only when its token expired. *)
SocketIsSessions ==
    /\ ~due => IF auth = "authenticated" THEN socket # None /\ socket.token = session.token
               ELSE socket = None
    /\ socket # None /\ socket.status = "offline" => socket.token \in expired
----------------------------------------------------------------------------
(***************************************************************************)
(* The inductive invariant behind SessionIsWhole and SocketIsSessions.     *)
(***************************************************************************)

Tokens == [user : Users, n : Nat]
Writes == [key : Keys, value : Tokens \cup {None}, n : Nat]
Calls == {Idle} \cup [at : {"server"}, n : Nat, kind : {"login", "register"}, user : Users]
           \cup [at : {"persist"}, n : Nat, token : Tokens]
           \cup [at : {"read", "delete"}, n : Nat]
Sockets == [token : Tokens, status : {"connecting", "connected", "reconnecting", "offline"}]

SessionTyped ==
    /\ calls \in Nat /\ faults \in Nat
    /\ secure \in [Keys -> Tokens \cup {None}] /\ native \in SUBSET Writes
    /\ auth \in {"initializing", "unauthenticated", "authenticated"}
    /\ session \in [user : Users, token : Tokens] \cup {None}
    /\ call \in Calls /\ socket \in Sockets \cup {None}

Writing == call.at \in {"persist", "delete"}

(* What the call that is on leaves under every key. *)
Goal == IF call.at = "persist" THEN call.token ELSE None

(* The status tells which calls may be on, and whether there is a session. *)
StatusTells ==
    /\ call.at \in {"server", "persist"} => auth = "unauthenticated"
    /\ call.at \in {"read", "delete"} => auth = "authenticated"
    /\ session # None <=> auth = "authenticated"

(* The writes of the call that is on are the last that anybody issued.     *)
WritesNumbered ==
    /\ \A op \in native : op.n <= calls
    /\ call # Idle => /\ call.n <= calls
                      /\ \A op \in native : op.n <= call.n
                      /\ \A op \in native : op.n = call.n => Writing /\ op.value = Goal

(* A key that waits for no write has got what the call is after.           *)
Settles ==
    Writing => \A k \in Keys : IF \E op \in native : op.key = k
                               THEN \E op \in native : op.key = k /\ op.n = call.n
                               ELSE secure[k] = Goal

(* What is or will be in the store was issued to one user.                 *)
Held == ({secure[k] : k \in Keys} \cup {op.value : op \in native}) \ {None}
OneUser == faults <= 1 /\ call.at # "persist" => \A v, w \in Held : v.user = w.user

(* Without a fault store, writes and session go together at every moment.  *)
Untroubled ==
    faults = 0 =>
      /\ \A op \in native : Writing /\ op.n = call.n
      /\ auth = "initializing" => \A j, k \in Keys : secure[j] = secure[k]
      /\ auth = "unauthenticated" => \A k \in Keys : secure[k] \in {None, Goal}
      /\ auth = "authenticated" => \A k \in Keys : \/ secure[k] = session.token
                                                   \/ call.at = "delete" /\ secure[k] = None

SessionInv ==
    /\ SessionTyped /\ StatusTells /\ WritesNumbered /\ Settles /\ OneUser /\ Untroubled
    /\ SessionIsWhole /\ SocketIsSessions
=============================================================================
