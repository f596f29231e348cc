-------------------------- MODULE MobileAppProofs --------------------------
(***************************************************************************)
(* The safety properties of the phone, and of the announcements on their   *)
(* way from the providers to the backend's table, for every set of users,  *)
(* announcements, ticks, rounds and generations, and any number of calls   *)
(* and faults.                                                             *)
(***************************************************************************)
EXTENDS MobileApp, Announcements, FiniteSetTheorems, SequenceTheorems, TLAPS

USE MobileSessionAssumption

----------------------------------------------------------------------------
(* Sessions *)

(* The placeholders are none of the values they stand in for. *)
LEMMA Placeholders ==
  /\ None \notin Tokens /\ None \notin Sockets /\ None \notin [user : Users, token : Tokens]
  /\ \A u \in Users, n \in Nat : Issued(u, n) \in Tokens
BY DEF None, Tokens, Sockets, Issued

(* The fields that the call has at each of its stages. *)
LEMMA CallForms ==
  ASSUME SessionTyped
  PROVE  /\ call.at \in {"idle", "server", "persist", "read", "delete"}
         /\ call = Idle <=> call.at = "idle"
         /\ call # Idle => call.n \in Nat
         /\ call.at = "server" => call.user \in Users
         /\ call.at = "persist" => call.token \in Tokens
         /\ Goal \in Tokens \cup {None}
<1>1. call \in Calls
  BY DEF SessionTyped
<1>2. Idle.at = "idle"
  BY DEF Idle
<1> USE DEF Calls, Goal
<1>3. CASE call = Idle
  BY <1>2, <1>3
<1>4. CASE call \in [at : {"server"}, n : Nat, kind : {"login", "register"}, user : Users]
  BY <1>2, <1>4
<1>5. CASE call \in [at : {"persist"}, n : Nat, token : Tokens]
  BY <1>2, <1>5
<1>6. CASE call \in [at : {"read", "delete"}, n : Nat]
  BY <1>2, <1>6
<1>7. QED
  BY <1>1, <1>3, <1>4, <1>5, <1>6

(* A call writes every key. *)
LEMMA OpsCover ==
  ASSUME NEW value, NEW k \in Keys
  PROVE  \E op \in Ops(value) : op.key = k /\ op.n = call.n
<1> DEFINE op == [key |-> k, value |-> value, n |-> call.n]
<1>1. op \in Ops(value) /\ op.key = k /\ op.n = call.n
  BY DEF Ops
<1>2. QED
  BY <1>1

(* A login or a registration begins. *)
LEMMA SubmitKeeps ==
  ASSUME SessionInv, NEW user \in Users, NEW kind \in {"login", "register"},
         auth = "unauthenticated", Submit(kind, user)
  PROVE  SessionInv'
<1> USE DEF SessionInv, Submit, Called, Pressable
<1>1. /\ call.at = "idle" /\ call'.at = "server" /\ call'.n = calls + 1 /\ call' # Idle
      /\ call' \in Calls /\ calls \in Nat /\ calls' = calls + 1
  <2>1. calls \in Nat
    BY DEF SessionTyped
  <2>2. Idle.at = "idle"
    BY DEF Idle
  <2>3. QED
    BY <2>1, <2>2 DEF Calls
<1>2. SessionTyped'
  BY <1>1 DEF SessionTyped
<1>3. StatusTells'
  BY <1>1 DEF StatusTells
<1>4. WritesNumbered'
  BY <1>1 DEF WritesNumbered, SessionTyped, Writes
<1>5. Settles'
  BY <1>1 DEF Settles, Writing
<1>6. OneUser'
  BY <1>1 DEF OneUser, Held
<1>7. Untroubled'
  BY <1>1 DEF Untroubled, Writing, Goal
<1>8. SessionIsWhole'
  BY <1>1 DEF SessionIsWhole
<1>9. SocketIsSessions'
  BY DEF SocketIsSessions
<1>10. QED
  BY <1>2, <1>3, <1>4, <1>5, <1>6, <1>7, <1>8, <1>9

LEMMA ServedKeeps ==
  ASSUME SessionInv, Served
  PROVE  SessionInv'
<1> USE DEF SessionInv, Served
<1>1. /\ call.at = "server" /\ call # Idle /\ call.n \in Nat /\ call.n <= calls
      /\ call.user \in Users /\ Idle.at = "idle" /\ Goal = None /\ ~Writing
  BY CallForms DEF Idle, Goal, Writing, WritesNumbered
<1>2. auth = "unauthenticated"
  BY <1>1 DEF StatusTells
<1>3. CASE Accepted
  <2> DEFINE token == Issued(call.user, call.n)
  <2>1. token \in Tokens /\ token # None
    BY <1>1, Placeholders
  <2> HIDE DEF token
  <2>2. /\ call' = [at |-> "persist", n |-> call.n, token |-> token]
        /\ native' = native \cup Ops(token)
    BY <1>3 DEF token
  <2>3. /\ call'.at = "persist" /\ call'.n = call.n /\ call'.token = token /\ call' # Idle
        /\ Writing' /\ Goal' = token
    BY <1>1, <2>2 DEF Writing, Goal
  <2>4. \A op \in native : op.n <= call.n /\ op.n # call.n
    BY <1>1 DEF WritesNumbered
  <2>5. Ops(token) \subseteq Writes
    BY <1>1, <2>1 DEF Ops, Writes
  <2>6. \A op \in Ops(token) : op.n = call.n /\ op.value = token
    BY DEF Ops
  <2>7. SessionTyped'
    <3>1. call' \in Calls
      BY <1>1, <2>1, <2>2 DEF Calls
    <3>2. QED
      BY <3>1, <2>2, <2>5 DEF SessionTyped
  <2>8. StatusTells'
    BY <2>3, <1>2 DEF StatusTells
  <2>9. WritesNumbered'
    <3>1. \A op \in native' : op.n <= call.n /\ (op.n = call.n => op.value = token)
      BY <1>1, <2>2, <2>4, <2>6
    <3>2. call.n <= calls' /\ \A op \in native' : op.n <= calls'
      BY <1>1, <2>2, <2>6 DEF WritesNumbered
    <3>3. QED
      BY <3>1, <3>2, <2>3 DEF WritesNumbered
  <2>10. Settles'
    <3>1. \A k \in Keys : \E op \in native' : op.key = k /\ op.n = call'.n
      BY <2>2, <2>3, OpsCover
    <3>2. QED
      BY <3>1 DEF Settles
  <2>11. OneUser'
    BY <2>3 DEF OneUser
  <2>12. Untroubled'
    <3>1. faults = 0 => native = {} /\ \A k \in Keys : secure[k] = None
      BY <1>1, <1>2 DEF Untroubled
    <3>2. QED
      BY <3>1, <1>2, <2>2, <2>3, <2>6 DEF Untroubled
  <2>13. SessionIsWhole'
    BY <2>3 DEF SessionIsWhole
  <2>14. QED
    BY <2>7, <2>8, <2>9, <2>10, <2>11, <2>12, <2>13 DEF SocketIsSessions
<1>4. CASE ~Accepted
  <2>1. call' = Idle /\ UNCHANGED <<native, secure, session, auth, socket, due, expired, calls, faults>>
    BY <1>4
  <2>2. call'.at = "idle" /\ Goal' = None /\ ~Writing'
    BY <2>1, <1>1 DEF Goal, Writing
  <2>3. SessionTyped'
    BY <2>1 DEF SessionTyped, Calls
  <2>4. StatusTells' /\ WritesNumbered' /\ Settles' /\ SocketIsSessions'
    BY <2>1, <2>2 DEF StatusTells, WritesNumbered, Settles, SocketIsSessions
  <2>5. OneUser'
    BY <1>1, <2>1 DEF OneUser, Held
  <2>6. Untroubled' /\ SessionIsWhole'
    BY <1>1, <1>2, <2>1, <2>2 DEF Untroubled, SessionIsWhole
  <2>7. QED
    BY <2>3, <2>4, <2>5, <2>6
<1>5. QED
  BY <1>3, <1>4

(* The call is over, whatever it left, and that has cost a fault. *)
LEMMA GivenUpKeeps ==
  ASSUME SessionInv, Fault, call' = Idle, call.at \in {"server", "read"},
         \/ UNCHANGED <<auth, session, due>>
         \/ Becomes("unauthenticated", None),
         call.at = "server" => UNCHANGED auth,
         call.at = "read" => Becomes("unauthenticated", None),
         UNCHANGED <<expired, secure, native, socket, calls>>
  PROVE  SessionInv'
<1> USE DEF SessionInv, Fault, Becomes
<1>1. faults \in Nat /\ faults' = faults + 1 /\ Idle.at = "idle" /\ call'.at = "idle" /\ ~Writing'
  BY DEF SessionTyped, Idle, Writing
<1>2. SessionTyped'
  BY <1>1 DEF SessionTyped, Calls
<1>3. StatusTells' /\ WritesNumbered' /\ Settles'
  BY <1>1 DEF StatusTells, WritesNumbered, Settles
<1>4. OneUser' /\ Untroubled'
  BY <1>1 DEF OneUser, Held, Untroubled
<1>5. SessionIsWhole'
  BY <1>1 DEF SessionIsWhole
<1>6. SocketIsSessions'
  BY <1>1 DEF SocketIsSessions, StatusTells
<1>7. QED
  BY <1>2, <1>3, <1>4, <1>5, <1>6

LEMMA LogoutKeeps ==
  ASSUME SessionInv, Logout
  PROVE  SessionInv'
<1> USE DEF SessionInv, Logout, Called, Pressable
<1>1. /\ call.at = "idle" /\ call'.at = "read" /\ call'.n = calls + 1 /\ call' # Idle
      /\ call' \in Calls /\ calls \in Nat /\ calls' = calls + 1 /\ Goal = None
  BY DEF SessionTyped, Idle, Calls, Goal
<1>2. auth = "authenticated"
  BY DEF Stack, SessionTyped
<1>3. SessionTyped'
  BY <1>1 DEF SessionTyped
<1>4. StatusTells'
  BY <1>1, <1>2 DEF StatusTells
<1>5. WritesNumbered'
  BY <1>1 DEF WritesNumbered, SessionTyped, Writes
<1>6. Settles' /\ OneUser'
  BY <1>1 DEF Settles, Writing, OneUser, Held
<1>7. Untroubled'
  BY <1>1, <1>2 DEF Untroubled, Writing, Goal
<1>8. SessionIsWhole' /\ SocketIsSessions'
  BY <1>1 DEF SessionIsWhole, SocketIsSessions
<1>9. QED
  BY <1>3, <1>4, <1>5, <1>6, <1>7, <1>8

LEMMA DiscardKeeps ==
  ASSUME SessionInv, Discard
  PROVE  SessionInv'
<1> USE DEF SessionInv, Discard
<1>1. /\ call.at = "read" /\ call # Idle /\ call.n \in Nat /\ call.n <= calls
      /\ Idle.at = "idle" /\ ~Writing /\ call \in Calls
  BY CallForms DEF Idle, Writing, WritesNumbered, SessionTyped
<1>2. auth = "authenticated"
  BY <1>1 DEF StatusTells
<1>3. call \in [at : {"read", "delete"}, n : Nat]
  BY <1>1 DEF Calls
<1>4. /\ call' \in [at : {"read", "delete"}, n : Nat]
      /\ call'.at = "delete" /\ call'.n = call.n /\ call' # Idle /\ Writing' /\ Goal' = None
  BY <1>1, <1>3 DEF Writing, Goal
<1>5. \A op \in native : op.n <= call.n /\ op.n # call.n
  BY <1>1 DEF WritesNumbered
<1>6. Ops(None) \subseteq Writes /\ \A op \in Ops(None) : op.n = call.n /\ op.value = None
  BY <1>1 DEF Ops, Writes
<1>7. SessionTyped'
  BY <1>4, <1>6 DEF SessionTyped, Calls
<1>8. StatusTells'
  BY <1>2, <1>4 DEF StatusTells
<1>9. WritesNumbered'
  BY <1>1, <1>4, <1>5, <1>6 DEF WritesNumbered
<1>10. Settles'
  <2>1. \A k \in Keys : \E op \in native' : op.key = k /\ op.n = call'.n
    BY <1>4, OpsCover
  <2>2. QED
    BY <2>1 DEF Settles
<1>11. OneUser'
  <2>1. Held' = Held
    BY <1>6 DEF Held, Ops, Keys
  <2>2. QED
    BY <1>1, <2>1 DEF OneUser
<1>12. Untroubled'
  <2>1. faults = 0 => native = {} /\ \A k \in Keys : secure[k] = session.token
    BY <1>1, <1>2 DEF Untroubled
  <2>2. QED
    BY <2>1, <1>2, <1>4, <1>6 DEF Untroubled
<1>13. SessionIsWhole' /\ SocketIsSessions'
  BY <1>4 DEF SessionIsWhole, SocketIsSessions
<1>14. QED
  BY <1>7, <1>8, <1>9, <1>10, <1>11, <1>12, <1>13

(* The last write of a call leaves its value under every key, and no other *)
(* write.                                                                  *)
LEMMA LastWrite ==
  ASSUME SessionInv, NEW op \in native, Awaited(op),
         \A o \in native : o.key = op.key => o.n >= op.n,
         ~\E o \in native \ {op} : Awaited(o)
  PROVE  /\ native \ {op} = {}
         /\ \A k \in Keys : [secure EXCEPT ![op.key] = op.value][k] = Goal
<1> USE DEF SessionInv
<1>1. Writing /\ op.n = call.n /\ call # Idle /\ op.value = Goal /\ op.key \in Keys /\ op.n \in Nat
  BY DEF Awaited, Writing, Idle, WritesNumbered, SessionTyped, Writes
<1>2. \A o \in native : o.n \in Nat /\ o.key \in Keys /\ o.n <= call.n
  BY <1>1 DEF WritesNumbered, SessionTyped, Writes
<1>3. \A o \in native : o.n = call.n => o = op
  BY <1>1 DEF Awaited, Writing
<1>4. \A o \in native : o = op
  <2> SUFFICES ASSUME NEW o \in native PROVE o = op
    OBVIOUS
  <2>1. \E x \in native : x.key = o.key /\ x.n = call.n
    BY <1>1, <1>2 DEF Settles
  <2>2. o.key = op.key
    BY <2>1, <1>3
  <2>3. o.n >= op.n /\ o.n <= call.n
    BY <2>2, <1>2
  <2>4. o.n = call.n
    BY <2>3, <1>1, <1>2
  <2>5. QED
    BY <2>4, <1>3
<1>5. \A k \in Keys : k # op.key => secure[k] = Goal
  BY <1>1, <1>4 DEF Settles
<1>6. secure \in [Keys -> Tokens \cup {None}]
  BY DEF SessionTyped
<1>7. QED
  BY <1>1, <1>4, <1>5, <1>6

(* A write or a deletion is done. *)
LEMMA NativeDoneKeeps ==
  ASSUME SessionInv, NEW op \in native, NativeDone(op)
  PROVE  SessionInv'
<1> USE DEF SessionInv
<1>1. /\ native' = native \ {op} /\ secure' = [secure EXCEPT ![op.key] = op.value]
      /\ \A o \in native : o.key = op.key => o.n >= op.n
      /\ UNCHANGED <<accounts, expired, socket, calls, faults>>
  BY DEF NativeDone
<1>2. /\ op.key \in Keys /\ op.value \in Tokens \cup {None} /\ op.n \in Nat
      /\ secure \in [Keys -> Tokens \cup {None}] /\ native \subseteq Writes
      /\ \A o \in native : o.n \in Nat /\ o.key \in Keys
  BY DEF SessionTyped, Writes
<1>3. secure' \in [Keys -> Tokens \cup {None}] /\ native' \subseteq Writes
  BY <1>1, <1>2
<1>4. \A k \in Keys : secure'[k] = IF k = op.key THEN op.value ELSE secure[k]
  BY <1>1, <1>2
<1>5. Held' \subseteq Held
  BY <1>1, <1>4 DEF Held
<1>6. CASE Awaited(op) /\ ~\E o \in native \ {op} : Awaited(o)
  <2>1. native' = {} /\ \A k \in Keys : secure'[k] = Goal
    BY <1>1, <1>6, LastWrite
  <2>2. /\ call' = Idle
        /\ IF call.at = "persist" THEN Becomes("authenticated", Persisted)
           ELSE Becomes("unauthenticated", None)
    BY <1>6 DEF NativeDone
  <2>3. /\ call'.at = "idle" /\ ~Writing' /\ due'
        /\ IF call.at = "persist" THEN auth' = "authenticated" /\ session' = Persisted
           ELSE auth' = "unauthenticated" /\ session' = None
    BY <2>2 DEF Idle, Writing, Becomes
  <2>4. call.at = "persist" => /\ call.token \in Tokens /\ Goal = call.token
                               /\ Persisted \in [user : Users, token : Tokens]
                               /\ Persisted.token = Goal /\ Persisted.user = Goal.user
    BY CallForms DEF Goal, Persisted, Tokens
  <2>5. call.at # "persist" => Goal = None
    BY DEF Goal
  <2>6. SessionTyped'
    BY <1>1, <1>3, <2>2, <2>3, <2>4 DEF SessionTyped, Calls
  <2>7. StatusTells'
    BY <2>3, <2>4, Placeholders DEF StatusTells
  <2>8. WritesNumbered' /\ Settles'
    BY <2>1, <2>2, <2>3 DEF WritesNumbered, Settles
  <2>9. OneUser'
    BY <2>1, <1>1 DEF OneUser, Held
  <2>10. Untroubled'
    BY <2>1, <2>3, <2>4, <2>5 DEF Untroubled
  <2>11. SessionIsWhole'
    BY <2>1, <2>3, <2>4, <2>5 DEF SessionIsWhole
  <2>12. SocketIsSessions'
    BY <1>1, <2>3 DEF SocketIsSessions
  <2>13. QED
    BY <2>6, <2>7, <2>8, <2>9, <2>10, <2>11, <2>12
<1>7. CASE ~(Awaited(op) /\ ~\E o \in native \ {op} : Awaited(o))
  <2>1. UNCHANGED <<auth, session, due, call>>
    BY <1>7 DEF NativeDone
  <2>2. Writing' = Writing /\ Goal' = Goal
    BY <2>1 DEF Writing, Goal
  <2>3. SessionTyped' /\ StatusTells' /\ WritesNumbered'
    BY <1>1, <1>3, <2>1, <2>2 DEF SessionTyped, StatusTells, WritesNumbered
  <2>4. Settles'
    <3> SUFFICES ASSUME Writing, NEW k \in Keys
                 PROVE  IF \E o \in native' : o.key = k
                        THEN \E o \in native' : o.key = k /\ o.n = call.n
                        ELSE secure'[k] = Goal
      BY <2>1, <2>2 DEF Settles
    <3>1. call # Idle /\ call.n \in Nat /\ \A o \in native : o.n <= call.n
      BY CallForms DEF Writing, WritesNumbered
    <3>2. IF \E o \in native : o.key = k
          THEN \E o \in native : o.key = k /\ o.n = call.n
          ELSE secure[k] = Goal
      BY DEF Settles
    <3>3. CASE k # op.key
      BY <3>2, <3>3, <1>1, <1>4
    <3>4. CASE k = op.key /\ \E o \in native' : o.key = k
      <4>1. PICK o \in native : o.key = k /\ o.n = call.n
        BY <3>2, <3>4
      <4>2. CASE o # op
        BY <4>1, <4>2, <1>1, <3>4
      <4>3. CASE o = op
        <5>1. PICK p \in native' : p.key = k
          BY <3>4
        <5>2. p.n >= op.n /\ p.n <= call.n /\ p.n \in Nat
          BY <5>1, <3>1, <3>4, <1>1, <1>2
        <5>3. p.n = call.n
          BY <5>2, <4>1, <4>3, <3>1
        <5>4. QED
          BY <5>1, <5>3, <3>4
      <4>4. QED
        BY <4>2, <4>3
    <3>5. CASE k = op.key /\ ~\E o \in native' : o.key = k
      <4>1. op.n = call.n
        BY <3>2, <3>5, <1>1
      <4>2. op.value = Goal
        BY <3>1, <4>1 DEF WritesNumbered
      <4>3. QED
        BY <3>5, <4>2, <1>4
    <3>6. QED
      BY <3>3, <3>4, <3>5
  <2>5. OneUser'
    BY <1>1, <1>5, <2>1 DEF OneUser
  <2>6. Untroubled'
    <3> SUFFICES ASSUME faults = 0 PROVE Untroubled'
      BY <1>1 DEF Untroubled
    <3>1. Writing /\ op.n = call.n /\ call # Idle
      BY DEF Untroubled, Writing, Idle
    <3>2. op.value = Goal
      BY <3>1 DEF WritesNumbered
    <3>3. \/ call.at = "persist" /\ auth = "unauthenticated"
          \/ call.at = "delete" /\ auth = "authenticated" /\ Goal = None
      BY <3>1 DEF Writing, StatusTells, Goal
    <3>4. QED
      BY <1>1, <1>4, <2>1, <2>2, <3>1, <3>2, <3>3 DEF Untroubled
  <2>7. SessionIsWhole'
    <3>1. faults = 0 => call # Idle
      BY DEF Untroubled, Writing, Idle
    <3>2. QED
      BY <1>1, <2>1, <3>1 DEF SessionIsWhole
  <2>8. SocketIsSessions'
    BY <1>1, <2>1 DEF SocketIsSessions
  <2>9. QED
    BY <2>3, <2>4, <2>5, <2>6, <2>7, <2>8
<1>8. QED
  BY <1>6, <1>7

(* A write or a deletion fails; the others go on. *)
LEMMA NativeFailsKeeps ==
  ASSUME SessionInv, NEW op \in native, NativeFails(op)
  PROVE  SessionInv'
<1> USE DEF SessionInv
<1>1. /\ native' = native \ {op} /\ faults' = faults + 1 /\ faults \in Nat
      /\ UNCHANGED <<accounts, expired, secure, socket, calls>>
  BY DEF NativeFails, Fault, SessionTyped
<1>2. Untroubled'
  BY <1>1 DEF Untroubled
<1>3. CASE ~Awaited(op)
  <2>1. UNCHANGED <<auth, session, due, call>>
    BY <1>3 DEF NativeFails
  <2>2. Writing' = Writing /\ Goal' = Goal
    BY <2>1 DEF Writing, Goal
  <2>3. Writing => op.n # call.n
    BY <1>3 DEF Awaited, Writing
  <2>4. SessionTyped' /\ StatusTells' /\ WritesNumbered'
    BY <1>1, <2>1, <2>2 DEF SessionTyped, StatusTells, WritesNumbered
  <2>5. Settles'
    <3> SUFFICES ASSUME Writing, NEW k \in Keys
                 PROVE  IF \E o \in native' : o.key = k
                        THEN \E o \in native' : o.key = k /\ o.n = call.n
                        ELSE secure[k] = Goal
      BY <1>1, <2>1, <2>2 DEF Settles
    <3>1. IF \E o \in native : o.key = k
          THEN \E o \in native : o.key = k /\ o.n = call.n
          ELSE secure[k] = Goal
      BY DEF Settles
    <3>2. QED
      BY <1>1, <2>3, <3>1
  <2>6. OneUser'
    BY <1>1, <2>1 DEF OneUser, Held
  <2>7. SessionIsWhole' /\ SocketIsSessions'
    BY <1>1, <2>1 DEF SessionIsWhole, SocketIsSessions
  <2>8. QED
    BY <1>2, <2>4, <2>5, <2>6, <2>7
<1>4. CASE Awaited(op)
  <2>1. /\ call' = Idle /\ call'.at = "idle" /\ ~Writing'
        /\ IF call.at = "persist" THEN UNCHANGED <<auth, session, due>>
           ELSE Becomes("unauthenticated", None)
    BY <1>4 DEF NativeFails, Idle, Writing
  <2>2. SessionTyped'
    BY <1>1, <2>1 DEF SessionTyped, Calls, Becomes
  <2>3. StatusTells' /\ WritesNumbered' /\ Settles'
    BY <1>1, <2>1 DEF StatusTells, WritesNumbered, Settles, Becomes
  <2>4. OneUser'
    <3>1. Held' \subseteq Held
      BY <1>1 DEF Held
    <3>2. CASE call.at = "persist"
      <4> SUFFICES ASSUME faults = 0 PROVE \A v, w \in Held' : v.user = w.user
        BY <1>1 DEF OneUser
      <4>1. Writing /\ call # Idle /\ Goal = call.token /\ auth = "unauthenticated"
        BY <3>2 DEF Writing, Idle, Goal, StatusTells
      <4>2. \A o \in native : o.value = Goal
        BY <4>1 DEF Untroubled, WritesNumbered
      <4>3. \A k \in Keys : secure[k] \in {None, Goal}
        BY <4>1 DEF Untroubled
      <4>4. \A v \in Held : v = Goal
        BY <4>2, <4>3 DEF Held
      <4>5. QED
        BY <3>1, <4>4
    <3>3. CASE call.at # "persist"
      BY <1>1, <3>1, <3>3 DEF OneUser
    <3>4. QED
      BY <3>2, <3>3
  <2>5. SessionIsWhole' /\ SocketIsSessions'
    BY <1>1, <2>1 DEF SessionIsWhole, SocketIsSessions, Becomes
  <2>6. QED
    BY <1>2, <2>2, <2>3, <2>4, <2>5
<1>5. QED
  BY <1>3, <1>4

(* The app starts, and finds what the store holds. *)
LEMMA RestoreKeeps ==
  ASSUME SessionInv, Restore
  PROVE  SessionInv'
<1> USE DEF SessionInv
<1> DEFINE s == loadPersistedSession
<1>1. /\ auth = "initializing" /\ due' /\ session' = s
      /\ auth' = IF s = None THEN "unauthenticated" ELSE "authenticated"
      /\ UNCHANGED <<accounts, expired, secure, native, call, socket, calls, faults>>
  BY DEF Restore, Becomes
<1>2. call = Idle /\ call.at = "idle" /\ Goal = None /\ ~Writing
  BY <1>1, CallForms DEF StatusTells, Goal, Writing
<1>3. secure \in [Keys -> Tokens \cup {None}] /\ "auth.user" \in Keys /\ "auth.access" \in Keys
  BY DEF SessionTyped, Keys
<1>4. CASE \E k \in Keys : secure[k] = None
  <2>1. s = None /\ auth' = "unauthenticated"
    BY <1>1, <1>4 DEF loadPersistedSession
  <2>2. SessionTyped' /\ StatusTells' /\ WritesNumbered' /\ Settles' /\ OneUser'
    BY <1>1, <1>2, <2>1 DEF SessionTyped, StatusTells, WritesNumbered, Settles, OneUser, Held, Writing
  <2>3. faults = 0 => \A k \in Keys : secure[k] = None
    BY <1>1, <1>4 DEF Untroubled
  <2>4. Untroubled' /\ SessionIsWhole' /\ SocketIsSessions'
    BY <1>1, <1>2, <2>1, <2>3 DEF Untroubled, Writing, SessionIsWhole, SocketIsSessions
  <2>5. QED
    BY <2>2, <2>4
<1>5. CASE ~\E k \in Keys : secure[k] = None
  <2>1. s = [user |-> secure["auth.user"].user, token |-> secure["auth.access"]]
    BY <1>5 DEF loadPersistedSession
  <2>2. secure["auth.user"] \in Tokens /\ secure["auth.access"] \in Tokens
    BY <1>3, <1>5
  <2>3. s \in [user : Users, token : Tokens] /\ s # None
    <3>1. secure["auth.user"].user \in Users
      BY <2>2 DEF Tokens
    <3>2. s \in [user : Users, token : Tokens]
      BY <2>1, <2>2, <3>1
    <3>3. QED
      BY <3>2, Placeholders
  <2>4. s.token = secure["auth.access"] /\ s.user = secure["auth.user"].user
    BY <2>1
  <2>5. secure["auth.user"] \in Held /\ secure["auth.access"] \in Held
    BY <1>3, <1>5 DEF Held
  <2> HIDE DEF s
  <2>6. auth' = "authenticated"
    BY <1>1, <2>3
  <2>7. SessionTyped' /\ StatusTells' /\ WritesNumbered' /\ Settles' /\ OneUser'
    BY <1>1, <1>2, <2>3, <2>6
       DEF SessionTyped, StatusTells, WritesNumbered, Settles, OneUser, Held, Writing
  <2>8. faults = 0 => \A k \in Keys : secure[k] = s.token
    BY <1>1, <1>3, <2>4 DEF Untroubled
  <2>9. faults <= 1 => s.user = s.token.user
    BY <1>2, <2>4, <2>5 DEF OneUser
  <2>10. Untroubled' /\ SessionIsWhole' /\ SocketIsSessions'
    BY <1>1, <1>2, <2>6, <2>8, <2>9 DEF Untroubled, Writing, SessionIsWhole, SocketIsSessions
  <2>11. QED
    BY <2>7, <2>10
<1>6. QED
  BY <1>4, <1>5

LEMMA RestoreFailsKeeps ==
  ASSUME SessionInv, RestoreFails
  PROVE  SessionInv'
<1> USE DEF SessionInv
<1>1. /\ auth = "initializing" /\ due' /\ session' = None /\ auth' = "unauthenticated"
      /\ faults' = faults + 1 /\ faults \in Nat
      /\ UNCHANGED <<accounts, expired, secure, native, call, socket, calls>>
  BY DEF RestoreFails, Becomes, Fault, SessionTyped
<1>2. call = Idle /\ call.at = "idle" /\ ~Writing
  BY <1>1, CallForms DEF StatusTells, Writing
<1>3. SessionTyped' /\ StatusTells' /\ WritesNumbered' /\ Settles' /\ OneUser'
  BY <1>1, <1>2 DEF SessionTyped, StatusTells, WritesNumbered, Settles, OneUser, Held, Writing
<1>4. Untroubled' /\ SessionIsWhole' /\ SocketIsSessions'
  BY <1>1 DEF Untroubled, SessionIsWhole, SocketIsSessions
<1>5. QED
  BY <1>3, <1>4

(* The process is killed. *)
LEMMA SessionKilledKeeps ==
  ASSUME SessionInv, SessionKilled
  PROVE  SessionInv'
<1> USE DEF SessionInv
<1>1. /\ auth # "initializing" /\ auth' = "initializing" /\ session' = None
      /\ call' = Idle /\ native' = {} /\ ~due' /\ socket' = None
      /\ UNCHANGED <<accounts, expired, secure, calls>>
      /\ \/ call = Idle /\ native = {} /\ faults' = faults
         \/ faults' = faults + 1
  BY DEF SessionKilled, Fault
<1>2. faults \in Nat /\ call'.at = "idle" /\ ~Writing'
  BY <1>1 DEF SessionTyped, Idle, Writing
<1>3. SessionTyped' /\ StatusTells' /\ WritesNumbered' /\ Settles'
  BY <1>1, <1>2 DEF SessionTyped, Calls, StatusTells, WritesNumbered, Settles
<1>4. OneUser'
  <2>1. Held' \subseteq Held
    BY <1>1 DEF Held
  <2>2. CASE call.at = "persist" /\ faults' = faults + 1
    <3> SUFFICES ASSUME faults = 0 PROVE \A v, w \in Held' : v.user = w.user
      BY <1>2, <2>2 DEF OneUser
    <3>1. \A k \in Keys : secure[k] \in {None, Goal}
      BY <2>2 DEF Untroubled, StatusTells
    <3>2. \A v \in Held' : v = Goal
      BY <1>1, <3>1 DEF Held
    <3>3. QED
      BY <3>2
  <2>3. CASE call.at # "persist"
    BY <1>1, <1>2, <2>1, <2>3 DEF OneUser
  <2>4. call = Idle => call.at # "persist"
    BY DEF Idle
  <2>5. QED
    BY <1>1, <2>2, <2>3, <2>4
<1>5. Untroubled'
  <2>1. auth \in {"unauthenticated", "authenticated"}
    BY <1>1 DEF SessionTyped
  <2>2. faults' = 0 => \A j, k \in Keys : secure[j] = secure[k]
    BY <1>1, <1>2, <2>1 DEF SessionIsWhole
  <2>3. QED
    BY <1>1, <2>2 DEF Untroubled
<1>6. SessionIsWhole' /\ SocketIsSessions'
  BY <1>1 DEF SessionIsWhole, SocketIsSessions
<1>7. QED
  BY <1>3, <1>4, <1>5, <1>6

(* The effect runs. *)
LEMMA LifecycleKeeps ==
  ASSUME SessionInv, Lifecycle
  PROVE  SessionInv'
<1> USE DEF SessionInv
<1>1. /\ ~due'
      /\ socket' = IF auth # "authenticated" THEN None ELSE connect(session.token)
      /\ UNCHANGED <<accounts, expired, secure, native, auth, session, call, calls, faults>>
  BY DEF Lifecycle, disconnect
<1>2. auth = "authenticated" =>
        /\ connect(session.token) \in Sockets
        /\ connect(session.token) # None /\ connect(session.token).token = session.token
        /\ connect(session.token).status = "offline" => session.token \in expired
  <2> SUFFICES ASSUME auth = "authenticated"
               PROVE  /\ connect(session.token) \in Sockets
                      /\ connect(session.token).token = session.token
                      /\ connect(session.token).status = "offline" => session.token \in expired
    BY Placeholders
  <2>1. session.token \in Tokens
    BY DEF SessionTyped, StatusTells
  <2>2. CASE socket # None /\ socket.token = session.token
    BY <2>2 DEF connect, SessionTyped, SocketIsSessions
  <2>3. CASE ~(socket # None /\ socket.token = session.token)
    BY <2>1, <2>3 DEF connect, Opened, Sockets
  <2>4. QED
    BY <2>2, <2>3
<1>3. SessionTyped'
  BY <1>1, <1>2 DEF SessionTyped
<1>4. StatusTells' /\ WritesNumbered' /\ Settles' /\ OneUser' /\ Untroubled' /\ SessionIsWhole'
  BY <1>1 DEF StatusTells, WritesNumbered, Settles, OneUser, Held, Untroubled, SessionIsWhole,
              Writing, Goal
<1>5. SocketIsSessions'
  BY <1>1, <1>2 DEF SocketIsSessions
<1>6. QED
  BY <1>3, <1>4, <1>5

(* The socket changes its status, and is given up only with its token; or  *)
(* a token expires, or a call or a fault of another part of the phone is   *)
(* counted.                                                                *)
LEMMA AroundKeeps ==
  ASSUME SessionInv,
         UNCHANGED <<secure, native, auth, session, call, due>>,
         socket' \in Sockets \cup {None}, socket' # None <=> socket # None,
         socket # None => socket'.token = socket.token,
         socket' # None /\ socket'.status = "offline" => socket'.token \in expired',
         calls' \in {calls, calls + 1}, faults' \in {faults, faults + 1}
  PROVE  SessionInv'
<1> USE DEF SessionInv
<1>1. calls \in Nat /\ faults \in Nat /\ (faults' = 0 => faults = 0) /\ (faults' <= 1 => faults <= 1)
  BY DEF SessionTyped
<1>2. SessionTyped' /\ StatusTells'
  BY <1>1 DEF SessionTyped, StatusTells
<1>3. WritesNumbered'
  <2>1. \A op \in native : op.n \in Nat
    BY DEF SessionTyped, Writes
  <2>2. call # Idle => call.n \in Nat
    BY CallForms
  <2>3. QED
    BY <1>1, <2>1, <2>2 DEF WritesNumbered, Writing, Goal
<1>4. Settles' /\ OneUser' /\ Untroubled' /\ SessionIsWhole'
  BY <1>1 DEF Settles, OneUser, Held, Untroubled, SessionIsWhole, Writing, Goal
<1>5. SocketIsSessions'
  BY DEF SocketIsSessions
<1>6. QED
  BY <1>2, <1>3, <1>4, <1>5

LEMMA SessionStep ==
  ASSUME SessionInv, SessionNext
  PROVE  SessionInv'
<1>1. calls \in Nat /\ faults \in Nat /\ socket \in Sockets \cup {None}
  BY DEF SessionInv, SessionTyped
<1>2. ASSUME NEW user \in Users, Login(user) PROVE SessionInv'
  <2>1. auth = "unauthenticated"
    BY <1>2 DEF Login, Stack, SessionInv, SessionTyped
  <2>2. Submit("login", user)
    BY <1>2 DEF Login
  <2>3. QED
    BY <2>1, <2>2, SubmitKeeps
<1>3. ASSUME NEW user \in Users, Register(user) PROVE SessionInv'
  <2>1. auth = "unauthenticated"
    BY <1>3 DEF Register, Stack, SessionInv, SessionTyped
  <2>2. Submit("register", user)
    BY <1>3 DEF Register
  <2>3. QED
    BY <2>1, <2>2, SubmitKeeps
<1>4. CASE Served
  BY <1>4, ServedKeeps
<1>5. CASE ServedInVain
  <2>1. /\ Fault /\ call' = Idle /\ call.at = "server"
        /\ UNCHANGED <<expired, secure, native, auth, session, due, socket, calls>>
    BY <1>5 DEF ServedInVain
  <2>2. QED
    BY <2>1, GivenUpKeeps
<1>6. CASE Logout
  BY <1>6, LogoutKeeps
<1>7. CASE Discard
  BY <1>7, DiscardKeeps
<1>8. CASE DiscardFails
  <2>1. /\ Fault /\ call' = Idle /\ call.at = "read" /\ Becomes("unauthenticated", None)
        /\ UNCHANGED <<expired, secure, native, socket, calls>>
    BY <1>8 DEF DiscardFails
  <2>2. QED
    BY <2>1, GivenUpKeeps
<1>9. ASSUME NEW op \in native, NativeDone(op) PROVE SessionInv'
  BY <1>9, NativeDoneKeeps
<1>10. ASSUME NEW op \in native, NativeFails(op) PROVE SessionInv'
  BY <1>10, NativeFailsKeeps
<1>11. CASE Restore
  BY <1>11, RestoreKeeps
<1>12. CASE RestoreFails
  BY <1>12, RestoreFailsKeeps
<1>13. CASE Expire
  <2>1. /\ UNCHANGED <<secure, native, auth, session, call, due, socket, calls>>
        /\ faults' = faults + 1 /\ expired \subseteq expired'
    BY <1>13 DEF Expire, Fault
  <2>2. socket # None /\ socket.status = "offline" => socket.token \in expired'
    BY <2>1 DEF SessionInv, SocketIsSessions
  <2>3. QED
    BY <1>1, <2>1, <2>2, AroundKeeps
<1>14. CASE Lifecycle
  BY <1>14, LifecycleKeeps
<1>15. ASSUME socket # None,
              NEW status \in {"connecting", "connected", "reconnecting", "offline"},
              SocketIs(status)
       PROVE  /\ socket' \in Sockets /\ socket' # None
              /\ socket'.token = socket.token /\ socket'.status = status
  <2>1. socket \in Sockets /\ socket' = [socket EXCEPT !.status = status]
    BY <1>1, <1>15 DEF SocketIs
  <2>2. socket' \in Sockets /\ socket'.token = socket.token /\ socket'.status = status
    BY <2>1 DEF Sockets
  <2>3. QED
    BY <2>2, Placeholders
<1>16. CASE HandleConnection
  <2> DEFINE status == IF Authentic THEN "connected" ELSE "offline"
  <2>1. /\ UNCHANGED <<expired, secure, native, auth, session, call, due, calls, faults>>
        /\ socket # None /\ SocketIs(status)
    BY <1>16 DEF HandleConnection, restOfSession
  <2>2. status \in {"connecting", "connected", "reconnecting", "offline"}
    OBVIOUS
  <2>3. status = "offline" => socket.token \in expired
    BY DEF Authentic
  <2> HIDE DEF status
  <2>4. /\ socket' \in Sockets /\ socket' # None
        /\ socket'.token = socket.token /\ socket'.status = status
    BY <1>15, <2>1, <2>2
  <2>5. socket'.status = "offline" => socket'.token \in expired'
    BY <2>1, <2>3, <2>4
  <2>6. QED
    BY <2>1, <2>4, <2>5, AroundKeeps
<1>17. CASE OnDisconnect
  <2>1. /\ UNCHANGED <<expired, secure, native, auth, session, call, due, calls>>
        /\ socket # None /\ SocketIs("reconnecting") /\ faults' = faults + 1
    BY <1>17 DEF OnDisconnect, restOfSession, Fault
  <2>2. /\ socket' \in Sockets /\ socket' # None
        /\ socket'.token = socket.token /\ socket'.status # "offline"
    BY <1>15, <2>1
  <2>3. QED
    BY <2>1, <2>2, AroundKeeps
<1>18. QED
  BY <1>2, <1>3, <1>4, <1>5, <1>6, <1>7, <1>8, <1>9, <1>10, <1>11, <1>12, <1>13, <1>14,
     <1>16, <1>17 DEF SessionNext

(* What the rest of the phone counts changes nothing about the session. *)
LEMMA SessionUntouched ==
  ASSUME SessionInv, UNCHANGED sessionVars,
         calls' \in {calls, calls + 1}, faults' \in {faults, faults + 1}
  PROVE  SessionInv'
<1>1. /\ UNCHANGED <<expired, secure, native, auth, session, call, due, socket>>
      /\ socket \in Sockets \cup {None}
      /\ socket # None /\ socket.status = "offline" => socket.token \in expired
  BY DEF sessionVars, SessionInv, SessionTyped, SocketIsSessions
<1>2. QED
  BY <1>1, AroundKeeps

LEMMA SessionStarts == SessionInit => SessionInv
<1> SUFFICES ASSUME SessionInit PROVE SessionInv
  OBVIOUS
<1>1. /\ native = {} /\ auth = "initializing" /\ session = None /\ call = Idle /\ due = FALSE
      /\ socket = None /\ calls = 0 /\ faults = 0
  BY DEF SessionInit
<1>2. call.at = "idle" /\ ~Writing
  BY <1>1 DEF Idle, Writing
<1>3. PICK v \in Tokens \cup {None} : secure = [k \in Keys |-> v]
  BY Placeholders DEF SessionInit
<1>4. secure \in [Keys -> Tokens \cup {None}] /\ \A k \in Keys : secure[k] = v
  BY <1>3
<1>5. SessionTyped /\ StatusTells /\ WritesNumbered /\ Settles
  BY <1>1, <1>2, <1>4 DEF SessionTyped, Calls, StatusTells, WritesNumbered, Settles
<1>6. OneUser
  <2>1. \A w \in Held : w = v
    BY <1>1, <1>4 DEF Held
  <2>2. QED
    BY <2>1 DEF OneUser
<1>7. Untroubled /\ SessionIsWhole /\ SocketIsSessions
  BY <1>1, <1>2, <1>4 DEF Untroubled, SessionIsWhole, SocketIsSessions
<1>8. QED
  BY <1>5, <1>6, <1>7 DEF SessionInv

----------------------------------------------------------------------------
(* Announcements *)

LEMMA TickForms ==
  ASSUME FeedTyped, NEW t \in Ticks
  PROVE  /\ tick[t] = Idle <=> tick[t].at = "idle"
         /\ tick[t] # Idle <=> tick[t].at \in {"mark", "notify"}
         /\ tick[t] # Idle => tick[t] \in [at : {"mark", "notify"}, a : Anns]
         /\ tick[t] # Idle => tick[t].a \in Anns
BY DEF FeedTyped, Idle

LEMMA RequestForms ==
  ASSUME FeedTyped, NEW q \in requests
  PROVE  /\ q.a \in Anns /\ q.sets \in {"delivered", "acknowledged"} /\ q.at \in {"sent", "save"}
         /\ q.at = "save" => q.row \in SUBSET {"delivered", "acknowledged"}
BY DEF FeedTyped, Requests

(* Nothing changes for an announcement whose row, whose ticks and whose    *)
(* calls stay as they are.                                                 *)
LEMMA ToldUntouched ==
  ASSUME NEW a \in Anns, Told(a), ann'[a] = ann[a], row'[a] = row[a],
         Between(a)' <=> Between(a), a \in stopping' <=> a \in stopping,
         \A q : q.a = a => (q \in requests' <=> q \in requests)
  PROVE  Told(a)'
BY DEF Told

LEMMA QueueAnnouncementKeeps ==
  ASSUME FeedInv, NEW a \in Anns, QueueAnnouncement(a)
  PROVE  FeedInv'
<1> USE DEF FeedInv, QueueAnnouncement
<1>1. /\ ann[a] = "absent" /\ ann \in [Anns -> {"absent", "queued", "played", "acknowledged"}]
      /\ \A b \in Anns : ann'[b] = IF b = a THEN "queued" ELSE ann[b]
  BY DEF FeedTyped
<1>2. FeedTyped'
  BY DEF FeedTyped, sounds
<1>3. Dispatch'
  <2>1. \A t \in Ticks : tick[t].at \in {"mark", "notify"} => tick[t].a \in Anns /\ tick[t].a # a
    BY <1>1, TickForms DEF Dispatch
  <2>2. QED
    BY <1>1, <2>1 DEF Dispatch
<1>4. Shows'
  BY <1>1 DEF Shows, Between, FeedTyped
<1>5. ASSUME NEW b \in Anns \ astray PROVE Told(b)'
  <2>1. Between(b)' <=> Between(b)
    BY DEF Between
  <2>2. CASE b # a
    BY <1>1, <2>1, <2>2, ToldUntouched
  <2>3. CASE b = a
    <3>1. (\A q \in requests : q.a # b) /\ b \notin stopping
      BY <1>1, <2>3 DEF Told, Shows
    <3>2. row[b] = {}
      BY <1>1, <2>3, <3>1 DEF Told
    <3>3. QED
      BY <1>1, <2>3, <3>1, <3>2 DEF Told
  <2>4. QED
    BY <2>2, <2>3
<1>6. SoundsTracked'
  BY DEF SoundsTracked, sounds
<1>7. QED
  BY <1>2, <1>3, <1>4, <1>5, <1>6

(* A sound is loaded, fails to load, ends, or is forgotten. *)
LEMMA SoundsKeep ==
  ASSUME FeedInv, NEW a \in Anns, Loaded(a) \/ LoadFails(a) \/ SoundEnds(a) \/ Forget(a)
  PROVE  FeedInv'
<1> USE DEF FeedInv
<1>1. /\ UNCHANGED <<ann, owner, tick, current, acking, stopping, stuck, requests, row, shown,
                     astray>>
      /\ loading' \subseteq Anns /\ playing' \subseteq Anns /\ late' \in BOOLEAN
  BY DEF Loaded, LoadFails, SoundEnds, Forget, FeedTyped
<1>2. FeedTyped' /\ Dispatch' /\ Shows'
  BY <1>1 DEF FeedTyped, Dispatch, Shows, Between
<1>3. \A b \in Anns \ astray : Told(b)'
  BY <1>1 DEF Told, Between
<1>4. SoundsTracked'
  <2>1. Nobody \notin playing
    BY MobileFeedAssumption DEF Nobody, FeedTyped
  <2>2. CASE Loaded(a)
    <3>1. playing' = playing \cup {a} /\ active' = a /\ late' = (late \/ current # a)
      BY <2>2 DEF Loaded
    <3>2. SUFFICES ASSUME ~late' PROVE playing' \subseteq {a} \cup stuck /\ current = a
      BY <1>1, <3>1 DEF SoundsTracked
    <3>3. ~late /\ current = a
      BY <3>1, <3>2
    <3>4. playing \subseteq {active} \cup stuck /\ active \in {Nobody, a}
      BY <3>3 DEF SoundsTracked
    <3>5. QED
      BY <2>1, <3>1, <3>3, <3>4
  <2>3. CASE LoadFails(a)
    BY <2>3 DEF LoadFails, SoundsTracked
  <2>4. CASE SoundEnds(a)
    BY <2>4 DEF SoundEnds, SoundsTracked
  <2>5. CASE Forget(a)
    BY <2>5 DEF Forget, SoundsTracked
  <2>6. QED
    BY <2>2, <2>3, <2>4, <2>5
<1>5. QED
  BY <1>1, <1>2, <1>3, <1>4

(* The sound that is stopped is out of reach only if that is rejected. *)
LEMMA UnloadTracks ==
  ASSUME FeedTyped, SoundsTracked, unloadActiveSound
  PROVE  /\ active' = Nobody /\ late' = late
         /\ playing' \subseteq Anns /\ stuck' \subseteq Anns
         /\ ~late => playing' \subseteq stuck'
<1>1. playing' \subseteq playing /\ stuck' \subseteq stuck \cup playing
  BY DEF unloadActiveSound
<1>2. ASSUME ~late PROVE playing' \subseteq stuck'
  <2>1. playing \subseteq {active} \cup stuck
    BY <1>2 DEF SoundsTracked
  <2>2. QED
    BY <2>1 DEF unloadActiveSound
<1>3. QED
  BY <1>1, <1>2 DEF unloadActiveSound, FeedTyped

LEMMA TickReadsKeeps ==
  ASSUME FeedInv, NEW t \in Ticks, TickReads(t)
  PROVE  FeedInv'
<1> USE DEF FeedInv
<1>1. PICK a \in getNextQueued : tick' = [tick EXCEPT ![t] = [at |-> "mark", a |-> a]]
  BY DEF TickReads
<1>2. /\ a \in Anns /\ ann[a] = "queued" /\ \A u \in Ticks : tick[u] = Idle
      /\ UNCHANGED <<ann, owner, current, acking, stopping, sounds, requests, row, shown, astray>>
  BY DEF TickReads, getNextQueued, Queued, dispatching
<1>3. /\ tick \in [Ticks -> {Idle} \cup [at : {"mark", "notify"}, a : Anns]]
      /\ tick'[t] = [at |-> "mark", a |-> a] /\ Idle.at = "idle"
      /\ \A u \in Ticks : u # t => tick'[u] = Idle
  BY <1>1, <1>2 DEF FeedTyped, Idle
<1>4. FeedTyped'
  BY <1>1, <1>2 DEF FeedTyped, sounds
<1>5. Dispatch'
  BY <1>2, <1>3 DEF Dispatch
<1>6. \A b \in Anns : ~Between(b) /\ ~Between(b)'
  BY <1>2, <1>3 DEF Between
<1>7. Shows'
  BY <1>2, <1>6 DEF Shows
<1>8. \A b \in Anns \ astray : Told(b)'
  BY <1>2, <1>6, ToldUntouched
<1>9. QED
  BY <1>2, <1>4, <1>5, <1>7, <1>8 DEF SoundsTracked, sounds

LEMMA TickMarksKeeps ==
  ASSUME FeedInv, NEW t \in Ticks, TickMarks(t)
  PROVE  FeedInv'
<1> USE DEF FeedInv
<1> DEFINE a == tick[t].a
<1>1. /\ tick[t].at = "mark" /\ ann' = [ann EXCEPT ![a] = "played"]
      /\ tick' = [tick EXCEPT ![t].at = "notify"]
      /\ UNCHANGED <<owner, current, acking, stopping, sounds, requests, row, shown, astray>>
  BY DEF TickMarks
<1>2. a \in Anns /\ ann[a] = "queued" /\ tick[t] \in [at : {"mark", "notify"}, a : Anns]
  BY <1>1, TickForms DEF Dispatch
<1>3. \A u \in Ticks : u # t => tick[u] = Idle
  BY <1>1, TickForms DEF Dispatch
<1>4. /\ tick'[t] \in [at : {"mark", "notify"}, a : Anns]
      /\ tick'[t].at = "notify" /\ tick'[t].a = a /\ Idle.at = "idle"
      /\ \A u \in Ticks : u # t => tick'[u] = Idle
  BY <1>1, <1>2, <1>3 DEF FeedTyped, Idle
<1>5. /\ \A b \in Anns : ann'[b] = IF b = a THEN "played" ELSE ann[b]
      /\ ann' \in [Anns -> {"absent", "queued", "played", "acknowledged"}]
  BY <1>1, <1>2 DEF FeedTyped, sounds
<1>6. shown[a] = 0
  BY <1>2 DEF Shows
<1>7. \A b \in Anns : ~Between(b) /\ (Between(b)' <=> b = a)
  BY <1>1, <1>3, <1>4 DEF Between
<1> HIDE DEF a
<1>8. FeedTyped'
  BY <1>1, <1>2, <1>3, <1>4, <1>5 DEF FeedTyped, sounds
<1>9. Dispatch'
  BY <1>1, <1>2, <1>4, <1>5, <1>6 DEF Dispatch
<1>10. Shows'
  BY <1>1, <1>2, <1>5, <1>6, <1>7 DEF Shows
<1>11. ASSUME NEW b \in Anns \ astray PROVE Told(b)'
  <2>1. CASE b # a
    BY <1>1, <1>5, <1>7, <2>1, ToldUntouched
  <2>2. CASE b = a
    <3>1. (\A q \in requests : q.a # b) /\ b \notin stopping
      BY <1>2, <2>2 DEF Told, Shows
    <3>2. row[b] = {}
      BY <1>2, <2>2, <3>1 DEF Told
    <3>3. QED
      BY <1>1, <1>7, <2>2, <3>1, <3>2 DEF Told
  <2>3. QED
    BY <2>1, <2>2
<1>12. QED
  BY <1>1, <1>8, <1>9, <1>10, <1>11 DEF SoundsTracked, sounds

LEMMA TickFailsKeeps ==
  ASSUME FeedInv, NEW t \in Ticks, TickFails(t)
  PROVE  FeedInv'
<1> USE DEF FeedInv
<1>1. /\ tick[t].at = "mark" /\ tick' = [tick EXCEPT ![t] = Idle] /\ Idle.at = "idle"
      /\ UNCHANGED <<ann, owner, current, acking, stopping, sounds, requests, row, shown, astray>>
  BY DEF TickFails, Idle
<1>2. FeedTyped'
  BY <1>1 DEF FeedTyped, sounds
<1>3. tick'[t] = Idle /\ \A u \in Ticks : u # t => tick'[u] = tick[u]
  BY <1>1 DEF FeedTyped, sounds
<1>4. Dispatch'
  BY <1>1, <1>3 DEF Dispatch
<1>5. \A b \in Anns : Between(b)' <=> Between(b)
  BY <1>1, <1>3 DEF Between
<1>6. Shows'
  BY <1>1, <1>5 DEF Shows
<1>7. \A b \in Anns \ astray : Told(b)'
  BY <1>1, <1>5, ToldUntouched
<1>8. QED
  BY <1>1, <1>2, <1>4, <1>6, <1>7 DEF SoundsTracked, sounds

(* A call to the backend is one more about the announcement; unless it is  *)
(* the only one, and carries a token, the announcement goes astray.        *)
LEMMA NotifyTells ==
  ASSUME FeedTyped, SessionTyped, NEW a \in Anns, NEW sets \in {"delivered", "acknowledged"},
         Notify(a, sets)
  PROVE  /\ requests' \subseteq Requests /\ astray \subseteq astray' /\ astray' \subseteq astray \cup {a}
         /\ \A q : q.a # a => (q \in requests' <=> q \in requests)
         /\ a \notin astray' =>
              /\ \A q \in requests : q.a # a
              /\ \E new : /\ requests' = requests \cup {new}
                          /\ new.a = a /\ new.sets = sets /\ new.at = "sent"
<1> DEFINE new == [at |-> "sent", a |-> a, sets |-> sets, by |-> Bearer.user]
<1>1. requests \subseteq Requests
  BY DEF FeedTyped, sounds
<1>2. /\ requests' = IF Bearer = None THEN requests ELSE requests \cup {new}
      /\ astray' = IF Bearer = None \/ \E q \in requests : q.a = a THEN astray \cup {a} ELSE astray
  BY DEF Notify
<1>3. Bearer # None => new \in Requests
  <2> SUFFICES ASSUME Bearer # None PROVE new \in Requests
    OBVIOUS
  <2>1. "auth.access" \in Keys
    BY DEF Keys
  <2>2. secure["auth.access"] \in Tokens
    BY <2>1 DEF Bearer, SessionTyped
  <2>3. Bearer.user \in Users
    BY <2>2 DEF Bearer, Tokens
  <2>4. QED
    BY <2>3 DEF Requests
<1>4. new.a = a /\ new.sets = sets /\ new.at = "sent"
  OBVIOUS
<1> HIDE DEF new
<1>5. QED
  BY <1>1, <1>2, <1>3, <1>4

LEMMA TickNotifiesKeeps ==
  ASSUME FeedInv, SessionTyped, NEW t \in Ticks, TickNotifies(t)
  PROVE  FeedInv'
<1> USE DEF FeedInv
<1> DEFINE a == tick[t].a
<1>1. /\ tick[t].at = "notify" /\ Notify(a, "delivered")
      /\ current' = a /\ unloadActiveSound
      /\ loading' = loading \cup ({a} \cap Voiced)
      /\ shown' = [shown EXCEPT ![a] = @ + 1]
      /\ tick' = [tick EXCEPT ![t] = Idle] /\ Idle.at = "idle"
      /\ UNCHANGED <<ann, owner, acking, stopping, row>>
  BY DEF TickNotifies, Overlay, Idle
<1>2. a \in Anns /\ ann[a] = "played" /\ shown[a] = 0
  BY <1>1, TickForms DEF Dispatch
<1>3. \A u \in Ticks : u # t => tick[u] = Idle
  BY <1>1, TickForms DEF Dispatch
<1>4. \A u \in Ticks : tick'[u] = Idle
  BY <1>1, <1>3 DEF FeedTyped
<1>5. \A b \in Anns : ~Between(b)' /\ (Between(b) <=> b = a)
  BY <1>1, <1>3, <1>4 DEF Between
<1> HIDE DEF a
<1>6. \A b \in Anns : shown'[b] = IF b = a THEN 1 ELSE shown[b]
  BY <1>1, <1>2 DEF FeedTyped
<1>7. /\ requests' \subseteq Requests /\ astray \subseteq astray' /\ astray' \subseteq astray \cup {a}
      /\ \A q : q.a # a => (q \in requests' <=> q \in requests)
      /\ a \notin astray' =>
              /\ \A q \in requests : q.a # a
              /\ \E new : /\ requests' = requests \cup {new}
                          /\ new.a = a /\ new.sets = "delivered" /\ new.at = "sent"
  BY <1>1, <1>2, NotifyTells
<1>8. FeedTyped'
  <2>1. shown' \in [Anns -> Nat]
    BY <1>1, <1>2 DEF FeedTyped
  <2>2. tick' \in [Ticks -> {Idle} \cup [at : {"mark", "notify"}, a : Anns]]
    BY <1>1 DEF FeedTyped
  <2>3. current' \in Anns \cup {Nobody} /\ loading' \subseteq Anns
    BY <1>1, <1>2, MobileFeedAssumption DEF FeedTyped
  <2>4. playing' \subseteq Anns /\ stuck' \subseteq Anns /\ late' \in BOOLEAN
    BY <1>1, UnloadTracks DEF FeedTyped
  <2>5. QED
    BY <1>1, <1>7, <2>1, <2>2, <2>3, <2>4 DEF FeedTyped
<1>9. Dispatch'
  BY <1>1, <1>4 DEF Dispatch
<1>10. Shows'
  <2>1. a \notin acking
    BY <1>2 DEF Shows
  <2>2. \A b \in Anns : /\ shown'[b] \in {0, 1}
                        /\ shown'[b] = 1 => ann[b] \in {"played", "acknowledged"}
                        /\ ann[b] = "acknowledged" => shown'[b] = 1
                        /\ ann[b] = "played" /\ b \notin astray' => shown'[b] = 1
    BY <1>2, <1>5, <1>6, <1>7 DEF Shows
  <2>3. \A b \in Anns : b = a \/ b \in acking => ann[b] = "played" /\ shown'[b] = 1
    BY <1>2, <1>6 DEF Shows
  <2>4. QED
    BY <1>1, <2>1, <2>2, <2>3 DEF Shows
<1>11. ASSUME NEW b \in Anns \ astray' PROVE Told(b)'
  <2>1. CASE b # a
    BY <1>1, <1>5, <1>7, <2>1, ToldUntouched
  <2>2. CASE b = a
    <3>1. PICK new : /\ requests' = requests \cup {new}
                     /\ new.a = a /\ new.sets = "delivered" /\ new.at = "sent"
      BY <1>7, <2>2
    <3>2. \A q \in requests : q.a # a
      BY <1>7, <2>2
    <3>3. row[a] = {}
      BY <1>2, <1>5, <1>7, <2>2, <3>2 DEF Told
    <3>4. QED
      BY <1>1, <1>2, <1>5, <2>2, <3>1, <3>2, <3>3 DEF Told
  <2>3. QED
    BY <2>1, <2>2
<1>12. SoundsTracked'
  BY <1>1, UnloadTracks DEF SoundsTracked
<1>13. QED
  BY <1>8, <1>9, <1>10, <1>11, <1>12

LEMMA DismissKeeps ==
  ASSUME FeedInv, NEW over \in BOOLEAN, Dismiss(over)
  PROVE  FeedInv'
<1> USE DEF FeedInv
<1>1. /\ current # Nobody /\ acking' = acking \cup {current} /\ current' = Nobody
      /\ unloadActiveSound /\ loading' = loading \cup ({Nobody} \cap Voiced)
      /\ UNCHANGED <<ann, owner, tick, stopping, requests, row, shown, astray>>
  BY DEF Dismiss, Overlay
<1>2. Nobody \notin Anns /\ Voiced \subseteq Anns
  BY MobileFeedAssumption DEF Nobody
<1>3. FeedTyped'
  <2>1. playing' \subseteq Anns /\ stuck' \subseteq Anns /\ late' \in BOOLEAN
    BY <1>1, UnloadTracks DEF FeedTyped
  <2>2. QED
    BY <1>1, <1>2, <2>1 DEF FeedTyped
<1>4. Dispatch' /\ \A b \in Anns \ astray : Told(b)'
  BY <1>1 DEF Dispatch, Told, Between
<1>5. Shows'
  BY <1>1, <1>2 DEF Shows, Between, FeedTyped
<1>6. SoundsTracked'
  BY <1>1, UnloadTracks DEF SoundsTracked
<1>7. QED
  BY <1>1, <1>3, <1>4, <1>5, <1>6

LEMMA AcknowledgeKeeps ==
  ASSUME FeedInv, NEW a \in Anns, Acknowledge(a)
  PROVE  FeedInv'
<1> USE DEF FeedInv
<1>1. /\ a \in acking /\ acking' = acking \ {a} /\ ann' = [ann EXCEPT ![a] = "acknowledged"]
      /\ stopping' = stopping \cup {a} /\ unloadActiveSound
      /\ UNCHANGED <<owner, tick, current, loading, requests, row, shown, astray>>
  BY DEF Acknowledge
<1>2. ann[a] = "played" /\ shown[a] = 1 /\ current # a
  BY <1>1 DEF Shows
<1>3. \A b \in Anns : ann'[b] = IF b = a THEN "acknowledged" ELSE ann[b]
  BY <1>1 DEF FeedTyped
<1>4. \A b \in Anns : Between(b)' <=> Between(b)
  BY <1>1 DEF Between
<1>5. ~Between(a)
  BY <1>2 DEF Between, Dispatch
<1>6. FeedTyped'
  <2>1. playing' \subseteq Anns /\ stuck' \subseteq Anns /\ late' \in BOOLEAN
    BY <1>1, UnloadTracks DEF FeedTyped
  <2>2. QED
    BY <1>1, <2>1 DEF FeedTyped
<1>7. Dispatch'
  <2>1. \A u \in Ticks : tick[u].at \in {"mark", "notify"} => tick[u].a \in Anns /\ tick[u].a # a
    BY <1>2, TickForms DEF Dispatch
  <2>2. QED
    BY <1>1, <1>3, <2>1 DEF Dispatch
<1>8. Shows'
  <2>1. \A b \in stopping : b \in Anns /\ ann[b] = "acknowledged"
    BY DEF Shows, FeedTyped
  <2>2. \A b \in stopping' : ann'[b] = "acknowledged"
    BY <1>1, <1>3, <2>1
  <2>3. QED
    BY <1>1, <1>2, <1>3, <1>4, <2>2 DEF Shows
<1>9. ASSUME NEW b \in Anns \ astray PROVE Told(b)'
  <2>1. CASE b # a
    BY <1>1, <1>3, <1>4, <2>1, ToldUntouched
  <2>2. CASE b = a
    <3>1. a \in stopping' /\ ann'[a] = "acknowledged" /\ ~Between(a)'
      BY <1>1, <1>3, <1>4, <1>5
    <3>2. Told(a) /\ ann[a] = "played"
      BY <1>2, <2>2
    <3>3. \A q \in requests : q.a = a => q.sets = "delivered" /\ row[a] = {}
      <4>1. ann[a] # "acknowledged"
        BY <3>2
      <4>2. QED
        BY <3>2, <4>1 DEF Told
    <3>4. (\A q \in requests : q.a # a) => row[a] = {"delivered"}
      BY <1>5, <3>2 DEF Told
    <3>5. \A q, p \in requests : q.a = a /\ p.a = a => q = p
      BY <3>2 DEF Told
    <3>6. \A q \in requests : q.a = a /\ q.at = "save" => q.row = row[a]
      BY <3>2 DEF Told
    <3>7. QED
      BY <1>1, <2>2, <3>1, <3>3, <3>4, <3>5, <3>6 DEF Told
  <2>3. QED
    BY <2>1, <2>2
<1>10. SoundsTracked'
  BY <1>1, UnloadTracks DEF SoundsTracked
<1>11. QED
  BY <1>1, <1>6, <1>7, <1>8, <1>9, <1>10

LEMMA AcknowledgeNotifiesKeeps ==
  ASSUME FeedInv, SessionTyped, NEW a \in Anns, AcknowledgeNotifies(a)
  PROVE  FeedInv'
<1> USE DEF FeedInv
<1>1. /\ a \in stopping /\ stopping' = stopping \ {a} /\ Notify(a, "acknowledged")
      /\ UNCHANGED <<ann, owner, tick, current, acking, sounds, row, shown>>
  BY DEF AcknowledgeNotifies
<1>2. ann[a] = "acknowledged"
  BY <1>1 DEF Shows
<1>3. /\ requests' \subseteq Requests /\ astray \subseteq astray' /\ astray' \subseteq astray \cup {a}
      /\ \A q : q.a # a => (q \in requests' <=> q \in requests)
      /\ a \notin astray' =>
              /\ \A q \in requests : q.a # a
              /\ \E new : /\ requests' = requests \cup {new}
                          /\ new.a = a /\ new.sets = "acknowledged" /\ new.at = "sent"
  BY <1>1, NotifyTells
<1>4. \A b \in Anns : Between(b)' <=> Between(b)
  BY <1>1 DEF Between
<1>5. ~Between(a)
  BY <1>2 DEF Between, Dispatch
<1>6. FeedTyped'
  BY <1>1, <1>3 DEF FeedTyped, sounds
<1>7. Dispatch' /\ SoundsTracked'
  BY <1>1 DEF Dispatch, SoundsTracked, sounds
<1>8. Shows'
  BY <1>1, <1>3, <1>4 DEF Shows
<1>9. ASSUME NEW b \in Anns \ astray' PROVE Told(b)'
  <2>1. CASE b # a
    BY <1>1, <1>3, <1>4, <2>1, ToldUntouched
  <2>2. CASE b = a
    <3>1. PICK new : /\ requests' = requests \cup {new}
                     /\ new.a = a /\ new.sets = "acknowledged" /\ new.at = "sent"
      BY <1>3, <2>2
    <3>2. \A q \in requests : q.a # a
      BY <1>3, <2>2
    <3>3. row[a] = {"delivered"}
      BY <1>1, <1>2, <1>3, <1>5, <2>2, <3>2 DEF Told
    <3>4. QED
      BY <1>1, <1>2, <1>4, <1>5, <2>2, <3>1, <3>2, <3>3 DEF Told
  <2>3. QED
    BY <2>1, <2>2
<1>10. QED
  BY <1>6, <1>7, <1>8, <1>9

LEMMA AcknowledgeFailsKeeps ==
  ASSUME FeedInv, NEW a \in Anns, AcknowledgeFails(a)
  PROVE  FeedInv'
<1> USE DEF FeedInv, AcknowledgeFails, sounds
<1>1. FeedTyped' /\ Dispatch' /\ Shows' /\ SoundsTracked'
  BY DEF FeedTyped, Dispatch, Shows, Between, SoundsTracked
<1>2. \A b \in Anns \ astray : Told(b)'
  BY DEF Told, Between
<1>3. QED
  BY <1>1, <1>2

(* The handler's load: of a call that stays, another call is made.         *)
LEMMA LoadKeeps ==
  ASSUME FeedInv, NEW q \in requests, Load(q)
  PROVE  FeedInv'
<1> USE DEF FeedInv
<1> DEFINE found == [at |-> "save", a |-> q.a, sets |-> q.sets, row |-> row[q.a]]
           refused == q.sets = "acknowledged" /\ owner[q.a] # q.by
<1>1. /\ q.at = "sent"
      /\ requests' = (requests \ {q}) \cup
                       (IF refused \/ q.sets \in row[q.a] THEN {} ELSE {found})
      /\ astray' = IF refused THEN astray \cup {q.a} ELSE astray
      /\ UNCHANGED <<ann, owner, tick, current, acking, stopping, sounds, row, shown>>
  BY DEF Load
<1>2. q.a \in Anns /\ q.sets \in {"delivered", "acknowledged"}
  BY RequestForms
<1>3. found.a = q.a /\ found.sets = q.sets /\ found.at = "save" /\ found.row = row[q.a]
  OBVIOUS
<1>4. found \in Requests
  BY <1>2 DEF Requests, FeedTyped
<1> HIDE DEF found, refused
<1>5. FeedTyped'
  BY <1>1, <1>2, <1>4 DEF FeedTyped, sounds
<1>6. Dispatch' /\ SoundsTracked'
  BY <1>1 DEF Dispatch, SoundsTracked, sounds
<1>7. astray \subseteq astray'
  BY <1>1
<1>8. Shows'
  BY <1>1, <1>7 DEF Shows, Between
<1>9. ASSUME NEW b \in Anns \ astray' PROVE Told(b)'
  <2>1. Between(b)' <=> Between(b)
    BY <1>1 DEF Between
  <2>2. CASE b # q.a
    BY <1>1, <1>3, <1>7, <2>1, <2>2, ToldUntouched
  <2>3. CASE b = q.a
    <3>1. ~refused /\ b \in Anns \ astray
      BY <1>1, <2>3
    <3>2. \A p \in requests : p.a = b => p = q
      BY <2>3, <3>1 DEF Told
    <3>3. /\ IF q.sets = "delivered" THEN (ann[b] = "played" \/ b \in stopping) /\ row[b] = {}
             ELSE ann[b] = "acknowledged" /\ b \notin stopping /\ row[b] = {"delivered"}
          /\ ~Between(b)
      BY <2>3, <3>1 DEF Told
    <3>4. q.sets \notin row[q.a]
      BY <1>2, <2>3, <3>3
    <3>5. requests' = (requests \ {q}) \cup {found}
      BY <1>1, <3>1, <3>4
    <3>6. \A p \in requests' : p.a = b => p = found
      BY <3>2, <3>5
    <3>7. QED
      BY <1>1, <1>3, <2>1, <2>3, <3>3, <3>5, <3>6 DEF Told
  <2>4. QED
    BY <2>2, <2>3
<1>10. QED
  BY <1>5, <1>6, <1>8, <1>9

LEMMA SaveKeeps ==
  ASSUME FeedInv, NEW q \in requests, Save(q)
  PROVE  FeedInv'
<1> USE DEF FeedInv
<1>1. /\ q.at = "save" /\ requests' = requests \ {q}
      /\ row' = [row EXCEPT ![q.a] = q.row \cup {q.sets}]
      /\ UNCHANGED <<ann, owner, tick, current, acking, stopping, sounds, shown, astray>>
  BY DEF Save
<1>2. /\ q.a \in Anns /\ q.sets \in {"delivered", "acknowledged"}
      /\ q.row \in SUBSET {"delivered", "acknowledged"}
  BY <1>1, RequestForms
<1>3. \A b \in Anns : row'[b] = IF b = q.a THEN q.row \cup {q.sets} ELSE row[b]
  BY <1>1 DEF FeedTyped
<1>4. FeedTyped'
  BY <1>1, <1>2 DEF FeedTyped, sounds
<1>5. Dispatch' /\ SoundsTracked' /\ Shows'
  BY <1>1 DEF Dispatch, SoundsTracked, Shows, Between, sounds
<1>6. ASSUME NEW b \in Anns \ astray PROVE Told(b)'
  <2>1. Between(b)' <=> Between(b)
    BY <1>1 DEF Between
  <2>2. CASE b # q.a
    BY <1>1, <1>3, <2>1, <2>2, ToldUntouched
  <2>3. CASE b = q.a
    <3>1. \A p \in requests' : p.a # b
      BY <1>1, <2>3 DEF Told
    <3>2. /\ IF q.sets = "delivered" THEN (ann[b] = "played" \/ b \in stopping) /\ row[b] = {}
             ELSE ann[b] = "acknowledged" /\ b \notin stopping /\ row[b] = {"delivered"}
          /\ ~Between(b) /\ q.row = row[b]
      BY <1>1, <2>3 DEF Told
    <3>3. row'[b] = row[b] \cup {q.sets}
      BY <1>3, <2>3, <3>2
    <3>4. row'[b] = IF ann[b] = "played" \/ b \in stopping THEN {"delivered"}
                    ELSE {"delivered", "acknowledged"}
      BY <1>2, <3>2, <3>3
    <3>5. ann[b] \in {"played", "acknowledged"}
      BY <3>2 DEF Shows
    <3>6. QED
      BY <1>1, <2>1, <3>1, <3>2, <3>4, <3>5 DEF Told
  <2>4. QED
    BY <2>2, <2>3
<1>7. QED
  BY <1>1, <1>4, <1>5, <1>6

LEMMA LostKeeps ==
  ASSUME FeedInv, NEW q \in requests, Lost(q)
  PROVE  FeedInv'
<1> USE DEF FeedInv
<1>1. /\ requests' = requests \ {q} /\ astray' = astray \cup {q.a}
      /\ UNCHANGED <<ann, owner, tick, current, acking, stopping, sounds, row, shown>>
  BY DEF Lost
<1>2. q.a \in Anns
  BY RequestForms
<1>3. FeedTyped' /\ Dispatch' /\ SoundsTracked'
  BY <1>1, <1>2 DEF FeedTyped, Dispatch, SoundsTracked, sounds
<1>4. Shows'
  BY <1>1 DEF Shows, Between
<1>5. \A b \in Anns \ astray' : Told(b)'
  <2>1. \A b \in Anns : Between(b)' <=> Between(b)
    BY <1>1 DEF Between
  <2>2. QED
    BY <1>1, <2>1, ToldUntouched
<1>6. QED
  BY <1>3, <1>4, <1>5

LEMMA FeedKilledKeeps ==
  ASSUME FeedInv, FeedKilled
  PROVE  FeedInv'
<1> USE DEF FeedInv
<1>1. /\ tick' = [t \in Ticks |-> Idle] /\ current' = Nobody /\ acking' = {} /\ stopping' = {}
      /\ loading' = {} /\ active' = Nobody /\ playing' = {} /\ stuck' = {} /\ late' = FALSE
      /\ astray' = astray \cup stopping
                   \cup {tick[t].a : t \in {t \in Ticks : tick[t].at = "notify"}}
      /\ UNCHANGED <<ann, owner, requests, row, shown>>
  BY DEF FeedKilled
<1>2. astray' \subseteq Anns /\ astray \subseteq astray'
  BY <1>1, TickForms DEF FeedTyped
<1>3. \A b \in Anns \ astray' : ~Between(b) /\ b \notin stopping
  BY <1>1 DEF Between
<1>4. \A b \in Anns : ~Between(b)'
  BY <1>1 DEF Between, Idle
<1>5. FeedTyped'
  BY <1>1, <1>2 DEF FeedTyped
<1>6. Dispatch' /\ SoundsTracked'
  BY <1>1 DEF Dispatch, SoundsTracked, Idle
<1>7. Shows'
  BY <1>1, <1>2, <1>3, <1>4, MobileFeedAssumption DEF Shows, Nobody
<1>8. \A b \in Anns \ astray' : Told(b)'
  BY <1>1, <1>2, <1>3, <1>4, ToldUntouched
<1>9. QED
  BY <1>5, <1>6, <1>7, <1>8

LEMMA FeedStep ==
  ASSUME FeedInv, SessionTyped, FeedNext
  PROVE  FeedInv'
<1>1. ASSUME NEW a \in Anns,
             \/ QueueAnnouncement(a) \/ Loaded(a) \/ LoadFails(a) \/ SoundEnds(a) \/ Forget(a)
             \/ Acknowledge(a) \/ AcknowledgeNotifies(a) \/ AcknowledgeFails(a)
      PROVE  FeedInv'
  BY <1>1, QueueAnnouncementKeeps, SoundsKeep, AcknowledgeKeeps, AcknowledgeNotifiesKeeps,
     AcknowledgeFailsKeeps
<1>2. ASSUME NEW t \in Ticks, TickReads(t) \/ TickMarks(t) \/ TickNotifies(t) \/ TickFails(t)
      PROVE  FeedInv'
  BY <1>2, TickReadsKeeps, TickMarksKeeps, TickNotifiesKeeps, TickFailsKeeps
<1>3. ASSUME NEW over \in BOOLEAN, Dismiss(over) PROVE FeedInv'
  BY <1>3, DismissKeeps
<1>4. ASSUME NEW q \in requests, Load(q) \/ Save(q) \/ Lost(q) PROVE FeedInv'
  BY <1>4, LoadKeeps, SaveKeeps, LostKeeps
<1>5. QED
  BY <1>1, <1>2, <1>3, <1>4 DEF FeedNext

(* Every step of the announcements counts at most one call or one fault. *)
LEMMA FeedCounts ==
  ASSUME FeedNext
  PROVE  calls' \in {calls, calls + 1} /\ faults' \in {faults, faults + 1}
BY DEF FeedNext, QueueAnnouncement, Loaded, LoadFails, SoundEnds, Forget, Acknowledge,
       AcknowledgeNotifies, AcknowledgeFails, TickReads, TickMarks, TickNotifies, TickFails,
       Dismiss, Overlay, unloadActiveSound, Load, Save, Lost, Called, Fault

LEMMA FeedUntouched == FeedInv /\ UNCHANGED feedVars => FeedInv'
BY DEF FeedInv, FeedTyped, Dispatch, Shows, Told, Between, SoundsTracked, feedVars, sounds

LEMMA FeedStarts == FeedInit => FeedInv
<1> SUFFICES ASSUME FeedInit PROVE FeedInv
  OBVIOUS
<1>1. /\ ann \in [Anns -> {"absent", "queued"}]
      /\ tick = [t \in Ticks |-> Idle] /\ current = Nobody /\ acking = {} /\ stopping = {}
      /\ loading = {} /\ active = Nobody /\ playing = {} /\ stuck = {} /\ requests = {}
      /\ row = [a \in Anns |-> {}] /\ shown = [a \in Anns |-> 0] /\ astray = {} /\ late = FALSE
  BY DEF FeedInit
<1>2. Idle.at = "idle" /\ Nobody \notin Anns
  BY MobileFeedAssumption DEF Idle, Nobody
<1>3. FeedTyped
  BY <1>1 DEF FeedTyped
<1>4. Dispatch /\ Shows /\ SoundsTracked /\ \A a \in Anns : Told(a)
  BY <1>1, <1>2 DEF Dispatch, Shows, SoundsTracked, Told, Between
<1>5. QED
  BY <1>3, <1>4 DEF FeedInv

----------------------------------------------------------------------------
(* Rounds *)

LEMMA StatusForms ==
  /\ DOMAIN Status = {"start", "complete", "abandon"}
  /\ \A do \in DOMAIN Status : Status[do] \in {"active", "completed", "abandoned"}
BY DEF Status

(* No answer has the field that is looked for. *)
LEMMA NothingAdopted ==
  ASSUME NEW r, NEW status, NEW timer
  PROVE  Adopt(r, serializeRound(r, status), timer) = local
<1>1. "round" \notin DOMAIN serializeRound(r, status)
  BY DEF serializeRound
<1>2. QED
  BY <1>1 DEF Adopt

(* A call that is about to touch its row. *)
LEMMA ActionForms ==
  ASSUME RoundsTyped, NEW c \in action
  PROVE  /\ c.at \in {"read", "write", "post", "answer"} /\ c.r \in Rounds
         /\ c.do \in DOMAIN Status /\ c.n \in Nat
BY DEF RoundsTyped

(* Nothing changes for a row that no call touches. *)
LEMMA FollowsUntouched ==
  ASSUME NEW r \in Rounds, Follows(r), local'[r] = local[r], last'[r] = last[r],
         \A c : c \in InLocalPart(r)' <=> c \in InLocalPart(r)
  PROVE  Follows(r)'
<1>1. InLocalPart(r)' = InLocalPart(r)
  OBVIOUS
<1>2. Settled(r)' <=> Settled(r)
  BY DEF Settled
<1>3. \A c : Settling(c, r)' <=> Settling(c, r)
  BY DEF Settling
<1>4. QED
  BY <1>1, <1>2, <1>3 DEF Follows

LEMMA BeginKeeps ==
  ASSUME RoundsInv, calls \in Nat, NEW r \in Rounds, NEW do \in DOMAIN Status, Begin(r, do)
  PROVE  RoundsInv'
<1> USE DEF RoundsInv
<1> DEFINE n == IF do = "start" THEN calls' ELSE IF last[r] = None THEN 0 ELSE last[r].n
<1>0. PICK c : c = [at |-> "read", r |-> r, do |-> do, n |-> calls']
  OBVIOUS
<1>1. /\ calls' = calls + 1 /\ action' = action \cup {c}
      /\ last' = [last EXCEPT ![r] = [do |-> do, n |-> n]]
      /\ torn' = IF InLocalPart(r) # {} THEN torn \cup {r}
                 ELSE IF do = "start" THEN torn \ {r} ELSE torn
      /\ UNCHANGED <<local, remote>>
  BY <1>0 DEF Begin, Called
<1>2. n \in Nat
  BY <1>1 DEF RoundsTyped
<1>3. c.at = "read" /\ c.r = r /\ c.do = do /\ c.n = calls'
  BY <1>0
<1>4. c \in [at : {"read", "post", "answer"}, r : Rounds, do : DOMAIN Status, n : Nat]
  BY <1>0, <1>1
<1>5. last'[r] = [do |-> do, n |-> n] /\ \A s \in Rounds : s # r => last'[s] = last[s]
  BY <1>1 DEF RoundsTyped
<1>6. last'[r] # None /\ last'[r].do = do /\ last'[r].n = n
  BY <1>5 DEF None
<1>7. RoundsTyped'
  <2>1. last' \in [Rounds -> {None} \cup [do : DOMAIN Status, n : Nat]]
    BY <1>1, <1>2 DEF RoundsTyped
  <2>2. torn' \subseteq Rounds
    BY <1>1 DEF RoundsTyped
  <2>3. QED
    BY <1>1, <1>4, <2>1, <2>2 DEF RoundsTyped
<1>8. ASSUME NEW s \in Rounds \ torn' PROVE Follows(s)'
  <2>1. CASE s # r
    <3>1. \A d : d \in InLocalPart(s)' <=> d \in InLocalPart(s)
      BY <1>1, <1>3, <2>1 DEF InLocalPart
    <3>2. s \in Rounds \ torn
      BY <1>1, <2>1
    <3>3. QED
      BY <1>1, <1>5, <2>1, <3>1, <3>2, FollowsUntouched
  <2>2. CASE s = r
    <3>1. InLocalPart(r) = {} /\ (do # "start" => r \notin torn)
      BY <1>1, <2>2
    <3>2. InLocalPart(r)' = {c}
      BY <1>1, <1>3, <3>1 DEF InLocalPart
    <3>3. do # "start" => Settled(r)
      BY <3>1 DEF Follows
    <3>4. do # "start" => Timer(local[r]) = IF last[r] = None THEN 0 ELSE last[r].n
      <4> SUFFICES ASSUME do # "start"
                   PROVE  Timer(local[r]) = IF last[r] = None THEN 0 ELSE last[r].n
        OBVIOUS
      <4>1. CASE last[r] = None
        BY <3>3, <4>1 DEF Settled, Timer
      <4>2. CASE last[r] # None
        <5>1. local[r] = [status |-> Status[last[r].do], timer |-> last[r].n]
          BY <3>3, <4>2 DEF Settled
        <5>2. local[r] # None /\ local[r].timer = last[r].n
          BY <5>1 DEF None
        <5>3. QED
          BY <4>2, <5>2 DEF Timer
      <4>3. QED
        BY <4>1, <4>2
    <3>5. Timer(local[r])' = Timer(local[r])
      BY <1>1 DEF Timer
    <3>6. Settling(c, r)'
      BY <1>3, <1>6, <3>4, <3>5 DEF Settling
    <3>7. QED
      BY <2>2, <3>2, <3>6 DEF Follows
  <2>3. QED
    BY <2>1, <2>2
<1>9. QED
  BY <1>1, <1>7, <1>8

LEMMA ReadRowKeeps ==
  ASSUME RoundsInv, NEW c \in action, ReadRow(c)
  PROVE  RoundsInv'
<1> USE DEF RoundsInv
<1>0. PICK w : w = [at |-> "write", r |-> c.r, do |-> c.do, n |-> c.n, existing |-> local[c.r]]
  OBVIOUS
<1>1. /\ c.at = "read" /\ action' = (action \ {c}) \cup {w}
      /\ UNCHANGED <<local, remote, last, torn>>
  BY <1>0 DEF ReadRow, Goes
<1>2. w.at = "write" /\ w.r = c.r /\ w.do = c.do /\ w.n = c.n /\ w.existing = local[c.r]
  BY <1>0
<1>3. c.r \in Rounds /\ c.do \in DOMAIN Status /\ c.n \in Nat
  BY ActionForms
<1>4. w \in [at : {"write"}, r : Rounds, do : DOMAIN Status, n : Nat,
             existing : {None} \cup [status : {"active", "completed", "abandoned"}, timer : Nat]]
  BY <1>0, <1>3 DEF RoundsTyped
<1>5. RoundsTyped'
  BY <1>1, <1>4 DEF RoundsTyped
<1>6. ASSUME NEW s \in Rounds \ torn PROVE Follows(s)'
  <2>1. CASE s # c.r
    <3>1. \A d : d \in InLocalPart(s)' <=> d \in InLocalPart(s)
      BY <1>1, <1>2, <2>1 DEF InLocalPart
    <3>2. QED
      BY <1>1, <2>1, <3>1, FollowsUntouched
  <2>2. CASE s = c.r
    <3>1. c \in InLocalPart(s)
      BY <1>1, <2>2 DEF InLocalPart
    <3>2. InLocalPart(s)' = {w}
      BY <1>1, <1>2, <2>2, <3>1 DEF InLocalPart, Follows
    <3>3. Settling(c, s)
      BY <3>1 DEF Follows
    <3>4. Settling(w, s)'
      BY <1>1, <1>2, <2>2, <3>3 DEF Settling, Timer
    <3>5. QED
      BY <3>2, <3>4 DEF Follows
  <2>3. QED
    BY <2>1, <2>2
<1>7. QED
  BY <1>1, <1>5, <1>6

LEMMA UpsertKeeps ==
  ASSUME RoundsInv, NEW c \in action, Upsert(c)
  PROVE  RoundsInv'
<1> USE DEF RoundsInv
<1> DEFINE timer == IF c.do = "start" THEN c.n ELSE Timer(c.existing)
           post == [at |-> "post", r |-> c.r, do |-> c.do, n |-> c.n]
<1>1. /\ c.at = "write"
      /\ local' = [local EXCEPT ![c.r] = [status |-> Status[c.do], timer |-> timer]]
      /\ action' = (action \ {c}) \cup (IF Bearer = None THEN {} ELSE {post})
      /\ UNCHANGED <<remote, last, torn>>
  BY DEF Upsert, PostNext, Goes, Timer
<1>2. /\ c.r \in Rounds /\ c.do \in DOMAIN Status /\ c.n \in Nat
      /\ Status[c.do] \in {"active", "completed", "abandoned"}
  BY ActionForms, StatusForms
<1>3. c.existing \in {None} \cup [status : {"active", "completed", "abandoned"}, timer : Nat]
  BY <1>1 DEF RoundsTyped
<1>4. timer \in Nat
  BY <1>2, <1>3 DEF Timer
<1>5. post.at = "post" /\ post \in [at : {"read", "post", "answer"}, r : Rounds, do : DOMAIN Status, n : Nat]
  BY <1>2
<1> HIDE DEF timer, post
<1>6. RoundsTyped'
  <2>1. local' \in [Rounds -> {None} \cup [status : {"active", "completed", "abandoned"}, timer : Nat]]
    BY <1>1, <1>2, <1>4 DEF RoundsTyped
  <2>2. QED
    BY <1>1, <1>5, <2>1 DEF RoundsTyped
<1>7. /\ local'[c.r] = [status |-> Status[c.do], timer |-> timer]
      /\ \A s \in Rounds : s # c.r => local'[s] = local[s]
  BY <1>1, <1>2 DEF RoundsTyped
<1>8. ASSUME NEW s \in Rounds \ torn PROVE Follows(s)'
  <2>1. CASE s # c.r
    <3>1. \A d : d \in InLocalPart(s)' <=> d \in InLocalPart(s)
      BY <1>1, <1>5, <2>1 DEF InLocalPart
    <3>2. QED
      BY <1>1, <1>7, <2>1, <3>1, FollowsUntouched
  <2>2. CASE s = c.r
    <3>1. c \in InLocalPart(s)
      BY <1>1, <2>2 DEF InLocalPart
    <3>2. InLocalPart(s)' = {}
      BY <1>1, <1>5, <2>2, <3>1 DEF InLocalPart, Follows
    <3>3. Settling(c, s)
      BY <3>1 DEF Follows
    <3>4. last[s] # None /\ c.do = last[s].do /\ last[s].n = timer
      BY <1>1, <3>3 DEF Settling, timer
    <3>5. Settled(s)'
      BY <1>1, <1>7, <2>2, <3>4 DEF Settled
    <3>6. QED
      BY <3>2, <3>5 DEF Follows
  <2>3. QED
    BY <2>1, <2>2
<1>9. QED
  BY <1>1, <1>6, <1>8

LEMMA UpsertFailsKeeps ==
  ASSUME RoundsInv, NEW c \in action, UpsertFails(c)
  PROVE  RoundsInv'
<1> USE DEF RoundsInv
<1>1. /\ action' = action \ {c} /\ torn' = torn \cup {c.r}
      /\ UNCHANGED <<local, last>>
  BY DEF UpsertFails, Goes
<1>2. c.r \in Rounds
  BY ActionForms
<1>3. RoundsTyped'
  BY <1>1, <1>2 DEF RoundsTyped
<1>4. ASSUME NEW s \in Rounds \ torn' PROVE Follows(s)'
  <2>1. \A d : d \in InLocalPart(s)' <=> d \in InLocalPart(s)
    BY <1>1, <1>4 DEF InLocalPart
  <2>2. QED
    BY <1>1, <1>4, <2>1, FollowsUntouched
<1>5. QED
  BY <1>1, <1>3, <1>4

(* What goes on between the backend and a call changes no row. *)
LEMMA RemoteKeeps ==
  ASSUME RoundsInv, NEW c \in action, c.at \in {"post", "answer"}, NEW at,
         Goes(c, at), \A d \in at : d.at = "answer",
         at \subseteq [at : {"read", "post", "answer"}, r : Rounds, do : DOMAIN Status, n : Nat],
         UNCHANGED <<local, last, torn>>
  PROVE  RoundsInv'
<1> USE DEF RoundsInv, Goes
<1>1. RoundsTyped'
  BY DEF RoundsTyped
<1>2. ASSUME NEW s \in Rounds \ torn PROVE Follows(s)'
  <2>1. \A d : d \in InLocalPart(s)' <=> d \in InLocalPart(s)
    BY DEF InLocalPart
  <2>2. QED
    BY <1>2, <2>1, FollowsUntouched
<1>3. QED
  BY <1>1, <1>2

LEMMA RoundsStep ==
  ASSUME RoundsInv, calls \in Nat, RoundsNext
  PROVE  RoundsInv'
<1>1. ASSUME NEW r \in Rounds, NEW do \in DOMAIN Status, Begin(r, do) PROVE RoundsInv'
  BY <1>1, BeginKeeps
<1>2. ASSUME NEW r \in Rounds, FetchCurrent(r) PROVE RoundsInv'
  <2>1. UNCHANGED roundVars
    BY <1>2, NothingAdopted DEF FetchCurrent, roundVars
  <2>2. QED
    BY <2>1 DEF roundVars, RoundsInv, RoundsTyped, Follows, InLocalPart, Settling, Settled, Timer
<1>3. ASSUME NEW c \in action, ReadRow(c) PROVE RoundsInv'
  BY <1>3, ReadRowKeeps
<1>4. ASSUME NEW c \in action, Upsert(c) PROVE RoundsInv'
  BY <1>4, UpsertKeeps
<1>5. ASSUME NEW c \in action, UpsertFails(c) PROVE RoundsInv'
  BY <1>5, UpsertFailsKeeps
<1>6. ASSUME NEW c \in action, Post(c) PROVE RoundsInv'
  <2>1. c.r \in Rounds /\ c.do \in DOMAIN Status /\ c.n \in Nat
    BY ActionForms DEF RoundsInv
  <2>2. PICK answer : answer = [at |-> "answer", r |-> c.r, do |-> c.do, n |-> c.n]
    OBVIOUS
  <2>3. /\ answer.at = "answer"
        /\ answer \in [at : {"read", "post", "answer"}, r : Rounds, do : DOMAIN Status, n : Nat]
    BY <2>1, <2>2
  <2>4. /\ c.at = "post" /\ (Goes(c, {answer}) \/ Goes(c, {}))
        /\ UNCHANGED <<local, last, torn>>
    BY <1>6, <2>2 DEF Post
  <2>5. QED
    BY <2>3, <2>4, RemoteKeeps
<1>7. ASSUME NEW c \in action, PostLost(c) PROVE RoundsInv'
  <2>1. c.at \in {"post", "answer"} /\ Goes(c, {}) /\ UNCHANGED <<local, last, torn>>
    BY <1>7 DEF PostLost
  <2>2. QED
    BY <2>1, RemoteKeeps
<1>8. ASSUME NEW c \in action, Respond(c) PROVE RoundsInv'
  <2>1. c.at = "answer" /\ Goes(c, {}) /\ UNCHANGED <<local, last, torn>>
    BY <1>8, NothingAdopted DEF Respond
  <2>2. QED
    BY <2>1, RemoteKeeps
<1>9. QED
  BY <1>1, <1>2, <1>3, <1>4, <1>5, <1>6, <1>7, <1>8 DEF RoundsNext

LEMMA RoundsCount ==
  ASSUME RoundsNext
  PROVE  calls' \in {calls, calls + 1} /\ faults' \in {faults, faults + 1}
BY DEF RoundsNext, Begin, FetchCurrent, ReadRow, Upsert, UpsertFails, Post, PostLost, Respond,
       Called, Fault

LEMMA RoundsUntouched ==
  RoundsInv /\ UNCHANGED <<local, action, last, torn>> => RoundsInv'
BY DEF RoundsInv, RoundsTyped, Follows, InLocalPart, Settling, Settled, Timer

LEMMA RoundsKilledKeeps ==
  ASSUME RoundsInv, RoundsKilled
  PROVE  RoundsInv'
<1> USE DEF RoundsInv
<1>1. /\ action' = {} /\ UNCHANGED <<local, last>>
      /\ torn' = torn \cup {c.r : c \in {c \in action : c.at \in {"read", "write"}}}
  BY DEF RoundsKilled
<1>2. RoundsTyped'
  BY <1>1, ActionForms DEF RoundsTyped
<1>3. ASSUME NEW s \in Rounds \ torn' PROVE Follows(s)'
  <2>1. InLocalPart(s) = {} /\ InLocalPart(s)' = {} /\ s \in Rounds \ torn
    BY <1>1, <1>3 DEF InLocalPart
  <2>2. QED
    BY <1>1, <2>1, FollowsUntouched
<1>4. QED
  BY <1>1, <1>2, <1>3

LEMMA RoundsStart == RoundsInit => RoundsInv
BY DEF RoundsInit, RoundsInv, RoundsTyped, Follows, InLocalPart, Settled

----------------------------------------------------------------------------
(* The phone *)

AppInv == SessionInv /\ FeedInv /\ RoundsInv

(* What is pushed has no field that a handler looks for. *)
LEMMA PushKeeps ==
  ASSUME AppInv, NEW event \in DOMAIN Field, NEW r \in Rounds, Push(event, r)
  PROVE  AppInv'
<1>1. "round" \notin DOMAIN Payload(r) /\ "announcement" \notin DOMAIN Payload(r)
  BY DEF Payload
<1>2. local' = local
  BY <1>1 DEF Push, handleRound, Adopt
<1>3. ann' = ann
  <2>1. event = "incoming" => Field[event] = "announcement"
    BY DEF Field
  <2>2. ann' = [a \in Anns |-> ann[a]]
    BY <1>1, <2>1 DEF Push, handleAnnouncementIncoming
  <2>3. QED
    BY <2>2 DEF AppInv, FeedInv, FeedTyped
<1>4. /\ UNCHANGED <<sessionVars, calls, faults>> /\ UNCHANGED feedVars
      /\ UNCHANGED <<local, action, last, torn>>
  BY <1>2, <1>3 DEF Push, feedVars, sounds
<1>5. QED
  BY <1>4, SessionUntouched, FeedUntouched, RoundsUntouched DEF AppInv

(* The inductive invariant of the phone: the session, its store and its    *)
(* socket (auth.service.ts, auth.context.tsx, realtime.service.ts), the    *)
(* announcements (announcement.service.ts, AnnouncementOverlay.tsx) and    *)
(* the rounds (round.service.ts) keep their invariants at every step of    *)
(* each of the others, at everything pushed, and when they are killed.     *)
THEOREM AppInvariance == Spec => []AppInv
<1>1. Init => AppInv
  BY SessionStarts, FeedStarts, RoundsStart DEF Init, AppInv
<1>2. AppInv /\ [Next]_vars => AppInv'
  <2> SUFFICES ASSUME AppInv, [Next]_vars PROVE AppInv'
    OBVIOUS
  <2> USE DEF AppInv
  <2>1. calls \in Nat /\ faults \in Nat /\ SessionTyped
    BY DEF SessionInv, SessionTyped
  <2>2. CASE SessionNext /\ UNCHANGED <<feedVars, roundVars>>
    BY <2>2, SessionStep, FeedUntouched, RoundsUntouched DEF roundVars
  <2>3. CASE FeedNext /\ UNCHANGED <<sessionVars, roundVars>>
    BY <2>1, <2>3, FeedStep, FeedCounts, SessionUntouched, RoundsUntouched DEF roundVars
  <2>4. CASE RoundsNext /\ UNCHANGED <<sessionVars, feedVars>>
    BY <2>1, <2>4, RoundsStep, RoundsCount, SessionUntouched, FeedUntouched
  <2>5. ASSUME NEW event \in DOMAIN Field, NEW r \in Rounds, Push(event, r) PROVE AppInv'
    BY <2>5, PushKeeps
  <2>6. CASE Kill
    BY <2>6, SessionKilledKeeps, FeedKilledKeeps, RoundsKilledKeeps DEF Kill
  <2>7. CASE UNCHANGED vars
    BY <2>7, SessionUntouched, FeedUntouched, RoundsUntouched DEF vars, roundVars
  <2>8. QED
    BY <2>2, <2>3, <2>4, <2>5, <2>6, <2>7 DEF Next
<1>3. QED
  BY <1>1, <1>2, PTL DEF Spec

(* auth.service.ts:39-163.  A login, a registration, a logout and a        *)
(* restore leave the store and the session either both or neither, as long *)
(* as nothing failed, and never put together the tokens and the user of    *)
(* two sessions after a single fault.                                      *)
THEOREM SessionAlwaysWhole == Spec => []SessionIsWhole
<1>1. AppInv => SessionIsWhole
  BY DEF AppInv, SessionInv
<1>2. QED
  BY <1>1, AppInvariance, PTL

(* realtime.context.tsx:62-77, realtime.service.ts:120-210.  The socket is *)
(* the session's whenever the effect has run, whatever the order of kills, *)
(* logouts, reconnections and expiries.                                    *)
THEOREM SocketAlwaysSessions == Spec => []SocketIsSessions
<1>1. AppInv => SocketIsSessions
  BY DEF AppInv, SessionInv
<1>2. QED
  BY <1>1, AppInvariance, PTL

(* announcement.service.ts:140-236, announcements.service.ts:107-146.  No  *)
(* interleaving of ticks, dismissals, kills and calls to the backend shows *)
(* an announcement twice, or has it acknowledged before it was shown; and  *)
(* the backend's row says what happened, but for the calls gone astray.    *)
THEOREM AlwaysShownOnce == Spec => []ShownOnce
<1>1. AppInv => ShownOnce
  <2> SUFFICES ASSUME FeedInv PROVE ShownOnce
    BY DEF AppInv
  <2> USE DEF FeedInv
  <2> SUFFICES ASSUME NEW a \in Anns
               PROVE  /\ shown[a] <= 1
                      /\ shown[a] = 1 => ann[a] \in {"played", "acknowledged"}
                      /\ ann[a] = "acknowledged" => shown[a] = 1
                      /\ ann[a] = "played" /\ ~Between(a) /\ a \notin astray => shown[a] = 1
                      /\ ~Between(a) /\ a \notin astray /\ (\A q \in requests : q.a # a) =>
                           row[a] = CASE ann[a] = "played" -> {"delivered"}
                                      [] ann[a] = "acknowledged" ->
                                           {"delivered"} \cup
                                           (IF a \in stopping THEN {} ELSE {"acknowledged"})
                                      [] OTHER -> {}
    BY DEF ShownOnce, Between
  <2>1. ann[a] \in {"absent", "queued", "played", "acknowledged"}
    BY DEF FeedTyped
  <2>2. /\ shown[a] <= 1
        /\ shown[a] = 1 => ann[a] \in {"played", "acknowledged"}
        /\ ann[a] = "acknowledged" => shown[a] = 1
        /\ ann[a] = "played" /\ ~Between(a) /\ a \notin astray => shown[a] = 1
        /\ a \in stopping => ann[a] = "acknowledged"
    BY DEF Shows
  <2>3. ASSUME ~Between(a), a \notin astray, \A q \in requests : q.a # a
        PROVE  row[a] = IF ann[a] \in {"absent", "queued"} THEN {}
                        ELSE IF ann[a] = "played" \/ a \in stopping THEN {"delivered"}
                        ELSE {"delivered", "acknowledged"}
    BY <2>3 DEF Told
  <2>4. QED
    BY <2>1, <2>2, <2>3
<1>2. QED
  BY <1>1, AppInvariance, PTL

(* announcement.service.ts:69-132.  No sound is heard that nobody can stop *)
(* unless it could not be unloaded, or a sound was loaded after the        *)
(* overlay had moved on.                                                   *)
THEOREM SoundsAlwaysTracked == Spec => []SoundsTracked
<1>1. AppInv => SoundsTracked
  BY DEF AppInv, FeedInv
<1>2. QED
  BY <1>1, AppInvariance, PTL

(* round.service.ts:74-211.  The row is what the last call made of it and  *)
(* its timer runs from the last start, whatever becomes of the POSTs and   *)
(* of the session, but for calls whose local parts overlapped or were cut  *)
(* off, until the next start.                                              *)
THEOREM RowAlwaysFollowsCalls == Spec => []RowFollowsCalls
<1>1. AppInv => RowFollowsCalls
  BY DEF AppInv, RoundsInv, Follows, Settled, RowFollowsCalls
<1>2. QED
  BY <1>1, AppInvariance, PTL

----------------------------------------------------------------------------
(* Announcements: from the providers to the backend's table.               *)

LEMMA TimesToLive ==
  \A t \in ANNOUNCEMENT_TYPES : TTL_BY_TYPE[t] \in Nat \ {0}
BY DEF TTL_BY_TYPE, ANNOUNCEMENT_TYPES

LEMMA TextsTyped ==
  ASSUME NEW from \in Provider \cup {"ai", "backend", "none"},
         NEW type \in ANNOUNCEMENT_TYPES \cup {"state_transition", "none"},
         NEW n \in Nat, NEW banned \in BOOLEAN
  PROVE  /\ Text(from, type, n, banned) \in TextType
         /\ composed(Text(from, type, n, banned)) \in TextType
         /\ composed(Text(from, type, n, banned)).from = from
         /\ composed(Text(from, type, n, banned)).type = type
BY DEF Text, TextType, composed, PREFIX_LENGTH

LEMMA TemplatesTyped ==
  ASSUME NEW from \in {"ai", "backend"}, NEW type \in Types \cup ANNOUNCEMENT_TYPES
  PROVE  /\ Template(from, type) \in TextType
         /\ Template(from, type).from = from
BY AnnouncementsAssumption, TextsTyped DEF Template, TEMPLATE_LENGTH, Text, TextType

LEMMA NobodyTyped == NoText \in TextType
BY TextsTyped DEF NoText

----------------------------------------------------------------------------
(* The cache. *)

LEMMA WithoutKeeps ==
  ASSUME NEW c \in Seq(Entry), NEW type,
         \A i, k \in DOMAIN c : c[i].type = c[k].type => i = k
  PROVE  /\ Without(c, type) \in Seq(Entry) /\ Len(Without(c, type)) <= Len(c)
         /\ Of(c, type) # {} => Len(Without(c, type)) = Len(c) - 1
         /\ \A i \in DOMAIN Without(c, type) :
               \E k \in DOMAIN c : Without(c, type)[i] = c[k] /\ c[k].type # type
         /\ \A i, k \in DOMAIN Without(c, type) :
               Without(c, type)[i].type = Without(c, type)[k].type => i = k
<1>1. CASE Of(c, type) = {}
  BY <1>1 DEF Without, Of
<1>2. CASE Of(c, type) # {}
  <2>1. PICK m \in Of(c, type) : Without(c, type) = RemoveAt(c, m)
    BY <1>2 DEF Without
  <2>2. m \in 1..Len(c) /\ c[m].type = type
    BY <2>1 DEF Of
  <2>x. PICK r : r = RemoveAt(c, m)
    OBVIOUS
  <2>3. /\ r \in Seq(Entry) /\ Len(r) = Len(c) - 1
        /\ \A i \in 1..Len(r) : r[i] = IF i < m THEN c[i] ELSE c[i + 1]
    <3> DEFINE a == SubSeq(c, 1, m - 1)
               b == SubSeq(c, m + 1, Len(c))
    <3>0. /\ Len(c) \in Nat /\ m \in Int /\ m - 1 \in Int /\ m + 1 \in Int
          /\ \A i \in 1..(m - 1) : c[i] \in Entry
          /\ \A i \in (m + 1)..Len(c) : c[i] \in Entry
      BY <2>2
    <3>1. a \in Seq(Entry) /\ Len(a) = m - 1 /\ \A i \in 1..(m - 1) : a[i] = c[i]
      <4>1. /\ a \in Seq(Entry) /\ Len(a) = IF 1 <= m - 1 THEN (m - 1) - 1 + 1 ELSE 0
            /\ \A i \in 1..((m - 1) - 1 + 1) : a[i] = c[1 + i - 1]
        BY <3>0, SubSeqProperties
      <4>2. QED
        BY <2>2, <4>1
    <3>2. /\ b \in Seq(Entry) /\ Len(b) = Len(c) - m
          /\ \A i \in 1..(Len(c) - m) : b[i] = c[m + i]
      <4>1. /\ b \in Seq(Entry) /\ Len(b) = IF m + 1 <= Len(c) THEN Len(c) - (m + 1) + 1 ELSE 0
            /\ \A i \in 1..(Len(c) - (m + 1) + 1) : b[i] = c[(m + 1) + i - 1]
        BY <3>0, SubSeqProperties
      <4>2. QED
        BY <2>2, <3>0, <4>1
    <3> HIDE DEF a, b
    <3>3. /\ a \o b \in Seq(Entry) /\ Len(a \o b) = Len(c) - 1
          /\ \A i \in 1..(Len(c) - 1) : (a \o b)[i] = IF i < m THEN a[i] ELSE b[i - (m - 1)]
      <4>1. /\ a \o b \in Seq(Entry) /\ Len(a \o b) = Len(a) + Len(b)
            /\ \A i \in 1..(Len(a) + Len(b)) : (a \o b)[i] = IF i <= Len(a) THEN a[i] ELSE b[i - Len(a)]
        <5>1. a \in Seq(Entry) /\ b \in Seq(Entry)
          BY <3>1, <3>2
        <5>2. QED
          BY <5>1, ConcatProperties
      <4>2. Len(a) + Len(b) = Len(c) - 1 /\ \A i \in Int : i <= Len(a) <=> i < m
        BY <3>0, <3>1, <3>2
      <4>3. Len(a) = m - 1
        BY <3>1
      <4>4. QED
        BY <4>1, <4>2, <4>3
    <3>4. r = a \o b
      BY <2>x DEF RemoveAt, a, b
    <3>5. ASSUME NEW i \in 1..Len(r) PROVE r[i] = IF i < m THEN c[i] ELSE c[i + 1]
      <4>0. Len(r) = Len(c) - 1
        BY <3>3, <3>4
      <4>1. i \in 1..(Len(c) - 1) /\ r[i] = IF i < m THEN a[i] ELSE b[i - (m - 1)]
        BY <3>3, <3>4, <4>0
      <4>2. CASE i < m
        <5>1. i \in 1..(m - 1)
          BY <3>0, <4>1, <4>2
        <5>2. QED
          BY <3>1, <4>1, <4>2, <5>1
      <4>3. CASE i >= m
        <5>1. PICK k \in 1..(Len(c) - m) : k = i - (m - 1) /\ m + k = i + 1
          BY <3>0, <4>1, <4>3
        <5>2. QED
          BY <3>0, <3>2, <4>1, <4>3, <5>1
      <4>4. QED
        BY <3>0, <4>1, <4>2, <4>3
    <3>6. QED
      BY <3>3, <3>4, <3>5
  <2>4. ASSUME NEW i \in DOMAIN r
        PROVE  \E k \in DOMAIN c : r[i] = c[k] /\ c[k].type # type /\ k = IF i < m THEN i ELSE i + 1
    BY <2>2, <2>3
  <2>5. \A i, k \in DOMAIN r : r[i].type = r[k].type => i = k
    <3> SUFFICES ASSUME NEW i \in DOMAIN r, NEW k \in DOMAIN r, r[i].type = r[k].type
                 PROVE  i = k
      OBVIOUS
    <3>1. (IF i < m THEN i ELSE i + 1) = (IF k < m THEN k ELSE k + 1)
      BY <2>4
    <3>2. i \in Int /\ k \in Int /\ m \in Int
      BY <2>2, <2>3
    <3>3. QED
      BY <3>1, <3>2
  <2>6. QED
    BY <2>1, <2>x, <2>3, <2>4, <2>5
<1>3. QED
  BY <1>1, <1>2

LEMMA AppendedCache ==
  ASSUME NEW c \in Seq(Entry), NEW e \in Entry,
         \A i, k \in DOMAIN c : c[i].type = c[k].type => i = k,
         \A i \in DOMAIN c : c[i].type # e.type
  PROVE  /\ Append(c, e) \in Seq(Entry) /\ Len(Append(c, e)) = Len(c) + 1
         /\ \A i \in DOMAIN Append(c, e) :
               Append(c, e)[i] = e \/ \E k \in DOMAIN c : Append(c, e)[i] = c[k]
         /\ \A i, k \in DOMAIN Append(c, e) :
               Append(c, e)[i].type = Append(c, e)[k].type => i = k
OBVIOUS

(* What the operations of the cache make of a cache that is as it should   *)
(* be.                                                                     *)

LEMMA WithoutOK ==
  ASSUME CacheOK(cache), NEW type
  PROVE  /\ CacheOK(Without(cache, type))
         /\ \A i \in DOMAIN Without(cache, type) : Without(cache, type)[i].type # type
         /\ Of(cache, type) # {} => Len(Without(cache, type)) < MAX_ENTRIES
<1>1. /\ Without(cache, type) \in Seq(Entry) /\ Len(Without(cache, type)) <= Len(cache)
      /\ Of(cache, type) # {} => Len(Without(cache, type)) = Len(cache) - 1
      /\ \A i \in DOMAIN Without(cache, type) :
            \E k \in DOMAIN cache : Without(cache, type)[i] = cache[k] /\ cache[k].type # type
      /\ \A i, k \in DOMAIN Without(cache, type) :
            Without(cache, type)[i].type = Without(cache, type)[k].type => i = k
  BY WithoutKeeps DEF CacheOK
<1>2. PICK r : r = Without(cache, type)
  OBVIOUS
<1>3. Len(cache) \in Nat /\ Len(r) \in Nat /\ MAX_ENTRIES \in Nat
  BY <1>1, <1>2, AnnouncementsAssumption DEF CacheOK
<1>4. QED
  BY <1>1, <1>2, <1>3 DEF CacheOK

LEMMA SetOK ==
  ASSUME CacheOK(cache), NEW e \in Entry, EntryOK(e)
  PROVE  CacheOK(set(cache, e))
<1>1. PICK kept : kept = Without(cache, e.type)
  OBVIOUS
<1>2. CacheOK(kept) /\ \A i \in DOMAIN kept : kept[i].type # e.type
  BY <1>1, WithoutOK
<1>3. PICK c : c = IF Len(kept) = MAX_ENTRIES THEN Tail(kept) ELSE kept
  OBVIOUS
<1>4. set(cache, e) = Append(c, e)
  BY <1>1, <1>3 DEF set
<1>m. MAX_ENTRIES \in Nat \ {0}
  BY AnnouncementsAssumption
<1>5. CacheOK(c) /\ Len(c) < MAX_ENTRIES /\ \A i \in DOMAIN c : c[i].type # e.type
  <2>1. CASE Len(kept) = MAX_ENTRIES
    <3>1. /\ c = Tail(kept) /\ kept \in Seq(Entry) /\ kept # <<>>
      BY <1>2, <1>3, <1>m, <2>1 DEF CacheOK
    <3>2. /\ c \in Seq(Entry) /\ Len(c) = Len(kept) - 1
          /\ \A i \in 1..Len(c) : i + 1 \in 1..Len(kept) /\ c[i] = kept[i + 1]
      BY <3>1
    <3>2a. DOMAIN c = 1..Len(c) /\ DOMAIN kept = 1..Len(kept) /\ Len(c) \in Nat /\ Len(kept) \in Nat
      BY <3>1, <3>2
    <3>3. \A i, k \in DOMAIN c : c[i].type = c[k].type => i = k
      <4>1. ASSUME NEW i \in 1..Len(c), NEW k \in 1..Len(c), c[i].type = c[k].type
            PROVE  i = k
        <5>1. i + 1 \in DOMAIN kept /\ k + 1 \in DOMAIN kept
              /\ kept[i + 1].type = kept[k + 1].type
          BY <3>2, <3>2a, <4>1
        <5>2. i + 1 = k + 1
          BY <1>2, <5>1 DEF CacheOK
        <5>3. QED
          BY <5>2, <4>1
      <4>2. QED
        BY <4>1, <3>2a
    <3>4. \A i \in DOMAIN c : EntryOK(c[i]) /\ c[i].type # e.type
      <4>1. ASSUME NEW i \in DOMAIN c PROVE EntryOK(c[i]) /\ c[i].type # e.type
        <5>1. i + 1 \in DOMAIN kept /\ c[i] = kept[i + 1]
          BY <3>2, <3>2a
        <5>2. \A k \in DOMAIN kept : EntryOK(kept[k]) /\ kept[k].type # e.type
          BY <1>2 DEF CacheOK
        <5>3. QED
          BY <5>1, <5>2, Zenon
      <4>2. QED
        BY <4>1
    <3>5. Len(c) < MAX_ENTRIES
      BY <2>1, <3>2, <3>2a, <1>m
    <3>6. QED
      BY <3>2, <3>3, <3>4, <3>5, <1>m, <3>2a DEF CacheOK
  <2>2. CASE Len(kept) # MAX_ENTRIES
    <3>1. c = kept /\ Len(kept) \in Nat /\ Len(kept) <= MAX_ENTRIES
      BY <1>2, <1>3, <2>2 DEF CacheOK
    <3>2. QED
      BY <1>2, <1>m, <2>2, <3>1
  <2>3. QED
    BY <2>1, <2>2
<1>6. /\ Append(c, e) \in Seq(Entry) /\ Len(Append(c, e)) = Len(c) + 1
      /\ \A i \in DOMAIN Append(c, e) :
            Append(c, e)[i] = e \/ \E k \in DOMAIN c : Append(c, e)[i] = c[k]
      /\ \A i, k \in DOMAIN Append(c, e) :
            Append(c, e)[i].type = Append(c, e)[k].type => i = k
  BY <1>5, AppendedCache DEF CacheOK
<1>7. QED
  <2>1. Len(c) \in Nat
    BY <1>5 DEF CacheOK
  <2>2. Len(Append(c, e)) <= MAX_ENTRIES
    BY <1>5, <1>6, <1>m, <2>1
  <2>3. \A i \in DOMAIN Append(c, e) : EntryOK(Append(c, e)[i])
    BY <1>5, <1>6 DEF CacheOK
  <2>4. QED
    BY <1>4, <1>6, <2>2, <2>3 DEF CacheOK

LEMMA HitOK ==
  ASSUME CacheOK(cache), NEW i \in DOMAIN cache
  PROVE  CacheOK(Append(Without(cache, cache[i].type), cache[i]))
<1>1. PICK c : c = Without(cache, cache[i].type)
  OBVIOUS
<1>2. cache[i] \in Entry /\ EntryOK(cache[i]) /\ i \in Of(cache, cache[i].type)
  BY DEF CacheOK, Of
<1>3. /\ CacheOK(c) /\ Len(c) < MAX_ENTRIES
      /\ \A k \in DOMAIN c : c[k].type # cache[i].type
  BY <1>1, <1>2, WithoutOK
<1>4. /\ Append(c, cache[i]) \in Seq(Entry) /\ Len(Append(c, cache[i])) = Len(c) + 1
      /\ \A k \in DOMAIN Append(c, cache[i]) :
            Append(c, cache[i])[k] = cache[i] \/ \E m \in DOMAIN c : Append(c, cache[i])[k] = c[m]
      /\ \A k, m \in DOMAIN Append(c, cache[i]) :
            Append(c, cache[i])[k].type = Append(c, cache[i])[m].type => k = m
  BY <1>2, <1>3, AppendedCache DEF CacheOK
<1>5. Len(c) \in Nat /\ MAX_ENTRIES \in Nat
  BY <1>3, AnnouncementsAssumption DEF CacheOK
<1>6. PICK r : r = Append(c, cache[i])
  OBVIOUS
<1>7. Len(r) <= MAX_ENTRIES
  BY <1>3, <1>4, <1>5, <1>6
<1>8. \A k \in DOMAIN r : EntryOK(r[k])
  BY <1>2, <1>3, <1>4, <1>6 DEF CacheOK
<1>9. QED
  BY <1>1, <1>4, <1>6, <1>7, <1>8 DEF CacheOK

(* The calls of the backend. *)

LEMMA CountMoves ==
  ASSUME NEW S, NEW T, NEW j, IsFiniteSet(S), T \ {j} = S \ {j}
  PROVE  /\ IsFiniteSet(T)
         /\ Cardinality(S) \in Nat /\ Cardinality(T) \in Nat
         /\ Cardinality(T) = Cardinality(S) + (IF j \in T THEN 1 ELSE 0) - (IF j \in S THEN 1 ELSE 0)
<1> DEFINE R == S \ {j}
<1>1. IsFiniteSet(R) /\ Cardinality(R) = IF j \in S THEN Cardinality(S) - 1 ELSE Cardinality(S)
  BY FS_RemoveElement
<1>2. /\ IsFiniteSet(R \cup {j})
      /\ Cardinality(R \cup {j}) = Cardinality(R) + 1
  BY <1>1, FS_AddElement
<1>3. Cardinality(S) \in Nat /\ Cardinality(R) \in Nat
  BY <1>1, FS_CardinalityType
<1>4. CASE j \in T
  <2>1. T = R \cup {j}
    BY <1>4
  <2>2. QED
    BY <1>1, <1>2, <1>3, <1>4, <2>1
<1>5. CASE j \notin T
  <2>1. T = R
    BY <1>5
  <2>2. QED
    BY <1>1, <1>3, <1>5, <2>1
<1>6. QED
  BY <1>4, <1>5

LEMMA WaitingFinite ==
  ASSUME IsFiniteSet(Asked)
  PROVE  IsFiniteSet(Waiting)
<1>1. Waiting \subseteq Asked
  BY DEF Waiting, Asked, Unsaved, Calling, Answered, Resting
<1>2. QED
  BY <1>1, FS_Subset

LEMMA Kinds ==
  /\ Resting \notin Unsaved /\ Resting.at = "idle"
  /\ \A q \in Calling : q \in Unsaved /\ q.at \in {"send", "wait", "render"}
  /\ \A q \in Answered : q \in Unsaved /\ q.at = "answer"
  /\ \A q \in Unsaved : q.at \in {"send", "wait", "render", "answer"} /\ q # Resting
  /\ \A q \in Unsaved : q.type \in Types /\ q.attempt \in Nat
  /\ \A q \in Saved : q.at = "emit" /\ q \notin Unsaved /\ q # Resting
BY DEF Unsaved, Calling, Answered, Saved, Resting

LEMMA CallKinds ==
  ASSUME JobsOK, NEW j \in Jobs
  PROVE  /\ job[j] \in Unsaved \cup Saved \cup {Resting} /\ JobOK(job[j])
         /\ job[j].at \in {"send", "wait", "render", "answer"} => job[j] \in Unsaved
         /\ job[j].at \in {"send", "wait", "render"} => job[j] \in Calling
         /\ job[j].at = "answer" => job[j] \in Answered
         /\ job[j].at = "emit" => job[j] \in Saved
<1>1. job[j] \in Unsaved \cup Saved \cup {Resting} /\ JobOK(job[j])
  BY DEF JobsOK
<1>2. QED
  BY <1>1, Kinds DEF Unsaved

(* One call moves. *)
LEMMA JobMoves ==
  ASSUME JobsOK, IsFiniteSet(Asked), NEW j \in Jobs, NEW q \in Unsaved \cup Saved \cup {Resting},
         job' = [job EXCEPT ![j] = q], JobOK(q)
  PROVE  /\ JobsOK' /\ IsFiniteSet(Asked')
         /\ {Cardinality(Asked), Cardinality(Asked'), Cardinality(Waiting), Cardinality(Waiting')} \subseteq Nat
         /\ Cardinality(Asked') = Cardinality(Asked) + (IF q # Resting THEN 1 ELSE 0)
                                    - (IF job[j] # Resting THEN 1 ELSE 0)
         /\ Cardinality(Waiting') = Cardinality(Waiting) + (IF q \in Unsaved THEN 1 ELSE 0)
                                      - (IF job[j] \in Unsaved THEN 1 ELSE 0)
<1>1. /\ job \in [Jobs -> Unsaved \cup Saved \cup {Resting}]
      /\ job' \in [Jobs -> Unsaved \cup Saved \cup {Resting}]
      /\ job'[j] = q /\ \A k \in Jobs : k # j => job'[k] = job[k]
  BY DEF JobsOK
<1>2. JobsOK'
  <2>1. ASSUME NEW k \in Jobs PROVE JobOK(job'[k])
    <3>1. CASE k = j
      BY <1>1, <3>1
    <3>2. CASE k # j
      BY <1>1, <3>2 DEF JobsOK
    <3>3. QED
      BY <3>1, <3>2
  <2>2. QED
    BY <1>1, <2>1 DEF JobsOK
<1>3. IsFiniteSet(Waiting)
  BY WaitingFinite
<1>4. Asked' \ {j} = Asked \ {j} /\ Waiting' \ {j} = Waiting \ {j}
  BY <1>1 DEF Asked, Waiting
<1>5. /\ j \in Asked' <=> q # Resting
      /\ j \in Asked <=> job[j] # Resting
      /\ j \in Waiting' <=> q \in Unsaved
      /\ j \in Waiting <=> job[j] \in Unsaved
  BY <1>1 DEF Asked, Waiting
<1>6. /\ IsFiniteSet(Asked')
      /\ Cardinality(Asked) \in Nat /\ Cardinality(Asked') \in Nat
      /\ Cardinality(Asked') = Cardinality(Asked) + (IF j \in Asked' THEN 1 ELSE 0) - (IF j \in Asked THEN 1 ELSE 0)
  BY <1>4, CountMoves
<1>7. /\ Cardinality(Waiting) \in Nat /\ Cardinality(Waiting') \in Nat
      /\ Cardinality(Waiting') = Cardinality(Waiting) + (IF j \in Waiting' THEN 1 ELSE 0) - (IF j \in Waiting THEN 1 ELSE 0)
  BY <1>3, <1>4, CountMoves
<1>8. QED
  BY <1>2, <1>5, <1>6, <1>7

LEMMA AfterErrorTyped ==
  ASSUME NEW q \in Unsaved
  PROVE  /\ AfterError(q) \in Calling /\ AfterError(q).at \in {"send", "render"}
         /\ JobOK(AfterError(q))
<1>1. q.attempt \in Nat /\ q.attempt + 1 \in Nat /\ q.type \in Types
  BY Kinds
<1>2. AfterError(q) \in Calling /\ AfterError(q).at \in {"send", "render"}
  BY <1>1 DEF AfterError, Calling
<1>3. QED
  BY <1>2 DEF JobOK

(* A row is saved. *)
LEMMA SavedKeeps ==
  ASSUME JobsOK, CallsCounted, NEW j \in Jobs, job[j] \in Unsaved,
         NEW q \in Saved, RowOK(q.saved, q.type), job' = [job EXCEPT ![j] = q], rows' = rows + 1,
         UNCHANGED <<emitted, jobs, failures>>
  PROVE  JobsOK' /\ CallsCounted'
<1>1. q \notin Unsaved /\ q # Resting /\ job[j] # Resting /\ JobOK(q)
  BY Kinds DEF JobOK
<1>2. /\ JobsOK' /\ IsFiniteSet(Asked')
      /\ {Cardinality(Asked), Cardinality(Asked'), Cardinality(Waiting), Cardinality(Waiting')} \subseteq Nat
      /\ Cardinality(Asked') = Cardinality(Asked) + (IF q # Resting THEN 1 ELSE 0)
                                 - (IF job[j] # Resting THEN 1 ELSE 0)
      /\ Cardinality(Waiting') = Cardinality(Waiting) + (IF q \in Unsaved THEN 1 ELSE 0)
                                   - (IF job[j] \in Unsaved THEN 1 ELSE 0)
  BY <1>1, JobMoves DEF CallsCounted
<1>3. QED
  BY <1>1, <1>2 DEF CallsCounted

LEMMA CategoriesTyped ==
  \A t \in ANNOUNCEMENT_TYPES \cup {"state_transition", "none"} : category(t) \in ANNOUNCEMENT_TYPES
<1>1. \A t \in DOMAIN TEMPLATES : TEMPLATES[t] \in ANNOUNCEMENT_TYPES
  BY DEF TEMPLATES, ANNOUNCEMENT_TYPES
<1>2. QED
  BY <1>1 DEF category, ANNOUNCEMENT_TYPES

(* The row is an answer's that is vetted and fresh, or the template.       *)
LEMMA RowKeeps ==
  ASSUME JobsOK, NEW j \in Jobs, job[j].at \in {"answer", "render"}, NEW stored,
         stored = IF Usable(job[j])
               THEN Row(job[j], job[j].response.message, TRUE, job[j].response.voice, job[j].age)
               ELSE Row(job[j], Template("backend", job[j].type), FALSE, NoVoice, 0)
  PROVE  stored \in RowType /\ RowOK(stored, job[j].type)
<1>1. job[j].type \in Types /\ category(job[j].type) \in ANNOUNCEMENT_TYPES
  BY Kinds, CallKinds, CategoriesTyped, AnnouncementsAssumption
<1>2. CASE Usable(job[j])
  <2>1. /\ job[j] \in Answered /\ Fresh(job[j].response.message, job[j].age)
    BY <1>2, CallKinds DEF Usable, JobOK, AnswerOK
  <2>2. /\ job[j].response.message \in TextType /\ job[j].response.voice \in Int /\ job[j].age \in Int
    BY <2>1 DEF Answered, Response
  <2>3. stored = Row(job[j], job[j].response.message, TRUE, job[j].response.voice, job[j].age)
    BY <1>2
  <2>4. stored \in RowType
    BY <1>1, <2>2, <2>3 DEF Row, RowType
  <2>5. stored.ai = TRUE /\ stored.message = job[j].response.message /\ stored.age = job[j].age
    BY <2>3 DEF Row
  <2>6. QED
    BY <2>1, <2>4, <2>5 DEF RowOK
<1>3. CASE ~Usable(job[j])
  <2>1. Template("backend", job[j].type) \in TextType
    BY <1>1, TemplatesTyped
  <2>2. stored = Row(job[j], Template("backend", job[j].type), FALSE, NoVoice, 0)
    BY <1>3
  <2>3. stored \in RowType
    BY <1>1, <2>1, <2>2 DEF Row, RowType, NoVoice
  <2>4. stored.ai = FALSE /\ stored.message = Template("backend", job[j].type) /\ stored.voice = NoVoice
    BY <2>2 DEF Row
  <2>5. QED
    BY <2>3, <2>4 DEF RowOK
<1>4. QED
  BY <1>2, <1>3

(* An answer comes to the calls that wait for it. *)
LEMMA AnswerKeeps ==
  ASSUME JobsOK, CallsCounted, NEW g \in Gens, NEW entry \in Entry,
         EntryOK(entry), now \in Nat, now - entry.at < TTL_BY_TYPE[entry.type],
         AnswerCall(g, entry), UNCHANGED <<rows, emitted, jobs, failures>>
  PROVE  JobsOK' /\ CallsCounted'
<1>1. ASSUME NEW j \in Jobs
      PROVE  /\ job'[j] \in Unsaved \cup Saved \cup {Resting} /\ JobOK(job'[j])
             /\ job'[j] # Resting <=> job[j] # Resting
             /\ job'[j] \in Unsaved <=> job[j] \in Unsaved
  <2>1. CASE job[j].at = "wait" /\ job[j].gen = g
    <3>1. job[j] \in Unsaved /\ job[j].type \in Types /\ job[j].attempt \in Nat
      BY <2>1, CallKinds, Kinds
    <3>2. job'[j] = [at |-> "answer", type |-> job[j].type, attempt |-> job[j].attempt,
                     response |-> entry.response, age |-> now - entry.at]
      BY <2>1 DEF AnswerCall
    <3>3. entry.response \in Response /\ now - entry.at \in Int
      BY DEF Entry
    <3>4. job'[j] \in Answered
      BY <3>1, <3>2, <3>3 DEF Answered
    <3>5. AnswerOK(job'[j])
      <4>1. job'[j].response = entry.response /\ job'[j].age = now - entry.at
        BY <3>2
      <4>2. CASE entry.response.fallbackUsed
        BY <4>1, <4>2 DEF AnswerOK
      <4>3. CASE Vetted(entry.response.message, entry.type)
        <5>1. entry.response.message.type = entry.type
          BY <4>3 DEF Vetted
        <5>2. QED
          BY <4>1, <4>3, <5>1 DEF AnswerOK, Fresh
      <4>4. QED
        BY <4>2, <4>3 DEF EntryOK
    <3>6. job'[j].at = "answer" /\ job'[j] \in Unsaved
      BY <3>4, Kinds
    <3>7. QED
      BY <3>1, <3>5, <3>6, Kinds DEF JobOK
  <2>2. CASE ~(job[j].at = "wait" /\ job[j].gen = g)
    BY <2>2, CallKinds DEF AnswerCall
  <2>3. QED
    BY <2>1, <2>2
<1>2. job' \in [Jobs -> Unsaved \cup Saved \cup {Resting}]
  BY <1>1 DEF AnswerCall
<1>3. JobsOK'
  BY <1>1, <1>2 DEF JobsOK
<1>4. Asked' = Asked /\ Waiting' = Waiting
  BY <1>1 DEF Asked, Waiting
<1>5. QED
  BY <1>3, <1>4 DEF CallsCounted

LEMMA CacheStays ==
  ASSUME NEW c, CacheOK(c), now' = now, cache' = c
  PROVE  CacheOK(cache)'
BY DEF CacheOK, EntryOK

LEMMA CacheAges ==
  ASSUME CacheOK(cache), now \in Nat, now' = now + 1, cache' = cache
  PROVE  CacheOK(cache)'
<1>1. \A i \in DOMAIN cache : cache[i] \in Entry
  BY DEF CacheOK
<1>2. \A e \in Entry : EntryOK(e) => EntryOK(e)'
  BY DEF Entry, EntryOK
<1>3. QED
  BY <1>1, <1>2 DEF CacheOK

(* One generation moves. *)
LEMMA GenMoves ==
  ASSUME GensOK, NEW g \in Gens, NEW q \in GenState \cup {Resting}, q # Resting => GenOK(q),
         gen' = [gen EXCEPT ![g] = q]
  PROVE  GensOK'
<1>1. gen' \in [Gens -> GenState \cup {Resting}]
  BY DEF GensOK
<1>2. ASSUME NEW k \in Gens, gen'[k] # Resting PROVE GenOK(gen'[k])
  BY <1>2 DEF GensOK
<1>3. QED
  BY <1>1, <1>2 DEF GensOK

LEMMA NextProviderOK ==
  ASSUME NEW q \in GenState, GenOK(q), q.at = "text", NEW provider \in q.left, NEW r,
         r = NextProvider(q, provider)
  PROVE  r \in GenState /\ GenOK(r)
<1>1. q.type \in ANNOUNCEMENT_TYPES /\ Template("ai", q.type) \in TextType
  BY TemplatesTyped DEF GenState
<1>2. CASE q.left = {provider}
  <2>1. r = [q EXCEPT !.at = "voice", !.message = Template("ai", q.type)]
    BY <1>2 DEF NextProvider
  <2>2. QED
    BY <1>1, <2>1 DEF GenState, GenOK
<1>3. CASE q.left # {provider}
  <2>1. PICK l : l = q.left \ {provider}
    OBVIOUS
  <2>2. l \in SUBSET Provider /\ l # {} /\ l \subseteq q.left
    BY <1>3, <2>1 DEF GenState
  <2>3. r = [q EXCEPT !.left = l, !.attempt = 1]
    BY <1>3, <2>1 DEF NextProvider
  <2>4. r \in GenState /\ r.left = l /\ r.type = q.type /\ r.at = q.at
    <3>1. PICK n \in Nat : n = 1
      OBVIOUS
    <3>2. r = [q EXCEPT !.left = l, !.attempt = n]
      BY <2>3, <3>1
    <3>3. QED
      BY <2>2, <3>2 DEF GenState
  <2>5. QED
    BY <2>2, <2>4 DEF GenOK
<1>4. QED
  BY <1>2, <1>3

LEMMA RetryOK ==
  ASSUME NEW q \in GenState, GenOK(q), q.at = "text", NEW provider \in q.left, NEW r,
         r = withRetry(q, provider)
  PROVE  r \in GenState /\ GenOK(r)
<1>1. CASE q.attempt < ATTEMPTS
  <2>1. PICK n \in Nat : n = q.attempt + 1
    BY DEF GenState
  <2>2. r = [q EXCEPT !.attempt = n]
    BY <1>1, <2>1 DEF withRetry
  <2>3. r \in GenState /\ r.type = q.type /\ r.at = q.at /\ r.left = q.left
    BY <2>2 DEF GenState
  <2>4. QED
    BY <2>3 DEF GenOK
<1>2. CASE ~(q.attempt < ATTEMPTS)
  BY <1>2, NextProviderOK DEF withRetry
<1>3. QED
  BY <1>1, <1>2

LEMMA ProvidedOK ==
  ASSUME NEW q \in GenState, GenOK(q), q.at = "text", NEW provider \in q.left,
         NEW reply \in Replies, NEW banned \in BOOLEAN, NEW n \in callProvider(provider, reply),
         NEW text, text = composed(Text(provider, q.type, n, banned)),
         NEW message, message = IF check(text) THEN text ELSE Template("ai", q.type),
         NEW next, next = [q EXCEPT !.at = "voice", !.message = message]
  PROVE  next \in GenState /\ GenOK(next)
<1>1. /\ q.type \in ANNOUNCEMENT_TYPES /\ Template("ai", q.type) \in TextType
      /\ provider \in Provider /\ provider \in buildChain
  BY TemplatesTyped DEF GenState, GenOK
<1>2. n \in Nat
  BY <1>1, AnnouncementsAssumption DEF callProvider, openai, callClaude, callOllama, Replies, NotJson, Provider
<1>3. text \in TextType /\ text.from = provider /\ text.type = q.type
  BY <1>1, <1>2, TextsTyped
<1>4. message \in TextType /\ (message = Template("ai", q.type) \/ Vetted(message, q.type))
  BY <1>1, <1>3 DEF Vetted
<1>5. next \in GenState /\ next.type = q.type /\ next.at = "voice" /\ next.message = message
  BY <1>4 DEF GenState
<1>6. QED
  BY <1>1, <1>4, <1>5 DEF GenOK

LEMMA Working ==
  /\ Resting \notin GenState /\ Resting.at = "idle"
  /\ \A q \in GenState : q # Resting
  /\ GensOK => \A g \in Gens : gen[g].at \in {"lookup", "text", "voice", "speech", "finish"} =>
                  gen[g] \in GenState /\ GenOK(gen[g])
BY DEF GenState, Resting, GensOK

----------------------------------------------------------------------------
(* The steps. *)

LEMMA BackendSteps ==
  ASSUME AllSound, NEW j \in Jobs,
         GenerateAndQueue(j) \/ Send(j) \/ RequestFails(j) \/ SaveRow(j) \/ Emit(j) \/ Reject(j)
  PROVE  AllSound'
<1> USE DEF AllSound
<1>0. /\ IsFiniteSet(Asked) /\ {rows, emitted, jobs, failures} \subseteq Nat
      /\ job[j].at \in {"send", "wait", "render", "answer"} => job[j] \in Unsaved
  BY CallKinds DEF CallsCounted
<1>1. CASE GenerateAndQueue(j)
  <2>1. PICK t \in Types : job' = [job EXCEPT ![j] = [at |-> "send", type |-> t, attempt |-> 1,
                                                      gen |-> "none"]]
    BY <1>1 DEF GenerateAndQueue
  <2>2. PICK q : q = [at |-> "send", type |-> t, attempt |-> 1, gen |-> "none"]
    OBVIOUS
  <2>3. q \in Calling /\ q \in Unsaved /\ JobOK(q)
    BY <2>2 DEF Calling, Unsaved, JobOK
  <2>4. /\ JobsOK' /\ IsFiniteSet(Asked')
        /\ {Cardinality(Asked), Cardinality(Asked'), Cardinality(Waiting), Cardinality(Waiting')} \subseteq Nat
        /\ Cardinality(Asked') = Cardinality(Asked) + (IF q # Resting THEN 1 ELSE 0)
                                   - (IF job[j] # Resting THEN 1 ELSE 0)
        /\ Cardinality(Waiting') = Cardinality(Waiting) + (IF q \in Unsaved THEN 1 ELSE 0)
                                     - (IF job[j] \in Unsaved THEN 1 ELSE 0)
    BY <1>0, <2>1, <2>2, <2>3, JobMoves
  <2>5. Cardinality(Asked') = Cardinality(Asked) + 1 /\ Cardinality(Waiting') = Cardinality(Waiting) + 1
    BY <1>1, <2>3, <2>4, Kinds DEF GenerateAndQueue
  <2>6. CallsCounted'
    BY <1>0, <1>1, <2>4, <2>5 DEF CallsCounted, GenerateAndQueue
  <2>7. CacheOK(cache)' /\ GensOK'
    BY <1>1, CacheStays DEF GenerateAndQueue, GensOK
  <2>8. QED
    BY <1>1, <2>4, <2>6, <2>7 DEF GenerateAndQueue
<1>2. ASSUME job[j] \in Unsaved, NEW q \in Calling, JobOK(q), job' = [job EXCEPT ![j] = q],
             UNCHANGED <<rows, emitted, jobs, failures>>
      PROVE  JobsOK' /\ CallsCounted'
  <2>0. q \in Unsaved
    BY <1>2, Kinds
  <2>1. /\ JobsOK' /\ IsFiniteSet(Asked')
        /\ {Cardinality(Asked), Cardinality(Asked'), Cardinality(Waiting), Cardinality(Waiting')} \subseteq Nat
        /\ Cardinality(Asked') = Cardinality(Asked) + (IF q # Resting THEN 1 ELSE 0)
                                   - (IF job[j] # Resting THEN 1 ELSE 0)
        /\ Cardinality(Waiting') = Cardinality(Waiting) + (IF q \in Unsaved THEN 1 ELSE 0)
                                     - (IF job[j] \in Unsaved THEN 1 ELSE 0)
    BY <1>0, <1>2, <2>0, JobMoves
  <2>2. Cardinality(Asked') = Cardinality(Asked) /\ Cardinality(Waiting') = Cardinality(Waiting)
    BY <1>2, <2>0, <2>1, Kinds
  <2>3. QED
    BY <1>0, <1>2, <2>1, <2>2 DEF CallsCounted
<1>3. CASE Send(j)
  <2>1. job[j] \in Unsaved /\ job[j] \in Calling
    BY <1>3, CallKinds DEF Send
  <2>2. CASE job' = [job EXCEPT ![j] = AfterError(@)] /\ UNCHANGED gen
    <3>1. PICK q : q = AfterError(job[j])
      OBVIOUS
    <3>2. q \in Calling /\ JobOK(q) /\ job' = [job EXCEPT ![j] = q]
      BY <2>1, <2>2, <3>1, AfterErrorTyped DEF JobsOK
    <3>3. JobsOK' /\ CallsCounted'
      BY <1>2, <1>3, <2>1, <3>2 DEF Send
    <3>4. CacheOK(cache)' /\ GensOK'
      BY <1>3, <2>2, CacheStays DEF Send, GensOK
    <3>5. QED
      BY <1>3, <3>3, <3>4 DEF Send
  <2>3. CASE job[j].type \in ANNOUNCEMENT_TYPES /\ \E g \in Gens :
              /\ gen[g] = Resting
              /\ gen' = [gen EXCEPT ![g] = [at |-> "lookup", type |-> job[j].type, left |-> buildChain,
                                            attempt |-> 1, message |-> NoText, voice |-> NoVoice]]
              /\ job' = [job EXCEPT ![j].at = "wait", ![j].gen = g]
    <3>1. PICK g \in Gens :
              /\ gen' = [gen EXCEPT ![g] = [at |-> "lookup", type |-> job[j].type, left |-> buildChain,
                                            attempt |-> 1, message |-> NoText, voice |-> NoVoice]]
              /\ job' = [job EXCEPT ![j].at = "wait", ![j].gen = g]
      BY <2>3
    <3>2. PICK q : q = [job[j] EXCEPT !.at = "wait", !.gen = g]
      OBVIOUS
    <3>3. q \in Calling /\ q.at = "wait" /\ job' = [job EXCEPT ![j] = q]
      BY <2>1, <3>1, <3>2 DEF Calling, JobsOK
    <3>4. JobOK(q)
      BY <3>3 DEF JobOK
    <3>5. JobsOK' /\ CallsCounted'
      BY <1>2, <1>3, <2>1, <3>3, <3>4 DEF Send
    <3>6. PICK p : p = [at |-> "lookup", type |-> job[j].type, left |-> buildChain, attempt |-> 1,
                        message |-> NoText, voice |-> NoVoice]
      OBVIOUS
    <3>7. "ollama" \in buildChain /\ buildChain \subseteq Provider
      BY DEF buildChain, Unconfigured, Provider
    <3>8. p \in GenState /\ GenOK(p)
      BY <2>3, <3>6, <3>7, NobodyTyped DEF GenState, GenOK, NoVoice
    <3>9. GensOK'
      BY <3>1, <3>6, <3>8, GenMoves
    <3>10. CacheOK(cache)'
      BY <1>3, CacheStays DEF Send
    <3>11. QED
      BY <1>3, <3>5, <3>9, <3>10 DEF Send
  <2>4. QED
    BY <1>3, <2>2, <2>3 DEF Send
<1>4. CASE RequestFails(j)
  <2>1. job[j] \in Unsaved
    BY <1>0, <1>4 DEF RequestFails
  <2>2. PICK q : q = AfterError(job[j])
    OBVIOUS
  <2>3. q \in Calling /\ JobOK(q) /\ job' = [job EXCEPT ![j] = q]
    BY <1>4, <2>1, <2>2, AfterErrorTyped DEF JobsOK, RequestFails
  <2>4. JobsOK' /\ CallsCounted'
    BY <1>2, <1>4, <2>1, <2>3 DEF RequestFails
  <2>5. CacheOK(cache)' /\ GensOK'
    BY <1>4, CacheStays DEF RequestFails, GensOK
  <2>6. QED
    BY <1>4, <2>4, <2>5 DEF RequestFails
<1>5. CASE SaveRow(j)
  <2>1. PICK stored : stored = IF Usable(job[j])
                         THEN Row(job[j], job[j].response.message, TRUE, job[j].response.voice, job[j].age)
                         ELSE Row(job[j], Template("backend", job[j].type), FALSE, NoVoice, 0)
    OBVIOUS
  <2>2. stored \in RowType /\ RowOK(stored, job[j].type)
    BY <1>5, <2>1, RowKeeps DEF SaveRow
  <2>3. PICK q : q = [at |-> "emit", type |-> job[j].type, saved |-> stored]
    OBVIOUS
  <2>4. /\ rows' = rows + 1 /\ job' = [job EXCEPT ![j] = q]
        /\ UNCHANGED <<now, cache, files, gen, emitted, jobs, failures>>
    BY <1>5, <2>1, <2>3 DEF SaveRow
  <2>5. job[j] \in Unsaved /\ job[j].type \in Types
    BY <1>5, CallKinds, Kinds DEF SaveRow
  <2>6. q \in Saved /\ RowOK(q.saved, q.type)
    BY <2>2, <2>3, <2>5 DEF Saved
  <2>7. JobsOK' /\ CallsCounted'
    BY <2>4, <2>5, <2>6, SavedKeeps
  <2>8. CacheOK(cache)' /\ GensOK'
    BY <2>4, CacheStays DEF GensOK
  <2>9. QED
    BY <2>4, <2>7, <2>8
<1>6. CASE Emit(j) \/ Reject(j)
  <2>1. /\ job[j] # Resting
        /\ job' = [job EXCEPT ![j] = Resting] /\ UNCHANGED <<now, cache, gen, rows, jobs>>
        /\ {emitted', failures'} \subseteq Nat
        /\ failures' = 0 => failures = 0 /\ job[j] \notin Unsaved /\ emitted' = emitted + 1
    BY <1>0, <1>6, Kinds DEF Emit, Reject
  <2>2. Resting \notin Unsaved /\ JobOK(Resting)
    BY Kinds DEF JobOK
  <2>3. /\ JobsOK' /\ IsFiniteSet(Asked')
        /\ {Cardinality(Asked), Cardinality(Asked'), Cardinality(Waiting), Cardinality(Waiting')} \subseteq Nat
        /\ Cardinality(Asked') = Cardinality(Asked) + (IF Resting # Resting THEN 1 ELSE 0)
                                   - (IF job[j] # Resting THEN 1 ELSE 0)
        /\ Cardinality(Waiting') = Cardinality(Waiting) + (IF Resting \in Unsaved THEN 1 ELSE 0)
                                     - (IF job[j] \in Unsaved THEN 1 ELSE 0)
    BY <1>0, <2>1, <2>2, JobMoves
  <2>4. CallsCounted'
    BY <1>0, <2>1, <2>2, <2>3 DEF CallsCounted
  <2>5. CacheOK(cache)' /\ GensOK'
    BY <2>1, CacheStays DEF GensOK
  <2>6. QED
    BY <2>1, <2>3, <2>4, <2>5
<1>7. QED
  BY <1>1, <1>3, <1>4, <1>5, <1>6

LEMMA ServiceSteps ==
  ASSUME AllSound, NEW g \in Gens,
         Lookup(g) \/ CallFails(g) \/ Provide(g) \/ VoiceLookup(g) \/ Speech(g) \/ Finish(g),
         \A t \in DOMAIN files : files[t] \in 0..now
  PROVE  AllSound'
<1> USE DEF AllSound
<1>1. CASE Lookup(g)
  <2>0. gen[g] \in GenState /\ GenOK(gen[g])
    BY <1>1, Working DEF Lookup
  <2>1. CASE \E hit \in get(cache, gen[g].type) :
             /\ cache' = Append(Without(cache, hit.type), hit)
             /\ gen' = [gen EXCEPT ![g] = Resting]
             /\ AnswerCall(g, hit)
    <3>1. PICK hit \in get(cache, gen[g].type) :
             /\ cache' = Append(Without(cache, hit.type), hit)
             /\ gen' = [gen EXCEPT ![g] = Resting]
             /\ AnswerCall(g, hit)
      BY <2>1
    <3>2. PICK i \in DOMAIN cache : /\ hit = cache[i] /\ cache[i].type = gen[g].type
                                    /\ now - cache[i].at < TTL_BY_TYPE[gen[g].type]
      BY <3>1 DEF get, Of
    <3>3. hit \in Entry /\ EntryOK(hit) /\ now - hit.at < TTL_BY_TYPE[hit.type]
      BY <3>2 DEF CacheOK
    <3>4. JobsOK' /\ CallsCounted'
      BY <1>1, <3>1, <3>3, AnswerKeeps DEF Lookup
    <3>5. CacheOK(cache)'
      BY <1>1, <3>1, <3>2, HitOK, CacheStays DEF Lookup
    <3>6. GensOK'
      BY <3>1, GenMoves
    <3>7. QED
      BY <1>1, <3>4, <3>5, <3>6 DEF Lookup
  <2>2. CASE /\ cache' = Without(cache, gen[g].type)
             /\ gen' = [gen EXCEPT ![g].at = "text"]
             /\ UNCHANGED job
    <3>1. JobsOK' /\ CallsCounted'
      BY <1>1, <2>2 DEF Lookup, JobsOK, CallsCounted, Asked, Waiting
    <3>2. CacheOK(cache)'
      BY <1>1, <2>2, WithoutOK, CacheStays DEF Lookup
    <3>3. PICK q : q = [gen[g] EXCEPT !.at = "text"]
      OBVIOUS
    <3>4. q \in GenState /\ GenOK(q)
      BY <1>1, <2>0, <3>3 DEF GenState, GenOK, Lookup
    <3>5. GensOK'
      BY <2>2, <3>3, <3>4, GenMoves DEF GensOK
    <3>6. QED
      BY <1>1, <3>1, <3>2, <3>5 DEF Lookup
  <2>3. QED
    BY <1>1, <2>1, <2>2 DEF Lookup
<1>2. ASSUME NEW q \in GenState, GenOK(q), gen' = [gen EXCEPT ![g] = q],
             UNCHANGED <<now, cache, job, rows, emitted, jobs, failures>>
      PROVE  AllSound'
  <2>1. GensOK'
    BY <1>2, GenMoves
  <2>2. CacheOK(cache)'
    BY <1>2, CacheStays
  <2>3. JobsOK' /\ CallsCounted'
    BY <1>2 DEF JobsOK, CallsCounted, Asked, Waiting
  <2>4. QED
    BY <1>2, <2>1, <2>2, <2>3
<1>3. CASE CallFails(g)
  <2>0. gen[g] \in GenState /\ GenOK(gen[g]) /\ gen[g].at = "text"
    BY <1>3, Working DEF CallFails
  <2>1. PICK provider \in Provider, q \in {withRetry(gen[g], p) : p \in Provider} :
         /\ provider \in gen[g].left
         /\ q = withRetry(gen[g], provider) /\ gen' = [gen EXCEPT ![g] = q]
    BY <1>3 DEF CallFails, IsNext
  <2>2. q \in GenState /\ GenOK(q)
    BY <2>0, <2>1, RetryOK
  <2>3. QED
    BY <1>2, <1>3, <2>1, <2>2 DEF CallFails
<1>4. CASE Provide(g)
  <2>0. gen[g] \in GenState /\ GenOK(gen[g]) /\ gen[g].at = "text"
    BY <1>4, Working DEF Provide
  <2>1. PICK provider \in Provider, reply \in Replies, banned \in BOOLEAN :
         /\ provider \in gen[g].left
         /\ \/ gen' = [gen EXCEPT ![g] = NextProvider(@, provider)]
            \/ \E n \in callProvider(provider, reply) :
                 gen' = [gen EXCEPT ![g].at = "voice", ![g].message =
                           IF check(composed(Text(provider, gen[g].type, n, banned)))
                           THEN composed(Text(provider, gen[g].type, n, banned))
                           ELSE Template("ai", gen[g].type)]
    BY <1>4 DEF Provide, IsNext
  <2>2. CASE gen' = [gen EXCEPT ![g] = NextProvider(@, provider)]
    <3>1. PICK q : q = NextProvider(gen[g], provider)
      OBVIOUS
    <3>2. q \in GenState /\ GenOK(q)
      BY <2>0, <2>1, <3>1, NextProviderOK
    <3>3. gen' = [gen EXCEPT ![g] = q]
      BY <2>2, <3>1 DEF GensOK
    <3>4. QED
      BY <1>2, <1>4, <3>2, <3>3 DEF Provide
  <2>3. ASSUME NEW n \in callProvider(provider, reply),
                 gen' = [gen EXCEPT ![g].at = "voice", ![g].message =
                           IF check(composed(Text(provider, gen[g].type, n, banned)))
                           THEN composed(Text(provider, gen[g].type, n, banned))
                           ELSE Template("ai", gen[g].type)]
        PROVE  AllSound'
    <3>1. PICK text : text = composed(Text(provider, gen[g].type, n, banned))
      OBVIOUS
    <3>2. PICK message : message = IF check(text) THEN text ELSE Template("ai", gen[g].type)
      OBVIOUS
    <3>3. PICK q : q = [gen[g] EXCEPT !.at = "voice", !.message = message]
      OBVIOUS
    <3>4. q \in GenState /\ GenOK(q)
      BY <2>0, <2>1, <3>1, <3>2, <3>3, ProvidedOK
    <3>5. gen' = [gen EXCEPT ![g] = q]
      BY <2>3, <3>1, <3>2, <3>3 DEF GensOK
    <3>6. QED
      BY <1>2, <1>4, <3>4, <3>5 DEF Provide
  <2>4. QED
    BY <2>1, <2>2, <2>3
<1>5. ASSUME NEW at \in {"speech", "finish"}, NEW voice \in Int, gen[g].at \in {"voice", "speech"},
             gen' = [gen EXCEPT ![g].at = at, ![g].voice = voice],
             UNCHANGED <<now, cache, job, rows, emitted, jobs, failures>>
      PROVE  AllSound'
  <2>1. gen[g] \in GenState /\ GenOK(gen[g])
    BY <1>5, Working
  <2>2. PICK q : q = [gen[g] EXCEPT !.at = at, !.voice = voice]
    OBVIOUS
  <2>3. /\ q \in GenState /\ q.at = at /\ q.type = gen[g].type /\ q.message = gen[g].message
    BY <2>1, <2>2 DEF GenState
  <2>4. GenOK(q)
    BY <1>5, <2>1, <2>3 DEF GenOK
  <2>5. gen' = [gen EXCEPT ![g] = q]
    BY <1>5, <2>2 DEF GensOK
  <2>6. QED
    BY <1>2, <1>5, <2>3, <2>4, <2>5
<1>6. CASE VoiceLookup(g)
  <2>1. gen[g] \in GenState
    BY <1>6, Working DEF VoiceLookup
  <2>2. CASE lookup(gen[g].message)
    <3>1. PICK v \in Int : v = files[gen[g].message]
      BY <2>2 DEF lookup
    <3>2. gen' = [gen EXCEPT ![g].at = "finish", ![g].voice = v]
      BY <1>6, <2>2, <3>1 DEF VoiceLookup, GensOK
    <3>3. QED
      BY <1>5, <1>6, <3>2 DEF VoiceLookup
  <2>3. CASE ~lookup(gen[g].message)
    <3>1. PICK v \in Int : v = gen[g].voice
      BY <2>1 DEF GenState
    <3>2. gen' = [gen EXCEPT ![g].at = "speech", ![g].voice = v]
      <4>1. [gen[g] EXCEPT !.at = "speech"] = [gen[g] EXCEPT !.at = "speech", !.voice = v]
        BY <2>1, <3>1 DEF GenState
      <4>2. QED
        BY <1>6, <2>3, <4>1 DEF VoiceLookup, GensOK
    <3>3. QED
      BY <1>5, <1>6, <3>2 DEF VoiceLookup
  <2>4. QED
    BY <2>2, <2>3
<1>7. CASE Speech(g)
  <2>1. PICK v \in Int : gen' = [gen EXCEPT ![g].at = "finish", ![g].voice = v]
    <3>1. now \in Int /\ NoVoice \in Int
      BY DEF NoVoice
    <3>2. \/ gen' = [gen EXCEPT ![g] = [@ EXCEPT !.at = "finish", !.voice = now]]
          \/ gen' = [gen EXCEPT ![g] = [@ EXCEPT !.at = "finish", !.voice = NoVoice]]
      BY <1>7 DEF Speech
    <3>3. QED
      BY <3>1, <3>2 DEF GensOK
  <2>2. QED
    BY <1>5, <1>7, <2>1 DEF Speech
<1>8. CASE Finish(g)
  <2>0. gen[g] \in GenState /\ GenOK(gen[g]) /\ gen[g].at = "finish"
    BY <1>8, Working DEF Finish
  <2>1. PICK response, entry :
          /\ response = [message |-> gen[g].message, fallbackUsed |-> gen[g].message.from = "ai",
                         voice |-> gen[g].voice]
          /\ entry = [type |-> gen[g].type, at |-> now, response |-> response]
          /\ cache' = set(cache, entry) /\ AnswerCall(g, entry)
    BY <1>8 DEF Finish
  <2>2. /\ gen[g].message \in TextType /\ gen[g].type \in ANNOUNCEMENT_TYPES /\ gen[g].voice \in Int
    BY <2>0 DEF GenState
  <2>3. entry \in Entry
    BY <2>1, <2>2 DEF Entry, Response
  <2>4. entry.response.fallbackUsed \/ Vetted(entry.response.message, entry.type)
    <3>1. CASE gen[g].message = Template("ai", gen[g].type)
      BY <2>1, <2>2, <3>1, TemplatesTyped
    <3>2. CASE Vetted(gen[g].message, gen[g].type)
      BY <2>1, <3>2
    <3>3. QED
      BY <2>0, <3>1, <3>2 DEF GenOK
  <2>5. EntryOK(entry) /\ now - entry.at < TTL_BY_TYPE[entry.type]
    BY <2>1, <2>2, <2>4, TimesToLive DEF EntryOK
  <2>6. JobsOK' /\ CallsCounted'
    BY <1>8, <2>1, <2>3, <2>5, AnswerKeeps DEF Finish
  <2>7. CacheOK(cache)'
    BY <1>8, <2>1, <2>3, <2>5, SetOK, CacheStays DEF Finish
  <2>8. GensOK'
    BY <1>8, GenMoves DEF Finish
  <2>9. QED
    BY <1>8, <2>6, <2>7, <2>8 DEF Finish
<1>9. QED
  BY <1>1, <1>3, <1>4, <1>6, <1>7, <1>8

LEMMA EmptyCache == CacheOK(<<>>)
BY AnnouncementsAssumption DEF CacheOK

LEMMA RestartStep ==
  ASSUME AllSound, Restart
  PROVE  AllSound'
<1> USE DEF AllSound, Restart
<1>1. CacheOK(cache)'
  BY EmptyCache, CacheStays
<1>2. GensOK'
  BY Working DEF GensOK
<1>3. ASSUME NEW j \in Jobs
      PROVE  /\ job'[j] \in Unsaved \cup Saved \cup {Resting} /\ JobOK(job'[j])
             /\ job'[j] # Resting <=> job[j] # Resting
             /\ job'[j] \in Unsaved <=> job[j] \in Unsaved
  <2>1. CASE job[j].at = "wait"
    <3>1. job[j] \in Unsaved /\ job'[j] = AfterError(job[j])
      BY <2>1, CallKinds
    <3>2. QED
      BY <3>1, AfterErrorTyped, Kinds
  <2>2. CASE job[j].at # "wait"
    BY <2>2, CallKinds
  <2>3. QED
    BY <2>1, <2>2
<1>4. JobsOK'
  BY <1>3 DEF JobsOK
<1>5. Asked' = Asked /\ Waiting' = Waiting
  BY <1>3 DEF Asked, Waiting
<1>6. CallsCounted'
  BY <1>5 DEF CallsCounted
<1>7. QED
  BY <1>1, <1>2, <1>4, <1>6

----------------------------------------------------------------------------
(* The voice files and who names them. *)

(* Files are written now, and removed only when they are old. *)
FilesMove ==
    /\ now \in Nat /\ now' \in Nat /\ now' >= now
    /\ \A t \in DOMAIN files : files[t] \in 0..now
    /\ \A t \in DOMAIN files' : /\ files'[t] \in 0..now'
                                /\ \/ files'[t] = now'
                                   \/ t \in DOMAIN files /\ files'[t] = files[t]
    /\ \A t \in DOMAIN files \ DOMAIN files' : now - files[t] > VOICE_TTL

LEMMA VoiceKept ==
  ASSUME FilesMove, NEW text, NEW voice, VoiceOK(text, voice, files, now)
  PROVE  VoiceOK(text, voice, files', now')
<1>t. VOICE_TTL \in Nat
  BY AnnouncementsAssumption
<1>1. CASE voice = NoVoice
  BY <1>1 DEF VoiceOK
<1>2. CASE voice # NoVoice
  <2>1. /\ voice \in 0..now /\ voice \in 0..now' /\ now \in Nat /\ now' \in Nat /\ now' >= now
        /\ IF text \in DOMAIN files THEN files[text] >= voice ELSE now - voice > VOICE_TTL
    BY <1>2 DEF VoiceOK, FilesMove
  <2>2. CASE text \in DOMAIN files'
    <3>1. files'[text] = now' \/ (text \in DOMAIN files /\ files'[text] = files[text])
      BY <2>2 DEF FilesMove
    <3>2. files'[text] >= voice
      BY <2>1, <3>1
    <3>3. QED
      BY <2>1, <2>2, <3>2 DEF VoiceOK
  <2>3. CASE text \notin DOMAIN files' /\ text \in DOMAIN files
    <3>1. /\ now - files[text] > VOICE_TTL /\ files[text] >= voice /\ files[text] \in Nat
      BY <2>1, <2>3 DEF FilesMove
    <3>2. PICK n \in Nat : n = files[text] /\ now - n > VOICE_TTL /\ n >= voice
      BY <3>1
    <3>3. voice \in Nat /\ now \in Nat /\ now' \in Nat /\ now' >= now
      BY <2>1
    <3>4. ASSUME NEW u \in Nat, NEW w \in Nat, NEW v \in Nat, NEW ttl \in Nat,
                 w >= u, u - n > ttl, n >= v
          PROVE  w - v > ttl
      BY <3>4
    <3>5. now' - voice > VOICE_TTL
      BY <1>t, <3>2, <3>3, <3>4
    <3>6. QED
      BY <2>1, <2>3, <3>5 DEF VoiceOK
  <2>4. CASE text \notin DOMAIN files' /\ text \notin DOMAIN files
    <3>1. now' - voice > VOICE_TTL
      BY <1>t, <2>1, <2>4
    <3>2. QED
      BY <2>1, <2>4, <3>1 DEF VoiceOK
  <2>5. QED
    BY <2>2, <2>3, <2>4
<1>3. QED
  BY <1>1, <1>2

LEMMA FilesStay ==
  ASSUME VoicesOK, now \in Nat, now' = now, files' = files
  PROVE  FilesMove
BY DEF FilesMove, VoicesOK

(* Whoever names a voice named it before, or may. *)
LEMMA VoicesMove ==
  ASSUME AllSound, VoicesOK, FilesMove,
         \A g \in Gens : gen'[g].at = "finish" =>
            \/ gen'[g] = gen[g]
            \/ VoiceOK(gen'[g].message, gen'[g].voice, files', now'),
         \A i \in DOMAIN cache' :
            \/ \E k \in DOMAIN cache : cache'[i] = cache[k]
            \/ VoiceOK(cache'[i].response.message, cache'[i].response.voice, files', now'),
         \A j \in Jobs : job'[j].at = "answer" =>
            \/ job'[j] = job[j]
            \/ VoiceOK(job'[j].response.message, job'[j].response.voice, files', now'),
         \A j \in Jobs : job'[j].at = "emit" /\ job'[j].saved.silent =>
            \/ job'[j] = job[j]
            \/ now' - job'[j].saved.voice > VOICE_TTL
  PROVE  VoicesOK'
<1>1. \A t \in DOMAIN files' : files'[t] \in 0..now'
  BY DEF FilesMove
<1>2. ASSUME NEW g \in Gens, gen'[g].at = "finish"
      PROVE  VoiceOK(gen'[g].message, gen'[g].voice, files', now')
  <2>1. CASE gen'[g] = gen[g]
    <3>1. VoiceOK(gen[g].message, gen[g].voice, files, now)
      BY <1>2, <2>1 DEF VoicesOK
    <3>2. QED
      BY <2>1, <3>1, VoiceKept
  <2>2. QED
    BY <1>2, <2>1
<1>3. ASSUME NEW i \in DOMAIN cache'
      PROVE  VoiceOK(cache'[i].response.message, cache'[i].response.voice, files', now')
  <2>1. CASE \E k \in DOMAIN cache : cache'[i] = cache[k]
    <3>1. PICK k \in DOMAIN cache : cache'[i] = cache[k]
      BY <2>1
    <3>2. VoiceOK(cache[k].response.message, cache[k].response.voice, files, now)
      BY DEF VoicesOK
    <3>3. QED
      BY <3>1, <3>2, VoiceKept
  <2>2. QED
    BY <2>1
<1>4. ASSUME NEW j \in Jobs, job'[j].at = "answer"
      PROVE  VoiceOK(job'[j].response.message, job'[j].response.voice, files', now')
  <2>1. CASE job'[j] = job[j]
    <3>1. VoiceOK(job[j].response.message, job[j].response.voice, files, now)
      BY <1>4, <2>1 DEF VoicesOK
    <3>2. QED
      BY <2>1, <3>1, VoiceKept
  <2>2. QED
    BY <1>4, <2>1
<1>5. ASSUME NEW j \in Jobs, job'[j].at = "emit", job'[j].saved.silent
      PROVE  now' - job'[j].saved.voice > VOICE_TTL
  <2>1. CASE job'[j] = job[j]
    <3>1. now - job[j].saved.voice > VOICE_TTL
      BY <1>5, <2>1 DEF VoicesOK
    <3>2. job[j] \in Saved
      BY <1>5, <2>1, CallKinds DEF AllSound
    <3>3. job[j].saved.voice \in Int /\ VOICE_TTL \in Nat
      BY <3>2, AnnouncementsAssumption DEF Saved, RowType
    <3>4. now' \in Nat /\ now \in Nat /\ now' >= now
      BY DEF FilesMove
    <3>5. QED
      BY <2>1, <3>1, <3>3, <3>4
  <2>2. QED
    BY <1>5, <2>1
<1>6. QED
  BY <1>1, <1>2, <1>3, <1>4, <1>5 DEF VoicesOK

LEMMA BackendVoices ==
  ASSUME GenerationInv, NEW j \in Jobs,
         GenerateAndQueue(j) \/ Send(j) \/ RequestFails(j) \/ SaveRow(j) \/ Emit(j) \/ Reject(j)
  PROVE  VoicesOK'
<1> USE DEF GenerationInv
<1>1. UNCHANGED <<now, cache, files>>
  BY DEF GenerateAndQueue, Send, RequestFails, SaveRow, Emit, Reject
<1>2. FilesMove
  BY <1>1, FilesStay DEF AllSound
<1>3. ASSUME NEW g \in Gens, gen'[g].at = "finish" PROVE gen'[g] = gen[g]
  <2>1. gen \in [Gens -> GenState \cup {Resting}]
    BY DEF AllSound, GensOK
  <2>2. CASE gen' = gen
    BY <2>2
  <2>3. ASSUME NEW h \in Gens, NEW q, gen' = [gen EXCEPT ![h] = q], q.at = "lookup"
        PROVE  gen'[g] = gen[g]
    BY <1>3, <2>1, <2>3
  <2>4. CASE Send(j)
    <3>1. CASE UNCHANGED gen
      BY <2>2, <3>1
    <3>2. CASE \E h \in Gens :
               gen' = [gen EXCEPT ![h] = [at |-> "lookup", type |-> job[j].type, left |-> buildChain,
                                          attempt |-> 1, message |-> NoText, voice |-> NoVoice]]
      <4>1. PICK h \in Gens :
               gen' = [gen EXCEPT ![h] = [at |-> "lookup", type |-> job[j].type, left |-> buildChain,
                                          attempt |-> 1, message |-> NoText, voice |-> NoVoice]]
        BY <3>2
      <4>2. PICK q : q = [at |-> "lookup", type |-> job[j].type, left |-> buildChain,
                          attempt |-> 1, message |-> NoText, voice |-> NoVoice]
        OBVIOUS
      <4>3. q.at = "lookup"
        BY <4>2
      <4>4. QED
        BY <2>3, <4>1, <4>2, <4>3
    <3>3. QED
      BY <2>4, <3>1, <3>2 DEF Send
  <2>5. QED
    BY <2>2, <2>4 DEF GenerateAndQueue, RequestFails, SaveRow, Emit, Reject
<1>4. ASSUME NEW k \in Jobs, k # j PROVE job'[k] = job[k]
  BY <1>4 DEF GenerateAndQueue, Send, RequestFails, SaveRow, Emit, Reject, AllSound, JobsOK
<1>5. CASE ~SaveRow(j)
  <2>1. \/ \E t \in Types : job' = [job EXCEPT ![j] = [at |-> "send", type |-> t, attempt |-> 1,
                                                      gen |-> "none"]]
        \/ job[j].at \in {"send", "wait", "answer"} /\ job' = [job EXCEPT ![j] = AfterError(@)]
        \/ /\ job[j].at = "send"
           /\ \E g \in Gens : job' = [job EXCEPT ![j].at = "wait", ![j].gen = g]
        \/ job' = [job EXCEPT ![j] = Resting]
    BY <1>5 DEF GenerateAndQueue, Send, RequestFails, Emit, Reject
  <2>2. job \in [Jobs -> Unsaved \cup Saved \cup {Resting}]
    BY DEF AllSound, JobsOK
  <2>7. job'[j].at \notin {"answer", "emit"}
    <3>1. CASE \E t \in Types : job' = [job EXCEPT ![j] = [at |-> "send", type |-> t, attempt |-> 1,
                                                           gen |-> "none"]]
      BY <2>2, <3>1
    <3>2. CASE job[j].at \in {"send", "wait", "answer"} /\ job' = [job EXCEPT ![j] = AfterError(@)]
      <4>1. job[j] \in Unsaved /\ job'[j] = AfterError(job[j])
        BY <2>2, <3>2, CallKinds DEF AllSound
      <4>2. QED
        BY <4>1, AfterErrorTyped
    <3>3. CASE /\ job[j].at = "send"
               /\ \E g \in Gens : job' = [job EXCEPT ![j].at = "wait", ![j].gen = g]
      <4>1. job[j] \in Calling
        BY <3>3, CallKinds DEF AllSound
      <4>2. PICK g \in Gens : job'[j] = [job[j] EXCEPT !.at = "wait", !.gen = g]
        BY <2>2, <3>3
      <4>3. job'[j].at = "wait"
        BY <4>1, <4>2 DEF Calling
      <4>4. QED
        BY <4>3
    <3>4. CASE job' = [job EXCEPT ![j] = Resting]
      BY <2>2, <3>4, Kinds
    <3>5. QED
      BY <2>1, <3>1, <3>2, <3>3, <3>4
  <2>8. QED
    BY <1>1, <1>2, <1>3, <1>4, <2>7, VoicesMove
<1>6. CASE SaveRow(j)
  <2>1. PICK stored : stored = IF Usable(job[j])
                         THEN Row(job[j], job[j].response.message, TRUE, job[j].response.voice, job[j].age)
                         ELSE Row(job[j], Template("backend", job[j].type), FALSE, NoVoice, 0)
    OBVIOUS
  <2>2. job'[j] = [at |-> "emit", type |-> job[j].type, saved |-> stored]
    BY <1>6, <2>1 DEF SaveRow, AllSound, JobsOK
  <2>3. ASSUME stored.silent PROVE now - stored.voice > VOICE_TTL
    <3>1. CASE Usable(job[j])
      <4>1. /\ stored.voice = job[j].response.voice
            /\ stored.silent = (job[j].response.voice # NoVoice /\ job[j].response.message \notin DOMAIN files)
        BY <2>1, <3>1 DEF Row
      <4>2. VoiceOK(job[j].response.message, job[j].response.voice, files, now)
        BY <3>1 DEF VoicesOK, Usable
      <4>3. QED
        BY <2>3, <4>1, <4>2 DEF VoiceOK
    <3>2. CASE ~Usable(job[j])
      BY <2>1, <2>3, <3>2 DEF Row
    <3>3. QED
      BY <3>1, <3>2
  <2>4. job'[j].at = "emit" /\ job'[j].saved = stored
    BY <2>2
  <2>5. QED
    BY <1>1, <1>2, <1>3, <1>4, <2>3, <2>4, VoicesMove
<1>7. QED
  BY <1>5, <1>6

LEMMA SetTakes ==
  ASSUME CacheOK(cache), NEW e \in Entry, NEW i \in DOMAIN set(cache, e)
  PROVE  set(cache, e)[i] = e \/ \E k \in DOMAIN cache : set(cache, e)[i] = cache[k]
<1>1. PICK kept : kept = Without(cache, e.type)
  OBVIOUS
<1>2. /\ kept \in Seq(Entry)
      /\ \A m \in DOMAIN kept : \E k \in DOMAIN cache : kept[m] = cache[k]
  BY <1>1, WithoutKeeps DEF CacheOK
<1>3. PICK c : c = IF Len(kept) = MAX_ENTRIES THEN Tail(kept) ELSE kept
  OBVIOUS
<1>4. set(cache, e) = Append(c, e)
  BY <1>1, <1>3 DEF set
<1>5. c \in Seq(Entry) /\ \A m \in DOMAIN c : \E k \in DOMAIN kept : c[m] = kept[k]
  <2>1. CASE Len(kept) = MAX_ENTRIES
    <3>1. c = Tail(kept) /\ kept # <<>> /\ Len(kept) \in Nat
      BY <1>2, <1>3, <2>1, AnnouncementsAssumption
    <3>2. /\ c \in Seq(Entry) /\ Len(c) = Len(kept) - 1 /\ DOMAIN c = 1..Len(c)
          /\ \A m \in 1..Len(c) : c[m] = kept[m + 1]
      BY <1>2, <3>1
    <3>3. ASSUME NEW m \in DOMAIN c PROVE \E k \in DOMAIN kept : c[m] = kept[k]
      <4>1. m + 1 \in DOMAIN kept /\ c[m] = kept[m + 1]
        BY <1>2, <3>1, <3>2
      <4>2. QED
        BY <4>1
    <3>4. QED
      BY <3>2, <3>3
  <2>2. CASE Len(kept) # MAX_ENTRIES
    BY <1>2, <1>3, <2>2
  <2>3. QED
    BY <2>1, <2>2
<1>6. \A m \in DOMAIN Append(c, e) : Append(c, e)[m] = e \/ \E k \in DOMAIN c : Append(c, e)[m] = c[k]
  BY <1>5
<1>7. QED
  BY <1>2, <1>4, <1>5, <1>6

LEMMA ServiceVoices ==
  ASSUME GenerationInv, NEW g \in Gens,
         Lookup(g) \/ CallFails(g) \/ Provide(g) \/ VoiceLookup(g) \/ Speech(g) \/ Finish(g)
  PROVE  VoicesOK'
<1> USE DEF GenerationInv
<1>0. now \in Nat /\ CacheOK(cache) /\ gen \in [Gens -> GenState \cup {Resting}]
  BY DEF AllSound, GensOK
(* Only this generation moves. *)
<1>1. ASSUME NEW h \in Gens, h # g PROVE gen'[h] = gen[h]
  BY <1>0, <1>1 DEF Lookup, CallFails, Provide, VoiceLookup, Speech, Finish
(* What it answers with goes to the calls that wait for it. *)
<1>2. ASSUME NEW entry \in Entry, AnswerCall(g, entry), NEW j \in Jobs
      PROVE  job'[j] = job[j] \/ (job'[j].at = "answer" /\ job'[j].response = entry.response)
  BY <1>2 DEF AnswerCall
(* It names no voice yet. *)
<1>3. ASSUME UNCHANGED <<now, files, cache, job>>, gen'[g].at # "finish"
      PROVE  VoicesOK'
  <2>1. FilesMove
    BY <1>0, <1>3, FilesStay
  <2>2. QED
    BY <1>1, <1>3, <2>1, VoicesMove
<1>4. CASE Lookup(g)
  <2>0. /\ FilesMove
        /\ gen[g] \in GenState /\ \A i \in DOMAIN cache : cache[i] \in Entry
    BY <1>0, <1>4, FilesStay, Working DEF Lookup, AllSound, CacheOK
  <2>1. CASE \E hit \in get(cache, gen[g].type) :
             /\ cache' = Append(Without(cache, hit.type), hit)
             /\ gen' = [gen EXCEPT ![g] = Resting]
             /\ AnswerCall(g, hit)
    <3>1. PICK hit \in get(cache, gen[g].type) :
             /\ cache' = Append(Without(cache, hit.type), hit)
             /\ gen' = [gen EXCEPT ![g] = Resting]
             /\ AnswerCall(g, hit)
      BY <2>1
    <3>2. PICK m \in DOMAIN cache : hit = cache[m]
      BY <3>1 DEF get, Of
    <3>3. hit \in Entry /\ VoiceOK(hit.response.message, hit.response.voice, files', now')
      <4>1. VoiceOK(hit.response.message, hit.response.voice, files, now)
        BY <3>2 DEF VoicesOK
      <4>2. QED
        BY <2>0, <3>2, <4>1, VoiceKept
    <3>4. ASSUME NEW i \in DOMAIN cache' PROVE \E k \in DOMAIN cache : cache'[i] = cache[k]
      <4>1. PICK c : c = Without(cache, hit.type)
        OBVIOUS
      <4>2. c \in Seq(Entry) /\ \A n \in DOMAIN c : \E k \in DOMAIN cache : c[n] = cache[k]
        BY <1>0, <4>1, WithoutKeeps DEF CacheOK
      <4>3. \A n \in DOMAIN Append(c, hit) :
               Append(c, hit)[n] = hit \/ \E k \in DOMAIN c : Append(c, hit)[n] = c[k]
        BY <4>2
      <4>4. QED
        BY <3>1, <3>2, <3>4, <4>1, <4>2, <4>3
    <3>5. gen'[g].at # "finish"
      BY <1>0, <3>1, Working
    <3>6. \A j \in Jobs : job'[j] = job[j] \/ (job'[j].at = "answer" /\ job'[j].response = hit.response)
      BY <1>2, <3>1, <3>3
    <3>7. QED
      BY <1>1, <2>0, <3>3, <3>4, <3>5, <3>6, VoicesMove
  <2>2. CASE /\ cache' = Without(cache, gen[g].type)
             /\ gen' = [gen EXCEPT ![g].at = "text"]
             /\ UNCHANGED job
    <3>1. \A i \in DOMAIN cache' : \E k \in DOMAIN cache : cache'[i] = cache[k]
      BY <1>0, <2>2, WithoutKeeps DEF CacheOK
    <3>2. gen'[g].at # "finish"
      BY <1>0, <2>0, <2>2 DEF GenState
    <3>3. QED
      BY <1>1, <2>0, <2>2, <3>1, <3>2, VoicesMove
  <2>3. QED
    BY <1>4, <2>1, <2>2 DEF Lookup
<1>5. CASE CallFails(g) \/ Provide(g)
  <2>1. /\ gen[g] \in GenState /\ gen[g].at = "text" /\ UNCHANGED <<now, files, cache, job>>
    BY <1>5, Working DEF CallFails, Provide, AllSound
  <2>2. ASSUME NEW provider PROVE NextProvider(gen[g], provider).at # "finish"
    BY <2>1 DEF NextProvider, GenState
  <2>3. ASSUME NEW provider PROVE withRetry(gen[g], provider).at # "finish"
    BY <2>1, <2>2 DEF withRetry, GenState
  <2>4. CASE CallFails(g)
    <3>1. PICK provider \in Provider : gen' = [gen EXCEPT ![g] = withRetry(@, provider)]
      BY <2>4 DEF CallFails
    <3>2. gen'[g] = withRetry(gen[g], provider)
      BY <1>0, <3>1
    <3>3. QED
      BY <1>3, <2>1, <2>3, <3>2
  <2>5. CASE Provide(g)
    <3>1. \/ \E provider \in Provider : gen' = [gen EXCEPT ![g] = NextProvider(@, provider)]
          \/ \E message : gen' = [gen EXCEPT ![g].at = "voice", ![g].message = message]
      BY <2>5 DEF Provide
    <3>2. CASE \E provider \in Provider : gen' = [gen EXCEPT ![g] = NextProvider(@, provider)]
      <4>1. PICK provider \in Provider : gen'[g] = NextProvider(gen[g], provider)
        BY <1>0, <3>2
      <4>2. QED
        BY <1>3, <2>1, <2>2, <4>1
    <3>3. CASE \E message : gen' = [gen EXCEPT ![g].at = "voice", ![g].message = message]
      <4>1. gen'[g].at = "voice"
        BY <1>0, <2>1, <3>3 DEF GenState
      <4>2. QED
        BY <1>3, <2>1, <4>1
    <3>4. QED
      BY <3>1, <3>2, <3>3
  <2>6. QED
    BY <1>5, <2>4, <2>5
<1>6. CASE VoiceLookup(g)
  <2>1. /\ gen[g] \in GenState /\ UNCHANGED <<now, files, cache, job>>
    BY <1>6, Working DEF VoiceLookup, AllSound
  <2>2. CASE lookup(gen[g].message)
    <3>1. gen'[g] = [gen[g] EXCEPT !.at = "finish", !.voice = files[gen[g].message]]
      BY <1>0, <1>6, <2>2 DEF VoiceLookup
    <3>2. gen'[g].message = gen[g].message /\ gen'[g].voice = files[gen[g].message]
      BY <2>1, <3>1 DEF GenState
    <3>3. gen[g].message \in DOMAIN files /\ files[gen[g].message] \in 0..now
      BY <2>2 DEF lookup, VoicesOK
    <3>4. VoiceOK(gen'[g].message, gen'[g].voice, files', now')
      BY <1>0, <2>1, <3>2, <3>3 DEF VoiceOK
    <3>5. FilesMove
      BY <1>0, <2>1, FilesStay
    <3>6. QED
      BY <1>1, <2>1, <3>4, <3>5, VoicesMove
  <2>3. CASE ~lookup(gen[g].message)
    <3>1. gen'[g] = [gen[g] EXCEPT !.at = "speech"]
      BY <1>0, <1>6, <2>3 DEF VoiceLookup
    <3>2. gen'[g].at = "speech"
      BY <2>1, <3>1 DEF GenState
    <3>3. QED
      BY <1>3, <2>1, <3>2
  <2>4. QED
    BY <2>2, <2>3
<1>7. CASE Speech(g)
  <2>1. /\ gen[g] \in GenState /\ UNCHANGED <<now, cache, job>>
    BY <1>7, Working DEF Speech, AllSound
  <2>2. CASE /\ files' = store(gen[g].message)
             /\ gen' = [gen EXCEPT ![g] = [@ EXCEPT !.at = "finish", !.voice = now]]
    <3>1. gen'[g].message = gen[g].message /\ gen'[g].voice = now
      BY <1>0, <2>1, <2>2 DEF GenState
    <3>2. /\ DOMAIN files' = DOMAIN files \cup {gen[g].message} /\ files'[gen[g].message] = now
          /\ \A t \in DOMAIN files' : files'[t] = IF t = gen[g].message THEN now ELSE files[t]
      BY <2>2 DEF store
    <3>3. \A t \in DOMAIN files : files[t] \in 0..now
      BY DEF VoicesOK
    <3>4. FilesMove
      BY <1>0, <2>1, <3>2, <3>3 DEF FilesMove
    <3>5. VoiceOK(gen'[g].message, gen'[g].voice, files', now')
      BY <1>0, <2>1, <3>1, <3>2 DEF VoiceOK
    <3>6. QED
      BY <1>1, <2>1, <3>4, <3>5, VoicesMove
  <2>3. CASE /\ gen' = [gen EXCEPT ![g] = [@ EXCEPT !.at = "finish", !.voice = NoVoice]]
             /\ UNCHANGED files
    <3>1. gen'[g].voice = NoVoice
      BY <1>0, <2>1, <2>3 DEF GenState
    <3>2. VoiceOK(gen'[g].message, gen'[g].voice, files', now')
      BY <3>1 DEF VoiceOK
    <3>3. FilesMove
      BY <1>0, <2>1, <2>3, FilesStay
    <3>4. QED
      BY <1>1, <2>1, <3>2, <3>3, VoicesMove
  <2>4. QED
    BY <1>7, <2>2, <2>3 DEF Speech
<1>8. CASE Finish(g)
  <2>1. /\ gen[g] \in GenState /\ gen[g].at = "finish" /\ UNCHANGED <<now, files>>
        /\ gen' = [gen EXCEPT ![g] = Resting]
    BY <1>8, Working DEF Finish, AllSound
  <2>2. PICK response, entry :
          /\ response = [message |-> gen[g].message, fallbackUsed |-> gen[g].message.from = "ai",
                         voice |-> gen[g].voice]
          /\ entry = [type |-> gen[g].type, at |-> now, response |-> response]
          /\ cache' = set(cache, entry) /\ AnswerCall(g, entry)
    BY <1>8 DEF Finish
  <2>3. entry \in Entry
    BY <1>0, <2>1, <2>2 DEF Entry, Response, GenState
  <2>4. /\ entry.response.message = gen[g].message /\ entry.response.voice = gen[g].voice
    BY <2>2
  <2>5. FilesMove
    BY <1>0, <2>1, FilesStay
  <2>6. VoiceOK(entry.response.message, entry.response.voice, files', now')
    <3>1. VoiceOK(gen[g].message, gen[g].voice, files, now)
      BY <2>1 DEF VoicesOK
    <3>2. QED
      BY <2>1, <2>4, <3>1
  <2>7. \A i \in DOMAIN cache' : cache'[i] = entry \/ \E k \in DOMAIN cache : cache'[i] = cache[k]
    BY <1>0, <2>2, <2>3, SetTakes
  <2>8. gen'[g].at # "finish"
    BY <1>0, <2>1, Working
  <2>9. \A j \in Jobs : job'[j] = job[j] \/ (job'[j].at = "answer" /\ job'[j].response = entry.response)
    BY <1>2, <2>2, <2>3
  <2>10. QED
    BY <1>1, <2>5, <2>6, <2>7, <2>8, <2>9, VoicesMove
<1>9. QED
  BY <1>4, <1>5, <1>6, <1>7, <1>8

LEMMA GenerationStep ==
  ASSUME GenerationInv, [GenerationNext]_generationVars
  PROVE  GenerationInv'
<1> USE DEF GenerationInv
<1>0. \A t \in DOMAIN files : files[t] \in 0..now
  BY DEF VoicesOK
<1>1. CASE Tick
  <2>1. AllSound'
    BY <1>1, CacheAges DEF Tick, AllSound, GensOK, JobsOK, CallsCounted, Asked, Waiting
  <2>2. FilesMove
    BY <1>0, <1>1 DEF Tick, FilesMove, AllSound
  <2>3. UNCHANGED <<gen, cache, job>>
    BY <1>1 DEF Tick
  <2>4. VoicesOK'
    BY <2>2, <2>3, VoicesMove
  <2>5. QED
    BY <2>1, <2>4
<1>2. CASE Cleanup
  <2>1. AllSound'
    BY <1>2, CacheStays DEF Cleanup, AllSound, GensOK, JobsOK, CallsCounted, Asked, Waiting
  <2>2. PICK old \in {t \in DOMAIN files : now - files[t] > VOICE_TTL} :
           files' = [t \in DOMAIN files \ {old} |-> files[t]]
    BY <1>2 DEF Cleanup
  <2>3. now' = now /\ UNCHANGED <<gen, cache, job>>
    BY <1>2 DEF Cleanup
  <2>4. FilesMove
    BY <1>0, <2>2, <2>3 DEF FilesMove, AllSound
  <2>5. VoicesOK'
    BY <2>3, <2>4, VoicesMove
  <2>6. QED
    BY <2>1, <2>5
<1>3. CASE UNCHANGED generationVars
  <2>1. AllSound'
    BY <1>3, CacheStays DEF generationVars, AllSound, GensOK, JobsOK, CallsCounted, Asked, Waiting
  <2>2. FilesMove
    BY <1>3, FilesStay DEF generationVars, AllSound
  <2>3. UNCHANGED <<gen, cache, job>>
    BY <1>3 DEF generationVars
  <2>4. VoicesOK'
    BY <2>2, <2>3, VoicesMove
  <2>5. QED
    BY <2>1, <2>4
<1>4. CASE Restart
  <2>1. AllSound'
    BY <1>4, RestartStep
  <2>2. FilesMove
    BY <1>4, FilesStay DEF Restart, AllSound
  <2>3. ASSUME NEW j \in Jobs
        PROVE  job'[j] = job[j] \/ job'[j].at \notin {"answer", "emit"}
    <3>1. CASE job[j].at = "wait"
      <4>1. job[j] \in Unsaved /\ job'[j] = AfterError(job[j])
        BY <1>4, <3>1, CallKinds DEF Restart, AllSound
      <4>2. QED
        BY <4>1, AfterErrorTyped
    <3>2. CASE job[j].at # "wait"
      BY <1>4, <3>2 DEF Restart
    <3>3. QED
      BY <3>1, <3>2
  <2>4. (\A g \in Gens : gen'[g].at # "finish") /\ DOMAIN cache' = {}
    BY <1>4, Working DEF Restart
  <2>5. VoicesOK'
    BY <2>2, <2>3, <2>4, VoicesMove
  <2>6. QED
    BY <2>1, <2>5
<1>5. ASSUME NEW g \in Gens,
             Lookup(g) \/ CallFails(g) \/ Provide(g) \/ VoiceLookup(g) \/ Speech(g) \/ Finish(g)
      PROVE  GenerationInv'
  BY <1>0, <1>5, ServiceSteps, ServiceVoices
<1>6. ASSUME NEW j \in Jobs,
             GenerateAndQueue(j) \/ Send(j) \/ RequestFails(j) \/ SaveRow(j) \/ Emit(j) \/ Reject(j)
      PROVE  GenerationInv'
  BY <1>6, BackendSteps, BackendVoices
<1>7. QED
  BY <1>1, <1>2, <1>3, <1>4, <1>5, <1>6 DEF GenerationNext

LEMMA GenerationStarts ==
  ASSUME GenerationInit
  PROVE  GenerationInv
<1> USE DEF GenerationInit
<1>1. Asked = {} /\ Waiting = {}
  BY Kinds DEF Asked, Waiting
<1>2. CallsCounted
  BY <1>1, FS_EmptySet DEF CallsCounted
<1>3. GensOK /\ JobsOK
  BY Kinds, Working DEF GensOK, JobsOK, JobOK
<1>4. VoicesOK
  BY Kinds DEF VoicesOK
<1>5. QED
  BY <1>2, <1>3, <1>4, EmptyCache DEF GenerationInv, AllSound

(* What a generation and a call of the backend hold on the way, and that a *)
(* voice file they name is there or was old enough to be removed: whatever *)
(* the bounds of the cache, the providers and the number of calls.         *)
THEOREM GenerationInvariance == GenerationSpec => []GenerationInv
BY GenerationStarts, GenerationStep, PTL DEF GenerationSpec

LEMMA GenerationVets ==
  ASSUME GenerationInv
  PROVE  StoredIsVetted
<1> USE DEF GenerationInv, AllSound
<1>1. ASSUME NEW j \in Jobs, job[j].at = "emit"
      PROVE  /\ IF job[j].saved.ai
                THEN /\ ~Unconfigured(job[j].saved.message.from) /\ job[j].saved.message.from \in Provider
                     /\ job[j].saved.message.length \in 5..300 /\ ~job[j].saved.message.banned
                     /\ job[j].saved.age < TTL_BY_TYPE[job[j].saved.message.type]
                ELSE job[j].saved.message = Template("backend", job[j].type) /\ job[j].saved.voice = NoVoice
             /\ job[j].saved.silent => now - job[j].saved.voice > VOICE_TTL
  <2>1. RowOK(job[j].saved, job[j].type)
    BY <1>1 DEF JobsOK, JobOK
  <2>2. job[j].saved.silent => now - job[j].saved.voice > VOICE_TTL
    BY <1>1 DEF VoicesOK
  <2>3. QED
    BY <2>1, <2>2 DEF RowOK, Fresh, Vetted, check, MIN_LENGTH, MAX_LENGTH, buildChain
<1>2. ASSUME failures = 0, \A j \in Jobs : job[j] = Resting
      PROVE  rows = jobs /\ emitted = jobs
  <2>1. Asked = {} /\ Waiting = {}
    BY <1>2, Kinds DEF Asked, Waiting
  <2>2. QED
    BY <1>2, <2>1, FS_EmptySet DEF CallsCounted
<1>3. /\ Len(cache) <= MAX_ENTRIES
      /\ \A i, k \in DOMAIN cache : cache[i].type = cache[k].type => i = k
  BY DEF CacheOK
<1> HIDE DEF GenerationInv, AllSound
<1>4. QED
  BY <1>1, <1>2, <1>3 DEF StoredIsVetted

(* Every announcement that counts as the AI's was vetted and was fresh     *)
(* when it was sent, any other is the backend's template; a row names a    *)
(* missing voice file only if the file was old; no call is lost and the    *)
(* cache is sound: for any number of calls, generations and entries.       *)
THEOREM StoredAlwaysVetted == GenerationSpec => []StoredIsVetted
BY GenerationInvariance, GenerationVets, PTL
=============================================================================
