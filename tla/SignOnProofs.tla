---------------------------- MODULE SignOnProofs ----------------------------
(***************************************************************************)
(* Proofs about the authorization code flow, for any clients, login        *)
(* attempts, codes and handlers and any lifetimes: codes are redeemed      *)
(* once, an attempt opens one session, tokens and sessions belong to the   *)
(* client and the attempt they were made for, and a session that was ended *)
(* is not served.  The first three rest on SignOnInv, which the handlers   *)
(* keep under the server's mutex as well; the last on SessionInv.          *)
(***************************************************************************)
EXTENDS SignOnLocks, TLAPS

CodeRecord == [id : Code, login : Login, expiresAt : Nat]
Callback   == [client : Client, login : Login, code : Code]
Token      == [code : Code, client : Client, login : Login, exp : Nat]

Types ==
  /\ now \in Nat
  /\ begun \in [Login -> Client \cup {NoClient}]
  /\ issuedFor \in [Code -> Login \cup {NoLogin}]
  /\ redeemed \in [Code -> Nat]
  /\ pending \subseteq Login /\ codes \subseteq CodeRecord /\ opened \subseteq Callback
  /\ pc \in [Handler -> {"idle", "state", "exchange", "redeem", "verify",
                         "session", "serve", "logout"}]
  /\ callback \in [Handler -> Callback \cup {NoCallback}]
  /\ taken \in [Handler -> CodeRecord \cup {NoCode}]
  /\ token \in [Handler -> Token \cup {NoToken}]

(***************************************************************************)
(* The inductive invariant.  A code is in the map of the server, or in the *)
(* hands of one handler that has not redeemed it yet, or gone.  The state  *)
(* of an attempt is in its map, or one handler of the client has taken it  *)
(* out and not answered, or gone; only then may a session be there.        *)
(***************************************************************************)
\* The handler has the code and has not redeemed it.
Carries(h, c) == pc[h] = "redeem" /\ taken[h].id = c

\* The handler has taken the state of the attempt and may open its session.
Continues(h, l) ==
  /\ pc[h] \in {"exchange", "redeem", "verify"}
  /\ callback[h].client \notin External /\ callback[h].login = l

HandlerInv(h) ==
  /\ pc[h] # "idle" => callback[h] \in Callback /\ begun[callback[h].login] # NoClient
  /\ pc[h] = "redeem" => taken[h] \in CodeRecord /\ issuedFor[taken[h].id] = taken[h].login
  /\ pc[h] = "verify" =>
       /\ token[h] \in Token
       /\ issuedFor[token[h].code] = callback[h].login
       /\ begun[callback[h].login] = callback[h].client

CodeInv(c) ==
  /\ redeemed[c] <= 1
  /\ redeemed[c] # 0 => issuedFor[c] # NoLogin
  /\ \A x \in codes : x.id = c =>
       /\ redeemed[c] = 0 /\ issuedFor[c] = x.login
       /\ \A h \in Handler : ~Carries(h, c)
       /\ \A y \in codes : y.id = c => x = y
  /\ \A h \in Handler : Carries(h, c) =>
       redeemed[c] = 0 /\ \A g \in Handler : Carries(g, c) => g = h

LoginInv(l) ==
  /\ l \in pending =>
       /\ begun[l] # NoClient
       /\ \A h \in Handler : ~Continues(h, l)
       /\ \A s \in opened : s.login # l
  /\ \A h \in Handler : Continues(h, l) =>
       /\ \A g \in Handler : Continues(g, l) => g = h
       /\ \A s \in opened : s.login # l
  /\ \A s, t \in opened : s.login = l /\ t.login = l => s = t

SessionsOwn == \A s \in opened : issuedFor[s.code] = s.login /\ begun[s.login] = s.client

SignOnInv ==
  /\ Types
  /\ \A h \in Handler : HandlerInv(h)
  /\ \A c \in Code : CodeInv(c)
  /\ \A l \in Login : LoginInv(l)
  /\ SessionsOwn

LEMMA SignOnInit == Init => SignOnInv
<1>. SUFFICES ASSUME Init PROVE SignOnInv
  OBVIOUS
<1>1. Types
  BY DEF Init, Idle, Types
<1>2. \A h \in Handler : pc[h] = "idle"
  BY DEF Init, Idle
<1>3. \A c \in Code : redeemed[c] = 0
  BY DEF Init
<1>4. pending = {} /\ codes = {} /\ opened = {}
  BY DEF Init
<1>. QED
  BY <1>1, <1>2, <1>3, <1>4
     DEF SignOnInv, HandlerInv, CodeInv, LoginInv, SessionsOwn, Carries, Continues

(***************************************************************************)
(* The steps, one lemma for each kind                                      *)
(***************************************************************************)
\* A handler answers; the state of its attempt may have been dropped.
LEMMA RespondKeeps ==
  ASSUME SignOnInv, NEW h \in Handler, Respond(h), pending' \subseteq pending,
         UNCHANGED <<now, begun, codes, issuedFor, redeemed, opened>>
  PROVE  SignOnInv'
<1>1. /\ pc' = [pc EXCEPT ![h] = "idle"]
      /\ callback' = [callback EXCEPT ![h] = NoCallback]
      /\ taken' = [taken EXCEPT ![h] = NoCode]
      /\ token' = [token EXCEPT ![h] = NoToken]
  BY DEF Respond
<1>2. Types'
  BY <1>1 DEF SignOnInv, Types
<1>3. /\ pc'[h] = "idle"
      /\ \A g \in Handler \ {h} : /\ pc'[g] = pc[g] /\ callback'[g] = callback[g]
                                 /\ taken'[g] = taken[g] /\ token'[g] = token[g]
  BY <1>1 DEF SignOnInv, Types
<1>4. \A g \in Handler : HandlerInv(g)'
  BY <1>3 DEF SignOnInv, HandlerInv
<1>5. /\ \A g \in Handler, c \in Code : Carries(g, c)' => Carries(g, c)
      /\ \A g \in Handler, l \in Login : Continues(g, l)' => Continues(g, l)
  BY <1>3 DEF Carries, Continues
<1>6. \A c \in Code : CodeInv(c)'
  BY <1>5 DEF SignOnInv, CodeInv
<1>7. \A l \in Login : LoginInv(l)'
  BY <1>5 DEF SignOnInv, LoginInv
<1>. QED
  BY <1>2, <1>4, <1>6, <1>7 DEF SignOnInv, SessionsOwn

\* A step that touches neither a handler nor the server's maps.
LEMMA QuietKeeps ==
  ASSUME SignOnInv, now' \in Nat,
         UNCHANGED <<begun, pending, codes, handlerVars, issuedFor, redeemed, opened>>
  PROVE  SignOnInv'
<1>1. UNCHANGED <<pc, callback, taken, token>>
  BY DEF handlerVars
<1>2. Types'
  BY <1>1 DEF SignOnInv, Types
<1>3. \A h \in Handler : HandlerInv(h)'
  BY <1>1 DEF SignOnInv, HandlerInv
<1>4. \A c \in Code : CodeInv(c)'
  BY <1>1 DEF SignOnInv, CodeInv, Carries
<1>5. \A l \in Login : LoginInv(l)'
  BY <1>1 DEF SignOnInv, LoginInv, Continues
<1>. QED
  BY <1>2, <1>3, <1>4, <1>5 DEF SignOnInv, SessionsOwn

LEMMA BeginLoginKeeps ==
  ASSUME SignOnInv, NEW l \in Login, NEW c \in Client, BeginLogin(l, c)
  PROVE  SignOnInv'
<1>1. /\ begun[l] = NoClient /\ begun' = [begun EXCEPT ![l] = c]
      /\ pending' \in {pending, pending \cup {l}}
      /\ UNCHANGED <<now, codes, issuedFor, redeemed, opened, pc, callback, taken, token>>
  BY DEF BeginLogin, serverVars, handlerVars, history
<1>2. Types'
  BY <1>1 DEF SignOnInv, Types
<1>3. \A k \in Login : begun[k] # NoClient => begun'[k] = begun[k]
  BY <1>1 DEF SignOnInv, Types
<1>4. begun'[l] # NoClient
  BY <1>1, SignOnAssumption DEF SignOnInv, Types
<1>5. /\ \A h \in Handler : ~Continues(h, l)
      /\ \A s \in opened : s.login # l
  <2>1. \A h \in Handler : ~Continues(h, l)
    BY <1>1 DEF SignOnInv, HandlerInv, Continues
  <2>2. \A s \in opened : s.login # l
    BY <1>1, SignOnAssumption DEF SignOnInv, SessionsOwn, Types, Callback
  <2>3. QED
    BY <2>1, <2>2
<1>6. \A h \in Handler : HandlerInv(h)'
  BY <1>1, <1>3 DEF SignOnInv, HandlerInv, Callback
<1>7. \A k \in Code : CodeInv(k)'
  BY <1>1 DEF SignOnInv, CodeInv, Carries
<1>8. \A k \in Login : LoginInv(k)'
  BY <1>1, <1>3, <1>4, <1>5 DEF SignOnInv, LoginInv, Continues
<1>9. SessionsOwn'
  BY <1>1, <1>3, SignOnAssumption DEF SignOnInv, SessionsOwn, Types, Callback
<1>. QED
  BY <1>2, <1>6, <1>7, <1>8, <1>9 DEF SignOnInv

LEMMA IssueCodeKeeps ==
  ASSUME SignOnInv, NEW l \in Login, NEW c \in Code, IssueCode(l, c),
         UNCHANGED <<now, begun, pending, handlerVars, redeemed, opened>>
  PROVE  SignOnInv'
<1>. DEFINE new == [id |-> c, login |-> l, expiresAt |-> now + CodeLifetime]
<1>1. /\ issuedFor[c] = NoLogin /\ issuedFor' = [issuedFor EXCEPT ![c] = l]
      /\ codes' = codes \cup {new}
      /\ UNCHANGED <<pc, callback, taken, token>>
  BY DEF IssueCode, handlerVars
<1>2. new \in CodeRecord
  BY SignOnAssumption DEF SignOnInv, Types, CodeRecord
<1>3. new.id = c /\ new.login = l
  OBVIOUS
<1>. HIDE DEF new
<1>4. Types'
  BY <1>1, <1>2 DEF SignOnInv, Types
<1>5. \A k \in Code : issuedFor[k] # NoLogin => issuedFor'[k] = issuedFor[k]
  BY <1>1 DEF SignOnInv, Types
<1>6. issuedFor'[c] = l /\ l # NoLogin
  BY <1>1, SignOnAssumption DEF SignOnInv, Types
<1>7. \A h \in Handler : HandlerInv(h)'
  BY <1>1, <1>5, SignOnAssumption DEF SignOnInv, HandlerInv, Callback, CodeRecord, Token
<1>8. /\ redeemed[c] = 0
      /\ \A x \in codes : x.id # c
      /\ \A h \in Handler : ~Carries(h, c)
  <2>1. redeemed[c] = 0
    BY <1>1 DEF SignOnInv, CodeInv
  <2>2. \A x \in codes : x.id # c
    BY <1>1, SignOnAssumption DEF SignOnInv, CodeInv, Types, CodeRecord
  <2>3. \A h \in Handler : ~Carries(h, c)
    BY <1>1, SignOnAssumption DEF SignOnInv, HandlerInv, Carries, CodeRecord
  <2>4. QED
    BY <2>1, <2>2, <2>3
<1>9. \A g \in Handler, k \in Code : Carries(g, k)' <=> Carries(g, k)
  BY <1>1 DEF Carries
<1>10. \A k \in Code : CodeInv(k)'
  <2>. SUFFICES ASSUME NEW k \in Code PROVE CodeInv(k)'
    OBVIOUS
  <2>1. CASE k = c
    BY <1>1, <1>3, <1>6, <1>8, <1>9, <2>1 DEF CodeInv
  <2>2. CASE k # c
    <3>1. issuedFor'[k] = issuedFor[k] /\ CodeInv(k)
      BY <1>1, <2>2 DEF SignOnInv, Types
    <3>2. QED
      BY <1>1, <1>3, <1>9, <2>2, <3>1 DEF CodeInv
  <2>3. QED
    BY <2>1, <2>2
<1>11. \A k \in Login : LoginInv(k)'
  BY <1>1 DEF SignOnInv, LoginInv, Continues
<1>12. SessionsOwn'
  BY <1>1, <1>5, SignOnAssumption DEF SignOnInv, SessionsOwn, Types, Callback
<1>. QED
  BY <1>4, <1>7, <1>10, <1>11, <1>12 DEF SignOnInv
\* A handler that was idle starts to serve: a callback, the token request of
\* an external client, or a request with a session cookie.
LEMMA ServeKeeps ==
  ASSUME SignOnInv, NEW h \in Handler, NEW to, NEW cb \in Callback,
         Serve(h, "idle", to), to \in {"state", "exchange", "session", "logout"},
         to = "exchange" => cb.client \in External,
         begun[cb.login] # NoClient,
         callback' = [callback EXCEPT ![h] = cb],
         UNCHANGED <<now, begun, pending, codes, taken, token, issuedFor, redeemed, opened>>
  PROVE  SignOnInv'
<1>1. /\ pc[h] = "idle" /\ pc'[h] = to /\ callback'[h] = cb
      /\ \A g \in Handler \ {h} : pc'[g] = pc[g] /\ callback'[g] = callback[g]
  BY DEF Serve, SignOnInv, Types
<1>2. Types'
  BY DEF Serve, SignOnInv, Types
<1>3. \A g \in Handler : HandlerInv(g)'
  BY <1>1 DEF SignOnInv, HandlerInv
<1>4. \A g \in Handler, c \in Code : Carries(g, c)' <=> Carries(g, c)
  BY <1>1 DEF Carries
<1>5. \A g \in Handler, l \in Login : Continues(g, l)' <=> Continues(g, l)
  BY <1>1 DEF Continues
<1>6. \A c \in Code : CodeInv(c)'
  BY <1>4 DEF SignOnInv, CodeInv
<1>7. \A l \in Login : LoginInv(l)'
  BY <1>5 DEF SignOnInv, LoginInv
<1>. QED
  BY <1>2, <1>3, <1>6, <1>7 DEF SignOnInv, SessionsOwn

LEMMA TakeStateKeeps ==
  ASSUME SignOnInv, NEW h \in Handler, TakeState(h)
  PROVE  SignOnInv'
<1>. DEFINE l == callback[h].login
<1>1. /\ pc[h] = "state" /\ pc' = [pc EXCEPT ![h] = "exchange"]
      /\ l \in pending /\ pending' = pending \ {l}
      /\ UNCHANGED <<now, begun, codes, callback, taken, token, issuedFor, redeemed, opened>>
  BY DEF TakeState, Serve, KnowsState, history
<1>2. Types'
  BY <1>1 DEF SignOnInv, Types
<1>3. pc'[h] = "exchange" /\ \A g \in Handler \ {h} : pc'[g] = pc[g]
  BY <1>1 DEF SignOnInv, Types
<1>4. \A g \in Handler : HandlerInv(g)'
  BY <1>1, <1>3 DEF SignOnInv, HandlerInv
<1>5. \A g \in Handler, c \in Code : Carries(g, c)' <=> Carries(g, c)
  BY <1>1, <1>3 DEF Carries
<1>6. \A c \in Code : CodeInv(c)'
  BY <1>1, <1>5 DEF SignOnInv, CodeInv
<1>7. /\ \A g \in Handler : ~Continues(g, l)
      /\ \A s \in opened : s.login # l
  BY <1>1 DEF SignOnInv, LoginInv, Types
<1>8. /\ \A g \in Handler \ {h}, k \in Login : Continues(g, k)' <=> Continues(g, k)
      /\ \A k \in Login : Continues(h, k)' => k = l
  BY <1>1, <1>3 DEF Continues
<1>9. ASSUME NEW k \in Login
      PROVE  LoginInv(k)'
  <2>1. CASE k = l
    BY <1>1, <1>7, <1>8, <2>1 DEF LoginInv
  <2>2. CASE k # l
    <3>1. \A g \in Handler : Continues(g, k)' => Continues(g, k)
      BY <1>8, <2>2
    <3>2. LoginInv(k)
      BY DEF SignOnInv
    <3>3. QED
      BY <1>1, <3>1, <3>2, <2>2 DEF LoginInv
  <2>3. QED
    BY <2>1, <2>2
<1>. QED
  BY <1>1, <1>2, <1>4, <1>6, <1>9 DEF SignOnInv, SessionsOwn

LEMMA TakeCodeKeeps ==
  ASSUME SignOnInv, NEW h \in Handler, TakeCode(h)
  PROVE  SignOnInv'
<1>1. PICK x \in codes :
        /\ pc[h] = "exchange" /\ pc' = [pc EXCEPT ![h] = "redeem"]
        /\ taken' = [taken EXCEPT ![h] = x] /\ codes' = codes \ {x}
        /\ UNCHANGED <<now, begun, pending, callback, token, issuedFor, redeemed, opened>>
  BY DEF TakeCode, Serve, history
<1>2. x \in CodeRecord /\ x.id \in Code
  BY DEF SignOnInv, Types, CodeRecord
<1>3. Types'
  BY <1>1, <1>2 DEF SignOnInv, Types
<1>4. /\ pc'[h] = "redeem" /\ taken'[h] = x
      /\ \A g \in Handler \ {h} : pc'[g] = pc[g] /\ taken'[g] = taken[g]
  BY <1>1 DEF SignOnInv, Types
<1>5. /\ redeemed[x.id] = 0 /\ issuedFor[x.id] = x.login
      /\ \A g \in Handler : ~Carries(g, x.id)
      /\ \A y \in codes : y.id = x.id => x = y
  BY <1>1, <1>2 DEF SignOnInv, CodeInv
<1>6. \A g \in Handler : HandlerInv(g)'
  BY <1>1, <1>2, <1>4, <1>5 DEF SignOnInv, HandlerInv
<1>7. /\ \A g \in Handler \ {h}, c \in Code : Carries(g, c)' <=> Carries(g, c)
      /\ \A c \in Code : Carries(h, c)' <=> c = x.id
  BY <1>4 DEF Carries
<1>8. ASSUME NEW c \in Code
      PROVE  CodeInv(c)'
  <2>1. CASE c = x.id
    BY <1>1, <1>5, <1>7, <2>1 DEF SignOnInv, CodeInv
  <2>2. CASE c # x.id
    <3>1. \A g \in Handler : Carries(g, c)' => Carries(g, c)
      BY <1>7, <2>2
    <3>2. CodeInv(c)
      BY DEF SignOnInv
    <3>3. QED
      BY <1>1, <3>1, <3>2 DEF CodeInv
  <2>3. QED
    BY <2>1, <2>2
<1>9. \A g \in Handler, l \in Login : Continues(g, l)' <=> Continues(g, l)
  BY <1>1, <1>4 DEF Continues
<1>10. \A l \in Login : LoginInv(l)'
  BY <1>1, <1>9 DEF SignOnInv, LoginInv
<1>. QED
  BY <1>1, <1>3, <1>6, <1>8, <1>10 DEF SignOnInv, SessionsOwn

LEMMA RedeemKeeps ==
  ASSUME SignOnInv, NEW h \in Handler, Redeem(h)
  PROVE  SignOnInv'
<1>. DEFINE x == taken[h]
            new == [code |-> x.id, client |-> begun[x.login], login |-> x.login,
                    exp |-> now + TokenLifetime]
<1>1. /\ pc[h] = "redeem" /\ pc' = [pc EXCEPT ![h] = "verify"]
      /\ token' = [token EXCEPT ![h] = new]
      /\ redeemed' = [redeemed EXCEPT ![x.id] = @ + 1]
      /\ UNCHANGED <<now, begun, pending, codes, callback, taken, issuedFor, opened>>
  BY DEF Redeem, Serve, serverVars
<1>2. begun[x.login] = callback[h].client /\ x.login = callback[h].login
  BY DEF Redeem, Redeemable
<1>3. /\ x \in CodeRecord /\ issuedFor[x.id] = x.login
      /\ x.id \in Code /\ x.login \in Login /\ callback[h] \in Callback
  BY <1>1 DEF SignOnInv, HandlerInv, CodeRecord
<1>4. new \in Token
  BY <1>2, <1>3, SignOnAssumption DEF SignOnInv, Types, Callback, Token
<1>5. Types'
  BY <1>1, <1>3, <1>4 DEF SignOnInv, Types
<1>6. /\ pc'[h] = "verify" /\ token'[h] = new
      /\ \A g \in Handler \ {h} : pc'[g] = pc[g] /\ token'[g] = token[g]
  BY <1>1 DEF SignOnInv, Types
<1>7. \A g \in Handler : HandlerInv(g)'
  <2>1. HandlerInv(h)'
    BY <1>1, <1>2, <1>3, <1>4, <1>6 DEF SignOnInv, HandlerInv
  <2>2. \A g \in Handler \ {h} : HandlerInv(g)'
    BY <1>1, <1>6 DEF SignOnInv, HandlerInv
  <2>3. QED
    BY <2>1, <2>2
<1>8. /\ redeemed[x.id] = 0
      /\ \A g \in Handler : Carries(g, x.id) => g = h
      /\ \A y \in codes : y.id # x.id
  BY <1>1, <1>3 DEF SignOnInv, CodeInv, Carries
<1>9. /\ \A g \in Handler \ {h}, c \in Code : Carries(g, c)' <=> Carries(g, c)
      /\ \A c \in Code : ~Carries(h, c)'
  BY <1>1, <1>6 DEF Carries
<1>10. ASSUME NEW c \in Code
       PROVE  CodeInv(c)'
  <2>1. CASE c = x.id
    <3>1. redeemed'[c] = 1
      BY <1>1, <1>3, <1>8, <2>1 DEF SignOnInv, Types
    <3>2. issuedFor'[c] # NoLogin
      BY <1>1, <1>3, <2>1, SignOnAssumption
    <3>3. \A g \in Handler : ~Carries(g, c)'
      BY <1>8, <1>9, <2>1
    <3>4. QED
      BY <1>1, <1>8, <2>1, <3>1, <3>2, <3>3 DEF CodeInv
  <2>2. CASE c # x.id
    <3>1. redeemed'[c] = redeemed[c]
      BY <1>1, <2>2 DEF SignOnInv, Types
    <3>2. CodeInv(c)
      BY DEF SignOnInv
    <3>3. \A g \in Handler : Carries(g, c)' => Carries(g, c)
      BY <1>9
    <3>4. QED
      BY <1>1, <3>1, <3>2, <3>3 DEF CodeInv
  <2>3. QED
    BY <2>1, <2>2
<1>11. \A g \in Handler, l \in Login : Continues(g, l)' <=> Continues(g, l)
  BY <1>1, <1>6 DEF Continues
<1>12. \A l \in Login : LoginInv(l)'
  BY <1>1, <1>11 DEF SignOnInv, LoginInv
<1>. QED
  BY <1>1, <1>5, <1>7, <1>10, <1>12 DEF SignOnInv, SessionsOwn

LEMMA OpenSessionKeeps ==
  ASSUME SignOnInv, NEW h \in Handler, OpenSession(h)
  PROVE  SignOnInv'
<1>. DEFINE l == callback[h].login
            new == [client |-> callback[h].client, login |-> l, code |-> token[h].code]
<1>1. /\ pc[h] = "verify" /\ callback[h].client \notin External
      /\ opened' = opened \cup {new} /\ Respond(h)
      /\ UNCHANGED <<now, begun, pending, codes, issuedFor, redeemed>>
  BY DEF OpenSession, serverVars
<1>2. /\ callback[h] \in Callback /\ token[h] \in Token /\ issuedFor[token[h].code] = l
      /\ begun[l] = callback[h].client
  BY <1>1 DEF SignOnInv, HandlerInv
<1>3. new \in Callback
  BY <1>2 DEF Callback, Token
<1>4. /\ pc' = [pc EXCEPT ![h] = "idle"]
      /\ callback' = [callback EXCEPT ![h] = NoCallback]
      /\ taken' = [taken EXCEPT ![h] = NoCode]
      /\ token' = [token EXCEPT ![h] = NoToken]
  BY <1>1 DEF Respond
<1>5. new.login = l /\ issuedFor[new.code] = new.login /\ begun[new.login] = new.client
  BY <1>2
<1>6. Continues(h, l) /\ l \in Login
  BY <1>1, <1>2 DEF Continues, Callback
<1>. HIDE DEF new
<1>7. Types'
  BY <1>1, <1>3, <1>4 DEF SignOnInv, Types
<1>8. /\ pc'[h] = "idle"
      /\ \A g \in Handler \ {h} : /\ pc'[g] = pc[g] /\ callback'[g] = callback[g]
                                 /\ taken'[g] = taken[g] /\ token'[g] = token[g]
  BY <1>4 DEF SignOnInv, Types
<1>9. \A g \in Handler : HandlerInv(g)'
  BY <1>1, <1>8 DEF SignOnInv, HandlerInv
<1>10. \A g \in Handler, c \in Code : Carries(g, c)' => Carries(g, c)
  BY <1>8 DEF Carries
<1>11. \A c \in Code : CodeInv(c)'
  BY <1>1, <1>10 DEF SignOnInv, CodeInv
<1>12. /\ l \notin pending
       /\ \A g \in Handler : Continues(g, l) => g = h
       /\ \A s \in opened : s.login # l
  BY <1>6 DEF SignOnInv, LoginInv
<1>13. /\ \A g \in Handler \ {h}, k \in Login : Continues(g, k)' => Continues(g, k)
       /\ \A k \in Login : ~Continues(h, k)'
  BY <1>8 DEF Continues
<1>14. ASSUME NEW k \in Login
       PROVE  LoginInv(k)'
  <2>1. CASE k = l
    <3>1. \A g \in Handler : ~Continues(g, k)'
      BY <1>12, <1>13, <2>1
    <3>2. QED
      BY <1>1, <1>12, <2>1, <3>1 DEF LoginInv
  <2>2. CASE k # l
    <3>1. LoginInv(k)
      BY DEF SignOnInv
    <3>2. \A g \in Handler : Continues(g, k)' => Continues(g, k)
      BY <1>13
    <3>3. QED
      BY <1>1, <1>5, <2>2, <3>1, <3>2 DEF LoginInv
  <2>3. QED
    BY <2>1, <2>2
<1>15. SessionsOwn'
  BY <1>1, <1>5 DEF SignOnInv, SessionsOwn
<1>. QED
  BY <1>7, <1>9, <1>11, <1>14, <1>15 DEF SignOnInv

LEMMA RestartKeeps ==
  ASSUME SignOnInv, Restart
  PROVE  SignOnInv'
<1>1. /\ pending' = {} /\ codes' = {}
      /\ pc' = [h \in Handler |-> "idle"]
      /\ callback' = [h \in Handler |-> NoCallback]
      /\ taken' = [h \in Handler |-> NoCode]
      /\ token' = [h \in Handler |-> NoToken]
      /\ UNCHANGED <<now, begun, issuedFor, redeemed, opened>>
  BY DEF Restart, history
<1>2. Types'
  BY <1>1 DEF SignOnInv, Types
<1>3. \A h \in Handler : HandlerInv(h)'
  BY <1>1 DEF HandlerInv
<1>4. \A c \in Code : CodeInv(c)'
  BY <1>1 DEF SignOnInv, CodeInv, Carries
<1>5. \A l \in Login : LoginInv(l)'
  BY <1>1 DEF SignOnInv, LoginInv, Continues
<1>. QED
  BY <1>1, <1>2, <1>3, <1>4, <1>5 DEF SignOnInv, SessionsOwn
LEMMA IssuingKeeps ==
  ASSUME SignOnInv, NEW l \in Login, NEW c \in Code,
         Authorize(l, c) \/ \E entered \in BOOLEAN : SignIn(l, c, entered)
  PROVE  SignOnInv'
BY IssueCodeKeeps DEF Authorize, SignIn, handlerVars

LEMMA OpenCallbackKeeps ==
  ASSUME SignOnInv, NEW h \in Handler, OpenCallback(h)
  PROVE  SignOnInv'
<1>1. PICK client \in Client \ External, login \in Login, code \in Code :
        /\ begun[login] # NoClient
        /\ callback' = [callback EXCEPT ![h] =
             [client |-> client, login |-> login, code |-> code]]
  BY DEF OpenCallback
<1>. DEFINE cb == [client |-> client, login |-> login, code |-> code]
<1>2. cb \in Callback /\ cb.login = login
  BY DEF Callback
<1>3. /\ Serve(h, "idle", "state")
      /\ UNCHANGED <<now, begun, pending, codes, taken, token, issuedFor, redeemed, opened>>
  BY DEF OpenCallback, serverVars, history
<1>. QED
  BY <1>1, <1>2, <1>3, ServeKeeps

LEMMA RequestTokenKeeps ==
  ASSUME SignOnInv, NEW h \in Handler, RequestToken(h)
  PROVE  SignOnInv'
<1>1. PICK login \in Login, code \in Code :
        /\ begun[login] \in External
        /\ callback' = [callback EXCEPT ![h] =
             [client |-> begun[login], login |-> login, code |-> code]]
  BY DEF RequestToken
<1>. DEFINE cb == [client |-> begun[login], login |-> login, code |-> code]
<1>2. cb \in Callback /\ cb.login = login /\ cb.client \in External /\ begun[login] # NoClient
  BY <1>1, SignOnAssumption DEF Callback
<1>3. /\ Serve(h, "idle", "exchange")
      /\ UNCHANGED <<now, begun, pending, codes, taken, token, issuedFor, redeemed, opened>>
  BY DEF RequestToken, serverVars, history
<1>. QED
  BY <1>1, <1>2, <1>3, ServeKeeps

\* The steps that end with the answer of a handler and open no session.
LEMMA AnswerKeeps ==
  ASSUME SignOnInv, NEW h \in Handler,
         InvalidState(h) \/ AnswerExternal(h) \/ Refuse(h) \/ ExchangeFails(h)
  PROVE  SignOnInv'
<1>1. /\ Respond(h) /\ pending' \subseteq pending
      /\ UNCHANGED <<now, begun, codes, issuedFor, redeemed, opened>>
  BY DEF InvalidState, AnswerExternal, Refuse, ExchangeFails, serverVars, history
<1>. QED
  BY <1>1, RespondKeeps

\* The operator, the clock, and a step that leaves all alone.
LEMMA OutsideKeeps ==
  ASSUME SignOnInv, ChangePIN \/ Tick \/ UNCHANGED vars
  PROVE  SignOnInv'
<1>1. /\ now' \in Nat
      /\ UNCHANGED <<begun, pending, codes, handlerVars, issuedFor, redeemed, opened>>
  BY DEF ChangePIN, Tick, vars, serverVars, handlerVars, history, SignOnInv, Types
<1>. QED
  BY <1>1, QuietKeeps

LEMMA SignOnStep == SignOnInv /\ [Next]_vars => SignOnInv'
<1>. SUFFICES ASSUME SignOnInv, [Next]_vars PROVE SignOnInv'
  OBVIOUS
<1>1. ASSUME NEW h \in Handler, HandlerStep(h)
      PROVE  SignOnInv'
  BY <1>1, TakeStateKeeps, TakeCodeKeeps, RedeemKeeps, OpenSessionKeeps, AnswerKeeps
     DEF HandlerStep
<1>2. ASSUME NEW h \in Handler, OpenCallback(h) \/ RequestToken(h) \/ ExchangeFails(h)
      PROVE  SignOnInv'
  BY <1>2, OpenCallbackKeeps, RequestTokenKeeps, AnswerKeeps
<1>. QED
  BY <1>1, <1>2, BeginLoginKeeps, IssuingKeeps, RestartKeeps, OutsideKeeps DEF Next

LEMMA InvGivesOneTime == SignOnInv => CodesAreOneTime
BY DEF SignOnInv, CodeInv, CodesAreOneTime

LEMMA InvGivesOneSession == SignOnInv => OneSessionPerLogin
BY DEF SignOnInv, Types, Callback, LoginInv, OneSessionPerLogin

LEMMA InvGivesOwn == SignOnInv => TokensAreOwn
BY DEF SignOnInv, HandlerInv, SessionsOwn, TokensAreOwn

\* A code is redeemed at most once, whichever callbacks and token requests
\* run at the same time and however often they are repeated.
THEOREM OneTimeCodes == Spec => []CodesAreOneTime
<1>1. Init => SignOnInv
  BY SignOnInit
<1>2. SignOnInv /\ [Next]_vars => SignOnInv'
  BY SignOnStep
<1>. QED
  BY <1>1, <1>2, InvGivesOneTime, PTL DEF Spec

\* A login attempt opens at most one session.
THEOREM OneSession == Spec => []OneSessionPerLogin
<1>1. Init => SignOnInv
  BY SignOnInit
<1>2. SignOnInv /\ [Next]_vars => SignOnInv'
  BY SignOnStep
<1>. QED
  BY <1>1, <1>2, InvGivesOneSession, PTL DEF Spec

\* Tokens and sessions belong to the client that began the attempt and to the
\* attempt the code was issued for, whatever states and codes are mixed up.
THEOREM OwnTokens == Spec => []TokensAreOwn
<1>1. Init => SignOnInv
  BY SignOnInit
<1>2. SignOnInv /\ [Next]_vars => SignOnInv'
  BY SignOnStep
<1>. QED
  BY <1>1, <1>2, InvGivesOwn, PTL DEF Spec

(***************************************************************************)
(* The handlers with the mutex and with the requests that use a session    *)
(***************************************************************************)
\* What a locked step does to the variables of SignOn.
LEMMA LockedSteps ==
  ASSUME [LockedNext]_lockedVars
  PROVE  \/ [Next]_vars
         \/ \E h \in Handler :
              \/ OpenRequest(h, "session") \/ OpenRequest(h, "logout")
              \/ CurrentSession(h) \/ NoSession(h) \/ ServeSession(h) \/ Logout(h)
<1>1. ASSUME NEW h \in Handler, Step(h)
      PROVE  \/ [Next]_vars
             \/ CurrentSession(h) \/ NoSession(h) \/ ServeSession(h) \/ Logout(h)
  BY <1>1 DEF Step, Lock, OpenSessionSection, StateSection, CodeSection, TokenSection,
              RefuseOutside, Next, HandlerStep
<1>2. CASE Surroundings
  BY <1>2 DEF Surroundings, ExchangeFailsOutside, Next
<1>3. CASE LockedRestart
  BY <1>3 DEF LockedRestart, Next
<1>4. CASE UNCHANGED lockedVars
  BY <1>4 DEF lockedVars
<1>. QED
  BY <1>1, <1>2, <1>3, <1>4 DEF LockedNext

LEMMA CurrentSessionKeeps ==
  ASSUME SignOnInv, NEW h \in Handler, CurrentSession(h)
  PROVE  SignOnInv'
<1>1. /\ pc[h] = "session" /\ pc' = [pc EXCEPT ![h] = "serve"]
      /\ UNCHANGED <<now, begun, pending, codes, callback, taken, token,
                     issuedFor, redeemed, opened>>
  BY DEF CurrentSession, Serve, serverVars, history
<1>2. Types'
  BY <1>1 DEF SignOnInv, Types
<1>3. pc'[h] = "serve" /\ \A g \in Handler \ {h} : pc'[g] = pc[g]
  BY <1>1 DEF SignOnInv, Types
<1>4. \A g \in Handler : HandlerInv(g)'
  BY <1>1, <1>3 DEF SignOnInv, HandlerInv
<1>5. /\ \A g \in Handler, c \in Code : Carries(g, c)' <=> Carries(g, c)
      /\ \A g \in Handler, l \in Login : Continues(g, l)' <=> Continues(g, l)
  BY <1>1, <1>3 DEF Carries, Continues
<1>6. \A c \in Code : CodeInv(c)'
  BY <1>1, <1>5 DEF SignOnInv, CodeInv
<1>7. \A l \in Login : LoginInv(l)'
  BY <1>1, <1>5 DEF SignOnInv, LoginInv
<1>. QED
  BY <1>1, <1>2, <1>4, <1>6, <1>7 DEF SignOnInv, SessionsOwn

LEMMA OpenRequestKeeps ==
  ASSUME SignOnInv, NEW h \in Handler, NEW kind \in {"session", "logout"},
         OpenRequest(h, kind)
  PROVE  SignOnInv'
<1>1. PICK s \in opened : callback' = [callback EXCEPT ![h] = s]
  BY DEF OpenRequest
<1>2. s \in Callback /\ begun[s.login] # NoClient
  BY SignOnAssumption DEF SignOnInv, Types, SessionsOwn, Callback
<1>3. /\ Serve(h, "idle", kind)
      /\ UNCHANGED <<now, begun, pending, codes, taken, token, issuedFor, redeemed, opened>>
  BY DEF OpenRequest, serverVars, history
<1>. QED
  BY <1>1, <1>2, <1>3, ServeKeeps

LEMMA LockedStep == SignOnInv /\ [LockedNext]_lockedVars => SignOnInv'
<1>. SUFFICES ASSUME SignOnInv, [LockedNext]_lockedVars PROVE SignOnInv'
  OBVIOUS
<1>1. ASSUME NEW h \in Handler, NoSession(h) \/ ServeSession(h) \/ Logout(h)
      PROVE  SignOnInv'
  <2>1. /\ Respond(h) /\ pending' \subseteq pending
        /\ UNCHANGED <<now, begun, codes, issuedFor, redeemed, opened>>
    BY <1>1 DEF NoSession, ServeSession, Logout, serverVars, history
  <2>2. QED
    BY <2>1, RespondKeeps
<1>. QED
  BY <1>1, LockedSteps, SignOnStep, OpenRequestKeeps, CurrentSessionKeeps

\* The same three, of the handlers with the mutex, the sessions and logout.
THEOREM SafeWithLocks ==
  LockedSpec => [](CodesAreOneTime /\ OneSessionPerLogin /\ TokensAreOwn)
<1>1. LockedInit => SignOnInv
  BY SignOnInit DEF LockedInit
<1>2. SignOnInv /\ [LockedNext]_lockedVars => SignOnInv'
  BY LockedStep
<1>. QED
  BY <1>1, <1>2, InvGivesOneTime, InvGivesOneSession, InvGivesOwn, PTL DEF LockedSpec

(***************************************************************************)
(* Logout                                                                  *)
(***************************************************************************)
\* A session that was ended is not in the map of sessions, and a request that
\* came after that is on its way to be told so.
Arrives(h) ==
  /\ pc[h] \in {"session", "logout"} => callback[h] \in opened
  /\ pc[h] = "session" /\ late[h] => callback[h] \in ended
  /\ pc[h] = "serve" => ~late[h]

SessionInv ==
  /\ late \in [Handler -> BOOLEAN]
  /\ sessions \subseteq opened /\ ended \subseteq opened /\ sessions \cap ended = {}
  /\ \A h \in Handler : Arrives(h)

\* The handler is not at a request with a cookie, or stays where it was.
Elsewhere(h) ==
  \/ pc'[h] \in {"idle", "state", "exchange", "redeem", "verify"}
  \/ pc'[h] = pc[h] /\ callback'[h] = callback[h] /\ late'[h] = late[h]

\* The steps of the authorization code flow open sessions and end none.
LEMMA FlowKeepsSessions ==
  ASSUME SessionInv, late' \in [Handler -> BOOLEAN], opened \subseteq opened',
         sessions' \subseteq sessions \cup (opened' \ opened), ended' = ended,
         \A h \in Handler : Elsewhere(h)
  PROVE  SessionInv'
<1>1. \A h \in Handler : Arrives(h)'
  BY DEF SessionInv, Arrives, Elsewhere
<1>. QED
  BY <1>1 DEF SessionInv

LEMMA FlowMoves ==
  ASSUME SignOnInv, NEW h \in Handler,
         \/ TakeState(h) \/ InvalidState(h) \/ TakeCode(h) \/ Redeem(h) \/ AnswerExternal(h)
         \/ Refuse(h) \/ ExchangeFails(h) \/ OpenCallback(h) \/ RequestToken(h)
  PROVE  /\ opened' = opened
         /\ pc'[h] \in {"idle", "state", "exchange", "redeem", "verify"}
         /\ \A g \in Handler \ {h} : pc'[g] = pc[g] /\ callback'[g] = callback[g]
<1>1. /\ pc \in [Handler -> {"idle", "state", "exchange", "redeem", "verify",
                             "session", "serve", "logout"}]
      /\ callback \in [Handler -> Callback \cup {NoCallback}]
  BY DEF SignOnInv, Types
<1>2. CASE TakeState(h) \/ TakeCode(h) \/ Redeem(h)
  BY <1>1, <1>2 DEF TakeState, TakeCode, Redeem, Serve, history
<1>3. CASE InvalidState(h) \/ AnswerExternal(h) \/ Refuse(h) \/ ExchangeFails(h)
  BY <1>1, <1>3 DEF InvalidState, AnswerExternal, Refuse, ExchangeFails, Respond, history
<1>4. CASE OpenCallback(h) \/ RequestToken(h)
  BY <1>1, <1>4 DEF OpenCallback, RequestToken, Serve, history
<1>. QED
  BY <1>2, <1>3, <1>4

LEMMA SessionStep == SignOnInv /\ SessionInv /\ [LockedNext]_lockedVars => SessionInv'
<1>. SUFFICES ASSUME SignOnInv, SessionInv, [LockedNext]_lockedVars PROVE SessionInv'
  OBVIOUS
<1>1. /\ pc \in [Handler -> {"idle", "state", "exchange", "redeem", "verify",
                             "session", "serve", "logout"}]
      /\ callback \in [Handler -> Callback \cup {NoCallback}]
  BY DEF SignOnInv, Types
<1>2. /\ late \in [Handler -> BOOLEAN]
      /\ sessions \subseteq opened /\ ended \subseteq opened /\ sessions \cap ended = {}
      /\ \A h \in Handler : Arrives(h)
  BY DEF SessionInv
<1>3. ASSUME NEW h \in Handler, UNCHANGED <<sessions, ended, late>>,
             \/ StateSection(h) \/ CodeSection(h) \/ TokenSection(h) \/ RefuseOutside(h)
             \/ AnswerExternal(h) \/ ExchangeFailsOutside(h)
      PROVE  SessionInv'
  <2>1. \/ TakeState(h) \/ InvalidState(h) \/ TakeCode(h) \/ Redeem(h) \/ AnswerExternal(h)
        \/ Refuse(h) \/ ExchangeFails(h)
    BY <1>3 DEF StateSection, CodeSection, TokenSection, RefuseOutside, ExchangeFailsOutside
  <2>2. \A g \in Handler : Elsewhere(g)
    BY <1>3, <2>1, FlowMoves DEF Elsewhere
  <2>3. QED
    BY <1>2, <1>3, <2>1, <2>2, FlowMoves, FlowKeepsSessions
<1>4. ASSUME NEW h \in Handler, OpenCallback(h) \/ RequestToken(h),
             late' = [late EXCEPT ![h] = FALSE], UNCHANGED <<sessions, ended>>
      PROVE  SessionInv'
  <2>1. \A g \in Handler : Elsewhere(g)
    BY <1>2, <1>4, FlowMoves DEF Elsewhere
  <2>2. late' \in [Handler -> BOOLEAN]
    BY <1>2, <1>4
  <2>3. QED
    BY <1>2, <1>4, <2>1, <2>2, FlowMoves, FlowKeepsSessions
<1>5. ASSUME NEW h \in Handler, OpenSessionSection(h), UNCHANGED <<ended, late>>
      PROVE  SessionInv'
  <2>1. /\ opened \subseteq opened' /\ sessions' = sessions \cup (opened' \ opened)
        /\ pc' = [pc EXCEPT ![h] = "idle"]
        /\ callback' = [callback EXCEPT ![h] = NoCallback]
    BY <1>5 DEF OpenSessionSection, OpenSession, Respond
  <2>2. \A g \in Handler : Elsewhere(g)
    BY <1>1, <1>5, <2>1 DEF Elsewhere
  <2>3. QED
    BY <1>2, <1>5, <2>1, <2>2, FlowKeepsSessions
<1>6. ASSUME UNCHANGED <<pc, callback, opened, sessions, ended, late>>
      PROVE  SessionInv'
  BY <1>2, <1>6, FlowKeepsSessions DEF Elsewhere
<1>7. ASSUME NEW h \in Handler, NEW kind \in {"session", "logout"}, OpenRequest(h, kind)
      PROVE  SessionInv'
  <2>1. PICK s \in opened :
          /\ callback' = [callback EXCEPT ![h] = s]
          /\ late' = [late EXCEPT ![h] = s \in ended]
    BY <1>7 DEF OpenRequest
  <2>2. /\ pc' = [pc EXCEPT ![h] = kind] /\ UNCHANGED <<sessions, ended, opened>>
    BY <1>7 DEF OpenRequest, Serve, history
  <2>3. late' \in [Handler -> BOOLEAN]
    BY <1>2, <2>1
  <2>4. \A g \in Handler : Arrives(g)'
    BY <1>1, <1>2, <2>1, <2>2 DEF Arrives
  <2>5. QED
    BY <1>2, <2>2, <2>3, <2>4 DEF SessionInv
<1>8. ASSUME NEW h \in Handler, CurrentSession(h)
      PROVE  SessionInv'
  <2>1. /\ pc[h] = "session" /\ pc' = [pc EXCEPT ![h] = "serve"] /\ callback[h] \in sessions
        /\ UNCHANGED <<callback, opened, sessions, ended, late>>
    BY <1>8 DEF CurrentSession, Serve, history
  <2>2. ~late[h]
    BY <1>2, <2>1 DEF Arrives
  <2>3. \A g \in Handler : Arrives(g)'
    BY <1>1, <1>2, <2>1, <2>2 DEF Arrives
  <2>4. QED
    BY <1>2, <2>1, <2>3 DEF SessionInv
<1>9. ASSUME NEW h \in Handler, NoSession(h) \/ ServeSession(h)
      PROVE  SessionInv'
  <2>1. /\ Respond(h) /\ UNCHANGED <<opened, sessions, ended, late>>
    BY <1>9 DEF NoSession, ServeSession, history
  <2>2. \A g \in Handler : Elsewhere(g)
    BY <1>1, <2>1 DEF Respond, Elsewhere
  <2>3. QED
    BY <1>2, <2>1, <2>2, FlowKeepsSessions
<1>10. ASSUME NEW h \in Handler, Logout(h)
       PROVE  SessionInv'
  <2>1. /\ pc[h] = "logout" /\ sessions' = sessions \ {callback[h]}
        /\ ended' = ended \cup {callback[h]} /\ UNCHANGED <<opened, late>>
        /\ pc' = [pc EXCEPT ![h] = "idle"]
        /\ callback' = [callback EXCEPT ![h] = NoCallback]
    BY <1>10 DEF Logout, Respond, history
  <2>2. callback[h] \in opened
    BY <1>2, <2>1 DEF Arrives
  <2>3. \A g \in Handler : Arrives(g)'
    BY <1>1, <1>2, <2>1 DEF Arrives
  <2>4. QED
    BY <1>2, <2>1, <2>2, <2>3 DEF SessionInv
<1>11. CASE LockedRestart
  <2>1. /\ sessions' = {} /\ ended' = opened /\ UNCHANGED <<opened, late>>
        /\ pc' = [h \in Handler |-> "idle"]
    BY <1>11 DEF LockedRestart, Restart, history
  <2>2. QED
    BY <1>2, <2>1 DEF SessionInv, Arrives
<1>12. ASSUME NEW h \in Handler, Step(h)
       PROVE  SessionInv'
  <2>1. ASSUME NEW goroutine \in Goroutine, Lock(h, goroutine)
        PROVE  SessionInv'
    BY <1>6, <2>1 DEF Lock, vars, handlerVars, history
  <2>2. QED
    BY <1>3, <1>5, <1>8, <1>9, <1>10, <1>12, <2>1 DEF Step
<1>13. CASE Surroundings
  <2>1. ASSUME NEW l \in Login, NEW c \in Client, BeginLogin(l, c),
               UNCHANGED <<sessions, ended, late>>
        PROVE  SessionInv'
    BY <1>6, <2>1 DEF BeginLogin, handlerVars, history
  <2>2. ASSUME NEW l \in Login, NEW c \in Code, UNCHANGED <<sessions, ended, late>>,
               Authorize(l, c) \/ \E entered \in BOOLEAN : SignIn(l, c, entered)
        PROVE  SessionInv'
    BY <1>6, <2>2 DEF Authorize, SignIn, handlerVars
  <2>3. ASSUME ChangePIN \/ Tick, UNCHANGED <<sessions, ended, late>>
        PROVE  SessionInv'
    BY <1>6, <2>3 DEF ChangePIN, Tick, handlerVars, history
  <2>4. QED
    BY <1>3, <1>4, <1>7, <1>13, <2>1, <2>2, <2>3 DEF Surroundings
<1>14. CASE UNCHANGED lockedVars
  BY <1>6, <1>14 DEF lockedVars, lockVars, vars, handlerVars, history
<1>. QED
  BY <1>11, <1>12, <1>13, <1>14 DEF LockedNext

\* A request that arrives after the logout of its session was answered, or
\* after a restart, is not served, whatever runs meanwhile.
THEOREM FinalLogout == LockedSpec => []LogoutIsFinal
<1>1. LockedInit => SignOnInv /\ SessionInv
  BY SignOnInit DEF LockedInit, Init, Idle, SessionInv, Arrives
<1>2. SignOnInv /\ SessionInv /\ [LockedNext]_lockedVars => (SignOnInv /\ SessionInv)'
  BY LockedStep, SessionStep
<1>3. SessionInv => LogoutIsFinal
  BY DEF SessionInv, Arrives, LogoutIsFinal
<1>. QED
  BY <1>1, <1>2, <1>3, PTL DEF LockedSpec
=============================================================================
