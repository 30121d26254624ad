------------------------------- MODULE SignOn -------------------------------
(***************************************************************************)
(* The authorization code flow between the provider and its clients: the   *)
(* demo applications and the protected proxy, which run in its process and *)
(* keep states and sessions in the memory they share with it, and external *)
(* registered clients, which are only seen by what they request.           *)
(*                                                                         *)
(* A login attempt draws a state, a nonce and a verifier; all three are    *)
(* the attempt here.  The browser may open any of its URLs again, in any   *)
(* tab and order.  A handler serves one callback at a time and calls the   *)
(* token endpoint of its own server; each critical section of store.mu is  *)
(* one step.  The server may restart.                                      *)
(***************************************************************************)
EXTENDS Naturals, FiniteSets

CONSTANTS
  Client,
  Demo,           \* the demo applications: they share one map of states
  External,       \* the registered clients, which run elsewhere
  Login, Code, Handler,
  CodeLifetime, TokenLifetime,
  MaxTime, MaxRestarts, MaxChanges,   \* bounds
  NoClient,       \* of a login attempt that has not begun
  NoLogin, NoCode, NoToken

ASSUME SignOnAssumption ==
  /\ Demo \subseteq Client /\ External \subseteq Client \ Demo
  /\ NoClient \notin Client
  /\ NoLogin \notin Login /\ NoCode \notin Code
  /\ CodeLifetime \in Nat /\ TokenLifetime \in Nat \ {0}
  /\ MaxTime \in Nat /\ MaxRestarts \in Nat /\ MaxChanges \in Nat

VARIABLES
  now, restarts, changes,
  pin,       \* the profile on disk has a PIN
  required,  \* the profile that was loaded at the start has one
  signedIn,  \* the browser's cookie names a provider session
  begun,     \* the client each login attempt began at
  pending,   \* the attempts whose state is kept
  codes,     \* the codes that are kept: [id, login, expiresAt]
  issuedFor, \* history: the attempt each code was issued for
  pc,        \* of each handler: "idle", "state", "exchange", "redeem", "verify"
  callback,  \* the callback it serves: [client, login, code]
  taken,     \* the code its token request took out
  token,     \* the ID token it received: [code, client, login, exp]
  redeemed,  \* history: how often each code was redeemed
  opened,    \* history: the sessions that were opened: [client, login, code]
  signIn     \* history: the last sign-in, [pin, entered]

serverVars == <<signedIn, pending, codes>>
handlerVars == <<pc, callback, taken, token>>
history == <<issuedFor, redeemed, opened, signIn>>
vars == <<now, restarts, changes, pin, required, begun, serverVars, handlerVars, history>>

NoCallback == [client |-> NoClient, login |-> NoLogin, code |-> NoCode]

Idle ==
  /\ pc = [h \in Handler |-> "idle"]
  /\ callback = [h \in Handler |-> NoCallback]
  /\ taken = [h \in Handler |-> NoCode]
  /\ token = [h \in Handler |-> NoToken]

Init ==
  /\ now = 0 /\ restarts = 0 /\ changes = 0
  /\ pin \in BOOLEAN /\ required = pin
  /\ signedIn = FALSE
  /\ begun = [l \in Login |-> NoClient]
  /\ pending = {} /\ codes = {}
  /\ Idle
  /\ issuedFor = [c \in Code |-> NoLogin]
  /\ redeemed = [c \in Code |-> 0]
  /\ opened = {}
  /\ signIn = [pin |-> FALSE, entered |-> FALSE]

(***************************************************************************)
(* /login of a client, /authorize and /login of the provider               *)
(***************************************************************************)
BeginLogin(l, c) ==
  /\ begun[l] = NoClient
  /\ begun' = [begun EXCEPT ![l] = c]
  /\ pending' = IF c \in External THEN pending ELSE pending \cup {l}
  /\ UNCHANGED <<now, restarts, changes, pin, required, signedIn, codes, handlerVars, history>>

IssueCode(l, c) ==
  /\ begun[l] # NoClient
  /\ issuedFor[c] = NoLogin
  /\ issuedFor' = [issuedFor EXCEPT ![c] = l]
  /\ codes' = codes \cup {[id |-> c, login |-> l, expiresAt |-> now + CodeLifetime]}

\* The browser has a provider session: no form, no PIN.
Authorize(l, c) ==
  /\ signedIn
  /\ IssueCode(l, c)
  /\ UNCHANGED <<now, restarts, changes, pin, required, begun, signedIn, pending, handlerVars,
                 redeemed, opened, signIn>>

SignIn(l, c, entered) ==
  /\ required => entered
  /\ IssueCode(l, c)
  /\ signedIn' = TRUE
  /\ signIn' = [pin |-> pin, entered |-> entered]
  /\ UNCHANGED <<now, restarts, changes, pin, required, begun, pending, handlerVars, redeemed, opened>>

(***************************************************************************)
(* /callback of a client and /token of the provider                        *)
(***************************************************************************)
Serve(h, from, to) == pc[h] = from /\ pc' = [pc EXCEPT ![h] = to]

Respond(h) ==
  /\ pc' = [pc EXCEPT ![h] = "idle"]
  /\ callback' = [callback EXCEPT ![h] = NoCallback]
  /\ taken' = [taken EXCEPT ![h] = NoCode]
  /\ token' = [token EXCEPT ![h] = NoToken]

\* The state and the code of the query need not be of one attempt.
OpenCallback(h) ==
  /\ Serve(h, "idle", "state")
  /\ \E client \in Client \ External, login \in {l \in Login : begun[l] # NoClient},
        code \in {c \in Code : issuedFor[c] # NoLogin} :
       callback' = [callback EXCEPT ![h] = [client |-> client, login |-> login, code |-> code]]
  /\ UNCHANGED <<now, restarts, changes, pin, required, begun, serverVars, taken, token, history>>

\* An external client sends a token request, perhaps not for the first time.
RequestToken(h) ==
  /\ Serve(h, "idle", "exchange")
  /\ \E login \in {l \in Login : begun[l] \in External},
        code \in {c \in Code : issuedFor[c] # NoLogin} :
       callback' = [callback EXCEPT ![h] =
         [client |-> begun[login], login |-> login, code |-> code]]
  /\ UNCHANGED <<now, restarts, changes, pin, required, begun, serverVars, taken, token, history>>

\* The attempt is in the map of states that the client of the callback reads.
KnowsState(h) ==
  LET owner == begun[callback[h].login]
  IN  /\ callback[h].login \in pending
      /\ owner = callback[h].client \/ {owner, callback[h].client} \subseteq Demo

\* Faulty variant: the state stays in the map.
TakeStateKeeping(h) ==
  /\ Serve(h, "state", "exchange")
  /\ KnowsState(h) /\ begun[callback[h].login] = callback[h].client
  /\ UNCHANGED <<now, restarts, changes, pin, required, begun, serverVars, callback, taken, token, history>>

TakeState(h) ==
  /\ Serve(h, "state", "exchange")
  /\ KnowsState(h) /\ begun[callback[h].login] = callback[h].client
  /\ pending' = pending \ {callback[h].login}
  /\ UNCHANGED <<now, restarts, changes, pin, required, begun, signedIn, codes,
                 callback, taken, token, history>>

\* A demo application takes the state of the other one out before it sees
\* that it is not its own.
InvalidState(h) ==
  /\ pc[h] = "state"
  /\ KnowsState(h) => begun[callback[h].login] # callback[h].client
  /\ pending' = IF KnowsState(h) THEN pending \ {callback[h].login} ELSE pending
  /\ Respond(h)
  /\ UNCHANGED <<now, restarts, changes, pin, required, begun, signedIn, codes, history>>

\* Faulty variant: the code stays in the map until it has passed the checks.
TakeCodeKeeping(h) ==
  /\ Serve(h, "exchange", "redeem")
  /\ \E c \in codes : c.id = callback[h].code /\ taken' = [taken EXCEPT ![h] = c]
  /\ UNCHANGED <<now, restarts, changes, pin, required, begun, serverVars, callback, token, history>>

TakeCode(h) ==
  /\ Serve(h, "exchange", "redeem")
  /\ \E c \in codes :
       /\ c.id = callback[h].code
       /\ taken' = [taken EXCEPT ![h] = c]
       /\ codes' = codes \ {c}
  /\ UNCHANGED <<now, restarts, changes, pin, required, begun, signedIn, pending, callback, token, history>>

\* Faulty variant: the verifier is not compared with the challenge.
RedeemableUnbound(h) ==
  now <= taken[h].expiresAt /\ begun[taken[h].login] = callback[h].client

\* The code has not expired, was issued to this client, and its challenge is
\* of the verifier that was kept with the state.
Redeemable(h) ==
  /\ now <= taken[h].expiresAt
  /\ begun[taken[h].login] = callback[h].client
  /\ taken[h].login = callback[h].login

Redeem(h) ==
  /\ Serve(h, "redeem", "verify")
  /\ Redeemable(h)
  /\ token' = [token EXCEPT ![h] =
       [code |-> taken[h].id, client |-> begun[taken[h].login],
        login |-> taken[h].login, exp |-> now + TokenLifetime]]
  /\ redeemed' = [redeemed EXCEPT ![taken[h].id] = @ + 1]
  /\ UNCHANGED <<now, restarts, changes, pin, required, begun, serverVars, callback, taken,
                 issuedFor, opened, signIn>>

\* validateIDTokenClaims: audience, nonce and expiry
TokenIsValid(h) ==
  /\ token[h].client = callback[h].client
  /\ token[h].login = callback[h].login
  /\ now < token[h].exp

OpenSession(h) ==
  /\ pc[h] = "verify" /\ callback[h].client \notin External
  /\ TokenIsValid(h)
  /\ opened' = opened \cup {[client |-> callback[h].client, login |-> callback[h].login,
                             code |-> token[h].code]}
  /\ Respond(h)
  /\ UNCHANGED <<now, restarts, changes, pin, required, begun, serverVars, issuedFor, redeemed, signIn>>

AnswerExternal(h) ==
  /\ pc[h] = "verify" /\ callback[h].client \in External
  /\ Respond(h)
  /\ UNCHANGED <<now, restarts, changes, pin, required, begun, serverVars, history>>

Refuse(h) ==
  /\ \/ pc[h] = "exchange" /\ \A c \in codes : c.id # callback[h].code
     \/ pc[h] = "redeem" /\ ~Redeemable(h)
     \/ pc[h] = "verify" /\ callback[h].client \notin External /\ ~TokenIsValid(h)
  /\ Respond(h)
  /\ UNCHANGED <<now, restarts, changes, pin, required, begun, serverVars, history>>

\* The request to the token endpoint fails, before or after it was handled.
ExchangeFails(h) ==
  /\ pc[h] \in {"exchange", "redeem", "verify"}
  /\ Respond(h)
  /\ UNCHANGED <<now, restarts, changes, pin, required, begun, serverVars, history>>

(***************************************************************************)
(* The server, its operator and the clock                                  *)
(***************************************************************************)
Restart ==
  /\ restarts < MaxRestarts
  /\ restarts' = restarts + 1
  /\ required' = pin
  /\ signedIn' = FALSE /\ pending' = {} /\ codes' = {}
  /\ pc' = [h \in Handler |-> "idle"]
  /\ callback' = [h \in Handler |-> NoCallback]
  /\ taken' = [h \in Handler |-> NoCode]
  /\ token' = [h \in Handler |-> NoToken]
  /\ UNCHANGED <<now, changes, pin, begun, history>>

\* user set-pin and user clear-pin write the profile on disk.
ChangePIN ==
  /\ changes < MaxChanges
  /\ changes' = changes + 1
  /\ pin' = ~pin
  /\ UNCHANGED <<now, restarts, required, begun, serverVars, handlerVars, history>>

Tick ==
  /\ now < MaxTime
  /\ now' = now + 1
  /\ UNCHANGED <<restarts, changes, pin, required, begun, serverVars, handlerVars, history>>

HandlerStep(h) ==
  \/ TakeState(h) \/ InvalidState(h) \/ TakeCode(h) \/ Redeem(h)
  \/ OpenSession(h) \/ AnswerExternal(h) \/ Refuse(h)

Next ==
  \/ \E l \in Login, c \in Client : BeginLogin(l, c)
  \/ \E l \in Login, c \in Code :
       Authorize(l, c) \/ \E entered \in BOOLEAN : SignIn(l, c, entered)
  \/ \E h \in Handler : OpenCallback(h) \/ RequestToken(h) \/ HandlerStep(h) \/ ExchangeFails(h)
  \/ Restart \/ ChangePIN \/ Tick

Spec == Init /\ [][Next]_vars

-----------------------------------------------------------------------------
(***************************************************************************)
(* Properties                                                              *)
(***************************************************************************)
\* "Authorization codes are one-time use" (docs/security-boundaries.md),
\* whichever callbacks and token requests run at the same time.
CodesAreOneTime == \A c \in Code : redeemed[c] <= 1

\* A login attempt opens at most one session, however often its callback is
\* opened and however many codes were issued for it.
OneSessionPerLogin == \A s, t \in opened : s.login = t.login => s = t

\* A token is only made for the client that began the attempt and for the
\* attempt that the code was issued for, also when tabs mix up their states
\* and codes; and so is every session.
TokensAreOwn ==
  /\ \A h \in Handler : pc[h] = "verify" =>
       /\ issuedFor[token[h].code] = callback[h].login
       /\ begun[callback[h].login] = callback[h].client
  /\ \A s \in opened : issuedFor[s.code] = s.login /\ begun[s.login] = s.client

\* "When configured, the login screen requires a local PIN before creating
\* the provider session" (docs/security-boundaries.md).
PINIsRequired == signIn.pin => signIn.entered
=============================================================================
