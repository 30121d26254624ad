---------------------------- MODULE SignOnLocks -----------------------------
(***************************************************************************)
(* SignOn with the mutex of the server's memory, store.mu, and with what   *)
(* the applications and the proxy do with a session: use it and log out.   *)
(*                                                                         *)
(* A Go mutex is not re-entrant and has no owner: whoever locks it waits   *)
(* until it is free.  A callback asks the token endpoint of its own        *)
(* process, so the handler of a callback is two goroutines, of which one   *)
(* waits for the other.  The sections that look up and delete are two      *)
(* steps, Lock and the rest; one that is a single access is one step that  *)
(* needs the mutex free.                                                   *)
(***************************************************************************)
EXTENDS SignOn

CONSTANT Free   \* nobody holds the mutex

VARIABLES
  mu,        \* who holds store.mu: <<handler, goroutine>>
  sessions,  \* the sessions that are kept, some of those that were opened
  ended,     \* history: the sessions whose logout was answered, or that a restart lost
  late       \* history: the request of the handler arrived after its session ended

Goroutine == {"callback", "token"}
lockVars == <<mu, sessions, ended, late>>
lockedVars == <<vars, lockVars>>

LockedInit ==
  /\ Init
  /\ mu = Free
  /\ sessions = {} /\ ended = {}
  /\ late = [h \in Handler |-> FALSE]

(***************************************************************************)
(* The mutex                                                               *)
(***************************************************************************)
Lock(h, goroutine) ==
  /\ pc[h] = IF goroutine = "callback" THEN "state" ELSE "exchange"
  /\ mu = Free
  /\ mu' = <<h, goroutine>>
  /\ UNCHANGED <<vars, sessions, ended, late>>

Unlock(h, goroutine) == mu = <<h, goroutine>> /\ mu' = Free

\* A section of one access.
Alone == mu = Free /\ UNCHANGED mu

\* A step that does not touch the server's memory.
Outside == UNCHANGED mu

(***************************************************************************)
(* The handlers of SignOn, with their sections                             *)
(***************************************************************************)
\* Faulty variant: the mutex is held until the callback returns.
StateSectionHolding(h) ==
  mu = <<h, "callback">> /\ UNCHANGED mu /\ (TakeState(h) \/ InvalidState(h))

StateSection(h) == Unlock(h, "callback") /\ (TakeState(h) \/ InvalidState(h))

CodeSection(h) ==
  /\ Unlock(h, "token")
  /\ TakeCode(h) \/ (pc[h] = "exchange" /\ Refuse(h))

TokenSection(h) == Alone /\ Redeem(h)

OpenSessionSection(h) ==
  /\ Alone
  /\ OpenSession(h)
  /\ sessions' = sessions \cup (opened' \ opened)

RefuseOutside(h) == Outside /\ pc[h] # "exchange" /\ Refuse(h)

\* The transport fails while the token endpoint is not in its section.
ExchangeFailsOutside(h) == mu # <<h, "token">> /\ Outside /\ ExchangeFails(h)

(***************************************************************************)
(* Requests with a session cookie                                          *)
(***************************************************************************)
\* Any session whose cookie the browser was ever sent.
OpenRequest(h, kind) ==
  /\ Serve(h, "idle", kind)
  /\ \E s \in opened :
       /\ callback' = [callback EXCEPT ![h] = s]
       /\ late' = [late EXCEPT ![h] = s \in ended]
  /\ UNCHANGED <<mu, sessions, ended>>
  /\ UNCHANGED <<now, restarts, changes, pin, required, begun, serverVars, taken, token, history>>

\* currentSession: the session is read under the mutex and used after it.
CurrentSession(h) ==
  /\ Alone
  /\ callback[h] \in sessions
  /\ Serve(h, "session", "serve")
  /\ UNCHANGED <<sessions, ended, late>>
  /\ UNCHANGED <<now, restarts, changes, pin, required, begun, serverVars, callback, taken, token, history>>

\* No session: the proxy redirects to the login, an application shows its link.
NoSession(h) ==
  /\ Alone
  /\ pc[h] = "session" /\ callback[h] \notin sessions
  /\ Respond(h)
  /\ UNCHANGED <<sessions, ended, late>>
  /\ UNCHANGED <<now, restarts, changes, pin, required, begun, serverVars, history>>

ServeSession(h) ==
  /\ Outside
  /\ pc[h] = "serve"
  /\ Respond(h)
  /\ UNCHANGED <<sessions, ended, late>>
  /\ UNCHANGED <<now, restarts, changes, pin, required, begun, serverVars, history>>

\* Faulty variant: only the cookie is cleared.
LogoutKeeping(h) ==
  /\ Alone
  /\ pc[h] = "logout"
  /\ ended' = ended \cup {callback[h]}
  /\ Respond(h)
  /\ UNCHANGED <<sessions, late>>
  /\ UNCHANGED <<now, restarts, changes, pin, required, begun, serverVars, history>>

Logout(h) ==
  /\ Alone
  /\ pc[h] = "logout"
  /\ sessions' = sessions \ {callback[h]}
  /\ ended' = ended \cup {callback[h]}
  /\ Respond(h)
  /\ UNCHANGED late
  /\ UNCHANGED <<now, restarts, changes, pin, required, begun, serverVars, history>>

-----------------------------------------------------------------------------
LockedRestart ==
  /\ Restart
  /\ mu' = Free /\ sessions' = {} /\ ended' = opened
  /\ UNCHANGED late

Step(h) ==
  \/ \E goroutine \in Goroutine : Lock(h, goroutine)
  \/ OpenSessionSection(h) /\ UNCHANGED <<ended, late>>
  \/ /\ \/ StateSection(h) \/ CodeSection(h) \/ TokenSection(h) \/ RefuseOutside(h)
        \/ Outside /\ AnswerExternal(h)
     /\ UNCHANGED <<sessions, ended, late>>
  \/ CurrentSession(h) \/ NoSession(h) \/ ServeSession(h) \/ Logout(h)

Surroundings ==
  \/ /\ \/ /\ Alone
           /\ \/ \E l \in Login, c \in Client : BeginLogin(l, c)
              \/ \E l \in Login, c \in Code :
                   Authorize(l, c) \/ \E entered \in BOOLEAN : SignIn(l, c, entered)
        \/ \E h \in Handler : ExchangeFailsOutside(h)
        \/ Outside /\ (ChangePIN \/ Tick)
     /\ UNCHANGED <<sessions, ended, late>>
  \/ \E h \in Handler :
       \/ OpenRequest(h, "session") \/ OpenRequest(h, "logout")
       \/ /\ Outside /\ (OpenCallback(h) \/ RequestToken(h))
          /\ late' = [late EXCEPT ![h] = FALSE]
          /\ UNCHANGED <<sessions, ended>>

LockedNext == (\E h \in Handler : Step(h)) \/ Surroundings \/ LockedRestart

\* A goroutine that can run does, and one that waits for the mutex gets it: a
\* Go mutex hands itself to a goroutine that has waited for a millisecond.
LockedSpec ==
  /\ LockedInit /\ [][LockedNext]_lockedVars
  /\ \A h \in Handler : SF_lockedVars(Step(h))

-----------------------------------------------------------------------------
(***************************************************************************)
(* Properties                                                              *)
(***************************************************************************)
\* No handler waits for ever for the mutex or for an answer of its own server:
\* nobody holds store.mu while it waits for the token endpoint (callback of the
\* proxy and of the demo applications), and every early return has released it.
EveryHandlerReturns == \A h \in Handler : pc[h] # "idle" ~> pc[h] = "idle"

\* A request that arrives after the logout of its session was answered, or after
\* a restart, is not served, whatever other requests, logins and logouts run
\* meanwhile (logout and currentSession).
LogoutIsFinal == \A h \in Handler : pc[h] = "serve" => ~late[h]
=============================================================================
