---------------------------- MODULE MCSignOnLocks ---------------------------
(***************************************************************************)
(* SignOnLocks with an application, the proxy and an external client, one  *)
(* login attempt with one code, and two handlers, each of which serves any *)
(* number of requests.                                                     *)
(***************************************************************************)
EXTENDS SignOnLocks

CONSTANTS app, proxy, external, l1, c1, h1, h2

Clients == {app, proxy, external}
Demos == {app}
Externals == {external}
Logins == {l1}
Codes == {c1}
Handlers == {h1, h2}
=============================================================================
