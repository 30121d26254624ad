# AnyAuth verification

TLA+ models of AnyAuth, the local identity provider and authorization service
for agents: what its components keep, what their operations do to it, in which
orders threads, processes and requests may interleave, and what must hold all
the same. The models are checked with TLC on small instances, and their safety
properties and refinements are proved with TLAPS for every value of the
constants. `PROJECT.json` says which lines of the code each definition stands
for, lists the runs, and lists the hazards of the code with the properties that
watch them.

To check a run, in this directory: `tlc -config MCAuthzStore.cfg MCAuthzStore`.
To check the proofs: `tlapm AccessCheckProofs.tla`, and so for each of the eight
modules named `*Proofs` (`EvaluatorProofs` and `DataDirectoryProofs` take some
minutes).

## 1. The system

One `anyauth` binary is both a server and a command line. Everything it keeps
is a set of JSON files in one directory, which the server and any number of
commands open independently, and some maps in the memory of the server.

| component | state | operations | properties that make it correct |
|---|---|---|---|
| decision (`internal/authz/model.go`, `evaluate.go`) | none: a function of grants, a request and a time | validate grants and chains; `Evaluate` | terminates on any file; the decision is the one the grants define; a derived grant never exceeds its ancestors; a revocation only removes authority |
| store (`internal/authzstore/store.go`) | `authorization.json`: applications, requests, grants; a mutex per process | add, create, decide, revoke, list | allow is the human's consent; decisions and revocations are final; the file always loads; what was acknowledged stays |
| evaluation (`internal/authz/service.go`, handler in `internal/localdev/authorization.go`) | audit log | `POST /access/v1/evaluation` | the answer was recorded; settled revocations and approvals are honoured |
| request and approval pages (`internal/localdev/authorization.go`) | none of their own | create a request, approve, deny, revoke | as the store, with times sampled before its mutex |
| agents (`internal/agentregistry`) | `agents.json` | add, remove, list | an unregistered agent is refused; a command did what it answers |
| delegations (`internal/delegation`) | `delegations.json`, signed tokens in users' hands | create, revoke, validate | a token ends with its record, its agent, its time |
| policies (`internal/policy`) | `policies.json` | add, remove, evaluate | the documented verdict, independent of the order in the file |
| provider (`internal/localdev/server.go`) | in memory: provider sessions, authorization codes; the profile it loaded | sign in, authorize, token, userinfo, logout | a code works once, for its client; a PIN that is configured is asked for |
| demo applications and protected proxy (`internal/localdev/server.go`) | in memory: login attempts, sessions | login, callback, proxy, logout | one session per login attempt, from its own code; no request is forwarded without authority; a logout ends its session |
| profile (`internal/userstore`) | `user.json`, PIN hash | set and clear the PIN | a PIN that was reported as set is on disk, whatever fails |
| clients (`internal/clientregistry`) | `clients.json` | add, list | as the other registries |
| audit log (`internal/auditlog`) | an append-only file | append, list | a decision that was answered is in it; it tells no untruth; a list hides nothing |
| keys and JWT (`internal/jose`) | the key file | load or create, sign, verify | one key for disk, server and tokens |
| commands (`cmd/anyauth`) | none | the operations above, from another process | as the files they change |

How they meet:

- HTTP handlers run concurrently in the server. The store's mutex orders their
  operations on `authorization.json`; `store.mu` orders their accesses to codes,
  login attempts and sessions. The registries have no lock.
- A command is another process: no mutex covers it and the server, only the
  rename that ends each save.
- The evaluation handler reads agents, the application and the grants in three
  loads, samples the clock after the third and appends to the audit log before
  it answers. The proxy samples the clock first and then reads delegations,
  agents and policies.
- The demo applications and the proxy are clients of the provider that runs in
  the same process: a callback makes an HTTP request to its own server.
- The provider reads the key, the profile and the clients once, at its start.
  `delegate create` reads agents, profile and key, in this order, before it loads
  the delegations; it makes the key when there is none, as the server does.
- The delegate commands and the proxy append to the audit log last and go on when
  the append fails.

What is hard: two decisions of one request; times sampled before the lock they
are used under; a decision made of several loads; errors and kills between the
opening of a temporary file and its rename; two processes that save; codes and
callbacks that are repeated, swapped between tabs, or cut off by a restart; a
callback that waits for its own server; a logout beside requests of its session;
a key and a log that are written in place;
boundaries at which a time, a whole second or an empty list of rules changes
the answer; climbs along parents that a file may make circular.

## 2. The modules

| module | models | uses |
|---|---|---|
| `Authz` | grants, their validation, activity, and the decision, as pure definitions by sets | |
| `Evaluator` | `authz.Evaluate` as the loop it is, one action per iteration | `Authz` |
| `AuthzFile` | `authorization.json`: its validation, and what each operation makes of it | `Authz` |
| `AuthzStore` | what the store promises: atomic operations on the file | `AuthzFile` |
| `StoreProcess` | the store as it runs: threads, mutex, temporary file, rename, write errors, kills; implements `AuthzStore` | `AuthzFile`, `AuthzStore` |
| `AccessCheck` | the evaluation endpoint racing with the store and the agent registry | `AuthzStore` |
| `Policy`, `PolicyEngine` | matching, order and verdict of rules; the loop that reaches the verdict | |
| `Delegation` | the delegate commands, the records and the tokens | |
| `ProtectedProxy` | a request with a delegation token through the proxy, racing with the commands | `Delegation`, `Policy` |
| `SignOn` | sign-in, codes, token endpoint, callbacks, restarts | |
| `SignOnLocks` | `SignOn` with `store.mu` as a mutex, the use of sessions and logout | `SignOn` |
| `Commands` | what each command makes of its registry, as pure definitions | |
| `CommandLine` | what a command promises its caller | `Commands` |
| `DataDirectory` | commands and server on the files of the data directory: registries, key, audit log; implements `CommandLine` | `Commands`, `CommandLine` |
| `AuthzFileProofs` | lemmas about grants, their validation, lineages and the decision | `AuthzFile` |
| `EvaluatorProofs`, `StoreProcessProofs` | theorems about `Evaluator` and `StoreProcess` | `AuthzFileProofs` |
| `AccessCheckProofs` | theorems about `AuthzStore`, then about `AccessCheck` | `AuthzFileProofs` |
| `PolicyEngineProofs`, `ProtectedProxyProofs`, `DataDirectoryProofs` | theorems about these; the second covers `Delegation` | |
| `SignOnProofs` | theorems about `SignOn` and `SignOnLocks` | |
| `MC*` | small instances for TLC | |

Definitions keep the names of the code where TLA+ allows it (`ValidDerivedGrant`
is `validateDerivedGrant`, `DecideRequest`, `RevokeGrant`, ...). A definition
that is introduced as a *faulty variant* is the definition below it with one
coding mistake; nothing in the specifications uses it. `PROJECT.json` names, for
each property of each run, the variant that breaks it.

### Authz and Evaluator

`ValidGrantSet` is the checking `Evaluate` does before it looks at anything:
each grant, unique ids, attenuation along each link (`ValidDerivedGrant`), no
cycles. `Evaluate` defines the decision without a loop: the grants that match
actor, subject and application, those of them that give the permission, the
least set closed under parents as the lineage, and the order of ids only where
the code's answer depends on it (which grant or which reason is named).

`Evaluator` is the loop. `input` is the call; `phase`, `todo`, `at` and `chain`
are where the loop is; `candidate`, `permission` and `inactive` are the
variables of `Evaluate` that the denial at the end is made of. `Accept` and
`Reject` are the validation, `SkipOther`, `SkipPermission` and `SkipTask` the
`continue`s, `StartClimb`, `Climb`, `Blocked` and `ReachRoot` the walk of
`activeChain`, `Conclude` the end of the function. Grant ids are numbers
because the code sorts by id; all other names are opaque.

### AuthzFile, AuthzStore and StoreProcess

A file is a record of three sets: ids are unique and `normalizeFile` only sorts,
so lists lose nothing by being sets. `ValidFile` is `validateFile` with its
cross checks. Each operation has a definition of when it goes through (`Accepts`,
the early returns) and of its result (`Result`). `Calls(file, at)` are the calls
that handlers and commands make, at a time `at` they sampled: an
authorization request is created by `create`, decided by `approve` or `deny`
(a late decision becomes `expired`, as in the code), a grant is revoked.

`AuthzStore` changes the file by one call at a time, all or nothing; the time
of a call was sampled at any earlier instant, because the callers sample before
they enter the store. `Tick` advances the clock.

`StoreProcess` has threads in processes. `pc` is where the thread is: `Begin`
samples the time, `Lock` takes the mutex of its process, `Load` reads and decides
(`Refuse` is every early return: a file that does not decode or validate, a call
that is not accepted, a result that validation refuses), `Open` creates or
truncates `authorization.json.tmp`, `Write` writes all of it, `WriteFails` leaves
garbled bytes in it and returns the error, `Rename` publishes, `SystemError` is
any other system call that fails. `fd` says which file the bytes reach: the
temporary file, the published one if somebody else's rename moved it there, or
one that has lost its name. `Kill` ends a process at any step and leaves the disk
as it is.

`AuthzStore` is the specification `StoreProcess` is held to: `INSTANCE
AuthzStore WITH file <- FileOf(disk)`, where a missing file is an empty one. A
`Rename` is a step of the abstract store; everything else is a stutter or a tick.

### AccessCheck

`pc` follows `accessEvaluation` and `Authorizer.Check`: `LoadAgents`,
`CheckDeclared`, `ListGrants`, `EvaluateGrants` (which samples the clock),
`Record`, `Respond`, with `Refuse` for the answers without a decision and `Fail`
for a read or the append that fails. Between any two steps the store of
`AuthzStore`, the agent registry and the clock move on. `began` and `atList` are
history: the grants and the time when the check began, and whether the file
allowed the request when it was listed.

### Policy and PolicyEngine

A rule is an effect with methods, a path prefix, an agent and scopes. A path is
the sequence of its segments and `SegmentLength` gives their lengths in
bytes, as the code orders rules by the length of the prefix in bytes
(`PathLength` counts them: the slash of each segment and its name). `ValidRules`
is `validateAll`. `FirstRule` is
the order in which the loop meets rules, `PolicyDecision` the decision defined by
sets, `Permitted` the verdict the documentation gives. `PolicyEngine` is the
loop: `Skip`, `Decide`, `LackScopes` are one iteration, `AllowWithoutRules` and
`DenyUnmatched` its two ends.

### Delegation and ProtectedProxy

`records` is `delegations.json`. A command loads (`LoadRecords`), changes its
copy and saves (`SaveCreated`, `SaveRevoked`), with a step between; `Abandon` is a
command that fails, is killed or finds nothing to do. A token keeps whole
seconds and a record keeps fractions: instants are counted in `1/Second`-ths and
`TokenOf` truncates. `minted` and `revoked` are history, counted from the save,
before the command prints anything; so they contain every token that was handed
out and every revocation that was reported.

`ProtectedProxy` follows a request through `ValidateToken` and the policies:
`Arrive` samples the time, then `CheckClaims`, `CheckRecord`, `CheckAgent`,
`Decide`; `Refuse` and `Fail` are the early returns. `ended` is history: the
delegations that had expired or whose revocation was saved when the request
arrived. The agent registry and the policies change in one step.

### SignOn

The browser may begin any login attempt (`BeginLogin`), follow it to the
provider (`Authorize` with a provider session, `SignIn` with or without the PIN
the provider asks for) and open any combination of a client, a state and a code
as a callback, any number of times (`OpenCallback`). A handler of the callback
consumes the state (`TakeState`), asks the token endpoint (`TakeCode`, `Redeem`),
verifies the token (`OpenSession`) and answers; `Refuse` are the early returns,
and `ExchangeFails` is a request to the endpoint that fails before or after it was
served. `RequestToken` is the same request from an external client, of which
nothing else is seen. The two demo applications share one map of states, as in
the code. State, nonce and verifier of an attempt are drawn together and
compared separately by the code; here all three are the attempt. `Restart` empties
the memory of the server and loads the profile; `ChangePIN` is a command.

### SignOnLocks

`SignOn` takes each critical section as one step. `SignOnLocks` conjoins its
steps with those of `store.mu`. The handler of a callback is two goroutines, the
callback and the token endpoint it asks; `Lock(h, goroutine)` takes the mutex for
one of them, `StateSection` and `CodeSection` look up, delete and unlock. The
sections of one access (a login attempt, a code, a session or a token stored, a
session read or deleted) are one step, which needs the mutex free (`Alone`);
`Outside` marks steps that do not use it. An HTTP request to the own server ends
only when it is answered or its transport fails, so a callback that kept the
mutex would wait for itself.

`sessions` are the sessions that are kept, of all the browser was ever given
(`opened`). `OpenRequest` is a request with any of these cookies, to the proxy, to
an application, or to `/logout`; `CurrentSession` reads the session,
`ServeSession` uses it after the unlock, `Logout` deletes it. `ended` and `late`
are history: the sessions whose logout was answered, and whether a request
arrived after that. A request that read its session before the logout is served, in the
code and in the model.

### Commands, CommandLine and DataDirectory

A registry is the set of its entries: ids for agents, clients and policies, a PIN
or none for the profile, and the agent and the revocation of each delegation.
`Commands` has the commands, when the code accepts one (`Accepts`: `Add` refuses
an id that exists, `Remove` and `Revoke` one that does not) and its `Result`.

`CommandLine` is the promise: a command changes its registry at one instant or
not at all, success means it did, failure that it did not, and only a command
that dies leaves the caller without knowing. One exception is the code's:
`delegate create` looks at `--format` after it has saved, and fails on an unknown
one (`src/cmd/anyauth/main.go:474`).

`DataDirectory` is the same commands on files. There is a process per registry
that runs one command after the other, and the server; they interleave at every
system call. `Load` decides and computes what to save, `Open`, `Write` and
`Rename` are the save, as in `StoreProcess`; `SystemError` is any of these calls
that fails. `FindAgent` and `VerifyPIN` are the two other registries that
`delegate create` reads, and `UseKey`, `MissKey`, `GenerateKey`, `WriteKey` and
`KeyFails` are `LoadOrCreateRSAKey`, for it and for the server. The key file is
opened in place: an empty one stays after a kill or a full disk, and then neither
the server nor `delegate create` runs until somebody removes it. `AuditCommand` and
`AuditRequest` append an event, a part of a line (`Torn`), or nothing; `AuditList`
is what `audit list` would show now, with the scanner that stops at a line longer than
its buffer. Registries implement `CommandLine` with
`directory <- [r \in Registry |-> Decoded(file[r])]`: the rename is the instant.

## 3. The runs

| run | distinct states | shows |
|---|---|---|
| `evaluator` | 650 000 | The loop terminates and reaches the decision of the definition on every file of up to three grants, valid or not; an allow rests on a chain to a root that gives the authority at every link; revoking any grant never turns a denial into an allow. |
| `store` | 75 000 | After any order of additions, requests, approvals, denials and revocations with times sampled late or early, `Evaluate` allows on the file exactly what was approved, within its lifetime, and not revoked; decisions and revocations are final; no call that an operation accepts is refused by the validation of the save. |
| `store_process` | 144 000 | Two writing threads of the server and a listing command: the file always loads, what was acknowledged or listed stays, and every behaviour is one of the atomic store, through read and write errors and a kill at any step; every call returns, on every error path. |
| `access_check` | 330 000 | An evaluation answers only what it recorded, honours the revocations and approvals that were settled before it began, and allows only what the file allowed when it was listed. |
| `policy_engine` | 13 000 | For every set of at most four of seven rules and 32 requests the loop gives the documented verdict and names the rule of the definition; one more rule changes only what it says. |
| `protected_proxy` | 560 000 | With one delegate command at a time, no request that arrives after the end of its delegation is forwarded, acknowledged commands hold, token and record agree on their time to within a second. |
| `sign_on` | 592 000 | A code is redeemed at most once, a login attempt opens at most one session, and tokens and sessions are only made from the code of their own attempt and client. |
| `sign_on_locks` | 42 000 | No handler waits for ever for `store.mu` or for an answer of its own server, and no request that arrives after a logout was answered, or after a restart, is served with the old session. |
| `data_directory` | 760 000 | With commands on all registries and the server interleaved at each system call, through errors and a kill: what a command answers is what it did; unless two processes make the first key at the same time, disk, server and printed tokens agree on one key; no event of the log tells of a delegation or a revocation that is not on disk; a list that succeeds shows the newest events. |
| `store_process_two_writers` | stops at the violation | finding 1 |
| `protected_proxy_two_commands` | stops at the violation | finding 2 |
| `sign_on_pin` | stops at the violation | finding 3 |

### Bounds, and why they are enough

- `evaluator`: three grants with every combination of links among them, so
  chains of length three, missing parents, and cycles of two and three; two
  resources and the wildcard, two permissions, one task and none, windows that
  have begun or not, ended or not, at the times 1 and 2, revoked or not. A fourth
  grant repeats the step from the second to the third; chains of any length are
  covered by the theorem `AuthorityIsBounded`.
- `store`: two requests and two grants so that one can be confused with the
  other; a permission for one resource, for all, and one the application does
  not declare; `TTL` 1 and a window of two ticks with a clock of 0..4, so that a
  request expires, a decision falls before, at and after its expiry, and a grant
  runs out while another is in force. `MinTTL`, one tick, stands for the code's
  one minute and `Window` for its fifteen minutes. The theorems of section 6
  remove these bounds.
- `store_process`: two writers are the smallest number that can overlap; one
  request and its grant let them approve, deny and revoke against each other;
  one kill is enough to leave any intermediate disk, and the process serves calls
  again afterwards. The clock has two instants, as time matters in `AuthzStore`
  and not to the mutex.
- `access_check`: one check is enough since checks do not affect each other
  (the log only grows); two requests and grants, so that a grant the check read
  may be revoked while another is approved; the asked subject is the local
  human or somebody else, and the asked actor may be unregistered meanwhile.
- `policy_engine`: the pool has an allow and a deny above and below each other
  in the tree, prefixes of equal length, a trailing slash, a prefix that is not
  a segment (`/admin` and `/administrator`), deny with scopes, rules for one agent.
- `protected_proxy`: half seconds (`Second` 2), a lifetime of three of them, so
  that expiry falls on a second or between two; two delegations, so that one
  command may touch the record of the other; one request, as requests do not
  affect each other; one agent and one rule that come and go.
- `sign_on`: two applications that share states and an external client; two
  attempts and two codes, so that they can be crossed; two handlers at a time;
  one tick, after which a code (lifetime 0) has expired and a token (lifetime
  1) too; one restart and one change of the PIN.
- `sign_on_locks`: one attempt and one code, as what a lock does does not depend
  on their number and liveness allows no symmetry (with two of each the run takes
  minutes more and finds the same); an application, the proxy and an external
  client; two handlers, the least that compete, each of which serves any number of
  requests; one restart.
- `data_directory`: one id of each kind, so that every two commands on a registry
  meet in it; three commands, enough to add an agent, create its delegation and
  change a third thing between, or to create a delegation and have two commands
  beside it; one kill, two keys (for the race of two processes that make one), one
  event of the proxy besides those of commands, and `--limit` 1, so that a list is
  cut. The list reads the log at one instant, a prefix of what is appended meanwhile.

Runs with symmetry check safety only. `CHECK_DEADLOCK FALSE` stands in every
configuration because every instance really ends: the clock, the ids, the kills
and the calls are bounded, and the loops return.

### Fairness

- `Evaluator`: weak fairness of the next step; the function runs once called.
- `StoreProcess`: weak fairness of a thread's own steps, and strong fairness of
  `Lock`. A Go mutex enters its starvation mode after a waiter has waited a
  millisecond and then hands the lock to the waiters in order, so that a thread
  that waits while the mutex is free again and again gets it. No thread has
  to begin a call, and `Kill`, `Tick`, `WriteFails` and `SystemError` need never happen.
- `SignOnLocks`: strong fairness of the steps of each handler, for the same reason:
  a handler that waits for `store.mu` finds it free again and again. The steps of a
  handler include those of the token endpoint it asks, which another goroutine
  serves. Browsers, commands, the clock, restarts and failures never have to act.
- All other specifications are safety only.

## 4. Findings

1. **The temporary file is shared by all processes** (`internal/authzstore/store.go:323`,
   run `store_process_two_writers`). The server and a command that save at the
   same time both write `authorization.json.tmp`. One opens, and so empties, the
   file that the other is about to rename: `authorization.json` is published
   empty or half written. `docs/security-boundaries.md:109` says that the store
   "is atomic per write but does not provide cross-process transactions"; the
   writes themselves are not atomic across processes.
2. **A revocation of a delegation can be undone** (`internal/delegation/delegation.go:183`,
   run `protected_proxy_two_commands`). A `delegate create` that loaded before a
   `delegate revoke` saved writes the old record back; the revocation was reported,
   and the proxy forwards requests with the token again.
   `docs/security-boundaries.md:83`: a token can be used "until it expires or is
   revoked".
3. **A PIN is only required after the next start** (`internal/localdev/server.go:230`,
   run `sign_on_pin`). The provider loads the profile once; a PIN that is set
   while it runs is not asked for. `docs/security-boundaries.md:22`: "When
   configured, the login screen requires a local PIN before creating the provider
   session."

## 5. Properties that several parts share

`AllowIsConsent` joins the store to the decision: it compares `Evaluate` on the
grants of the file with the requests the human approved. `ImplementsStore`
joins the threads to the atomic store, so what `store` shows of the store holds of
the process with one writer. `AccessCheck` uses the atomic store, as
`ImplementsStore` permits. `EndedIsRefused` joins the files the commands write to
the answers of the proxy. `AuditTellsTruth` joins the log to the delegations, and
`KeysAgree` the key on disk to the server and to every token that was printed.
`sign_on_locks` uses the actions of `SignOn` themselves, so what holds of its steps
is about the same handlers. `Delegation` and `AccessCheck` change a registry in one
step or in a load and a save, as `ImplementsCommandLine` permits.

## 6. The proofs

Every safety property and both refinements that a passing run checks are also
theorems, for any sets of ids, users, applications, permissions, threads and
requests, any lifetimes and any length of history. `PROJECT.json` says which
theorem states which property. In each module the argument has the same shape: an
inductive invariant, a lemma that the initial states have it, a lemma per action or
per group of actions that a step keeps it, and the property as a consequence.

Induction over data is out of reach of the provers, so the proofs take well-founded
sets instead: the finite sets are well founded by inclusion
(`FS_StrictSubsetOrderingWellFounded`). `LeastNumber` (a set of numbers has a least
one) and `FirstRuleExists` (a file of rules has a first one) are got from that, and
they are what `First` and `FirstRule`, the order of the loops, rest on.

**`AuthzFileProofs`**: lemmas only. What a lineage is, that a valid file of grants
without parents decides by the grants that match and are active (`RootDecision`),
and that an allow exists exactly if a usable grant does (`AllowedIffUsable`).

**`EvaluatorProofs`**, for any set of grants, with chains of any length:

- `EvaluatorTypes` and `AuthorityIsBounded`. `AuthorityNeverBroadens` speaks of
  allows only; `AuthorityInv` adds what the loop knows before: past validation the
  set is valid, and during a climb the grant it is at covers what the request asks
  for (`Authorizes`) and everything behind it gives authority. `ParentAuthorizes` is
  the step from child to parent: attenuation was validated link by link, and
  `CoversTransitive` carries the permission along the wildcards.
- `LoopIsReference`: the loop returns the decision of `Evaluate` by sets.
  `LoopInv` says what the three variables of the loop know of the grants looked at
  so far: `Noted` (the candidate flag and the id for a task mismatch), `Found` (none
  of them was usable, and the stop that is remembered is the blocker of the first
  in order), and, during a climb, `Climbs`: the lineage of the grant it started from is what
  the climb has behind it, all of it active, and the lineage of where it is. That
  a lineage is the least set closed under parents makes the climb meet each of its
  members (`LineageOfChild`); that parents form no cycle makes the stop of the climb
  the blocker of the definition (`NoMutualAncestors`, `StopIsBlocker`).
- `RevocationRemoves`: a grant that is usable after a revocation was usable before
  (`UsableBefore`), since a revocation changes no link of any lineage.

**`AccessCheckProofs`**, about `AuthzStore`:

- The inductive invariant is `StoreInv`: `TypeOK`, in which no recorded time is in
  the future, `ValidFile(file)`, and that every grant comes from an approval
  (`FromApproval`). Without the second a new grant might share its id with an old
  approval; without the third `Evaluate` might allow on a grant nobody
  approved, or the grants might form chains; without the first a revocation could
  be dated before the grant it revokes.
- `StepsAreCalls` reduces a step to a tick or one accepted call with its
  sampled time; then there is a lemma per operation for what it preserves, and
  `ValidFromParts` puts the file's validity together from them.
- From `StoreInv`: `StoreTypes`, `OneGrant`, `AllowEqualsConsent`,
  `DecisionsFinal`, `RevocationsFinal`, `NothingRefused`. The last says that
  `saveUnlocked` never refuses what an operation let through, for all histories.

and about `AccessCheck`:

- The four properties of an answer relate the file at its beginning, at its listing
  and now. `CheckInv` adds to `StoreInv` what a check knows between its reads: the
  grants it began with and those it listed are snapshots whose every grant is still
  in the file, the same but perhaps for its one revocation (`Kept`, `Descends`), and
  the decision it holds is sound for them (`Sound`). `Kept` is transitive, so the
  store may take any number of steps between two reads.

**`StoreProcessProofs`**: `Types` (which contains mutual exclusion in each process)
holds for any number of writing processes. `FileAlwaysLoads`, `SettledStays`,
`ShownStays` and `ProcessImplementsStore` have the hypothesis `OneWriter`: the
threads that write are in one process. It is the case the code's mutex is made
for and the one of the run `store_process`; without it they are false, as finding 1
and the run `store_process_two_writers` show. `WriterInv` says that one thread at a
time saves (`OneSaver`), that what it is about to save is what its call makes of the
file as it still is, that the temporary file is its own until the rename
(`SavesWhatItLoaded`), and that a call which waits for the mutex is still one that its
caller could make (`WasSampled`). A rename is then a step of `AuthzStore`, a tick a
tick, and everything else a stutter, so the theorems about the store hold of the file
on the disk.

**`ProtectedProxyProofs`**: `Types` and `ClocksAgree` for any number of commands.
`CommandsLast` and `EndedStaysOut` have the hypothesis `OneCommand`, as in the
run `protected_proxy`; without it they are false (finding 2). `CommandInv` says that a
copy which is about to be saved is the file as it still is. `RequestInv` says that
what had ended when a request arrived is revoked in the file or has run out at the
time the request is checked against; once the record was looked at, the token is none
of those. An id that is taken is never given again (`IDsInv`).

**`DataDirectoryProofs`**: `Types`, `LogIsTrue`, `LogIsComplete`,
`KeysAgreeUnlessRaced` and `CommandsKeepTheirPromise`. `SavesResult` says of each
registry what `WriterInv` says of the store; `AuditInv` adds the event that is about to
be appended; `OneKey` says that, unless two processes raced, one process at a time
makes the key, and everyone that signs has the key of the file. `raced` is the
exception in `KeysAgree` itself, not a hypothesis of the theorem.

**`SignOnProofs`**: `SignOnInv` says where a code is, in the map, in the hands of one
handler that has not redeemed it, or gone (`CodeInv`), and the same of the state of an
attempt (`LoginInv`); from it `OneTimeCodes`, `OneSession` and `OwnTokens`. Every step of
`SignOnLocks` is one of `SignOn` or leaves its variables alone in the relevant parts,
so the same invariant gives the three for the handlers with `store.mu`
(`SafeWithLocks`). `FinalLogout` needs `SessionInv`: a session that was ended is not in
the map, and a request that came after is on its way to be told so.

**`PolicyEngineProofs`**, for any file that `validateAll` accepts: coming `Before` is
a strict order of the rules of a file (`BeforeIsOrder`), `EngineInv` says that the
loop has passed no rule that decides and remembers the first that matched;
`LoopIsReference`, `VerdictAsDocumented` and `OneMoreRuleDoesWhatItSays` follow. The
documented verdict knows no order, and `VerdictOfDecision` shows that the order
sortRules makes is one of those that give it.

The assumptions are those the modules declare, and TLC evaluates all of them in the
runs: grant and rule ids are numbers, as both are compared; the values for absence
differ from those present (`NoGrant`, `NoRule`, `NoOp`, `NoFile`, ...: that `nil`
is not a value); humans and actors are different identities (the code forbids a
human as an actor); the least TTL and the window are positive; a rule has an effect
and a path, and the ids in a file are unique, as `validateAll` demands; calls take
their arguments from the declared sets.

Only model-checked: liveness (`Terminates`, `EveryCallReturns`,
`EveryHandlerReturns`), since fairness and ENABLED are beyond the prover, and the three
properties that a run shows to be violated.

## 7. What is not modelled

- Loss of power. A kill keeps what the process wrote; the code does not sync, so
  a power loss may leave less. A variant of `StoreProcess` is planned.
- A clock that goes backwards: the code compares instants of the wall clock
  and assumes they advance.
- Signatures, hashes, random ids and the derivation of the PIN key: a token is
  what was signed, a random id is one never used, a PIN is entered or not.
- Normalization and syntax of strings, flags, HTML, the wording of answers,
  origin checks, and the fields of an audit event.
- Two commands on one registry at the same time. `DataDirectory` has one process per
  registry; with two, the later save undoes the earlier, which is what run
  `protected_proxy_two_commands` shows for delegations, and both write one temporary
  file, which is what `store_process_two_writers` shows for the store. No
  document promises more for the other registries.
- What a registration that returns means: an agent that is removed and added again
  has its old grants and delegations back. The code keeps the three files apart
  and no document says that it should not.
- Limits of the server's memory: abandoned login attempts and expired codes and
  sessions stay in the maps until a restart.
- Userinfo, discovery, the provider's own logout, and the reverse proxy to the
  upstream application, which neither change nor read state that the properties are
  about.
- Locks in `ProtectedProxy` and `AccessCheck`: their handlers take no mutex but
  the store's, which `StoreProcess` models.

## 8. Plan

What is left of the modelling: power loss in `StoreProcess`; and two writing
processes with separate temporary files, to separate the lost update from finding 1.

Every safety property of the passing runs has its theorem. Worth proving next: that
`AccessCheck` on the file of `StoreProcess`, rather than on the atomic store, keeps its
properties (they follow today from `ProcessImplementsStore`, by an argument in this
file and not by a theorem); and for two writing processes what does hold without
`OneWriter`.
