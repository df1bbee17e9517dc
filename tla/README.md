# all-purpose-login in TLA+

`apl` signs a user in to Google and Microsoft accounts, keeps the tokens of
each account in an encrypted file, refreshes them, and calls the providers'
APIs with them. It also sets up the OAuth clients it needs. Every command is a
process of its own, and a user, or several agents on the user's behalf, may run
many at once. What can go wrong lies between them: two processes rewriting one
file, a process killed between two effects, a token that was retired while
another process still held it, an answer that was lost after the server acted.

This directory holds TLA+ modules that model these parts from the source, TLC
configurations that check them on small instances, and proofs that TLAPS
checks for every instance.

    tlc -workers 2 -config store_one_process.cfg MCCredStore.tla
    tlapm CredStoreProofs.tla
    tlapm TokenSessionsProofs.tla        # and the other *Proofs modules

## Inventory

| part | state | operations | interacts with |
|---|---|---|---|
| token store, `internal/store` | `cred.json`, its temporary file, the master key in the OS keychain, per process a mutex and the cached key | `Put`, `Get`, `List`, `Delete` | every command that has an account |
| commands `login`, `call`, `logout`, `internal/cli` | none but the record a process works on | one run each | store, provider, API, user |
| providers, `internal/provider` | the provider's side of a consent: refresh tokens, access tokens | `Login`, `Refresh`, `Logout` | token endpoint client, loopback flow |
| token endpoint client, `internal/oauth/exchange.go` | none; one `http.Client` with a timeout | `ExchangeCode`, `Refresh` | identity provider |
| loopback flow, `internal/oauth` | a listener, a one-place result channel, a closed flag | `NewLoopbackServer`, `handleCallback`, `Wait`, `Close` | browser; `Login` |
| resumable setup, `internal/setup`, `cli/setup_llm.go` | a journal file per provider and label | `Runner.Run`, `Save`, `Load`, `Reset`, the steps | gcloud, az, the human, config file |
| interactive setup, `cli/setup*.go` | the configuration in memory | the dialogues, `--reset` | gcloud, az, config file |
| config file, `internal/config` | `config.yaml`, all labels | `Load`, `Save`, `Get`, `Put` | both setups; all commands read it |
| registry, handles, scope tables, listings | immutable tables | lookups, `Expand`, the union of scopes | login, call |
| events, entry point, packaging | none | output, wiring | |

What is hard in them, and what makes each correct:

* **Store.** Put and Delete read the whole file, change one entry and write all
  of it back; only the callers of one process are ordered. A kill can come
  between the keychain and the file, or between the temporary file and the
  rename. Correct: the visible file is always complete, can be opened with the
  key in the keychain, and an operation changes no account but its own;
  together: the file is an atomic map.
* **Commands and providers.** A refresh may retire the token it was given, at
  once and before the answer arrives. The record a command holds may be stale
  by the time it stores it. `call` may send a request twice and must tell its
  caller whether it was carried out. Two margins of 30 seconds must add up.
  Correct: the store keeps a usable refresh token while the consent lives, a
  deleted account stays deleted, the exit code tells the truth, every call ends.
* **Resumable setup.** A process suspends in the middle and another one goes
  on, possibly with other flags, after a kill, or with a journal that was not
  saved. Correct: no step is skipped or run before its predecessors are on
  disk, "resumable" is true when it is announced, what is saved at the end is
  usable, and a user who follows the events gets there.
* **Loopback.** A flow has a goroutine that serves, one that watches the
  context, one for each request, and two that may close; the browser keeps the
  tab, reloads it, and may hit the port when another flow has it. The first
  callback wins, the right one or not. Correct: a code is used only by the flow
  it was issued for, nothing but the first callback or the caller decides a
  flow, nobody is left waiting for somebody who has gone.
* **Interactive setup and config file.** The file is read at the start and
  written whole at the end of a dialogue of minutes, in which tools fail half
  way through. Correct: what counts as configured works, a setup that fails
  changes nothing, entries of others survive, every dialogue ends.
* **Scopes.** Names, aliases and URIs; the record holds what was asked for and
  what was answered, the guard of `call` compares names as given, and a forced
  login replaces the record. Correct: the guard lets a call through exactly when
  the tokens are good for it, and its advice leads somewhere.

Every hazard is listed at its line in `PROJECT.json`, with the property that
would catch it.

## Modules

| module | models | how it stands |
|---|---|---|
| `Accounts` | records, requests and replies of `store.Store` | in use |
| `AccountStore` | what `store.Store` promises: an atomic map | in use, abstract |
| `CredStore` | `store/keychain.go` | checked, proved |
| `CredStoreProofs` | theorems about `CredStore` | proved |
| `MCCredStore` | instances of `CredStore` | in use |
| `TokenSessions` | `cli/{login,call,logout}.go`, `provider/{google,microsoft}.go`, `oauth/exchange.go` | checked, proved |
| `TokenSessionsProofs` | theorems about `TokenSessions` | proved |
| `ScopedAccess` | the scopes in `provider/`, `cli/call.go`, `cli/login.go` | checked, proved |
| `ScopedAccessProofs`, `MCScopedAccess` | theorems about it, and its instance | proved, in use |
| `SignIn` | what `oauth.RunFlow` promises its callers: one answer, one end | in use, abstract |
| `Loopback` | `oauth/{flow,loopback}.go` | checked, proved |
| `LoopbackProofs` | theorems about `Loopback` | proved |
| `SetupRunner` | `setup/{runner,state,google,microsoft}.go`, `cli/setup_llm.go` | checked, proved |
| `SetupRunnerProofs` | theorems about `SetupRunner` | proved |
| `InteractiveSetup` | `cli/{setup,setup_google,setup_microsoft}.go`, `config/config.go` | checked, proved |
| `InteractiveSetupProofs` | theorems about `InteractiveSetup` | proved |

`CredStore` implements `AccountStore`, whose operations are the store steps of
`TokenSessions`. `Loopback` implements `SignIn`, and is the inside of the action
`Consent` of `TokenSessions`. `ScopedAccess`
looks at what `TokenSessions` carries along, the scopes of a record, and at one
user instead of several processes. `SetupRunner` and `InteractiveSetup` write the
same file; `InteractiveSetup!OtherTerminal` is the other one's save.

### CredStore

One step per system call: `Lock`, `ReadFile`, `GetKey` (keyring.Get or the
cached key), `GenerateKey` (keyring.Set), `Decrypt`, `Apply` (what the
operation does to the map), `CreateTmp`, `WriteTmp`, `Rename`, `Return`, with
`Fail` for the error of any of them and `Stop` for the end of a process. `pc`
says where a caller stands. A file is `Garbage` (incomplete), or the key it is
sealed under with the map inside; AES-GCM is "opens under the same key only".
Keys are fresh: `GenerateKey` picks one that is nowhere in use. `image` is what
a caller read and edited. `Installs` names the machines one may start on: never
used, killed after the key was stored, in use, `cred.json` without its key, a
damaged `cred.json`. The temporary file of a dead process of the same process
id is truncated by the next one, as with `O_TRUNC`.

`ImplementsAccountStore` maps the file to the map and `pc` to "idle", "called"
or "answered". The rename is the instant at which Put and Delete take effect.

### TokenSessions

Several processes run commands against one store, two identity providers and
their APIs. A store operation is one step, by the promise of `AccountStore`. A
request to a provider or an API is two: the server's (`Consent`,
`TokenEndpoint`, `Serve`) and the client's (`BuildRecord`, `TokenAnswer`,
`Reply`); in between the answer may be lost (`TokenLost`, `ReplyLost`) and the
process killed. `grant` is the provider's knowledge of each consent: its state,
to whom it belongs, the generation of its tokens and the oldest one the API
still accepts. `SingleUse` says whether Microsoft's endpoint honours each
refresh token once; the code is written for that (it stores the new one) and
the documentation of `apl` expects it. Google sends no new refresh token on a
refresh, and the client keeps the old one. `Faults` switches the failures:
network, store, kill, and an API that stops accepting tokens early. `Refuse` is
every way a command ends with a user error before anyone is asked for anything
(a bad command line, an unreadable body, a provider without a client). The
revocation endpoint is waited for without limit, as in the code (`Revoke`); when
revocation fails, acted upon or not, `answer` keeps the warning until the record
is deleted.

`lost` is a history variable that no action reads: the consents whose newest
refresh token went with the command, or with the answer, that had it before it
was stored. It is what a killed process costs at a provider that rotates, and
the one excuse `StoredTokenHonoured` makes.

The clock counts 30 seconds, the unit of both expiry margins and of
`httpClient`'s timeout, so "more than 30 seconds" is `> now + 1`, and a token
request in time is at most one tick old.

### SetupRunner

A process works on `st`, its copy of the journal; `disk` is the file. `Invoke`
is the start of a command with or without `--resume`, `--reuse` and the inputs.
The runner's switch on the journal is `SkipDone`, `PassHuman` (a human is
presumed to be done), `AskAgain`, `Begin`; `RunStep` and `CreateApp` are the
step's effects and results, `RecordResult` the switch on the action it returns.
`Record` is SetStep and a Save whose error ends the run, `RecordLast` one whose
error is ignored. `PersistConfig` merges the outputs of all steps in any order,
as the code ranges over a map. Values are abstracted to where they come from.

`signedIn` says whether gcloud or az is signed in. `PassHuman` does not look at
it, the steps do: `ToolServes` and `ToolFails` decide whether a step that asks
the tool (`ToolSteps`) gets its answer, so a setup that is resumed before the
sign-in fails at the next such step, and runs it again when it is resumed once
more.

`FaultSets` lists the combinations of failures a run looks at. "stray" is a user
who gives any flags at any time and resets the journal; without it he does what
the events ask for (`FirstInvocation`, `ResumeAsTold`: the `resume_command` with
the required fields, as `src/README.md` tells him).

### InteractiveSetup

`Start` is the command line and `config.Load`, `ResetConfig` the confirmed
`--reset`, `Plan` the choice of the providers that are not configured; then the
steps of the flows, one per effect on the cloud or on the account that gcloud
and az act for: `GoogleAccount` to `GoogleClient`, `MicrosoftAccount` to
`MicrosoftDone`; `SaveConfig` writes what the flows have returned. `cur` is the
configuration loaded, `next` the one to be saved. An action is the tool's call
with its prompt; any of them may fail ("tool"), possibly after its effect, and
the user may give up at each prompt. The cloud remembers what was created:
projects with or without APIs, apps with part of their permissions. "other" is
another terminal that saves an entry or switches the account.

An entry is what its client tells about it: a Google client of the right or of
another form (`googleClientIDRe`), or an app registration.

### Loopback

One action per step of a goroutine: `RunFlow` (`Listen`, `OpenBrowser`, `Wait`,
`Exchange`, `DeferredClose`), the one that serves (`Serve`), the one that watches
(`WatchContext`), the handlers (`Accept`, `HandleCallback`, `Flush`) and
`Close`, whichever goroutine is the first in its `sync.Once` (`Shutdown`,
`Drain`). `sent` is all that was ever sent on the channel of one place,
`Pending` says that the last of it has not been received; `Wait` takes whichever
case of its select is ready. `Shutdown` and `Serve` follow net/http: a listener
that is not registered yet is closed by `Serve` itself, and `Shutdown` returns
when no connection is busy. The page that `handleCallback` writes is in a buffer
until it has returned (`finished`), and the result is on the channel before that:
`RunFlow` may go on, to the exchange and to `Close`, while the page that decided
it is unsent, and only `Drain` waits for `Flush`. `tab` is the page in the browser, which may call
back again (`Reload`), and at a port that now belongs to another flow (`SendTo`):
`port` is the port of the redirect URI, which the page knows for good, and
`Listens` says whether the flow still has it.

`ImplementsSignIn` maps `sent` to the answer a flow has heard, the first one,
and the pages to the consents. The abstract flow hears its answer when a handler
sends the first result, ends when `outcome` is set, and redeems in `Exchange`;
everything else is a stutter.

### ScopedAccess

`recorded` is the record's list, `covers` what the tokens are good for, which
only the provider knows, `consented` all the user ever granted (Microsoft
answers with all of it), `declined` what he unticked (Google lets him). `Login`
expands, completes and asks, `Granted` is the union that is recorded, `Refused`
the guard of `call` with its advice, `FollowAdvice` the user who runs the login
he is told to run. A refresh asks for the recorded scopes (`RefreshGranted`).

## Runs

| run | instance | shows |
|---|---|---|
| `store_one_process` | 2 callers, 1 process, 2 handles, 1 record, machines new, keyed, in use | `TypeOK`, `Readable`, `OnlyWholeFilesAppear`, `OtherAccountsKept`, `ImplementsAccountStore`; every operation returns (`EveryCallReturns`) |
| `store_two_processes` | 2 processes of 1 caller, 1 handle, machines keyed, in use, without the key, damaged | `OnlyWholeFilesAppear`, `UnreadableFileKept` |
| `store_lost_update` | 2 processes, 2 handles | **violated**: `NoAccountLost` |
| `store_key_race` | 2 processes on a new machine | **violated**: `Readable` |
| `session_one` | 1 process at a time, a Google and a Microsoft account that rotates, one scope, all faults, consents withdrawn | `TypeOK`, `StoredTokenHonoured`, `ForgottenOrWarned`, `AppearsBySignIn`, `ExitTellsServed`, `KeptTokenLives`, `CallsEnd` |
| `session_unrevoked` | 1 process, Google, a network that fails | **violated**: `ForgottenIsRevoked` |
| `session_resurrected` | 2 processes, Google | **violated**: `AppearsBySignIn` |
| `scopes` | an account of either provider, part of the alias table, eight `--scope` lists | `TypeOK`, `ServedUnlessDeclined`, `RefusedOnlyIfLacking`, `AdviceHelps` |
| `loopback` | 2 flows that share a port, 2 requests, one flow with a context that ends, all faults | `TypeOK`, `OwnConsentOnly`, `OnlyCallerCancels`, `PagesServed`, `FirstCallbackDecides`, `ImplementsSignIn`, `CallbackEndsFlow`, `ReturnReleases` |
| `setup` | either provider, 2 apps, the obedient user without failures and with all of them, any user with kills, failing tools, failing saves | `TypeOK`, `ConfigIsUsable`, `SuspendedIsSaved`, `DoneBeforeNext`, `StepsStayDone`, `MicrosoftCompletes` |
| `setup_google_stuck` | Google, the obedient user, no failures | **violated**: `SetupCompletes` |
| `interactive_setup` | 2 labels, 2 accounts, 1 project, 1 app; tools, saves and kills, or another terminal | `TypeOK`, `ConfiguredIsReady`, `ActsAsPicked`, `AllOrNothing`, `OtherEntriesKept`, `DamagedFileKept`, `SetupEnds` |

Each property of a passing run has a mutant in `PROJECT.json`, a plausible slip
in the code under which TLC finds it violated. The operators named `Bug...`
are these slips; no specification uses them.

### What the violated properties say

* `store_lost_update`: spec-token-storage.md asks for operations "atomic at the
  OS level" and names "losing accounts" as the risk. Two processes that write
  different accounts both read the file first; one stores an account that was not
  there and reports success, and the rename of the other takes it away. (The same
  race brings back an account whose Delete had completed.)
* `session_unrevoked`: spec-token-storage.md (STORE-10) wants a record removed only
  when its consent has been revoked, and kept for another try when the network
  failed. `logout` warns and removes it, as spec-cli-command-surface.md has it: the
  consent lives on, and nobody has its token. That there is always the warning is
  `ForgottenOrWarned`.
* `store_key_race`: two processes on first use both find no master key. One
  seals the file under its key, the other's key is the one that stays in the
  keychain: no process can open the file again.
* `session_resurrected`: `call` stores the record it read, refreshed or not,
  without looking whether it is still there. A logout in between is undone.
* `setup_google_stuck`: `client_create` asks for `client_secret_file` whether or
  not it was given, so the step after it, which reads the file, is never
  reached. A user who does as he is told suspends there forever.

### Bounds

* Two callers show every race between two operations; a third only repeats one
  of them, as the mutex admits one caller and a rename replaces everything. Two
  handles are needed for one operation to disturb another's account. Keys are
  compared only, and a new machine needs as many as it can generate.
* `ExpiresIn` is 3 units in `session_one`: a token obtained at 0 is kept at 0 and
  refreshed from 1 or 2 on, as its answer was delayed or not, so both sides of the
  margin occur before `MaxNow` = 2. `MaxRefreshes` is 1: a retired token and its
  successor, at which the provider retires the first whether or not the answer
  arrives; `session_resurrected` has 2. `Grants` is one or two consents: the second
  is for the other account, or for a repeated sign-in. A provider past `MaxRefreshes` answers
  with an error, as an overloaded one may, and then runs out of new behaviour
  only for that consent; no run is stopped by it.
* `SetupRunner`: `Apps` bounds the registrations: two show a duplicate; a third
  attempt fails. `Other = "full"` lets `--reuse` choose the other list.
* `InteractiveSetup`: two labels, so that one setup can disturb the entry of
  another; two accounts, the picked one and a different one; two default
  permissions, so that an app can be left with one of them. With one project and
  one app both "it exists" and "it has to be created" occur, and a second
  attempt finds what the first one left.
* `Loopback`: a second flow on the first one's port is what a foreign callback
  needs; two requests race for the channel, and one of them may be a probe, a
  reload or a callback at the wrong flow. No property compares three of either.
* `ScopedAccess`: per provider a default scope, one outside the defaults, an alias
  that stands for several scopes and one that is its own name; the lists typed
  hold none, one and two of them.

### Fairness

* `CredStore!FairSpec`: a caller that can go on does (weak fairness of
  `Advance`), as system calls return; `Lock` has strong fairness, as
  `sync.Mutex` hands itself to the longest waiter in its starvation mode. There
  is none for failures, exits and new calls.
* `TokenSessions!FairSpec`: weak fairness of `Client(p)`, the steps that depend
  on the process alone, timeouts included: `httpClient` gives up after 30
  seconds and `call --timeout` bounds the rest. There is none for the servers,
  for `Consent` (a user at a browser) and `Revoke`, which have no time limit in
  the code.
* `SetupRunner!FairSpec`: a started process runs on, the user starts the setup,
  resumes as told, and signs in to gcloud or az some time, as the event asks: not
  necessarily before resuming. Nothing is said of kills, failures and strays. The liveness
  property speaks of the fault set that has none of them. `MicrosoftCompletes`
  shows that this suffices where the steps are right, so `setup_google_stuck`
  owes nothing to missing fairness.
* `InteractiveSetup!FairSpec`: weak fairness of `Run`: gcloud and az return (they
  are waited for without a limit) and the user answers each prompt, with any
  answer. `GoogleClient` may refuse each time, so `SetupEnds` needs the count.
* `Loopback!FairSpec`: weak fairness of each goroutine on its own, as the Go
  scheduler gives; none for the user, the browser and the caller of `RunFlow`.
  `CHECK_DEADLOCK FALSE` there: when all flows have returned and the requests are
  used up nothing is left to happen.
* `ScopedAccess!FairSpec`: the user goes on with the call he wants and runs the
  login the refusal names. Without that no advice helps.

## Proofs

Every theorem holds for all values of the constants under the named
assumptions of the modules (`FileAssumption`, `SessionAssumption` and the like:
types of the constants, and values such as `NoRecord` that are no record).

Many of them are stated for any processes whose schedule keeps one named
condition (`Spec /\ []Apart => ...`): the condition says which two actors must
not meet, and nothing else. That is a sharper statement than one about a single
process, which follows from it because there the condition always holds; and
the runs that find a violation are the meetings it excludes.

**`CredStoreProofs`.** Three invariants, each built on the one before it:

| invariant | conjuncts | needed because |
|---|---|---|
| `StoreInv` | `TypeOK`, `KeyCached`, `HoldsLock`, `TmpWritten` | the key a caller seals with is a key only if it has been cached on the way; the file that is renamed is whole, and its writer's, only because the mutex kept the other callers of the process away from the temporary file they share |
| `KeyInv` | `StoreInv`, `KeysAgree` | the file stays readable only if the cached keys and those of the temporary files agree with the keychain |
| `MapInv` | `StoreInv`, `ImageCurrent` | an operation writes back what it has read with its own change only if what it has read is still in the file |

| condition | excludes | always holds for |
|---|---|---|
| `FirstUseApart` | two callers that are about to generate a master key on a machine without a file (`store_key_race`) | one process; machines with a key |
| `Apart` | a rename while another caller is between reading the file and replacing it (`store_lost_update`) | one process |

| theorem | for | shows |
|---|---|---|
| `TypeCorrect`, `WholeFiles` | any processes, callers, failures and exits | `TypeOK`; `OnlyWholeFilesAppear` |
| `ReadableIfFirstUseApart`; `ReadableOneProcess`, `ReadableOnceKeyed` | `FirstUseApart`, installs that start readable; its two cases | `Readable` |
| `UnreadableKeptIfFirstUseApart`; `UnreadableKept` | `FirstUseApart`; its two cases | `UnreadableFileKept` |
| `OtherAccountsKeptApart`; `OtherAccountsKeptOneProcess` | `Apart`; one process | `OtherAccountsKept` |
| `AtomicApart`; `AtomicOneProcess` | `Apart`; one process | `ImplementsAccountStore`: initial states map to initial states (`RefinesInit`), every step to a step of the map or to a stutter (`RefinesStep`) |
| `CallsAreBounded` | any processes, callers, failures and exits | `LockHeldInside`: the mutex is never left locked by a caller who has gone; `OperationsGoForward`: an operation takes at most twelve steps |

`UnreadableKeptIfFirstUseApart` splits by the first state: either the file can be
opened, and then `KeyInv` keeps it so, or `Unreadable` holds for good: the key that
seals it is in no cache, every image is that file, and no caller gets past `Decrypt`.

**`TokenSessionsProofs`.**

| invariant | conjuncts | needed because |
|---|---|---|
| `SessionInv` | `TypeOK`, `KindAt`, `ServedOnce` | a request is not carried out twice because `Serve` is reached again only after a 401, which is no service; the exit code follows from the answer in hand |
| `MarginInv` | `SessionInv`, `Margins` | `ExpiresAt` understates the life of the token, wherever the record has been: from the answer that is under way to the store and back |
| `HandInv` | `SessionInv`, `Owned`, `InHand`, `StoredTokenHonoured` | a refresh retires only the token of its own account (`Owned`), and the good token is, at every step of the one command, either in the store or in its hand (`InHand`), or in `lost` |

| theorem | for | shows |
|---|---|---|
| `TypeCorrect` | any processes, all failures | `TypeOK` |
| `ExitsTellServed` | any processes, all failures | `ExitTellsServed` |
| `KeptTokensLive` | any processes, all failures | `KeptTokenLives` |
| `TokensOwned` | any processes, all failures | `OwnTokensOnly`: no record ends up under another handle |
| `StoredTokensHonouredApart`; `StoredTokensHonoured` | `HandsApart`, all failures; one process | `StoredTokenHonoured` |
| `ForgottenOrWarnedApart`; `ForgottenAreWarnedOf` | the same | `ForgottenOrWarned` |
| `AccountsAppearBySignInApart`; `AccountsAppearBySignIn` | `LogoutsApart`, all failures; one process | `AppearsBySignIn` |
| `CommandsAreBounded` | any processes, all failures | `CommandsGoForward`: every step brings a command nearer to its end, its one replay included |

`HandsApart`: no two commands hold a record of one account at a time; commands on
different accounts may overlap. `LogoutsApart`: no logout is about to delete an
account another command works on. Both always hold for one process.

The condition is needed: another process on the same account at a provider that
retires refresh tokens at once may take the good token away (the loser of two
refreshes stores its token last), and a login while `logout` waits for the
revocation of an older consent has its record removed without a warning. At a
provider that goes on honouring old tokens `StoredTokenHonoured` says no more than
that the consent lives, and asks nothing of the schedule. No failure is excluded:
what a lost answer or a killed process costs is said by `lost`, and what a failed
revocation leaves behind by the warning.
`AccountsAppearBySignInApart` rests on `AccountThere`: the account a command has read
is there as long as no logout meets it; `session_resurrected` is the meeting.
`TokenSessions` takes a store operation as one step; `AtomicApart` says when it is one.

**`ScopedAccessProofs`.** The invariant is `TypeOK` with `RecordTellsConsent`: what
the record says beyond the tokens is what the user declined, and Microsoft's
tokens can always be refreshed. `CallsServed` and `RefusalsRight` read off what the
guard's decision then means; for any aliases, defaults and flags.

**`LoopbackProofs`.** For any number of flows, ports and requests, and all failures.

| invariant | needed because |
|---|---|
| `CodesFollowConsent` | a code in a request or on a channel must come from a tab whose user consented; the state check then gives `OwnConsentOnly` |
| `OnlyCallerCancels` | inductive with types alone: nobody closes a flow at work but on behalf of its context |
| `ServesToTheEnd` | `PagesServed` needs that nothing is accepted after `Shutdown`, and that `Close` returns when the handlers have |
| `WaitsOnce` | the head of the channel decides only if `Wait` has received once and was not cancelled before |
| `ClosesBegun`, `QueuesOpen` | a goroutine that waits for `Close` waits for one that has begun, and a connection in the queue has a server that will take or drop it |

| theorem | shows |
|---|---|
| `TypeCorrect`, `CodesStayHome`, `CancelledByCaller`, `ReturnsWhenServed`, `FirstDecides` | the invariants and the action property that the run checks |
| `IsASignIn` | `ImplementsSignIn`: server, goroutines, tabs and handlers together are the abstract sign-in |
| `NobodyWaits` | `NobodyWaitsInVain`: nobody waits for a goroutine that has gone |
| `FlowsAreBounded` | `FlowsGoForward`: every step of a flow, its goroutines or a handler brings it nearer to its end |


**`SetupRunnerProofs`.** For both providers, any user and all failures.

| invariant | needed because |
|---|---|
| `MemoryIsJournal` | a step may rely on the file only if what the process has in memory is what it has saved or read; the steps it has passed are done in both (`DoneBeforeNext`, `SuspendedIsSaved`) |
| `AppsArePermitted` | a journal whose permissions are done names permitted apps, in memory, on disk and in the result under way; the steps that put out an app are done before it and never run again, so a resumed setup cannot slip in another app (`ConfigIsUsable`) |
| `FollowedFromFile` | the file of a user who follows the events is never replaced by a journal that was started anew, so what is done stays done (`StepsStayDone`) |

`RunsAreBounded` adds that a run never goes back over its list: every effect brings
it nearer to its end (`RunsGoForward`).

**`InteractiveSetupProofs`.** For any labels, accounts, projects, apps,
permissions and combinations of failures.

| invariant | needed because |
|---|---|
| `ReadyOnTheWay` | an entry is ready when it is saved only if it was in the file, or its flow has enabled the APIs or added the permissions that are no longer wanted (`ConfiguredIsReady`) |
| `CarriesTheFile` | `AllOrNothing` and `OtherEntriesKept` compare the file with the copy in memory, which is current only without another terminal; the providers not in `todo` are configured in `next` |
| `GoogleFirst` | the steps that a setup still has before it, Google's and then Microsoft's, get fewer with each step (`SetupsAreBounded`); it counts the permissions an app still lacks, so they are finitely many |

### Only model-checked

Liveness is out of the prover's reach and stays with TLC: `EveryCallReturns`,
`CallsEnd`, `AdviceHelps`, `CallbackEndsFlow`, `ReturnReleases`,
`MicrosoftCompletes`, `SetupEnds`. What carries most of them is proved nevertheless:
`CallsAreBounded`, `CommandsAreBounded`, `NobodyWaits`, `FlowsAreBounded`,
`RunsAreBounded` and `SetupsAreBounded` say, for all instances and failures, that
nothing waits for what has gone, or that a measure decreases with each step, so that what
is left to fairness is that each next step is taken. Every invariant and action property of a passing
run is proved, under the assumptions named above.

## Not modelled, and why

* The wording of prompts, gcloud and az themselves, event formatting, output,
  the registry, the entry point, packaging: sequential input and output, wiring, or
  immutable tables. No command calls `Provider.Token`.
* `--status` of the setup, which changes nothing; an az account other than
  `--account`.
* What is wrong with a command line that `Refuse` refuses; `--output`, and the
  streaming of bodies in `call`.
* PKCE, states and id tokens are random or opaque values; cryptography is
  "opens under its key only".
* An entry of config.yaml without `client_secret`, which counts as configured, and
  the validator of client ids, which in the program accepts everything.
* Two setups at once: with another terminal the last save of config.yaml wins, as
  in the store (`store_lost_update`); the properties of `InteractiveSetup` that
  compare the file say `Alone`.
* The user name shown in "Continue as this user?", the old one when `az account
  show` fails after the switch.
* A clock that is set back while commands run.

Divergences met in the code that need no state exploration, and which no run
checks: `call` exits 3 instead of 2 when its first refresh meets
`invalid_grant` (call.go:178, spec-apl-call.md:70); the refresh after a 401 has
no force parameter and may keep the refused token (call.go:198,
spec-apl-call.md:112); the revocation request has no timeout (google.go:310);
`resume_command` omits `--reuse` (setup_llm.go:200); `app_pick` finds existing
apps but offers none (microsoft.go:165); the Save before a suspension may fail
silently (runner.go:138); a sign-in has no deadline and its URL is not printed
(flow.go:47, where spec-oauth-pkce-loopback.md asks for five minutes and for the
URL); a denial is not checked for its state (loopback.go:124), so one from an old
tab ends a new flow; the checks of both providers before any provisioning
(spec-setup-bootstrapper.md:86) are done provider by provider. The advice of
`call` does not help for two scopes at Google, of which each login replaces the
other; `Attainable` names the rest. A call with an alias after `--scope` is refused
even when the tokens cover every scope it stands for, and no login helps, because
the guard compares names as given and no record holds an alias (call.go:164), where
spec-apl-call.md (CALL-1 at line 63, CALL-13, and the checks at lines 348 and 442)
writes such calls: `RefusedOnlyIfLacking` and `AdviceHelps` speak of names that are
scopes. `logout` deletes after a failed revocation where spec-token-storage.md
wants the record kept (`session_unrevoked`). A
scope the user declines is recorded as granted (google.go:238): the call is let
through and the next refresh fails; the properties of `ScopedAccess` except it.

## Plan

Done: `CredStore` with `AccountStore`, `TokenSessions`, `SetupRunner`, `Loopback`
with `SignIn`, `InteractiveSetup` (with the config file), `ScopedAccess`, the proofs
of all their safety properties and of the two refinements, and the bounds on what
their operations do. What could follow:

1. `SignIn` as what the action `Consent` of `TokenSessions` does: its two ends,
   tokens or an error, from `told`.
2. `SetupRunner` and `InteractiveSetup` on one config.yaml, with two processes,
   instead of `OtherTerminal`.
3. The conditions of `ReadableIfFirstUseApart` and `AtomicApart` derived for a store
   with a lock between processes, which the code does not have.
