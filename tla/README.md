# TLA+ models of qm-photo-server

qm-photo-server is the back end of an administration console: a NestJS application
(`src/src`), one Node process under PM2, with MySQL behind Prisma and Redis behind
cache-manager. It keeps accounts, roles, menus with buttons, dictionaries and notification
rules. Its controllers are thin; the services hold the logic, and what is hard about them is
what happens between two `await`s: they check, then write, and keep copies of MySQL rows in
Redis by hand.

This directory models the services that keep state: TLA+ modules, TLC configurations that
check them on small instances, and TLAPS proofs that the most important properties hold on
instances of any size. Paths below are relative to `src/src/modules` unless they say
otherwise.

## 1. The system

### Components, their state, their operations

| Component | Code | State | Operations |
|---|---|---|---|
| Session and authentication | `auth/auth.service.ts`, `auth/strategies/jwt.strategy.ts`, `auth/guards` | Redis: `user:token`, `user:refresh_token`, `user:version`, `user:info`, `user:permissions`; the `users` row | login, refresh, validateToken (every protected request), logout |
| Users | `user/user.service.ts` | `users`, `user_roles` | create, update, remove, page, changePassword, bindUserRoles, clearUserCache |
| One-time codes, registration | `auth/services/captcha.service.ts`, `auth/services/verification-code.service.ts`, `AuthService.register` | Redis: `captcha:img:<id>`, `verification_code:<email>`; `users` | generate, verify, send, register |
| Roles and permissions | `role/role.service.ts`, `UserService.getPermissionsForRoles`, `common/guards/*.guard.ts` | `roles`, `role_menus`, `role_menu_buttons`, the view over them; copies under `user:info` | create, update, remove, assignRolePermissions, the lookup, the guards |
| Menus | `menu/menu.service.ts` | `menus` (a forest by `parentId`), `menu_buttons` | create, update (with a walk for cycles), remove, buttons |
| Dictionary | `dict/dict.service.ts` | `dicts`: each row repeats its type's name and status | create, update, remove, updateDictType, removeDictType |
| Cached lists | `role/role.store.ts`, `menu/menu.store.ts`, `dict/dict.store.ts` | Redis: `role:all`, `menu:all`, `dict:all` | getAll (read through), clear |
| Notifications | `notice/**` | `notification_rule`, `notification_info`, `notification_log` | triggerEvent (rules, scripts, mails, logs, content, statistics), rules' create, update, toggle and remove, infos' remove |
| Deployment | `src/scripts/*`, `src/.github/workflows/deploy.yml`, `src/docker-compose.prod.yml` | the registry, images on the host, the database's schema, the container | push, webhook, `deploy-from-registry.sh`, `update.sh` |
| Helpers | `common/helpers`, `common/pipes` | none | buildMenuTree, buildDictTree, the page window, durations |
| Test module; decorators, filters, logger, DTOs | `test`, `common` | none of interest | sample CRUD; wiring and formatting |

### How they interact

- Every protected request passes `JwtAuthGuard` -> `JwtStrategy.validate` ->
  `AuthService.validateToken`, which compares the token and the password version with Redis
  and takes the user, roles and buttons from `user:info`, or looks them up with
  `UserService.getPermissionsForRoles` and stores them. `PermissionsGuard` and `RolesGuard`
  decide by that copy only.
- The writers are to keep the copy right: `UserService.update`, `changePassword` and
  `remove` delete the user's keys after (or before) they write MySQL;
  `RoleService.assignRolePermissions` and `remove` those of all users with the role.
  `RoleService.update`, a menu's new status or removal, and a button's new mark or removal
  delete none.
- Role, menu and dictionary services end each write with a `clear` of their list, which the
  store services fill on the next read.
- `register` spends a mailed code, creates the row and logs in.
- `sendVerificationCode` stores a code and mails it with `NoticeService.triggerEvent`, whose
  answer it ignores (`auth/auth.service.ts:393`): the caller is told that the code was sent
  also if no rule is enabled or the mail failed.
- CI pushes an image and runs `update.sh` over ssh; the webhook server, a second Node process
  on the host, runs `deploy-from-registry.sh` for each request it accepts; administrators run
  either by hand. All of them work on one container and one database.

### What is hard

Nothing is locked, and one transaction exists (`assignRolePermissions`). So: a value that
was read before an `await` and is used after it; a cache filled with what was true before a
write; two requests that pass one check; an operation that fails, or is killed by PM2's
memory limit, between its MySQL half and its Redis half; a walk up the tree, one query per
level, while others move the tree; a dispatch that keeps its own counts, one mail after the
other, while its rules and its info are changed or removed; two deployments that move a tag
and replace the container under each other. `PROJECT.json` lists each of these at its line,
with the properties that would notice.

### What makes each component correct

- Session: a logout is final, a token of an earlier login or password is dead, a disabled
  user stays out.
- Codes and registration: a code once used is dead, and none is lost unused; an address has
  one account.
- Permissions: what the guards read is what the tables grant; an update of roles gives the
  roles it names.
- Menus: no cycles, paths are unique under a parent, the walk climbs, a search shows what it
  finds.
- Dictionary: one default per type, one name and status per type.
- Lists: a list in Redis is the table, or about to be cleared.
- Accounts: a page of them holds the rows that belong on it.
- Notifications: each address is tried once, whatever fails; what is recorded of it adds up.
- Deployment: a build runs on a database with its migrations; a health check looks at the
  build it is about; a script ends.

The code does not keep all of these in every interleaving. The models state exactly under
which condition each can fail: history variables record the writes that came too late
(`late`, `dirty`, `cut`, `crossed`, ...), and each property says "P, unless one of these".
That is sharper than either "P" (false) or no property (silent): every exception names a
line of the code, and everything else is excluded by TLC on the instance and, where proved,
for all instances.

## 2. How the code is modelled

*Steps.* The server is one Node process (`src/ecosystem.config.js`: `instances: 1`,
`exec_mode: 'fork'`), so a request is interrupted only at its `await`s. An action is the code
from one `await` to the next, the query it resumes from included. `pc[r]` says where request
`r` stands and is named for the next thing it does. Requests of all kinds interleave freely.

*Redis.* The commands of one `Promise.all` are written to one connection back to back and
make one action; a `Promise.all` over MySQL and Redis (`changePassword`) is two, in either
order. *MySQL.* A statement is atomic; unique keys, foreign keys and cascades are those of
`prisma/schema.prisma`. `createMany` with `skipDuplicates` is `INSERT IGNORE`.

*Failures.* `Abort` (in Session: `Restart`, `UpdateFail`) ends a request at any await: a lost
connection, a rejected statement, a restart by PM2. Whatever it wrote stays, what it had not
written yet is never written: a send that ends between its `del` and its `set` leaves its
address without a code (`cut` in `Registration`), a `create` of a menu whose buttons are
rejected leaves the menu, and the list in Redis as it was. In `Notice` each write that the code catches may also fail by
itself and the dispatch goes on; in `Deploy` each command of a script may fail and end it
(`set -e`), and the app comes and goes at will. Keys reach their TTL at any time (`Expire`, `Lapse`, `Evict`).

*Data.* A name, a path or a token is a member of a small set; a list is "current" or "stale".
Requests that a guard refuses without effect are left out. Each module's header names its
abstractions. Every bound on a counter (`MaxLogins`, `MaxPw`, `MaxIssued`, `MaxMenu`,
`MaxDict`, `MaxRule`, `MaxInfo`, `MaxEdit`, `MaxSize`, `MaxBuild`) is a CONSTANT that says so.

*Faulty variants.* An operator marked `faulty:` is not used by any specification. It states
how a plausible bug would change the operator below it; each property is known to fail when
the operator is replaced by it (`mutants` in `PROJECT.json`).

### Module by module

| Module | Models | State -> code |
|---|---|---|
| `Session` | one account's keys and row, all requests on them | `redis.token/refresh/version/info` are the keys, `db` the row; `tok`, `seen`, `ver` are locals of a request in flight |
| `Registration` | captcha and mailed codes, `register`, the administration of accounts and `findPaginated` | `store` is Redis, the n-th code issued is n; `users` the table; `known` what a request's look-ups saw; `page` what the two queries of a page answered; `cut` the keys whose code a broken-off send deleted |
| `ListStore` | the read-through cache the three stores share, abstractly | `cache`, the list a reader holds (`snap`) |
| `MenuTree` | `menus`, all of `MenuService`, `MenuStoreService`, `buildMenuTree` | `parent`, `path` are columns; `at` is where the walk of `update` is; `create` writes the menu and its buttons in two steps; `Shown(S)` is what the tree of the found rows S holds |
| `Permissions` | one user's roles, what they grant, the lookup, its copy; every writer of these: users, roles, a menu's status (`MenuUpdate`) and removal, a button's mark (`ButtonUpdate`) and removal | `has`, `rows`, `enabled`, `shown`, `menus`, `buttons` are tables and columns; `ids`, `found` are locals of `getPermissionsForRoles`; `cached` is `user:info`; `GetUserInfo` answers from the lookup and stores nothing |
| `Dictionary` | `dicts`, all of `DictService`, `DictStoreService`, `buildDictTree` | `type`, `name`, `status`, `default` are columns; `old`, `newType`, ... the DTO; `TypeNodes` the top level of the tree |
| `Delivery` | what `triggerEvent` promises of an event, abstractly | `pending` mails, how many were `tried` and taken (`ok`), the `verdict` told |
| `Notice` | `NoticeService.triggerEvent`, `NoticeRuleService`, `NoticeInfoService` | `rules`, `on`, `infos`, `success`, `total`, `logOk`, ... are tables and columns; `todo`, `left`, `got`, `sumOk`, ... locals of `triggerEvent` and its loops |
| `Deploy` | the workflow, the webhook server's answers, `deploy-from-registry.sh`, `update.sh` with `USE_VPC` either way | `there[t]`, `here[t]` are the builds that tag `t` names in the registry and on the host, under the name docker-compose uses; `schema` is the database, `app` the container; `pc` is the next command of a script |
| `MC*` | symmetry sets for the runs | |
| `*Proofs` | theorems about the module of that name | |

`MenuTree` and `Dictionary` compose their table with the cached list and implement
`ListStore` (`INSTANCE ListStore WITH late <- lateList, pc <- ...`): the requests that work
on the table are idle requests of `ListStore` until they write, and "clear" from then on. A
`create` between its menu and its buttons is at "clear" too, and its second statement one more
write of that store, whose writes take several statements.
`Notice` implements `Delivery` (`INSTANCE Delivery WITH pending <- ..., tried <- ...`): the mails
pending are those of the rules to come and of the rest of the rule at work, those tried are in
`sumAll` or in what the rule at work has behind it. Creating the info, writing logs, content
and statistics, and everything administrators do meanwhile are stutters of `Delivery`: that
they fail changes neither which mails go out nor what the caller is told.

## 3. What is checked

| Run | Instance | Properties |
|---|---|---|
| `session` | 2 requests of the account, an administrator, 2 logins, 2 new passwords | `TypeOK`, `PasswordCurrent`, `DisabledOut`, `LogoutFinal`, `TokensPaired` |
| `session_reset` | as `session`, 1 login, 1 new password | `PasswordModifiedInvalidates` is **violated** |
| `registration` | 2 requests, 1 address, 1 captcha, 2 names, 2 codes; page 2, one row a page | `TypeOK`, `SpentStaysSpent`, `CodeKept`, `SharedEmailNeedsOverlap`, `PagesAddUp` |
| `menu_tree` | 2 administrators, 3 menus | `TypeOK`, `CyclesComeLate`, `PathsChecked`, `WalksClimb` |
| `menu_list` | 2 administrators, 1 reader, 2 menus | `FoundIsShown`, `ImplementsListStore` |
| `menu_path` | 1 administrator, 3 menus, 2 paths | `UpdatedPathFree` is **violated** |
| `permissions` | 1 lookup, 1 administrator, 2 roles (one is `R_SUPER`), 1 menu with a button, 2 marks it may have | `TypeOK`, `CachedIsCurrent`, `AllowedIsGranted` |
| `dictionary` | 2 administrators, 2 rows, 2 types, 1 name, with and without default | `TypeOK`, `DefaultsComeLate` |
| `dictionary_types` | 2 administrators, 1 reader, 2 rows, 2 types, both statuses | `TypesUniform`, `ImplementsListStore` |
| `notice` | 1 dispatch, 1 toggle at a time, 2 rules, 1 info, 2 changes of rules | `TypeOK`, `InfoAddsUp`, `ContentIsFirst`, `DispatchesAdvance`, `ImplementsDelivery`, `DispatchesEnd` |
| `deploy` | 2 scripts, 2 builds, `latest` and another tag, `USE_VPC` true and false, 2 health checks | `TypeOK`, `ChecksItsOwn`, `StartsMigrated`, `ScriptsAdvance`, `ScriptsEnd` |
| `deploy_update` | as `deploy`, 1 script, `USE_VPC` false | `AppMigrated` is **violated** |

*Why the bounds are enough.* The hazards are pairs: a reader and a writer, or two writers.
Two requests make every pair. Two logins tell an earlier session from a later one; a second
password generation makes the version go beyond 2; three menus make a walk of more than one
step and a cycle that two moves close (two suffice for `FoundIsShown`, as `SearchesShowAll` infers it
from `CyclesComeLate` state by state); two dictionary rows are two defaults; two codes are one
and its successor, which is what a late `del` confuses; two names and a page of one row make a
second page that a removal empties (`page` takes no part in what else is checked, so that the
first page would add nothing). Two marks tell a button's old mark from its new one. Two rules, of which each may have an address or none, and
a mail server that takes or refuses each mail, give every answer of `triggerEvent`; rules,
their info and the status change between any two of its steps. Two builds are the old one and
the new one, and two scripts every overlap; one tag besides `latest` is that of a commit as
long as one build has it, and one that was pushed again when another gets it. The health check
gives up after two failures instead of ten.

*What the runs identify.* Requests, marks, types and names that are interchangeable are
symmetric. `permissions` also has a VIEW (`Seen` in `MCPermissions`): of a copy the properties
already excuse, only that there is one is kept; of a lookup that a write has overtaken, only
what its next queries are asked with. Neither decides which steps are possible, later steps
replace what is dropped or never read it, and the properties do not look at it: two states with
one view have the same successors up to the view, and both satisfy the invariants or neither.

*What the bounds leave to the theorems of section 4.* Two administrators who change one
user's roles, or one of them a role and the other who has it, at a time (the hazards at
`user/user.service.ts:621`, `role/role.service.ts:236` and `418`; `CopyIsCurrent`,
`RolesAsAskedWhenApart`), dictionary rows that are defaults beside a cached list
(`dict/dict.service.ts:202`; `DictionaryProofs!ListRefined`), three requests in one session, two names of one type, filters that
match some of the accounts only, two dispatches or two toggles at once, and rules with more
than one address are beyond the state space of these runs; the theorems cover them for every
number.

*What the runs say of the code.*

- `LogoutFinal`: it takes two late writes to undo a logout, a refresh that stores its token
  over the deleted one, and a password change that found no version and writes 1.
- `PasswordCurrent`, `TokensPaired`: tokens of old passwords or earlier clients come back
  only through a named late login or refresh, or a `changePassword` cut in half.
- `DisabledOut`: a disabled user is served from `user:info` only if a login or cache fill
  that had read the row earlier came late, or the update failed before it cleared.
- `SpentStaysSpent`, `CodeKept`: a used code never returns; a code that was mailed is lost only
  to the `del` of a request that had read its predecessor, or to a send of the next one that
  ends between its `del` and its `set` (`auth/services/verification-code.service.ts:62`, 83).
- `CyclesComeLate`, `WalksClimb`: a cycle has a menu whose walk another move overtook; without
  one, each query of a walk leaves strictly fewer menus above it, and a step of another request
  leaves no more unless it moves a menu.
- `ImplementsListStore`: a list that was read between a menu's insert and its buttons', or
  before a write that has returned, is stale: its writer has yet to clear the key, or the
  reader stores it late, or the writer is gone. Nothing else makes it so.
- `CachedIsCurrent`, `AllowedIsGranted`: the copy the guards read is what the tables say,
  save for late fills and for the writers that clear nothing. It excludes, for instance, that
  a role assigned between the write and the look-up of users in `assignRolePermissions`
  leaves an old copy.
- `FoundIsShown`: every menu that a search finds is in the tree it gets, at the top when its
  parent was not found; only rows on or below a cycle vanish, so that the console cannot show
  the cycle it would take to undo.
- `DefaultsComeLate`, `TypesUniform`: two defaults, or two names, in one type need an overtaken
  request or a row moved or renamed by itself. The second is stated of `buildDictTree`: a type
  is one node of the tree.
- `SharedEmailNeedsOverlap`, `PagesAddUp`: two self-made accounts with one address registered at
  overlapping times; a page is wrong for its total only if an account was written between
  its two queries.
- `InfoAddsUp`: an info says 0 of 0 for good if its dispatch was cut or its statistics could not
  be written; else it says what its logs say, but for mails of rules that keep no record
  under an info that another rule asked for, and of logs that could not be written.
- `ContentIsFirst`: the info's content is that of the first rule with a content, not of the
  first rule, and stays so whatever the later rules send; when its write fails, that of the
  next rule with a content is written in its place, and only when none of these writes works is
  there none.
- `DispatchesAdvance`: a failed mail, log, content or script still brings a dispatch on: nothing
  is tried again, and no rule, info or log that disappears under it sends it back.
- `ScriptsAdvance`: a failed health check uses up a try, and no other script gives it back.
- `StartsMigrated`, `ChecksItsOwn`: for the webhook, and for `update.sh` without a tag, a build
  that starts without its migrations takes a second script between two steps of the first. So
  does a health check that approves another build than the script pulled, but for two cases
  that docker-compose is not told of: a tag given to `deploy-from-registry.sh` by hand, and
  `USE_VPC=true`, which pulls the image under a name that `docker-compose.prod.yml:90` does not
  use. With it one script alone starts what the public name happens to be on the host and
  approves that; `StartsMigrated` holds in this case too.

*Disagreements.* `session_reset`: an administrator's new password leaves old tokens valid,
against `src/src/common/constants/redis-key.constants.ts:26`. `menu_path`: a move to the top
level looks for the path under the old parent, against `menu/menu.service.ts:254`.
`deploy_update`: `update.sh`, called with the tag of a commit as CI calls it, migrates before it
exports the tag. docker-compose then takes the image `latest` of the host, which this script
does not pull, and the new build starts without its migrations, against the deployment notes
(`src/notes`, "github action自动化部署", line 96: the migration makes sure that the structure of
the database is the newest). The causes are proved to be the only ones (section 4): a token that should be dead is older than
an unbroken series of administrators' passwords (`OnlyResetsLeaveTokens`); paths collide, where
writers do not overlap, by moves to the top level (`PathsOwnWhenApart`); a build runs without
its migrations by a tag of its own in `update.sh` or a tag moved under a script
(`RunsMigratedWhenOrderly`). Noted while modelling and not run: a code can be accepted twice by
two requests that both read it before either deletes it
(`auth/services/verification-code.service.ts:128`); a registration that is refused after its
code was verified has lost the code (`auth/auth.service.ts:415`); `USE_VPC=true` deploys an
image that was not pulled (`src/scripts/update.sh:98`, above); roles with buttons and no menu
end up without buttons (`user/user.service.ts:179` against the comment at 268);
`updateDictType` takes the name of another type, which `create` refuses
(`dict/dict.service.ts:457`).

*Fairness.* There are two liveness properties. `DispatchesEnd` assumes weak fairness of
`Dispatching(d)`: Node resumes a request whose query was
answered, and the timeouts of nodemailer and of the script runner answer for the mails and
scripts that hang. `ScriptsEnd` assumes weak fairness of `Running(j)`: the shell goes on to
the next command, and a docker command works or fails. Nothing makes requests arrive, rules
change, or a script be started; nothing makes the app come up.

*Deadlock.* `registration` and `notice` turn TLC's test for it off: once all codes are issued and used,
or all rules, infos and changes are spent, nothing may be left to do. The other systems never
stop.

## 4. What is proved

For all values of the constants, i.e. any number of requests, logins, codes, menus, roles:

| Theorem | Says | Along |
|---|---|---|
| `SessionProofs!TypeCorrect` | `TypeOK` | inductive as it stands |
| `SessionProofs!TokensStayPaired` | `TokensPaired` | inductive with `TypeOK`: a refresh that stores over another login's token is marked late |
| `SessionProofs!LogoutIsFinal` | `LogoutFinal` | after a logout there is no refresh token; who still holds one is late; the version is 0 or was bumped (`ClosedInv`) |
| `SessionProofs!DisabledStaysOut` | `DisabledOut` | `InfoSteps`: which steps store info or end the row's life |
| `SessionProofs!PasswordsStayCurrent` | `PasswordCurrent` | `PasswordInv`: between its halves a change has left a version other than 1, so that neither order of the halves revives a token |
| `SessionProofs!OnlyResetsLeaveTokens` | if `PasswordModifiedInvalidates` fails, the token is older than the password and administrators chose all passwords since | tokens are never ahead of the row (`NotAhead`), and `PasswordCurrent` |
| `SessionProofs!LogoutFinalWithoutRefresh` | if no logout finds a refresh under way, no token is stored after it until the next login | `ClosedQuietly`: nor does a request hold one |
| `SessionProofs!KeysAgreeWhenApart` | if requests do not overlap, the tokens are of one login, and a disabled user's info goes unless the update was cut | what the one request has read still holds when it writes (`ReadsHold`) |
| `RegistrationProofs!TypeCorrect` | `TypeOK` | |
| `RegistrationProofs!SpentCodesStaySpent` | `SpentStaysSpent` | codes are issued in order: what is stored is newer than any code spent, or still unspent in the hands of those about to delete it |
| `RegistrationProofs!SharedEmailsOverlapped` | `SharedEmailNeedsOverlap` | a request past its look-up knows all accounts of its address that were there |
| `RegistrationProofs!PagesAlwaysAddUp` | `PagesAddUp` | between its two queries a request that nothing shifted holds what the other one would answer now (`PagesFit`); then the size of a window is that of an interval |
| `RegistrationProofs!CodesAreKept` | `CodeKept` | only the last code of a key is ever stored; what lapsed, and what a broken-off send deleted, is on record (`LapseInv`) |
| `RegistrationProofs!CodesSpentOnceWhenApart` | a code is accepted once at most, if verifications of one key do not overlap | nobody spent a code that somebody is about to spend (`OnceInv`) |
| `RegistrationProofs!CodesKeptWhenApart` | a code is lost by use or lapse only, if none is sent during a verification of its key, but to a send that is, or ended, between its `del` and its `set` | what a verification is about to delete is what it read (`OwnInv`) |
| `RegistrationProofs!AddressesOwnWhenApart` | who registered shares the address with nobody who did, if registrations of it do not overlap between look-up and insert | an address about to be registered is not taken (`AddressInv`) |
| `ListStoreProofs!TypeCorrect`, `StaleIsExplained` | shape; a stale list has a writer about to clear, or came late | inductive with `TypeOK` |
| `MenuTreeProofs!TypeCorrect` | `TypeOK` | with `JobInv`: a request at a step has settled what the step uses |
| `MenuTreeProofs!OnlyLateMovesCycle` | `CyclesComeLate` | `WalkPreserved`: a walk no move overtook has passed an ancestor path that does not hold the menu; so a move that closes a cycle had one before (`MoveKeepsCyclesLate`) |
| `MenuTreeProofs!SearchesShowAll` | `FoundIsShown` | the rows that are found and not shown hang under one another: they hold a cycle (`CyclesComeLate`) |
| `MenuTreeProofs!WrittenPathsAreOwn` | `PathsChecked` | a request at its write, not overtaken, knows that its path is free, and where its menu hangs (`PathKnown`) |
| `MenuTreeProofs!ListRefined` | `ImplementsListStore` | `ListSteps`: each step is a step of `ListStore` or leaves it alone; `create`'s two statements are two writes of it |
| `MenuTreeProofs!MenuListIsExplained` | a stale list of menus has a writer about to clear it or between `create`'s two writes, or came late, or lost its writer | `ListRefined` and `ListStoreProofs!StaleIsExplained`, instantiated |
| `MenuTreeProofs!WalksComeCloser` | `WalksClimb` | the row a walk stands at, or one above it, would else hold a cycle, and no move came late |
| `MenuTreeProofs!MovesApartKeepTheForest` | no cycles, and every found row is shown, if moves do not overlap | no walk is ever marked overtaken (`Unmarked`) |
| `MenuTreeProofs!PathsOwnWhenApart` | a written path is its row's own, moves to the top level excepted, if creates and updates do not overlap | `PathsChecked`, with nothing overtaken |
| `PermissionsProofs!TypeCorrect` | `TypeOK` | inductive as it stands |
| `PermissionsProofs!CopyIsCurrent` | `CachedIsCurrent` | a lookup no write has overtaken holds at each step what the tables say (`LookOK`); a copy that is not current has a writer that will delete it (`Owes`), or was stored late, or is recorded in `unswept` |
| `PermissionsProofs!OnlyGrantedAllowed` | `AllowedIsGranted` | from the same invariant: a lookup goes on with enabled roles only |
| `PermissionsProofs!RolesAsAskedWhenApart` | an update leaves exactly the roles it names (`RolesAsAsked`), if writers of `user_roles` do not overlap | between its delete and its insert an update finds no roles left (`BindOK`) |
| `DictionaryProofs!TypeCorrect` | `TypeOK` | with `RowsOK` and `JobsOK`: rows hold proper types, a creating request has settled its type |
| `DictionaryProofs!TwoDefaultsComeLate` | `DefaultsComeLate` | a request no write has overtaken still knows what its queries found: the other defaults are off, some row has its type's name and status, no row has its new type (`Known`) |
| `DictionaryProofs!TypesStayUniform` | `TypesUniform` | the same invariant |
| `DictionaryProofs!ListRefined` | `ImplementsListStore` | `WriterListSteps`, `ReaderListSteps`: each step is a step of `ListStore` or leaves it alone |
| `DictionaryProofs!DictListIsExplained` | a stale list of rows has a writer that has yet to clear it, or came late | as for menus |
| `DictionaryProofs!OneDefaultWhenApart` | one default per type, if requests do not overlap and no update moves a default silently | `DefaultsComeLate`, with nothing overtaken (`ApartOvertakesNone`) |
| `DictionaryProofs!OneNodeWhenApart` | one node per type in every tree, if requests do not overlap and no update renames or moves a row by itself | `TypesUniform`, likewise |
| `NoticeProofs!TypeCorrect` | `TypeOK` | with `Stands`: a dispatch at a step holds counts that fit it, so that `left` never goes below 0 |
| `NoticeProofs!StatisticsAddUp` | `InfoAddsUp` | `AddsInv`: until it ends, the counts of a dispatch are those of the logs under its info; an info is one dispatch's only, and is new when it comes (`FreshInv`) |
| `NoticeProofs!ContentsAreFirst` | `ContentIsFirst` | `ContentInv`: while `isFirstRule` holds nothing is written, and what is owed is what the rule at work is about to write; afterwards the content is there for good |
| `NoticeProofs!DeliveryRefined` | `ImplementsDelivery` | with `Stands`: the mail sent is one of those pending, and is so no more (`NextMail`); a rule that begins moves its mails from those to come to those at work (`NextRuleOf`) |
| `NoticeProofs!DispatchesComeCloser` | `DispatchesAdvance` | one lemma per step on what it leaves of rules, addresses and writes |
| `NoticeProofs!DispatchesGoOn` | a dispatch under way has a rule whose turn it is, an address to write to | `HasRules`; the earliest of the rules to come exists (`LeastNat`) |
| `DeployProofs!TypeCorrect` | `TypeOK` | inductive as it stands |
| `DeployProofs!StartsAreMigrated` | `StartsMigrated` | `ReadyMigrated`: what a script at its start is about to run has its migrations, unless its tag was moved since |
| `DeployProofs!ChecksSeeTheirOwn` | `ChecksItsOwn` | `PulledNamed`: what a script pulled, as far as docker-compose knows, the tag it starts still names on the host, unless another crossed it |
| `DeployProofs!ScriptsComeCloser` | `ScriptsAdvance` | the measure `Effort`: commands and tries left |
| `DeployProofs!RunsMigratedWhenOrderly` | `AppMigrated`, if every start is orderly | `ReadyMigrated` |
| `DeployProofs!ApartScriptsCheckTheirOwn` | a script checks the build it pulled, if scripts do not overlap, those run by hand with a tag or with `USE_VPC` excepted | `ChecksItsOwn`, with nothing moved or crossed (`NoneDisturbed`) |

The assumptions are those named in the modules (`SessionConstants`, `MenuConstants`, ...): counters are
natural numbers, sets that must differ are disjoint, sets that must have a member have one.
Nothing else is assumed; TLC evaluates the same assumptions in every run.

The plain properties are not inductive: each says something of Redis or of the table that
depends on what requests in flight still hold. The strengthenings all have one form: "a
request past its check, that no write has overtaken since, knows the truth". The proofs have
a step per action and, for the larger ones, a lemma that sorts the actions into the few that
write the variables in question and the rest.

*What the exceptions come from.* The safety properties name exceptions, and an exception could
hide more than it says. The theorems named `...WhenApart` (and `MovesApartKeepTheForest`,
`ApartScriptsCheckTheirOwn`, `RunsMigratedWhenOrderly`, `LogoutFinalWithoutRefresh`) show that it does not: take away the overlap
that the exception is about, and the promise holds outright. Their hypotheses (`[]MovesApart`,
`[]VerifiesApart`, `[]ScriptsApart`, ...) are not claims about the code, which does nothing to keep
requests apart; they say what a lock, a transaction or an atomic command would have to
provide, and that it would suffice. The code meets them whenever requests come one after the
other, whatever they do. Where an exception is not an overlap (`DefaultsStay`, `RowsStay`: updates of a
single row of a type; a move to the top level; a send that is, or ended, between its `del` and
its `set`; a `deploy-from-registry.sh` run by hand with a tag, or `USE_VPC`) it stays in the
statement. None of these needs an instance: `permissions`, for one, has a single
administrator, so that overlaps of writers are out of its reach.

*Composition.* `ListStore` is proved about once. `MenuTreeProofs` and `DictionaryProofs` instantiate its
theorems under the refinement mapping and carry `StaleIsExplained` to both services; the
hypotheses `Init` and `[Next]_vars` of the abstract store are what `ListRefined` shows.

*Termination.* The liveness properties need fairness, and the prover has no rules for it. What
is proved is the other half of the argument: every step that fairness makes happen shortens what is left
(`WalksComeCloser`, `ScriptsComeCloser`, `DispatchesComeCloser`), and a dispatch never lacks a next step
(`DispatchesGoOn`). That a set of rules has an earliest one takes an induction; as the library's
induction theorems cannot be used with the provers at hand, `LeastNat` takes it from the
well-foundedness of `<` as a relation (`WFMin`, `NatLessThanWellFounded`), which can.

Only model-checked: the liveness properties `DispatchesEnd` and `ScriptsEnd` themselves, that is, the step from these measures to "ends" under weak fairness; and the
disagreements with comments and notes, which are counterexamples.

## 5. What is not modelled

- *A new code for a role* (`role/role.service.ts:193`): the guards compare codes; a role keeps
  its code in `Permissions`.
- *The order and the columns of lists and trees*: sorting, titles, icons, time stamps. A menu is
  its parent and path, a rule its number of addresses.
- *Pages of other lists* than the accounts: the same two queries over rows that no model
  counts.
- *The answer of `triggerEvent` to `sendVerificationCode`*, which ignores it: `Registration` takes
  the code for mailed, `Notice` says what else may have happened.
- *What a script of a rule does*: it runs in a context of its own, and its result, a content or
  none, is all that comes back.
- *`deploy.sh`, `build-and-push.sh`*: run by hand on a machine of their own.
- *The test module* (one row, one statement), validation DTOs, exception filters, interceptors
  and loggers (no state), Swagger and bootstrap. `@Throttle` decorators have no effect, as no
  `ThrottlerModule` is registered.

What would be next, in this order: larger instances of `Notice` (two dispatches, a rule with
two addresses) on a bigger machine, where only the theorems reach now; codes of roles; one
model of `sendVerificationCode` over `Registration` and `Delivery`, with the code lost on the way.

## 6. Running

    tlc -workers 2 -config MenuTree.cfg MCMenuTree
    tlapm MenuTreeProofs.tla

Each run ends within about four minutes on two cores.
