# A verification of ServiceDesk

TLA+ modules that model ServiceDesk: the server (`src/app`: FastAPI, SQLAlchemy
on PostgreSQL, Celery) and the browser program (`src/frontend/src`: React with
TanStack Query), TLC instances that check them, and TLAPS proofs of the properties
that matter most.  `PROJECT.json` maps every definition to the lines it was
translated from, and lists the components, the runs, the theorems, the hazards of the
code and the place where the code disagrees with its own words.

Run inside this directory:

    tlc -workers 2 -config TicketsSerial.cfg TicketsMC   # any run of PROJECT.json
    tlapm TicketsProofs.tla                              # the proofs of a module

## 1. The system

Paths of the server are under `src/app`, those of the browser under `src/frontend/src`.

| Component | Source | State | Operations | What is hard about it | Modelled in |
|---|---|---|---|---|---|
| Ticket requests | `services/ticket_service.py`, `api/v1/ticket.py` | `tickets`, `ticket_owners`, `ticket_tags` | create, update, change status, assign, claim, soft delete, set tags | every request decides on what it loaded; rows carry no version; the ORM writes only changed columns | `Tickets`, `TicketWorkflow` |
| Permissions | `core/permissions.py`, `api/deps.py` | none: pure rules over a loaded user, team ids and ticket | can_view, can_edit, can_assign, can_comment, visibility_conditions, ... | the same rule in Python, in SQL, and a third time in the pages | `Permissions`, `Offers` |
| Team membership | `services/team_service.py` | `team_memberships` | add, remove, change role | memberships decide who sees and who may own a ticket | `Tickets` |
| SLA sweep | `workers/sla_tasks.py`, `workers/celery_app.py` | `sla_breached`, alerts | one sweep a minute | overlapping and redelivered sweeps, rows locked by requests, crashes | `SlaSweep` |
| Sessions | `services/auth_service.py`, `core/security.py`, `api/v1/auth.py` | `refresh_tokens`, `users.sessions_valid_from`, password hash | login, refresh (rotation), logout, password change and reset | a token used twice, logout racing a rotation, crash between two commits | `Sessions` |
| Accounts and roles | `services/user_service.py`, `services/role_service.py` | `users`, `roles`, `role_permissions` | create, edit, delete a role; assign a role; disable, enable | the ladder rule read on a snapshot | `Roles` |
| Conversation | `services/comment_service.py` | `comments`, notifications | create, edit, delete a comment; mentions | who may read an internal note; three queries for one audience | `Permissions`, `Notices`, `Files` |
| Notifications inbox | `services/notification_service.py`, `services/oversight.py`, `api/v1/notifications.py` | `notifications` | who is told; read; unread stream | a counter pushed by a doorbell | `Notices`, `LiveUpdates` |
| Files | `services/attachment_service.py`, `core/storage.py`, `workers/file_tasks.py` | `attachments`, the upload directory | upload, delete, sweep of orphans | a file and its row change in two steps | `Files` |
| Realtime | `realtime/*`, `api/v1/realtime.py`; browser `realtime/*` | one listener and a hub per process, bounded queues | NOTIFY, dispatch, subscribe, resync, reconnect | gaps of the listener, queue overflow, restarts, text cut anywhere | `LiveUpdates`, `Sse` |
| Browser session | browser `api/client.ts`, `api/tokens.ts`, `auth/AuthProvider.tsx` | tokens of a tab, the shared refresh token, the user shown | sign in and out, restore, refresh once, retry once | several tabs, a lost answer, an answer after the next sign-in | `BrowserSession` |
| Browser forms | browser `pages/**`, `components/*` with a `useMutation` | fields, a mutation, the query of the row | save, close, reopen | slow, lost and reordered answers; a fetch older than a save | `Forms` |
| Browser lists | browser `pages/app/TicketsPage.tsx`, `ActivityPage.tsx` | the URL, the query cache | filter, page, Back, Load more | late answers, a list that grows while it is paged | `TicketUrls`, `Lists` |
| Browser pages | browser `App.tsx`, `layouts/AppLayout.tsx`, `pages/app/*` | none of their own | menu, guards, cards | offering what the server refuses | `Offers`, `TicketUrls` |
| Ticket references | `ticket_service.py:_next_reference` | `tickets.reference` | next number of the year | a maximum over padded strings | - |
| Catalog cache | `core/cache.py`, `api/v1/catalog.py` | Redis keys with a TTL | read through | nothing calls `invalidate` | - |
| Rate limits, email, analytics, shell | `core/rate_limit.py`, `workers/email_tasks.py`, `services/analytics_service.py`, `main.py` ... | | | | - |

How they interact: a request opens one database session (`db/session.py`),
READ COMMITTED and without row versions.  It reads its caller, the teams of the
caller (`load_team_ids`) and the ticket; `TicketPermissions` judges these
values; the service changes the objects, and the commit sends the changed
columns, the audit entry, the notifications and a NOTIFY in one transaction.  The
listener of every server process turns the NOTIFY into messages for the sockets whose
rooms match; the browser takes a message as a doorbell, and fetches again what it
shows.  Celery workers write to the same tables, and to the upload directory.

What makes each correct, in a sentence:

- *Tickets*: one requester, at most one assignee, and the assignee can work on
  the ticket; closed is final; stamps match the status; team and due date follow
  the category; nobody takes a ticket from an agent without the right to.
- *Permissions*: a listed ticket can be opened, and the other way round; a page
  offers what the service accepts, and nothing else.
- *SLA sweep*: each breach is announced once, to the one who owns it; no late
  ticket is forgotten.
- *Sessions*: one live token per family, a reused one ends the family; a logout
  and a disabled account leave nothing alive; a reset link works once.
- *Roles*: nobody hands out a power they lack; somebody can always manage roles.
- *Notices*: whoever is told may read it, and is told once.
- *Files*: no row without a file, and a file without a row disappears.
- *Realtime*: whoever may see a change hears of it or is told to reload.
- *Browser session*: no call waits for ever, no spent token is shown, and the token in
  use is that of the user on the screen.
- *Forms*: what was announced as saved was done, is shown, and is not undone by an
  earlier Save.
- *Lists*: what is shown answers the URL above it; a feed skips and repeats nothing.

## 2. The modules

| Module | What it is |
|---|---|
| `Permissions` | the rules of `core/permissions.py` as pure operators |
| `TicketWorkflow` | what the ticket service promises of the life of a ticket: the abstract specification |
| `Tickets` | the ticket store, the team memberships, and the requests that change them |
| `Offers` | what the ticket page and the other pages offer, against what the service accepts (extends `Tickets`) |
| `Notices` | who is told of a comment or a change of a ticket (extends `Offers`) |
| `TicketsMC` | constants of the instances of `Notices`, and so of `Tickets` |
| `TicketsProofs` | theorems about `Tickets`, `Offers`, `Notices` and `SlaSweep` |
| `SlaSweep`, `SlaSweepMC` | the sweep workers beside the requests of `Tickets` |
| `Sessions`, `SessionsMC`, `SessionsProofs` | signing in, refreshing, signing out, passwords and disabled accounts |
| `Roles`, `RolesMC`, `RolesProofs` | roles, their permissions, who has which, and the ladder rule |
| `BrowserSession`, `BrowserSessionMC`, `BrowserSessionProofs` | the session as a browser keeps it, in several tabs |
| `Sse` | the parser of Server-Sent Events, as operators |
| `LiveUpdates`, `LiveUpdatesProofs` | a change on its way from commit to screen (extends `Sse`) |
| `Forms`, `FormsProofs` | every form and dialog of the browser |
| `Files`, `FilesMC`, `FilesProofs` | uploaded files, their rows, and the sweep of orphans |
| `TicketUrls` | the addresses of the ticket list, as operators |
| `Lists`, `ListsProofs` | the ticket list and the activity feed in the query cache (extends `TicketUrls`) |

### Permissions

`p` is what a request knows about its caller (the user and the teams read for
it), `tk` a ticket as it was loaded.  Both may be out of date: the rules do not
know, and the modules that use them decide when the values were read.
`Require...` are the gates at the start of the endpoints.  `Grants` gives every
account the permission codes of its role.  `VisibilityConditions` is the SQL
side, a set of rows; `CanView` is the Python side.

### Tickets

| Variable | In the code |
|---|---|
| `tickets` | rows of `tickets`, with the users of `ticket_owners` by role |
| `members` | `team_memberships` |
| `now` | the clock, in hours of SLA time |
| `txn` | for every request slot, what it has read and is about to write |
| `effects` | what the last step committed besides rows (audit action, actor, NOTIFY rooms); no action reads it |

A request occupies a slot: `...Load` is everything up to the last read that
can become stale (caller, teams, ticket, gates, early returns), `AssignCheck`
and `MoveCheck` are the further reads of the two handlers that read memberships
while they run, `...Commit` sends the UPDATE, INSERT and DELETE statements.
`CreateTicket` is one step, because nothing it checks can change under it.
Commit applies to the rows as they are then: an UPDATE sets only the columns
whose value differs from the loaded one (SQLAlchemy's unit of work), a DELETE of
an owner row names the row that was loaded, an INSERT of a second assignee fails
on the unique index, and the request ends like any other failure in `Abort`.
A category change flushes its UPDATE before it commits, so other writers of the
row wait (`RowLocked`).

One slot is the serial service, two slots are two overlapping requests.

Abstracted: title, description, tags and priority (no property depends on them; a
priority edit is `EditLoad`), watchers (no code creates one), audit rows other
than their action, and 400/403/404 answers (a refused request changes nothing, so it
has no step).  A request loads its row
and its owners in two queries and they are one step here.  Accounts and roles
are constants in this module.

### SlaSweep

Extends `Tickets` with workers.  `SweepSelect` is `SELECT ... ORDER BY
sla_due_at LIMIT BATCH_SIZE FOR UPDATE SKIP LOCKED` and the owners of the rows;
it may skip a row that a request has written but not committed, and surely
skips one that a category change has flushed.  `SweepCommit` flags the rows and
writes the alerts, `SweepCrash` loses the batch and its locks.  A request that
needs a row which a sweep holds waits: an UPDATE of the ticket, or an INSERT of
an owner, whose foreign key locks the ticket.

### Sessions

| Variable | In the code |
|---|---|
| `accounts` | rows of `users`: `is_active`, `sessions_valid_from`, and which password an account has (every `set_password` makes a new hash) |
| `refresh` | rows of `refresh_tokens`, each with the moment `iat` of the access token issued beside it |
| `links` | the fingerprints in the reset links that were mailed |
| `now` | the clock; every reading gives a new moment |
| `txn` | for every request slot, what it has read and is about to write |
| `effects`, `history` | observers: what the last step committed; the families that a reuse ended, and the accounts whose password change died half-way |

A request reads (`Login`, `Refresh`, `Logout`, `Disable`, `Enable`, `ConfirmReset`,
`ChangePassword`, with the refusals as guards), and then:

- `Issue` reads the account again (refresh) and the clock, `IssueCommit` inserts the
  new refresh token and revokes the one that was given;
- `PasswordCommit` commits the new hash alone, and a sign-out follows it;
- `RevokeStatement` is the UPDATE that logout, a password change, a disabled account
  and a reused token share: it catches the live rows of its scope at that moment.
  `RevokeCommit` makes them revoked, with `sessions_valid_from` and `is_active` where
  the caller sets them.  The clock is read just before the statement, in one step
  with it here;
- `Abort` is an error or a crash: what was committed before it stays.

Abstracted: accounts are verified, a wrong password or signature and an expired token
or link only refuse a request (no step), and an access token is the `iat` of its
pair.  `born` (the commit) and `under` (the password at login) of a token are not
columns; the properties read them.

### Roles

| Variable | In the code |
|---|---|
| `roles` | rows of `roles` and their `role_permissions`; a row is created once |
| `accounts` | `role_id` and `is_active` of `users` |
| `txn` | for every request slot, what it was judged by (`held`, the actor's permissions) and is about to write |
| `effects` | an observer: the actor of the last commit and what it held when judged |

Each of the five endpoints is a `...Load` (gate, refusals, ladder rule) and a
`...Commit`.  What the commit meets is what the database enforces: the rows of
`role_permissions` that differ from the loaded list are inserted and deleted one
by one, an insert needs the role to be there and the row not to be, a role with
users is not deleted (`users.role_id` is RESTRICT), and its grants go with it
(CASCADE).  A commit that a constraint refuses ends in `Abort`.

Two statements of the ladder rule are told apart.  `EditsWithinReach` is what the
code compares: an edit changes only permissions that its actor held *when it was
judged*.  `NoLadder` is what the rule is for: after any commit no account has gained
or lost a power that the actor does not hold *at that moment*.

Abstracted: names and descriptions (a role that is created again under an old name
is another row), audit entries, the sessions of a disabled account (`Sessions`).

### Offers and Notices

Neither has a variable: both are operators over a state of `Tickets`, and their
properties are about every state of the ticket store.

`Offers` sets `Offered(me, tk)`, the requests whose controls the ticket page renders
(`useAbilities` of `TicketDetailPage.tsx`, with the page's own copy of the transitions in
`labels.ts`), beside `Accepted(p, tk)`, what the service does not refuse.  The two must be
equal but for two requests that the property names: `extra_data`, which no page edits, and
a claim by somebody who raised the ticket and is not in its team, which the page offers
and the service refuses.  `PagesAgree` does the same for the pages: whatever the menu
leads to opens (`NAV` against `Routes`), and whoever can open a page may make the
requests it makes (`Routes` against `Gates`).

`Notices` gives for each event the sequence of sets of users that the queries of the
service find: a user is told once for each set that contains them.  Comments name any
accounts, and who is mentioned, who owns and who oversees the ticket are three queries.

### BrowserSession

| Variable | In the code |
|---|---|
| `sessions` | the server's pairs of tokens: their user, and whether each half still works |
| `stored` | `localStorage["servicedesk.refresh"]`, common to all tabs |
| `tabs` | what `tokens.ts` and `AuthProvider` keep in memory: access token, status, user |
| `calls` | the requests of a tab in flight, each sent, answered, denied, waiting for a refresh, or sent again |
| `flights` | the refreshes in flight: `refreshOnce`'s promise and who awaits it |
| `faults` | how many mishaps there were |

The actions are what the user does (`SubmitLogin`, `SignOut`, a page load, fetching, changing
the password), what the server does (one request at a time: the serial `Sessions`), and what
the tab makes of answers.  A call or a refresh may be lost before or after the
server handled it.  `NoReuse` and `ActsAsShown` are about a tab that is alone and met no
mishap (`faults = 0`): a lost call, a refresh that fails, a page load in mid-call, a sign-in
while a session is being restored, or a token that runs out before it is used.  Section 5
says what happens to the others.  A mistyped current password is a 401 like a token that is
not accepted, and the client answers both with a refresh and one retry
(`AnswerAuthorised`); a call of a disabled account is a 403, which it does not.

### Sse and LiveUpdates

`Sse` is the parser of `realtime/sse.ts` over lines and line ends; the network cuts a text
anywhere between them.  `LiveUpdates` follows one connection of one browser, a
`socket` (`/ws`, read by `useLiveUpdates.ts`) or a `stream` (`/notifications/stream`, read by
`useUnreadCount.ts`).

| Variable | In the code |
|---|---|
| `version` | what is committed: a count of the changes |
| `notices`, `listener` | NOTIFYs on their way, and the LISTENing connection of `listener.py` with `reconnecting` |
| `server` | the handler of the connection with its `Subscriber`: queue, `missed`, the count it read |
| `wire`, `parser` | messages between the two ends, and the text the parser holds back |
| `client` | the hook: attempt, socket, close code |
| `page` | the query of the page: what it shows, its fetch, and (an observer, `lost`) the last version that a fetch which gave up was to bring |
| `owed` | an observer: the last version that the browser must come to show |

A change is *owed* when it commits while the browser is subscribed, or while it is away
but will reload at its next `ready`.  Faults are a lost listener, a lost connection, a
restart of the server, an expired token and a fetch that fails: it is sent again, or gives
up, at once after a 4xx and after two retries otherwise (`main.tsx:14`), and nothing but
another message then begins a new one (`FetchFails`).

### Forms

All forms share one machine, a component with fields and a `useMutation`, a query that
shows the row, and the server.  They differ in the eight attributes of a table at the head
of the module (does the component live on when the dialog is closed, who hears a
success, what closes on success, is the button disabled, ...), one line for each kind of
form of the program; a behaviour picks one of the table and keeps it.

| Variable | In the code |
|---|---|
| `form` | which form: its attributes |
| `row` | the row on the server: whose Save it holds, and its version |
| `ui` | the form on the screen: open, which opening, typed in since the last Save |
| `saves`, `calls`, `answers` | the mutations, their requests and the answers on their way |
| `page` | the query that shows the row: what it shows and the fetch under way |
| `others`, `contested` | changes by others; an observer: others wrote, or a request was given up on |

### Files

| Variable | In the code |
|---|---|
| `disk` | the upload directory: the age of each file |
| `rows`, `comments` | `attachments`, and the comments they may belong to |
| `upload` | every upload: opened, written, flushed, committed or failed |
| `request` | deletions of an attachment or a comment: the paths that were read |
| `sweep` | runs of the orphan sweep: candidates, and what the table knew of them, chunk by chunk |
| `lost` | an observer: uploads of whose commit the answer was lost |

A flushed row holds a key lock on its comment, so a deletion of the comment waits for it.
The model assumes of time only that an upload in progress has not been silent for as long
as `MIN_AGE`, an hour (the guard of `Tick`): the server holds the whole body before it
begins to save, so this is an hour for writing to a local disk.

### TicketUrls and Lists

`TicketUrls` has the URLs of the ticket list as functions from parameters to values: what
each control, card, link and search field leads to (`Update` drops the page and a sort
that lost its text), what the page asks for, and what the server accepts.  A search text
is one character, some, or more than 100; the two dates are days, set one at a time.  The
controls reach every refusal of the server, and `Mistyped` says which of them are the reader's
own doing.

| Variable | In the code |
|---|---|
| `visible` | the tickets the reader may see, numbered in the order of the feed |
| `bell` | a change of them that has not been rung in the tab yet |
| `at`, `url`, `before` | the page that is open, its URL, and the rows kept on the screen meanwhile (`keepPreviousData`) |
| `cache` | the entries of the query cache: pages, stale, failed, the fetch under way |
| `staff` | whether the reader is staff: it decides views and cards |

`Read` is the server answering one request of a fetch, `Arrive`, `Refuse` and `Fail` are
what the cache makes of it, `Ring` is the doorbell of `useLiveUpdates`, `Travel` is Back or
Forward, `LoadMore` is the next page of the feed.  `Change` is a change that rings; `ChangeUnrung`
is one that does not: the reader joins or leaves a team, or loses a ticket outside their teams.

## 3. Runs

People of the instances: `eva` a requester, `ada` and `bob` agents of two teams,
`grace` an administrator.  Two categories, one per team, with different SLA hours.
In `Roles`, `grace` and `gus` are two administrators, or one and an agent whose role may
manage roles.

| Run | Instance | Shows |
|---|---|---|
| `tickets_serial` | 1 ticket, 1 slot, a requester, an agent, an administrator, members who come and go | the list agrees with the page; team and due date follow the category; an assignee meets a ticket it can work on; events ring for those concerned and nobody else; the pages offer what is accepted; whoever is told may read it, once |
| `tickets_race` | 1 ticket, 2 slots, two agents, one of whom may reassign: status, assign, claim, unassign, move, delete | one assignee, no theft, stamps match the status |
| `sla` | 1 slot, 2 workers, two agents of one team | a breach is announced once, and to the owner at the time; every late ticket is flagged, finished, deleted or given more time; one request at a time, the service implements `TicketWorkflow` (closed is final, stamps are set once) |
| `sessions_serial` | 1 account, 3 pairs, 1 slot, every endpoint | one live token per family, reuse ends the family, a sign-out or a disabled account leaves nothing that had begun, a link works once, an old password keeps nobody in (but after a crash between the two commits), an ended session stays ended |
| `roles_serial` | 2 administrators, 3 roles, 3 permissions, 1 slot, every endpoint | the ladder rule by its outcome, and no power loses its last active holder |
| `roles_race` | 2 administrators, 2 roles, 2 slots: create, edit, delete, assign | accounts keep a role that exists; an edit changes only what its actor held |
| `roles_last_holder` | 2 slots | **violated**: two managers edit each other's role, and nobody can manage roles |
| `browser_session` | 1 tab, 2 users, 3 pairs, 1 mishap | every waiting call will be woken; no spent token is shown; the token in use is the shown user's |
| `live_updates` | a socket or a stream, 2 changes, 2 faults, queues and wires of one message | what is owed is under way, and shown in the end, unless the fetch that was to bring it gave up |
| `forms` | each form in turn, 2 Saves, 2 openings, 1 change by somebody else | saved is shown; an earlier Save undoes no later one; what is announced was done; no dialog of the ticket page is closed by an old answer |
| `files` | a comment with 2 files, 2 deletions, 1 sweep, 2 faults (the theorem is about any number of each) | no row and no upload loses its file; an orphan is removed at last |
| `lists` | 3 tickets, pages of 1, one click to another URL, one change or fault | the server refuses nothing but what the reader typed; what is shown answers its URL and is current at rest; the feed has no gaps |

Bounds.  Tickets do not read each other, so one ticket shows every interaction of
requests; two slots are the smallest number that overlaps, and the
properties that hold with two are proved for any number (section 4).  The clock
of `sla` goes to the largest SLA plus one, so that a ticket can be late in each category;
and so that a second resolution or closing meets a later moment than the first.  In the
other runs of `Tickets` no property depends on it.
Accounts do not read each other either: one account.  Three token pairs are two
devices and one rotation, or one device and two rotations (a spent token, its
successor and a token in flight), which is what reuse detection tells apart; six
readings of the clock and three passwords let all of them be issued and ended.
Token pairs are interchangeable, so the runs of `Sessions` and `BrowserSession` use
symmetry (they check safety only).
For roles two actors are enough: one who acts and one who is acted upon, or two who
act upon each other.  Three permissions are the two gates and one that anybody may
hand out; the two built-in roles and one that can be created and deleted are the
fewest with which an account can be moved out of every role but its own.
In a tab, two users are one who leaves and one who comes; a second tab is only
another holder of the stored token, which one mishap (a reload) shows as well, and
all three properties are proved for any number of tabs, users and pairs.
A queue of one message is full with one, as the queue of 100 is with 100; two changes
are one under way and one that meets it; the second fault strikes the recovery from the first
(a fetch that gives up after a lost connection, or is retried and then gives up).
Two Saves are the pair that can be told apart, two openings the one that left an
answer behind.  Two files of one comment, looked up one by one, are a candidate that is known
and one that is not in two chunks.
Two tickets of three are there at first, with the gap in between them: a page ends before
a ticket that appears, and before or at one that goes.  Every URL that one control or link
leads to is reached, and the property looks one control further.  Back, Forward, Load
more and the answers are not bounded.

Deadlock is checked in `sessions_serial`.  The other instances may really stop, when the
clock is at its end, every ticket or file is deleted and nobody does anything more, so
their configurations do not check it; that nothing waits for ever is a property of its
own there (`LateIsFlagged`, `WaitingIsServed`, `NothingForgotten`, `OrphansGo`).

Fairness.

- `SlaSweep`: the clock goes on (`WF`); every request ends, by commit
  or by rollback (`WF`: a session is closed in any case, `db/session.py`); beat
  queues a sweep every minute and workers take it, but a sweep skips a row that is
  locked when it looks, so selection is enabled again and again rather than
  continuously (`SF`, per ticket); a worker may crash, and `task_acks_late` delivers
  again, so not every sweep crashes (`SF` on its commit).
- `LiveUpdates`: the event loops of both ends go on, a lost listener connects again (its
  loop retries for ever), a fetch and a refresh are answered or fail (`WF` each; a fetch may
  fail for good, and the property excepts it).  Faults are never required, and their number
  is bounded.
- `Files`: time passes, an upload that was begun ends, and beat starts a sweep every night
  (`WF` each).  Nothing is asked of the deletions: their processes may hang.

Every property has a slip (`..._Name` next to the definition it would replace, named
in PROJECT.json under `mutants`): a plausible mistake in the code that makes the
run fail.  Type invariants of the modules with proofs are proved and, but for that of
`LiveUpdates`, not run.

## 4. Proofs

`TicketsProofs` proves, for any sets of users, teams, categories, tickets and
requests, any roles, any clock, and any number of overlapping requests:

- `TypeCorrect`: `Spec => []TypeOK`.  Every later proof uses it.
- `OneHolderAlways`: one requester and at most one assignee.  `OneHolder` is not
  inductive: a commit deletes what its request loaded and inserts one user.  The
  strengthening `OwnersInv` adds that an assignment in flight names at most one new
  assignee, that it belongs to a ticket that exists, and that what it loaded is its
  own caller or its caller holds `ticket.reassign`.  The index
  (`SingleHolderIndex`) does the rest in `AssignCommit`.
- `NoStealAlways`: an assignee loses a ticket by its own hand, to a holder of
  `ticket.reassign`, or to a move.  From `OwnersInv`, by the cases of `Next`:
  nothing but an assignment's or a move's commit takes an assignee.
- `StampsAlwaysMatch`: stamps match the status.  `StampsInv` adds that a status
  change in flight brings the stamp it needs, or the row has it; no step takes a
  stamp away.
- `ListedIsViewableAlways`: the SQL conditions select what `can_view` admits.  No
  invariant is needed: it is true of any rows.

And, for requests that do not overlap, stated as `OneAtATime` (there is one request slot):

- `QueuedToItsCategorySerially`, `AssigneeJoinsTeamSerially`, `RoomsMatchViewersSerially`,
  `ClosedIsFinalSerially`.  Section 5 has the overlaps that break them, so the assumption
  cannot go.  What carries the proofs is `AsLoaded`: the ticket and the team are, when the
  request in flight commits, as they were when it judged them.  `RowsInv` adds what the rows
  keep between requests: the queue and the due date of the category, and that the row of a
  ticket which is not there is blank.
- `ImplementsWorkflowSerially`: with the mapping of the `INSTANCE` in `Tickets`, Init maps to
  the initial state of `TicketWorkflow` and every step to one of its steps or to a stutter,
  one lemma for each action that commits.

Of what is built on `Tickets`, for the same constants:

- `OffersMatchRulesAlways`: page and service agree, control by control (`StatusAgrees`,
  `EditAgrees`, `ButtonsAgree`, ...) and page by page (`PagesAgreeForAll`), for any roles and any
  ticket that the page can show.
- `ToldOnceAlways`: the three audiences of a comment are disjoint, miss nobody and leave
  out the author, for any teams and any number of readers.
- `ToldMayReadAlways`: whoever is told may read it.  This needs what the code's rules keep
  true of members: `MembersInv` says that the members of a team, and whoever a request in
  flight is about to add, are staff.

and, beside the sweep, for any batch size and any number of workers:

- `SweepTypeCorrect`: rows and requests keep their types beside the sweep.
- `AlertedOnceAlways` and `OwnerIsAlertedAlways`.  Neither is an invariant: both are about the
  step that commits a sweep.  `HeldInv` says what the row locks give it: no row is held by two
  sweeps, and a row that is held is there, is not flagged, and has at most the assignee that the
  sweep read.  Of the requests only an unassignment goes on meanwhile (`WaitsForSweep`); a
  creation cannot touch a row that exists.
- `ImplementsWorkflowBesideSweep` and `QueuedToItsCategoryBesideSweep`: the two serial results
  hold beside any number of sweeps.  A sweep writes a flag that neither of them reads
  (`SweepLeavesRows`), so `SerialInv` is kept by its steps (`SerialBesideSweep`).

`SessionsProofs` proves, for any accounts, tokens, requests, calls and bounds:

- `TypeCorrect`: `Spec => []TypeOK`.
- `LiveIsNewerAlways`: a refresh token that works was committed after the sign-out
  that `sessions_valid_from` records.  This is what the races of section 5 leave of
  "nothing survives a logout".  `LiveIsNewer` is not inductive: a commit writes a moment
  read earlier.  `SignOutInv` adds that a sign-out in flight has caught every token of its
  account that is live, or the token was committed after its moment, and that no
  recorded moment lies ahead of the clock.
- `OneLivePerFamilySerially`, `ReuseEndsFamilySerially`, `OldPasswordIsOutSerially`,
  `SignedOutIsOutSerially`, `LinkWorksOnceSerially`, `EndedStaysEndedSerially`: for requests
  that do not overlap; section 5 has the overlap that breaks each.  `SerialInv` has a part
  for what is followed: the live token of a family and the request that is about to rotate it
  (`FamilyInv`), the access tokens and the moment before which they are refused
  (`AccessInv`), and the password under which each token was issued (`PasswordInv`); and
  `Fresh` says that what the request in flight has read is so still.

`RolesProofs` proves, for any accounts, roles, permissions and calls:

- `TypeCorrect`, `RolesExistAlways`, `EditsWithinReachAlways`: for any number of
  overlapping requests.  `EditInv` is the strengthening behind the last: an edit in
  flight asks for nothing beyond what its actor held.
- `NoLadderSerially`, `SomebodyHoldsSerially`: for requests that do not overlap, stated
  as `OneAtATime` (there is one request slot).  `LadderInv` says that what the request
  in flight was judged by is still so: its actor is active and holds what it held, the
  role it edits is not its own and still has the permissions it read.  Then a commit
  leaves the actor's own powers alone and changes only powers that the actor holds, so the
  actor itself is the holder who is left (`NoLastHolderLost`): the argument of the comment
  in `set_permissions`, and the point at which `roles_last_holder` departs from it.

`FilesProofs` proves, for any files, comments, deletions, sweeps, chunk size and age:

- `TypeCorrect`, and `RowHasFileAlways`.  `FilesInv` adds what a deletion and a sweep carry:
  the paths that a deletion is about to unlink have lost their rows and their uploads are
  done, and a file that a sweep has not found in the table is not that of an upload still
  under way.  The hour enters there, as the guard of `Tick`.

`BrowserSessionProofs` proves, for any tabs, users, pairs and mishaps:

- `TypeCorrect` and `WaitingIsServedAlways`, together: `SessionInv` adds that a tab has at
  most one refresh in flight (`OneFlight`) and that what was answered carried a token.
- `NoReuseAlways` and `ActsAsShownAlways`, for the tab that is alone and met no mishap.  Both
  rest on `SoleInv`, an account of every token pair that the tab *keeps*: in its memory, in
  the storage, about to be shown by a refresh or just brought by one.  `SpentInv` says that
  none of them is spent, and that a pair a login has just got is none of them.  `OwnerInv` says whose a
  kept pair is that still works, in each phase of the tab: the user's whom it shows, the one
  whose name it is asking for, or the one who is leaving; and none is left before the next
  sign-in.  `SlotsInv` says which calls a phase can have in flight.  Each step of the tab
  and of the server has a lemma of its own.  TLC checked `SoleInv` before it was proved, on
  one tab with four pairs.
- The first attempt failed for a reason: an access token that ran out *between* its issue and
  its first use makes `getMe` of a sign-in fail on its second 401, with the pair still
  stored, and a late answer then refreshes it under the next user.  It takes five pairs, more than the
  run has.  Such a token counts as a mishap now (`Expire`); the code shows it with a lifetime
  shorter than a round trip only.

`FormsProofs` proves, for every form of the table and any number of Saves, openings and
changes by others:

- `TypeCorrect`.
- `PartialIsToldAlways`: from `DoneInv`, which follows a Save part by part.
- `SavedIsShownAlways`: `VersionsInv` says that a fetch that has read before a Save was
  announced is never stored after it, since a success drops it.
- `LastWordWinsAlways`: `OrderInv` says that as long as no request is given up on, a request
  is on its way only while its form waits, and a guarded form waits for one Save at a time.
- `ClosedByItsOwnAlways`: an action property; no invariant is needed beyond the types.

`ListsProofs` proves, for any number of tickets, any size of a page, and any number of clicks,
changes and faults (the three properties of the run `lists`):

- `UrlsMakeSenseAlways`: a URL is refused only for a text or dates that the reader typed,
  exactly one view is drawn as pressed, and each card but "Active tickets" counts its list.
  From `AddressesOK`, which says of every URL the reader can be at
  (the one above the page and those behind Back) that its view is one of the buttons'
  and that it sorts by relevance only under a text.  One lemma for each kind of control
  (`UpdateSense`, `ControlsSense`, `LinksSense`) says that it leads from such a URL to such a
  URL; the property itself is not inductive, since it says nothing of the URLs behind Back.
- `ListInvAlways`: `Spec => []ListInv`, for the next two.  `Sound` says of one entry of the
  cache what every step keeps: its pages answer its key; as long as no doorbell is
  outstanding they are current, or marked (as stale, or as `missed`: a doorbell came at a bad
  moment, or a change rang nobody), or a fetch that read after the change is under
  way; and the pages of the feed, those shown and those a fetch has gathered so far,
  form a `Chain`.  `Tended` says that the page that is open does not leave a mark
  alone.  Each operation of the query cache has a lemma (`RefetchSound`, `MoreSound`,
  `AnsweredSound`, ...), which the actions share.
- `ShownIsCurrentAlways` and `FeedHasNoGapsAlways`.  The second is about the pages that are
  on the screen; its `Chain` must be known of the pages of a fetch in flight as well, because the
  cache exchanges the one for the other when the last page has come.  `Chain` grows by
  a page (`ChainGrows`) because the newest rows of what is left are newer than the rest
  (`RowsAreNewest`).

`LiveUpdatesProofs` proves, for any queue and wire, any number of changes and faults, and any
way in which the network cuts a text (the two safety properties of the run `live_updates`):

- The parser first.  `normalize` and `split` are recursive functions, which TLA+ defines by a
  CHOOSE; that they are what their definitions say is had from `RecursionDefines` (a recursion
  that shrinks its argument has a solution), and what they do with every text from `ByLength`,
  induction over the length of a text with a *set* in place of a predicate.  `NormalizeParts`
  says that texts which do not cut a CRLF in two may be normalized one by one, `HoldBackIs`
  that what `push` holds back prevents such a cut, and `SplitParts` that `split` loses no
  number and hands out the last one that it passed.
- `Pushed` joins them: what is *pending*, the buffer and then the rest of the text with plain line
  ends, does not change when a chunk of any size arrives, but for the messages that `push` hands out.
  The parser can therefore be forgotten: a stream is a text of whole messages (`Framed`) whose
  numbers do not fall (`Rising`), added to at one end (`Sent`) and taken from at the other.
- `TypeCorrect`, together with the invariant, since that the parser holds only messages needs
  to know what was sent.
- `NothingForgottenAlways`: a page or badge that is behind what it is owed is about to hear of it,
  unless the fetch that was to bring it gave up.
  `NothingForgotten` is not inductive: it does not say that the number under way is new enough.
  `IInv` adds for a stream that every number that is pending lies between the badge and what
  the server is about to send, none above the version (`Streamed`, `Latest`); for a
  socket, that its first message is `ready`, that a page without data is fetching them, and
  that one which is away and will not reload is owed nothing (`Socketed`); and that for whoever
  is behind there is a NOTIFY, a resync, a message or a fetch under way that brings what is
  owed (`Coming`).  Each action has a lemma.
  TLC checked `IInv` on the instance of the run before it was proved.

The assumptions are those of the modules: `Grants` is a function to sets of
permission codes, the catalog maps every category to a team and a positive
number of hours, memberships start with active staff, the tabs of a browser are finitely
many, the values that stand for "no
token", "no pair" and "nobody" are not among the others, every account starts with a
built-in role, a file belongs to a comment or to a ticket, and bounds are numbers (a page of
the feed has at least one row).

Model-checked only: liveness (`LateIsFlagged`, `ShownAtLast`, `OrphansGo`), since TLAPS proves
nothing about fairness and ENABLED.  The serial theorems assume `OneAtATime`, and section 5
says why they must.

## 5. Where the code disagrees with its words

### Overlapping requests

`roles_last_holder` is a run that is violated: PROJECT.json quotes the comment it refutes.
Its root is common to the server: the checks are made on rows that were read without a
lock, and the writes have no condition on what was checked.  The same root breaks other
promises in the same way; they are checked where they hold (one request at a time), and a
configuration with the property exchanged finds each of these:

| Property | Configuration | Interleaving |
|---|---|---|
| `ClosedIsFinal` | `TicketsRace` | a status change that was judged before the ticket was closed reopens it (`ticket_service.py:439`; `permissions.py:119`: "Closed is final") |
| `ImplementsWorkflow` | `TicketsRace` with `MaxTime = 2` | the same; and two resolutions both find `resolved_at` empty, and the later commit replaces the stamp (`ticket_service.py:448`) |
| `QueuedToItsCategory` | `TicketsRace` with the `MC...Three` catalog | two moves: the later writes its category, but not the team column, which it found unchanged (`ticket_service.py:398`) |
| `AssigneeJoinsTeam` | `TicketsRace` | an assignment checks membership of the team it loaded while a move takes the ticket to another (`ticket_service.py:528`); `ticket_service.py:521` refuses an assignee who "is not a member of the team this ticket is queued to" |
| `SignedOutIsOut` | `SessionsSerial` with two slots | a refresh in flight commits its token after a logout (`auth_service.py:150`, `:153`); or one that read `is_active` commits after the account is disabled, and the token works once it is enabled again (`role_service.py:263`) |
| `OneLivePerFamily`, `ReuseEndsFamily` | `SessionsSerial` with two slots | two refreshes with one token, or a refresh in flight while its family is ended (`auth_service.py:116`) |
| `EndedStaysEnded` | `SessionsSerial` with two slots | of two logouts the later commit writes the earlier moment, and an access token that was refused is accepted again (`auth_service.py:165`) |
| `LinkWorksOnce` | `SessionsSerial` with two slots | two uses of one reset link find the fingerprint of the same hash, and both set a password (`api/v1/auth.py:247`); `core/security.py:132` says that a link must work once |
| `NoLadder` | `RolesRace` | a role is edited after its assignment was judged, and hands out more than the one who assigned it holds (`role_service.py:211`) |

Read off the code rather than run: a move that gives a ticket more time loaded its flag
before a sweep set it, so its FALSE is no change and is not written, and a ticket that is
not late stays flagged (`ticket_service.py:403`).  Tags and the permissions of a role are
replaced as a whole set by whoever saves last.

### What the properties except, and why

Each of these is a case that a property above leaves out by name, or that the model has
and no property forbids:

- *Server.*  The assignee is told of internal notes even if its role, made by an
  administrator, may not read them (`ToldMayRead`).  A commit of an upload whose answer is
  lost counts as failed, so its file is removed although the row is there
  (`attachment_service.py:134`, `RowHasFile`).  A file that vanishes between its listing
  and its `stat()` ends the sweep of that night (`file_tasks.py:30`).  Claim is offered to
  staff outside the team who raised the ticket, and refused (`OffersMatchRules`).  After
  TCK-<year>-9999 the maximum of the references, a string, does not grow any more
  (`ticket_service.py:283`).
- *Realtime.*  The first `ready` of a page does not make it fetch, so a change between its
  first fetch and its first subscription is not owed to it; a message that comes during
  the very first fetch does not begin it again; and what was notified before the first
  LISTEN of a process reaches nobody (`listener.py:37`).  A fetch that a message began may give up, on a
  4xx at once and after two retries otherwise (`main.tsx:14`): the page then keeps its old rows
  on an open socket, with nothing under way, until a later message, a reload or a visit to
  another page (`NothingForgotten`, `ShownAtLast`).  If a refresh throws after a close
  with 4401, `useLiveUpdates` stops until the page is loaded again (`stuck` in
  `LiveUpdates`; the stream's hook tries again).
- *Browser session.*  Any answer to a refresh that is not a success, a 500 or a 429
  included, clears the tokens (`client.ts:72`).  Two tabs may show the same refresh token,
  and a lost answer makes a tab show a spent one: the server then ends the session.
  The late answer to a password change signs out whoever has signed in meanwhile.
- *Forms.*  The status, role and member dialogs close when the answer to an earlier opening
  comes (`ClosedByItsOwn` holds of the others).  The role select of a team member is not
  disabled while it saves, so two choices may be handled in the other order
  (`LastWordWins`).  A composer whose file fails after its comment was posted posts the
  comment again on the next Send (`TicketDetailPage.tsx:455`).  A page that keeps answers
  instead of fetching shows the last to arrive (`SavedIsShown`).
- *Lists and pages.*  Load more interrupts a fetch that a doorbell began, and its news are
  shown only at the next.  A change of the reader's memberships emits no event
  (`team_service.py:81`, `:168`), and one that takes a ticket from an assignee outside its team
  does not ring for them (`events.py:50`), so the list stays as it was until its next fetch
  (`ShownIsCurrent`, all three).  A deletion can leave the reader on a page
  beyond the last, which says that no tickets match.  The server refuses, and the page
  shows an error for, a single character from the search field above every page
  (`AppLayout.tsx:236`), a text of more than 100 from either (`schemas/ticket.py:189`), and
  two dates in the wrong order (`TicketsPage.tsx:178`, `schemas/ticket.py:197`): these the
  reader typed, and `UrlsMakeSense` excepts them as `Mistyped`.  The card "Active tickets"
  counts three statuses and leads to all tickets (`DashboardPage.tsx:104`), the one card that
  `UrlsMakeSense` excepts.  "Running totals that only go up"
  (`DashboardPage.tsx:56`) is not so: a ticket that is reopened or deleted leaves them.

## 6. Not modelled

| What | Why |
|---|---|
| texts of tickets and comments, `first_response_at`, the comment of a status change, the tag set on the server | no rule reads them; the stamp of the first response goes into a report |
| watchers | nothing in the code makes anybody a watcher |
| registration, verification, profile edits, expiry of tokens and links | a new account is like those there; expiry only refuses more |
| the role of a team member | it gates who manages a team, and managers are the holders of `team.manage` here |
| references | arithmetic on strings under an advisory lock: serial by construction, but for the limit in section 5 |
| catalog cache | a TTL and no caller of `invalidate`: an old value lasts until the TTL ends, whatever overlaps |
| rate limits, email | a counter of a library; sending without an answer |
| analytics and export | read-only |
| priority, team and category selects, order and export button of the list; refetch on focus and garbage collection of the query cache | the selects are set and read like the status, with no rule of their own; the export is a read; the last two only fetch more |
| layout, validation and values of the forms, pages that render one query | nothing changes state |
| `main.py`, configuration, migrations, seeds | wiring |

The database, the LISTEN protocol, the network, the file system and TanStack Query are
external: they are modelled as the code relies on them.  READ COMMITTED is the isolation
that the engine of `db/session.py` gets by default.
