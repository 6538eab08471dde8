# cmaps: a TLA+ verification project

cmaps shows floor maps with the desks and people of a company. A Go server
gathers people from Active Directory, EntraID and Robin, lets visitors book
desks and keeps its data in one bolt database; three JavaScript front ends
(the map page with its editor, the mobile app, the administration page) poll it
and change it. This directory holds TLA+ models of its core logic, the TLC
configurations that check them and the TLAPS proofs about them. Server files
are named relative to `internal/`, scripts relative to `internal/web/static/`;
a line such as `ldap.go:85` refers to the file of that name.

1. [The system](#1-the-system)
2. [Modules](#2-modules)
3. [Modules and code](#3-modules-and-code)
4. [Runs, bounds and fairness](#4-runs-bounds-and-fairness)
5. [What disagrees with the documentation](#5-what-disagrees-with-the-documentation)
6. [Proofs](#6-proofs)
7. [What is not modelled](#7-what-is-not-modelled)
8. [Plan](#8-plan)

## 1. The system

### Server

One process, started by `cmd/cmaps/main.go`. Four kinds of threads run in it
and no lock keeps them apart beyond single bolt transactions and the trackers
named below: HTTP handlers, goroutines that handlers start for long jobs
(manual syncs, identifier migration, backups), schedulers (directory sync every
hour, Robin, backups every minute) and the janitor of the migration.

| Component | State | Operations | Talks to |
|---|---|---|---|
| Active Directory sync (`directory/ldap.go`, `web/admin_sources.go`) | sources, per-source snapshot and mirror, combined snapshot and mirror, `ldapSeeded`, change log | full sync (hourly, by hand), sync of one source, rebuild, create, edit, toggle and delete a source | LDAP servers, store, tracker |
| EntraID sync (`directory/entra.go`, `web/entra.go`) | tenants, per-tenant snapshot and mirror | the same | Microsoft Graph, store |
| Source priority list (`web/sources.go`) | ordered rules with the flags "assign" and "keep duplicates" | list, move, set flags, drop | sync administration, desk assignment |
| Desk assignment (`web/sources.go`) | none; a result per map | `assignMap` | mirrors, Robin's occupancy, desks |
| Desk booking (`web/booking.go`) | bookings, numbered by the bucket's sequence | clean up, book, cancel, list | maps, sessions, store |
| Maps and desks (`web/admin_maps.go`, `web/update.go`, `web/desks.go`) | maps, desks | create, rename, delete a map; create, move, update, delete a desk, in batches too; the rows of a map | bookings, assignment, front ends |
| Identifier migration (`web/identifiermigrate.go`, `store/migrate.go`) | staging buckets, info record, setting `identifier` | Create, Apply, Cancel, result page, janitor | nearly every bucket, sessions, avatars, both syncs |
| Accounts and sessions (`auth`, `web/admin_users.go`, `web/auth_handlers.go`) | user records with roles, sessions in memory | sign in and out, change roles, remove users | SAML, migration, syncs |
| SAML (`auth/saml`, `web/saml.go`) | pending requests | login, assertion, logout | accounts |
| Robin (`integrations/robin`) | buildings, desks, meetings, whitelist | meeting sync, desk sync, whitelist | Robin's API, assignment |
| Geocoding (`integrations/geo`) | coordinates, monthly usage | geocode all maps, one address | Geoapify, maps |
| Backup and restore (`web/backup.go`, `web/backup_sched.go`) | archives, schedule, next run | export, import of groups, scheduled runs, retention | the whole database |
| Progress tracker (`progress/progress.go`) | one flag and log per kind of job | `Start` (refuses a second job), `Finish` | every long job |
| Store (`store/store.go`) | bolt buckets | one transaction per call | everything |
| Change log and user lists (`web/rest.go`, `web/admin_users.go`) | none | excerpts by offset, limit and filter | front ends |
| Import, wizard, demo data; avatars; administration and page handlers; start and configuration | files or none | one-time conversion, single-record edits, rendering, wiring | store |

### Front ends

A page is one thread: handlers of events, timeouts, intervals and answers run to
the end one at a time. What goes on between them is the browser's and the
server's: answers come in any order or not at all, timeouts find another state
than they were set in, intervals pause in hidden tabs, `history.back()` is
performed later, other people change what was drawn.

| Component | State | Operations | Talks to |
|---|---|---|---|
| Mobile app: map (`m/mobile-app.js`) | current map, desks, markers, room status, poll, sheet, picked result | route, choose a map, load, poll, focus a result | `/rest/desks`, `/rest/meeting` |
| Mobile app: map selector | overlay, pushed history entry, animation | open, choose, close, tabs, back button | browser history |
| Mobile app: search and administration | lists, caches, badges | type, debounce, ask, draw | REST views |
| Service worker (`m/sw.js`) | a cache per version | install, activate, fetch | server's asset versions |
| Map page (`user.js`) | drawn board, calendar, indicators, polls | choose a date, book, cancel, poll, hide and show | desks, bookings, rooms |
| Search sidebar (`user.js`) | results, selection, marks on the map | search here and elsewhere, hover, select, close | drawn board |
| Look of desks (`user.js`, `m/mobile-app.js`) | none | class, size and counters of a row; duplicates | rows of a map |
| Map editor (`admin.js`) | mode, form, drag, tool, floor migration | place, edit, drag, delete, align | `rest/update`, drawn board |
| Alignment (`admin.js`) | none | pods, bands, shared lines | map editor |
| Lists (`user.js`, `admin/backend.js`) | rows, offset, token, filter, debounce | filter, scroll, load, restart | change log, audit log, users |
| Administration page (`admin/backend.js`) | tab, registered timers, poll of a job | load and submit tabs, hide and show, start and poll jobs | trackers, handlers |
| Connection cards (`admin/backend.js`) | switches, Sync now, EntraID form | toggle, sync, create, edit, generate a certificate | source administration |
| Login overlay, change browser page, migration assistant, tools | little or none | single requests | server |

### What is hard about it

- **Overlap.** The hourly sync, the manual sync, "Sync now" and the sync after a
  migration may all run at once; the tracker covers only the manual one. Each
  gathers a union from buckets that the others are changing.
- **Lists that age.** Handlers list, work for a while and then write or delete
  by what they listed: syncs (source records), booking (row numbers), Apply
  (staged rows), the map editor (the rows it drew).
- **Answers without a name.** Most requests of the pages carry no token: an
  answer is written into the element or variable of its kind, whatever map, date,
  section or search is current by then.
- **Timers.** Timeouts of animations and debounces, intervals that pause in
  hidden tabs, polls of jobs that end with an answer.
- **Crashes** between the several transactions of a sync or a migration.
- **Partial failure.** One of several directories does not answer; one avatar
  cannot be copied; one save of a series is lost; precaching fails.
- **Order.** The order of the sources decides who has a desk; rows skipped for
  one reason must not count for another.
- **Release.** Every early return of a long job has to free its tracker, every
  end of a poll has to give its button back.

`PROJECT.json` lists the hazards at the lines where they bite.

### What makes the components correct

- *Sync*: nobody who stays in an enabled directory drops off the combined
  mirror or is announced as new; whatever races left behind is repaired; only
  administrators enable a source.
- *Assignment*: the two loops compute what the priority rules say; a desk shows
  one source; nobody is shown twice unless declared; no more than four per desk.
- *Booking*: a booking goes only when its owner cancels it or its day is over;
  past ones do go; a slot is taken twice only by requests that overlap.
- *Migration*: a record of staged data describes data of one run; the setting
  flips only over converted data; people without a mail address keep their
  data; nobody loses the avatar; a job always ends.
- *Rows*: map page, mobile app and health report say the same of a desk.
- *Pages*: what is drawn belongs together; a notice of loading is awaited; what
  is on the server reaches the screen; a selector or a form that is closed leaves
  nothing behind, and the marks of a search are those of its rows; what was typed
  is not overwritten.
- *Editor*: moving a desk changes its place and nothing else, unless somebody
  writes it meanwhile; the person Robin shows at a desk is never stored as its
  configuration.
- *Lists*: a list is a gap-free excerpt from the newest entry down.
- *To be stated*: a role change survives a sync; the priority list refers to
  existing sources once each; one desk per id; a saved backup schedule stays.

## 2. Modules

| Module | What it is |
|---|---|
| `DirectorySync` | the sync engine with its schedulers, handlers, source administration, Active Directory and restarts |
| `SourceAssign` | `assignMap`, one row of one source per step, against a declarative definition |
| `Booking` | `handleRestBooking` in concurrent handlers, the calendar per time zone, map administration, export and import |
| `BookingTable` | the abstract specification `Booking` implements as long as no archive is imported |
| `IdentifierMigration` | Create, Apply, Cancel, expiry, the janitor, sessions, sign-in, booking and sync around them, errors and crashes |
| `MobileMap`, `MapSelector`, `MobilePanes`, `OfflineShell` | the mobile app: map, map selector, search and administration, service worker |
| `MapPage`, `SearchSidebar`, `DeskLook` | the map page: board, calendar and rooms; search; what a row looks like, there, on the server and in the mobile app |
| `MapEditor`, `AutoAlign` | the edit mode with `rest/update` behind it; the alignment of desks |
| `AdminTabs`, `ConnectionCards` | the administration page: tabs, timers and jobs; the cards of the Sync tab with their handlers |
| `PagedList`, `LogExcerpt` | the three lists that load page by page, and the abstract specification they implement |
| `MCDirectorySync`, `MCSourceAssign`, `MCBooking`, `MCIdentifierMigration`, `MCMapEditor`, `MCAdminTabs` | initial states, inputs, constraints and symmetry of one module |
| `Seats`, `MCSeats` | `SourceAssign` and `AutoAlign` side by side: where people and where desks go |
| `MCDesks` | `Booking` and `DeskLook`: a map's rows and their bookings |
| `MCMapPage` | `MapPage` and `SearchSidebar` |
| `MCPages` | the four mobile modules, `ConnectionCards` and `PagedList` |
| `MCBackground` | `Booking`, `MobileMap` and `OfflineShell`, with their fairness |
| `SeatsProofs`, `IdentifierMigrationProofs`, `DirectorySyncProofs`, `DeskProofs`, `MobileProofs`, `MapPageProofs`, `MapEditorProofs`, `AdminPageProofs` | inductive invariants and theorems |

The composing modules put components side by side that share no variable, and
let one of them move in each behaviour (`part`), so that a run costs the sum of
their states and not the product; their interaction with the rest of the system
(server, browser, other people) is inside each module.

Conventions. On the server a bolt transaction, a file operation or a map behind
a mutex is one step; a worker or handler is a record with a program counter `pc`
and the local variables that outlive a step; `Become(x, st)` writes it,
`Goto(x, pc)` moves it on; `Spend(b)` takes one from the bound `b`. On a page an
event handler is one step; requests under way are a set or a count, answered in
any order or failing. Environment actions (a person leaves, the clock passes
midnight, the process dies, the tab is hidden) have the same form as those of
the code. An operator whose comment begins with "Mutant" is a plausible slip of
the definition below it; it takes no part in the specification and is used to
show that the properties notice it.

## 3. Modules and code

### DirectorySync

`ad` is what each directory would answer now. `srcDir` and `srcMirror` are the
per-source buckets, `directory` and `ldapmirror` the combined ones; a mirror maps
`<<person, office>>` to the title.

| Code | Actions |
|---|---|
| `RunADSyncProg` | `Begin`, `FetchOk`, `FetchFails`, `PutSourceDir`, `PutSourceMirror`, `PutLdapSource` per source, `ReadSeeded`, the rebuild, `SetSeeded` |
| `RebuildLdapMirror` | `ListSources`, `SnapshotMirror`, `Gather` per source (union and announcements), `ReplaceDirectory`, `ReplaceLdap` |
| `startPeriodicSync` | `ScheduledSync` |
| `/rest/ldapsync`, `/rest/ldap` | `HandleRestLdapSync` (guarded by the tracker), `HandleRestLdap` (not guarded), `SingleStart` with its fallback to a full sync |
| `handleAdminPostSync` | `ModifySource`, `CreateSource` + `AdminPut`; `DeleteSource`, `DeleteSourceMirror`, `DeleteSourceDir`, `RebuildIfSeeded` |
| outside | `HRChange`, `Crash` |

`PutLdapSource` writes the source as it was *listed*, because the code does so to
stamp `LastSync`. `Init` includes the upgraded installation, which has a combined
mirror and nothing else. The history variable `steady` holds the placements
never interrupted since the start, `published` says that the mirror has been
filled once; no action reads them.

### SourceAssign

`i`, `j` are the two loop indices. `result` is the set of seats, a seat being the
position of the occupant; the desk's slice in the code holds them in that order.
Each `continue` of the inner loop is an action (`SkipOffMap`, `SkipOwned`,
`SkipDuplicate`, `SkipFull`), as are `Place`, `SkipSource` and `NextSource`.
`samePerson` is the pure operator `SamePerson` over identities with account name,
mail and aliases. Two desks may carry one number; desk numbers may be stored with
blanks around them (`padded`), which the code trims for look-ups and keeps in the
key of a desk.

### Booking

A handler goes through `Receive`, `ListMaps`, `ListExisting`, then for every map
`CleanMap` and `DeleteRow`s, then `Refresh`, and ends in `Book`, `Answer` or
`Cancel` (with `DeleteRow`s). Each works on the lists read earlier (`w[r].names`,
`w[r].list`). `MapToday` is the date in the map's time zone; `Midnight` moves one
zone at a time. `AddBooking` numbers rows by the bucket's sequence, which `Import`
resets as `ReplaceBucketsFromFile` does. `arrivals` is history: what was stored
when the request for a row came in.

`BookingTable` is what this amounts to for those who book. Its steps are `Add`,
`TakeBack` and `EndTakingBack` (a user cancels), `Drop` (one row goes), `Move` (a map is
renamed) and `NextDay`. The refinement mapping takes `rows`, `last` and `today`
from `bookings`, `seq` and `clock`, and `cancelled` from the requests of the handlers
that are at "cancel"; what handlers read, list and find taken is not seen there.

### IdentifierMigration

A row is `<<entry, form>>`: a reference to a person, and whether it is by account
name or mail address. `stage[a]` is the staging bucket of an area with the number
of the run that filled it, `info` the record that makes Apply possible.

| Code | Actions |
|---|---|
| Create and Apply handlers | `Request`, `Start` (the tracker) |
| `runIdentifierStage` | `Purge`, `Plan`, `StageArea` per area, `WriteInfo` |
| `runIdentifierApply` | `ReadInfo`, `Purge` if expired, `Plan`, `ApplyArea` per area, `Remap`, `CopyAvatar`/`RemoveAvatar` per file, `SetIdentifier`, `Resync`, `Cleanup` |
| any error | `JobFails` |
| Cancel, janitor, `StageResult` | `Cancel`; `FindStale`, `PurgeStale` |
| sync, SAML login, booking | `ScheduledSync`, `HRChange`; `SignIn`; `Book`, `CancelBooking` |
| outside | `Expire`, `Crash` |

`due` is history: what the latest staging of an area has converted.

### The mobile app

`MobileMap`: a map is loaded by three requests (its list, its desks, its rooms),
each a count of those still to be answered; desks, markers and rooms are
represented by the map they belong to.

| Code | Actions |
|---|---|
| `route`, `renderMap`, `openMapSelector`'s rows | `Navigate`, `RenderMap`, `ChooseMap` |
| `/rest/config` | `ConfigAnswer`, `ConfigFails` |
| `loadMap` | `LoadMap`; `DesksAnswer`, `DesksFail` (each draws; the first starts the poll) |
| `updateMeetingStatus` | `AskMeeting`; `MeetingAnswer`, `MeetingFails`; `Tick` (interval), `SetHidden` |
| `openSearchResult`, `maybeLocate` | `OpenSearchResult`, `MaybeLocate` (400 ms), `ShowPicked` (350 ms) |
| sheet | `TapDesk`, `ShowDetail`, `CloseSheet` |

`MapSelector`: the session history is a sequence with a current index; `backs`
are the `history.back()` calls not yet performed, `hides` the timeouts of the
closing animation. `MobilePanes`: an element of the page holds a notice (spinner,
hint, failure) or the list of a query or section; `SectionAnswer`,
`AllDesksAnswer`, `RoomsAnswer` and `UsersAnswer` write into whichever is there.
`OfflineShell`: a cache per version, with the version of the markup it keeps as
`/m/` and of its assets; `FindUpdate`, `PrecacheDone`, `PrecacheFails`,
`Activate`, and the fetch handler as `FetchAssets` and `StoreAssets` (which may
be late).

### The map page

`MapPage`: the desk's holders per date and the room's status on the server; on
the page the board drawn last (with the date it was asked for), the calendar of
the plate, the indicators (`paint`, those of the setting without animation) and the three polls of `visPoll`, running,
paused or due.

| Code | Actions |
|---|---|
| `setUserdate`, `updateDesks` | `SetUserdate`, `UpdateDesks`; `DesksAnswer`, `DesksFail` |
| `getMeetingStatus` | `GetMeetingStatus`; `RoomsAnswer`, `RoomsFail` |
| `showSticky`, `hideSticky`, `updateCalendar` | `ShowSticky`, `ShowRoomSticky`, `HideSticky`, `Day` |
| `bookDesk`, `cancelBooking`, `updateBookings` | `BookDesk`, `CancelBooking`, `UpdateBookings`; `BookingsAnswer`, `BookingsFail` |
| `visPoll`, `visPollPause`, `visPollResume` | `Poll`, `VisPollPause`, `VisPollResume` |
| outside | `OthersAct` |

`SearchSidebar`: `localRows` and `globalRows` are the two lists, `orange`,
`dimmed` and `fog` the marks on the map; `StillOrange` is what `resetColors`
leaves because it does not name the class, and `SearchLocaldesks`,
`GlobalAnswer`, `HoverSearchResult`, `SelectSearchResult`, `CloseSearchSidebar`
are the functions of these names. Closing takes the marks away and leaves the rows
with their handlers in a sidebar that slides away (`SlidAway` ends the transition
of its width); a row is within reach of the mouse until then, and the one under it
is left later (`UnhoverSearchResult`). Rows that are built anew are gone without
having been left. `previewed` and `wiped` are history: the row entered last, and
whether closing or drawing has taken the marks since the last search. `DeskLook` is a set of pure operators over all
ways to store, seat and book two items: `Rows` (`buildMapDesks`), `Desktop`
(`updateDesks`), `DeskInfo` and `Markers` (the mobile app),
`ComputeDuplicateDeskIds` and `ServerDuplicates`; its actions only walk through
the inputs.

### The map editor

`MapEditor`: an item is its type, the owner of its texts (its own, the person
Robin seats there, none) and whether it stands on the rail. `seen` is the rows
drawn last, out of which forms and moves are made; `requests` are calls of
`rest/update`, refused or handled by `Effect` in one transaction, or, for moves,
alignments and creations, in two: `handlers` are those that have read (`GetDesk`,
`NextDeskID`) and have still to write (`PutDesk`) what they hold, `write`, while
others go on; `overtaken` in it is history: others wrote the item meanwhile.

| Code | Actions |
|---|---|
| `toggleUsermode`, `updateDesks`, `migrateFloorsToRail` | `ToggleUsermode`, `ForcedAnswer`, `ForcedFail`, `Poll`, each drawing by `Draw` |
| sidebar form | `ChangeType`, `TypeText`, `Save`, `DeleteItem`, `HideSticky` |
| palette | `PlaceItem`, `PlaceCluster` |
| `dragElement` | `StartDrag`, `Drop`, `DropOnTrash` |
| alignment | `StartAlign`, `SelectDesks`, `ApplyAutoAlign`, `CancelAutoAlign` |
| `handleRestUpdate` | `GetDesk`, `PutDesk` (move, batch and create: a read and a write); `Succeeds`, `Fails` (the request or its answer is lost, or it is refused) |
| outside | `Sit`, `OtherEditor` |

`AutoAlign` is `autoAlignPlan` for desks in rows and columns: the median spacing
(as its square), the pods by transitive closure (the code's union-find), bands
anchored at their first member, the centred desk of a pod, and the lines shared
across pods; `Align` applies a plan to any selection.

### The administration page

`AdminTabs`: `loads` are the requests for a tab's content, `ticking` and `paused`
count the entries of `adminTimers` with and without an interval; a job has its
tracker, its button, the intervals that poll it and their answers.

| Code | Actions |
|---|---|
| `loadAdminTab`, `submitAdminForm` | `OpenTab`, `SubmitAdminForm`; `ContentArrives`, `ContentFails` |
| `adminSetInterval`, `visibilitychange` | `AdminSetInterval` (part of drawing the dashboard); `Hide`, `Show` |
| `updateDashboard` | `UpdateDashboard` |
| `startSync`, `startRobinSync`, `runGeoapifySync`, … | `StartSync`; `StartAnswer`, `StartFails` |
| `pollSync`, … | `AskProgress`; `ProgressAnswer`, `ProgressFails` |
| `progress.go` | `Run`, `Finish` |
| outside | `ServerChanges`, `OtherStarts` |

`ConnectionCards`: a call is made (`Toggle`, `Sync`, `SubmitForm`), served
(`ServeToggle`, `ServeSync` and `StampSync`, `ServeEdit`, `ServeCreate`) and
answered, in any order; the answer of a form draws all cards again. The form's
certificate is asked for by `ShowForm` and filled in by `CertAnswer`.

### The lists

`PagedList`: one module for the change browser, the audit log and the user list,
which differ in what a failed request does and in what asks for the next page
(scrolling, or an observer of the list's end). `live` is the request of the
current token, `late` are superseded ones; `debounce` is the timeout of the
filter box. `Window` and `PageOf` are the server's excerpt. `LogExcerpt` is what
a reader may rely on: entries appear only downwards and without a gap, until the
list is started again.

## 4. Runs, bounds and fairness

| Run | Checks | Shows |
|---|---|---|
| `directory_sync` | `TypeOK`, `StaysPublished`, `NeverAnnouncedAsNew` | overlapping syncs, edits, a restart and changes in the directory neither drop nor announce people who stay |
| `directory_sync_live` | `Converges` | the hourly sync repairs what overlapping ones left |
| `seats` | `SeatsTypeOK`, `DecidedRight`, `SeatRules`, `OrderKept`, `OthersStay` | the loops of `assignMap` compute the declarative rule; aligning desks keeps their order and moves no others |
| `desks` | `TypeOK`, `TableKept`, `DoubleBookedOnlyByOverlap`, `LooksAgree` | two handlers with stale lists implement `BookingTable`: they never remove a stranger's booking or replace a row; map page, mobile app and health report agree about a desk |
| `identifier_migration` | `TypeOK`, `OneGeneration`, `ConflictsUntouched`, `AvatarKept`, `ConvertedUnlessPurged`, `TrackerReleased` | jobs, crashes and errors leave usable data; each job ends |
| `pages` | `MapInStep`, `SelectorInStep`, `NoticesAreAwaited`, `StoresFollowWorkers`, `CardsInStep`, `TypedIsKept`, `ListIsExcerpt`, `PagesFollow`, `KeepsPromise` | the mobile app, the connection cards and the lists with answers in any order, late timeouts, failed requests; the lists implement `LogExcerpt` |
| `background_live` | `PastRemoved`, `AvailabilityCatchesUp`, `UpdateReachesClient` | what nobody asks for comes about: past bookings go, room status and app updates arrive |
| `map_page` | `PageInStep`, `MarksInStep`, `PlateStays`, `PageCatchesUp` | board, calendar and rooms belong together and catch up; the marks of a search are those of its rows, or none |
| `map_editor` | `EditorInStep`, `MovesOnlyMove` | nobody's seat is stored, page and form fit the mode, and a move writes the item as stored, unless others write it between the move's two transactions |
| `admin_tabs` | `TabsInStep`, `DashboardCatchesUp`, `PollsEnd` | timers pause and go on, the dashboard catches up, polls of jobs end |
| `directory_sync_enable`, `booking_import` | one property each | see section 5 |

Some properties are conjunctions, defined in the module that composes them:
`SeatRules` of `OneSourcePerDesk`, `NoUndeclaredDuplicate` and `AtMostMaxShared`;
`LooksAgree` of `SameLook`, `HighlightAgrees` and `OneLookPerDesk`; `MapInStep` of
`LayerMatchesList` and `LocatedAtMostOnce`; `SelectorInStep` of `BackDismisses`,
`ClosingIsHidden` and `OnlyOverTheMap`; `NoticesAreAwaited` of `SpinnerIsAwaited` and
`BadgeIsAwaited`; `StoresFollowWorkers` of `ActiveStoreKept` and `NoOldShell`;
`CardsInStep` of `LdapButtonInStep`; `ListIsExcerpt` of `NothingSkipped`, `EndIsEnd`
and `NoRowTwice`; `PageInStep` of `BlankIsAwaited` and `CalendarIsCurrent`;
`MarksInStep` of `MarksFollowRows` and `OthersDimmed`;
`EditorInStep` of `NoRobinStored`, `MigrationIsAwaited`, `HandlesFollowMode` and
`FormNeedsEditMode`; `TabsInStep` of `HiddenIsQuiet` and `GeoButtonReturns`; each with
the type invariant of its module.

Bounds, and why they are enough:

- `directory_sync`: two sources (needed for a union), one person with one office
  and title (the properties are about one person at a time; what a second one
  adds is covered by presence in either source), the scheduler and one handler
  (two syncs overlap). One change in the directory, one edit, one manual sync,
  one restart, of which `TwoUpsets` allows any two in one behaviour. A fresh and
  an upgraded installation, with the second source configured or not.
  `directory_sync_live`: a fresh installation with both sources; one change and
  one manual sync, without edits or crashes. The property assumes that in the
  end some source stays enabled.
- `seats`: three sources of the three types, 16 lists of toggles and orders; up to
  two desks on two numbers, which are interchangeable, among them repeated numbers
  and both desk types;
  every mirror with at most one row per source, and crowds of three and one rows
  at one desk. One person is known by different identifiers in two sources. The
  cap is 2 instead of 4, so three rows exceed it. Padded desk numbers are left to
  the proofs. Alignment: any choice of four desks on a grid of three by three
  points with unequal gaps and one far point, so that there are pods of one to four
  desks, bands that are nearly straight and an outlier.
- `desks`: two handlers, two users, one desk, two days, two zones of which the
  map and the server have different ones, three requests (a booking, one that
  competes and a cancellation), one rename to a second name; requests are
  symmetric. Visitors of this run ask for one map (`AskedForA`), and listing is
  left out by `NoListing`, as booking and cancelling clean up alike. Looks: two
  items (duplicates need two), two numbers, one whitelisted and one custom type;
  items are symmetric.
- `identifier_migration`: two people, one of them without a mail address and
  without a user record (what `ConflictsUntouched` is about); two jobs at a time, three in all (Create, Apply and one
  that competes or migrates back); of cancel, expiry, crash, error and two edits,
  any two in one behaviour.
- `pages`: two listed maps, which are symmetric, and one unlisted; one request of
  a kind under way and two timeouts, so that answers for two maps meet; one room
  map; a session history of five entries, which two openings and closings fill;
  two pending traversals. Two sections with a list and two queries. Three
  versions of the app (installed, waiting, latest). One Active Directory and one
  EntraID source and one new one, two calls. Lists of one to three entries, pages
  of two, a filter that keeps part of them, one superseded request.
- `background_live`: one handler and one user, two maps, a deletion, an edit, and
  an export and import; in the mobile app one timeout and one change of room status; two
  versions.
- `map_page`: two dates, the user and a colleague, two room statuses, one change
  by others; for the search three desks, of which one is of a class that
  `resetColors` does not name and one at most is missing on the map (`OneMissing`),
  and two texts, of which one matches one desk and the other two.
- `map_editor`: one item, which begins as a floor marker off the rail and can be
  deleted, created anew and given any of three types; one request under way, of
  any editor's widget, and one handler that has read and not yet written, while
  others change the item on the server; two switches of the mode that are not drawn
  (`MaxForced`). Of what can go on at once `TwoAtATime` allows any two. What a second
  item or handler would add is in the proofs, which hold for any number.
- `admin_tabs`: three kinds of jobs, which differ in what their end does to the tab
  and its button, two entries of `adminTimers`, so that a tab
  can be left and opened again before its timer ends, and one run of the job.

Deadlock is checked in `map_page`, `map_editor` and `admin_tabs`, whose behaviours
go on for ever. In the others the bounds (or, in `seats`, the end of the loops)
end every behaviour, and checking is off; that jobs do end is a liveness
property.

Fairness, and what justifies it:

- `DirectorySync`: a started worker goes on (weak); the timer keeps firing
  (weak); each directory the *scheduler* asks answers again and again (strong,
  per source: an hourly retry that fails for ever would mean that the directory
  is gone). Nothing is assumed of manual syncs or administrators.
- `Booking`: a handler goes on, and visitors keep opening maps (weak), since
  cleaning up happens only when somebody does.
- `IdentifierMigration`: a goroutine goes on (weak, on `Step`, which leaves out
  errors). Cancelling, expiry, crashes and people have no fairness.
- `MobileMap`: intervals tick (weak; in a hidden tab they do not), every request
  is answered or fails (weak), and among the answers about room status there are
  again and again good ones (strong).
- `OfflineShell`: the browser looks for an update, tells how precaching went and
  activates (weak), which is what `skipWaiting` and the registration ask of it.
- `MapPage`: a poll that is due happens (weak); requests of each kind are answered
  again and again (strong, for desks per date), as a server that fails every
  request of a kind is down. That `MCMapPage` goes on from the sidebar to the page
  (`Reload`, weak) belongs to the composition and not to the code.
- `AdminTabs`: the dashboard's interval and each poll of a job tick, a job ends
  (weak), and the request for a finished job's state is answered or fails (weak).
- `SourceAssign`, `AutoAlign`, `DeskLook`, `MapSelector`, `MobilePanes`,
  `ConnectionCards`, `PagedList`, `SearchSidebar`, `MapEditor`: none.

## 5. What disagrees with the documentation

Two runs are expected to find the quoted sentence violated.

| Run, property | What happens |
|---|---|
| `directory_sync_enable`, `OnlyAdminEnables` | `ldap.go:128` writes the source record back as listed before the searches: a source deactivated meanwhile is active again, a deleted one exists again (`ldap.go:76`: "Skip deactivated sources"). |
| `booking_import`, `AddingKeepsOthers` | After an import the bucket's sequence is 0 (`store/migrate.go:153`), so the next booking overwrites a restored one: one that is neither past nor cancelled is gone (`docs/index.htm:108`). |

Other statements one might expect of the code are defined in the modules and
do not hold of it. None is part of a passing run; naming one as an INVARIANT or
PROPERTY of the configuration of its module produces the behaviour.

| Definition | What happens |
|---|---|
| `Booking!EveryPastBookingRemoved` | Past bookings are removed per existing map; those of a deleted map stay (`docs/index.htm:108`). |
| `IdentifierMigration!FlippedOnlyConverted` | Staging that expires (or is cancelled) while Apply copies it is purged; the missing bucket counts as nothing to do and the setting flips over unconverted rows (`identifiermigrate.go:17`). `ConvertedUnlessPurged` shows that this is the only way. |
| `IdentifierMigration!NothingLeftBehind` | A sync that fails after the flip leaves the old form in the snapshot; migrating back then maps nobody and flips all the same. |
| `IdentifierMigration!SessionsFollow` | Sessions are renamed by a plan made at Apply, user records by rows staged at Create: somebody who first signs in between is left with a session without a user record (`auth/session.go:69`). |
| `MobileMap!RoomsOfCurrentMap` | An answer about rooms is drawn whatever map is current (`m/mobile-app.js:330`). |
| `MobileMap!SheetShowsPicked` | The sheet opened 350 ms after a search result was picked shows it over another map (`m/mobile-app.js:556`). |
| `MapSelector!NoDanglingBack` | After a change of tab out of the open selector its collapsed entry stays behind the new one: one step back shows the map, the next one changes nothing (`m/mobile-app.js:308`). |
| `MapSelector!OpenedIsShown` | When the selector is opened during its closing animation, the end of the animation hides it (`m/mobile-app.js:299`). |
| `MobilePanes!ListAnswersBox` | Results of an earlier query replace those of a later one (`m/mobile-app.js:940`). |
| `OfflineShell!OpensOffline` | A failed precaching is ignored, and the new version takes over without a shell (`m/sw.js:27`). |
| `PagedList!LoadingIsAwaited` | A failed request of the change browser leaves "loading" set, and the list does not go on (`user.js:3137`). |
| `AutoAlign!RowsNeverMerge` | Sharing lines across pods can lay two lines of one pod on one another (`admin.js:2204`). |
| `DeskLook!SameSize` | Custom items are all of one size in the mobile app, and each type of its own on the map page (`m/mobile-app.js:375`). |
| `DeskLook!OccupiedIsShown` | A custom item at whose number a directory seats somebody is drawn as if nobody did (`desks.go:142`). |
| `SearchSidebar!ClosedIsClean` | Closing takes the marks away and leaves the rows with their handlers. After Enter in the empty box the row under the mouse is left when the sidebar slides away, and `onmouseleave` paints the matches orange again and dims the others (`user.js:2391`; `user.js:1973` speaks of clearing them). |
| `SearchSidebar!PreviewEndsWithHover` | A late answer for the other locations builds all rows anew; the one under the mouse is gone without having been left, and its preview stays on the map (`user.js:2389`). |
| `SearchSidebar!DimmingSurvives` | A map that is drawn anew while results are shown is no longer dimmed: nothing applies the dimming again (`user.js:2346`). |
| `MapEditor!MovesPreserve` | A move reads the item in one transaction and writes it in another: what is saved in between is undone, and an item that is deleted in between is back (`update.go:112`). |
| `MapEditor!CreationsOnlyAdd` | Two creations read the same next id, and the second one replaces the first item (`store.go:725`). |
| `ConnectionCards!EditNeverGenerates` | The answer about a certificate asked for by the form of a new connection is filled into the form of an edited one. |

## 6. Proofs

The provers know nothing of the bounds: the theorems hold for every value of the
constants under the assumptions next to their declaration (the identities are
records of the given kind, every source is listed once, the bounds are natural
numbers, those without a mail address are people, the log of a list has finitely
many entries, pages and sections have names of their own, there are finitely many
desks to align). Every safety property
and every action property of a passing run is a theorem. A `...Invariance` theorem states the inductive
invariant, and the properties follow from it.

| Module | Invariants | Theorems about properties of the runs |
|---|---|---|
| `DirectorySyncProofs` | `IInv` | `SyncTyping`, `NobodyDropsOff`, `NobodyAnnouncedAgain` |
| `SeatsProofs` | `IInv` | `SeatsTyping`, `Decision`, `Rules`, `OrderIsKept`, `OthersStayPut` |
| `DeskProofs` | `IInv`, `NumbersInv` | `BookingTyping`, `TableIsKept`, `OverlapOnly`, `ClientsAgree` |
| `IdentifierMigrationProofs` | `IInv`, `CInv` | `Typing`, `StagingOfOneRun`, `ConflictsLeftAlone`, `AvatarsSurvive`, `FlipAfterConversion` |
| `MobileProofs` | `SelectorIInv`, `MapIInv`, `PanesIInv`, `ShellIInv` | `SelectorKeepsStep`, `MapKeepsStep`, `NoticesStayAwaited`, `StoresKeepStep` |
| `MapPageProofs` | `SearchIInv`, `PageIInv` | `SearchKeepsStep`, `PageKeepsStep`, `PlateIsKept` |
| `MapEditorProofs` | `IInv` | `EditorKeepsStep`, `MovesKeepItems` |
| `AdminPageProofs` | `TabsIInv`, `CardsIInv`, `ListIInv` | `TabsKeepStep`, `CardsKeepStep`, `TypedStays`, `ListKeepsExcerpt`, `PagesKeepFollowing`, `ListImplementsExcerpt` |

**`DirectorySyncProofs`.** `StaysPublished` speaks of the published mirror, which
any rebuild may replace by what it gathered earlier; it is far from inductive.
`IInv` says of every worker (`Careful`, one conjunct per phase) that what it has
in hand suffices to keep everyone who stays: a search that answered has found
them; a mirror about to be stored holds them; a union in the making holds those
of the sources it has passed, and the sources it has not passed are still listed
for it; the sources it will seed from are complete. `SeededIsComplete` and
`SteadyIsLive` tie this to the buckets. Every step that could take a placement
away from under a worker (a change in the directory, a deactivated, edited or deleted source)
takes it out of `steady`. One lemma per action.

**`SeatsProofs`, assignment.** The property `DecidedRight` is not inductive: whether a
row wins depends on the seats of earlier rows, whereas the code decides by
`deskOwner`, `placed` and `placedThis`. So `IInv` says what these hold
(`OwnersRight`: for exactly the desks with a seat, their source; `PeopleRight`:
the people seated by earlier sources and by this one), that seats are only at
rows already passed, and that every row passed is decided by the rule
(`RowsRight`). The step that carries the argument is that a later seat never
changes the verdict on an earlier row. `OneSource`, `NoDuplicate` and `Cap`, the
parts of `SeatRules`, follow from the verdicts.

**`SeatsProofs`, alignment.** Here the state is simple and the step is not: one
action runs the whole of `autoAlignPlan`, and `OrderIsKept` is about what it
computes for any finite number of desks at any places. The code sums, scans and
merges in loops; about the result of a loop one argues by induction over the desks,
and the library states induction over sets with an operator as parameter.
`SmallestSet` replaces it: among the sets on which a claim fails there
is a smallest one. It gives that the fold of `Mean` adds up (`SumsExist`,
`SumsAgree`), hence that a rounded mean lies between the bounds of its band
(`MeanBounds`), and that every set of values has anchors (`AnchorsExist`). From
these, `LinesProperties`: of two bands the means are in the order of the anchors,
since every value of the lower one is below every value of the upper one. `CentredInOrder`:
a lone desk that moves to the middle between its neighbouring lines passes
nobody, even if desks on other lines are centred as well. `PlanProperties`
composes the two, within pods and then across them; it needs that a desk is of one
pod only (`PodsApart`, as links are mutual). `OthersStayPut` needs that
a desk without a near one is in no pod (`LoneIsNoPod`).

**`DeskProofs`.** `TableKept` and `DoubleBookedOnlyByOverlap` need that a
number in a handler's list still means the row it was read with (`IInv`). That is
so because the sequence never falls, a fact an import breaks: these theorems assume
`MaxArchive = 0`, and the run of section 5 shows what happens otherwise.
`TableIsKept` is the refinement of `BookingTable`. Its one step with content is
`DeleteDrops`: the row a handler deletes is the one it listed, since a number is
never given twice, and it listed it as past, or as its user's own; or the row is
gone already, and the step is none of the table's, or the end of a cancellation. What several
handlers take back for one user is one claim, so `OneClaim` says what each of them
adds to it. `OwnerOrPast` says the same of a single row.
`AddingLeavesOthers` is the converse of the run of section 5: without an import a new booking
leaves every stored one as it is. `OverlapOnly` also assumes `MaxRename = 0`, since
renaming a map onto the name of a deleted one joins two sets of bookings.
`BookingTyping` assumes nothing about imports, and needs a count: an import starts
the sequence over at zero, so "the sequence is the number of bookings made" fails;
`NumbersInv` says instead that the sequence, *plus* the handlers which may still
add a booking, *plus* the requests still to come are at most all requests, and that
archives hold no number which was never given. `ClientsAgree` rests on the lemma `SameRules`: the
three chains of conditions, of the map page, the mobile app and the server's
report, classify every item alike whatever the person, booking and type.

**`IdentifierMigrationProofs`.** `IInv` is inductive for any number of people,
jobs and janitors. `OneGeneration` needs two facts that it does not mention: the
tracker lets one job be active (`OneJob`), and from its purge to the info record
a Create has the staging for itself (`OwnBuckets`), which holds because whoever
else purges leaves nothing, and an Apply never stages (`Kinds`).
`ConflictsUntouched` is about people without a mail address; it needs `NoMail`
about all that is on its way to the data: the staged rows, the plans, the lists of
avatar files and the names in sessions.
`AvatarKept` needs `Copied`: what is about to be removed has a copy under another
name, and no other job can remove that one.

`ConvertedUnlessPurged` speaks of one step, the flip, and needs the whole way to it.
`CInv` follows each converted row: a Create has staged the areas it has passed
(`StagedFor`), what an info record describes is staged in all areas
(`RecordFits`), an Apply has applied the areas it has passed, and between the last
area and the flip all of them (`AppliedFor`, in `WorkFits`). All of this holds as
long as nobody cancels and nothing expires; as the bounds only fall
(`WithinBounds`), a state that is undisturbed has an undisturbed past. Most steps
are `Gentle`: they take nothing from the staging, and whatever they add to the data is
not a row under conversion; for these one lemma (`GentleStep`) does. What remains are the
purge of a new Create, staging, applying and the record. A booking made under the number of a cancelled
one that is staged is not the staged one, and leaves the obligation with it.

**`MobileProofs`.** `SelectorIInv` relates history, script and screen: an open
selector is over the map with its own entry current, and a closing one has its
end under way. `MapIInv` adds to the property that the poll referred to has its
timer and that a view without map draws nothing. `PanesIInv` says for each
spinner and badge which request will replace it, and, for the badges, that the
requests of earlier visits only come on top. `ShellIInv` adds that the worker in
installation has opened its store and that shells are kept only for a worker in use, so that
whoever activates finds its own store and removes nobody else's.

**`MapPageProofs`.** `SearchIInv` needs more than the marks: the selected row, the
one under the mouse and the one previewed are of the list (`RowsAreListed`), and
what is orange is a match or of a class that `resetColors` forgets (`OrangeKnown`), so
that leaving a row restores the right colours, also from a sidebar that was closed. `PageInStep` is inductive as it stands (`PageIInv` splits it
by what changes together); `PlateStays` is an action property of the same
invariant.

**`MapEditorProofs`.** `IInv` says that neither a form nor a request ever holds the
texts of a Robin occupant, however old the row it was made from; that is what
`EditorKeepsStep` needs. `MovesKeepItems` needs `CopyHolds`: what a moving handler
has read is the item as stored, unless it was overtaken by somebody who wrote the
item; so nothing else brings a deleted item back.

**`AdminPageProofs`.** `TabsInStep` is inductive. `CardsInStep` compares a button
with a switch; the answers under way decide about it, so `CardsIInv` says that on
the first page a toggle under way keeps its switch busy, that there is one per
connection and that the switch shows what it asked for, while the button is
where the switch was before (`OneToggle`, `ButtonWaits`).

`PagedList` reads a log that grows at the top by row number, with a filter that
changes while requests are under way. `ListIInv` says that the one request that counts is for the
next row and, unless a keystroke waits, for the text in the box (`RequestFits`), that the offset
is the number of rows (`OffsetFits`), and, in terms of the rank an entry has from
the top, that the last row is at least as far down as the offset says (`RowsFit`)
and that in a log that stays as it is all rows lie above it (`RowsLieAbove`). The
lemmas about pages (`PageRows`, `PageHasNoGap`, and those about `Rank` before them) say
that the page from an offset holds exactly the entries of the ranks it should. `ListImplementsExcerpt` is the refinement:
arrivals, answers and resets of the list map to steps of `LogExcerpt` or to
stutters.

Only model-checked are the liveness properties (`Converges`, `PastRemoved`,
`TrackerReleased`, `AvailabilityCatchesUp`, `UpdateReachesClient`, `PageCatchesUp`,
`DashboardCatchesUp`, `PollsEnd`), which are out of the proof system's reach.
What the median of `MedianSpacing2` is among the sorted distances, and what the
sums of `DominantAngleIsZero` decide, no theorem says: the theorems
about the alignment hold for any spacing and whichever pods count as straight.

## 7. What is not modelled

- Of the modelled components: LDAP paging and attribute mapping beyond offices
  and title, and `RefreshAdminNames` (`DirectorySync`); what a listing shows
  (`Booking`); the contents of a row besides the identifier, so that a row edited
  after staging and reverted by Apply looks the same, local accounts, and people who
  share a mail address or are given one later (`IdentifierMigration`: in the mail form
  the records of two who share one become the same, and `buildMigPlan` calls them a
  collision only while both are in the directory, `identifiermigrate.go:89`, so no
  theorem speaks of them); administration of the priority list (`SourceAssign` takes
  any list in which a source occurs once); pinch and zoom, tooltips and printing
  (`MobileMap`, `MapPage`); pulses of meeting rooms, which lie outside the drawn items
  (`MapPage`); the demo source (`DirectorySync`); the image picker, the world map's
  pins, and the avatar of somebody whom a directory seats, which a form reads from its
  row and saves (`MapEditor`); pods that stand at an angle (`AutoAlign`); the form of
  the world map (`AdminTabs`).
- EntraID's Graph queries and mirror, Robin's syncs, the geocoding loop with its
  quota, roles, teams and passwords, the backup schedule with its retention:
  planned, see below.
- The login overlay, the change browser's own page, the migration assistant's
  page with its statistics, the resize tool: single requests and layout.
- Pages, REST views, static files, configuration, avatars: rendering and
  single-record writes with nothing to interleave.
- MySQL import, the wizard and demo data: one-time conversions at installation.
- `vendor/`: library code.

## 8. Plan

In order of importance. Modules that are to be proved about use no recursive
operators.

1. `Accounts`: user records, roles, sessions; sign-in by password and SAML, role
   changes and removals, `RefreshAdminNames` and the migration's `Remap` as rivals
   for one record. Abstract specification: the rights of a session are those of
   the latest role change, to be refined as far as the code allows. The same with
   booking rights of an owner whose session keeps the old name.
2. `SourceOrder`: the stored rules, `moveSource`, `setSourceFlags`, appending and
   dropping, ids that are used again; composed with `SourceAssign` through the
   assumption `Distinct`, which becomes a theorem.
3. `EntraSync` and `Robin`: overlapping syncs of integrations with and without a
   tracker, and their caches.
4. `DeskStore`: maps, desks and bookings renamed and deleted together.
5. `BackupSchedule`: tick, long backup, saved schedule, retention, temporary
   files; import in groups.
6. `Geocoding`: the monthly quota.

Proofs to follow: an abstract specification of the tracker's promise, that a
migration is one run from Create to Apply, which `IdentifierMigration` implements.
