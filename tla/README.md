# GoXfer TUI: a verification project

GoXfer TUI is a terminal client that keeps files on a server, encrypted end to
end. A *bucket* has a key (its name) and a password; OPAQUE turns the password
into a session and unwraps the bucket's own key, which seals every file. This
directory holds TLA+ models of the client, translated from its Go source, the
TLC runs that check them and the theorems TLAPS proves about them. The
repository has no tests; the models are the place where its interleavings,
failures and restarts are looked at.

`PROJECT.json` lists the components, the runs, the lines every definition
stands for (`map`), a mutant of the code for every property, the findings, the
hazards and the theorems.

## 1. Inventory

| component | source | state | operations | hard behaviour | module |
|---|---|---|---|---|---|
| upload | `interaction/service.go` 136-324, `core/extras.go`, `tui/upload.go` 366-405 | encrypted copy on disk, plan, `tasks` and `successChan`, a buffer per worker | `ManageUpload`, `initUpload`, `postPart`, `completeUpload`, `TestUpload`, `processUpload` | workers over shared channels, partial failure, a deferred function that overwrites the result, a goroutine that outlives the call | `Upload`, `ChunkTransfer` |
| secrets and sessions | `core/core.go`, `entry/service.go`, `router.go` | `sessID`, `sessKey`, `bucPass` in one `Core` | `SetSession`, `OpenBucket`, `DelSession`, `prepareReq`, `Encrypt`, `GetKEK`, `Expired` | read and written without a lock by logins, logout and uploads in the background | `Session` |
| download | `interaction/service.go` 453-750, `cipher/aesgsm.go` 170-187 | the working directory: encrypted copy by id, decrypted file by name | `ManageDownload` and what it calls, `processDownload` | several calls over one directory, failures at every step | `Download` |
| files page | `tui/files.go`, `service.go` 72-133, 753-772 | `s.files`, the table, dialogs that hold an index | refresh, delete, download, switch of page | stale indices, refreshes that overlap | `FilesPage` |
| remembered credentials | `entry/creds.go`, `entry/tui/open.go` | a JSON file, the keyring | `Set`, `Get`, `Used`, `read`, `save` | read-modify-write without a lock, restarts between truncation and write | `Creds` |
| entry | `entry/service.go` 38-281, `entry/tui/create.go`, `core.go` 266-308 | the two forms, the OPAQUE exchange, the bucket's wrapped key | `CreateBucket`, `createBucket`, `enterBucket`, `OpenBucket` | goroutines that read the forms of the moment, statuses not looked at | `Entry`, `Vault` |
| sealing | `service.go` 326-450, 524-593, 673-750, `cipher/` | key hierarchy of a file, one encrypted copy per path | wrap, encrypt, HMAC; the checks of a download | the file is read more than once, uploads of one path share the copy | `Cipher`, `Sealing`, `Vault` |
| search | `tui/upload.go` 97-172, 268-391 | one result channel, one table, a context per search | `processSearch`, `searched`, `appendSearchResult` | results of an old query in a new one's, a producer left behind | `Search` |
| status and error lines | `tui/tui.go` of both stages | one line each, a timer per text | `SetStatus`, `SetError` | an old timer clears a new text | `StatusLine`, `Reports` |
| logger | `logger/native/native.go`, `main.go` | a channel of 25, a file | `Log`, `Stop` | full channel, the end of the program under running goroutines | `Logger`, `Reports` |
| formats | `utils/utils.go` | none | `VerifyPassFormat`, `VerifyBucKeyFormat` | pure | `Entry` |
| routes, layout, menus, settings, help, wiring | the rest | none of interest | | | not modelled |

How they interact: the event loop of tview runs every key and every queued
screen update; a login, an upload, a download, a refresh or a deletion is a
goroutine of its own. All of them call `Core.Hit`, which signs with the secrets
of the moment and, on a 401, switches the stage from whichever goroutine got
it. Nothing in the program takes a lock.

What makes each correct, in one line: an upload is whole or not completed, and
says which; the secrets belong to one session and one bucket, and are gone
after it; a download leaves a verified file or none, and no encrypted copy; a
row of the table stands for the file it shows, and the file confirmed is the
file deleted; a remembered password is offered, for its own bucket.

## 2. Modules

**`ChunkTransfer`** is the abstract specification of an upload: bytes arrive in
pieces, none twice, and the outcome becomes `committed` only when all are
there.

**`Upload`** is one call of `ManageUpload`. `pc` follows it through
`initUpload`, the start of the workers, the feeding of `tasks`, `errGrp.Wait`,
`completeUpload`, the deferred function and `processUpload`; `wpc`, `task` and
`buf` are the workers in `postPart`, `succ`/`succClosed` the one slot of
`successChan`, `ppc`/`pend`/`highestChunkSent` the progress goroutine, `tester`
the goroutine that `TestUpload` leaves behind and which may panic at any time
(`crashed`). Every error return is `Fail`, and goes through `Cleanup`, which
sets `err` to the result of the removal as the code does. The server is
external: it answers with a plan that covers the file (`HonestPlan`) or with an
error, whose body the code decodes into `ZeroPlan`. The file's bytes are
numbers: chunk *i* is a pair of *i* and the length that was read, so a part
that is cut short is another part. `PartBytes` and `Outcome` map the state to
`ChunkTransfer`.

**`Session`** is `Core` and everyone who reads and writes it. A login is a
goroutine that runs through the OPAQUE exchange (two requests), `SetSession` and
`OpenBucket`, both of which zero the old value before they set the new one.
Logins overlap: `focus` is who gets the keys, and the form gives them up only
when the login's queued update runs (`TakeFocus`), so Alt-O can be pressed
twice; a login that fails and a 401 give them back while others go on. A 401
makes the entry stage anew: `stranded` are the logins of the stage before, and
one that then fails sets the focus on a page nobody sees. An upload reads the
bucket's key three times (`Seal`), then signs and sends its first and its last
request (`Sign` reads the key, `Send` the id). A session key is named by its
session, a bucket key by its bucket, `NilKey` is a field never assigned and
`ZeroKey` one that was zeroed: the guards in the code tell the first from the
others, not the second. The history variable `crossed` records that the login
which wrote the secrets last was not alone with them from its first write to its
switch of the stage; `disturbed` that a secret was written while an upload ran, or
that it was started on crossed secrets.

**`Download`** has several calls of `ManageDownload` over one directory with
Unix semantics: `encAt` says which call created the encrypted file at a path,
`copied` what is in it, `handle` whose file a call has open, `rawAt` what is at
a decrypted name. The history variable `shared` marks the downloads that ran at
the same time as another of their file, over one encrypted copy: the stronger
properties are claimed for the others.

**`FilesPage`** is the page's event loop and its goroutines. A file is its
creation time. `setFilesList` is six steps: clear the table (event loop), fetch,
`clear(s.files)`, assign, sort, fill the table (event loop). A dialog and a
deletion under way are an `order`: the captured index, what its row showed, what
the dialog named and what was asked of the server in the end. A reader or a
sort that runs while another goroutine clears or sorts the same slice gets any
mixture of entries and blanks (`Torn`). What a list sorted by `slices.SortFunc`
may be is `Sorted`: any rearrangement that is in order, because files of the
same second may come in any. `overlapped` records that two refreshes ran at the
same time.

**`Creds`** has operations made of the same file steps: `Read` (an invalid file
is replaced by an empty list first), `Truncate`, the write, and for `Set` the
keyring afterwards. `Kill` ends the program at any point and starts it anew.
Overlapping operations need keys that reach the page while a login runs: the
login takes the focus away only once its goroutine runs (`open.go:82`), and
an expired session or a failed login gives it back.

**`Search`** is the upload page. `searches` are the searches begun, with their
query and whether their context is done; search *i* has a `producer`
(`searched`, which walks the files and blocks on the channel, whatever its
context) and a `consumer` (the `select` of `processSearch`, which may take a
result or the end of its context when both are there, and then waits for the
event loop to append the row). All share `searchResults` and `table`, a bag of
rows. `leftover` records that a search was begun while an earlier one had
something under way.

**`Logger`** and **`StatusLine`** are the two things a goroutine reports to: a
bounded channel with a worker that writes what is in it, and two lines with
timers. **`Reports`** composes them. An operation is the sequence of reports
its code makes (`Upload`, `Download`, `Delete`, `Refresh`, `Login`, `Create`),
each of which waits for the event loop or for room in the channel; `main` is
`main.go` on its way out.

**`Cipher`** has keys and ciphertexts as terms; **`Entry`** the forms, the
goroutines of `createBucket` and `enterBucket`, the server's buckets with their
wrapped keys, and the formats of `utils.go`; **`Sealing`** what `encryptFile`
computes and what a download makes of it. **`Vault`** composes them: a bucket is
created and entered, uploads of one path go into it over one encrypted copy
(`encPath` is the inode at its path, `inode` what each inode holds, also a part of
a copy whose writing failed), the file
changes between the two times it is read, the program is killed and started
again, and what the server then has is opened with every password and in every
bucket. `alone` records that no other upload of the path ran at the same time,
`encrypted` and `hashed` which version of the file was read each time.

| module | EXTENDS | extended by |
|---|---|---|
| `Upload` (`ChunkTransfer` through INSTANCE) | | `MCUpload`, `UploadProofs` |
| `Session`, `Download` | | `MCSession`, `SessionProofs`, `MCDownload`, `DownloadProofs` |
| `FilesPage`, `Creds`, `Search` | | `MCFilesPage`, `FilesPageProofs`, `MCCreds`, `CredsProofs`, `MCSearch`, `SearchProofs` |
| `Reports` | `Logger`, `StatusLine` | `MCReports`, `ReportsProofs` |
| `Vault` | `Entry`, `Sealing` (both `Cipher`) | `MCVault`, `VaultProofs` |

## 3. Runs

| run | bounds | shows |
|---|---|---|
| `upload` | 5 bytes, chunks of 2 or 3, up to 3 workers | the safety properties, the inductive invariant, that every behaviour is one of `ChunkTransfer`, and `UploadEnds`, `ProgressEnds` |
| `session_safety` | 2 buckets, 2 sessions, 2 logins that may overlap, 1 upload | coherence of the secrets, readable undisturbed files, `LogoutWipes` |
| `download_safety` | 3 downloads, 2 files of one name, 2 pieces | no copy left, no mixture left; own copy and checked copy where the path is not shared |
| `files_safety` | 2 files, 2 goroutines | rows and list agree, what was meant is done, deleted rows leave, `Loading...` does not stay |
| `creds_safety` | 2 keys, 2 logins and the page, 3 indices | one entry per key, own passwords, nothing forgotten undisturbed |
| `search` | 2 searches, 2 files (one hidden, one that may vanish), 2 queries, room for 1 result | rows answer the query, everything found is shown once, the search on the screen completes, a replaced one ends |
| `reports` | 2 goroutines, room for 1 entry, 2 progress lines | shown errors are in the log, the status line empties, the program ends |
| `vault` | 2 buckets, 2 uploads of 2 parts, 2 versions of the file, 2 file passwords, 2 bucket passwords (one against the rules) | what completed opens, only what was sealed opens, a created bucket can be entered, passwords follow the first four rules of the page |

The bounds are small and the interesting cases are in them: five bytes in
chunks of two end in a short chunk, in chunks of three as well, there may be
fewer or more workers than chunks, and the channel's slot is contended; two
buckets and two sessions make one login replace another under an upload, or
mix with it, and one come alone after another that a logout crossed; a
third download comes after, or between, two that meet on a path; two goroutines
are what it takes for a deletion and a refresh to meet, for one text's timer to
fire under another's text, and for the channel of the logger to be full. A
result channel with room for one makes a producer wait that has found two. Two
versions are enough for a file to change between its two readings, two parts
for an upload to read half of another's ciphertext, two creations for one
bucket's key to stand beside another's password. In `vault` the uploads start
when the creations are over: they share nothing but the buckets. The sets of
workers, uploads, downloads, goroutines and keys that nothing tells apart are
symmetric; the runs of liveness properties use no symmetry.

Deadlock is checked wherever the system does not simply end: a final state has
an explicit stuttering step (`Stopped`, `Ended`). `upload` and `reports` leave
it unchecked, for there `UploadEnds` and `ProgramEnds` say when a goroutine may
wait for ever: in `reports`, after the event loop is gone.

**Fairness.** `Upload!FairSpec` assumes weak fairness of every goroutine
separately (the Go scheduler runs what can run, tview's event loop takes what
is queued) and that the server answers every request, one way or another. The
last is an assumption about the environment: the client sets no timeout
(`core.go:40`). `Search!FairSpec` assumes weak fairness of every producer and
every consumer, `Reports!FairSpec` of every goroutine, the timers (a sleep
ends), the worker and `main` once it has left the event loop. The user is never
assumed to do anything, and the goroutine of `TestUpload` is not assumed to
return. That the files page always comes back from `Loading...` needs no
fairness in the form it is stated: whenever no goroutine runs, the title is that
of a list (`QuietIsLoaded`).

**What the program says of itself and does not do.** Each of these runs has one
property, taken from a text in the repository, and TLC's counterexample is the
story of the finding in `PROJECT.json`:

| run | property | story |
|---|---|---|
| `upload_success_is_stored` | `SuccessIsStored` | `if err = os.Remove(encPath)` in a deferred function assigns to the named result: a failed upload is reported as uploaded |
| `session_sealed_under_its_bucket` | `SealedUnderItsBucket` | an upload goes on over a logout, or over a login into another bucket, and nobody can open the file |
| `files_deletes_what_was_asked` | `DeletesWhatWasAsked` | ask for a file and confirm while a refresh (Alt-R) is under way: it replaces the list before the index is looked up again, and another file is deleted |
| `reports_sticky_texts_stay` | `StickyTextsStay` | a late progress line of an upload takes the place of its "Uploaded ... successfully", and the timer of that text empties the line under it |

The models contain more that has no run of its own, and the hazards in
`PROJECT.json` say where it bites: the deferred removal panics when the copy was
never made (`crashed`), and loses a download's error as it loses an upload's; an
error answer to upload init is taken for a plan without chunks, and the upload
goes on to its completion; an expired session shows the entry stage and keeps
the keys in memory (`router.go:48`; the README promises "Creation -> Use ->
Zeroization"); a program that ends between the truncation of the credentials
file and the write leaves none of them (`creds.go:89`; the README promises
"Atomic file handling on disk"); a decrypted file that could not be written
whole stays at its name; refreshes that overlap leave rows below the total; the
open page, when it reads the credentials between another operation's truncation
and write, saves an empty list; a row of an old search appears in a new one's
table, and Enter before the first row panics; two uploads of one path may store
what nobody can open, and so may one whose file changed while it was sealed; a
refused registration shows "Bucket Created" without a key, and the page may
show one bucket's key while its form holds another's password; two
logins that write at once leave the session of one bucket with the key of another
(Alt-O twice, the one fails and gives the page back, a second bucket is opened
while the other is between its writes; `help.go:119`: "the bucket will be unlocked
for this session"), and `OneContext` without `crossed` is false; a login that
outlives its entry stage and fails leaves nobody with the keys; acknowledgements
out of order show a percentage ahead of what the server has. One promise the
models do not even state: the page lists "Avoid common weak patterns" as its fifth
rule for passwords (`create.go:45`), and `VerifyPassFormat` (`utils.go:29-93`) looks
for none; what is checked and proved is the first four (`create.go:41-44`).

The passing properties say what remains true all the same; where they have a
precondition (`disturbed`, `crossed`, `overlapped`, `shared`, `alone`, `leftover`,
`late`)
it is the one these stories break.

## 4. Proofs

`UploadProofs` proves for every file size, every set of positive chunk sizes and
every number of workers (`UploadAssumption`): `TypeCorrect`, `PartsWhole`,
`ChunksOwned`, `CompleteIsWhole`, `ProgressTrue`, `NoCopyLeft`, all from
`Inductive`, that `IInv` is an invariant. TLC checks `IInv` too (`upload`).

Why an inductive invariant is needed: that an upload is whole when it is
completed depends on where every chunk is at every moment. `ChannelInv` says
the queue holds exactly the chunks `Taken .. fed - 1`, in order; `TakenInv` that
every chunk below `Taken` is stored, or in a worker's hands, or that a worker
failed; when all workers have returned without failure and the queue is closed
and empty, all are stored (`AllStored`). `WorkerInv` says that workers hold
different chunks, that a chunk still to be posted is not stored, and that the
reused buffer has room for the chunk: it was shortened only by the last chunk,
after which nothing is taken. `ShownInv` follows an acknowledgement through the
channel to the progress line. `Untouched` says that nothing of this has begun
before the workers start.

The proof has a lemma per action (`FeedIInv`, `TakeTaskIInv`, `ReadPartIInv`,
`PostPartIInv`, `SendSuccessIInv`, ...), with a step per conjunct that the
action can disturb. `SamePlan` and `Frame` carry what an action leaves alone,
`PlanFacts`, `ReadLenType`, `FullChunk` and `TimesMonotone` are the arithmetic
of chunks: every chunk but the last is full.

Its last part proves `Refinement`: for every size, plan and number of
workers `Upload!Spec` implies `ImplementsChunkTransfer`. A part that is posted
is a piece not delivered before, because its chunk is not stored (`WorkerInv`)
and different chunks share no byte (`ChunksDisjoint`); a commit finds every byte
delivered, because all chunks are stored (`AllStored`) and every byte is in one
(`ChunksCover`, a division). `EndedInv` adds to `IInv` what the refinement needs
and the other theorems do not: nothing is posted once `ManageUpload` is past
its work.

`DownloadProofs` proves the type invariant and all three safety properties of
`Download`, for any number of downloads, files, names and pieces
(`DownloadAssumption`). `PathInv`: where there is an encrypted copy, a download
of its file still has the removal before it, and a copy is its file's.
`SharedInv`: two downloads of one file that run are both marked `shared`. From
both, `OwnInv`: one that is not marked found the path empty when it created its
copy, and nobody has written or removed it since. `MixtureInv`: where a name
has a mixture, some download of it is still writing, or did not succeed.

`SessionProofs` proves the type invariant, `OneContext`,
`UndisturbedIsReadable` and `LogoutWipes` for any number of logins, uploads,
buckets and sessions, however the logins overlap (`SessionAssumption`).
`OneContext` is not inductive, because a login passes through states in which the
secrets are of two sessions. `WriterInv` says what is written at each step of a
login that is alone with them (`Written`): two that write at once have `crossed`.
`StageInv` has the context that such a login leaves when it shows the files page,
and `LoginIInv` and `EnterIInv` the steps of a login and of whatever shows
the entry stage; what uploads have sealed and sent is carried along until a
secret is written, which marks them `disturbed`. `LogoutWipes` holds because only
a login that is past its `setID` can have put a secret back.

`ReportsProofs` proves for any number of goroutines, any capacity of the
logger's channel and any number of progress lines (`LoggerAssumption`,
`ReportsAssumption`) that the state is well typed and that an error the user was
shown is in the log: `ReportsTypeCorrect` and `ShownLogged`, from `Inductive`.
The property is not inductive for two reasons. What is shown must have been
logged by the same goroutine earlier: `LogsFirst` follows every failure that is
still to be shown back to a logged entry or to an `emitErr` that comes before it
(`OperationLogsFirst` establishes it when an operation starts, `RangeHeadTail`
carries it past a report). And nothing may be left in the channel at the end:
`EndInv` says that the worker drains only after `Stop`, `Stop` comes only after
the event loop, without which no error is shown any more, and so the channel
that the worker found empty had everything that was shown.

`VaultProofs` proves all five safety properties of `Vault` and `Entry`, for any
number of creations, uploads, parts, versions of the file, and any passwords
(`EntryAssumption`, `VaultAssumption`). It begins with the
terms: `SealedOpens` and its neighbours say what each layer of the key hierarchy
opens. `FormatIsFirstFourRules` shows that the loop of `VerifyPassFormat`, a
recursive function over the spelling, accepts just what the rules 1 to 4 of the page
say, for spellings of any length; `FirstFourRulesFollowed` rests on it. In the entry
stage `MadeInv` says that a bucket's password and its wrapped key come from one
creation, and two buckets from two; that does not follow from the buckets alone,
so `CreationInv` keeps what a goroutine has read together with what it was
granted, and `FormInv` keeps the form still as long as one goroutine uses it:
with them `CreatedOpen`. For the uploads, `CopiesInv` and `FilesInv` say which
version every copy on the disk and every part on the server is of, as far as it
is still known; `StepInv` that the metadata are those of the hashed version.
`OpensOwn` then is an argument about digests: a download that passes both checks
read parts whose digest the metadata name, so they are of the version the
upload hashed, and it encrypted the same. `AloneInv` says that an upload with
the path to itself finds its own copy at it, in each of its steps and over
restarts; it gives `CompletedOpen`.

`FilesPageProofs` proves the five safety properties of the page for any number
of files and goroutines (`FilesPageAssumption`). None of them is inductive by
itself. `OneRefresh`: as long as `overlapped` is false, one
goroutine refreshes. `RowsInv`: from the first step of a refresh to its last the
table is empty; `s.files` is written only in between, which is why
`RowsShowTheList` holds although list and table are written by different
goroutines. `MeantInv` carries what a row showed through the dialog and its
goroutine up to the request (`UndisturbedMeant`). `CleanInv` follows a list from
the server's answer to the table (`DeletedLeave`), with `KnownInv` for files that
do not exist yet. `TitleInv` says that whoever shows the page starts a
refresh that sets the title in the end (`QuietLoaded`). `SortedFacts` is all the
proofs need of the order: a sorted list has the same entries.

`CredsProofs` proves the four safety properties of the remembered credentials for
any number of keys, logins and indices (`CredsAssumption`, and
`ContentAssumption`, that the three contents that are no list differ from the
lists). `OneEntry` needs `DistinctInv`: not only the file, but every list that an
operation holds, however old, has one entry per key. `PasswordKeys` needs
`BoundInv`: an index is bound to one key for good, in the file, in every list in
memory, in the keyring and in an operation that has drawn it and not used it yet;
an old list that overwrites a new one can therefore lose an entry and never
exchange one. `KeptInv` says where the passwords to be offered are at every step of
an operation that nothing disturbs (`UndisturbedKept`).

`SearchProofs` proves the three safety properties of the search for any number of
files, queries and searches and any capacity of the channel
(`SearchAssumption`). A result is in the table, in the channel or in a
consumer's hands (`Placed`). `PlacedInv`: its producer is past it, so that
nothing is placed twice; `OnceInv`: it is in one of the three, once; `KeptInv`:
what the search on the screen went past and found is placed unless the file is
gone. `FoundAreOnce` turns these into the counts of `FoundOnce` (`OneCopy`).
`OwnInv` says what `leftover` stands for: without it, everything in flight is of
the search on the screen, and with `PlacedInv` answers its query
(`RowsAnswer`).

**What liveness rests on.** That something ends cannot be proved here, but
that it cannot stand still short of its end is a safety property, and proved for all
values of the constants. `NeverStuck` (`UploadProofs`): until an upload is over,
some goroutine can go on. The workers wait for the one slot of `successChan`,
`ManageUpload` for the workers; `SlotInv` says that the progress goroutine, which
empties the slot, ends only after the channel is closed, and that it is closed only
after all workers have returned. `RestShows` and `ReplacedLeave` (`SearchProofs`):
when no goroutine of any search can go on, the search on the screen shows all that
it should, and the goroutines of the searches before it have ended. A consumer
ends only when its context is done (`BegunInv`), so that the last one empties the
channel for all (`RestIsEmpty`), and its producer ends only past the last file
(`LiveInv`). `QuietLine` (`ReportsProofs`): with every operation over and
every timer fired the status line is empty. Every operation but a refresh ends with
a report that empties the line or starts a timer for it (`EndsWell`), so
that while a text is shown somebody is still to empty it (`Coming`). The
guards that these properties speak of (`WorkerGoesOn`, `ProducerGoesOn` and their
neighbours) are those of the actions. The properties (`NobodyStuck`, `RestShowsAll`,
`RestLeavesNobody`, `QuietLineIsEmpty`) stand beside their proofs; on the small
instances the liveness properties that the runs check say more.

Every invariant that the passing runs check is stated by one of these theorems,
and so is the refinement. Only model-checked
are the liveness properties: `UploadEnds`, `ProgressEnds`, `SearchCompletes`,
`ReplacedSearchesEnd`, `StatusLineEmpties` and `ProgramEnds`, because TLAPS does
not handle fairness and ENABLED. The theorems of induction that the library offers
take an operator as a parameter and cannot be used here; where an induction
over data was needed (`FormatIsFirstFourRules`) it is done by hand, from the smallest
counterexample (`LeastNat`). Two definitions are written so that no induction is
needed: `Sorted` says what a sorted list is, not how it is reached, and
`Without` removes the first match. The four properties of the violation
runs are false and have their counterexamples.

## 5. Abstractions

- Contents of messages, progress texts and errors are left out; so is the
  speed that `TestUpload` measures and that `initUpload` divides by.
- `Upload` assumes a name of seven bytes or more; a shorter one panics in the
  first progress line (`upload.go:396`). `FilesPage` models that panic for
  deletions (`ShortName`).
- `Upload` has one call, with its workers; `Vault` has several calls that share
  the encrypted copy, with their parts sent in order.
- `Session` repeats only the requests of uploads; other requests read the
  secrets in the same two steps. Its form is the bucket that will be read from it.
- `Download` takes a body to be right or to be an error's; bytes are pieces.
- `FilesPage` has one page object; logging out and in again makes another.
- `Creds` leaves out creation times, and cuts off the count of uses.
- `Search` has the files of one directory; of the tree it has only what starts a
  search or opens the form, and whether hidden files are shown. That a removed
  file panics the tree (`upload.go:83-86`) is left out.
- `StatusLine` leaves out how long a delay is: a timer fires at any later time.
- `Reports` has the reports of an operation and not the work between them. A
  worker of an upload that fails logs for itself; one entry stands for them all.
- `Cipher` is perfect: a ciphertext opens with its own key and nonce only, and no
  two random draws are equal.
- `Vault` leaves a bucket only when no upload runs: `Session` has what becomes of
  the keys under a running upload (Alt-L does not wait, `files.go:65-68`), so
  `CompletedOpens` speaks of uploads within one stay. `CompletedOpens` and `OpensOnlyItsOwn` take a
  downloaded body to be what the server has; `Download` has the failures.
- `Entry` has the login as one step, as `Session` has its requests; a goroutine
  left behind by a login keeps its key out of the new stage's forms, but where
  it sets the focus then is left out.

## 6. Not modelled

- `core/registry.go` is a constant table of routes; which of them are signed is in
  `Session`.
- `TestDownload` (`extras.go`), `Rotate` (`native.go` 63-135), `SetConfirm`
  (`tui.go`) and `Core.DecryptFile` are called from nowhere.
- `help.go`, `menu.go`, `settings.go`, `about.go` and both `layout.go` build
  widgets and text; `auxiliary/` is a settings struct.
- `FetchOpaqueConfigs` asks the server and keeps nothing.
- The cryptographic primitives, tview, the keyring and the server are external.

## 7. Plan

1. *Done:* `ChunkTransfer`, `Upload`, `UploadProofs`; `Session`; `Download`;
   `FilesPage`; `Creds`; `Search`; `Logger`, `StatusLine`, `Reports`; `Cipher`,
   `Entry`, `Sealing`, `Vault`.
2. *Done:* the proofs of section 4.
3. Abstract specifications of what further components promise, with refinement
   proofs as for `Upload`: a store of credentials that an operation changes at
   once, where nothing disturbs it; a list of files whose deletions are those
   that were confirmed.
