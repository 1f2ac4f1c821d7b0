# A TLA+ model of niceyaml

niceyaml parses YAML, keeps its tokens, and renders, searches, diffs and
validates it. It is a Go library with a terminal viewport (`bubbles/yamlviewport`)
and a command (`cmd/nyaml`) on top. This directory models the parts of it that
keep state or have an algorithm worth checking, checks them with TLC on small
instances, and proves what matters most with TLAPS for instances of any size.

Source paths are relative to the repository's root. `PROJECT.json` maps every
definition that models code to the lines it stands for.

## 1. Inventory

| Component | State | Operations | What is hard about it |
|---|---|---|---|
| `schema/registry/schemastore` | catalog entries, time of the last fetch, an RWMutex | `New`, `FindMatch`, `Match`, `Load` | concurrent refresh, outages, timeouts, cancellation, staleness |
| `schema/registry` | match loaders, validator cache, the Directive loader's one slot | `Register`, `Lookup`, `ValidateDocument` | goroutines sharing the slot and the cache, failure of one step of several, schemas that change |
| `schema/loader`, `schema/matcher` | none; files and URLs outside | `File`, `URL`, `Ref`, `Embedded`; the matcher combinators | a fetch that hangs or returns nothing |
| `cmd/nyaml/validate.go` | the file being validated | `validateFile`, `buildRegistry` | stopping at the first failing document |
| `diff/` | two row buffers and a list of operations, reused | `Init`, `Diff` | the recursion's index arithmetic, reuse of the buffers, tie-breaking |
| `diff.go` | a result computed once, aligned rows computed lazily | `Diff`, `Unified`, `Hunks`, `Before`, `After` | hunks at the edges, panes that stay aligned |
| `bubbles/yamlviewport` | revisions, view and diff mode, search term, matches and index, highlights, cached diff, scroll offset | some thirty methods, called in any order by key presses | a long sequence of legal calls that leaves derived state stale |
| `revision.go` | a doubly linked list | `Append`, `Prepend`, `Seek`, `Tip`, `At` | edits in the middle of the chain |
| `find.go`, `normalizer` | the loaded text and its position map, an RWMutex | `Load`, `Find` | two calls on shared state, normal forms of another length than the text, a search that must end |
| `source.go` | lines with overlays and annotations, an RWMutex, a once-only parse | `AddOverlay`, `ClearOverlays`, `AllLines`, `AllRunes`, `File` | callbacks under a lock, marks that move while lines are printed |
| `line/`, `tokens/`, `position/` | the lines of a token stream | the line builder, `SplitDocuments`, `Validate`, spans and ranges | newlines the lexer reads twice, leaves out or puts in front; index and width arithmetic |
| `print.go` | the styles, the wrapping and the width | `Print` | overlays that meet token and row boundaries |
| `error.go` | the error tree and the source it annotates | `Error`, `SetOption`, `SetWidth` | rendering that changes what it renders; hunks around several errors |
| `cmd/nyaml/model.go` | mode, prompt, picker, the themes of now and before | `Update`, `View` | modal input, a live preview that must be undone |
| `style/`, `style/theme`, `internal/colors` | styles and the registry of themes | `Register`, `List`, `Styles` | inheritance between styles, highlights on many backgrounds |
| `paths`, `lexers`, `fangs`, `internal/ansi`, `internal/filepaths/glob.go` | options only | adapters, file lists | formatting and I/O: not modelled |

How they interact. `nyaml validate` parses each file into a `Source`, splits it
into `DocumentDecoder`s and calls `Registry.ValidateDocument` for each. `Lookup`
asks the match loaders in order; the `Directive` loader reads the document's
comment, the `SchemaStore` looks its path up in the catalog, and either hands a
URL to `schema/loader`. The compiled validator is kept in the registry's cache.
`nyaml view` holds a viewport over a chain of `Revision`s; the viewport asks
`Diff` (and so `Hirschberg`) for a `DiffResult` between two of them, a `Finder`
for the matches of the search term, and paints overlays on the `Source`s it
prints. `Source`s are built by `line` from the `tokens` of the lexer; `Error`
paints and annotates them; the `Printer` shows them with the `Styles` of a theme.

What makes each component correct:

* *SchemaStore*: the catalog in use is always a whole one; it is refetched only
  when expired and by one goroutine at a time; it never goes back in time; a
  lookup answers from a fresh one unless its own refresh failed; a lookup
  ends even if the service hangs.
* *Registry*: a document meets only schemas of a location that governs it; a
  file is valid only if every document passed; the errors say what happened.
* *Hirschberg*: the script is an edit script, the shortest, deletions first, and
  the recursion ends.
* *DiffResult*: hunks cover every change and nothing twice; headers count what
  is printed; the two panes stay aligned and lose no line.
* *Viewport*: matches, highlights, index, cached diff and offset belong to what
  is displayed now.
* *Revision*: one chain, the same from both ends.
* *Finder*: matches are the occurrences of the term in normal form, at the
  columns of the original text; a search ends.
* *Source*: what is printed is one moment of it; nobody waits for ever.
* *Lines, tokens*: the lines put together are the text; documents put together
  are the file.
* *Printer*: a mark is on the runes it was made for, in whatever row they are.
* *Errors*: the lines shown are those around the errors, each message at its line.
* *nyaml view*: the theme shown is the one selected, and leaving the picker keeps
  it or undoes it.
* *Themes*: a match looks like a match on every background.

## 2. Plan

| Order | Modules | Abstract specification | Runs | Theorems | State |
|---|---|---|---|---|---|
| 1 | `Catalog`, `CatalogCache`, `SchemaStore`, `SchemaStoreTimed` | `CatalogCache` | `store`, `store_timed`, one divergence | six, with the refinement; the bound on the time of a lookup | done |
| 2 | `Registry` (over `CatalogCache`) | | `registry` | five | done |
| 3 | `Hirschberg` | longest common subsequence by definition | `diff` | the script is an edit script, a shortest one, with deletions first; the recursion ends | done |
| 4 | `DiffResult`: hunk spans, headers, panes, over any edit script | the lines near a change, by definition | `hunks_and_panes` | all five of its properties | done |
| 5 | `Viewport` with the part of `Revision` it uses: modes, search, highlights, cached diff, scrolling, printer, over any edit scripts | the revision and the diff asked for, by definition | `viewport` | all seven of its properties | done |
| 6 | `Positions`, `Lines`, `Finder`, `Printer`, `ErrorSource`, `YamlLexer`; `SharedSource` composes them | the text, the occurrences of a term and the lines near an error, by definition | `source`, two divergences | locks, snapshots, the stream of tokens, the marks, the screens of errors | done |
| 7 | `Themes`; `Nyaml` composes it with `Viewport` | the theme confirmed last | `nyaml`, one divergence | the picker; the viewport within a session | done |
| 8 | wrapped lines in `Viewport`; `Register` during lookups; edits in the middle of a chain | | | | later |

Modules 4 and 5 take the edit script as a parameter, with the assumption that
it is one: that is what `HirschbergProofs` proves of the code that computes it.

## 3. The schema store: `Catalog`, `CatalogCache`, `SchemaStore`, `SchemaStoreTimed`

`Catalog` is the data: the service publishes `Catalogs[1]`, `Catalogs[2]`, ...;
`FilterAndNormalize` drops what the store drops; `FirstMatch` is the linear scan
of `FindMatch`. A glob is a member of `Pattern` and `Covers` says what it matches.

`SchemaStore` is the code: `entries` and `age` are `s.entries` and the time since
`s.lastFetch`; `held` is the version the entries came from. A goroutine's `pc`
says where in `FindMatch`/`ensureCatalog` it is, one value for each place where
another goroutine can be noticed:

| Code | Actions |
|---|---|
| `New` (fetches before the store is shared) | `BeginNew`, then as below |
| `FindMatch`, its context live, done, or the path empty | `BeginFind`, `BeginFindCancelled`, `FindNothing` |
| `ensureCatalog`: read lock, test of the TTL | `Check` |
| `s.mu.Lock()`: become the writer, then wait for the readers | `Lock`, `Drain` |
| the double check | `Recheck` |
| `fetchCatalogLocked`: success; failure; context done | `FetchOk`, `FetchFail`, `FetchAbort` |
| an empty 200 response: `NewResult` panics out of `FindMatch` or `New` | `FetchPanic` |
| the second read lock and the scan | `RLockEntries`, `Scan` |
| the service; the caller; the clock | `Publish`, `Cancel`, `Tick` |

`CatalogCache` is what the store promises: one catalog at a time, replaced only
when expired and only by one as recent, each lookup one atomic read, or a panic
while the catalog is expired (`Panic`).
`SchemaStore!ImplementsCache` says that the code implements it, with a pending
lookup mapped to the path it asks for.

`SchemaStoreTimed` adds the clock discipline of a real-time bound: time passes
only when every goroutine is blocked, and the `sync.Mutex` inside the RWMutex is
modelled with its starvation mode, because who gets the lock decides the bound.
`queue` is its line of waiters, of which the one that gets the lock is taken out
wherever it stands; `waited` is how long each lookup has been under way.

| Run | Question | Bounds |
|---|---|---|
| `store` | is the catalog whole, refetched only when expired, never older, and fresh for a lookup whose refresh did not fail; does the store implement the cache; does every `FindMatch` end although the service never answers | 2 goroutines, TTL 1, timeout 1, 2 catalogs that reorder and hide entries |
| `store_timed` | does it end within four refresh timeouts | 3 goroutines, TTL 1, timeout 2 |
| `store_empty_catalog` | divergence: "if the catalog fetch fails, continue with stale cached data" | as `store` |

Two goroutines are enough for every pair of steps to meet, and the proofs below
do not depend on the number. The timed bound is a matter of how many can be ahead
in the queue: three put one ahead of another while a third holds the lock, and
`LookupsReturnInTime` says that more make no difference. `age` and `left`
saturate, so runs are infinite and nothing is cut off.

Fairness. `Tick` and each goroutine's own steps are weakly fair: Go's scheduler
runs every runnable goroutine. `Lock` is strongly fair: the lock is free only now
and then, and `sync.Mutex` hands itself to a waiter that has starved for a
millisecond. Nothing is assumed of the service: `FetchOk`, `FetchFail` and
`FetchPanic` may never happen, which leaves `FetchAbort`, the refresh timeout.

The divergence: `FindMatch` discards the error of a refresh and answers from the
catalog it has, but a 200 response without a byte is no error. `loader.URL` passes it
to `NewResult`, which panics on it, through `fetchCatalogLocked` and `FindMatch`. The
deferred unlock runs and nothing has been assigned, so that whoever recovers finds
the lock free and the catalog whole and expired; the lookup has no answer. All the
properties of the store are checked and proved with such responses among the
others. They hold of what the store keeps, and `FreshUnlessMissed` of lookups that
get to the scan.

TTL 0, and an age equal to the TTL, are read off the code in `Expired` and used as
they are by the properties, which would not notice another comparison.

## 4. The registry: `Registry`

A goroutine validates the documents of a file one after the other. `pc` follows
`Lookup` and `loadValidator`: `match`/`matching` (asking a match loader),
`load`/`loading` (its `Load`), `fetch`, `get` (cache), `compile`, `validate`. Shared
are the Directive loader's slot (`slotDoc`, `slotDirective`), the validator
`cache`, and the SchemaStore, here as the `CatalogCache` it implements. `now` says
which of its contents each location serves, so that schemas are edited under
the goroutines' feet. Each step is what the code does under one lock, or
between two. `Match` and `Load` of the SchemaStore are two calls with anything
in between, as in the code.

| Run | Question | Bounds |
|---|---|---|
| `registry` | is every document validated by a schema that governs it, is every verdict earned, do the errors mean what they say | 2 goroutines, 7 documents in 5 files covering every way to a schema or past it, 4 match loaders, 2 catalogs |

Bounds: two goroutines suffice to race for the slot and the cache; `MCRegistry`
names what each document is for. Nothing is said about progress: a fetch may
hang, `schema/loader/url.go` bounds it by the caller's context only.

Divergences met, without a run of their own. `NewResult` panics on a schema of zero
bytes, which the `File` and `URL` loaders pass to it, where `Lookup` documents an
error; and the panic of an empty catalog (section 3) comes through `Match` and `Load` of
the store (`StorePanic`). Either ends the work of the goroutine with the verdict
`panic`. `loadValidator` does not look in the cache again before it sets it, so two
goroutines compile the same schema and a validator of an older one can replace a
newer one; `registry_test.go:363-366` describes a double check there. `RightSchema`
allows this: a cache without expiry may serve any schema its location ever had.

## 5. The diff algorithm: `Hirschberg`

One step is one call of `recurse` up to its own recursive calls; `calls` is the
stack of those. `row0`, `row1` and `ops` are the object's buffers, kept from diff to
diff; `Pass` is `forward` and `backward` with their swaps and the clearing before
them, so what an earlier diff left in the rows is there to be misread. Lines are
numbered from 1 where Go numbers from 0.

| Run | Question | Bounds |
|---|---|---|
| `diff` | is the script an edit script, as short as the longest common subsequence allows (by its definition, over subsets), with deletions before insertions, whatever was diffed before; does each call leave less work | every pair of sequences of at most 4 lines over 2 contents, in every order |

Four lines divide twice, on both sides of every split, and reach each base case;
two contents produce ties. Rows grow on the first diff and are reused, dirty, by
every later one. `ShortInv`, below, was checked in this instance before it was
proved. That the recursion ends is stated as a measure, `Work`, which each
call decreases and none takes below zero: it gives the number of calls as well
as their end, and it can be proved.

### What is shown of a diff: `DiffResult`

The module begins where `Diff` returns: `ops` is any edit script, a sequence of
kinds, and a line is the position of its operation. A step is one iteration of a
loop of the code:

| Code | Actions |
|---|---|
| `Hunks`; `selectHunkSpans` and `GroupIndices`, per line | `Hunks`, then `SkipEqual`, `JoinGroup`, `OpenGroup` |
| `Expand`, `Clamp`, the headers | `ShowHunks` |
| `getAlignedRows`, per iteration; its `sync.Once` | `AlignRows`, then `AlignEqual`, `AlignDeletes`, `AlignInsert`, `RowsDone` |

| Run | Question | Bounds |
|---|---|---|
| `hunks_and_panes` | do the hunks show exactly the lines within context of a change, none adjacent to the next, under headers that find them; do the panes show every line once and in order, with no placeholder opposite another for want of pairing | every script of at most 6 operations, contexts -1 to 2 |

Six operations hold two changes as far apart as context 2 allows them to join and
one further with context 1. `TightInv` and `HeadInv` are the invariants of the
proofs of `PanesTight` and `HeadersRead`. `SpansExact` is stated over lines, without groups:
a line is shown when a change is near it. `PanesTight` assumes deletions before
insertions, which `DeletionsFirst` says of the default algorithm and the
`Algorithm` interface does not require.

A divergence without a run: the header is documented as that of a unified diff, where a side
without a count has one line and an empty side is written with a count of 0
after the line before it. With a context of 0 an insertion or deletion in mid-file
leaves a side empty, and the code prints it as a side of one line. With any other
context a side is empty only when the whole file is, which is treated apart. `HeadersRead` therefore starts at context 1.

### The viewport: `Viewport`

`view` is what the calls have asked for: the chain of revisions as a sequence and
an index into it, the two modes, the term. All else is derived, and the question
is whether it is derived again whenever it must be. `left` and `right` are the
sources shown, `diffResult` the cached diff, `search` the matches with the index of
the current one, `paint` the overlays on the revisions' own sources. Those last
ones outlive the view they were painted for: without a diff `left` *is* the
revision's source (`rev` is its number), with one it is a copy (`rev` is 0), and a
diff copies the overlays its lines have when it is computed.
`leftMatches` and `rightMatches` are not variables: the code reads them only for the
panes they were computed for, so `BothOverlaid` computes them again from those.

| Code | Definitions |
|---|---|
| `resolveRevisionSource`, `getDiffResult`, `Unified`, `Before`, `After` | `Whole`, `FreshDiff`, `Unified`, `Side` |
| `updateSearchState`, `updateSideBySideSearchState` | `Searched`, `SearchedBoth`, `Combined`, `Settled` |
| `applySearchOverlays`, `applySideBySideOverlays` | `Overlaid`, `BothOverlaid`, `PaneOverlaid` |
| `rerender` | `Rerender`, part of nearly every action |
| `AddRevision`, `SetTokens`, `ClearRevisions`, `GoToRevision`, `NextRevision`, `PrevRevision` | `AddRevision`, `SetTokens`, `ClearRevisions`, `GoToRevision` |
| `SetDiffMode`, `SetViewMode`, `SetHunkContext` and the toggles | the same |
| `SetSearchTerm`, `ClearSearch`, `SearchNext`, `SearchPrevious` | `SetSearchTerm`, `ClearSearch`, `Navigate` |
| `SetYOffset`, `ScrollDown`, `PageUp`, `GotoBottom`, ... | `SetYOffset`, `ScrollDown`, `ScrollUp`, `Goto` |
| `SetHeight`, `SetWidth`, `SetPrinter`, `ToggleWordWrap`, `View` | the same |
| `View`: what it prints; which lines of that fit the screen | `Printed`, `Marks`; `Window`, `HunkRow` |

What `View` prints is `left`, or both panes, except in the hunks view of a diff:
`getHunksDiffContent` makes a copy of the cached diff and prints the hunks of that, from
the top, whatever the offset (`HunksShown`). `HighlightsRight` and `MatchVisible` are
stated of what is printed and of the lines that fit the screen, with the hunks and their
header rows. A diff without a change prints one blank row with the default printer;
with a style that leaves an empty text empty, `View` would take the empty content for
none and print the whole diff, which is not modelled.

`View` has a value receiver, but the printer is behind an interface: what it sets
there stays, so it is an action. `Script` and `Rows` give the edit script of two
documents and its layout. They are constants, and what `ScriptAssumption` takes
for granted of them is what is proved of the code that computes them: `IsScript`
is `EditScript` of `HirschbergProofs!ScriptRight`, `IsAligned` is `PanesFaithful` of
`DiffResultProofs!PanesRight`. `MCViewport` writes them out
for two documents of two and three lines, between which a line is replaced, one
inserted or deleted, and one stays.

| Run | Question | Bounds |
|---|---|---|
| `viewport` | is what is shown that of the revision and modes of now, is there one match for each line with the term, is the current one highlighted as such and (but for the hunks view) on the screen, does another revision start inside its lines, does showing everything again change nothing | `BrowseSpec`: three revisions, height 2 or 0, hunks with context 3 |

Three revisions tell adjacent from origin, and the same document may come twice.
The term is in lines that are equal, deleted and inserted, once in two on the
same row, so that matches of both panes are merged in every way the code tells
apart. Height 2 is below the longest view and above none, and 0 is a viewport
not yet sized. Context 3, the default, is enough: which lines are in the hunks is
in none of these properties, and is the matter of `DiffResult`, at any context. The methods are synchronous, so there is no fairness and no
progress property: the hazard is an order of calls. The calls of `BrowseSpec`
neither read nor set the printer; those of `Printing` (`SetWidth`, `SetPrinter`,
`ToggleWordWrap`, `View`) do nothing else but call `rerender` with everything as it
is, and `RedrawStable` says of every state of `BrowseSpec` that this changes
nothing. It could: `SearchNext` changes index and overlays by itself, and a resize
runs the full derivation again over the result. So the printer is left out of
the large run and is in that of `Nyaml`. The theorems are about `Spec`, with all of
the calls.

Divergences met, without a run of their own. `applySideBySideOverlays` returns at
once for an empty term, and the panes' lines are clones with the overlays of the
revision's source: search with one pane, move to a diff in two, clear the search,
and highlights remain with no term to clear. In the hunks view of a diff a search
highlights nothing: it paints `left`, while the hunks carry the overlays that the two
revisions were left with when each was last shown by itself, stale ones included. Nor
does it bring the match on the screen, since the view is cut at the height, pays no
attention to the offset and may leave the match out; `yamlviewport/doc.go:42-44` promises
both ("Call SetSearchTerm to highlight matches", "automatically scrolls to center the
current match"). `HighlightsRight` says what the hunks do carry, and `MatchVisible` excepts
them. The shared printer is left at the width of a
pane when the view goes back to one pane. And `ClearRevisions` leaves the matches of
the content that is gone, since `rerender` returns before it comes to them.

## 6. A Source and all that is done to it: `SharedSource`

Six modules without variables are the packages; `SharedSource` has the goroutines.

| Code | Module | Definitions |
|---|---|---|
| `position` | `Positions` | positions, ranges, spans; `SliceLines`, `GroupIndices`, `Expand`, `Clamp` |
| `line`, `tokens` | `Lines` | the builder: `NewBuilder`, `LeadingNewlines`, `AddToken`, `HandleGap`, `SplitOrigin`, `ProcessPart`, `PartToken`, `IsDuplicateNewline`, `FinishLine`, `Build`; `Valid`; `ContentRangesAt`, `AddOverlay`, `AddAnnotation`; `SplitDocuments`, `CloneWithResetPositions` |
| `find.go`, `normalizer` | `Finder` | `BuildSource`, `FirstMatch`, `Lookup`, `MatchRange`, `NextMatch` |
| `print.go` | `Printer` | `StyleWithRanges`, `RenderSegment`, `WriteLine`, `WriteChanged`, `RenderLine` |
| `error.go` | `ErrorSource` | `CollectPositions`, `BuildHunkSpans`, `AnnotateLines`, `MarkGaps` |
| the YAML library's lexer | `YamlLexer` (external) | one operator for each construct a file is made of |

A rune is a string of one character, and a column stands for a rune. The lexer
is external: what matters of it is which newlines it reads twice, leaves out or
puts in front of the next token, which is what most of the builder is about; its
comments and tests say so construct by construct. Files end their lines in LF or in
CRLF. That the lexer leaves the CRLF in the origins, and cuts the one of a comment in
two, `#c\r` and `\n` before the next token, is read from the builder, which has a
branch for it (builder.go:324), and from line.go:248. A file keeps beside its tokens
the text they are supposed to say and the cells each token's content covers, so
that `TextFaithful` and `HighlightsExact` are about the text and not about the
model of the builder. `StreamFaithful` is about the tokens, whatever they are: that
each token and each of its runes is in the lines once and in order, and that the
documents divide the stream. The one says that the builder breaks lines where the
text does, the other that it loses nothing, even of streams that no file has.
A normal form is a constant function: longer than the rune (a ligature), of
another rune (a capital), or nothing (a combining mark).

| Code | Actions |
|---|---|
| `Printer.Print`: `AllLines` under the read lock, anew for every span | `StartPrint`, then `BeginSpan`, `PrintLine`, `EndSpan` |
| `Finder.Load`: the finder's lock, `AllRunes` under it | `StartHighlight`, `Load`, `BuildText` |
| `Finder.Find`, one turn of its loop | `Find`, `FindNext`, `FindEnd` |
| `Source.AddOverlay` with what was found | `Mark` |
| `Source.ClearOverlays` | `StartClear`, `Clear` |
| `Error.Error` on a source of its own | `ShowError` |
| `Error.Error` with nested places only, on the Source it was given | `StartNested`, `Mark`, `Annotate`, then as `Print` |

A lock is a `sync.RWMutex` with its readers, those that wait to write, and the
writer; whoever waits to write keeps new readers out, as in Go. An error with
nested places only annotates lines without a lock; the callers in the repository
do that on a Source nobody else uses, and `Begin` says so (`Alone`).

| Run | Question | Bounds |
|---|---|---|
| `source` | are the lines and the documents of a file its text; has each printed rune the marks it should have, and only those; are errors shown where they are, with their context and messages; is what is printed one moment of the Source; does everyone return | every file of two or three items of 12 kinds, an empty line at the top among them; of two items also with CRLF; 8 terms; 2 goroutines and 3 operations on one of the files |
| `find_ends` | divergence: `Find` "returns" | one search for a combining mark |
| `overlays_wrapped` | divergence: overlays on "specific column spans" | a changed line in rows of three columns |

Two or three items put every construct in front of and behind every other one,
at both ends of a file, and a construct is where the builder can go wrong. Two
goroutines can each hold one of the two locks, which is all a deadlock needs, and
three operations are one to mark, one to print and one in between.
`HighlightsExact` compares what is printed with the occurrences of the term in the
normal form of the text (`Occurrences`), and with the marks that were on the Source
when the lock was taken: it is about the finder, the position map, `AddOverlay` and
the style boundaries of the printer at once.

Fairness. Each goroutine's own steps are weakly fair: Go's scheduler runs every
runnable goroutine, and a waiting writer keeps readers out, so that nobody
needs more. It is stated for the programs whose end is waited for (`awaited`).

The divergences. Only the term as it was given is compared with the empty string:
one whose normal form is empty matches everywhere, and the offset moves on by its
length, 0. And a line of a diff is cut into rows before it is styled: the space at
which a row ends is dropped, and the column of the next row does not count it, so
overlays move to the left by one column for each row above.

Met, and without a run: `Lines.Validate` rejects the column 0 that the lexer gives
block scalars, although a comment in `line_test.go` says that tokens from
`NewLines` are always valid (`TextFaithful` excepts them). A document whose header
token carries the newline of the line above has an empty line in front when it is
split off (`TextFaithful` excepts it). An error nested on the empty value of a
key loses its message when no other error shows that line, although `error.go:149`
says each is rendered with its own annotation (`MessagesPlaced` excepts it). And a
nested-only error that is printed twice has its overlays and annotations twice.
A document, or a file as `lexers/lexers.go:66` makes it, that begins with a newline is
counted anew from its own first line; a newline that the lexer reads twice there,
behind a comment, is not taken for a duplicate and makes an empty line more
(`TextFaithful` excepts it, `ReadsTwice`).

Met with CRLF, and without a run. `ContentRangesAt` takes the carriage return off a
token's text but not off its width, so that what an error marks has the carriage
returns of the token's origin, also the one of the line above a key; `source.go:450`
says "excluding leading and trailing whitespace", and a test
(`tokens_test.go:2057-2075`) has the wider range. `TextFaithful` says which cells
are marked: the content and those carriage returns. Spaces that stand
before a CRLF make the same range one column too long (no file here has them). An error
on the empty value of a key has its place on the newline of the next token, and marks
that token too. And `builder.go:327` says the CR is "stripped during output", which
`Line.Content` does, but the printer strips "\n" only and shows the CR of an unchanged
line as a rune (`HighlightsExact` has it there; a control rune stands for itself in the
model, and is drawn as its picture).

## 7. nyaml view: `Nyaml`, `Themes`

`Nyaml` is `cmd/nyaml/model.go` over the whole of `Viewport`: one message of bubbletea
is one step, and the view is drawn between any two of them, or not.

| Code | Definitions |
|---|---|
| `newModel` | `NyamlInit`, `Load`, `FirstSearch` |
| keys forwarded to the viewport | `ViewportKey` |
| `t`, `/`, the wheel, `tea.WindowSizeMsg`, `View` | `OpenPicker`, `OpenSearch`, `Wheel`, `Resize`, `Draw` |
| `updateSearchInput` | `SubmitSearch`, `EditSearch` |
| `updateThemeInput`, `applyTheme` | `ConfirmTheme`, `CancelTheme`, `MoveSelection`, `ApplyTheme` |
| `renderThemeOverlay` | `visibleItems`, `scrollOffset`, `Listed` |
| `style/theme/*.go`, `NewStyles`, `List`, `Styles`, `Override`, `Blend` | `Themes` |

`Themes` has a definition for every built-in theme, with the styles whose background
differs from that of the base: a highlight shows by its background. `NewStyles` fills
in what a theme leaves out from the parents of a style. A highlight overrides or
blends; a blend is known by the two colours it mixes, which is enough to say that
two results differ. The colours another package defines are names.

| Run | Question | Bounds |
|---|---|---|
| `nyaml` | do the title, the printer and the picker agree on the theme, is the selection among those listed, does esc undo the preview; in which theme does a match look like the text around it | all the dark themes in the picker, the light ones through `List(Light)`; one or two files; a first search; four sessions with keys of their own; two terminal sizes and none yet; terms of at most two bytes |
| `view_wrap` | divergence: wrapping as the setting and the status bar say | the same |

A session's keys bound what is combined: picking with scrolling; picking with
wrapping and modes; searching with moving, modes and the wheel; scrolling with all
of these but the prompts. The number of themes is the real one, since the list is
what scrolls. The prompt edits bytes: backspace on a letter of two bytes leaves
one, which `MCByteTerms` includes; `PromptAssumption` says that the terms are
closed under this. Every message is a call of the viewport or leaves it alone,
which is how the theorems about the viewport come to hold of a session. There is
no fairness: the program waits for keys.

The divergence: `SetPrinter` hands the width to the new printer and not the wrapping,
which is on by default, so that a look at another theme turns it on again while
the setting and the status bar say it is off.

## 8. What is proved

All proofs are for arbitrary constants under the named assumptions
(`CatalogAssumption`, `StoreAssumption`, `RegistryAssumption`, `InputAssumption`,
`DiffAssumption`, `ViewportAssumption`, `ScriptAssumption`, `SourceAssumption`,
`NyamlAssumption`, `PromptAssumption`, `ListAssumption`). These give the types of the
configuration and say that the sentinels (no path, no URL, no schema, no
goroutine, no term) are not values; `ScriptAssumption` is what the proofs of two
other modules establish. Each theorem rests on an inductive invariant that TLC
checked first.

* `SchemaStoreProofs`. `IInv` adds to the types: the lock (`LockInv`: one writer,
  and no reader once it is inside), the life of the store before `New` has
  returned (`NewInv`), what a fetch knows (`FetchInv`: it asked for something at
  least as recent as what is held), and that a catalog found expired stays so
  until some fetch succeeds (`FreshInv`). The properties are not inductive
  without them: that a fetch happens only when expired depends on nobody else
  resetting the age, which is the exclusive lock. From it: `TypeCorrect`,
  `OutageSafe`, `OneFetchPerExpiry`, `LookupsFresh`, `Monotone`, and `Refinement`, the
  step simulation of `CatalogCache`.
* `SchemaStoreProofs`, with the clock. `TimedInv` gives each lookup a limit by where
  it is (`Limit`) and says that nobody it waits for can fetch past it: the writer
  and those ahead in the queue have what is left of their own timeout, and all of
  them began it before they queued, so that it runs out for all at the same time
  as it does for the one behind. An overtaker is the exception, with a timeout of
  its own; after it the mutex is starving and there is no second one. With
  `IInv` this gives `LookupsReturnInTime`, for any number of goroutines.
* `RegistryProofs`. `SharedInv` says what the slot and the cache hold whoever
  filled them; `CallerInv` what a goroutine has established at each phase (the
  documents before passed, the match loaders before declined, what was loaded
  came from a location that governs). From it: `TypeCorrect`, `SchemasRight`,
  `VerdictsEarned`, `MatchesLostOnlyToCatalogs`, `NoMatchHonest`.
* `HirschbergProofs`. `IInv` says that the operations so far lead up to where the
  next pending call begins and that the pending calls tile the rest. A split may
  fall anywhere for that, so nothing about the rows is needed. From it:
  `ScriptRight`. The lemmas count what a block of operations adds to a script.
  `WorkInv` adds that each pending call has lines of its own and enough of them
  above it on the stack for `Work` to count them; from both: `RecursionEnds`.
  That the script is a shortest one is about the splits and so about the rows:
  `ShortInv` says that they are long enough whatever they hold (`RowsLong`), and
  that what is kept so far and the most that each pending call can still keep add
  up to the most that can be kept at all (`NothingLost`). Its heart are two lemmas:
  `forward` and `backward` leave in a row the lengths of the common subsequences
  of every prefix and suffix, and the best sum of two lies on a best path. `Tidy`
  is the tie-breaking: where a block ends in an insertion, the next one cannot
  begin with a deletion. From these: `NothingIsLost`, `ScriptTyped`, `ScriptShortest`,
  `DeletionsLead`.
* `DiffResultProofs`. `IInv` has a loop invariant for each loop: `Grouped` (each
  group runs from a change to a change, what is in between is near one, groups
  are further apart than the threshold, no change is left out) and `Laid` (rows
  lay out the operations before `at`, stated for any interval so that the rows of
  one block can be proved right alone and appended). From it: `ResultTyped`,
  `HunksRight`, `PanesRight`, for scripts of every length. `TightInv` adds that a
  placeholder is behind an unchanged line before a later change could put one
  opposite it (`Settled`), `HeadInv` that a group which does not begin the script
  follows an unchanged line; from them `PanesAreTight` and `HeadersReadRight`.
* `ViewportProofs`. `ViewInv` says that everything derived (the diff, the panes,
  the matches, the overlays, the offset) is what `rerender` would make of what
  the calls have asked for: `RedrawStable` is a part of it, and each property is
  one of what `rerender` makes. An operation keeps it because `rerender`, done
  twice, makes the same, which is not obvious: it reads the overlays it has
  written. `Highlighted` is about the panes, `PrintedRight` about what `View` prints of them.
  `Cleared` (a search that is over has no matches) is needed for the
  navigation, and because `NoMatches` keeps an index. From both: `ViewTyped`,
  `RevisionsShown`, `SearchesCount`, `HighlightsFollow`, `RedrawsAgree`, `MatchesVisible`,
  `RevisionsLandInside`.
* `SharedSourceProofs`. `IInv` adds to the types and the locks where a goroutine can
  be in the course of which operation (`OpInv`), and that one that annotates has the
  Source to itself (`AloneInv`). From it: `LocksHeld`, and `SnapshotsTaken`, which is
  not a matter of the lock alone: `AddAnnotation` takes none. Lines, matches and
  marks may be anything there; the proof is about who is where. `StreamKept` is about
  the text. A builder that has been given some parts of the tokens holds them in
  the lines it has finished and the one it has begun (`HeldRunes`, `HeldSegs`);
  each step of it adds a part behind them (`Adds`), also where a newline that the
  lexer reads twice goes to the line before: that line is the last one and none has
  been begun, because a token that ends in a newline leaves none (`Kept`). `NewLinesHold`
  sums up. `MarksInv` carries it through the program: marks and annotations are
  put beside the segments (`StandingHolds`). Of a file it uses that it is a sequence of
  tokens, and nothing of the lexer (`SourceAssumption`). `MarksKept` is about the marks: what
  is printed of a line carries the overlays of the operations that were painted when
  the printer took the lock (`MarksOn`), each with the ranges it has when nobody else is
  at work (`RangesOf`), all of them and no others. `MarksInv` keeps that for the lines
  and, for every goroutine, that its search has found what lies before its offset
  (`Searching`: with the matches from there on that is all of them, so a search that
  ends has found every match) and that its screen is right (`Sound`). The steps that
  set or clear marks wait for the readers, which is why one that hands lines out still
  finds what it expects; for that the proof needs `IInv`. What the marks of an operation
  are is the model's operators over the lines as built; that these are the columns of
  the text is what `TextFaithful` and `HighlightsExact` check.
  `HunksKept` and `MessagesKept` are about what an error shows. `WindowsCover` says that
  sorting the marked lines, grouping them, widening and cutting the groups leaves spans
  in order, none adjacent to the next, that hold exactly the lines within `context` of
  a marked one; `AnnotatedNotes` that the notes of a line are the messages of its
  errors and the ellipsis of a gap. `ScreensInv` carries both through the
  program: a screen has the hunks it has begun, in order, as far as it is (`Between`,
  `Within`, at last `Complete`), each frame says what the error has to say at that line
  (`Frames`, `Says`), and so do the lines from the moment they are printed, which other
  goroutines may mark and annotate but take no note from (`KeepsNotes`). Both theorems
  suppose `TextFaithful`, and use it in the first state only (`ScreensKept`): that the
  ranges of an error's token lie on the token's text, and that a nested error's line is
  one of its token, is a matter of the lexer and of the operations of the program
  (`WorkStands`), which no step changes. TLC checks it for every program of the run.
* `NyamlProofs`. `IInv` adds that the theme confirmed last is one of the list, which is
  why esc finds it there. From it: `PickerRight`, for every session and terminal. Of
  the list it uses `ListAssumption` only: a sequence of names with the first theme
  among them. No constant occurs in that, so TLC's evaluation decides it.
  `SessionInv` is `ViewInv` with the prompt's types: every message is a step that
  the viewport allows, so `SessionsShow` and `SessionsScroll` carry its properties
  over to the program.
* `CatalogProofs`: what the filter and the scan return.

Where a proof needs induction over data (rows, prefixes, counts of lines), it is
by contradiction from the least counterexample, which `FiniteSetTheorems` gives
for the strict order of subsets of an interval (`Least` and `Upward` in the proof
modules); recursion there is by recursive functions. `RECURSIVE` operators and the
folds and selections that take an operator as a parameter stay out of reach.

Only model-checked. `LookupEnds` and `EveryoneReturns` need fairness.
`TextFaithful` and `HighlightsExact` compare what is built with the
text that a file of the lexer's model was made with (the half of `HighlightsExact` that is
about goroutines is `MarksKept`); what `HunksKept` and `MessagesKept` suppose of the lexer
is a part of `TextFaithful`. `MatchesStandOut` is about the
colours of the themes as they are, which TLC evaluates completely.

## 9. What is not modelled

* Viewport: horizontal scrolling, the container style, lines that take several
  rows; a printer whose style leaves an empty text empty.
* Revisions: `Append` and `Prepend` in the middle of a chain, which leave orphans; the
  viewport and the command append to the tip.
* Registry: `Register` while lookups run, a data race no caller in the repository
  commits; registrations are constants.
* Finder: a term is normalised rune by rune, where `find.go:155` normalises it as a
  whole: runes that compose only with each other, such as the parts of a Hangul
  syllable, would make another term. One that is loaded with several Sources in turn by several goroutines;
  `Load` and `Find` are two calls, and whoever shares a Finder shares its Source.
* Source: `File` and its `sync.Once`; overlays added from the body of a loop over
  `AllLines`, which would wait for the lock its own goroutine holds, and which no caller
  does; texts and styles of annotations beyond which message they are.
* Errors: a nested error whose file does not parse or whose token is not found is
  dropped (error.go:397-409); `nested` lists those that are found. Paths are resolved to tokens by the YAML library; `errors.Is`, wrapping and
  options keep nothing that rendering reads.
* Themes: foregrounds and fonts; `Register` and `With` (a theme registered again is
  listed twice); the Blender's cache, whose results are those of its function.
* Printer: gutters, padding and escape sequences; `fangs`, `lexers`, `internal/ansi` are
  formatting and adapters without state.
* HTTP and file access appear as their outcomes. The glob and JSON Schema engines
  are libraries; a pattern and a schema are sets.
* `paths`, file expansion, examples, `ci` and the test helpers have no state and no
  algorithm of their own.
