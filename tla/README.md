# Models, checks and proofs for tabnas/ebnf

tabnas/ebnf turns EBNF source text into a grammar that the tabnas engine can run.
It reads a dialect (W3C EBNF plus four spellings of ISO 14977) into a grammar IR,
rejects the constructs and the ambiguities it can recognise, and hands the IR to the
compiler of `@tabnas/bnf`. It is written three times (TypeScript, Go, Rust), and the Go
port is also shipped as a C shared library. This directory holds TLA+ modules for the
parts that carry logic of their own, TLC configurations that check them on small
instances, and TLAPS proofs for every instance. Paths below are relative to the
repository.

## 1. Inventory

| Part | State it keeps | Operations | Interacts with | What makes it correct |
|---|---|---|---|---|
| C library `go/clib/core.go`, `tabnas_c.go` | registry `nextID`, `loaded` under the RWMutex `reg`; a mutex per instance; the process-wide `sharedMu` | `tabnas_grammar`, `tabnas_parse`, `tabnas_grammar_free` (and the stateless `tabnas_version`, `tabnas_free`), from any host thread at any time | calls the Go front-end, which may panic | the map is never touched during a write; a parse runs alone on its instance and in the process; handles are never reused; every call returns and gives its locks back; the whole is indistinguishable from a table on which each call is one step |
| TypeScript reader `ts/src/converter.ts` `ebnfRules`, `seqAlts` | the engine's rule stack, `node`, `u` and `child` of each rule, the tokens read ahead | seven rules, each with an open and a close state, four of them with a bc hook | driven by the external engine; hooks append to arrays shared with the parent rule | reads the documented notation and nothing else, returns the tree the source denotes, refuses at the first wrong token under the right name, terminates |
| Checks in `parseEbnf` (`checkDuplicates`, `nullableRules`, `checkNullableAlts`; the same in `go/parser_ebnf.go`) | loop positions, the names seen, the set of nullable rules | four loops | consume the reader's IR, throw | an accepted grammar defines each rule once and has no choice with two empty branches; the nullable rules are the least fixed point; an error names the first production at fault |
| Lexer configuration, ISO comment matcher, character classes (`converter.ts`) | the lexer point (index, row, column) | matchers tried in order at each position | the reader asks for tokens lazily | a class decodes to the set it denotes; positions survive comments |
| Go reader `go/parser_ebnf.go` | scanner position, recursion stack | `parseAtom`, `parseElem`, `atSeqEnd`, `parseSeq`, `parseAlts`, `ParseEbnf` | used by the facade and by the C library | the same language and IR as the rule table |
| Rust reader `rs/src/parser_ebnf.rs` | the same table as data; two nesting registers; a thread-local rejection slot; a parser built once | actions on a parse context | `rs/src/converter.rs` reads the slot back | the registers are the nesting of the tree; the slot holds this parse's first rejection only |
| Facades `ts/src/ebnf.ts`, `converter.ts` `ebnf()`, `go/facade.go` | one shared front-end engine per process; the engines grammars are installed on | parse, compile, restamp a message, install | `@tabnas/bnf`, the engine, which panic in Go where they do not return an error | a source fails alike in both ports, with its cause; an engine carries only what some call asked to install |
| Reply encoding in `core.go` (`jsonUnsafe`, `acceptDoc`) | none | a walk over a value | unreached for this format (`valueOut` is false) | - |
| Translation `ts/src/translate.ts`, `alchemy/render.alc`, `ts/embed-translate.js` | none | a generated renderer, embedded as data by a build step | - | text layout |
| `tools/port-deps.cjs` | the manifests of three ports and a register of known differences, on disk; nothing of its own | read `package.json`, `go.mod` and the Go files, `Cargo.toml`; compare; report; exit 0, 1 or 2 | people edit manifests and register between runs, or do as a report advises | no spelling of a dependency is missed; a pass vouches for the register, a failure has its reason, and the advice leads to a pass |
| `ts/scripts/vale-counts.cjs`, `gated-docs.cjs` | the counts recorded in `.vale.ini` and the style guide | check; `--write`, two files one after the other | Vale; the author | a check that passes vouches for every count it looks at; a write leaves nothing to find, a crash between its files included |
| `.github/workflows/release.yml`, `clib-release.yml`, `crates-release.yml` | npm, crates.io, the tags, the GitHub Releases; the jobs of each run | dispatch, push of a tag, repair; decide, publish, tag, hand over; re-run of a failed job | several runs at once, people merging and tagging meanwhile, a service that fails | one version is one commit; nothing is out half made or taken back; what was begun arrives when failures end |

The behaviours that are hard here are the interleavings of host threads in the C
library, with panics between lock and unlock; the rule table's order of events (a close
state is entered again for every child, hooks act on arrays of other rules, the first
matching alternative wins, tokens are given back); a fixed point that depends on
rules defined later; a diagnostic that leaves a parse through a slot of its thread; and
releases that race, fail half way and are run again when main has moved on. `PROJECT.json` lists each hazard at its line with the properties
that would catch it going wrong.

## 2. Modules

| Module | Models | Built on |
|---|---|---|
| `Calls` | the vocabulary of the C ABI: arguments and reply documents | |
| `HandleTable` | abstract specification: a table of handles, no locks, each call takes effect at one instant | `Calls` |
| `Clib` | `core.go` and the cgo shim, statement by statement, with their locks | `Calls`, `HandleTable` (refinement) |
| `ClibProofs` | theorems about `Clib` | `Clib` |
| `Lexemes` | the tokens of EBNF source | |
| `EbnfRules` | the rule table and the rule-stack engine that runs it | `Lexemes` |
| `Notation` | abstract specification: the documented notation as the set of its sources, each with its tree | `Lexemes` |
| `EbnfReader` | what `EbnfRules` promises, against `Notation` | `EbnfRules`, `Notation` |
| `NotationProofs` | what `Notation` builds is closed under the grammar at its head | `Notation` |
| `EbnfReaderProofs` | theorems about `EbnfReader` and `RustRules` | `EbnfReader`, `RustRules`, `NotationProofs` |
| `GoReader` | the recursive descent of `go/parser_ebnf.go`, and what it promises | `Notation` |
| `GoReaderProofs` | theorems about `GoReader` | `GoReader`, `NotationProofs` |
| `RustRules` | the rule table with the Rust port's nesting limits | `EbnfRules` |
| `RustReader` | what those limits promise | `RustRules`, `Notation` |
| `Checks` | `parseEbnf` after reading, over any notion of nullable alternative | |
| `ChecksProofs` | theorems about `Checks` | `Checks` |
| `Nullability` | `elDerivesEmpty` and the group walk on concrete trees, with the empty string itself as reference | `Checks` |
| `Rejection` | the Rust port's rejection slot and shared engine, threads and panics | |
| `Facade` | the public calls of the TypeScript and the Go package | |
| `Answers` | `Rejection` or `Facade`, chosen at the start of a behaviour | `Rejection`, `Facade` |
| `AnswersProofs` | theorems about `Rejection` and `Facade` | `Answers` |
| `CharClass` | a class from its members to what its pattern takes, in TypeScript and Rust | |
| `EbnfLexer` | the TypeScript lexer's matchers and the Go scanner, character by character, with rows and columns | |
| `PortFold` | how the checker makes names of different ecosystems comparable | |
| `Toml`, `CargoManifest` | the TOML reader; the dependencies in `Cargo.toml` | `PortFold`; `CargoManifest` extends `Toml` |
| `NpmManifest` | the dependencies in `package.json` | `PortFold` |
| `GoIgnored`, `GoImports`, `GoMod` | which Go files count, what a file imports, what the Go port depends on | |
| `PortDeps` | the checker from the manifests read to the exit status, and the editing around it | |
| `PortDepsProofs` | theorems about `PortDeps` and `NpmManifest` | `PortDeps`, `NpmManifest` |
| `ValeCounts` | the counts check and `--write` | |
| `Release`, `MCRelease` | the three release workflows, several runs at once | |
| `ReleaseProofs` | theorems about `Release` | `Release` |
| `MCEbnfReader`, `MCGoReader`, `MCRustReader`, `MCChecks`, `MCAnswers` | the instances TLC checks | |
| `MCParts` | one of the sequential parts, chosen at the start of a behaviour | `PortDeps`, the manifest readers, `ValeCounts`, `CharClass`, `EbnfLexer` |

### Clib

A variable for each piece of shared state (`nextID`, `loaded`, `regW`/`regR` for the
RWMutex, `mu`, `sharedMu`), and for each thread its program counter, its arguments, its
two locals and its reply. Each statement of `loadGrammar`, `freeGrammar` and `parseWith`
that touches shared state is an action, including `nextID++` and the read of `nextID` on
the next line, so mutual exclusion comes from the locks and not from the grain of the
model. A blocking `Lock` is the guard of its action. A text argument is one of: an invalid
(pointer, length) pair, inside the format, outside it, and one on which the parse panics.
A panic unwinds through the closure's deferred `sharedMu.Unlock` and is turned into an
error by `safeParse`'s recover before `g.mu.Unlock` runs; `ParseUnshared` and `ParseUnmu`
are those two moments. Instances are numbered in the order they are allocated.
`issued` is a history variable: the handles returned to the host.

Go's `sync` package is external. Its mutex is modelled by its holder; the fairness below
is what it documents. The front-end's `ParseEbnf` is one step here, because nothing it
does is visible to the registry. (The comment on `sharedMu` and the library's README
speak of a singleton front-end; `ParseEbnf` in this repository makes a scanner of its own
for every call. `EngineExclusion` states what the lock gives, whether or not it is
needed.) `MutualExclusion` is the conjunction of what the three kinds of lock exclude.

### EbnfRules and EbnfReader

The table is transcribed alternative by alternative as data: token pattern `s`, tokens
given back `b`, condition `c`, action `a`, push `p`, replace `r`. The engine is external
and modelled from how the table uses it: the first alternative that agrees with the
tokens is taken; a token is read only when an alternative has to see it; `bc` runs before
each close; a rule without a child to wait for pops and leaves its `node` to its
parent's `child`. `prod` and `elem` have no array of their own: their hooks append to
their parent's. The model reads every source: `Lex` appends any token of the vocabulary,
up to `MaxTokens`, or the end.

A token is a kind and as much of its text as the actions look at: which name, and whether
its decoder refuses it (`"!"`: a bareword that is no symbol name, an empty literal, a
class or code point that cannot be decoded). Consecutive alternatives with the same effect
are one alternative with a set of kinds. Spans and wording are left out.

`Notation` builds, from the shortest phrases up and with no parser, every documented
source of at most `MaxTokens` tokens with the tree it denotes. It is what the
documentation (`ts/doc/reference.md`) says and shares nothing with the table. It is written
with recursive functions on the number of tokens, so that it can be proved about.

`Rank` measures how far the table is from its next token: four for each rule on the stack,
and what the rule on top and the token in sight leave to be done (`Ahead`). `MovesOn` says
that a step which neither consumes a token nor asks for one makes it smaller, so between
two tokens there are at most `4 * Len(stack) + 27` steps, and the reading of a source ends
with the source. It is an action property, of every step, where an earlier one of the form
"it eventually stops" needed fairness and said nothing of how long.

### GoReader

The scanner has no lexer: each function decides for itself whether to skip space before
it looks. A source is therefore a sequence of lexemes and spaces (`SP`, any run of white
space and comments), and `Glued` says which lexemes cannot touch. The goroutine's stack
is the variable `stack`; an action runs a function from one call or return to the next,
and an error goes straight to the status because every caller returns it. `atSeqEnd`'s
excursion (it runs ahead and restores the scanner) is a look at what lies ahead. `Read`
extends the source by one lexeme when the running function has to see more of it, so
every source within the bound is read. A `"=="` is two `DEFE` with nothing between.
`NamesTheMistake` and `MovesOn` are what they are for the rule table, in this scanner's own
terms: its diagnostics differ in name and its calls in what they leave to be done, and between
two lexemes there are at most `4 * Len(stack) + 15` steps.

### RustRules and RustReader

`rs/src/parser_ebnf.rs` carries the table of `EbnfRules` as a JSON document, alternative
for alternative, on an engine that works the same way. What it adds are two caps:
`MAX_GROUP_DEPTH` on the engine's rule levels, checked when a group opens, and
`MAX_NEST_DEPTH` on the nesting of the tree, checked by every postfix operator and every
closing group against two registers. The actions that touch a register are actions of
`RustRules` around a step of the table; `RustStep` is every other step. A rule's `d` is
its place on the stack. `RustReader` measures the tree itself, wherever its parts are
held on the stack, and compares.

### Checks and Nullability

`Checks` has one action per loop turn. What an alternative is does not matter to the
loops; they need to know which alternatives derive the empty string once a set of rules
is known to (`AltDerivesEmpty`, assumed monotone), and which alternations a production is
made of (`Choices`: its own, then those of its groups). `Nullability` defines both as the
code does on the IR, and a reference that asks the question directly: can "" be derived,
by derivations as deep as there are rules. `Nullability` is recursive and so is not used
from a module with theorems.

### Rejection and Facade

A rule action of the Rust port can answer the engine only one of the engine's errors, so
the finished diagnostic goes into a slot of the thread. `Rejection` has one action per
step of `parse_ebnf_raw`: build or wait for the engine, clear the slot, parse (raise any
number of diagnostics, recover from them, end with any code or panic), take the slot,
answer. A diagnostic is a triple of thread, parse and number, so a stale one shows.

`Facade` gives each port a process-wide engine and every call a source, which is what its
reading, compilation and installation come to. The compiler is external; that it panics
with an error, a text or another value is what `emitSafely` distinguishes.

### CharClass and EbnfLexer

`CharClass` keeps the boundaries of Unicode (the two halves of the surrogates, the rest of
the BMP, the astral planes) on a scale of a few code points, chosen so that every pair of
surrogates is one astral code point. It reads members one at a time, folds ranges, emits
the pattern, and models JavaScript's own reading of it (a pair of escapes under the `u` flag
is one character, a class without it matches one half) to say what is taken.

`EbnfLexer` runs the TypeScript matchers in their order and the Go scanner over the same
text of eight kinds of character (round and square brackets, star, hyphen, a letter, newline). A
row and a column are kept as each port keeps them, and compared with those of the text.

### The dependency checker

`Toml` reads statements: a header, an array header, or a pair with a dotted key and a
scalar or inline table; the tree is a function from paths to nodes. `CargoManifest` extends
it with `readRs`. `NpmManifest` is `readTs` on one manifest. `GoIgnored` is the header scan,
a line at a time; `GoImports` the import scanner, a token at a time; `GoMod` the parser of
`go.mod`, a line at a time, and what `readGo` makes of it and the imports. Each is compared
with a statement of what Cargo, npm or Go itself reads from the same input, written without
the scan. `PortDeps` takes the manifests as read: its actions are the steps of a run, and
between runs an edit of a manifest, an edit of the register, or doing all that the report
of the last run says (`FollowReport`).

### ValeCounts

A file is lines; a comment line is its words. The claims are found as the code finds them,
in blocks of joined lines, and the rewriting works at the lines and columns found before it
begins. `WriteIni` and `WriteGuide` are the two writes of `--write`, with `Crash` between.
There may be no guide, and no vocabulary to count; `PagesChange` is what goes on around the
program, and `present` what it makes of a page that is gone.

### Release

A commit is its place on main. Each run has a place in each of its three jobs; the steps of
`publish-npm`, of `clib` and of `crates` are actions, and what they read from a registry or
from the remote they read at that step. People merge, dispatch, push a `ts` tag, dispatch a
repair; any job may fail at any step and be run again from its beginning, at its own
commit. The builds are external and may end well without attaching a manifest.

What main holds is chosen with the history at the start; `Merge` moves main on. `RepairClib` and `RepairCrate` are the dispatches of `clib-release.yml` and
`crates-release.yml`, for a `ts` or a `go` tag that is there; the run keeps which one
(`Tagged`), and a Release belongs to its tag. Through a `ts` tag a crate may be out before
the Go tag or without one. `ViewRelease` and `CreateRelease` are two steps, so two runs may
both find no Release; the later creation fails, or makes a second draft that the tag does
not stand for. `DecideCrate` reads the manifest at the tag and asks crates.io. What
`rs/Cargo.toml` says at a commit is one of four (`Manifests`): it publishes; it is not for
crates.io, and the job ends well; it is refused whenever it is read (no crate, versions that
differ, no `rust-version`); it has a path dependency that is never rewritten, and the job
fails once it is to publish. The crate's first publish and its trusted publishers are people's doing
(`FirstPublish`, `Trust`): until crates.io has the crate the job is refused, and a workflow
that is not trusted yet is refused when it publishes. The first publish is taken to be of a
version from its `ts` tag, or of one that no run here is about; what a maintainer publishes by hand
from elsewhere no workflow can see. A dependency that crates.io does not have yet is folded into `Trust`.

### The harnesses

`Answers` and `MCParts` each check several machines that share nothing in the code. A
variable says which one a behaviour is of; the others' variables never change. This is a
sum and not a product, so the state spaces add up.

## 3. Runs

| Run | Instance | Shows |
|---|---|---|
| `clib` | 2 threads, 2 loads; 34,443 states | `MutualExclusion`; `NoOrphanLock`; `Linearizable`: the library implements `HandleTable`, so handles are never reused and a freed handle stays dead; `EveryCallReturns`, panics included |
| `reader` | every source of at most 8 tokens over 15 lexemes; 500,968 states | `ReadsTheNotation`, `RefusesTheRest`, `FailsFast`, `NamesTheMistake`, `MovesOn` |
| `reader_comment` | at most 5 tokens | expected violation: the grammar in the comment above the table is not the table's (section 6) |
| `go_reader` | every source of at most 8 lexemes and spaces over 11 lexemes; 967,030 states | the scanner reads the documented notation and its trees, refuses nothing else, spaces before a postfix operator apart, names what it refuses (`NamesTheMistake`), and moves on (`MovesOn`) |
| `go_reader_dialect` | at most 5 | expected violation: a space before a postfix operator (section 6) |
| `rust_reader` | every source of at most 10 tokens over 6 kinds, group limit at two groups, nesting limit 3; 150,459 states | the registers are the depths of the tree at every step; the engine's stack is bounded; what is refused is not a documented source within the limit |
| `checks` | 17,425 grammars of two rules and 1,297 of three; 228,928 states | the nullable rules are the least fixed point; they are those that derive "", and an accepted grammar has one empty branch per choice at any depth (`DerivesAsDecided`); a refusal is justified; the loops end |
| `answers` | 2 threads, 2 parses each, 2 diagnostics per parse; 3 calls of the facades; 839,614 states | a diagnostic is the first of the parse it answers; the arm without one is never taken; every parse ends; an engine carries what it was asked to; both ports answer alike |
| `parts` | see below; 1,403,187 states | nine properties of the sequential parts |
| `char_class_half` | classes of up to five members | expected violation: half a character is matched (section 6) |
| `release` | 2 runs, 2 commits, 2 versions, 1 failure, 5 histories of main; 366,312 states | `OneCommit`; `NothingHalfReleased`: what is out stands on what it needs; `NothingTakenBack`: no step moves or removes a tag, a package, a crate or a Release that is out; `ReleasesArrive`: a dispatch that was to tag the Go module gets it tagged, and a crate's job that nothing permanent stands in the way of ends well |
| `release_anchor` | the same, no failure | expected violation: a tag that names another commit than npm serves (section 6) |

Bounds. Two loads are needed for a freed handle and another loaded since. Every lock has at
most two sides, so two threads meet at each; any number is the matter of section 4. Eight
tokens hold a production with a group with a postfix operator and an
alternative, two productions with and without `;`, and every token kind in every place the
table distinguishes: the table looks two tokens ahead and each of its rules is reached
within four tokens of a header. `FailsFast` compares with the beginnings of sources that
fit in the bound, hence its premise. The vocabulary has one lexeme of each kind that
the table treats differently; `HX`, `CC`, `PLUS`, `DEFE`, `OS`, `CB` take the same
alternatives as `ST`, `STAR`, `DEF`, `CS`, `OB` do. In the Go scanner the space is one of
the eight, and no function looks further ahead than a name, a space and two characters.
In the Rust run the two limits stand to each other as in the code: a group allowed by
rule level (10 is the second group's, as 518 is the 129th's under 520) is also allowed by
nesting (two groups around a terminal nest three deep, 129 nest 130), which is why
`RefusesTheRest` can ask that the first limit never refuse what the second admits. Ten
tokens hold two nested groups with operators on either and a sibling after them. Grammars
of two rules use all alternatives with groups, repetitions and references; grammars of
three rules are chains and cycles through all of them in any order of definition,
duplicates included.

Two parses per thread are what it takes to leave something in the slot and find it; two
diagnostics, to get over one and end with another. Three calls of the facades compile
without installing, install, and fail, in any order and port. Two release runs are one that
fails and one that comes after or races it; the second commit is main having moved on,
with or without a new version. A history says what main comes to hold and which of the jobs
beside `publish-npm` are begun (`MCHistories`): the C library's, on one commit; the
crate's, on two commits of one version that both publish, on two of which the first is
refused or unresolved, and on two versions. No history begins both, and the C library's needs
no second commit: one job writes only Releases, the other only what crates.io serves, and neither
looks at a commit but through a tag. The theorems of section 4 hold of every history.

`parts`: `PortDeps` has two dependencies and the repository's own id, and registers with an
entry that is right, wrong in each respect, or not there. `Toml` reads 4 of 14 statements
that meet in every way (a table made by a header, a dotted key, an array or an inline
table, and named by another); `Cargo.toml` up to 6 lines over every spelling of a table and
of an entry; `package.json` two names in four tables; a Go header 4 lines, an import part 9
tokens (two declarations, one of them grouped and aliased); `go.mod` 4 lines (a block with
its verb, an entry and its end, and a line after it); Vale's file 3 lines; a class 5
members, which is two ranges with a hyphen shared; the lexers 5 characters, which close an
ISO comment over a line and leave a character after it.

A parse, a check or one of the parts is a synchronous call that ends, and so do bounded
runs of the workflows: those configurations do not check for deadlock, and termination is
a property where loops do not obviously end. `Clib` may always be called again, and
deadlock is checked, as it is for the rule table and the Go scanner, whose last states stutter.

Fairness. The checks are sequential code: weak fairness of `Next` says that they keep
running. `EbnfRules` and `GoReader` state the same, but no property of their runs rests on
it: `MovesOn` bounds the steps, and the deadlock check shows that there is one to take. A host thread
inside the library is scheduled, and so is one in the Rust front-end (weak fairness of each
thread's steps); the host is never obliged to call. Acquiring a Go lock has strong
fairness: a mutex hands over to a waiter in starvation mode, and a waiting RWMutex writer
holds back new readers, so a lock that is free again and again is obtained. The hosting
service runs the jobs of `publish-npm` and `crates` on, and somebody re-runs a job that
failed, as the headers of `release.yml` and `crates-release.yml` prescribe; failures are
bounded. Nothing is assumed of people who merge, dispatch, tag or set up crates.io: a crate
that is never registered or trusted is never published, which is why `CrateSettles` starts
from a job that is `Unhindered`. A run refused before that gets there when it is run again.

## 4. Proofs

`ClibProofs`, for every finite set of threads and every bound on loads: type correctness,
`MutualExclusion` and its three parts, `NoOrphanLock`, `HandlesNeverReused`,
`FreedIsFinal` and `Linearizable`. None of them is inductive. The invariant `IInv` adds: each lock is held by
exactly the threads whose program counter lies between its Lock and its Unlock
(`RegOwner`, `SharedOwner`, `MuOwner`); ids stored are `1 .. objs` and `nextID` runs
ahead of `objs` by one only inside one writer's critical section (`Counting`); a handle
on its way to the host is carried by one thread and not yet issued (`Carrying`); what the
statements behind a thread have tested of its arguments (`Requests`); and the load bound
is kept (`LoadsFit`, with cardinalities). The refinement is proved step by step: the store
into `loaded`, the delete and the lookup map to the abstract `Load`, `Free` and `Parse`,
refusals to `Refuse`, calls and returns to themselves, everything else stutters.

`ChecksProofs`, for every set of names, every set of grammars and every monotone
`AltDerivesEmpty`: type correctness, `NullableIsLeast`, `AcceptsUnambiguous`,
`RefusesForAReason`. The core of `IInv` is that `nullable` lies in every closed set
(`Sound`) and that what this pass has gone past is closed as long as the pass has changed
nothing (`Stable`); at the end of an unchanged pass the two give the least fixed point.

`EbnfReaderProofs`, for every vocabulary of token kinds and sources of every length: type correctness,
`NamesTheMistake`, `MovesOn` and `ReadsTheNotation`. Its first part unrolls the table: the engine tries
alternatives in order over data, and each alternative's lemma says in which situation it is
the one taken and what it then does to the top of the stack and to the rule below. `Inv` is
what no single alternative shows. `Shape`: each rule stands on one that may push it, a rule
under another is in its close state and waits for that one (an `atom` under a rule has opened
a group, an `elem` under a `post` has its atom), and the top is in a state it can go on from.
`Knows`: what each rule on top knows of the token before it and the one in sight, which is how
a close state entered for the second time differs from the first. `Balanced`: the groups open
on the stack are the parentheses read and not closed, by cardinality, from which it follows
that "unclosed group" and "unmatched )" are said of the right sources. Under `Inv` the rank
falls with every step that `MovesOn` is about, and no step needs a bound on the source.

`TheTableReadsTheNotation` says that what the table accepts is a documented source with the
tree the documentation gives it. Its invariant is `Tells`: the tokens read so far are cut
into as many pieces as there are rules on the stack, and each rule's `node`, `u` and `child`
are what the notation makes of its piece. For each rule that is two things, what it has when
it waits for a child (`Awaits`: `alts` has alternatives and a `|` behind them, a `seq`
elements and perhaps a comma, an `elem` its atom) and what it has on top (`Holds`: the same and
the child's answer). A step pushes an empty piece, moves a token into a piece or joins two, and
one lemma for each of these (`ToldPushed`, `ToldStayed`, `ToldReturned`, `ToldReplaced`)
leaves to each alternative only what its hook and its action do with the words. The hooks that
append to a parent's array are why `BothHold` and `BothAwait` speak of two rules at once. One
thing stands in the way of `Tells` alone: a definition operator where an expression is due is
refused only some steps later; `Misplaced` is that case, and no step leads out of it to an
acceptance.

`NotationProofs`: what `Notation` collects length by length is closed under its rules. An
element, a sequence, an alternation, a production and a source of any length is among those
of its length when it is made by a rule of the grammar from phrases that are (`IsElem`,
`IsSequence`, `IsAlts`, `IsSource`, over `Words`, all token sequences without an end). That a
recursive definition has a value, and the induction over lengths, are by a least
counterexample in a set of naturals (`HasLeast`, `AllNaturals`), which needs no theorem with
an operator parameter. The proofs about both readers rest on this module.

`GoReaderProofs`, for every vocabulary and sources of every length: `NamesTheMistake`,
`MovesOn` and `ReadsTheNotation` of the Go scanner. `Inv` has the parts it has for the table, but nothing is taken
from a lexer that drops spaces: `TypeOK` says that the end of the source is only ever last and
never consumed; `Shape`, who waits for whom; `Knows`, what each function knows of the lexemes
and the space on both sides of the scanner, such as that a sequence is entered right behind a
mark that opens one or behind a comma, or that what lies ahead is no postfix operator, and that
it is left only where `atSeqEnd` saw a mark or the head of a production; `Balanced`, the groups
again. That a rule's name is asked for only with every group closed comes from `Balanced` and
from the stack being the outermost call alone. The actions are taken by kind of step (a call, a
turn of a loop, a return, an error), each with one lemma on what it does to the stack, to the
open groups and to the rank. `GoReadsTheNotation` adds `Sound`: the lexemes passed, spaces
dropped, are divided among the calls, and the value each call has gathered is that of its part
(`Tells`); and no space passed stands before a postfix operator (`Spaced`), because
`parseElem` looks for one only right behind the atom.

The Rust port, at the end of `EbnfReaderProofs`, for every pair of limits: `StackBounded`,
`NamesTheMistake` for what it refuses by its table, and `ReadsTheNotation`. `RustInv` adds to `Inv` that a rule's `d` is its
place (`AllFit`), that places are bounded by the last group that may open and by the chain of
operators on it (`Nested`), and that the registers are numbers within their limits
(`RegistersOK`). A step of this port is one of the table or gives up, so what is true of
every step of the table carries over: `TheRustPortReadsTheNotation` keeps `Sound` that way, and
no register or limit has a part in the tree.

`AnswersProofs`. Of `Rejection`, for any threads and any bounds on parses and diagnostics: type
correctness, `ReportsItsOwn`, `NeverNameless`. `IInv` says, for each place in
`parse_ebnf_raw`, what the slot may hold: after `clear`, nothing or the first diagnostic of
the parse that runs; outside a parse, whatever a panic left. That what was taken is this
parse's own follows from where the clearing stands. Of `Facade`, for any sources and any
number of calls: `InstalledOnDemand` and `PortsAnswerAlike`. A reply is a function of the
call it answers (`Answered`), so nothing of an earlier call on the shared engine gets into
it, and the ports' answers to one source are two values of that function.

`PortDepsProofs`, for any ids, manifests and registers: type correctness,
`PassesOnlyWhatIsRecorded`, `FailsForAReason`, `AdviceSuffices`. `IInv` says that a run has
read every port behind it as it is on disk, since edits come between runs; that the problems
of a finished run are those of the files it read; and that a register edited as reported is
right up to the ports' names. The lemma under the last is that a mended entry is the right one. Of `NpmManifest`, for every
`package.json`: the list `readTs` makes is what npm would install (`ListsWhatNpmInstalls`,
which is `ReadsNpmManifests` of the run `parts`).

`ReleaseProofs`, for any runs, any histories of main and any bounds on versions and failures: `OneCommit`,
`NothingHalfReleased` and `NothingTakenBack`. `IInv` says that a Go tag stands beside a `ts` tag of the same
commit on a version that npm serves, that a crate is of the commit its `ts` tag names, and
that a Release is of a tag that is there (`Agree`); that the tag a job builds from is there
(`Standing`); that a run which has decided has for its anchor what the `ts` tag names, unless it
is to push that tag itself (`Decided`); that nobody gets to the tags before npm has the
version (`Published`) or to a Release before its manifest was seen (`Manifest`); and that
crates.io trusts nobody with a crate it does not have. A crate may be built from either tag
and no Go tag is needed for it: that the two agree comes from the `ts` tag, which is there
before both and never moves, so that an anchor found later is the commit the crate was built
from. What a run saw stays so while others go on, because no step takes back what is out
(`Onward`), and that is what each action's lemma shows.

Assumptions: `ThreadsAssumption` (finitely many threads, `None` is not one),
`MaxLoadsAssumption`, `NamesAssumption` (finitely many names), `GrammarsAssumption` (the
inputs are lists of productions, `Choices` starts with the production's own
alternatives), `MonotoneAssumption`, `Bounds` (versions and failures are bounded by numbers),
`HistoriesAssumption` (a history has a commit, each with a version and a manifest of those named above), `LimitsAssumption`
(the group limit is at least 2, the nesting limit at least 1; they are 520 and 130 in the code,
and `StackBounded` is wrong for a group limit below 2), `VocabularyAssumption` (the tokens are
of the kinds the table knows), `NamesDecoded` (`"!"`, the mark of a token that its decoder
refuses, is no rule's name), `MaxTokensAssumption` (the bound on sources is a number, any
number), `Distinct` and `Choices` (the dependency checker's inputs are of
their types). TLC evaluates them in the runs. The theorems on `Facade` have the
hypothesis that a source comes to one of the outcomes of `F!Source`.

Only model-checked: liveness and deadlock (out of the prover's reach). `RefusesTheRest` and
`FailsFast`, the other direction of `ReadsTheNotation`: that a source refused is no documented
one has to follow every documented source through the table, and is a statement about every
way the notation can divide the same tokens. Of the Rust port, `ReadsWithinTheLimit`,
`RefusesTheRest` and `RegistersFollowTheTree` compare with the depth of a tree, and
`RustReader` measures it by recursion over trees, for which there is no set of naturals to
take the least of (of `ReadsWithinTheLimit` only the depth is left: that what is accepted is
documented is `TheRustPortReadsTheNotation`); the same holds of `DerivesAsDecided`, against derivations of the empty
string. The Cargo and Go manifests, the lexers, the classes and the counts are folds over the
input (`ReadsCargoManifests`, `ReadsGoSources`, `CountsAreTrue`, `ClassesDenote`,
`LexersAgree`).

## 5. Plan

Done, in this order: the C library, the rule table, the checks; the Go reader as a machine
over lexemes and spaces; the Rust port's nesting limits; its rejection slot; the facades
with the compiler's panics; the lexers and the character classes; the dependency checker;
the record of counts; the release workflows.

What would add most from here:

1. `RefusesTheRest` of the rule table, by an invariant that for a documented source beginning
   with what was read says where in its tree the rules on the stack stand; and with it that
   the TypeScript and the Go reader accept the same sources but for spaces.
2. Of the manifest readers and the record of counts, what each loop keeps over the input it has
   passed, proved as the invariants of machines rather than as folds.
3. Larger instances of `parts`, one configuration per part.
4. Quoted literals and `/* */` comments in `EbnfLexer`.

## 6. Findings

`ts/src/converter.ts:152` describes a sequence as `(','? elem)*` and line 236 calls it
"possibly empty"; `seqAlts(true)` refuses both an empty sequence and a leading comma, as
the comment inside it explains. The table is right by the documentation
(`ReadsTheNotation`); the grammar in the comment is not the table's (`reader_comment`).

`go/parser_ebnf.go:23` says the two implementations are held to the same accept/reject
table, and `DIVERGENCE.md:12` that the dialect is not a divergence. `parseElem` looks for
postfix operators right where the atom ended, without `skipSpace`, so `A ::= B *` is
refused as a dangling postfix (and `A ::= B ?` as a special sequence), while the rule
table reads both: its lexer drops space between tokens (`go_reader_dialect`).
`ReadsTheNotation` and `RefusesTheRest` show that this is the only such source within the
bound.

`ts/src/converter.ts:740` says that Unicode mode follows what the matcher can match. The
flag is set for a negated class and for a member above the BMP; a class that names a
surrogate, or spans the surrogates as `[#x20-#xFFFF]` does, is matched without it and takes
one half of an astral character (`char_class_half`). `ClassesDenote` shows that nothing
else differs within the bound.

`release.yml:158` says that a repair must name the commit the release happened at, and
`crates-release.yml:31` that the crate is built from the commit that npm serves. The anchor
is taken from tags. Between a run's publish to npm and its one push there is none: a dispatch
that comes then, when main has moved on without a bump, anchors at its own commit, skips
the publish and tags that. Two dispatches that overlap are enough, with no failure
(`release_anchor`); a first run that fails in between leaves the gap open until somebody
tags by hand. `OneCommit` shows that the tags and the crate
agree among themselves all the same.

## 7. Not modelled

Message wording, spans, logging and layout. The C library's reply encoding, which this
format never reaches beyond fixed shapes. The compiler of `@tabnas/bnf` and the engine, but
for what they answer. `translate.ts` is generated and `render.alc` is layout for an external
engine; `embed-translate.js` copies one into the other and keeps no state. Recursion depth on
the Go and JavaScript stacks is a limit of those runtimes, not of the code modelled here.
In the lexers: quoted literals, definition operators and `/* */` comments, which are tokens
or spaces in the readers' modules. In the dependency checker: the characters of a TOML
string, the walk over directories, the report's layout, `--json` and `--help`. Vale, its
rules, and `docs.test.js`. In the workflows: the builds, how the crate's manifest is
rewritten (only whether it can be), a Release published by hand, a second draft of one tag,
the late attachment of darwin artifacts, which Release is marked latest, a tag pushed by hand at a commit of
another version, the refusal of a dispatch from elsewhere than main, and `ci.yml` and the others that
only run tests. Two hazards of the workflows are therefore listed with no property or left
out: a run that fails between pushing its tags and handing the Go tag over, and the mark.
