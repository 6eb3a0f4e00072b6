# Verification of thriftrw-node

thriftrw-node reads Thrift IDL files, links what they define, and encodes and
decodes the structs they describe. This directory holds TLA+ models of it, TLC
runs that check them on small instances, and TLAPS proofs. `PROJECT.json` maps
every definition to the lines it was translated from.

## The system

| Part | Source | State | Operations | Talks to |
|---|---|---|---|---|
| asynchronous loader | `thrift.js` 61-206 | `parsed`, `idls`, `asts`, callbacks in flight | `Thrift.load`, `load`, `loadIncludedModules` | `fs.readFile` (callback), `asyncEach`, parser |
| synchronous loader | `thrift.js` 208-236 | `parsed`, `idls`, `asts`, the JavaScript stack | constructor, `loadSync` | `fs.readFileSync`, parser |
| asyncEach | `lib/async-each.js` | `sharedData.done`, `.count`, one `handleCbCalled` per handle | `asyncEach`, the function `handleCb` makes | its caller's handles and callback |
| compiler and linker | `thrift.js` 264-561, `const.js`, `typedef.js`, `enum.js`, `struct.js`, `service.js` | `memo`, `models`, `modules`, `consts`, a `linked`, `defined` or `to` per model | `compile`, `define`, `link`, `resolve`, `resolveIdentifier` | the trees the loader left in `asts` |
| typed codec | `struct.js`, `union.js`, `enum.js`, `list.js`, `set.js`, `map*.js` | none; a buffer and an offset are passed on | `poolByteLength`, `poolWriteInto`, `poolReadFrom` | base types, `skip.js`, `read.js` |
| base types | `boolean.js`, `i8.js` to `i64.js`, `double.js`, `string.js`, `binary.js` | none | the same three | bufrw |
| untyped values | `skip.js`, `read.js`, `tstruct.js`, `tlist.js`, `tmap.js` | none | `skipType`, `readType`, `TStructRW` and so on | bufrw |
| messages | `message.js` | none | `MessageRW` reads and writes envelopes | struct codecs |
| sources | `thrift.js` 296-325, `lib/lcp.js` | none | `getSources`, `toJSON`, `longestCommonPath` | `idls`, `asts`, and the `Thrift` made of what they give |
| reflection | `thrift.js` 251-294 | none | `getType`, `getTypeResult`, `getServiceEndpoints` | models |
| parser | `thrift-idl.pegjs`, generated `thrift-idl.js`, `ast.js` | position, cache of failures | `parse` | the loaders |

How they interact: the constructor of `Thrift` calls `load` or `loadSync` for the
entry point; both fill `parsed`, `idls` and `asts`, tables that all the `Thrift`
objects of one program share. When loading ends, `compileAndLink` makes a `Thrift`
for each included file (`memo`), defines models, and links from the root. A linked
model has an `rw`, which is what encodes and decodes; a service's function has two
structs, wrapped by `MessageRW` for the network.

What is hard here:

* **Callbacks.** Files include each other, in diamonds and cycles; a file is marked
  before it is read; reads end in any order and may fail. The user has to be
  called back once, with the right answer.
* **Recursion over graphs with cycles**: loading, compiling and linking are
  searches in depth that mark their nodes, each in its own way and at its own time.
* **A grammar of ordered choices**: the first alternative that matches is taken for
  good, so a word that begins like a keyword, a comment or a blank in an unusual place
  decide which rule reads a file.
* **Evolution of schemas**: a struct is read by a program that has another version
  of its definition, from a buffer that may be too short. Four pieces of code
  (writer, typed reader, `skip.js`, `read.js`) must agree on every byte.

Correctness of each part: asyncEach settles once and truly; the two loaders give
the same, determined answer; a linked program solves the equations its definitions
state, whatever their order, or is refused for cause; what a reader holds is a
function of the two schemas and the value, and damage is noticed; a file is read as
its author meant it or is refused, and nothing of it is dropped; a program made of
the sources of another one is the same program.

## The modules

| Module | What it is |
|---|---|
| `AsyncEach` | `lib/async-each.js`, with handles that may call back at any time and more than once |
| `Settlement` | abstract: a set of tasks is settled once |
| `AsyncEach_proofs` | theorems about `AsyncEach`, and that it implements `Settlement` |
| `IncludeGraph` | files and what reading, parsing and validating them gives; reachability |
| `IncludeGraph_proofs` | lemmas about reachability that both loaders' proofs use |
| `ThriftLoad` | the asynchronous loader, composed with the asyncEach loops it starts |
| `ThriftLoad_proofs` | theorems about it, and that its steps are those of `LoadPromise` |
| `ThriftLoadSync` | the synchronous loader |
| `ThriftLoadSync_proofs` | theorems about it, and that its steps are those of `LoadPromise` |
| `LoadPromise` | abstract: one answer, determined by the files; both loaders implement it |
| `Linker` | compile and link |
| `Linker_proofs` | theorems about both passes, for all programs |
| `LinkerSolved_proofs` | what link makes of the definitions, for all programs |
| `Wire` | typeids, integers, booleans, strings on bytes |
| `Int64` | `i64.js`: the forms an i64 is given and read in |
| `Skip` | `skip.js` and `read.js` |
| `Codec` | `poolByteLength`, `poolWriteInto`, `poolReadFrom` of all typed values |
| `Exchange` | programs with different schemas pass a struct on through buffers |
| `SchemaPromise` | abstract: what one program holds after another sent it; `Exchange` implements it |
| `UntypedCodec` | `TStructRW`, `TListRW`, `TMapRW` of `tstruct.js`, `tlist.js`, `tmap.js` |
| `Message` | envelopes of `message.js` |
| `Call` | a client and a server that exchange messages |
| `PegExpressions`, `Peg` | expressions of a grammar; what the functions pegjs generates do with them |
| `Idl`, `Ast` | the grammar of Thrift, rule by rule; the nodes of `ast.js` |
| `IdlText` | someone writes a file, oddly, and `parse` reads it |
| `CommonPath` | `lib/lcp.js`, which `getSources` and `toJSON` use |
| `RoundTrip` | `getSources` and `toJSON`, and the `Thrift` made of what they give |
| `EnumNumbers` | how `ThriftEnum.compile` numbers the members of an enum |
| `RoundTrip_proofs`, `EnumNumbers_proofs` | theorems about the three |
| `MC*` | instances for TLC |

`ThriftLoad` and `ThriftLoadSync` share `IncludeGraph`. `Exchange` is built on
`Codec` and `UntypedCodec`, both of which use `Skip` and `Wire`, the first also
`Int64`; `Call` puts
`Message` around `Codec`. `RoundTrip` composes `CommonPath` with the walk of
`loadSync`; `IdlText` hands its text to `Peg`, with `Idl` as the grammar.

### AsyncEach

`index` is the loop variable, `looping` says that the loop has not returned,
`done` and `count` are `sharedData`, `called` the set of elements whose
`handleCbCalled` is set. `calls` and `failed` belong to the environment: a started
handle may call back, with or without an error, `MaxCalls` times. `HandleCb` has the
four branches of the function in `handleCb`, in the order of the code.

### ThriftLoad and ThriftLoadSync

A file is a model value; `source` says for each file whether its text or tree was
given in the options (not as `''`, which is not truthy, so such a file is read: `thrift.js`
171 and 214), whether reading and parsing work, whether its includes are
valid, and what its definitions include. `call` is the function call about to be
made and `stack` the asyncEach loops below it, because `readFile` and handles may
call back synchronously: a definition that is no include calls back inside the
loop. `Deliver` is the event loop: it runs one pending answer of `readFile` when
the stack is empty. `LoadAgain`, `LoadFirst`, `LoadIncludedModules`, `LoopStep`,
`LoopEnds`, `HandleCb` and `CallUser` are the pieces of code between two calls.
`linkable` stands for the outcome of `compileAndLink`, which `Linker` models.

`ThriftLoadSync` has the recursion of `loadSync` as a stack of loops.

### PegExpressions, Peg, Ast, Idl, IdlText

A text is a sequence of chunks: a word, a digit, a blank, a bracket, each one model
string. `Idl` has one operator per rule of `thrift-idl.pegjs`, under the name of the
rule; an expression is a record (`Then` for a row, `OneOf` for a choice, `Star`,
`Opt`, `Not`, `As` for a label, `Do` for a row with code), and `Act` is that code,
which makes the nodes of `Ast`. `Peg!Match` interprets an expression as the
generated functions do: in order, without going back into an alternative that was
taken. `IdlText` starts from a tree someone means (`Programs`) and writes it lexeme by
lexeme (`Write`), with `Oddities` unusual things: a blank or comment in a gap, a
separator that is left out or of the other kind, a lexeme lost (`LeaveOut`) or one too many
(`PutIn`). `gap` of a lexeme says where the grammar takes blanks, `lawful` turns
false where they are written all the same. `Parse` is `idl.parse` on the text as it
is. To say what a text means without the grammar, the properties have a lexer of
their own, which knows words, numbers, strings and comments and nothing else.

### Linker

Both passes are recursive functions. `stack` is the JavaScript stack: a frame is a
call of `compile` or `link`, with what it still has to call and what it has got. A
definition is reduced to its kind, its name and the references `link` resolves, in
the order of the code: a struct has the default values of all fields first, then
their types (`struct.js` 145-203); a service has its base, then its functions, each
with a struct of arguments and a struct of the result. `Resolve` is
`resolveIdentifier` with its walk through `modules`; a base type, a literal or a field
without a default names nothing (`ResolveNothing`), and a name that leads nowhere
makes `resolveIdentifier` throw (`NotFound`). `ReturnsAtOnce` and `Entered` hold the
three ways a model is marked: `linked` or `defined` before its references are resolved,
`to` of a typedef after. Every module ends with `Builtins`, as `compile` adds the
exception of messages.

A program has the options `strict` and `allowOptionalArguments`; `CheckFields` is
what `ThriftStruct.link` checks of each field with them, and `Refused` what it throws for.
In strict mode a field needs a mark or a default *value* (`struct.js` 178): `WithoutValue`
are the fields whose default was not written or has turned out to be null (`Nothing`),
which is what a const that is asked for while it is resolved reads as. So `Verdict` has
two bounds where consts name one another in a circle: what is made has no unmarked field
whose default is null for certain (`AlwaysNull`: it leads into a circle without a list),
and what is refused may have one whose default might be (`MaybeNull`: with a list in the
circle the one that is linked first decides).
`MakeAgain` makes another `Thrift` of the same trees, which `options.asts` allows:
all models are new, the trees are not, and `unshifted` counts how often `service.js`
56 has put a `success` in front of the throws of a function in its tree.

### Wire, Int64, Skip, Codec, Exchange

The codec has no state: its functions are operators over bytes with the offsets and
errors of the code. A double is eight bytes, a string is its bytes. An i64 has the form it was given or
read in: `WriteInt64` and `WriteDate` turn buffers, arrays, numbers, pairs of words, Longs,
hexadecimal strings and dates into eight bytes, `ReadI64Buffer`, `ReadI64Long` and
`ReadI64Date` make a buffer, a Long or a Date of them. A word is the bytes of its number,
five if it is no i32, on which `writeInt32BE` throws.
Object forms of sets and maps keep one entry per key, in the order of
`Object.keys`. `Create`, `MissingAfterRead` and `MissingForWrite` hold the
asymmetry of required fields: a default satisfies the reader (`validateStruct`)
and not the writer.

`Exchange` is the state machine around them: `Send` is `toBuffer`, `Receive` is
`fromBuffer`, `Cut` lets the transport lose the tail of a buffer. `SchemaPromise`
says what comes out without any bytes: `Convert` is the rule for two types and a
value. The refinement maps `cut` to `stage = "cut"` and nothing else is hidden.
`Relay` is a program without a schema on the way: it reads the buffer with
`TStructRW` and writes what it read.

### Message and Call

A message is a record with `version`, `type`, `name`, `id` and `body`; `Header` is
`poolStrictWriteInto` and `poolLegacyWriteInto`, `StrictReadFrom` and
`LegacyReadFrom` are the readers, with Node's Buffer functions, which throw at the
end of a buffer where `toString` does not. `Raised` is the result with an error and
a value that `poolReadFrom` returns for an exception. In `Call` the client and the
server are external and do what the README of the repository asks of them: the
answer has the id of the request. The last buffer on the way may lose its tail.

Two things decide what a program may send: a struct whose author used an id twice
writes both fields under it and reads the last (`Twins`), and a union that holds two
fields is written and read as it is. `ReceivedCanBeSent` says that what was read can be
written, with one exception that `HoldsUnsigned` describes: `i8.js` 48 reads a byte
without its sign, so a `-1` comes as 255, which the writer refuses.

### CommonPath, RoundTrip and EnumNumbers

`CommonPath` and `EnumNumbers` are loops, modelled one turn at a time with the variables of the code, and
both have a reference definition in the properties: a prefix shared by all names
that cannot be made longer; the number of a member as the last stated number plus
the distance from it. `lastIndexOf` is modelled with its rule for a start below zero.

`RoundTrip` has the files of a `Thrift` by name, each given as text, given as a tree
or read, and empty or not; `keys` is `Object.keys(this.idls)`, `visited` is `parsed`, `todo` what
`loadSync` still has to be called for. `loadSync` asks whether a text is truthy
(`Found`, `thrift.js` 214): an empty file that is read is parsed like others, and its text
is among the sources as `''`; but given as `''` it is as if it were missing. A tree of an
empty file is truthy. (A name that comes twice, as a text and as a tree or as `''` and to
be read, is left out.) `Visit` is one call of `loadSync`, with
`path.join` (`Join`) for the names of includes: `Parts` takes a path apart at its
slashes, `Normal` follows `..` and `.`, `Named` puts it together. A part has any number
of characters, and `..` and `.` are parts like others, so that a name may end within a
part or begin with `..`. `Ask` calls `getSources` or `toJSON`,
`FindCommonPath` runs the loop of `CommonPath` over the names, and `MakeOfSources`
makes the next `Thrift` of the shortened names, with no file system behind it. `origin`
remembers what it was made of. `RoundTrips` says when the next `Thrift` has the same
files: unless an include climbs out of the common directory (`Climbs`), a file came as a
tree, a text it visited is empty and `getSources` gave it (`toJSON` gives a tree that does), or
the entry point has the name of the directory. It leaves out names that
`path.normalize` would change where a directory is taken off (`Unmistakable`): of the
texts `a` and `../b`, of which `a` includes `../b`, the first is found again; but given
`d/../../b` under that name, nothing that is included has it, and without its directory
it may be taken for what another file climbs to.

## The runs

| Run | What it shows |
|---|---|
| `async_each` | for iterators of up to four elements and two calls per handle: one answer, true, never lost; implements `Settlement`; an answer comes if the handles call back |
| `load` | for every include graph of three files (at most two definitions each, unreadable, malformed and given files among them) and every order of reads: one answer, the determined one, nothing in flight behind a success |
| `load_sync` | the same graphs: the walk ends, its stack holds a file once, the answer is the same |
| `linker` | every order of the definitions of the entry file, cycles of structs, of consts (with and without a list, and fields whose defaults name them, from inside and outside) and of modules, a typedef in a cycle, nested module names, inheritance over three services and in a circle, a typedef that three structs resolve at once, functions with and without throws, the options of strict mode and optional arguments, programs that must be refused, and a second `Thrift` made of the trees of the first |
| `self_typedef` | violation: `typedef list<Loop> Loop` overflows the stack |
| `exchange` | eight schemas (a recursive struct in four versions, a result in two, a union, a struct that uses ids twice), each pair of them as writer and reader, three hops, every truncation of every buffer |
| `call` | a request and its answer, strict, legacy and in versions nobody knows, with results, exceptions and every truncation: each message is read as it was made, or refused |
| `exception_offset` | violation: the offset behind an exception message is not its end |
| `round_trip` | the common directory of all pairs of names of up to three characters over two letters and the slash and of all triples of up to two; and for files in two directories that include one another by straight and roundabout paths, given as texts, as trees or read, some of them empty, and for files above one another: a `Thrift` made of the sources, and one made of its sources, have the same files |
| `idl` | every header, definition, type and value, with eighteen words that could be taken for keywords as names, and one odd gap, separator or slip anywhere: read as meant, or refused |
| `signs` | violation: `const i32 a = -5` is read as 5 |
| `enum_numbers` | all enums of up to three members over three names and seven numbers, with an i32 of three bits |


Bounds. Three files are enough for a cycle behind the entry, a diamond and a file
that is reached twice while it is read; two definitions per file give each loop an
element that ends it and one that does not. Four elements give asyncEach every
order of success, error and second call with elements left over. Three hops let a
value pass through a schema that loses a field and come back. `MaxDepth` of the
linker is above the depth any of the good programs reaches, so `overflow` means
recursion without end, and `Returns` says that it does not happen. Integers are chosen at the ends of their widths (40000 in
an i16, 70000 where an i32 is read as an i16, -1 and -128 in an i8, the first and last
date of JavaScript and what is behind it). `Oddities` is 1:
each odd thing a grammar does shows with one odd thing in the text, and what is
around it varies with the eighteen names. Two `Thrift`s of one tree are enough for what the
second finds changed, three `Generations` for sources of sources. Three members are enough for a stated number, one that
counts on from it and one that meets either; three names for two that agree with
each other and not with the first.

Two things the `exchange` run led to are kept as comments there: an enum whose
members share a value returns the later name, so a default that names the earlier
one changes at the first hop (`Settled`); and `failure` of a result is no field, so
an unknown exception is lost when the result is sent on.

Fairness. `ThriftLoad`: JavaScript runs what is on its stack (`WF(Run)`), and every
`readFile` calls back (`WF(Deliver(f))` for each file), which Node guarantees.
`AsyncEach`: the loop runs to its end, and each started handle calls back at least
once, which is what asyncEach asks of its caller and what `load` does.
`ThriftLoadSync` and `Linker` are synchronous code: weak fairness of the next step.
`Exchange`, `Call`, `CommonPath` and `EnumNumbers` have no liveness property.

Deadlock checking is off where the program ends: a loader that has answered, a
constructor that has returned, a struct that made its last hop, an answer that
arrived, a loop that is over.

Disagreements of the code with its documentation, and other surprises, that have no
run of their own; the properties are stated so that they hold with them, and say so:

* the README has a message type `RESULT`, `message.js` 33 has `REPLY` (`Call` uses
  the latter);
* `lib/lcp.js` 43 asks `lastIndexOf` for a slash from -1 on, which looks at the first
  character all the same: `/a` and `b` have the common path `/` (`Unmixed` in
  `DirectoryIsCommon`);
* `enum.js` 63 checks the numbers of members against the upper end of an i32 only
  (`Verdict`);
* `enum.js` 69 puts every enum member in `thrift.consts` under its bare name, where it
  replaces a const of that name, or is replaced by it (`Homonyms` in `Solved`);
* README 514 says that exactly one field of a union is defined; `union.js` 57 keeps
  every field it is given, and `SchemaPromise` says so;
* `i8.js` 48 reads without a sign what `test/i8.js` 51 and `i8.js` 51 write with one
  (`HoldsUnsigned`);
* README 656 takes a string of 16 hexadecimal digits for an i64; `i64.js` 122 writes its
  halves with `writeInt32BE`, which throws if one has its first bit set
  (`Representable`); and what `I64DateRW` cannot read as a date it passes on as the
  epoch (`HoldsInvalidDate` in `Settled`);
* services that extend one another in a circle are not refused if the one that is
  linked first has no functions; they then lack some of what they inherit (`Straight` in
  `InheritsAll` and `Verdict`);
* consts that name one another in a circle are not refused: the one that closes the
  circle reads `null`, and so does what names it (`Circular` in `Solved`); an unmarked
  field whose default reads `null` is refused in strict mode though a default is written
  (`AlwaysNull` and `MaybeNull` in `Verdict`);
* what `getSources` of a `Thrift` with an empty file gives makes no `Thrift`: the text `''`
  counts as not given (`thrift.js` 214; the last part of `Complete` in `RoundTrip`);
* `service.js` 56 puts `success` in front of the throws in the tree itself, so a
  `Thrift` made of `asts` that were used before has it once more (`SuccessInFront`);
* `toJSON` and `getSources` of a `Thrift` made of trees alone throw (`thrift.js` 301),
  an include that leaves the common directory and comes back is lost with it, and an
  entry point that was given as a tree may be shortened to the name of another file
  (`Complete` and its comment in `RoundTrip`);
* most keywords of the grammar do not look at what follows them (`thrift-idl.js` 3396):
  a type `stringy` is read as `string y` (`Misread`); `-0xa` is -0 and then a
  name (`SignedHex`); a number and the words of old headers take no blank behind them
  (`gap`, `MisreadHeader`).

## What is proved

`AsyncEach_proofs` proves, for iterators of every length and any `MaxCalls`, from
the two assumptions that these are natural numbers:

* `TypeCorrect`, `CallsBackOnce`, `AnswersTruly`, `LosesNothing`: the invariants
  `TypeOK`, `AnswersOnce`, `AnswerIsTrue`, `NothingLost`;
* `StopsWhenAnswered`: the action property `NoHandleAfterAnswer`;
* `Implements`: every step is a step of `Settlement` or a stutter.

The invariants are not inductive: that success is complete depends on what the
counter means. The strengthening adds that `count` is `length` minus the number of
elements in `called`, that `done` is set exactly when there is an answer (for an
iterator with elements), and that with no answer the counter is above zero. `Initially`,
`StepKeepsInvariant` and `InvariantImplies` are the three facts; the arithmetic of
the counter rests on the cardinality theorems of the library (`SomeOfAll`: a set of
elements whose count is `length` is all of them).

`RoundTrip_proofs` proves for all lists of one name or more that
`lengthOfCommonPrefix` returns the length of the longest common prefix
(`PrefixIsLongest`), and that `longestCommonPath` returns the
longest common directory (`PathIsCommon`, `PathIsLongest`), the first for names
that are all absolute or all relative (`Unmixed`).
The invariant says of the names before `i` that they share `length` characters and
that one of them stops there or goes another way, and of the name at `i` that it
shares `j`; with it the last step is the definition of `lastIndexOf`.

It then proves the same of `RoundTripSpec`, where `getSources` and `toJSON` call
`longestCommonPath` with the keys of one `Thrift` after the other, and
`SourcesComeBack`: `RoundTrips`, for all programs (`ProgramsAssumption` says what types
they have, and which files come as texts), all alphabets and any number of `Generations`.
There are three steps.

* Paths. `Parts`, `Normal` and `Slashed` go through a sequence one element after the
  other. `Recursion` (such a function exists) and `UpTo` (what is handed on from each
  number to the next holds of all) are proved with well-founded minima, and take the
  place of the library's induction. From them: a name that is split
  behind a slash has the parts of both pieces (`PartsOfBoth`); a way behind a directory
  leads where it leads without it, until it leaves it (`NormalBehind`); so an include
  of a normal name that does not climb names, below the directory, what the shortened
  name's include names, and if what that names is normal with the directory in front,
  the include did not climb (`IncludeBelow`).
* Walks. What `loadSync` visits is the least set that has the entry point and, of each of its
  files, what it includes (`Reached`). `ComesBack`: if the second walk ends, the texts
  whose short names it has visited are closed under includes, so they are all the first
  has visited, and no include climbed; and the short names of what the first has visited
  are closed, so the second has no more. `CanBeMade`: if nothing climbs, these are all
  among what was given, so the second does not miss a file, unless one of their texts is
  empty (`NoneEmpty`).
* The invariant, `RoundTripInv`. `Spreads` and `Needed` say that the walk is on the way
  to the least set; `MadeBy` says of every `Thrift` but the first what it was made of, and by the
  taking off of which directory. It has to hold while the variables of `longestCommonPath`
  have been overwritten already, so it names the length of that directory by itself.

`RoundTrips` had been checked with an earlier model of paths, whose parts were
single characters, and was false beyond it: of the texts `a` and `../b` no directory
is taken off, so nothing is lost when the one includes the other, though the include
climbs above. The attempt to prove it showed that; paths, the property and the instance
were corrected, and the proof is of what is there now.

`EnumNumbers_proofs` proves for all enums and any `Max` that the numbers are those
of the reference definition (`NumbersAreCounted`), that a number reads as its last
name (`LastNameWins`) and that `compile` throws for cause (`VerdictIsRight`). The
invariant adds that `value` is one more than the number of the member before, and
that the members which state a number have a last one, without which the reference
definition would choose from nothing.

`ThriftLoadSync_proofs` proves for all sets of files, include graphs and outcomes of
reading that the recursion never meets a file twice (`RecursionIsBounded`), that it
searches in depth (`SearchesInDepth`), and that every step is one of `LoadPromise` or a
stutter (`Implements`): the answer, when it comes, is the one the files determine. The
invariant is that of a search in depth: what a loop has passed is parsed or being
entered, what is parsed and on no loop is done, and all of it is reached from the
entry point; so when the outermost loop ends, what is parsed is closed under includes
and is all that is reachable.

`ThriftLoad_proofs` proves the same of the asynchronous loader, for all sets of files and
all orders in which `readFile` answers: the user is answered once (`AnswersAtMostOnce`),
no handle of a loop calls back twice, so the error `async-each.js` has for that is
never thrown (`CallsHandlesOnce`), a success is complete and behind it nothing is in
flight (`SucceedsWhenComplete`), the loader is never stuck (`LosesNothing`), and every
step is one of `LoadPromise` or a stutter (`Implements`). It assumes that the entry point is a file and
that includes lead to files. The invariant treats the callback of each load as a token: it is
given out once, and then either in the function call about to be made, with a read in
flight, held by an asyncEach loop that still counts, or spent. A loop that waits has as
many tokens out as its counter says (`Counted`); the loads that are not over form a tree
of who waits for whom, with the user at its root. When the root is spent with success all
of it is, which gives `SuccessIsComplete`; when it is not spent, some leaf is still to
run or in flight, which gives `NothingLost`.

`Linker_proofs` proves for all programs (any files, definitions and includes, however
they refer to each other), from what `ProgramsAssumption` says of a syntax tree:

* `EntersNoneTwice`: `EntersOnce`. The invariant is that a module on the stack has its
  `Thrift`, and a model on the stack its mark, unless it is a typedef;
* `DuplicatesAreRefused`: the first part of `Verdict`. A `Thrift` is made only if no
  module of all that are reached by includes defines a name twice, and only such a
  module makes `define` throw;
* `SuccessStaysInFront`: `SuccessInFront`, for any number of `Thrift`s made of one tree.

The last two have one invariant, `CompileInv`: of each file it is known how far its compile
has come, wherever its frame is in the stack (`Passed`). `models` has the
paths of just what is behind; no two of those are alike; a file whose include is behind has a
`Thrift`; and the throws of a function have one `success` for each earlier
`Thrift`, and one more once the service is behind.

`LinkerSolved_proofs` proves of the second pass, for all programs:

* `LinkedIsSolved`: `Solved`, and the part of `Verdict` that says of a linked program
  that it is `Resolved` and `Marked`: every const that is no member of a circle and every
  typedef and struct has the value its definition states, every name leads to a
  definition of the role its place asks for, every field has the mark it needs, wherever
  in the modules that the entry point reaches;
* `AllAreInherited`: `InheritsAll`. A linked service that is in no circle has its own
  functions and those of all it extends, each once, and `models` leads from the name of
  each under this service to the structs of its arguments and its result;
* `VerdictIsDeserved`: `Verdict`, whole: what is made deserves it, what is refused with a
  duplicate, a bad reference, a bad mark or a function inherited twice has one. A missing
  default may be one that is null: `NullRight` (part of the invariant) says that a const
  of `AlwaysNull` never has another value and one outside `MaybeNull` never has this one
  (`GivenRight` says so of what a frame has got, `CheckSees` of what `Refused` sees).

The invariant of the first is `LinkInv`. A frame of `link` has resolved the first references of its
definition, what it still has to do are the others, and what it has got are their meanings
(`FrameTrue`). What is marked is on the stack or complete; what is complete has the value
its definition states of the values at its references, and these are final, because a name
once looked up in `models` and `modules` stays what it is in this pass. Two things make it
hard. A typedef, a struct or an enum may be linked for a reference of the wrong role, which
`resolveIdentifier` notices when the call has come back: until then some frame waits for
what it will refuse (`Doomed`), and nothing is claimed of what is made meanwhile. And a const
whose mark is set may have no value yet: then it is on the stack, and as a const names
nothing but consts (members of enums need no second call), all frames above it are consts
that name the next; so the one that reads `null` closes a circle (`CircleCloses`; the
induction over the stack, `UpTo`, goes by a well-founded minimum) and is one of those that
`Solved` leaves out.

The other two have `ServiceInv` on top of it. A service has the functions it defines, and
no others, as long as it `Waits`: it is not marked, or its own frame still resolves its
base. Its functions are at all times some of its `Line` (its own and those of its
`Ancestors`), none twice, and `Provides` says that `models` has the structs of just
these under its name. When it has resolved its base, the base is marked, but it may be
half linked itself; then it is on the stack below, and the frames between, each called by
the one before, are services that extend the next (`CalledBy...`: what a struct or a frame
"functions" calls never leads back to a service), so that the service is in a circle,
which `Straight` leaves out (`BaseIsLinked`). Otherwise the base has its whole line. This
needs a program whose names lead where they should (`Resolved`); if they do not, nothing
is claimed, and `LinkedIsSolved` says that the program is then never accepted. `Failing`
goes the other way: each place that throws finds a reason in the definitions, and the
reason stays.

Only model-checked: liveness everywhere, so also that the linker ends (it does not for a
typedef of itself, see above); the codec, the messages and the parser. The codec and the interpreter of the
grammar are recursive operators, over types and expressions that contain themselves,
and stay with TLC.

## What is not modelled

The texts of errors and the positions of nodes, the classes of Unicode letters in
names, the command line, browser shims and benchmarks, and `getType`, `getTypeResult` and
`getServiceEndpoints`, which only read. Of the linker: `js.name`, the PascalCase aliases on
the `Thrift` object, what an exception and a union do beyond a struct, and the ids of
fields, so also the check that they are above zero (`struct.js` 40); which of two consts of
one name stays in `Thrift.consts` is modelled, but no property claims it. Of the
codec: numerals given for small integers, numbers that are none of 32 bits given for an
i64, a buffer shorter than an i64 (it leaves what was in the buffer before), utf-8, and
`skipField`, which nothing calls. That readers
share one result object (`read.js` 138) is left out: the models pass results by value.
bufrw is external and modelled from its use.

## Plan

Done: all modules of the table above and the proofs about `AsyncEach`, `CommonPath`,
`RoundTrip`, `EnumNumbers`, both loaders and all safety properties of the linker. Next, in
this order:

1. The coercions of the other base types (numerals for integers).
2. `Wire` without recursion, and a proof that what is written in range is read back.
