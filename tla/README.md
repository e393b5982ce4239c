# Enclaved-FE: verification project

TLA+ models of `pp_analytics_app`, the privacy preserving analytics demo of this
repository, with the TLC runs that check them and TLAPS proofs about them.
Paths below are relative to `src/pp_analytics_app/`; `restincurl.h` is
`client/src/include/restincurl/restincurl.h` and `json.hpp` is
`client/src/include/nlohmann/json.hpp`, which the client brings along and builds.

## 1. The system

| Component | State | Operations | Modelled in |
|---|---|---|---|
| Trusted entity, `trustedentity/main.go` | `keyList` (a map in memory, no lock); the global `math/rand` source | `GET /generateKeys`, `POST /fetchKey`, each request in its own goroutine | `TrustedEntity` |
| Analytics engine, `analyticsengine/main.go` | `clientData` (a slice in memory, no lock) | `POST /data`: decode, fetch the FE key, decrypt, append | `AnalyticsEngine` |
| C++ data owner, `client/src/main.cpp`, `EncryptorClient.cpp` | globals `clientId`, `publicKey`, the parameters | GET keys, encrypt, POST ciphertext, exit code | `DataOwner`; its use of the HTTP client in `ClientProgram` |
| Go data owner, `client/src/main.go` | locals of `main` | the same, with other failure paths | `DataOwner` |
| restincurl `Worker` and `Client`, `restincurl.h` | `queue_`, `ongoing_`, `thread_`, flags, a pipe, locals of `Run` | `Execute`, `CloseWhenFinished`, `Close`, `WaitForFinish`, destruction; the event loop | `Worker`, `RestClient` |
| restincurl request builder, `Request`, options, data handlers, `restincurl.h` | type, flags and completion of the builder; headers, handlers and default buffer of the request; the options of the easy handle | set-up calls, `Build`, `Execute`, `ExecuteSynchronous`, the callbacks of libcurl | `RequestBuilder` |
| nlohmann json: input adapters, lexer, `json.hpp` | the input, one character of pushback, position, `token_string`, `token_buffer` | `scan` | `JsonInput`, `JsonLexer` |
| nlohmann json: parser and SAX consumers, `json.hpp` | stack of open containers; `ref_stack`, `keep_stack`, `object_element` | `parse`, `sax_parse`, `accept`, with a callback or without | `JsonParser`, `JsonSax` |
| nlohmann json: serializer and Grisu2, `json.hpp` | `string_buffer`, `indent_string`, the UTF-8 automaton | `dump` | `JsonSerializer`, `JsonGrisu` |
| nlohmann json: binary formats, `json.hpp` | the bytes read | `to_` and `from_` `cbor`, `msgpack`, `ubjson`, `bson` | `JsonBinaryNumber`, `JsonBinaryWriter`, `JsonBinaryReader` |
| nlohmann json: pointers and patches, `json.hpp` | the value they change | `operator[]`, `at`, `contains`, `flatten`, `unflatten`, `patch`, `diff`, `merge_patch` | `JsonPointer`, `JsonPatch` |
| nlohmann json: the rest, `json.hpp` | | containers, iterators, conversions, comparison | no |
| logfault | logging | | no |
| CMake, Makefile, Dockerfile, manifests, `simple_app` | | | no |

How they interact:

- Every owner makes two HTTP calls, one to each server, and the engine one to
  the trusted entity for every post. Nothing else is shared.
- A server runs each handler in a goroutine. The handlers share one
  unsynchronised variable per server. A concurrent access to a Go map may stop
  the process; a racing `append` to a slice may lose or tear results.
- The servers keep everything in memory: a restart loses `keyList` or
  `clientData`, while ids and keys live on with the clients.
- The C++ client parses the public key and writes the ciphertext with
  nlohmann json: `json::parse` in the completion of the GET, `dump` before the
  POST. What it receives and sends is what these functions make of a text and
  of a value; the protocol models take that for granted, the modules of
  `json.hpp` are about it.
- In the C++ client each call uses a `restincurl::Client` of its own. The
  calling thread and the worker thread share the queue and three flags under
  `mutex_`; the worker is woken through a pipe. The completion lambda runs in
  the worker thread and writes globals that the calling thread reads after
  `WaitForFinish`.

What is hard, in the protocol: the goroutine races; the loss of state at a restart, together
with ids that repeat; errors that are dropped (`-1` from the lambdas, `_` for
the errors of gofe) and the ones that end a whole process (`log.Fatalln`); and
in the worker, when the thread starts, sleeps and ends while others push
requests and set flags. In `json.hpp`, where nothing runs concurrently, it is
the number of cases: bytes at the edges of UTF-8, numbers at the edges of their
widths, buffers at their end, a document that stops anywhere, a callback that
rejects any part, a patch that fails half way. `PROJECT.json` lists the hazards line by line with the
properties aimed at them.

## 2. Modules

`Parties` fixes the data. A key pair is the number of the `GenerateMasterKeys`
call that made it; a ciphertext is the number of its key; decryption with the
FE key of the same number gives the owner's inner product (written as the owner
itself), with any other it gives nil. `y`, `L`, `Bound` and `modulusLength` are
the same in every call and left out. gofe and CiFEr are external.

**`TrustedEntity`** One record per owner for its `generateKeys` handler (`gen`) and
one for the `provideFEKey` handler that serves the engine on its behalf
(`fetch`). `DeriveKeys` is `rand.Int` to `DeriveKey` (local variables only);
`BeginStore`/`EndStore` are the map assignment, open to others in between;
`ReplyGen` is the encoding of the response and the return of the handler. Where an
assignment begins inside another the map is `torn` for the rest of the run:
`keyList` no longer follows it, and a read gives no key or any that this run
assigned (`Readable`). Beside a single assignment a read may miss any entry or see
the new one early. `harm` records in a fetch which of the two befell it. `MapFault` is
the "concurrent map" error of the Go runtime, at any access that overlaps or
finds the map damaged; it may or may not be noticed. What else a damaged map
may do (loop for ever, corrupt other memory) is left out. `TEStop` and `TEStart` end and start the process. `RandInt` has two
readings, chosen by `FreshSeed`: FALSE is `math/rand` without a seed, which the
code uses and which gives every process the same sequence (before Go 1.20; the
repository has no `go.mod`, and `docs/fetchKey.png` shows the first value of
that sequence); TRUE is a source that never repeats. `TESpec` is the server
alone, with up to `MaxFetches` fetches of any id.

**`AnalyticsEngine`** One record per owner for its `processData` handler.
`AskKey`/`KeysArrive`/`KeysFail` are the HTTP call and its outcomes, the last
being `log.Fatalln`; `PanicOnNilParams` is the nil dereference at line 63, which
net/http turns into a closed connection. `AppendLoad`/`AppendStore` are
`clientData = append(clientData, xy)`. When handlers overlap there, the Go
memory model does not define the slice: `Raced` allows either length, and any
racing result or none behind the elements that were loaded. `overlapped` is a
history variable of the handlers this happened to.

**`DataOwner`** The control flow of both clients up to the exit code.
`CppGetFails` shows that a failed GET leaves the C++ client on its way:
`ResultOfGet` is 0 whatever the lambda returned. `AssertFails` is the assertion in
`EncryptorClient`. The CMake project sets no build type, so that assertions are
compiled in, and the lambdas that flow off their end simply return.

**`PPAnalytics`** joins the three: an action is a step of one party, or of the two
ends of a call (the request sent and accepted or refused; the reply and its
reception). Handlers outlive callers that gave up, because only the C++ client
has a time limit.

**`Tally`** is the abstract specification of the application, as the data owners see
it: no trusted entity, keys, processes or goroutines. An owner offers its data
once; the engine adds the owner's own inner product to the results in one step
or drops the offer, and answers while the result is there; results are lost all
together. `PPAnalytics` implements it (`CountsAsTally`) with `clientData` as the results, the
handlers up to their store as pending offers, and the store as the step that counts,
as long as no two appends overlapped, no key was read from a torn map and no id
was drawn again (`Calm`).

**`Worker`** The event loop of restincurl. `wpc` is the place in
`PrepareThread`'s lambda and `Run`:

| `wpc` | code | action |
|---|---|---|
| `init` | `Init`, 870-876 | `InitMulti`, `InitThrows` |
| `evaluate` | `EvaluateState`, 886-894, 909 | `Evaluate` |
| `dequeue` | `Dequeue`, 829-868 | `Dequeue`, `DequeueThrows` |
| `perform` | 916-931, with the idle check | `Perform` |
| `reading` | 933-957 | `Complete`, `AllRead` |
| `checking` | 959-965, and `curl_multi_fdset` | `Check`, `CheckThrows` |
| `select` | 967-1023 | `SelectSignalled`, `SelectOther`, `Expire` |
| `leaving` | 1027-1030, and `Clean` | `Leave` |
| `exiting`, `unlocking` | 752-754 | `ResetThread`, `Unlock` |

A section under `mutex_` is one action, except the last one, because the Worker
may be destroyed between `thread_.reset()` and the unlocking. `expired` says
that the idle timeout has passed; it passes while `select` waits, or during a
completion when `SlowCompletions`. libcurl is external: `active` transfers end
in some `curl_multi_perform` and become `finished` (a message to read).
`completed` and `discarded` are history variables.

**`RestClient`** Any use of one `Client` that its documentation allows, by the
threads `Callers`: executing, both ways of closing, waiting, and destruction by
one thread while no other is in a call.

**`HttpCall`** is the abstract specification of one HTTP call of the C++ client: the
completion runs once, then the function returns, and it does return.
**`ClientProgram`** is what both functions of `main.cpp` do (`Execute`,
`CloseWhenFinished`, `WaitForFinish`, `return`, with `~Client`) on top of
`Worker`, and implements it: `KeepsPromise` is `Call!Spec` with `called` mapped
to the count of completions and `returned` to the end of the function.

**`RequestBuilder`** One builder, the `Request` it makes and that request's transfers.
The application makes any calls that the assertions `!is_built_` allow, then
executes the request synchronously (again and again) or once asynchronously.
`curl` is what was set in the easy handle. A data handler is a number:
0 is none, 1 one of the application, the others are made by the builder and owned by the
request, which keeps the last one for each direction. `Build` composes the
options in the order of the code (`WithInput`, `WithUpload`, `WithHeaders`,
`WithType`); without a type it throws at the end, and its effects stay.
The default buffer is a sequence of the numbers of the transfers its pieces
came in; the body to send is the sequence of its positions. `sendt_bytes_` is
never reset, so that each transfer begins where the last one stopped, at
`transfer.from`; `delivered` is what the last transfer sent. Header texts,
URLs and time limits are left out. `given`, `delivered` and `result` are history
variables.

### The modules of `json.hpp`

`JsonValue` is what a `basic_json` is in all of them: a record with one field named
after its `value_t`, with objects as functions and C++ pointers into a value as
paths.

**`JsonInput`** The adapters of wide strings: `FillBuffer16` and `FillBuffer32` with
the lengths and the passing on of what is no code point.

**`JsonLexer`** is a state machine: each step is one call of `get()` with everything
`scan` and its helpers do until the next one, and `pc` says where that call
is (`skip`, `scan_string`, `get_codepoint`, `scan_number_minus`, ... as
in the code). The input is chosen as it is read: a source gives the bytes that may come and
how many, or a whole text with the tokens it should have. `due` holds what
`next_byte_in_range` and `scan_literal` ask for next. Numbers are converted
at widths given by the constants, with the fall to float when they overflow.
The automaton of `scan_number` is `JsonNumber`, because the binary reader uses it
too.

**`JsonParser`** has one action per call of `get_token` and place in
`sax_parse_internal`: which token comes and what the user's callback answers is
open. `JsonSax` holds the three consumers as functions of an event: the DOM
parser, the DOM parser with callback, the acceptor. The paths into a value
(`At`, `ReplaceIn` of `JsonValue`) are folds, and the machine has no recursion in
it, so that it can be proved about.

**`JsonSerializer`** `dump` with every branch of `dump_escaped` (the automaton
`decode` by its table of classes and transitions), `dump_integer` and
`dump_float`; a write or a read past `string_buffer` or `indent_string` is
recorded as `overrun`. **`JsonGrisu`** is `dtoa_impl`: `compute_boundaries`,
`normalize`, `mul`, `get_cached_power_for_binary_exponent`,
`grisu2_digit_gen`, `grisu2_round`, `format_buffer`'s input, with all of the code's
assertions gathered in `asserted`. Its widths are constants, and the powers of
ten are computed rather than tabulated.

**`JsonBinaryWriter`**, **`JsonBinaryReader`** The four formats over bytes, with the numbers
of `JsonBinaryNumber` (8 bytes; a double by significand and exponent). The
high-precision numbers of UBJSON go through the lexer as in the code
(`HighPrecision`, with `JsonNumber`); a float among them is named by its text, as
`strtod` is external.
`JsonBinary` writes a value, cuts, extends or changes the document at
one byte, and reads it.

**`JsonPointer`**, **`JsonPatch`** Texts of pointers, the walks along them that create,
check or ask, `flatten` and `unflatten`, and the operations of patches with
every exception in the order of the code; what a failing operation leaves in
the working copy is kept. An exception is named, a failing `JSON_ASSERT` is the
exception `assertion`. `JsonDocument` lets a program change a value with them.

**`JsonGrammar`** models no code: it is what the lexer is measured against, written from
RFC 8259 and RFC 3629 (UTF-8 by arithmetic, tokens as regular expressions and
their derivatives). Likewise `JsonDerivation` holds the grammar of texts with its
meaning, for the parser, and `JsonDocument` RFC 6902. **`JsonText`** composes the lexer with the
serializer, Grisu2 and the adapters.

`MC*` modules hold the model values and symmetry sets for TLC;
the `*Proofs` modules the theorems of section 4. Operators marked
*Mutant* are plausible bugs of the definition that follows them, used to see
that a property notices.

## 3. Runs

| Run | Asks | Result |
|---|---|---|
| `trusted_entity` | Does an issued id resolve to its key, within a run and across a restart, with ids that do not repeat? Is what `fetchKey` returns made with that id? | holds |
| `application` | Three owners and no second run of the trusted entity: when is a result lost, is everyone who heard a 200 counted, when does the engine go down? | holds |
| `application_restarts` | Two owners and restarts of both servers: when is a result nil or an id unknown? Is the ciphertext that reaches the engine made with the key issued with its id? Is it a `Tally` while calm? Does every client exit, and is every post answered or closed? | holds |
| `rest_client` | Connection limit, no lost wake-up, each request in one place, none lost; does a thread told to end do so? | holds |
| `client_program` | Does the call sequence of `main.cpp` implement `HttpCall`? | holds |
| `request_builder` | Is what libcurl has been told right after any sequence of set-up calls? Does a transfer that finds the body unsent send the whole of it, and does a completion get the body of its own transfer? | holds |
| `json_text` | Does `scan` return a token exactly where RFC 8259 has one, and end? Is what `dump` writes, of any value or invalid string, read back as it was? Do Grisu2's digits read as the float they came from? | holds |
| `json_parser` | Does every consumer accept exactly the grammar and stop at the first wrong token? Is the value what the text denotes, less what a callback rejected? | holds |
| `json_binary` | Is every value at a limit read back? Is a document that is cut or extended refused, and what a damaged one is taken for a value like any other? | holds |
| `json_document` | Does `patch` do what RFC 6902 says, `diff` lead to the other value, `flatten` revert? Do `contains`, `at` and `operator[]` agree, and does an assignment leave the rest alone? | holds |
| `te_reused_id` | Does an id resolve to its own key across a restart, with the random source of the code? | violated |
| `exit_zero` | Does exit code 0 of the C++ client mean that the data was accepted? | violated |

The two violations are disagreements between the code and its own
documentation; the findings of `PROJECT.json` quote both sides.

### Observations without a run

Met while modelling; the models contain them, and the properties are stated so
that they hold all the same (a precondition names the case). Those marked (T)
TLC has shown as a counterexample of the stronger property.

The servers.

- (T) Two `generateKeys` handlers that assign to `keyList` at once
  (`trustedentity/main.go`:76) may lose or mix entries without the runtime
  noticing, and a `fetchKey` beside one assignment may miss an entry that is there:
  an id that was answered then has no key, or another owner's, with no restart.
  `ReplyIsStored`, `NoForeignKey`, `FetchedWasIssued`, `UnknownIdNeedsLostEntry`
  and `NilNeedsReuseOrRace` name the case.

restincurl. None touches the demo client, which makes one request per `Client`.

- (T) `CloseWhenFinished` ends the loop (line 893) over requests that are still
  queued; its comment (1586) promises that they are served.
- (T) A request that is enqueued between the idle check's break and
  `thread_.reset()` (740, 753) finds a thread that no longer looks at the queue.
- (T) `~Worker` (728) does not wait for a thread that has already reset
  `thread_`, but still holds the mutex; 1545-1546 says that it waits.
- When all running transfers end in one `curl_multi_perform`, a request over the
  connection limit, though not forgotten (`NoLostWakeUp`), waits until
  `select` has sat out the idle timeout of 60 s (line 1021).
- When a transfer ends in the very first `curl_multi_perform`,
  `transfers_running` is put back to -1 and a close is ignored for the same time
  (lines 919-921 and 962).
- A thread that ends by an exception or by the idle check keeps its unfinished
  requests in `ongoing_`, where they go on counting against the connection
  limit; in particular, a transfer that ends in an iteration that finds the idle
  timeout over is not read from `curl_multi_info_read` and its completion never
  runs (lines 925-934).
- (T) A second synchronous execution of a request sends an empty body, or what is
  left of one that failed half way, because `sendt_bytes_` is not reset (line
  450). `FreshBodiesWhole` asks for the whole body only of a transfer that finds
  nothing sent, and says nothing of what the others send.
- (T) A POST or PUT for which the application set no header goes out without the
  `Transfer-Encoding` header, because the list had no head when libcurl was
  given it (lines 1439 and 534); `main.cpp` uses `WithJson`, which sets one.
- (T) A builder whose `Build` threw has lost its completion (line 1448).
  `RequestAsAsked` states this and the missing header as they are: the header is
  sent exactly if the application set one of its own, the completion runs exactly
  if it was given and no `Build` threw since.

json.hpp, reading and writing texts.

- (T) A member whose value the callback rejects stays in its object as the
  discarded value that `key` put there (5701-5716), and in the place of an
  earlier member of that name (5712); 17913-17914 says that the
  parser behaves as if it was never read. `CallbackFilters`
  compares without discarded members and leaves out the texts
  where one took the place of a kept member (`KeptThenRejected`).
- `unget` of a newline goes back a line, but not to its column (7365-7371).
- A unit of UTF-16 from D800 to DFFF makes a pair with the next one, whatever
  that is.
- `indent_string` is doubled once per level, with spaces whatever the indent
  character is: other characters end after 512, and an indent step above 1024
  reads past its end (15618, 15675). The runs have steps up to the size of the
  string, where neither happens.

json.hpp, binary formats.

- (T) `to_cbor` writes a binary value's subtype behind the tag byte 0xD8 (13128),
  which `from_cbor` with its default tag handler refuses (8467-8471); 24066-24067
  says that it reads any output of `to_cbor`.
- The largest length (2^64 - 1) of a CBOR string, array or object is taken for an
  indefinite one; a negative number of CBOR below -2^63 wraps around.
- A chunk of an indefinite CBOR string may itself be an indefinite string.
- The sizes in a BSON document are not looked at, the terminator of a BSON
  string may be any byte, and a document that ends right before its last
  terminator gives a discarded value and no exception.
- A negative length of a UBJSON string is an empty string.
- A type byte 0 behind `$` in a UBJSON container is taken for no type at all (9666, 9820,
  9883): the elements are read with markers of their own.

json.hpp, pointers and patches.

- (T) `add` below a number or a string reaches `JSON_ASSERT(false)` (24901) instead
  of an exception.
- (T) `flatten` of an object whose first key is `"0"` is read back by `unflatten` as
  an array (24729-24732); this is the precondition of `FlattenReverts`.
- `add` creates the parents that are missing and makes objects of null parents,
  where RFC 6902 has an error; `remove` below a number is ignored.
  `PatchFollowsRfc` judges only the operations that the RFC gives a result for.
- A one-character token that is no digit throws `std::invalid_argument`, which is
  no exception of the library; `contains` returns false where its comment has
  the parse errors 106 and 109.

### Bounds, and why they are enough

- Three owners in `trusted_entity` and `application`: two that race and a third
  whose state the race might harm. Two in `application_restarts`, one of each
  kind: they race with each other, across restarts of both servers.
  One call of each kind per owner is not a bound but what the programs do.
- `MaxTERuns = 2`, `MaxAERuns = 2`, except in `application`: one restart separates ids and results of two
  runs. Invariants speak of a handler's run and the current one, so that further runs add
  no new relation; the proofs have no such bound.
- `application` stops only the trusted entity from outside
  (`AEMayStop = FALSE`), so that every fall of the engine is its own, and does not
  start it again (`MaxTERuns = 1`); `application_restarts` stops and starts both.
- `MaxFetches = 2` in `trusted_entity`: one fetch beside an assignment, another
  after it. Where the engine is part of the run, it alone makes fetches.
- `Requests` (3), `MaxConnections` (2) and `Callers` (2): the queue exceeds the
  room by one, and a batch can fail in the middle. The requests are numbers
  and submitted in their order, which leaves out only renamings.
  In `client_program` there is one request by construction and `MaxConnections`
  is the code's 32.
- Guards that only bound the model: `Execute` makes each request once, and
  `Close` and `CloseWhenFinished` are called while they change something
  (`~abort`, `~closePending`); repeating them would only signal again, which
  `Execute` does as well. `WaitForFinish` is called when there is a thread to wait
  for.
- `request_builder`: a body of 3 bytes read in pieces of at most 2 has a
  shorter last piece; 2 headers and 3 handlers let every setter be repeated,
  and 2 transfers let the second find what the first left behind. The seven
  request types are all there.
- The pipe is one bit: `WasSignalled` drains it.
- `json_text`: integers have 8 bits, floats 6, `string_buffer` 20 bytes (a
  little more than the 13 the code wants free) and `indent_string`
  4, so that every limit is reached by short texts. Seven alphabets, each of
  the bytes at the edges of one part of the scanner, give every text of up to 4
  to 6 bytes (14 for `\u` escapes, where `due` leaves few choices); longer texts
  only repeat what a token or a piece of a string begins with. Every float of 6
  bits goes through Grisu2; the powers of ten come in steps of 2 where the code
  has 8, and all inequalities the widths must satisfy are `GrisuAssumption`.
- `json_parser`: every sequence of up to 9 tokens where the value is built,
  with or without a callback (5 for the acceptor and the calls that are not
  strict, which share the machine): three containers inside one another, or an object of two members.
  The literals and numbers go through one branch; two strings and an infinite float stand for them.
- `json_binary`: numbers on both sides of every bound of 5 to 64 bits, strings,
  arrays and objects on both sides of the bounds of a length up to 256, nesting to depth two,
  every option of UBJSON; documents of at most 12 bytes are damaged, at any
  place, by the bytes that begin some type; longer ones are only read whole.
  Lengths of four and eight bytes only come from damage.
- `json_document`: documents of up to four values with keys that look like
  indices, are empty or need escapes; pointers of up to two tokens and patches of one operation,
  right and wrong ones (longer ones are those that `diff` makes); one change,
  since the properties speak of every value there is.

### Fairness

`application_restarts`: weak fairness of every owner, and of the handlers of every
owner at both servers: the operating system and the Go scheduler run what can
run. Nothing makes anyone stop or start a process, and nothing makes the Go
runtime notice a race on the map.

`rest_client`, `client_program`: weak fairness of the worker loop and of
calls that have begun; weak fairness of `Expire` (time passes); strong fairness
of `Ends(r)`: a transfer that is performed again and again ends, since
`RequestBuilder` gives each a time limit (10 s, line 1495). No application thread is
obliged to make a new call.

`json_text`: weak fairness of the lexer's step: a sequential program runs on.
`ScanReturns` needs nothing of the input but that it ends, if only in an end of
file.

Deadlock is checked in the runs of the protocol: where a system may stop (all
clients exited, all calls returned) a named stuttering action says so. A call of
`json.hpp` ends, and with it the behaviour: those runs do not check for it.

## 4. Proofs

The theorems hold for any set of owners, threads, requests and tokens, any size of the
bounds and any number of restarts. They assume the named ASSUMEs on the
constants, and where a theorem needs more its statement says so: `FreshSeed` for
`FreshIdsNeverForeign`, `~CurlMayFail` for `RefinesHttpCall`. Every
safety property that the passing runs of the protocol and of restincurl check is
also a theorem.

| Module | Extends | About |
|---|---|---|
| `TrustedEntityProofs` | `TrustedEntity` | the key store |
| `PPAnalyticsProofs` | `PPAnalytics`, `TrustedEntityProofs` | `clientData`; ids and keys on their way between the parties; `Tally` |
| `WorkerProofs` | `Worker` | lemmas: each section of the event loop keeps `WorkerInv` |
| `RestClientProofs` | `RestClient`, `WorkerProofs` | any use of a `Client` |
| `ClientProgramProofs` | `ClientProgram`, `WorkerProofs` | the use of it by `main.cpp`, and `HttpCall` |
| `RequestBuilderProofs` | `RequestBuilder` | handlers, options, bodies |
| `JsonLexerProofs` | `JsonLexer` | UTF-8 |
| `JsonParserProofs` | `JsonParser` | the grammar of JSON texts; the handlers' stacks |

`TrustedEntityProofs`. None of the properties of an id is inductive. `TEInv` adds:
a handler at work belongs to the current run (`HandlerRuns`); an id comes from
the draws of its run, or equals the number of its key with a fresh source
(`IdsDrawn`); ids of handlers of the current run differ (`IdsDiffer`); what was
stored is still there unless the map is torn (`StoredStays`); every entry of `keyList` goes back to a
handler (`EntriesIssued`). `IdsDiffer` is what keeps one handler's `EndStore`
from overwriting another's entry, and needs `IdsDrawn` for the next draw. From it:

- `TETypeCorrect`: `TESpec => []TETypeOK`
- `IssuedIdResolves`: `TESpec => []ReplyIsStored`, whatever handlers run at once,
  as long as no two assignments overlapped in this run
- `FreshIdsNeverForeign`: with `FreshSeed`, `TESpec => []NoForeignKey`
- `FetchedKeyWasIssued`: `TESpec => []FetchedWasIssued`

`PPAnalyticsProofs`. `EngineInv` says why a result survives: a handler between
load and store that nobody overlapped is alone and its copy is current
(`LoadedAlone`), and a written result stands at one place in `clientData` and in every
copy loaded since (`WrittenKept`). `RacedSlices` shows that a raced store keeps
the elements that were loaded. Every action of the composition is
mapped to a step or a stutter of each party, which gives

- `AppTypeCorrect`: `Spec => []TypeOK` (proved, so that no run repeats it)
- `LossOnlyByRace`: `Spec => []LossNeedsOverlap`

The second part follows the calls. What a handler of the engine holds came in replies of other
parties, which may have given up or restarted since. `Chain(o)` says for each
call on behalf of an owner what its two ends share: the owner has the id and
key that were issued to it or nothing (`OwnerHas`), the engine has what the
owner posted (`EnginePosted`) and what its own call brought (`EngineFetched`),
and the trusted entity answers without the key it issued only after a
restart or by a race on `keyList`, and with another key only if an id was drawn
again or the map was torn (`FetchAnswers`, which rests on `IdsDrawn` and `EntriesIssued` of
`TEInv`). From it, for `Spec => [](...)`:

- `PostsFitIds`: `PostedUnderIssuedKey`
- `UnknownOnlyWhenLost`: `UnknownIdNeedsLostEntry`
- `NilOnlyByReuseOrRace`: `NilNeedsReuseOrRace`
- `HeardOwnersCount`: `HeardIsCounted`
- `EngineFallsOnlyAfter`: `EngineFallsWithTrustedEntity`

The third part is the refinement of `Tally`, step by step: `LoadedAlone` makes a store
the append of one result to everything stored before, the chain makes that
result the owner's own (`OwnResult`), `WrittenKept` has it there when the reply
leaves, and `EngineRuns` leaves nothing pending at a restart. `Calm` is the one
precondition; once false it stays false (`CalmBefore`).

- `ImplementsTally`: `Spec => CountsAsTally`
- `CountedOnce`: `Spec => [](Calm => T!EachOnce)`: nobody is counted twice

`WorkerProofs`, `RestClientProofs`. `NoLostWakeUp` speaks of the moment before
`select` only; `LooksAtQueue` says how the loop remembers a waiting queue at
every section before that (by the byte in the pipe, `pending` or `doDequeue`),
and `DequeuesFirst` when `doDequeue` is set. `OnePlace` needs to know when
messages of libcurl are unread (`AllMessagesRead`), and that a new thread finds
nothing running of the last one (`ThreadRuns`, `NoTransferLeft`). `ClientInv`
adds that the worker knows exactly the requests that were submitted, so that a
new one is new to it. For `Spec => [](...)` of `RestClient`:

- `ClientTypeCorrect`: `TypeOK`
- `LimitKept`: `ConnectionsBounded`
- `WakeUpsKept`: `NoLostWakeUp`
- `CompletedOnce`: `OnePlace`
- `RequestsKept`: `NothingLost`

`ClientProgramProofs`. `OneThread` says that `Execute` starts the only thread and
that the function joins it or saw it end, which gives

- `ThreadEndsFirst`: `Spec => []NoThreadLeft`

For the refinement the worker must not end before the completion ran. `Carried`
says where the request is until then (queued before the thread's first look,
transferred and counted in `transfersRunning`, or its message about to be read)
and that the idle timeout has not passed. Then

- `RefinesHttpCall`: without errors of libcurl, the first states are first
  states of `HttpCall`, and every step is one of its steps or a stutter. With
  `CurlMayFail` a worker thread may end by an exception with no completion run,
  and `HttpCall` is not what the code does; the run has the same constant. The
  other half of `KeepsPromise`, that the call does return, is liveness.

`RequestBuilderProofs`. `BuilderInv` extends what the properties say of a built or
a running request to the time before and between: nothing of a request is used
before it is built (`UnbuiltUnused`), what `Build` told libcurl is what the
builder holds (`AskedWhenBuilt`), a completion moves from the builder to the
request (`CompletionKept`), `sendt_bytes_` counts what was sent since the transfer
began at `transfer.from` (`SentInOrder`),
and the default buffer has pieces of the last transfer only, none between
transfers (`BufferOfRun`). For `Spec => [](...)`:

- `HandlersStayAlive`: `HandlersAlive`
- `AskedSurvives`: `RequestAsAsked`
- `FreshBodiesStayWhole`: `FreshBodiesWhole`

`JsonLexerProofs`. UTF-8 is defined here as RFC 3629 has it, by the arithmetic of
code points (`Spells`), and a text as a member of the least set that has the
empty text and grows by one code point (`Utf8Strings`); so no induction is
needed.

- `AcceptsUtf8`: after a first byte, `scan_string` accepts exactly the bytes that
  make it a code point.
- `TranslatedSpells`: what it puts for an escape is the code point's UTF-8.
- `StringsAreUtf8`: `Spec => []StringTokensAreUtf8`, for any source: every string
  token is UTF-8. `LexerInv` carries the two through the scan: where a code
  point is under way, any bytes that are due complete it (`StringSoFar`), and a
  `\u` escape is worth less than 2^16 whatever its digits, with a high surrogate
  before the second one of a pair (`EscapeSoFar`).

`JsonParserProofs`. The grammar of RFC 8259 over tokens: `Values`, `Elements` and `Members`
are the least sets of words that its productions close, at any depth; so again
no induction is needed. That the parser keeps one bit for each open
container, where the grammar nests, is what has to be bridged. `Closings` has
the pairs of a stack of such bits and a word that closes all of it, also a
least set, and `FollowOf(pc, states)` says from it which words may follow
wherever the parser is. The inductive invariant `ParserInv` says that what was read
goes on to a text of the grammar with exactly these words (`Followed`), that what was
accepted is a text, that what was refused was refused at its `Fault`, and what the caller is told.
`AcceptsJson` alone is not inductive: that the tokens begin some text does not
say how the next one must fit the stack. The grammar part of `AcceptsGrammar`, which a run checks by deriving
the texts, is proved in this form:

- `AcceptsExactlyJson`: `Spec => []AcceptsJson`: what is accepted is a text, what
  is being read begins one, and an error comes at the first token after which
  no text can come
- `TellsExactlyJson`: `Spec => []TellsJson`: so it is told by a strict call

`HandlerInv` ties the stacks of the handlers to the parser's: `ref_stack` has an entry for
each open container (`Depth` counts the one whose first token is due),
`keep_stack` one more; within a container that is not kept nothing is kept
(`AlignedAt`); and while the value of a member is due, the answer to its own key
is on top of `key_keep_stack` (`KeyOnTop`), although rejected members leave their answers
below, so that no simple count holds of that stack.

- `HandlersFollow`: `Spec => []StacksAligned`, for every callback: `back()` and
  `pop_back()` never meet an empty stack, and no event takes the answer of another

Only model-checked:

- the liveness properties `EverybodySettles`, `ClosedThreadEnds`, `ScanReturns` and the
  liveness half of `KeepsPromise` (liveness under fairness and ENABLED are out of
  the prover's reach);
- what value a text or a document stands for: `ValueDenotesText` and `CallbackFilters` of
  `json_parser`, and the properties of `json_text`, `json_binary` and
  `json_document`. They compare a recursive program with a recursive meaning over
  documents of any depth (or numbers of any width), and the prover has no
  induction for that; nor does it take the RECURSIVE operators of these modules.

## 5. Not modelled

- `homePage` of both servers: no state.
- The arithmetic of the scheme, logging, libcurl, net/http, Go's `encoding/json`:
  external, taken by what the code sees of them.
- Of `json.hpp`: constructors, element access, iterators, comparison, the
  conversions from and to C++ types and `ordered_map`, which forward to the
  containers of the C++ library; `strtod` (the lexer's floats are their texts);
  exception texts, except for which exception it is; the SAX interface for
  handlers of the user; input by streams and iterators, which only hands over bytes. The Hedley macros
  at its head have no behaviour.
- `LogManager` of logfault: a list of handlers behind a mutex, of no effect on
  the rest.
- Replies are complete or the call fails; both servers send short replies.
- `GetNumActiveRequests`, `IsDone`, `HaveThread`: they change nothing and are not
  called in this repository.
- A full pipe in `Signaler::Signal` (see the plan).
- A second `Execute` of one builder, and setters without an assertion
  (`IgnoreIncomingData`, `SetReadHandler`, `SetWriteHandler`) after the
  request was built; errors of `curl_easy_setopt`.
- Build files, manifests, `simple_app`: no run-time behaviour here.

## 6. Plan

1. `RequestBuilder` joined to `Worker` where it enqueues, with a second
   `Execute` of one builder.
2. A pipe with a capacity, so that `Signal` can fail after the push.
3. What the parser builds, as a theorem: a relation between words and values,
   as a least set like the grammar, in place of the recursive `Meaning`.
