# Models and proofs for fywaf

fywaf is a small web application firewall: a reverse proxy that asks a WASM
module about every request, and a WASM module of its own that answers with the
rules of the OWASP Core Rule Set (CRS). This directory holds TLA+ models of it,
the TLC configurations that check them and the proofs that TLAPS checks. Paths
below are relative to the root of the repository.

Each module can be parsed with SANY, each configuration run with
`tlc -config X.cfg M`, and each `*Proofs.tla` checked with `tlapm`.
`PROJECT.json` maps every definition that models code to its lines.

## 1. The system

| Part | Code | State it keeps | Operations |
|---|---|---|---|
| Process start | `src/main.rs` | none but locals | read, validate, load, bind, serve |
| Configuration | `src/config.rs` | an `AppConfig`, immutable once read | `from_path`, `validate` |
| Policy engine | `src/engine.rs` | the vm and the parameters of each profile, immutable once loaded | `from_config`, `decide` |
| WASM host | `src/wasm/` | compiled modules by profile; one store and instance for each call | `load_module`, `decide` |
| Listeners and connections | `src/proxy.rs` 30-231 | a listener per site, a `JoinSet` of accept loops, a detached task per connection | `run`, `accept_loop`, `handle_connection` |
| Request reader | `src/proxy.rs` 250-354 | the buffer of one connection | `read_http_request` |
| Upstream request | `src/proxy.rs` 356-434 | none | `build_upstream_request` |
| CRS guest | `crs-engine/src/lib.rs` | request and result buffers, a cache of the rules, all of one instance | `get_req_ptr`, `decide`, `get_result_ptr` |
| CRS evaluation | `crs-engine/src/engine.rs` | locals of a loop | `evaluate`, `rule_matches` |
| CRS operators, transforms | `crs-engine/src/operators.rs`, `transforms.rs` | none | `matches`, `apply_transforms` |
| CRS parser | `crs-parser/src/parser.rs` | locals of a loop, an open chain | `parse_conf`, `parse_secrule`, `parse_actions` |
| Rule embedding | `crs-engine/build.rs` | none | concatenates parsed files |

How they interact. `main` reads and validates the configuration, loads the
modules (each is tried out by instantiating it) and calls `run`, which parses
the upstreams and binds the sites one after the other; the accept loop of a
site is spawned, and serves, as soon as its own address is bound. An accept
loop spawns a detached task for each connection. That task reads a request,
calls the engine **synchronously**, so it holds a worker thread until the
module has answered, and then writes a block response or relays the request to
the upstream and the upstream's answer to the client. When any accept loop ends
`run` returns, `main` returns, and the runtime drops the tasks wherever they
are suspended. The engine and the guest share the guest's memory: the guest
says where its request buffer is, the host writes the JSON there, the guest
returns the length of its answer and then says where the answer is.

What is hard. Tasks interleave, fail at any `.await` and are dropped at any
`.await`; one site's failure ends all; peers may be silent for ever; a head and
its body arrive cut anywhere; sockets hold so much and no more, and the request
is written in full before the answer is read; a guest may loop, trap, return any pointer and
grow its memory in any call; the rules jump over one another. `PROJECT.json`
lists each of these hazards at its line, with the properties that cover it.

What makes each part correct:

* **gateway**: nothing of a request reaches an upstream unless the module of
  that site allowed that request; a client is given the block response or the
  upstream's answer, never parts of both; "forwarded" means complete; silent
  peers hold up neither the other connections nor the end of the process;
* **relay**: gateway and upstream wait for each other for ever only if neither
  the rest of the request nor the answer has room; else the client gets the
  whole answer;
* **reader**: how bytes are cut into reads changes no outcome, but for a head that
  ends beyond the limit by one piece at most, which may be accepted or not; the body is
  the stretch of bytes after the terminator; the limits are overrun by at most one read;
* **host**: only memory that is there is touched, growth is minimal, refusals
  are deserved, fuel is bounded and a call always ends;
* **upstream request**: the upstream is asked for what the module was shown, with a
  header that gives the length of its body, and no other header has two values;
* **evaluation**: block exactly if the rules in force reach the threshold, and
  name the first of them that scores;
* **condition**: one matching value decides; an excluded header does not, but by its
  cookies or by name;
* **text**: an operator is given what was written, once for each decoder,
  whatever code points it was spelled by;
* **parser**: the rules that are embedded are those written, each with its own operand,
  actions and chain, but for named losses at the ends of texts, beyond ASCII and where a
  rule line is broken;
* **guest**: what was not decoded or not evaluated is not allowed;
* **start**: no socket is opened before everything the sites need is there.

## 2. The modules

| Module | Models | Extends |
|---|---|---|
| `WafEngine` | `WafEngine::decide` as a function of what the module is shown | |
| `Waf` | abstract specification: what the gateway promises | `WafEngine` |
| `Proxy` | process, listeners, tasks and relaying | `WafEngine`; instantiates `Waf` |
| `Relay` | one exchange over sockets of limited room | instantiates `Proxy` |
| `HttpReader` | `read_http_request`: how bytes become a head and a body | |
| `UpstreamRequest` | one request: the head's lines, what the module is shown of them, `build_upstream_request` | `HttpReader` |
| `WasmVm` | one `WasmVm::decide` with an arbitrary guest | |
| `CrsParser` | the build script and `parse_str`: from symbols on lines to embedded rules | |
| `CrsCondition` | one condition: `parse_variable`, `parse_operator`, `condition_matches` | |
| `CrsText` | forms, cookies and transforms: from a request's text to an operator's values | |
| `CrsEngine` | the loop of `evaluate` | |
| `CrsGuest` | one `decide` of the CRS module | `CrsEngine` |
| `Startup` | from the command line to the first listener | |
| `MC*` | small instances for TLC | |
| `ProxyProofs`, `RelayProofs`, `HttpReaderProofs`, `UpstreamRequestProofs`, `WasmVmProofs`, `CrsGuestProofs`, `CrsRuleProofs`, `StartupProofs` | theorems | their module, TLAPS (`CrsGuestProofs` is about `CrsEngine` too, `CrsRuleProofs` about `CrsParser`, `CrsCondition` and `CrsText`) |

The modules fit together at their edges. Where `Startup` reaches phase `run`,
`Proxy` begins (`SitesAreServed` gives what `ProxyAssumption` takes for granted:
each site has a profile that is loaded). `Proxy!ReadRequest` is what
`HttpReader` ends with. `WafEngine` takes the module's answer as the constant
`Verdict`, a function, since every call runs in an instance of its own and the
loaded modules never change; `WasmVm` says how that answer, or a failure, comes
about, and that it comes. `CrsGuest` is one guest that `WasmVm` admits.
`UpstreamRequest` puts the reader in place and goes on with what it has read, up to
what `Proxy!SendPart` sends. `Relay` is one connection of `Proxy` from there to its
end, with sockets that can be full. The rules of `CrsEngine` are what `CrsParser` ends
with; its `holds` is the set of the conditions for which `CrsCondition` ends with
*match*. The strings that `CrsCondition` has as constants are what `CrsText` ends
with.

### Proxy.tla

A step is what a task does between two points where it can be suspended,
dropped or failed by the operating system, that is, its `.await`s.

* `proc` is `main`: *starting* while the sites are bound, *serving* in
  `join_next`, *stopping* while the runtime shuts down, *exited*. `listener`
  is each accept loop. `Bind`, `BindFails`, `RunReturns`, `AbortListener`,
  `DropTask` and `Exit` are `run` and what its return sets off.
* `stage` is where the task of a connection is, `request` and `decision` are
  its locals. `ReadRequest`, `Decide`, `WriteBlocked`, `Connect`, `SendPart`,
  `SendRest`, `CopyRead`, `CopyWrite` and `CopyEnds` are `handle_connection`;
  `ConnError` is the `?` at each of its `.await`s.
* A connection that is established but not accepted is in the kernel's
  backlog; it is reset when its listener closes.
* `WorkerFree` holds unless every worker thread is inside a module. `run` is the
  root future: the main thread drives it and it needs no worker.
* `UpstreamReply` and `UpstreamEof` are the environment: an upstream may answer
  and close before it has read the request.

Abstracted: heads and bodies are opaque values; a response is a number of
pieces; sockets hold any amount (`Relay` has those that do not); the block response is written
in one step, though a failing `write_all` may leave part of it written; a panic of
a task is like its `ConnError`; the log is left out. `ImplementsWaf` is the
refinement: `Asked`, `Reached`, `toClient` and `Closed` are the variables of
`Waf`, in which a connection is asked about once, blocked by the gateway
alone or forwarded, answered in order, and closed.

### Relay.tla

A direction of a connection holds a number of units, what was written to it and
not yet read: `sent - taken` towards the upstream, `replied - pulled` back,
`pulled - given` in the buffer of `copy`, `given - received` towards the client.
`Send` is a write of `write_all`, and only when all is sent does the task relay:
`CopyRead`, `CopyWrite`, `CopyEnds`. `Fail` is the `?` of a write or read on a
connection that was reset. The upstream answers when it has read `early` units of
the request, reads on while it answers (`duplex`) or not, and reads the rest
before it closes (`drains`) or not; the client reads, or leaves. A client that sent
more than it announced (`surplus`) leaves bytes unread in the gateway's socket,
and the kernel answers their closing with a reset (`SurplusResets`).

The map `P` makes of these numbers the variables of `Proxy` with one
connection; `ImplementsProxy` says that limited sockets add nothing but waiting.

### HttpReader.tla

The client's bytes are a `stream`: a head of some length, the terminator, a
body, possibly more. A read returns any number of bytes up to the room it is
given. `ReadHeader` is the first loop of `read_http_request` together with the
checks that follow it, `ReadBody` the second loop, `RejectHeader` the limit on
the head, `ReadEof` a read of no bytes. Whether the head's lines parse is one
flag of the stream, and its announced length is given; `UpstreamRequest` says
where they come from. `OutcomeDeserved` compares each outcome with `Deserved`, which
knows the bytes and no reads. The limit on the head is outside of it: a head that ends
beyond `MAX_HEADER_SIZE` is accepted or refused as its last pieces happen to be cut
(head 6, limit 8: 5 and 5 bytes are accepted, 5 and 4 and 1 are not), and the property
says within which bounds.

### UpstreamRequest.tla

`RequestNext` is the reader (`Reading`, which adds `headers` when the head's end was
read), then `ShowToModule` and `Build` or `TooLarge`. `HeadAccepted` is each `bail!` of
the parser but the reader's own. A path is a sequence of characters; a header line is a
name and a value. A length is a text: `NumberIn` is `parse::<usize>`, which reads `+2`
and `02` as well as `2`, `Decimal` what the gateway writes, and the client's text is
copied as it came. `text` of a stream are the lengths at which what follows the head is
UTF-8: a body of another length is not shown to the module (`Meta`) and is forwarded.
`HeadersOf` is the `HashMap` into which lines are inserted. `Copied` and `Own` are two
sets because the code writes lines without looking whether one is there. What may come
with the head beyond the announced body is the reader's.

Left out: method and version, which are copied; the case of header names, which the code
folds; the limit on the size counts elements in place of bytes; that a head is UTF-8
counts as part of `words`.

### WasmVm.tla

`pc` is the guest's function that runs or the host's code that is next. While a
guest function runs it may burn fuel and grow its memory (`GuestRuns`), trap
(`GuestTraps`) or return any number of `Returns`. `CheckSize`,
`PlaceRequest`, `CheckLength` and `ReadResult` are the stretches of the
host's code between two calls of the guest, each with all its early returns.
Sizes are the code's own: pages of 65536 bytes and limits of 65536.

### CrsParser.tla

A physical line is a sequence of symbols: the characters that cut it (quote,
apostrophe, comma, space, backslash) and the words between them. A file
is a sequence of directives; a directive has its lines and, apart from
them, what it says, which no action looks at. `LogicalLines` is
`join_continuations`. `Escaped`, `Opening`, `Closing` and `BlockStart` find the quoted
actions as `parse_secrule` does, `VariablesIn` and `Operator` what is before them;
`Cut` is the loop of `split_actions` and `Actions` all of `parse_actions`, with the
defaults of what is missing. The loop of `parse_str` has an action for each way
through its body, and the loop of the build script one for each outcome of a file.

Two properties share the work. `LinesAreRead` is about the text: the logical lines of
a file are its directives, and each reads as what its directive says (`ReadsAs`).
`RulesAsWritten` is about the loops: the embedded rules are `SaidUpTo` the files so far,
which reads what the directives say and has no stack. A rule is a link if the directive
before it that counts is a rule with `chain` (`IsLink`); any other rule, and each marker,
is a rule of its own, with the links that follow it (`RuleAt`).

What the properties grant the code is named in three places. `AsKept` says what a rule
loses of its text: `split_actions` takes the bytes of what is not ASCII for characters
(`Mangle`), so a message, a tag or a skip with an accent is embedded as two characters,
and a skip to such a marker never ends; `trim_end_matches` takes an escaped apostrophe at the end of a
message, or an escaped quote at the end of an operand, with the quotes, and leaves its
backslash; operands and skips lose the blanks at their ends. `Counting`: a rule line that does
not parse (*broken*) does not count, so a chain goes on past it, and if it was the chain's
last link the next rule, which may stand alone, is taken for a link. `SaidBy`: a file that
is missing says nothing.

Left out: the text of the warnings, and the upper and lower case of the names of
variables, operators and transforms, which the code folds. The case of directives and of the
keys of actions counts in the code, and the instance writes them as they must be.

### CrsCondition.tla

`VariableOf` and `ArgumentOf` are what the parser makes of a condition,
`ValuesOf` is `resolve_variables`, and `Match`, `Miss` and `NoMatch` the loop of
`condition_matches`, with the values in any order, which is more than the
code does. A string is a value of which only is known what the constants say:
its number, its words, which patterns match it, what the transforms make of it.
The strings of the arguments, path and body are given with the request; headers are
looked up by the model, and cookies are what `CookiesIn` finds in the value of the
`cookie` header. `Alias` are the two names that stand for another; a variable that is not
known, or has a selector it cannot have, is taken for the header `HeaderCalled`. Names of
headers and selectors are in lower case, to which the code folds both sides.

### CrsText.tla

A text is a sequence of code points. `Resolved` is what `resolve_variables` makes of
a form, a cookie or the body: fields are split, empty ones passed over, forms decoded.
`Take` is one turn of the loop of the transform at work: `Written` says, for each
transform, what it writes for the unit it is at and how many units it takes;
`NextTransform` and `NextValue` are `apply_transforms` and the walk over the values.
The decoders of escapes go through UTF-8 bytes, the others through characters.

What was meant is given with each input, and `EncodedIsDecoded`, `FormsAreRead` and
`WordsAreKept` compare it with what the operator gets. `Spellings` are the ways to write
a character in the escapes of a decoder by its code point, `Broken` ends that look like
the beginning of an escape and are none; `Shortened` are those of `js_decode` that lose
their backslash all the same (`\u003`, `\x3`), and `Bytewise` the ways to give a
character beyond ASCII by its UTF-8 bytes, which decoders of bytes make one character
each of: there the meaning is those bytes, as the code has it. `TransformsDeliver` and `AdvancesInText` need no such reference: the first
is about the values an operator gets and the last transform they went through, the
second about each turn of a loop.

### CrsEngine.tla and CrsGuest.tla

`CrsEngine` has one action for each way through the body of the loop of
`evaluate`: a marker, a rule passed over, a pass rule that matches, a block rule
that matches, the end. A condition (variables, transforms and operator of a
rule or of a link chained to it) is one value and `holds` is the set of those
the request meets. `VerdictOfRules` compares the loop with a definition that has
none: `InForce(active)` says which rules are in force, by naming which rule
silences which. Rules of id 0 are markers in the code, and so they are
here; that includes rules whose id could not be read. `MaxScore` stands for
`u32::MAX`.

`CrsGuest` puts around it, and is checked together with it, the decoding of the request, the parameters with
their `min(4)` and their `as u32`, the two states of the rule cache, the
decision and the copy to the result buffer.

### Startup.tla

The steps of `run_waf`, with every check of `validate`, the loop of
`from_config` with `load_module` in it (an instance runs the module's start
function under fuel, then its exports are looked up), and `Upstream::parse`.
What is found at a module's path is one of eight kinds of file.

## 3. The runs

| Run | Question | Bounds, and why they are enough |
|---|---|---|
| `proxy` | Is what is forwarded allowed, what is answered unmixed, what is "forwarded" complete, and is every step one of `Waf`? Does a connection end whatever the others do, and does a failure end the process? | 2 sites under 2 profiles whose modules disagree on every request, 2 connections, 2 pieces, 1 worker: two connections at one site or at two, one in the module while the other waits; two pieces give order and a cut |
| `relay` | When do gateway and upstream wait for each other for ever, does the answer arrive otherwise, and is every step one of `Proxy`? | requests of 1-4 units, answers of 0-4, beginning after 0-4 units of the request; 2 units of room to and from the upstream and in `copy`, 1 to the client: both directions overfull, only one, neither |
| `upstream_request` | Does any cut of the bytes change the outcome or the body? Is the upstream asked for what was inspected, and with which lengths and values of headers? | heads 0-12 around a limit of 8, bodies 0-5 around a limit of 4, pieces of 5: the terminator is cut at each place, the body is shorter and longer than a piece, up to two bytes are left over; every path of up to 4 of "/", "?" and a letter with one header; up to two of 17 lines, and three of four, with few paths; lengths `2`, `02`, `+2`, `0`, `00`, too long and unreadable, a byte more than announced, bodies that are UTF-8 and not |
| `wasm_call` | Can any guest make the host touch what is not there, refuse wrongly, burn without bound or hang? | true page size; pointers and lengths negative, zero, and one below, at and above one, two and three pages; 1 to 3 pages; 2 units of fuel |
| `wasm_fuel_claim` | *violated*: "Fuel limit per request" | as `wasm_call` |
| `crs_parser` | Is each line read as it says, and are the embedded rules those of the files? | single rules with every message and operand of two pieces out of letter, comma, space, escaped quote, escaped apostrophe, escaped backslash, an accented letter (an operand begins with no space), with and without a letter before and behind, on one line, on two, and with a line for each action; with and without each score, skip and chain; all files of up to 4 of 10 directives; pairs of files of which one may be missing: chains open at each kind of line and at the end, three kinds of broken rule lines, continued comments |
| `crs_condition` | Does one matching value decide, and no excluded header? | every three of 13 variables, cookies and an exclusion of the cookie header among them, 13 operators, plain and negated; requests with and without each header |
| `crs_text` | Is an operator given what was written, as its last transform promises it, and does every transform end? | 9 characters, alone and some of them in pairs, in each spelling of 4 decoders, with the tails of `Broken` and `Shortened`; two characters beyond ASCII by their bytes; every two decoders, one layer for each; blanks and letters up to 5; forms and cookies of every two fields, with and without name, value and equal sign in the value |
| `crs_call` | Does the loop block exactly what the rules in force say, and is anything allowed that was not decoded and evaluated? | all sequences of up to 4 of 7 kinds of rule (a marker, a rule without id, a skip to a marker, one to no marker, block rules of two levels, a chain) under thresholds 0, 5 and 10 = `MaxScore`, so saturation occurs; up to 2 rules under every two of 9 parameters, absent, small, and past the largest u32; requests and rules that do not parse |
| `startup` | Is a site ever served without what it needs, or refused without cause? | up to 2 profiles and 2 sites, every conflict of two entries and every bad entry, every kind of file at two paths |
| `crs_decode_claim` | *violated*: 400 only for "malformed (non-UTF-8 / non-JSON) requests" | as `crs_call` |
| `crs_phrases_claim` | *violated*: "the pre-loaded newline-separated phrases" | as `crs_condition` |

Deadlock is not checked: each of these systems stops (the process exits, a call
returns, finitely many connections have been served).

## 4. What the runs showed

All the safety and liveness properties hold. Three statements of the comments do
not, each shown by a run:

1. `WASM_FUEL_PER_CALL` is called a limit per request (`src/wasm/vm.rs` 9), but `decide`
   sets it again before `get_result_ptr` (201), so a request may burn twice as much
   (`FuelPerRequest`). What holds is `FuelBound`: one allowance for what ends with
   `decide`, one for `get_result_ptr`.
2. The guest's 400 is said to be for requests that are not UTF-8 or not JSON
   (`crs-engine/src/lib.rs` 214). `Request` borrows its strings, which serde_json
   refuses for a string with an escape, so a well-formed request with a quote or a
   line break in its body is answered 400 too.
3. The operand of `@pmFromFile` is said to hold the phrases of the file
   (`crs-engine/src/operators.rs` 115); nothing reads the file, and values are
   searched for its name.

More are worth a correction of the comment; the models have what is true in
their place. `evaluate` is said to return the rule that
makes the score reach the threshold (`crs-engine/src/engine.rs` 31); it returns the
first block rule that matched (109), which may have contributed less, and that is
what `VerdictOfRules` says of it. Unsupported operators are said to be a non-match
(`crs-parser/src/lib.rs` 7); negated, they match every value (`Matches`).
Transaction variables are said to resolve to the empty string "so numeric
comparisons (e.g. @lt 1) treat them as 0" (`crs-engine/src/engine.rs` 288);
`parse_i64` does not read it as a number, so no comparison matches (`Matches`), and a
rule that skips by paranoia level (`TX:DETECTION_PARANOIA_LEVEL "@lt 1"`, as in the
test at `crs-parser/src/parser.rs` 635) never skips. `utf8_to_unicode` is said to
write `\uXXXX`; beyond U+FFFF it writes five or six digits (`Utf8ToUnicode`), which
`jsDecode` reads as another character.

Some behaviours of the code that the models keep are worth knowing.

* The client's `Content-Length` is copied, and the gateway adds its own if the body is
  not empty. The two are the same text only if the client wrote the number as the
  gateway does (`+2` and `02` are accepted) and the body is not longer than announced:
  `OneValuePerName` and `FramedByBody` say exactly when they differ.
* When a client sends a longer body than it announced, what came with the head becomes
  body; the rest stays unread, so the client may be cut off before it has read its
  answer (`SurplusResets`).
* A body that is not UTF-8 is forwarded without being shown to the module
  (`InspectedIsForwarded` says that no other is).
* A condition that excludes the cookie header still looks into it by its variables of
  cookies (`ExclusionsHold`).
* A decision longer than the guest's result buffer is cut, and the host cannot parse it
  (`AnswerAccepted` allows it); a missing rule file only gives a warning at build time.
* An upstream that answers before it has read the request, and closes, loses its
  answer: the gateway's write fails and nothing of the answer is read
  (`AnswerArrives` sets this apart as not `Orderly`, so no property is about it).
* An upstream that does not read while it answers waits for the gateway, and the
  gateway for it, for ever, if the rest of the request and the answer are both
  longer than the sockets hold (`BackPressure`); no timeout ends it.
* A link that does not parse is dropped from its chain, which stays open and takes the
  next rule for a link if it was the last (`Counting`).
* Of rules, escaped quotes at the end of texts and what is not ASCII are not kept as
  written (`AsKept`).
* An escape `\u` or `\x` too short for its digits loses its backslash, one whose
  digits are none keeps it (`JsDecode`).

## 5. Fairness

* `Proxy!RuntimeFairness`: weak fairness of what the runtime does by itself.
  The root future is polled, tasks that are ready are run by a free worker,
  `accept` yields a connection that waits, `connect` ends (the operating system
  gives up), a block response of some hundred bytes fits a socket's buffer, the
  shutdown drops every task. `Decide` is fair because the module's fuel is
  finite: `CallEnds` of `WasmVm`.
* `Proxy!PeerFairness(c)`: what the client and the upstream of *one* connection
  owe it: send a request, take the bytes, close after the answer (the gateway
  asks for `Connection: close`). It is an antecedent of `IsolatedProgress`,
  never part of the specification, since the code has no timeouts: a silent peer
  holds its own task for good. `FailureStopsAll` does not assume it.
* `Relay!FairSpec`: gateway, upstream and client each go on if they can; that
  upstreams go on is what `AnswerArrives` is claimed under, since the gateway has no
  timeouts. Nobody has to leave, and that the client stays is its antecedent.
* `UpstreamRequest!FairRequestSpec`: the task is run and the client goes on sending.
  `ReaderEnds` is claimed only of clients that send a whole request or close.
* `WasmVm!FairSpec`: the host's code runs on, a guest function with fuel runs
  on, and traps without. That a guest function *returns* is not assumed.
* `Startup!Spec`: one task that awaits only the disk.

## 6. What is proved

All theorems are of the specification, for every value of the constants that
meets the named assumptions.

`ProxyProofs` (from `EngineAssumption`, `ProxyAssumption`, and `Conn` finite is
not needed): `TypeCorrect`, `Invariance`, `NothingForwardedUnasked`,
`ResponsesAreNeverMixed`, `ForwardedIsComplete`, `ProxyImplementsWaf`. None of the
three safety properties is inductive: that a task in *connecting* may go on to
send needs that what it holds was allowed, that the client's output is pieces of
the upstream's needs that a task relays only after the whole request was
written. `IInv` adds, for each stage, what the task holds (`HeldOK`) and what
has been written by then (`WrittenOK`). `TypeOK` itself needs `HeldOK`: `Decide`
is typed only for a task that has a request and a site. The refinement maps
each action to `Ask`, `Forward`, `Block`, `Answer`, `Close` or a stutter, and
the closing of a listener, which drops its whole backlog, to one `Close`.

`RelayProofs` (from `RelayAssumption`): `TypeCorrect`, `Invariance`,
`WaitsOnlyWithoutRoom`, `RelayImplementsProxy`, for sockets of any size and requests
and answers of any length. `BackPressure` is not inductive: that the request of an
exchange that does not fit is never sent in full needs that the way to the upstream
is never overfull and that the upstream, once it answers, reads on only if it is of
that kind (`Flow`). That somebody moves in an exchange that fits is a lemma about one
state (`SomebodyMoves`). The refinement maps a step to `SendPart`, `SendRest`,
`CopyRead`, `CopyWrite`, `CopyEnds`, `ConnError`, `UpstreamReply` and `UpstreamEof` of
`Proxy`, or to a stutter.

`WasmVmProofs` (from `VmAssumption`): `TypeCorrect`, `Invariance`,
`HostStaysInBounds`, `RefusalsAreDeserved`, `FuelIsBounded`, `GrowthMinimal`,
`ResultIsRetrievable`, for any guest, any memory limit, any length of request and any fuel. The heart
is the arithmetic of `div_ceil`: the pages the host asks for are the least that
hold the request. `IInv` accounts for the fuel (what is left and what was spent
add up to one allowance) and knows at each point which answers are still to come.
`CallIsBounded`: `StepsLeft`, the stages and the fuel still to come, is at most
`2 * Fuel + 8` and falls with every step.

`HttpReaderProofs` (from `ReaderAssumption`): `TypeCorrect`, `Invariance`,
`OutcomesAreDeserved`, `HeaderIsBounded`, `BodyIsOfStream`, `SurplusIsBounded`, for
any stream and any limits. `OutcomeDeserved` is not inductive: that a client which
closes had not sent enough needs `ReadSoFar`, what is known while reading goes
on, and that a head beyond the limit by more than a piece is never accepted needs where
the last read but one has ended. That a read of the body never takes more than the body lacks, and a read of
the head at most one piece too many, gives the bounds. `ReaderAdvances`: what is left to
do falls with every step, so a reader takes at most two steps more than bytes were sent.

`CrsRuleProofs`, of `CrsCondition` (from `ConditionAssumption`): `TypeCorrect`,
`ConditionInvariance`, `ValuesDecide`, `ExclusionsAreKept`, for any condition, request
and text function. The loop is settled by `TestedSoFar`; exclusions by a lemma about the
resolved values, `InspectedWithout`: taking an excluded header away changes none of them
but those found in the cookies (`CookiesWithout`).

Of `CrsParser` (from `ParserAssumption`): `LinesAreJoinedHolds` and `RulesAsWrittenHolds`,
for any files and any number of directives in them. The first needs that directives
have lines of their own (`AllWhole`: of the lines of a directive all but the last go on),
and is about joining only. The second needs besides that each directive, its lines
joined, reads as it says (`AllRead`). The line readers (quotes, commas, the loop of
`split_actions`) are folds over characters, which are out of the prover's reach: that a
line reads as it says is what the `crs_parser` run finds (`LinesAreRead`) for the
directives of its instance, and is not proved of others. What is proved is what the loops
make of lines that do: joining them, and keeping chains.

For the lines it is `join_continuations`: the logical lines of a file are those of its
directives, however many physical lines each takes. `LogicalLines` cuts at the ends of
lines that do not go on, an enumerated set, so the proof adds one directive after the
other (`OneRunMore`, `OneDirectiveMore`): its lines add one end, the last one, and leave
the lines before it as they were (`LinesOfFile`).

For the rules it is what `parse_str` and the build script do with lines that are read:
the chain stack against the definition without one. `Kept` is the invariant of the loop: what is kept and what is on the stack are together what
the directives up to here say, and there is a rule on the stack exactly if the last
directive that counts goes on, namely the last rule that started, with the links so far.
The specification side enumerates sets (`Ascending`); `AscendingNext` says how that
enumeration grows, and `SaidStarts`, `SaidLonger` and `SaidSame` what one more directive
adds to what is said. That a rule as parsed has one link is `RuleShape`, of the code.

Of `CrsText` (from `TextAssumption`): `TextInvariance`, `TransformsDeliverAlways`,
`TextAdvances`, for any text of any length, any values and any list of transforms.
`AdvancesInText` is the arithmetic of each decoder: an escape is only taken if it lies
within the text (`UrlFits`, `JsFits`, `CssFits`, `HtmlFits`), and what it stands for is
text again. `TransformsDeliver` is about the end of three nested loops, and `TextIInv`
says what it needs at each point of them: what is written so far is as the transform at
work promises, the value at work as the one before it did, and `spaced` tells whether
a blank was written last (`KeptPromises`); without that, two blanks could follow each
other. `TurnDelivers` is the step: what one turn appends keeps the promise.

`CrsGuestProofs` (from `CrsAssumption` and `GuestAssumption`), of the loop:
`TypeCorrect`, `Invariance`, `StopsInTime`, `LoopComputesVerdict`, for every rule set,
request, level and threshold. `VerdictOfRules` is not inductive: the loop has three variables, `skipUntil`, `blocking` and `score`, where the
declarative definitions quantify over earlier rules and sum over them. `IInv` relates
the two: `skipUntil` is a name exactly if some rule in force silences the rule
looked at next by that name (`SkipKnown`), `blocking` is the first one that scored
(`BlameKnown`), the score is the tally of the rules passed, and none of the rules before
reached the threshold (`ScoreKnown`). The proof of each step is the proof that these
relations move with `i`. That saturation at `MaxScore` changes no verdict is because
thresholds are `u32`s too (`ScoreAtHit`).

Of a call: `GuestInvariance`, `GuestTypeCorrect`, `CallComputesVerdict`,
`FailsOnlyClosed`, `AnswersAreAccepted`. A step of the loop is a step
of the call, so `GuestIInv` is `IInv` and what the call knows around it: which level and
threshold the parameters were cut to (`AsAsked`), that the answer was made of a result.

Two facts that the definitions hide are lemmas of their own. A rule set determines
which of its rules are in force, each by those before it, and there is such a set
(`SomeInForce`); without it `VerdictOfRules`, which is about all such sets, could
hold of none. And the tally, a recursive function, exists (`TallyExists`).
Both are by induction over the rules. The library's induction theorems cannot be
instantiated, so `Least` (a nonempty set of numbers has a least element) is proved from
the well-foundedness of `<`, and induction is its use on the set of counterexamples
(`UpFromZero`).

`UpstreamRequestProofs` (from `UpstreamAssumption` and `ReaderAssumption`):
`RequestInvariance`, `RequestTypeCorrect`, `WhatIsShownIsSent`, `SentIsFramed`,
`HeadersAreUnambiguous`, for paths, queries, heads and bodies of any length.
`ReaderIsPart`: what is proved of the reader holds of a request. `RequestIInv` says what
`headers`, `shown` and `out` are made of at each phase; the properties follow by what
`HeadersOf` and `Meta` compute: the header inserted last is the one kept, the path ends
at the first `?`, and a path shown, a mark and a query put together are the path that
came.

`StartupProofs` (from `StartupAssumption`): `Invariance`, `TypeCorrect`,
`AllSitesAreServed`, `RefusalHasCause`, for any number of profiles and sites.
`SitesAreServed` is about the end of two loops: `LoadedUpTo` and `ParsedUpTo` say
what each has behind it. That a profile loaded later does not take the place of one
loaded before needs that `validate` has refused repeated ids (`ValidProfiles`).
`StartupAdvances`: `StepsLeft` falls with every step, through both loops.

The assumptions are what the code's types say. `GuestAssumption`: a threshold is any
`u32` and a level a `u8` (`Levels` has at least those the parameter is cut to), the
defaults fit them, an absent decision is none of the decisions made. `UpstreamAssumption`: the
request line has a path, which `split_whitespace` never yields empty, a URL's path
begins with the slash it was found by, a `Content-Length` parses to a number or does not
parse, and what the gateway writes for a length parses to that length. `StartupAssumption`: profiles and sites are lists, URLs and files of the kinds
named.

Only model-checked:

* liveness under fairness (`IsolatedProgress`, `FailureStopsAll`, `AnswerArrives`,
  `ReaderEnds`, `CallEnds`, `StartupEnds`), which is out of the prover's reach. Of the
  last three the part that is safety is proved (`ReaderAdvances`, `CallIsBounded`,
  `StartupAdvances`): they cannot go on for ever. That they go on until they have ended,
  and do not stop half way, is what the runs show;
* `EncodedIsDecoded`, `FormsAreRead` and `WordsAreKept` of `CrsText`: they compare texts
  with the spellings that an instance is made of, by induction over the characters;
* that the lines of a single directive read as what it says (`LinesAreRead`, assumed by
  `RulesAsWrittenHolds` as `AllRead`), for the same reason.

Where a run leaves the type invariant out it is proved (`TypeCorrect`, `TextInvariance`,
`GuestTypeCorrect`).

The inductive invariants (`IInv` of each module, `GuestIInv`, `TextIInv`) and the
`StepsLeft` of the three modules that have one were checked with TLC before they were
proved, that of `UpstreamRequest` and `CrsText` without the conjunct that what was received
is one of the constant's elements, that of `CrsParser` without those that files and rules
are of a set TLC cannot enumerate; the runs now check what follows from them.

## 7. What is not modelled

* Regular expressions and the text of JSON: library functions. A pattern of
  `CrsCondition` is the set of the values it matches; a request of `CrsGuest` decodes
  or does not.
* The case of characters beyond Latin-1 (`lowercase` of `CrsText`), and which of them are
  blanks.
* The Rust of the wasmtime and tokio libraries; what they promise is in `WasmVm`
  (fuel, traps, bounds of the memory) and `Proxy` (tasks, sockets).
* Examples, packaging and automation: no state of the program.

## 8. Plan

Done in this order, the gateway first: `WafEngine`, `Waf`, `Proxy`,
`HttpReader`, `WasmVm`, `CrsEngine`, `CrsGuest`, `Startup`, `UpstreamRequest`,
`CrsParser`, `CrsCondition`, `Relay`, `CrsText`, and eight proof modules. Next:

1. Compositions: `CrsGuest` as a guest of `WasmVm` (its answers are among
   `Returns`, its length is accepted); `CrsCondition` and `CrsText` under `CrsEngine`
   for a rule with chained conditions; `UpstreamRequest` in place of
   `Proxy!ReadRequest`.
2. An abstract specification of `HttpReader` (a request arrives whole or is
   refused) and of `Startup` (all or nothing), each implemented.
3. Proofs: of `CrsParser`, the parts of `AllRead` that need no fold (`TrimOf`, the
   quotes); of `CrsText`, what a decoder makes of one escape (`HexAt` of two digits),
   which needs no induction.
