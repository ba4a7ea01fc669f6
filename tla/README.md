# TLA+ models of defiant

defiant is a Protocol Buffers library for Rust: a fork of prost whose decoded
messages borrow from an arena. This directory holds TLA+ modules that model parts
of it, TLC configurations that check them on small instances, and TLAPS proofs of
their main properties for every value of the constants. `PROJECT.json` maps every
definition to the source lines it models and lists the runs, the hazards, the
theorems and the disagreements found.

    tlc -config WireDecode_nesting.cfg MCWireDecode     # a run
    tlapm WireDecode_proofs.tla                          # a proof

## The system

| component | source | state | operations |
|---|---|---|---|
| wire decoder | `defiant/src/encoding.rs` | the rest of the buffer, the native call stack, the recursion budget of `DecodeContext` | `decode_key`, `merge_loop`, `skip_field`, `message::merge`, `group::merge`, `merge_with_defaults` |
| varint codec | `defiant/src/encoding/varint.rs` | none | `encode_varint`, `encoded_len_varint`, `decode_varint` in three forms |
| scalar, string and bytes encoding | `defiant/src/encoding.rs` | the field's value | `encode`, `merge`, `merge_repeated`, `encoded_len` per type |
| message traits, errors | `defiant/src/message.rs`, `error.rs` | the buffer, an error's path | `decode`, `merge`, `encode`, `encode_to_vec`, `arena_encode` and the length-delimited forms |
| arena | `defiant/src/arena.rs` | a bump allocator, growing vectors, frozen slices, map views | `ArenaVec` (push, extend, freeze, BufMut), `ArenaMap` lookups |
| derive macro | `defiant-derive/src/` | the fields of a builder | generated `merge_field`, `encode_raw`, `encoded_len`, `freeze`, `copy_to_builder` |
| Duration | `defiant-types/src/duration.rs` | seconds (i64), nanos (i32) | `normalize`, conversions to and from std, `Display`, `FromStr` |
| Timestamp | `defiant-types/src/timestamp.rs` | seconds (i64), nanos (i32) | `normalize`, `try_normalize`, conversions to and from `SystemTime`, text, calendar dates |
| DateTime | `defiant-types/src/datetime.rs` | a calendar date and time | RFC 3339 parsing and printing, to and from `Timestamp` |
| Any, type URLs | `defiant-types/src/any.rs`, `type_url.rs` | a URL and bytes | `from_msg`, `to_msg` |
| build: tables | `defiant-build/src/message_graph.rs`, `path.rs`, `extern_paths.rs`, `context.rs` | the graph of messages, maps of extern paths and of configured paths | which messages refer to themselves, which types derive `Copy` and `Eq`, which Rust path stands for a type |
| build: generator | `defiant-build/src/code_generator.rs`, `config.rs`, `module.rs` | the buffers of the modules, the path of the element being written, the modules that are open | `compile_fds`: walk the files, write structs, enums, oneofs, services, the include file |
| attributes | `defiant-derive/src/field/` | none | reading of the attributes the generator wrote: kind, tag, label, packing, default |

They interact by calls only. Generated code calls `encoding.rs` for each field,
which calls back into the generated `merge_field` of the nested message; both
advance one buffer and pass one `DecodeContext` by value. Errors unwind the whole
stack through `?`. Frozen messages share the arena. The build crate runs at
compile time and writes the structs and attributes the derive macro reads: two programs
that agree on a text without sharing a line of code.

What is hard here is not concurrency - nothing runs in parallel and nothing is
persisted - but long legal sequences over arbitrary input: six loops that call each
other, each with its own rule for ending and its own way of counting levels;
limits that are checked late; arithmetic at the ends of `i64` and `u32`; an error
half way through a message; and pairs of separately generated functions (encode and
`encoded_len`, encode and merge, freeze and lookup) that have to agree.

What makes each component correct:

- **decoder**: it terminates on every input; the stack is bounded by the recursion
  limit; the limit does not reject shallow inputs; an accepted input is well nested.
- **varint**: the three decoders agree; `encoded_len_varint` is the number of bytes
  written; only values below 2^64 are accepted.
- **messages**: merging concatenated encodings is merging one after the other;
  decode of encode is the message; `encoded_len` is exact; a failed merge leaves a
  builder one can describe.
- **arena**: a frozen collection holds what was pushed; a lookup finds a key that was
  pushed, with one of its values; a writer that respects `remaining_mut` does not write out of bounds.
- **Duration, Timestamp**: `normalize` is exact or saturates to the nearest canonical
  value; conversions round-trip; the answer ok or error is the right one.
- **DateTime**: a bijection between canonical timestamps and calendar dates.
- **build**: every name in the text leads to the type it stands for; a type has a lifetime
  wherever it is mentioned if and only if it was declared with one; no type holds itself in
  place; what derives `Copy` or `Eq` has members that do; the derive macro reads what the
  descriptors said; the include file has every module once; a build ends.

## Modules

| module | kind | models |
|---|---|---|
| `WireDecode` | detailed specification | decoding one message, from `decode` to `Ok` or an error |
| `WellNested` | abstract specification | what accepting an input means |
| `WireDecodeRefinement` | refinement mapping | `WireDecode` implements `WellNested` |
| `MCWireDecode` | schemas for TLC | |
| `WireDecode_proofs` | theorems, also of the refinement | |
| `SecondsNanos` | constants, pure operators | i64 seconds, i32 nanos, their arithmetic |
| `Duration`, `Timestamp` | detailed specifications | one variable per value, one action per call |
| `SecondsNanos_proofs`, `Duration_proofs`, `Timestamp_proofs` | lemmas, theorems | |
| `Calendar` | detailed specification beside a reference clock | `DateTime`, the text of a `Timestamp` and its parser |
| `MCCalendar` | the years TLC visits | |
| `Calendar_proofs` | theorems | |
| `Varint` | detailed specification | writing a varint, its length, the two decoders and the choice between them |
| `Varint_proofs` | theorems | |
| `ArenaMap` | pure operators | the sorted slice of a frozen map and its lookups |
| `MessageMerge` | detailed specification | the generated builder and view of a message: merge, freeze, copy, encode |
| `MergeClaims` | claims of the docs and tests | merging into a view, declared defaults |
| `MessageMerge_proofs` | lemmas, theorems, also about `ArenaMap` | |
| `MCMessageMerge`, `MCMergeClaims` | sets of fields for TLC | |
| `Descriptors` | records | the descriptors protoc hands over, and which element a path of the source info means |
| `MessageGraph` | pure operators | which messages hold each other, which of them are nested |
| `ProtoPaths` | pure operators | maps from paths of the .proto files: the matching of settings, extern paths |
| `DeriveTraits` | pure operators | the recursions that decide `Copy` and `Eq` |
| `RustTypes` | records | the types of fields, as one crate writes and the other reads them |
| `CodeGenerator` | detailed specification | the walk over one file and the items it writes |
| `Includes` | detailed specification | `write_includes` |
| `Build` | composition, properties | `compile_fds`: tables, all files, modules, include file |
| `Build_proofs` | theorems, also of `Includes` | |
| `DeriveMacro` | pure operators | what the derive macro reads of a member's attributes and type |
| `GeneratedCode` | properties | the output of `Build` as rustc and `DeriveMacro` see it |
| `MCBuild` | requests for TLC | |
| `BuildClaims` | claims of the comments | lifetimes of scalar-only messages, the configured path |

`WireDecode` and `MessageMerge` cut the decoder at `merge_field`: the first models the
control above it (bytes, loops, limits) and says nothing of what is stored, the second
what each arm stores, given any sequence of well or ill formed elements.

### WireDecode

`stack` is the native call stack, one frame per running loop: a message loop
(`merge_loop` and the loop of `Decode::merge`), a map entry (of scalars, or of
messages, whose entry loop the derive macro generates), a packed run, a group
(`group::merge` or the repeated-group loop) and a skipped group. A frame has the
budget `ctx` handed to its fields, its end as a byte offset, and for a group the tag
it was opened with. `pos` is the bytes consumed, `key` the key just decoded.

| action | code |
|---|---|
| `Merge`, `MergeLengthDelimited` | the two entry points of `Decode` |
| `DecodeKey`, `LoopEnds`, `EndGroup`, `PackedElement` | one turn of a loop, its two ways to end |
| `MergeVarint`, `MergeFixed32`, `MergeString`, `MergePacked` | leaf arms of `merge_field` |
| `MergeMessage`, `MergeGroup`, `MergeRepeatedGroup` | nested arms |
| `MergeMap`, `MergeMessageMap`, `MergeEntryValue` | map arms and the value of a map of messages |
| `SkipLeaf`, `SkipGroup` | `skip_field` |

The bytes are not kept. The decoder never looks back, so a varint, a key or a length
is chosen when it is read, and any input is a sequence of such choices. Width and
value are independent because a varint may be padded. What a varint decodes to, the
values stored in fields and where an error leaves the cursor are abstracted away. The
message type is recursive: every nested message, group and map value has the same
schema `Field`, so a run nests as deep as the budget and the buffer let it.

### Varint

`EncodeByte` is a turn of the encoder's loop, `DecodeVarint` the choice of a decoder,
`DecodeVarintSlice` a step of the unrolled one, `DecodeVarintSlow` a turn of the
byte-wise one. A buffer is any bytes, cut into chunks anywhere (`chunk` is the length of
the first), or what the encoder wrote. The widths are constants: 7 bits, 10 digits and
pieces of 4 in the code.

### MessageMerge

The message type has one field of each kind, each with a merge arm of its own in the
derive macro: `plain` (implicit presence, with a declared default), `opt`, a packed
`list`, a required message `must`, an optional one `child`, a repeated one `item`, a
oneof `choice` with a scalar, a message and a group variant, and a `map` of scalars. A
nested message has two scalars. `Fields` restricts the type.

`builder` is the builder, `frame` the nested builder or map entry in progress, `view`
what the first input froze to. The wire is a sequence of tokens, one for each step in
which generated code changes a builder. A first input is any sequence of them, may be
cut into buffers (`MergeAgain`), may be malformed at any token (`Malformed`), and may
go on in a copy of a frozen view (`CopyToBuilder`); `Encode` encodes the view and
decodes the encoding into a new builder. `log` and `trail` are history: what has been
given to the builder.

| action | code |
|---|---|
| `MergePlain`, `MergeOptional`, `MergeElement`, `MergeNumber` | scalar arms of `merge_field` and of the oneof's `merge` |
| `OpenChild`, `OpenRequired`, `OpenNew`, `OpenVariant` | which nested builder an arm starts with |
| `MergeNested`, `MergePair` | the loop over a nested message, over a map entry |
| `Close` | the nested builder is frozen and stored, the entry pushed |
| `Malformed`, `WrongWireType` | an error, and what it leaves of the builder |
| `Freeze`, `CopyToBuilder`, `Encode` | `freeze`, `copy_to_builder`, `encode_raw` and `decode` |

What an error leaves: an optional message is taken out of the builder before it is
merged, so its old value is lost; a required message and a oneof keep theirs; an absent
optional scalar has become present with its zero. Duplicate keys of a map are not
removed when it is frozen: `len` counts them and `get` returns one of their values.

### Duration and Timestamp

The arithmetic is the code's: `Quotient` and `Remainder` truncate like Rust's `/` and
`%`, `FitsSeconds` is the condition of `checked_add`, `checked_sub` and `checked_neg`.
The widths are constants, so TLC enumerates every message of a small width and the
theorems hold at the real one. Where a build with overflow checks panics and one
without wraps (`-seconds` and `seconds.abs()` at `i64::MIN`) both outcomes are
actions. `std::time::Duration` and `SystemTime` are external; `SystemTime` is a 64-bit
Unix one.

### Calendar

The operations are the code's: `DateTimeFrom` (`From<Timestamp>`), `DateTimeToSeconds` with
`year_to_seconds` and `month_to_seconds` (`TryFrom<DateTime>`), `IsValid`, `TextOf`
(`Display`), `Parses` and `ParsedFrom` (`parse_timestamp`). The two directions are musl's,
ported one by one. Beside them `day` and `civil` are a clock that knows only how long a month
is and that a page is turned each day: `Tick` is a day, `SkipYear` and `SkipBack` a year that
is not watched. `Display`, `FromStr` and `DateTimeNanos` are called at the date the clock
shows, `reply` says how they ended, and the properties compare with the clock.

A text is a record of its parts (the sign and width of the year, the digits of the fraction,
the offset or none): which texts parse depends on the parts, not on their characters. A
fraction keeps its number of digits, so that cutting it at nine and padding it are modelled.
Minutes, hours, days and seconds are scaled and the constants of the code that are whole
numbers of days stay days; `year_to_seconds` computes in seconds of an `i128`, which cannot
overflow there.

### The build

`Build` is one call of `Config::compile_fds` after protoc has run. `status` is where it
stands: `start`, `generating`, `including`, and the ways to end: `done`, `error` (a bad extern
path), `overlap` (two enum values of one name), `panic` (`finalize_package` without a
buffer), `syntax` (an unknown syntax) and `overflow` (a recursion without end).

| action | code |
|---|---|
| `Prepare` | `ExternPaths::new`, `MessageGraph::new`, in `Config::generate` |
| `StartFile`, `RefuseSyntax` | the beginning of `CodeGenerator::generate` |
| `OpenMessage`, `SkipExternalMessage`, `OverflowStack` | `append_message` up to its fields, its early return, its derive line |
| `WriteField`, `EndFields`, `WriteOneofField`, `EndOneofs` | the two loops over fields; `push_mod` |
| `EndNested`, `AppendEnum`, `EndEnums`, `AppendOneof`, `EndVariants`, `EndMessage` | the nested types of a message; `pop_mod` |
| `PushService`, `EndServices` | the services of the file |
| `EndFile`, `Finalize` | a buffer is kept or removed; `finalize_package` |
| `CloseModule`, `OpenModule`, `IncludeFile`, `CloseRest`, `Finish` | `write_includes` |

`frames` is the native stack of `append_message`, `path` the path into the source info,
`typePath` and `open` the scope, as in the code; that they are pushed and popped in
different places is what makes the walk worth modelling. The text is a set of items, one for
each declaration, field, variant, value, method and `Name` impl. An item keeps what other code depends
on: the module it stands in, the element whose comments it was given, its lifetime, derives,
type, attributes, and every path it mentions with the type that path was written for.
Letters, indentation, case conversion (`Snake`, `Camel` and `Strip` are functions given by
the instance) and comments are abstract. `heck`, `petgraph` and `syn` are external and
modelled by what the code uses of them.

The questions the code asks by recursion are functions: of a message and the calls that are open
(`CopyAnswers`, `EqAnswers`), of a message and what was visited before (`TypeNeedsLifetimeImpl`), of
a set of nodes (`ReachableFrom`). A path into the source info is followed two numbers at a time
(`Step`, `Reached`), as protoc defines it.

`Build` holds the two properties that are about the build by itself, `DocsComeFromTheirElement` and
`IncludesMirrorModules`; `GeneratedCode` holds those that need a reader. `ReferencesResolve`
walks each mentioned path through
the modules as rustc does, `super` by `super`; `DeriveReadsTheDescriptors` runs
`DeriveMacro`, which is translated from the other crate, over the attributes and compares what
it read with the descriptor.

## Runs

| run | instance | shows |
|---|---|---|
| `decode_nesting` | 8 bytes, limit 3, one-byte varints, schema message / group / map of messages / unknown | types, `BudgetMatchesDepth`, `NoEarlyLimit`, `Terminates`, `ImplementsWellNested` |
| `decode_fields` | 10 bytes, limit 2, varints of one and two bytes, schema repeated group / map / packed / fixed32 / unknown | the remaining arms: `StackBounded`, `Terminates`, `ImplementsWellNested` |
| `duration` | 3 ns per second, seconds -4..3, nanos -8..7 | `NormalizesExactly`, `StdHoldsMagnitude`, `StdRoundTrips`, `TextRoundTrips` |
| `timestamp` | the same | `NormalizesExactly`, `TryNormalizeKeepsMoment`, `IntoSystemTimeRoundTrips`, `FromSystemTimeExact` |
| `calendar` | years -6063 to 10001, of which 49 are visited day by day; 2 seconds a minute, 2 minutes an hour, 2 hours a day, 8 ns a second, seconds up to 23465032 | `YearsHaveTheirLength`, `CalendarMatchesClock`, `TextRoundTrips`, `ParsesLocalTime`, `OnlyCalendarDates` |
| `message_merge` | scalars 0 and 1, declared default 1, four tokens, lengths of one byte below 3, all kinds of field but the group variant | `MergesOccurrences`, `LookupsFindEntries`, `RoundTrips`, `LengthsAreExact` |
| `varint` | digits of 3 bits, 3 of them (7-bit integers), pieces of 2, buffers of up to 4 bytes cut anywhere | `DecodesWhatItSays`, `StaysInBounds`, `RoundTrips`, `LengthIsExact` |
| `view_merge_claim` | a message without arena data, decoded by the `Decode` impl of its view | merging into a view replaces |
| `default_claim` | scalars and a list, built by `Decode::new_in` | a declared default is lost |
| `build` | the seven families of requests of `MCBuild` | the nine properties of `Build`, `GeneratedCode` and `Includes` |
| `lifetime_claim` | a message with two fields of one scalar-only message | a lifetime is mentioned that is not declared |
| `defiant_path_claim` | one message, with and without a configured path | the configured path is not read |

Bounds. A limit of 3 with 8 bytes reaches the limit through every mixture of message,
group and message-map frames, wraps a counter that is not guarded, and lets a child
overrun a parent that is itself nested; each level costs at least two bytes (key and
length) and a group one. A limit of 2 with 10 bytes leaves room for the wider varints
and fixed-width values that straddle the end of a frame. `CounterMax` (1000) only has
to be larger than any budget, so that a wrapped counter is seen. In the time modules an
i32 of nanos holds up to two whole seconds and i64 twice as many, so that carries,
borrows and both saturations, in the same and in opposite directions, all happen;
every message is an initial state.

In `MessageMerge` four tokens (the ends of nested parts are not counted) are enough for
every pair of occurrences of nested parts with something set in both, for an error in the
second of them, and for two map entries with their keys, in either order, equal or not;
with a default of 1 both scalars, the default and zero, are told apart; a length step of
3 makes the lengths of one-field and two-field messages differ in width.

In `Varint` 3 divides 64 with remainder 1 like 7, so that the length formula keeps its
form; a last digit of one bit, a full and a partial piece, and chunks longer than, as
long as and shorter than a varint all occur.

In `Calendar` the watched years are those around every special case of the code: the ends
of the range, the signs and widths of a printed year, each of the four kinds of century,
the fast path of 1901 to 2038, a cycle of 400 years on both sides of zero. A year that is
skipped is still checked for its length, so every year from -6063 to 10001 is. 23465032
scaled seconds lie on both sides within a watched year, so that dates run into both ends of
`i64`. Eight nanos a second written in base 2 keep the three groups of digits of a fraction.

The requests of `MCBuild` come in families, each around one question: `Triples` (three
messages with up to two fields each, every way they can hold each other, a string or a
float), `Chains` (cycles through optional, required, repeated and oneof fields, boxed or
not), `Groups` (cycles through groups, groups in oneofs), `Fields` (every scalar type with
every label, packing option and default, in both syntaxes), `NamesOfTypes` (nested types around a map entry, types
named like Rust's, packages below each other, extern paths and settings by full path and by
suffix), `Failing` and `Modules` (files with a message, a service or nothing in packages that
nest or fall on one module). Three messages and two fields reach every shape of the
recursions: a cycle entered from outside, two paths to one message, a message visited twice.

Fairness. The decoder is one thread that runs until it returns, which is
`WF_vars(Next)`: no action is preferred to another. `Terminates` means that every turn
of every loop consumes input or returns. The time modules have no fairness: nothing
calls them of its own accord. Nor have `Varint`, `MessageMerge` and `Calendar`: a caller may stop anywhere. A build is one call on one thread, which
is `WF_vars(Next)` as well: nothing outside it decides whether it goes on. `Completes` then
means that the walk over the files comes to an end and that `write_includes` does.

Deadlock is not checked for the decoder, which stops when it has returned, nor for
`Varint` and `Build`, which do as well, `MessageMerge`, which stops at the end of its second
input, and `Calendar`, whose clock may stop at the end of the watched years with a call
answered. The cfgs of all of them say so.

## Properties

- `BudgetMatchesDepth`: frame number i has at most 2 * RecursionLimit + Slack - i
  levels, counted in halves, left. One place that enters recursion without
  `limit_reached` lets the `u32` wrap (`MergeEntryValue` is such a place, and is safe
  only because of the test made for the entry), and one that forgets to enter lets
  the stack grow with the input.
- `StackBounded`: the bound a reader wants, 2 * RECURSION_LIMIT + 2 loops.
- `NoEarlyLimit`: the limit is never reported with fewer than half of RECURSION_LIMIT
  loops open.
- `ImplementsWellNested`: `merge_loop` compares a length with the whole buffer, not
  with the enclosing frame, so a child may read its parent's bytes and its uncle's.
  In `WellNested` such an element cannot be opened. The mapping calls a state rejected
  as soon as a frame has strayed past an outer end; that this refines says that
  whatever happens after that, the result is never `Ok`.
- `NormalizesExactly`: the span of the result is the span of the argument clamped to
  the canonical range, and the result is canonical. It covers fields that overflow in
  opposite directions, which the tests' fixed cases do not.
- `TryNormalizeKeepsMoment`: `try_normalize` infers the overflow from the result;
  away from the ends of the range this is right. At the ends it is not (see below).
- `MergesOccurrences`: at any point outside a nested part the builder is what the rules
  of the format say of everything it has been given, computed from the history alone:
  last one wins, repeated fields concatenate, nested messages merge, a oneof forgets.
  The generated arms get there by taking, copying, freezing and reallocating.
- `RoundTrips`: the encoder leaves out zeros and defaults in five different places and
  the decoder fills them in in five others. (The group variant is left out of the run and of the
  theorem: see below.)
- `LengthsAreExact`: `encoded_len` and every length prefix are compared with the bytes
  written; both are computed by code separate from the writer, per kind of field.
- `LookupsFindEntries`: the bisection over the frozen slice, duplicates included.
- `DecodesWhatItSays`: both varint decoders accept exactly the buffers whose digits make
  an integer of the width, with its value, and leave the buffer behind it.
- `StaysInBounds`: the unrolled decoder's `get_unchecked` reads stay in the chunk.
- `YearsHaveTheirLength`: consecutive years, as `year_to_seconds` starts them, are as far
  apart as the Gregorian rule says, and its leap verdict is the rule's, through all of its branches.
- `CalendarMatchesClock`: both conversions agree with the wall calendar at every visited
  day, and so with each other.
- `ParsesLocalTime`: a text is accepted exactly when its fraction has digits, its offset is less
  than a day and both its local time and its moment are in range; it is then read as its local
  time, moved by the offset with its sign, with the whole nanoseconds of its fraction.
  (The local time has to be in range because `is_valid` looks at it before the offset is taken
  off: at the ends of the range a text whose moment would fit is refused. That is what the code does.)
- `OnlyCalendarDates`: `date_time_nanos` accepts a date exactly when the month, the day of that
  month, the hour and the nanoseconds are ones the wall calendar has and the second is in range, and
  makes that second and those nanoseconds of it. Each number is sampled at the ends of its range and
  just beyond them, at the ends of the range of seconds too.
- `DocsComeFromTheirElement`: five lists are partitioned or filtered before they are
  written while the path counts the original ones.
- `ReferencesResolve`: relative paths through nested modules, extern paths, and no two
  declarations of one name in a module.
- `LifetimesAreCarried`: `message_needs_lifetime`, `message_type_needs_lifetime_impl`, two
  copies of the question for oneofs, the set of `push_service` and `type_uses_arena` of the
  derive macro answer one question six times.
- `ByValueTypesAreFinite`, `DerivesAreConsistent`: what rustc would refuse: a type of
  infinite size, a derive over a member that has not got the trait, a by-value message the
  derived `copy_to_builder` cannot copy.
- `DeriveReadsTheDescriptors`: packing, presence, defaults, tags, enumerations and maps,
  from the descriptor through the attributes to the `Field` of the derive macro.
- `IncludesMirrorModules`, `OpensOnce`: what `write_includes` puts where.
- `Completes`: every build ends, and not with an error unless something named stands against it.
- the remaining ones are round trips; each states which values are excepted.

## Disagreements found

Four are runs:

1. `view_merge_claim`, `message.rs:165`: `Decode::merge` merges into `self`. The `Decode` impl
   of a view without arena data (`lib.rs:1876`) starts a nested message from nothing and
   replaces the old one; the builder of the same message merges.
2. `default_claim`, `any.rs:66-67`: what `from_msg` encoded, `to_msg` decodes to an equal
   message. `Decode::decode` makes its message with a `new_in` that takes zero for every
   scalar (`lib.rs:2069`), the encoder leaves out what equals the declared default, and the
   field comes back as zero. `decode` and `from_buf` of the builder take the declared
   default and are right.
3. `lifetime_claim`, `code_generator.rs:1066`: scalar-only messages don't require a lifetime.
   The set of visited types is shared by the fields of a message (`:1086`), so that two fields
   of one scalar-only message look like a cycle: the field that holds the message is typed
   `T<'arena>` and the struct is declared without.
4. `defiant_path_claim`, `config.rs:743`: the configured path is used for deriving.
   `context.rs:33` writes the attribute `defiant_path`, `get_prost_path` of the derive macro
   (`lib.rs:3055`) looks for `prost_path`.

The others were met while modelling; the properties except them where they say so.

- `tests/src/nesting.rs:81-82` (disabled by `#![cfg(ignore)]`): 50 nested maps of messages
  decode and 51 do not. The entry is read with the context of the message that holds it, so
  a nested map costs one level, and 100 of them decode.
- `tests/src/groups.rs:106-107` (disabled): 50 nested groups decode. A singular group is
  counted by the generated arm and again by `group::merge`: a group within a message costs
  three levels, and the 34th is an error.
- `tests/src/groups.rs:75` (disabled): a message with a group in a oneof round-trips. The
  variant is written between group keys, the arm that reads it wants a length (`lib.rs:2819`).
- `timestamp.rs:46-47`: `try_normalize` returns the original value if it cannot be
  normalized. `(i64::MIN, -1)` saturates and is `Ok`; `(i64::MAX - 1, 10^9)` is exact and is
  `Err`. (`TryNormalizeKeepsMoment` leaves the ends out.)
- `timestamp.rs:156-157` says of `OutOfSystemRange` that the time is out of the range of
  `SystemTime`, but `i64::MIN` seconds is within it on a 64-bit Unix
  (`IntoSystemTimeRoundTrips` excepts that second). `Timestamp::from(SystemTime)` panics
  there, where the seconds missing to the epoch exceed an `i64`.
- `Display` of a `Duration` whose fields disagree in sign takes the sign from the raw
  fields: `(1 s, -500 ms)` prints `-0.500s`.
- `append_oneof` and `append_oneof_field` do not look at groups when they ask for a lifetime,
  although a variant that is a group with arena data mentions it (`LifetimesAreCarried`
  leaves such oneofs out).
- Groups are no edges of the message graph, so `can_message_derive_copy` may not return for
  a message that reaches itself through groups (`overflow`, named by `Completes`).
- A file with a service and nothing else, and a service generator that writes nothing for it: the
  buffer is removed (`config.rs:1193`) and `finalize_package` unwraps it (`panic`).
- `push_service` looks for lifetimes among the messages of the current file only, so that
  `input_has_arena` is false for a type of another file (`ast.rs:160`).
- A repeated proto3 field with options that say nothing of packing is written
  `packed = "false"` (`code_generator.rs:474-481`), where `protobuf.rs:651-652` says only an
  explicit false avoids it (`DeriveReadsTheDescriptors` leaves such fields out).
- `append_type_name` writes `impl Name for Foo` for a `Foo<'arena>`.
- A oneof is renamed when a nested message has its name (`code_generator.rs:83`), not when a nested enum has
  (no request of the run has one).
- The default of an enum field that names an alias refers to a variant that is not written
  (no request of the run has one).
- Messages named `Box`, `Vec`, `String`, `HashMap` or `BTreeMap` are written and then refused
  by `validate_arena_field_type` when a field holds one (`DeriveReadsTheDescriptors` allows
  for exactly that).
- `Config::boxed` on a field of a scalar-only message takes its `Copy` away, which
  `copy_to_builder` needs (`DerivesAreConsistent` leaves such configurations out).
- `syntax = "editions"` panics (`code_generator/syntax.rs`).

## Proofs

All theorems are for every value of the constants that satisfies the named
assumptions: a limit of at least one, a counter wide enough to tell a wrap from a
budget; at least two nanoseconds per second, nanos that can hold a whole second, seconds that
hold more than nanos can carry; varints of at least two bytes, of integers whose logarithms
are below 64; a clock of at least one second a minute, and so on up to the day; an integer rank
for every name of a module. The provers know no law of powers, so `Calendar` and `Varint` assume
it for the exponents in use (`PowersAssumption`); TLC evaluates these assumptions too.

**WireDecode_proofs.** The safety invariants are not inductive. `MergeEntryValue` decrements
without a test, and that this does not wrap depends on what the entry's frame was
opened under; and a bound on the top frame does not survive a return unless it holds
for every frame. The inductive invariant is

    IInv == TypeOK /\ ControlAgrees /\ EntriesHaveBudget /\ BudgetFloor /\ BudgetMatchesDepth

`ControlAgrees` ties `stack`, `key` and `result` together, `EntriesHaveBudget` says
that the frame of a message-map entry has budget left, `BudgetFloor` bounds from below
what frame i has left (so that the limit is not early). It is proved action by action,
with the opening of a frame as a lemma that all nested arms cite. From it follow
`TypeCorrect`, `BudgetTied`, `StackIsBounded` and `LimitNotEarly`.

Its last sections are about the refinement. `WellNestedImplemented`: initial states map to initial states and
every step to a step of `WellNested` or to a stutter. The mapping forgets `key` and the budgets,
counts a frame as open only while no frame has strayed past the end of an outer one, and reads
everything after that as rejected. What a step needs beside `IInv` is that the cursor only moves
forward: ends of frames that were respected stay respected below the top, and one that was passed
stays passed, so a rejected reader never comes back.

**SecondsNanos_proofs** proves that truncating division leaves a remainder smaller than
a second with the sign of the dividend, and bounds the quotient.
**Duration_proofs** and **Timestamp_proofs** use these for `normalize`: the carry is
either exact or leaves the range on the side nanos points to, and the second step moves
the seconds towards zero (`Duration`) or down by one (`Timestamp`), so the result is
canonical and its span is the clamped one. The conversion theorems (`StdMagnitude`, `StdExact`,
`SystemTimeRoundTrip`, `FromSystemExact`) and the text of a duration (`TextExact`) are
corollaries of that lemma; `TryNormalizeExact` adds what the code infers from the result: a sum that
was clamped sits at an end of the range. The invariant is type correctness; the theorems
are action properties.

**Calendar_proofs.** The clock is the reference, so the invariant has to say what it reached:

    IInv == ClockInv /\ ReplyInv

`ClockInv`: the date shown exists, and `day` is the closed form `DayOf` of it (365 days a year, a
day for each fourth year, and so on, and the days of the months before). That a tick or a skipped
year adds one to `DayOf` is the Gregorian rule. `ReplyInv`: what the last call answered is right
for the date shown. `year_to_seconds` agrees with the closed form by cases over its branches;
for `DateTimeFrom` the three quotients, capped at 3, 24 and 3, are shown to be the only
ones the date allows, so it returns the date whose `DayOf` was given. The parts of a text
are numbers, so `TextRoundTrips` and `ParsesLocalTime` come down to arithmetic on the
seconds of a day and on the digits of a fraction. "Exactly when", in `ParsesLocalTime` and
`OnlyCalendarDates`, needs both directions of `is_valid`: a date in range lies between the literals
`MIN` and `MAX` field by field (`MomentsInOrder`), and a date between them is in range because that
order is antisymmetric (`NeitherAfter`, `SecondsFollowDates`). All five properties of the run are theorems.

**Varint_proofs.** One invariant for all properties. While a decoder runs, every byte it has
passed went on, so the first byte that stops is ahead of it; the value read, together with the
piece still being added up, is the sum of the digits passed (`SliceInv`), and below
the width nothing has been shifted out (`SlowInv`). While the encoder runs, the digits written and
what is left make the integer it was given (`WritingInv`). Sums of digits are handled by
induction over a set of numbers (`Induction`, from the well-foundedness of `<`), the places of
digits by the law of powers. From it follow `UncheckedReadsStayInBounds`, `DecodersAgree`,
`WrittenIsReadBack`, `LengthExact` (the logarithm lies between the places of the last digit and
the next; `LengthCountsDigits` says that the factor rounded down is near enough) and
`PiecesNeverOverflow`, which justifies that the model has no width for the u32 pieces.

**MessageMerge_proofs.** For every set of fields, range of scalars and number of tokens, of a
merge into a builder (`Target = "builder"`; what a merge into a view does instead is the finding
of `MergeClaims_view`). What a builder should hold is defined on the history `log`, which
`MergesOccurrences` only reads between elements. The invariant says it at every moment:

    MergeInv

every part of the builder is what the occurrences in `log` mean (`OthersAre`), an optional message
too, unless it is open and so has been taken out; what is open holds the meaning of what it was
opened on followed by what has been set since; and a frozen view is sorted and is the builder. It
also fixes the types. Most of the work is in how the definitions of that meaning grow by one
occurrence: `Where`, `Flat` and `Trails` are recursive functions, so their laws (`WhereFacts`,
`FlatFacts`, `TrailsFacts`) come from an induction over sets of sequences (`SeqInduction`), and
`SwitchGrows` from the last run of equal fields. `MergeOne` puts them together: one more
occurrence changes the part of its field and no other; each action is then a case of it, and
`Malformed` is the one that takes occurrences away. For `Freeze`, `SortKeepsValues` shows that
the sort is stable: it permutes the entries (`SortFacts`) and the n-th entry of a key stays the
n-th. From the invariant follow `WhatWasGivenIsHeld`; `LookupsFindWhatWasGiven`, with the window of
the binary search, which always holds the entries of the key (`SearchFacts`); and
`EncodedLenIsExact`, which needs only the types: an encoding is put together from parts of
known size in which every length is right (`Sized`), and putting parts together keeps that.

`EncodedViewsDecode` is `RoundTrips`: a view that is encoded and merged into a new builder freezes
to itself, whatever history the view has. `MergeInv` says that the builder is what `log` means, so
it is enough to know `log` at the end of the second input, and that is a matter of tokens alone.
`Reading` says what an input does to the log, token by token (`After`). On the side of the
encoder, `Says(v)` is the sequence of occurrences that `EncodeRaw(v)` is read as, part by part
(`Tells`, which is kept by putting encodings together: `TellsConcat`), and it means, field by
field, what v holds (`SaysWhatItHolds`): this is where a default that is left out has to be what a
new builder starts from. On the side of the decoder, the invariant is

    ReadInv

in the second phase nothing has failed, and reading the rest of the input from the present log and
frame leads to exactly the log `Says(view)` with nothing open. Every merge arm takes a token and
does to the log and the frame what `After` does with it (`TakenIsRead`, and a lemma for each
action); a failure cannot come up, since a failed reading does not recover (`FailedStays`). At the
end the builder means `Says(view)`; freezing sorts entries that are in order already, which changes
nothing (`SortedStays`), and this is the view (`SameView`). That the view can be encoded so is an
invariant of the first phase (`Showable`, `HeldIsShowable`): its entries are sorted and the parts
of a oneof other than its variant are empty. The theorem has three hypotheses, and each is a limit
of the code: merging is into a builder; the type has no group variant, which is written in a form
that no arm reads; and where a message is decoded by the `Decode` trait, whose builder starts from
zeros, no other default is declared (`MergeClaims_defaults` shows the value that is lost otherwise).

**Build_proofs** is about every set of requests whose descriptors have the shape protoc gives them
(`MessagesAssumption`: a message has its lists and its nested messages are messages too;
`RequestsAssumption`: a file has its lists, and the parts of its package are names of modules).
Nothing is assumed of what is in the lists: types may name messages that do not exist, graphs may
have any cycle. TLC evaluates both on the requests of the `build` run.

`OpensModulesOnce`, of `write_includes` by itself: in a list sorted part by part, the modules
below a path stand together (`BelowIsContiguous`). The invariant `IncludesInv` says that the stack
lies on the way to a module that precedes the pending ones, and that nothing pending lies below a
module that was opened and closed again; closing needs the lemma, opening and including only keep
it.

`ModulesAreMirrored` and `BuildOpensModulesOnce`, of a whole build. The inductive invariant is

    BuildInv == WalkInv /\ ModulesInv /\ PhaseInv /\ IncludesInv

`ModulesInv`: the modules kept are the units of what was written, but for the file still being
generated; it needs that the walk writes to no other file than the one it is in
(`WalkKeepsFrames`), and that a file is generated to its end before its buffer is kept or removed.
`WalkInv` (`RequestInv`, `FramesInv`) is what that rests on: the file exists, the frame at the
bottom is its own, the others are messages, and every frame but the top one is at its nested messages. `PhaseInv`: in the `including` phase each module is included where its name says
or still pending. `IncludesInv` is needed again, because `IncludeFile` puts a module where the stack
is, and that this is the module's own name is a matter of the stack.

`DocsAreOfTheirElement`. The generator keeps one `path` by hand, pushed and popped in different
functions around lists that were partitioned (map entries, oneof fields), skipped (external
messages) or deduplicated (enum values) before. The inductive invariant is

    DocsInv == WalkInv /\ PathInv /\ DocsComeFromTheirElement

`PathInv`: two numbers of the path lead, as a `Step`, from each open message to the one opened in it
(`LinkInv`), the last number names the list the top frame is at, and `typePath` is the name of what
is open (`TopInv`). From it follows what an index added to the path is the index of (`Listed`,
`ListedBelow` and `ListedTwice`, for elements of the list at hand, of another list of the same message, and
of a list one level further down), and so each item is looked up where its element is (`WalkLocates`).
That the numbers counted in a filtered list are those of the original is `NumbersAreIn`.

## What is only model-checked

- `Terminates` and `Completes`: liveness under fairness is out of the prover's reach.
- `ByValueTypesAreFinite`, `DerivesAreConsistent`, `LifetimesAreCarried`: they rest on what the
  recursive questions answer for a whole message graph (a field is boxed exactly where the graph has a
  path back, `Copy` is answered after all that is reachable was asked, recursions that stop at
  visited types in different ways agree). That is induction over data; the library's
  induction theorems take the claim as an operator, which the provers cannot instantiate.
- `DeriveReadsTheDescriptors`: it runs `DeriveMacro`, whose recursions over types are RECURSIVE
  operators, which the prover does not take. The properties that stand in `GeneratedCode` share that
  limit, as the module extends `DeriveMacro`.
- `ReferencesResolve`: besides that, it is no theorem for every value of the constants. It needs
  declarations whose names do not fall on one another when their case is converted, which protoc
  does not promise; no request of the run has such a clash.

## Plan

Done, in this order: `WireDecode` and `WellNested`; `SecondsNanos`, `Duration`, `Timestamp`;
`ArenaMap`, `MessageMerge`; `Varint`; `Calendar`; the build, with the derive macro's reading of it.

Left: in `MessageMerge` setters, maps of messages, singular groups, required scalars, and an
abstract specification in which a merge is a fold of occurrences. Theorems: that a path
relative to a module leads to the type it was written for (`ReferencesResolve`), for requests whose
names do not clash; it needs `open` beside `typePath` in the invariant, and the module tree.

## Not modelled

- the `no-recursion-limit` feature, under which the stack is unbounded by design;
- the `chrono` conversions (behind a feature, with ranges of chrono's own);
- protoc, the reading and writing of files and the formatting in `compile_fds` and
  `compile_protos`: I/O; the letters of the generated text, user attributes that are handed
  through, the reflow of comments in `ast.rs`, escapes of byte strings;
- generated code (`defiant-types/src/protobuf.rs` and the like) but for the descriptors the
  build reads;
- `ArenaVec`: a wrapper over a vector of bumpalo, with an unsafe `BufMut` whose contract is on
  the caller's side;
- `Any` and type URLs: string splitting;
- error messages and the path an error collects, formatting beyond sign and digits;
- setters and getters of builders, tuple structs and `Debug` in the derive macro;
- the capacity checks of `Encode` and of `length_delimiter.rs`: one comparison before a write;
- conformance, fuzzing, benchmarks: harnesses around the library.
