# quire-canonical in TLA+

A verification development of `quire-canonical`, a `no_std` Rust library that
writes RFC 8785 canonical JSON into a sink: TLA+ modules that model the code,
TLC configurations that check them on small instances, and proofs of theorems
about them that TLAPS checks. Paths below are relative to the repository;
everything of this development is in one directory.

The library is sequential: one `&mut Writer` is driven by one caller, nothing
runs concurrently and nothing is persisted. What is hard about it is
bookkeeping. One shared buffer and six shared record stacks stand for the open
and closed objects of every nesting level, an event may be refused between any
two of its effects, and the text of an object leaves the buffer in another
order than it entered it. Above the writer, code that the library did not write
(`Serialize` and `Display` implementations, sinks) runs in the middle of its
calls; below it are byte-level conversions with a boundary in every line.

## 1. The system

| Component | State | Operations | Talks to |
|---|---|---|---|
| **Writer** (`src/writer.rs`) | the byte count; the stack of open containers; one frame per open object; the buffer; the member and child records of open and of closed objects; `started`, `refused` | `null`, `bool`, `number`, `integer`, `string`, `begin_array`, `end_array`, `begin_object`, `name`, `end_object`, `begin_wrapper`, `end_wrapper`, `refuse`, `finish` | calls the sink; called by the drivers below and by the user |
| **Serializer** (`src/encoder.rs`) | of its own only the buffer in which an integer key is formatted and the refusal that a `Display` was told; open containers live on the writer | serde's `serialize_*` calls, turned into events; member names from map keys | the writer, partly past its guard; the `Serialize` and `Display` implementations of the user call it and are called by it |
| **Reader** (`src/read.rs` 450-1075) | the position; what is expected next; the stack of open containers; two scratch stacks; the arena (text, slots, items, members) | `read`; inside it the scanners of strings, literals and numbers | fills a `Document` |
| **Tree encoders** (`src/read.rs` 369-448, `src/value.rs`) | an explicit task stack or stack of iterators | `encode_into` of `Document`, `NodeRef`, `serde_json::Value`; `drop_value`, with a stack of its own | push events, refuse through the writer |
| **Entry points, limits** (`src/lib.rs`) | the byte ceiling | `encode`, `to_vec`, `sha256`, `sha256_with_domain` | writer, driver, sink |
| **Sinks** (`src/sink.rs`) | what they accepted | `write_bytes` of a vector, a hash, a pair, an `io::Write` | fed by the writer |
| **Member order, escaping** (`src/order.rs`, `src/escape.rs`) | none | compare two quoted names in the buffer; escape a text | the writer's sort and `quoted` |
| **Numbers** (`src/number.rs`) | none | the text of a double; the 2^53 bound on integers | the writer's `double`, `signed`, `unsigned` |
| **Errors** (`src/error.rs`) | none | the refusals | all |
| **Identity types** (`src/identity.rs`) | their texts | validated constructors, derived deserialization, derived order, `semantic_eq` | encoded through the Serializer |
| **FixedShape** (`src/shape.rs`, `quire-canonical-derive/`) | none | a constant computed by rustc | gates the Serializer |

What makes each of them correct:

- *Writer*: what `finish` accepts is the canonical text of what was pushed, its
  length is the count, and it never exceeds the ceiling; a refusal is final and
  leaves a prefix of canonical text in the sink at most; no internal fault is
  reachable; memory is proportional to the bytes produced; nothing of one
  object survives into the next; every event returns.
- *Serializer*: a success is the canonical text of the value, if its `Serialize` and
  `Display` implementations hand on errors; where one does not, what is lost does
  not show outside of the part that lost it; a wrapper holds one value; an integer
  key is spelled whole.
- *Reader*: accepts exactly the JSON texts without duplicate names; the arena is
  a tree whose last node is the root; a string is decoded to the text its escapes
  spell; a fault is reported at its own offset.
- *Tree encoders*: push the tree in order, each node once, with a bounded stack;
  a value is taken apart without a node dropped twice, early or never.
- *Entry points and sinks*: no bytes and no digest are returned on error; all
  sinks of a pair are fed the same text; the label of a digest domain cannot be
  confused with text.
- *Order and escaping*: a strict total order on names, that of their UTF-16 code
  units; unescaping inverts escaping.
- *Numbers*: an integer is written exactly or refused, up to 2^53 by every call.
- *Identity types*: no reference has an empty component; two references are the
  same only if all their components are.
- *FixedShape*: `DEPTH` bounds the containers and the calls of every value.

`PROJECT.json` lists the hazards with their lines and the properties that watch
each of them.

## 2. The modules

### `Writer`: the code

`Writer` is `src/writer.rs`, one action per event and one per effect of an
event. Its variables carry the names of the struct's fields; the others are
`sink` (what the sink accepted), `answer` (what the latest event returned),
`finished` (what `finish` returned, after which the writer is gone), the locals
of `write_out` (`root_members`, `root_children`, `tasks`), and `todo`.

*Events and effects.* An event first passes `guard` and its protocol checks. What
it then still has to do is a sequence of steps, kept in `todo`: bytes to produce,
a container or a frame to push, `after_value`, the walk. Each step is one action,
in the order of the code, and may be refused as in the code (byte ceiling, offset
overflow, failed reservation, failed sink), which clears `todo` and sets
`refused`. So every state in which an event can be left by a `?` is a state of
the model, and the properties are checked in it. No event starts while `todo` is
not empty: the writer is borrowed mutably.

*The close of an object* is one action up to the point where something can fail
between two assignments: `CloseNested` chooses how many of its five stages were
reached when it was refused, so that the lists of a refused writer are those the
code leaves behind.

*The walk.* `write_out` pops one task per step (`WalkBytes`, `WalkBody`,
`WalkMember`); `WalkDone` clears the buffer and the records. The binary searches
`partition_point` of the code are the counts `StartsBy`: the number of children
for which the predicate holds, which is what `partition_point` returns when they
come first. `RecordsInWrittenOrder` is the property that they do.

*Bytes.* A byte is a token: punctuation, a quoted name, or the text of a scalar,
each of length one. Names and scalars are constants. A name of the code is
several bytes long and is written in several runs; a failure between two of them
leaves the same state as one after the token, except for how much of the name is
in the buffer or the sink of a refused writer. `Rank` is the order of names,
`MaxBytes` the byte ceiling and `MaxOffset` stands for `u32::MAX`.

*Sorting.* `sort_unstable_by` may leave equal names in any order, so
`SortedMembers` is a set of sequences; the duplicate check that follows refuses
the object. The comparison reads names through their spans, and a span outside
the buffer reads as empty, as `unwrap_or_default` does.

*Wrappers.* `begin_wrapper` and `end_wrapper` are not public: serde's encoder
calls them around exactly one value. `CallerDrives` and `ValueDue` restrict the
events accordingly while a wrapper is innermost.

Three groups of definitions stand next to the code's: `Idle`, `Accepting`, `Run`,
`Refuse` and `Proceed` are `guard` and `?`; `Top`, `TopFrame`, `NamePending`,
`InBuffer`, `SliceOf` and so on are the checked lookups. An operator that stands
right before another one of the same parameters and is used by nothing is a
mutant (see section 4).

### `CanonicalText` and `CanonicalWriter`: what is promised

`CanonicalText` is the reference: the grammar of canonical texts over the tokens
(`IsCanonical`), and the text of an object from its members (`ObjectTail`).
`CanonicalWriter` is the abstract writer, with none of the bookkeeping: a stack
of levels, each with the texts of its finished members; closing an object
appends its members, sorted, to the text around it; outside all objects the text
goes to the sink; a refusal may come at any time and is final; and what is
accepted is canonical.

### `WriterSafety`, `WriterRefinement`, `MCWriter` and the proofs

`WriterSafety` states the invariants, the action property and liveness.
`WriterRefinement` maps the writer's state to the abstract one: the text of a
span is its bytes with each closed object inside it replaced by its sorted text,
computed from the records, and the tasks of a running walk are the text that the
sink has not seen yet. `MCWriter` gives the constants values, and states the
claim of the documents that the code does not keep. `WriterProofs` holds the
theorems, and before those that need it the inductive invariant: how the stacks,
the records and the buffer of a writer that is not refused stand to each other.

### `Reader`: the parser and its arena

`Reader` is `read` of `src/read.rs` and the parser it runs. Its variables are the
parser's fields: `position`, the `stack` of open containers, the scratch stacks
`scratch_items` and `scratch_members` that all open containers share, and the
arena `slots`, `items`, `members`. `expect` is the local `Expect` of `run`, with
"Colon" for the point inside `member_name` between the name and its `:`, where
`name` is the local of that function. `answer` is what `read` returned.

*Tokens.* A token is one byte long: a punctuation mark, white space, a string, a
literal or a number, or a piece of text that is none of these. A string
or a number that they refuse is a token of its own (`Torn`, `Crooked`), reported
where it starts with one kind for all they may say of it; an unterminated string
is such a token too. A number whose double is infinite is `Huge`. The input is
disclosed token by token, as the parser comes to it, which covers every input
without enumerating them beforehand. What a token hides is the `Scanner`'s.

*Actions.* One per arm of `run` and `value`, with everything the arm calls:
`Close` is `close` and `complete` together, with the nodes and children they
move; what can be refused in them (`CloseRefusals`) is told from the state before,
since a refusal drops the parser. `DuplicateAt` is `check_unique_names`: the
result of sorting by name and offset and taking the first pair of equal
neighbours, whatever the unstable sort does. `Pointer` is `pointer` up to the
escaping of its text.

`JsonGrammar` is the abstract specification: the productions of JSON and a
leftmost derivation, which reads a token when some derivation goes on with it,
skips white space anywhere, and calls a token unexpected only when no derivation
goes on with it. Two leftmost steps bring a token to the front, which `Unexpected`
also asks for (`TokensFirst`), so that no alternative is missed. `ReaderRefinement` maps `expect` and
the stack of containers to what is left to derive, and defines what the scratch
stacks and the arena spell. `ReaderSafety` states the invariants; where a fault
is reported is told there from the input alone, by counting brackets, commas and
colons. `ReaderProofs` holds the theorems about these, with the inductive invariant
of how the stack, the scratch stacks and the arena stand to each other, and
`ReaderGrammarProofs` the one that the reader implements the grammar.

### `TreeEncoder`: the two walks

`TreeEncoder` extends `Writer` with its two drivers: `NodeRef::encode_into`, which
pops tasks, and `Value::encode_into`, which advances iterators. A driver's action
pushes one event of the writer; its next turn comes when the event has run
(`Accepting`), so its steps and the writer's effects interleave as in the code.
`unstacked` is the container whose bracket is produced and whose tasks or
iterator are still to be reserved: the reservation may fail there, through
`Writer::refuse`. `FinishEncoding` is the last line of `encode`. Both walks run
over trees, which for a `Document` is what `ChildrenComeFirst` and
`EveryNodeHeldOnce` say of the arena. `TreesAssumption` says what a tree is; a tree
may be of any depth. `TreeTurns` states what an encoder promises the writer,
`TreeProofs` proves it, and `TreeSafety` gives the canonical text of a tree as a
recursive definition.

### `Serializer`, `SerializerSafety`: serde

`Serializer` extends `Writer` with the serde driver of `src/encoder.rs`. A value is
the tree of serde calls it makes (`Leaf`, `Array`, `Object`, `Newtype`, ...), each
call a `script` of writer calls (`Opening`, `PartScript`, `Closing`); `calls` are the
compound serializers in use. The script, the writer's effects and the return of
an error through the implementations that are still running interleave as the
calls of the code do. `Guarded` says which calls pass `guard`: the others, those of
`collect_str`, `serialize_u128` and of wrappers, neither ask whether the writer was
refused nor make it so (`sticks`).

What serde leaves to the implementations is their `manner`: they *return* the error
of what they serialized, as derived ones do; they *swallow* it and go on, perhaps
without the value of a refused key; or a `Display` *ignores* that one of its
`write_str` calls was refused. `SerdeValues` gives the values for each manner.

A `Display` is the only text of which the writer's tokens are too coarse: it is
written in pieces, one to a `write_str`, each piece in the slices that
`escape_fragment` makes of it, and a slice in bytes. `SliceTaken` and `SliceRefused`
count a slice as a whole; a refusing sink may have taken any part of it
(`write_all`), the buffer takes all or nothing. A refusal ends the piece: the
`Display` returns it, or goes on with its next piece and an unrefused writer.

`SerializerSafety` defines the canonical text of a value, the reasons a value itself
holds to be refused, and what `Remains` of a value whose implementations go on after
errors: less some parts, or with pieces cut short.

`MemberNames` is the serializer of map keys: newtypes unwrapped, texts taken,
integers written piece by piece into `DecimalText`, everything else refused. The
buffer's size and the width of the integers are parameters.

`Shapes` extends it all with `src/shape.rs` and its derive: a type, its `Depth`, and
the values it has, which the serializer then encodes.

### `Unicode`, `EscapedText`, `Scanner`, `Escaping`, `NameOrder`: bytes

These are below the tokens of the modules above, byte by byte. `Unicode` has the two
encodings, and `EscapedText` the escapes of `src/escape.rs`. `Scanner` is what happens
inside one token of the reader: literals, strings and numbers, with the shared
`text` they are decoded into, one action per step of their loops (`phase` is where
they are). `ScannerSafety` reads RFC 8259 literally, a string as UTF-16 code units
with a spelling each and a number as a word of the grammar. `Escaping` is
`escape_fragment`: a pass that hands on runs and escapes as slices, any of which the
caller may refuse. `NameOrder` is `Unescaped::next` and `cmp_member_names`: two
names read back from their escaped text, a byte of each in turn.

### `IntegerNumbers`, `DropValue`, `Sinks`, `Identity`

- `IntegerNumbers`: the integers of `src/number.rs`, `Writer::signed` and
  `unsigned`, and the choice `Value`'s encoder makes between them, with machine
  integers and significands of any width. A double is the integer it stands for.
- `DropValue`: `drop_value` of `src/value.rs`, a value as nodes with parents.
- `Sinks`: a row of vectors, hashers and `io::Write`s, which is what nested pairs
  are, fed from left to right. An `io::Write` takes a write in parts. What the
  entry points return, and how a digest is seeded, is here too.
- `Identity`: the constructors of the components of a reference, their derived
  deserialization, the derived order under a `BTreeSet`, and `semantic_eq`.

### `MCTree`, `MCSerializer`, `MCTexts`

Each of these instances checks components that share no state in one run:
`subject` picks one of them at the start of a behaviour, and the others rest in an
initial state. Where a property belongs to an instantiated component, the MC
module names it again (`ComparesNames == Order!ComparesNames`).

### `SequenceFacts` and the proof modules

`SequenceFacts` holds lemmas about sequences and finite sets. `WriterProofs`,
`TreeProofs`, `ReaderProofs`, `ReaderGrammarProofs`, `ScannerProofs`,
`NameOrderProofs` and `SinksProofs` hold the theorems. The inductive invariants of the writer and the
reader were given to TLC, on the instances of section 3, before they were proved;
no run checks them, since the theorems do.

## 3. What is checked

Twelve runs; four of them show a finding and are expected to fail. In the runs
of the writer and its drivers there are two names, which sort against their
spelling, and one scalar, since scalars are told apart by nothing. Deadlock is not
an error in the runs, because `finish` consumes the writer, `read` and `encode`
return, and what is taken apart is gone.

| Run | Instance | Shows |
|---|---|---|
| `writer` | 10 bytes, all containers | `TypeOK`; `EveryByteCountedOnce`: between events the count is the bytes in the sink and in the buffer and the commas and braces that closed objects still owe; `NothingLeftBehind`: between objects of a streamed array the buffer and all records are empty; `RefusalIsFinal`; `ImplementsCanonicalWriter`, and with it that what `finish` accepts derives from the grammar |
| `records` | 17 bytes, objects only | `RecordsStandForBytes`: the "Bounds" section of the writer's documentation, with what each record stands for made precise; `RecordsInWrittenOrder`: what the walk's searches rely on; `ImplementsCanonicalWriter` with two levels of sorting |
| `offsets` | 12 bytes, offsets up to 6 | `NoInternalFault`: no `Error::Internal`, in particular none from `index_u32` although offsets overflow; `EventReturns` |
| `reader` | 9 tokens of every kind | `TypeOK`; `ImplementsGrammar`: a document is returned only for a text of the grammar, and a text is called malformed only at the first token that no text goes on with; `ReadReturns` |
| `reader_tree` | 13 tokens: punctuation, two names, a huge number | `TreeSpellsInput`: at every point the open containers and the arena spell exactly what was read; `EveryNodeHeldOnce`: the arena is a tree, linear in the input; `ChildrenComeFirst`: it is acyclic and its ranges are inside its vectors; `PointerIsPath`: a number without a double is reported with its path; `DuplicateAtLaterName`: a duplicate is reported at the later of two names of the object being closed, and no finished object has one |
| `encoders` | trees of two levels of containers; 4, 6 and 8 bits for 53, 64 and 128; values of 5 nodes; three sinks | `EncodesTheTree`: a reported success is the tree's canonical text; `NeverOutOfTurn`: only limits, memory, the sink or a number refuse an encoding, and it finishes complete; `StackBounded`: the documented bounds of both stacks; `NothingIsRounded`: an integer is written exactly or refused, and refused only where doubles skip integers; `EveryNodeOnce`: `drop_value` drops each node once and none with its children in it; `RowInStep`: sinks hold beginnings of one text, at most one write apart; `OnlyTheWholeIsReturned`: bytes and digests only of the whole text; `SplitIsUnambiguous`: of label and text |
| `serde` | values of two levels of compounds, 21 bytes; types of two constructors; keys of 8 bits; 3 references | `EncodesTheValue`: a success is the canonical text of the value, if errors are returned; `RefusedForCause`: and a refusal has its reason in the value or in a limit, never in the driver; `DamageIsContained`: if implementations go on after the errors of guarded calls, a success is the canonical text of the value less some whole parts, and if Displays go on after those of `write_str`, it differs from that of the value between the quotes of their texts only, in pieces that are cut short; `DepthBounds`: no value is deeper on the writer, or in calls, than its type's `DEPTH`; `NamesSpellKeys`: keys do not collide and never overrun their buffer; `ComparedByWholeKey`: no reference is lost in a set, and objects are compared only within an authority and a kind |
| `texts` | strings of 3 pieces, numbers of 5 bytes, canonical strings and texts of 3 characters, names of 2 | `DecodesCodeUnits`: a string is accepted exactly if its code units are UTF-16, and becomes that text; `RefusedAtItsFault`: the first fault is reported, at its place; `TextFitsInput`: what is reserved from the input's length suffices; `ScansNumbers`: a number is accepted exactly if it is one, as far as it goes; `ReadsCanonicalText`: what `escape.rs` writes, `read.rs` reads back, and encodes again to the same; `SlicesSpellTheText`, `SlicesKeepCharacters`: a refused slice leaves a prefix, of whole characters; `ComparesNames`: the order of members is that of their names' UTF-16, for names read back as they were |
| `held_whole`, `serde_unguarded`, `serde_display`, `identity_read` | | a violation each: see section 6 |

*Bounds, writer.* The only bound is `MaxBytes`, which is the program's own byte
ceiling, so the bound is also the refusal under test. 10 bytes hold an object with
two members, an object inside an object (`{a:{b:0}}` is 9), an object after another
one in an array, and wrappers around and inside objects. 17 bytes hold
`{a:{a:0,b:0},b:0}`: two levels with two members each written out of order, which is
what the sort of a shared stack, the child searches and the walk can get wrong;
and three levels of nesting, or several empty objects side by side. In `offsets`
the ceiling is twice the largest offset, so that an object can grow past its
offsets at each of the places that check them.

*Reader.* `MaxInputBytes` is the program's limit too. 9 tokens of every kind hold
every pair of neighbouring tokens in every state of the automaton, in and after
containers, such as `{"a":["a"]}`. 13 tokens without the kinds that only end the
reading hold `[{a:[b]},a]`, `{a:{},b:{}}` and `[[a],[a,b]]`: containers of both kinds
inside both, with siblings before and after them; and every prefix of a longer
text counts, since the invariants speak of unfinished containers too. Strings are
the only leaves there: the reader does the same with every scalar that has a value,
and strings are names as well. 13 are also `{a:a,a:b,a:a}`, three equal names in
their first order or another, and more than `[[],{b:[[],1e400` needs, where every
open container has an earlier sibling that is a container.

*Drivers.* The trees of `encoders` have texts of up to 25 tokens, so that its 20
bytes stop the larger ones midway; a ceiling of 21 stops the larger values of
`serde`. Their `Display` has two pieces: an escape of two bytes and a run, then a
character of four bytes, so that a cut piece has something after it. Two of them in
an object fit the ceiling exactly when the last character is left out: what the
ceiling itself refuses can be missing from a success. Those have every leaf, and every way for one to fail, in every place of a
compound, compounds of every kind inside and next to each other, and maps whose
keys and values come out of turn. Two constructors on top of each other are what
`DEPTH` combines at once.

*The others.* With 4, 6 and 8 bits there are integers below, at and above the bound
in both widths and both signs, doubles that tie between two integers, and
integers above every long one. Five nodes have a container between two
siblings below another one. Three sinks have one left and one right of the one
that fails. An `i128` needs 40 of `DecimalText`'s 40 bytes, and the keys of 8 bits
all of their 4. Three references in a set can differ in three ways. Characters are
those on both sides of every boundary of UTF-8, UTF-16 and the escapes; two of them
are a pair of surrogates with something wrong before, between or after, and the
first difference of two names has a byte before it.

*Fairness.* `EventReturns` assumes `WF_vars(RunEvent)`: an admitted event keeps
taking its steps. The code runs them in one call without waiting for anything,
and no other action is enabled meanwhile. Nothing is assumed about the caller,
who may stop pushing, nor about a sink or an allocator, which may always fail.
`ReadReturns` assumes `WF_vars(Next)`: `read` is one call that loops over input
which is all there and waits for nothing.

## 4. Mutants

Every property is paired with a mutant of a definition, which is a mistake the
code could plausibly hold: the ceiling checked before the length is added; the
commas counted but not the brace of an empty object; the closed records kept
after the walk; the child searches exclusive instead of inclusive; `guard`
without its check; entries of a closed object left on the shared stacks; a value
admitted without a name; a walk that keeps an empty byte task; members not
sorted. For the reader: a member's value given to the first name on the shared
stack instead of the last; children left on the scratch stacks; a comma after
which the container may end; an inclusive range of children; the first of two
equal names reported; a pointer taken from the end of the shared stacks for every
container; white space that is not consumed; a limit off by one. For the drivers:
tasks pushed in order instead of in reverse; an iterator kept after its end; a
`Display` without its closing quote; a wrapper left open; calls that do not pass
`guard`; a refused slice that does not end its piece; a variant's depth without its wrapper; the second piece of a key written
over the first. For bytes: a surrogate shifted without its offset; a fault of a pair
reported at its first half; a run that starts one byte off; digits after a
leading zero; an order with half of the private-use area below the surrogates. For the rest:
an object's children not moved out; a partial write repeated from its start; a
label without its length; a key compared without one of its parts. TLC must find
each property violated with its mutant in place.

## 5. What is proved

TLAPS checks `WriterProofs` for every value of the constants, from the
assumptions of `Writer`: names and scalars are not punctuation, `Rank` is
injective into the positive numbers, and the two bounds are natural numbers.

- `TypeCorrect == Spec => []TypeOK`. `TypeOK` is inductive as it stands, because
  the code checks what it stores where it stores it: every offset passes
  `buffer_offset`, every index `index_u32`, every count `count`. There is one
  lemma per action, and lemmas about the operators: a slice of a list within its
  bounds, a sorted list, a truncated one, the tasks of a member. That the
  children inside a member are a piece of its object's list rests on a count of
  a subset being at most the count of the set.
- `RefusalFinal == Spec => RefusalIsFinal`. The inductive invariant is `Settled`:
  a refused event has nothing left to do, neither has a finished writer, and what
  `finish` accepted was not refused. Without the first part a running event could
  go on after its own refusal; without the last, `finish` could have accepted a
  writer that is refused later.

The rest is about a writer that is not refused, in every state between two effects
of an event:

- `AlwaysConsistent == Spec => []Faultless`, where `Faultless` is `~refused =>
  Consistent`, an invariant with five parts that need each other.
  `Control` says what an event has left to do: a value is recorded and an object
  opened last, a bracket is pushed after its bytes. `Framing` says that there is a
  frame for each open object, that a name is pending in each of them but perhaps
  the innermost, and that their places in the buffer and in the shared lists
  ascend. `Counting` says that every record of an object stands for bytes of its
  own in the buffer, so that wherever an offset fits, so does an index.
  `Recorded` says that all spans lie in the buffer and all ids in the lists, in the
  tasks of a walk too. `Holding` says that outside all objects and outside the walk
  nothing is held.
- `NeverInternal == Spec => []NoInternalFault` and `ObjectsLeaveNothing == Spec =>
  []NothingLeftBehind`. For the first each lookup of the code must succeed: a
  frame where an object is closed (`FramesMatch`), a pending name where a value
  completes (`NamesPend`), an index that fits (`Counting`), a record for each
  task of the walk (`Recorded`). The second is `Holding` between events.
- `AlwaysInWrittenOrder == Spec => []RecordsInWrittenOrder`, what the
  binary searches of the walk rely on. It needs `OrderKept` besides `Consistent`:
  open members end before the next one starts and before the pending name of the
  frame they are in, and children that a frame found end before it starts. A close
  moves members sorted by name, but children in written order; that the children
  of an object end inside it is what the order between frames gives.

`ReaderProofs` does the same for the reader, from the assumptions that the kinds of
tokens are disjoint, that `Rank` tells names apart and that the limit is a
natural number.

- `ReaderTypeCorrect == Spec => []TypeOK`: inductive as it stands; positions and
  reported offsets stay inside the input although a duplicate is reported through
  an offset that was stored long before.
- `ArenaAcyclic == Spec => []ChildrenComeFirst`. It is not inductive: a container
  takes its children from the scratch stacks. The invariant `Acyclic` adds that
  every id there is that of a node (`ItemsMade`, `MembersMade`), except for the
  placeholder 0 of a member whose value is still to come, and that this
  placeholder never reaches an empty arena: after a value there is a node, and
  right after `{` the object has no member (`Expected`). `ArenaGrows` is the
  lemma that a node appended after its children keeps the arena acyclic.

- `NodesHeldOnce == Spec => []EveryNodeHeldOnce`. The shared scratch stacks are
  the difficulty: which part of them belongs to which open container, and which
  member still waits for its value. `Nested` says that the parts of the
  open containers follow each other as the containers do on the stack, and that one
  whose child is being read has a member for it. `Turn` says that what is expected
  fits the innermost container, `Bottom` and `Outside` that the first container of
  a kind found its scratch stack empty. With these an id is put where it belongs,
  and each step keeps `NodesHeld` (the ids held are those of all nodes but the
  root), `PlacesCounted` (there are no more places than nodes; a set of ids and its
  size together mean that no id is held twice) and `BytesRead` (the arena is linear
  in the input: every node, name and bracket was a byte of its own).
- `AlwaysAtLaterName == Spec => []DuplicateAtLaterName` and
  `AlwaysPointsAtNumber == Spec => []PointerIsPath`. That no object of the arena has
  two members of one name is `NamesDistinct`: the check looks at neighbours after
  sorting by name and offset, so it relies on names being pending in the order they
  were read in (`NamesAscend`): two equal names have different offsets, and one of
  them is then found. *Where* a duplicate or a number is reported is said of the
  input alone (`Parents`, `Path`: brackets, commas and colons), while the code reads
  it off the shared scratch stacks. `Located` is what ties the two: the stack is the
  containers that the next token is in, one at each depth and of the kind of its
  bracket (`StackIsParents`); the name kept is the latest one read, directly in
  the object (`NameRead`); and the part of a scratch stack that belongs to an open
  container holds, for an object, members with the name and offset before a colon
  directly in it, the last one from the last colon, and for an array as many
  items as the commas directly in it account for (`ChildrenSigned`). A token
  changes depths and parents only by its own bracket, which the lemmas on `Depth`,
  `Parents` and `Directly` say for each kind of token; a container that closes
  takes exactly its own part of a scratch stack with it (`Nested`), so the counts of
  those around it stand.

`ReaderGrammarProofs`, from those and the assumption that the symbols of the grammar
are no tokens:

- `ReaderImplementsGrammar == Spec => ImplementsGrammar`: every step of the reader is
  a step of the derivation or none. What is left to derive is read off `expect` and
  the stack (`Rest`): the ends of the open containers, innermost first, after a part
  of the innermost one. `EndsInwards` says that an open container adds exactly its
  own end to those around it. For each thing that may be expected one lemma
  (`ValueNext`, `NameNext`, `ColonNext`, `SeparatorNext`, `NothingNext`) says which
  tokens the grammar allows there and what is left after each, from the productions
  and two leftmost steps; then each action consumes a token that is allowed, and each
  refusal of a token is of one that is not. `Turn` of the inductive invariant is what
  makes the lemmas apply: the separators and ends that the code looks for are those
  of the innermost container. Two refusals of `complete`, of a value that finds no
  member to go to, would break the theorem: `MemberForLeaf` and `MemberForClosed` show,
  from `Nested`, that the code never comes to them, and the same holds of a `close`
  that does not fit (`ClosedIs`) and of an end with an empty arena (`Turn`).

`TreeProofs`, from the writer's invariant and the assumption that what an encoder is
given are trees over the writer's names and scalars, with no name twice in an object:

- `EncodersInTurn == EncodeSpec => []NeverOutOfTurn`, for either encoder and trees of
  any depth. The writer checks its protocol by its stack and its frames; an encoder
  keeps tasks or iterators of its own, and nothing in the code compares the two. The
  invariant does: while nothing is refused there is a `path` of containers from the
  tree's root, each with the number of its children taken from the work and
  the number visited, that everything follows (`EncodingFollows`). The writer's stack
  is the path's containers, but for one being opened or closed (`StackFollows`), and
  its frames are the path's objects. A name is pending in the innermost object
  exactly when a member is taken and not visited (`PendingFollows`). The members
  recorded of each object are the children taken, each under its own name in the
  buffer (`NamesFollow`), so that the names an object is closed with are different
  because the tree's are. And the work is what is left of the path: for
  `NodeRef` an end for each level with the tasks of the children not taken above it
  (`TasksFollow`), for `Value` an iterator over the rest of each level's children
  (`IteratorsFollow`). Every turn takes the next child of the innermost level, enters
  it or leaves the level (`TurnGoes`). That no turn ends in `Error::Internal` is
  `Sound`, the invariant of the writer, which the turns keep since each is an event
  of the writer (`EncoderMoves`).

`SinksProofs`, from the assumptions that the row is finite and that its sinks are of
the three kinds, that writes and labels are sequences of bytes, and that the
length of a label can be written:

- `RowStaysInStep == SinkSpec => []RowInStep` and
  `WholeReturned == SinkSpec => []OnlyTheWholeIsReturned`, for a row of any length.
  The invariant `IInv` says what each sink holds: its seed, the writes of the past,
  and of the write under way the whole left of `turn`, `part` of it at `turn`, and
  nothing right of it (`HeldIsTaken`); only an `io::Write` is ever in the middle of
  one (`PartsOfWriteSinks`); and what was returned was all there when nothing was
  under way (`ReturnedWhole`, `RunningReturnsNothing`). `RowInStep` alone is not
  inductive: it does not say where in the row the write is.
- `LabelsTellApart`: no text makes a label hash like another one, and
  `SplitUnambiguous == SinkSpec => []SplitIsUnambiguous`, the same of what was
  returned: it is label and text in one way only, since the label's length is
  written before it.

`ScannerProofs`, for every set of inputs that are bytes:

- `PairsDecode`: for every pair of surrogates the shifts of `unicode_escape` give
  the scalar value whose UTF-16 it is, so `char::from_u32` does not fail there.
- `ScannerFits == Spec => [](TypeOK /\ TextFitsInput)`: an escape is never shorter
  than the UTF-8 it becomes, over the whole input.

`NameOrderProofs`, about all scalar values, not only those of the run:

- `FirstDifferenceIsUtf16`: the order that `utf16_order_of_first_difference` gives
  two different bytes is that of the characters' UTF-16, and `Utf8TellsApart`:
  there is such a byte, since no character's UTF-8 begins another's. The proofs
  split characters by the length of their UTF-8.

Only model-checked:

- `EventReturns` and `ReadReturns`: liveness.
- `ImplementsCanonicalWriter`, `TreeSpellsInput`, `EncodesTheTree`, the properties of `serde` and those of the strings, numbers and
  canonical texts of `texts`: their reference definitions are recursive over the
  data (the text of a span, the text of a tree), on
  which the provers have no induction. `StackBounded` counts the nodes of a tree by
  such a definition.
- `EveryByteCountedOnce` and `RecordsStandForBytes`: sums over the records, by a fold.
- `NothingIsRounded`, which needs powers of two, and the other invariants of
  `encoders` and `serde`: not yet (see the plan).

## 6. Findings

- **The opening brace is not held back** (`held_whole`). `src/writer.rs` 28-30
  says that "a top-level *object* is held whole until it closes, and the sink
  sees its first byte only then", and `src/sink.rs` 8-9, `README.md` and
  `docs/encoding.md` say the same. `begin_object` produces its `{` before it
  pushes the frame that makes `produce` buffer, so the outermost `{` reaches the
  sink at once. What the sink holds is still a prefix of the canonical text
  (`ImplementsCanonicalWriter`), and a sink that fails is noticed earlier.
- **A refusal past the guard is forgotten** (`serde_unguarded`). `begin_wrapper`,
  `collect_str` and `serialize_u128` do not pass `guard` (`src/writer.rs` 744,
  `src/encoder.rs` 171 and 254), so their refusal is not remembered by the writer. A
  `Serialize` implementation that drops such an error and goes on has its next
  calls accepted: `encode` reports `[{]` as a success, while `src/error.rs` 5-8 says
  that the encoder never returns a shortened or partial result as success. With
  errors swallowed only of guarded calls, the property holds (`serde`).
- **A string is shortened, or cut in a character, and reported as a success**
  (`serde_display`). `collect_str` learns of a refused `write_str` only if the
  `Display` returns the error (`src/encoder.rs` 249). One that drops it loses the
  rest of the piece, and its next pieces and the closing quote are accepted, since
  the call is not under `guard`. The rest may have been refused by the sink, by an
  allocation, or by the byte ceiling; and `write_all` may have written half of an
  escape or a character before it failed (`src/sink.rs` 71). `src/error.rs` 5-8 rules
  out "a shortened or partial result as success", and `src/lib.rs` 58-60 "truncated
  output as success". `DamageIsContained` (`serde`) says how far the damage goes:
  not beyond the quotes.
- **Empty components can be read** (`identity_read`). The components derive
  `Deserialize`, which does not know their constructors (`src/identity.rs` 177), and
  `AuthorityQualifiedSubjectReference::new` takes them as non-empty, as 311-315 say.

Met while modelling, and too small for a run of their own:

- An error swallowed around a newtype variant leaves its wrapper open, and the next
  value is refused as `Error::Internal`, which `src/error.rs` 163-164 calls a fault
  of the encoder.
- An input that ends inside a number, a literal or a `\u` escape is reported as
  `InvalidNumber`, `UnexpectedCharacter` or `InvalidEscape` (`src/read.rs` 1033, 800,
  1012), not as an end that came too early (`src/read.rs` 100).

## 7. Plan

Modelled: the writer; the reader and its scanners; the serde driver, its map keys
and the types with a fixed shape; the two tree encoders, `drop_value` and the
numbers; escapes and the order of members; the sinks and what the entry points
return of them; the identity types.

Left, in this order:

1. Proofs for the small components: `EveryNodeOnce`, `SlicesSpellTheText`,
   `ComparedByWholeKey`.
2. The accessors of a `Document` (lookups by name and index, the iterators of
   containers) against `ChildrenComeFirst`.

## 8. What is not modelled

- The digits of a double come from the `ryu_js` crate and the hash from `sha2`; a
  digest stands here for the bytes hashed. Which doubles are finite is given by the
  inputs.
- `DEPTH` is a constant computed by rustc, which refuses a cyclic one; serde
  attributes that replace or flatten fields are outside what the derive promises.
- The wording of errors, their payloads where no property is about them, `Debug`,
  `Display` of a digest and other formatting.
- The accessors and iterators over a finished `Document`, which keep no state.
- Tests, examples, benchmarks and the release tooling of the repository.
