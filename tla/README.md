# Verification project for the PolyGen C++ support library

The code under verification is `src/static/cpp/polygen_support.hpp`. It is the
runtime that code generated by PolyGen uses for several things:

- binary (de)serialisation of generated types;
- CSV and JSON loading;
- in-memory tables with primary-key and foreign-key indexes.

The tests in `src/tests/runners/cpp/tests/` run that generated code against
the header. The generated code itself (`schema.hpp`, `schema_loaders.hpp`,
`schema_container.hpp`) is not in the repository. Where it matters, it is
modelled from `spec.md` and marked `spec_modelled` in `PROJECT.json`.

## 1. Inventory

| Component | Code (lines of the header) | State | Operations |
|---|---|---|---|
| Wire codec: `BinaryWriter` | 161-282 | an `ostringstream`; a pointer to the caller's `std::vector<uint8_t>` | `write_u8..write_f64`, `write_bool`, `write_string`, `write_bytes`, `write_optional(_string)`, `write_vector`, `write_enum`, `flush`, destructor (flushes) |
| Wire codec: `BinaryReader` | 28-159 | an `istringstream` (a copy of the buffer), its position and fail bit | `read_*` for every kind; `check_read` throws `runtime_error` on a short read |
| `UniqueIndex<K,V>` | 566-610 | `unordered_map<K, V*>` | `insert` (overwrites), `get` (nullptr if absent), `contains`, `clear` |
| `GroupIndex<K,V>` | 612-658 | `unordered_map<K, vector<V*>>`; a static `empty_` | `insert` (push_back), `get` (reference to the live vector or to `empty_`), `contains`, `clear` |
| `DataTable<T>` | 664-698 | `std::deque<T>` | `add_row`, `count`, `operator[]` (mutable), iteration, `rows()` (mutable), `clear` |
| Generated table / schema container | not in `src/` (spec 4.5) | one `DataTable` per table, one index per key | `add_row` = store the row, then insert its address into every index; `clear` = clear the store and every index; `get_by_*` |
| `CsvReader` | 288-396 | stream, header map, current row | constructor (reads the header), `next`, `get`, `parse_line`, `parse_*` conversions |
| `JsonValue` / `JsonParser` | 405-560 | a cursor `pos` into the text | `parse_value`, `parse_string/number/bool/null/array/object` |
| File helpers | 704-731 | none | `read_file`, `read_binary_file`, `write_binary_file` |
| Pack codec | generated code, not in `src/` | none | `pack`, `unpack`, `try_unpack` (tests/10) |

**How the parts interact.** A generated `write_T(writer, value)` calls the
writer once per field, in declared order. Nested values (optionals, vectors,
embeds) go through callbacks. A generated `read_T(reader)` makes the same calls
on the reader. Each generated table owns a `DataTable` and its indexes. Its
`add_row` pushes the row and then inserts the address of the stored copy
(`V*`) into every index. So the indexes point *into* the deque. This is why
the deque must never move a row, and why `clear` has to reset the store and
every index in the same step. Lookups hand out those raw pointers to callers.

**What is hard to test here.** Nothing runs concurrently: spec section 5 says
it is single-threaded, and the code has no threads, locks or callbacks across
threads. The difficulty is in sequences of calls and in boundary values:

- stale addresses after `clear` and slot reuse;
- rows mutated in place behind an index;
- duplicate keys (last write wins);
- a writer that has not flushed yet;
- truncated or corrupt input;
- length prefixes at their 32-bit limit;
- allocations sized by untrusted input;
- parser loops that do not advance.

`PROJECT.json` "hazards" lists each one at its line.

**What makes each component correct.**

- Codec:
  - every value round-trips;
  - a decode of incomplete input fails with the truncated-input error and
    never returns a wrong value;
  - a complete buffer never fails;
  - the caller's vector holds the writer's whole output once the writer is
    gone.
- Table and indexes:
  - `get_by_id(k)` returns the last stored row with key `k` and nothing for
    keys no stored row has;
  - `get_by_fk(g)` returns exactly the stored rows with foreign key `g`, in
    insertion order;
  - stored rows never move;
  - after `clear` nothing is found.
- JSON parser: it reads back what a JSON writer wrote, `pos` never passes
  the end of the text by more than one, and it returns on every input.
- CSV reader: a loader reads back the header and every row that a quoting
  writer wrote, including quoted delimiters and doubled quotes.

## 2. Modules

| Module | Models | Kind |
|---|---|---|
| `DataTable` | `DataTable<T>` | component. Variables `rows` (the deque, as slot addresses in insertion order) and `heap` (the row each slot holds). Actions `add_row(r, a)` (the allocator picks a free slot `a`) and `clear` (frees the table's slots). Operators `count`, `At`, `Live`. |
| `UniqueIndex` | `UniqueIndex<K,V>` | component. Variable `index`, a function whose domain is the set of keys present. Actions `insert` (overwrite) and `clear`. Operators `get`, `contains`. |
| `GroupIndex` | `GroupIndex<K,V>` | component. Variable `index`: key to sequence of addresses. Actions `insert` (append; a missing key starts as the empty vector) and `clear`. Operators `get` (the empty sequence for an absent key), `contains`. |
| `TableSpec` | the table the spec promises (spec 3, 4.5) | abstract specification. Variables `tbl` (rows in insertion order), `idx` (key to row), `grp` (foreign key to its rows in order). Actions `Add(r)` and `Reset`. |
| `IndexedTable` | one generated table | composition. It INSTANCEs the three components on shared variables. `AddRow(r)` is one action: the store, the primary-key index and the foreign-key index change together. `Clear` resets all three. `UpdateRow` is a write through `operator[]`; it is used only by a violation run. `Abs` instantiates `TableSpec` with every address read through `heap`; `AbsSpec` is its specification. |
| `IndexedTableProofs` | | TLAPS proofs for `IndexedTable`: types, `IInv`, `UniqueIndexExact`, `PointerStability`, the refinement |
| `GroupIndexProofs` | | TLAPS proof of `GroupIndexExact` |
| `LeastElement` | | the least-element principle for the naturals (`LeastNat`), from `WellFoundedInduction` |
| `WireSessionProofs` | | TLAPS proof of `WriterFlushes`, with the type of `Concat` and of every field encoding |
| `CsvHeaderProofs` | | TLAPS proof of what `IndexOf` (`header_index_`) computes |
| `JsonParserProofs` | | TLAPS proof of the JSON parser's `TypeOK`, with bounds on every scanning helper |
| `WireCodec` | `BinaryWriter` / `BinaryReader` encoding and decoding | pure operators. Bytes are digits in base `ByteBase` (256 in the code). An N-byte integer is N digits, little-endian and two's complement, so each width keeps its boundary values (0, max, min, -1). A float is its bit pattern; an enum is its `i32`. A read returns the *set* of its possible outcomes `[err, val, pos]`. An allocation above `MemLimit` may throw `bad_alloc`. |
| `WireSession` | one message written, flushed and read back | state machine. Writer: `out`, `vec`, `alive`, `written`. Reader: `ropen`, `buf`, `pos`, `decoded`, `rerr`. Actions: `WriteField` (one field of the generated `write_T`), `Flush`, `Destroy` (destructor), `OpenReader(m)` (a reader on the first `m` bytes of the vector), `ReadField` (one field of `read_T`), and `OpenCorrupt` (used only by a violation run). |
| `JsonParser` | `JsonParser::parse` and every `parse_*` | state machine. The C++ recursion becomes an explicit `stack` of frames (an array being filled with its `open` position, or an object with its fields and pending key) and a `mode`: `value` (a `parse_value` call is due at `pos`), `ret` (a call returned `ret`), `done`, `thrown` (`stod` threw). One action per return point: `ParseScalar` (string, number, bool, null, anything else), `OpenArray`/`OpenObject` (entry up to the first element), `ArrayElem`/`ObjectField` (one turn of the loop), `Finish`. The alphabet is abstract: quote, backslash, whitespace, digit, `-`, `n`, a letter, the punctuation, and `true`/`false`/`null` each as one symbol (what `substr(pos, 4) == "true"` reads). A number is its sign and its count of leading digits. The constant `Inputs` holds the texts parsed, each with the document it was written from (or `NoDoc`); `InputsAssumption` says each text is over the alphabet. `parse_string`'s loop is a recursive function, not a `RECURSIVE` operator, so the module can be proved about. |
| `JsonWriter` | a reference JSON writer | `Serialize`, the text a writer produces for a document (escapes, keys in order, commas). `RECURSIVE`, and kept out of `JsonParser` for that reason. `MC_JsonParser` builds `Inputs` from it. |
| `CsvHeader` | the constructor's `header_index_` loop | pure operator `IndexOf`: each name to its last 0-based column. Kept out of `CsvReader` (whose `Split` is `RECURSIVE`) so that it can be proved about. |
| `CsvReader` | `CsvReader` constructor, `next`, `get(column)`, `parse_line` | state machine over a stream of characters (quote, delimiter, `LF`, letters). `Init` is the constructor (header line, `header_index_`), `next` is `getline` plus `parse_line`. A reference quoting writer produces the stream. |
| `MC_*` | | TLC instances: small constants as definitions |

## 3. Runs

| Run | cfg | Expect | What it shows |
|---|---|---|---|
| `table_indexes` | `MC_IndexedTable.cfg` | pass | From the empty table, every sequence of `add_row` over all 4 row values and `clear` keeps both indexes exact, keeps stored rows in place, and implements `TableSpec` (`AbsSpec`). The run checks `UniqueIndexExact`, `GroupIndexExact`, `PointerStability` and `AbsSpec`. Three slots are enough: a table can fill up, `clear` frees slots that the next `add_row` reuses (the stale-address case), and a third row repeats a key (the last-write-wins case). 493 states. |
| `table_in_place_update` | `MC_IndexedTable_update.cfg` | violation | A caller writes a row through `DataTable::operator[]` (which returns `T&`). `UniqueIndexExact` fails after two steps: the index still maps the old key to that row. |
| `wire_roundtrip` | `MC_WireSession.cfg` | pass | The message is `i64`, `optional<u16>`, `vector<string>`, `bool`, `string`, over every boundary value of each field. It is written with any number of flushes and read from the whole buffer or any prefix, possibly before the last flush. The run checks `DecodeSound`, `DecodeFailsOnlyWhenTruncated` and `WriterFlushes`. Bytes are base 4, so a u16 ranges over 0..15 and an i64 over -32768..32767. 77,001 states. |
| `wire_length_wrap` | `MC_WireSession_wrap.cfg` | violation | With base-2 bytes the u32 prefix holds 0..15. A 16-byte string stands in for a 2^32-byte one. Its prefix wraps to 0 and `DecodeSound` fails. |
| `wire_corrupt_alloc` | `MC_WireSession_alloc.cfg` | violation | A corrupt buffer whose vector count is the largest u32: `reserve` asks for more than `MemLimit` before any element is read, and the decode throws `bad_alloc`, which breaks `DecodeFailsOnlyWhenTruncated` (spec section 7 allows only the truncated-input error). |
| `json_parse` | `MC_JsonParser.cfg` | pass | Nine documents (every kind, a string with every escape, a negative number, arrays in objects, objects in objects) are written and parsed back (`RoundTrip`). Every text of up to three characters over `{`, `}`, `:`, `,`, quote, a letter, `-`, a digit and whitespace, plus malformed arrays, objects and strings that end in a backslash, is parsed: `pos` passes the end of the text by at most one (`TypeOK`), and every element an array holds consumed a character (`ArrayProgress`). The short texts leave out `[`: `parse("[x")` never returns (the next run), so a text set holding it has no finite state space. That parse returns is therefore not checked as a liveness property here; the violation run shows where it does not. The texts include `{"":d, ` (an object whose next key would start at the end of the text), the one kind of text on which `pos` ends one past the end. 2,638 states. |
| `json_array_no_progress` | `MC_JsonParser_loop.cfg` | violation | `parse("[x")`: `parse_value` returns null without consuming `x`, neither `,` nor `]` follows, and the loop repeats at the same position (`ArrayProgress` fails in 4 states). |
| `csv_roundtrip` | `MC_CsvReader.cfg` | pass | Tables with a two-column header and 0, 1 or 2 rows over five fields (empty, a letter, a quote, the delimiter, a mix) are written by a quoting writer and read by a loader: `RowsReadBack` (header, every `get(name)`, and `next()` false exactly after the last row) (that the header index is 0-based and in range is proved, `IndexOfType`). 111 initial tables, 432 states. |
| `csv_quoted_line_end` | `MC_CsvReader_lineend.cfg` | violation | A quoted field holding a line end: `getline` cuts the record inside the quotes, and the loader reads a row that was never written. |

Each property of a passing run has a mutant: a plausible bug in the mapped
code that TLC must catch. The faulty variants are defined just before the
definition they replace:

- `clear_keeping_keys`: a `UniqueIndex::clear` that nulls the pointers but
  keeps the keys (a second mutant for `UniqueIndexExact`, for the stale
  entries after `clear` and slot reuse);
- `insert_keep_first`: `map::insert`, which does not overwrite;
- `insert_front`: a group insert that prepends;
- `add_row_relocating`: a `std::vector` that moves its rows when it grows;
- `add_row_reusing`: an allocator that may hand out an occupied slot (kills
  `AbsSpec`);
- `read_fixed_unsigned`: the signed cast is missing;
- `read_blob_off_by_one`;
- `FlushAppend`: `flush` appends instead of assigning;
- `StrFrom_close_unguarded`: `parse_string` skipping the closing quote
  without the `pos < size` check, so a string that runs to the end of the
  text leaves `pos` one past it, and a key that opens at the end two past;
- `Unescape_no_newline`: the `'n'` case of the escape switch is missing;
- `AfterElem_keep_comma`: `continue` on `,` without `++pos`;
- `SplitNoEscape`: a `parse_line` in which every quote toggles quoting.

**Fairness.** None is assumed: every property checked is a safety property
(or, for `AbsSpec`, a refinement of a specification without fairness). The
writer, the reader, the parser and the CSV loader are finite programs, so
their runs set `CHECK_DEADLOCK FALSE`. The table's `Clear` is always
enabled, so its run checks deadlock.

## 4. Proofs

`IndexedTableProofs` proves the following for every set of slots, keys and
foreign keys, under `TableAssumption` (`NoRow` is not a row and `Null` is not
an address):

- `IInvInvariant`: `Spec => []IInv`, the inductive invariant the others
  rest on;
- `TypeCorrect`: `Spec => []TypeOK`;
- `UniqueIndexExactInvariant`: `Spec => []UniqueIndexExact`;
- `PointerStabilityHolds`: `Spec => PointerStability`, the action property
  that a step which keeps rows stored moves none of them;
- `Refinement`: `Spec => AbsSpec`, that the table with its slots and indexes
  implements `TableSpec`.

`GroupIndexProofs` proves, under the same assumption:

- `GroupIndexExactInvariant`: `Spec => []GroupIndexExact`, that every
  `get_by_fk(g)` lists exactly the stored rows with foreign key `g`, each
  once, in deque order, and that the group map has an entry only for keys a
  stored row has.

`GroupIndexExact` is written without `SelectSeq`: the library has no lemmas
about it, and its recursive definition cannot be unfolded by the provers.
Instead `ListsInOrder(s, P)` says that a strictly increasing `f` numbers the
positions `P` of the rows with key `g` and `s[j]` is the row at `f[j]`. With
the deque's addresses distinct (`Owned`) this is the same list `SelectSeq`
picks out, and it is what TLC checks too. It is not inductive alone either:
`add_row` keeps the other groups right only because the new slot is not the
address of a stored row, so its step lemma (`AddRowGroupExact`) assumes `IInv`
in the pre-state. For the row's own key the witness is `f` extended by the new
last position. The theorem combines the step lemmas with `IInvInvariant`.

The step `add_row` takes (the slot is free and not in the deque, the row is
stored there, `a` is registered in both indexes) is stated once as
`AddRowStep` and established by the lemma `AddRowSlot`. The invariant, the
group and the refinement proofs all start from it.

`UniqueIndexExact` is not inductive on its own:

- Proving that `add_row` keeps old entries right needs the new slot not to be
  the address of a stored row.
- Proving that `clear` leaves no occupied slot needs every occupied slot to
  belong to the table.
- The refinement reads every grouped address through `heap`, so it needs
  every address in a group to hold a row (`GroupsOwned`); otherwise a stale
  group entry could read as `NoRow` after a slot was freed.

So `IInv` is `TypeOK /\ Owned /\ UniqueIndexExact /\ GroupsOwned`. `Owned`
says the occupied slots are exactly the table's rows, and each is held once.
`IInv` was model-checked on the `table_indexes` instance before it was
proved; it is not one of the run's properties, because it adds to
`UniqueIndexExact` only the model's slot bookkeeping.

The invariant proof has one lemma per action (`InitIInv`, `AddRowIInv`,
`ClearIInv`, `UnchangedIInv`), and under each a step per conjunct. The
`add_row` step shows that the new slot is not a stored row's address (from
`Owned`), that every old row keeps its position and content, and, for the key
just inserted, that the new last position is the witness.

The refinement proof has one lemma per step: `InitRefines`, `AddRowRefines`
(an `add_row` maps to `Add(r)`: the new slot was free, so reading the old
rows, the old key entries and the old group entries through the new heap gives
what it gave before) and `ClearRefines` (`clear` maps to `Reset`). A stutter
maps to a stutter. `PointerStabilityHolds` follows from `IInv` in one step per
action.

`WireSessionProofs` proves, under `CodecAssumption`, for every byte base,
schema, value sets and set of corrupt inputs:

- `WriterFlushesHolds`: `Spec => []WriterFlushes`, that the caller's vector
  is always a prefix of the writer's stream, and all of it once the writer
  is destroyed;
- `WriterFlushesCorrupt`: the same under `SpecCorrupt`.

`WriterFlushes` is not inductive alone. Appending a field's bytes keeps the
vector a prefix of the stream only if those bytes are a finite sequence,
and the next field's kind is a field kind only if `written` is a sequence.
So the inductive invariant `WriterInv` adds `out` and `vec` in
`Seq(ByteVals)` and `written` a sequence of values. `ByteVals` is `Int` plus
every digit `write_fixed` can emit: `^` is opaque to the provers, so a digit
`(x \div ByteBase ^ j) % ByteBase` is not known to be an integer.
`EncType` shows that every field encoding is such a sequence. For
`write_vector` that rests on `ConcatType`: the item loop `Concat` is a
recursive function, which the provers see only as a `CHOOSE`. Its defining
equation is derived inside the proof: a function satisfying it on
`0..m` exists for every `m`, by a least counterexample (`LeastNat`). Then
every value of the chosen function is a sequence, again by a least
counterexample. `LeastNat` itself comes from `WFMin` and
`NatLessThanWellFounded` of `WellFoundedInduction`, which take no operator
parameter, unlike the library's induction theorems.

`CsvHeaderProofs` proves, for every header row (any sequence):

- `IndexOfLast`: `IndexOf(hs)[h]` is a 0-based column holding `h`, and no
  later column holds `h`. So with a repeated header name `get(name)` reads
  the last such column, the rule of the loop at line 296;
- `IndexOfType`: `IndexOf(hs) \in [Range(hs) -> 0..Len(hs) - 1]`, the
  range of `header_index_` in `CsvReader`.

`IndexOf` picks the column by `CHOOSE`. That one exists is the least
distance from the end of the row among the columns holding `h`
(`LastColumnExists`, from `LeastNat`).

`JsonParserProofs` proves, under `InputsAssumption` (every text is over the
parser's alphabet), for every set of input texts:

- `TypeOKInvariant`: `Spec => []TypeOK`, that `pos` never passes the end of
  the text by more than one, that `mode` is one of the four, and that every
  frame on the explicit call stack is an array or an object frame.

The argument is one bound per helper, each "forward, and inside the text
unless it starts past it". `ScanWhileBound` and `SkipBound` cover
`skip_whitespace` and `parse_number`'s scans, which are `CHOOSE`s of the
first position not in a class, shown to exist by `LeastNat`.
`StrFromBound` covers `parse_string`. Its loop `StrFrom` is a recursive
function, which the provers see as a `CHOOSE`. So `StrLoopExists` builds a
function satisfying its equation from the end of the text backwards, by a
least counterexample, and `StrLoopBound` bounds every such function, by a
least counterexample on the distance to the end. From these come
`ScalarBound` (`parse_value` on a scalar), `AfterElemBound` (the loop tail
continues only from inside the text) and `ObjectKeyStep` (a key read from
inside the text leaves `pos` at most one past the end). The one overshoot
is `parse_string`'s `++pos` over an opening quote that is not there, at
line 487. `TypeOK` is not inductive alone: a step needs the text to be over
the alphabet and the stack to be a sequence of frames. That is `JsonInv`,
which TLC checks on the `json_parse` instance (2,638 states), with one step
lemma per action. The CASE expressions of `Scalar` and `AfterElem` are
resolved by Zenon once every guard's truth value is stated. The characters
`{`, `}` and `,` are named (`LBrace`, `RBrace`, `Comma`), because the SMT
backend rejects strings holding them.

**What stays with TLC.**

- The codec's round trip (`DecodeSound`, `DecodeFailsOnlyWhenTruncated`)
  is arithmetic over digits: `FromLE(write_fixed(v, n)) = v mod B^n` with
  `^` opaque to the provers and the sum a recursive function. That needs an
  induction with non-linear arithmetic at each step.
- `CsvReader` reaches `RECURSIVE` operators (`Split`, and `FlattenSeq` of
  `SequencesExt`), so no theorem can live in a module that extends it. This
  covers `RowsReadBack`. What `header_index_` computes is
  proved separately, in `CsvHeaderProofs`.
- The JSON parser's `RoundTrip` compares with what `Serialize` wrote, and
  `Serialize` is `RECURSIVE`. Proving it would need an induction over the
  document. `ArrayProgress` does not hold for every text (the
  `json_array_no_progress` run), so the instance is where it is shown.
- Liveness and anything with `ENABLED`. No liveness property is checked:
  the one the parser would have (every `parse` returns) is false, as the
  `json_array_no_progress` run shows.

## 5. Findings

- `table_in_place_update` (spec gap, line 683): in-place writes through
  `operator[]` leave indexes keyed by old values.
- `wire_length_wrap` (code bug, line 221): `static_cast<uint32_t>` of a size.
- `wire_corrupt_alloc` (divergence, line 118): allocation sized by untrusted
  input.
- `json_array_no_progress` (code bug, line 534): `parse("[x")` never returns.
- `csv_quoted_line_end` (spec gap, line 302): quoted line ends are split by
  `getline`.

## 6. Not modelled, and why

- The file helpers are plain I/O with one error path each.
- `JsonValue` accessors and `CsvReader::get(index)` are plain reads.
- `CsvReader::parse_*` conversions (`stoi`, `stoul` and their narrowing casts,
  line 336): the CSV model carries fields as text.
- The depth of `parse_value`'s recursion (line 472): the model's stack is
  unbounded; the limit is the platform's stack size.
- The generated pack codec is not in `src/`.
- The host byte order: the model assumes a little-endian host, as the code
  does (`le_to_native` is the identity).
- Several tables sharing one allocator.
- A caller holding a `get_by_fk` result across later calls. `GroupIndex::get`
  returns a `const` reference, so the shared `empty_` (spec section 9) cannot
  be written through the API; what a held reference shows after later calls
  is C++ reference semantics, and after `clear` the spec already says held
  references are invalid.
- Concurrency: the code has none, and spec section 5 makes callers serialise
  access.

## 7. Plan for the next sittings

1. **SchemaContainer**: two `IndexedTable` instances sharing one allocator,
   to check that clearing one table never disturbs the other's indexes.
2. **Pack codec** (spec_modelled): `pack` / `try_unpack` arity and the
   delimiter rule.
3. `parse_u32` narrowing with scaled widths.
4. Proofs: the same tables sharing one allocator (`SchemaContainer`), whose
   invariant extends `IInv` with disjoint ownership of slots.
