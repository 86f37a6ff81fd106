# Verification of BrAInOS

TLA+ models, TLC configurations and TLAPS proofs for BrAInOS: a bare-metal UEFI
core (`core/`, Rust) that hosts one entity, the entity's logic as a library
(`mind/`, Rust), and a daemon on the host machine at the other end of a serial
line (`tools/body_daemon.py`).

## The system

| part | state | operations | talks to |
|------|-------|------------|----------|
| memory journal (`mind/src/journal.rs`, `journal_load`, `journal_store`, `Console::write_file`) | two slot files on the key, each a generation, a payload and a CRC | load at boot; store when a body is left; the notebook uses a second pair of slots | the firmware's FAT driver: delete, create, write |
| state graph (`mind/src/state.rs`, `experience.rs`) | a vector of typed nodes; a ring of 48 episodes in it | add, consolidate, learn a skill, serialize, load | every handler of the core adds to it |
| core (`core/src/main.rs`) | `Instance` (graph, body map, session mark, link state), the stack `pending` | boot, one handler per key, utterance, sight, offer; dream, persist, release, reboot | all of the others, in one thread |
| tether (`core/src/link.rs`, `body_daemon.py`) | two byte streams, a line buffer | prompts (`MM?`), actions (`AX`), replies (`MM!`), results (`AR`), senses (`HB`, `VS`), offers (`LM+`) | a serve thread, an ear thread and a lens thread on the host |
| KIRA (`mind/src/kira.rs`), body map (`body.rs`) | policies; regions and what they can do | one gate of eight stages, acquisition | every action passes it and leaves an audit node |
| world volume (`core/src/console.rs`) | files on a second disk | list, read, write, move, mkdir, delete | firmware file calls |
| notebook (`notes.write`, `notes.read` in `run_internal_verb`) | a text of at most 6144 bytes in a second pair of slots | read all, append, drop the oldest, store all | the journal |
| script engine (`mind/src/script.rs`) | an environment: frames, functions, steps, output, depth | parse, hoist, run within budgets | nothing: pure computation |
| network organ (`core/src/net.rs`) | one child of the HTTP driver, a request's token and its response's | find a nic, lease, open, GET up to three times, close | the firmware's HTTP driver, which completes tokens on its own |
| line editor (`core/src/editor.rs`), text screen (`Ctx` in `console.rs`) | a line, a caret, a window, a row; the firmware's cursor | one operation per editing key; print | the firmware's console, shared with all that the core prints |
| boot log, screen ring, drawn presence | rings of bytes, pixels | | the core |

What is hard here, and what each part has to get right:

* **Journal.** Power can go between and during the delete, create and write of
  a replace, and each of them can fail. The slot that the next boot would load
  from must never be the one at risk, and readable slots must be ordered.
* **State graph and lives.** A self is pruned, serialized with caps, written
  once at the end of a life and read back by the next; positions in the vector
  are remembered across removals; power can go at any time. The self must stay
  a gapless recent past, lose at most the current session, and a departure must
  end with the power off.
* **Tether.** One thread waits, with a timeout, for frames that carry no
  request number, while other threads send at any moment. Answers must belong
  to the request in hand, senses must be kept exactly once, waits must end.
* **KIRA, body, world disk.** The gate decides from the text of a request; the
  disk is changed calls later, each of which may fail or be the last before the
  power goes, and a path has more than one spelling. What the gate denied must
  not happen, a move must not lose a file, and what is narrated as done must be
  done.
* **Notebook.** Every note rewrites all notes. Whatever store fails or is cut,
  a note that was told to be written stays until newer ones fill the notebook.
* **Script engine.** A stored program runs on the firmware's stack in the core's
  only thread. Steps, calls, sizes and output must stay bounded through any
  nesting, and frames must be closed on every way out of a call.
* **Network organ.** Tokens and the buffer they fill live in a frame of the
  core; the driver completes them whenever it likes. No early return may leak
  the child, no wait may last, no page may be taken for another's.
* **Line editor.** It redraws one row in place on a screen that others write to
  and that scrolls when a row is written to its end.

## Modules

| module | what it is |
|--------|------------|
| `DurableCell` | abstract: one durable value; a store is kept, refused or cut by a power loss, and only an interrupted or refused one is ambiguous |
| `Journal` | the two slots, `plan_write`, `newest`, and each firmware call of `write_file` as a step |
| `MCJournal` | its instance for TLC |
| `Selection` | the elements of a sequence that are of a kind, and all but the first of them |
| `SelectionProofs` | the laws of `Selection`, and induction over numbers and sequences |
| `StateGraph` | pure operators on the sequence of nodes, one per function of `state.rs` and `experience.rs` |
| `Memory` | the lives of a self: every handler that adds nodes, and the departures |
| `MemoryProofs` | its inductive invariant and safety theorems |
| `MCMemory` | its instance for TLC |
| `Tether` | the core's waits, its pending stack, both wires and the daemon |
| `TetherProofs` | its two inductive invariants, safety theorems and a property of steps |
| `MCTether` | its instance for TLC |
| `Kira` | spellings of paths and what normalizing makes of them, the stages of the gate on abstract requests, and the body map's operators |
| `World` | boot's and the daemon's limbs, requests through the gate, and the world disk call by call |
| `WorldProofs` | its inductive invariant and safety theorems |
| `MCWorld` | its instance for TLC |
| `Notebook` | the read-modify-write of a note, over `Journal` |
| `NotebookProofs` | of `Journal`: its inductive invariant, safety theorems and refinement of `DurableCell`; of `Notebook`: its invariant on top of the journal's, safety theorems and a property of steps |
| `MCNotebook` | its instance for TLC |
| `ScriptValues` | the values of `script.rs`, its operators and builtins, frames and output |
| `ScriptParser` | its recursive descent, from tokens to trees, and `hoist` |
| `Script` | its interpreter as a machine with the native stack as a variable |
| `ScriptReference` | abstract: the meaning of a program by recursion over its tree, and the references for parser and interpreter |
| `ScriptProofs` | the laws of values and operators, the machine's inductive invariant and safety theorems |
| `MCScript` | the instance of both for TLC: the programs that are run |
| `Fetch` | a fetch, firmware call by firmware call, and the driver behind it |
| `FetchProofs` | its inductive invariant and safety theorems |
| `MCFetch` | its instance for TLC |
| `Console` | the line editor on the text screen |
| `ConsoleProofs` | its inductive invariant, safety theorems and a property of steps |
| `MCConsole` | its instance for TLC |

### Journal

`file[s]` is a slot file: absent, torn (whatever `open` rejects) or sealed.
`Store` is `journal_store` up to its call of `write_file` (both reads, the plan,
the seal); `DeleteOld`, `CreateNew` and `WriteAll`/`WriteFails` are the firmware
calls; `OpenFails` their early return. The status of `delete` is not looked at
by the code, so `DeleteOld` may leave the file. A write that fails or is cut
leaves the file as it was, torn, or complete. `Loadable` is what `journal_load`
would return now. `ReadMayFail` lets each read of a slot return nothing, as
`unwrap_or(0)` takes it. `Genesis` stands for the legacy file, or for nothing.
`TypeOK` also says that no text in `Oversize` is sealed or under way: the length
is looked at once, before the plan, and a record past it would be one that
`open` refuses at every later boot.

### StateGraph and Memory

A node is its kind, how many episodes had been lived when it was made, its size
and whether it has multi-byte characters. The three origins of a semantic node
are told apart (`fact`, `habit`, `dream`) since the crystallization rule is
about one of them. Contents are single lines. Each handler is one action, with
the audit nodes that the gate leaves (they move positions in the vector; a boot
leaves three, for `memory.erase` and the two warm-ups, or four, when the network
organ is probed) and the consolidation at its end; where a handler may deliver empty text, which is
not gated, the number of audits is a choice. Leaving is three actions, `Depart`,
`Dream` and `Persist`, then `Leave`, since power may go between. `Persist` uses
the key as the durable cell that `JournalImplementsCell` proves the journal to
be, so a refused store may have taken or not, and `PowerLossInPersist` is the
store cut short that has. `hung` is a panicked core: the panic handler spins.

`lived`, `cellLived` and `sinceLived` are history variables: episodes lived by
the self in the core, by the one on the key, and at the session's mark. With
the number of the episode in each node they state the properties; no action's
guard reads them except the bound `MaxLived`.

### Tether

`pc` is the wait the core is in, by caller of `model_m_query`, or the wait for a
limb, the acquisition window, or the idle loop. Frames on a wire may or may not
have arrived yet, which is why a timeout can come before a frame that is on it,
and why `drain` and `Pump` take any prefix. `pending` is the stack that the loop
pops from its end. `Serve` answers the daemon's first line (a blank prompt is not
answered); `Sense` is the ear or lens thread; `Drop` is a daemon or socket that
goes away with what it had. Prompts and actions are numbered in the model only.
`handled`, `lost` and `gone` record what became of each sense and offer, and
`taken` and `missed` the last answer taken and how many requests got none.

### Kira and World

`Verdict` is the first stage that refuses a request. Parsing, signatures and
tokens have no case: `propose` signs with the very key, tag and tick that the
gate verifies, and nothing reads a token later. A request spells its places, says
whether it holds a destructive pattern and how it stands to the length bounds.

A spelling is a sequence of tokens: words in some letter case, the two
separators, the step `.`, and `..` for all that `valid_world_path` refuses.
`normalize_world_path` does with it what the code does, which is no more than to
trim `\` and then `/` in front, to raise letters and to turn `/`. The gate
compares the text that comes out with `WORLD.ID` (`MarkerHit`), and each
operation normalizes the spelling once more and hands the text to the driver,
whose way with it is `Opens`: separators too many and `.` lead nowhere else. The
job keeps the spelling (`name`). So `/\WORLD.ID` and `./WORLD.ID` open the marker
without being equal to it, and `MarkerGuarded` says exactly what the gate does
guarantee: the marker is changed by no `fs.delete`, `fs.write` or `fs.move` whose
request spells it `Plain`ly, which is in any letter case behind any number of
`\` and then of `/`. Left out are blanks and dots at the ends of names, spellings
of the root, which no operation can delete or create, and long names' short ones.

`disk[p]` is nothing, a folder, or the first `n` chunks of a text. Each granted
request becomes the `job`, whose firmware calls are actions: `ClearOld`,
`CreateNew` or `CreateFolder`, `WriteAll` or the loop of `CopyChunk`, `Unlink`,
and their failures. `world_write` is clear, create, fill; `world_move` is clear,
create, copy, unlink; `world_delete` is unlink. As in `Journal`, the status of
the first delete is ignored, so the old file may stay and be written over: a
file that begins with a text may then have a tail that the model does not tell
apart. A flush that returns is taken as done; until then a power loss may leave
any part of a copy. `told` is what `absorb_result` narrates, and `job` stays
after its end so that the properties can speak of it.

The firmware's FAT driver is external: it deletes no folder that holds
something, creates nothing outside a folder, opens what exists as it is, and
reads a folder as if it were a file.

### Notebook

It extends `Journal` with texts that are sequences of notes, known by the number
of their request and their size. `WriteNote` is `notes.write` up to the store:
`Prior` is `journal_load` of the notebook, which picks by the same rule as the
store, and `Fit` the loop that drops the oldest lines. `StoreNotes` is any of
the journal's firmware calls, with the answer given after the last of them.
What one line leaves over when it is longer than the whole notebook has no
case: a note is at most `Capacity` long.

### ScriptValues, ScriptParser, Script and ScriptReference

A program is a sequence of tokens; how a text is split into them is left out, so
numerals and literals are constants. Lists and strings are sequences, integers
those up to `IntMax`, a character is a byte. A value carries the text it shows
(`s`), computed when it is made, and as a ghost whether it `fits`: its integer
in 64 bits, its lists within `MaxList` at every level. An operator's result is
a sequence, of the value or empty for the code's `Err`.

The parser follows the source function by function, its position an argument;
`Levels`, `Binary` and `Operands` are the six functions of the precedence climb.
A tree is a record of its operands (`es`) and blocks, with two ghosts: how many
levels it has (`high`) and which variables its statements name (`binds`).
`Load` is what `run` does before it executes, `hoist` included.

`Script` is `Env` with Rust's stack made a variable. An activation in `stack` is
one `eval` or one statement of `exec` under way: its node, the values of the
operands evaluated so far, and, while its body runs, the statements left `todo`.
`Operand` and `Statement` begin the next one, and spend a step for it; when all
operands are there (`Ready`), the action of that node happens: `Evaluate`,
`Enter`, `Let`, `SetIndex`, `PrintLine` and so on. `Wants` has the
short-circuits and the `print` that stops at a full line; `Refused` what is
refused before an operand is looked at. `flow` is how control goes on: `?` and
`Flow::Return` become `Unwind`, one activation at a time, which closes the frame
of each call it leaves. `kept` is a ghost: the frames when the activation began.
The parser is recursive, so `Script` takes its results as the constants
`Program` and `Tree`, whose assumptions (`TreeAssumption`, `ProgramAssumption`)
say what a parser's trees are like; `MCScript` gives them the results of
`Load` on its texts, and TLC evaluates the assumptions for every one of them.

`ScriptReference` gives a program its meaning as the code has it, `Eval` and
`Exec` by recursion over the tree with `Env` as an argument. It is the
specification that the machine is compared with (`Agrees`).

### Fetch

`pc` is the call `fetch` is about to make. Firmware calls succeed or fail as
they like. `Pump` is one round of the wait: a token that is signalled is taken,
one that is not costs a round, and the last round gives up. The driver
(`CompleteRequest`, `CompleteResponse`) may signal at any moment while it holds
a token, also never. A response that fails may have written its status first,
which the code then reads. The addresses a server redirects to are any.

### Console

A display is a screen and a cursor; `Put` is what the firmware's console does
with a character: it wraps after the last column and scrolls at the bottom. The
editor's operations keep its fields and its calls of `set_cursor` and `print`.
`Say` stands for everything the core prints on rows of its own (replies, heard,
saw), `Status` for the status line. `pushed` records that something was said
while a line was open, after which the editor's `row` is stale.

## Runs

| run | expects | shows |
|-----|---------|-------|
| `journal` | pass | the safety invariants, that nothing unreadable is stored, and that the slots implement `DurableCell`, with reads that do not fail |
| `journal_read_error` | violation | one failed read of the newest slot and the store deletes that slot (finding) |
| `memory` | pass | gapless recent past, dreams only of this life, exact read-back, knowledge lost only by the cap |
| `memory_hang` | violation | a dream over long multi-byte text panics and the body is never powered off (finding) |
| `tether` | pass | lag of answers, conservation of senses, waits end, each pending sense is handled once the senses end |
| `tether_answers` | violation | a late reply answers the next prompt (finding) |
| `world` | pass | a move loses no file, done is done, no plain spelling of the marker gets past the gate |
| `world_self_move` | violation | a move of a file to its own path deletes it (finding) |
| `notebook` | pass | notes told to be written stay, in order and within the capacity, and no old notebook comes back, with reads that do not fail |
| `script` | pass | sizes, output and the nesting of `eval` and `exec` stay bounded; statements and calls change only the variables they name; the machine agrees with the recursion; functions may be defined last; operators bind by level; every program ends |
| `fetch` | pass | every fetch ends, closes its child, leaves no token with the driver and returns the page of the address it names |
| `console` | pass | the row shows the line, the caret stands in it, and editing changes no other row, until something is said |

Bounds. `MaxGen` 4 gives each slot two rewrites, after which only differences of
generations matter. In the memory runs the caps 48, 64, 8, 1200 and 64 KiB are
scaled to 2, 2, 2, 2 and 6: small enough that the ring fills, semantic nodes are
pushed out, dreams are cut and stores refused within `MaxLived` = 4 episodes
(three in the liveness run), which is two lives of two. `MaxNodes` bounds the
handlers that add audit nodes only, and leaves room for them after a boot. The
ring's capacity is a multiple of the crystallization period, as in the code,
except in the run about the hang, which sets the period out of reach. `MaxAsks`
= 4 covers a boot (two prompts) and an utterance with its report (two), or two
utterances, with timeouts and restarts anywhere between; two senses and the
offers share the stack, so that one sense can lie under another while that is
handled. The world runs have the marker, a file, a folder's path and one inside
it, and a text of two chunks, so that a copy can stop in its middle and a folder
can be full. The marker has three spellings, of which the gate recognizes one,
and one spelling is refused; a single offer is announced, under an id that the
body knows already if it has a network organ. Nothing else is bounded there.
Five notes of one or two units in a notebook of three make one or two old notes
fall at a time, with `MaxGen` above the number of stores. The programs are all
pairs of 22 snippets (all statements, recursion, nested loops, errors in and out
of calls), those pairs behind each of the snippets that bind `x`, all chains of
three operators, one or two of each level, and texts of one token, of which `x`
has the highest tree there is for its length; with 50 steps, two levels of
calls, lists of 3, strings of 5, output of 6, integers up to 31 and repeats of
at most 4 each budget is met and exceeded. A fetch may look three times in each
wait and send three requests, among three addresses. The screen has three rows,
so that a line can stand at each, and lines of up to five characters in a window
of three; nothing is bounded but how often the entity speaks.

Fairness. In `Memory` the departure's steps are weakly fair: the core has one
thread that runs on until it hangs or loses power. In `Tether` the core's steps
are: its timer fires periodically and each wait counts its own time down.
Nothing is assumed of the daemon, of the wires or of the human. In `Fetch` the
core's steps are weakly fair, since `stall` returns; nothing is assumed of the
driver or of servers. In `Script` the machine is: `run` is called in the core's
one thread, waits for nothing, and has one next step.

## Findings, and divergences without a run

Four runs show the program doing other than a comment or document says; the
findings quote both. Further divergences that the modelling met, which the
passing properties leave out or which follow from one line:

* `kira.rs:298`: the gate looks at the source of an `fs.move` only and not at
  `web.save`, so both may overwrite `WORLD.ID`; `kira.rs:291` says of that
  "Structural self-harm dies here". `MarkerGuarded` names the two exceptions.
* `kira.rs:301`: what is compared with `WORLD.ID` is a text, and
  `normalize_world_path` (`kira.rs:438`) leaves a step `.` and a `\` behind a `/` in
  it: a path spelled so opens the marker and is not taken for it. `kira.rs:291`
  says that "removing or overwriting it [...] dies here", `docs/BARE_METAL.md:86`
  "Volume marker protected". `MarkerGuarded` names this exception, too.
* `main.rs:2246`: `pending` is popped from its end, and what arrives while an
  entry is handled is pushed on top, so while senses never stop arriving the one
  at the bottom waits for ever; the comment there says "anything sensed while we
  were busy gets processed first". `PendingIsHandled` is about senses that end.
* `experience.rs:75`: the crystallization rule tests the number of episodes
  held, which stays at a multiple of its period once the ring is full: from then
  on every episode crystallizes a note; "every 8 episodes" says line 73.
* `main.rs:2395`: episodes removed from a full ring move the later ones before
  the session mark, so a dream misses the session's first ones; `instance.rs:54`
  says "everything after this is 'this session'". `DreamsOfThisLife` is the
  half that holds.
* `main.rs:1196` and `:911`: `drain` and the acquisition window discard what was
  heard; `main.rs:133` says "nothing sensed on the tether is ever dropped".
  `ThinkingKeepsSenses` says where it holds.
* `script.rs:690`: output past the cap is cut and the program said to have run;
  line 25 says "A program that exceeds any bound stops and says which one --
  never a hang, never a half-truth".
* `script.rs:762`: rounds of a `repeat` with an empty body cost no step, so a
  program can run for very long within its budget; line 40 says that "a runaway
  loop still dies in milliseconds".
* `script.rs:44`: "Recursion is real but finite -- the core runs on a firmware
  stack". `MAX_DEPTH` counts calls. Within each of them `eval` and `exec` nest as
  deep as the text does (`StackBounded`), and a program may be 8 KB long
  (`main.rs:2070`); the parser (`script.rs:307`) recurses over the nesting of the
  text with no limit of its own, and `show`, clone, drop and `==` of a value
  (`script.rs:52`) over the nesting of its lists, which grows by one with each
  `x = [x]`. The last two are not in the model, so no property here says that a
  program cannot exhaust the firmware's stack.
* `net.rs:307`: the status of the response's token is not looked at; `do_get`
  says "Every failure names its stage". `PageIsGenuine` leaves this case out.
* `editor.rs:57`: the row is remembered while others print: the next key redraws
  a row of the transcript, which the editor's header says is not disturbed. The
  properties of `Console` hold up to then (`pushed`).
* `console.rs:75`: the ring behind `screen.read` also holds every redraw of the
  editor, so what it returns is not "the text currently standing on the screen"
  after a line was edited.

## Proofs

`NotebookProofs`, of the journal, for every set of payloads, every bound and every number of
lives, under one hypothesis, `ReadMayFail = FALSE`. Without it the safety
theorems are false, which is what `journal_read_error` shows.

* The inductive invariant `IInv` adds to `TypeOK` that sealed generations are
  positive and differ, and, while a store is under way, that its target is not
  the slot `newest` prefers (or that there is nothing to lose) and that its
  generation is greater than any readable one. The latter is what keeps
  generations apart after the write, and neither invariant is inductive alone.
* `TypeCorrect`, `NewestSurvives`, `GenerationsDiffer` follow from `Invariance`.
  The first includes that no oversized text is ever sealed.
* `JournalImplementsCell`: initial states map to initial states, and each step to
  a step of `DurableCell` or a stutter. The lemmas `SlotChangeAndLoadable` and
  `PartialWriteAndLoadable` say how `Loadable` reacts to a change of the target.

`WorldProofs`, for every set of paths, however folders nest, every number of
chunks and any sequence of requests, failures and power losses; the assumptions
are those of the constants only.

* The inductive invariant `IInv` adds to the properties which operation may be
  at which call (`PhaseOfVerb`), that the job in hand is one the gate let
  through (`Guarded`), and where the moved file is at each call (`MoveSafe`):
  whole at its source until `unlink`, and at its destination as many chunks as
  were copied. `MoveLosesNothing` alone is not inductive, since its disjunction
  does not say that the copy is complete when the source goes.
* `TypeCorrect`, `MoveIsSafe`, `DoneIsDone` and `MarkerIsGuarded` follow, the
  last one as a property of steps. It rests on two lemmas about spellings, whatever
  their length: `TrimmedCutsFront` says what a trim leaves, and with it
  `PlainIsNormalized` that every plain spelling becomes the text `WORLD.ID`, which
  is all that the gate recognizes; `Guarded` then carries the gate's decision
  through the calls.

`FetchProofs`, for every set of addresses and codes and any number of polls and
requests; the assumptions are those of the constants only.

* The inductive invariant `IInv` adds to `TypeOK` where the child is open
  (`OneChild`), which token can be with the driver at which call (`Awaited`),
  that a request is left while the core is at one (`UnderWay`), and that a response
  which is done is the one of the address asked for now (`Delivered`). Without
  the last, a page of an earlier redirect could pass for the final one; without
  `Awaited`, a stale token for the new one's.
* `TypeCorrect`, `ChildAlwaysClosed`, `NeverWrittenLate` and `PageAlwaysGenuine`
  follow from `Invariance`.

`SelectionProofs` is what the modules below rest on: that a set of numbers that
is not empty has a least one, induction up to a number and over a sequence by
appending, and that a recursive function of the kind `At` is defined by exists
and obeys its recursion. From these it proves what `Select` and `DropFirst`
return, of which type, how they act on `Append` and `\o`, and that they keep
order and repeat nothing. The induction theorems of the library take an operator
as a parameter, which the provers cannot instantiate; here the property is a
set, and the induction a theorem about sets.

`MemoryProofs`, for every capacity of the ring and of what the key keeps, every
period of crystallization and any number of lives; the assumptions are those of
the constants only.

* The inductive invariant `IInv` says in `Body` that the episodes in the core are
  the latest of those lived, without gaps, and that the knowledge on the key is
  how the knowledge in the core begins; in `Self` the same of the key; in
  `Marked` that every episode above the session's mark was lived in this session;
  and in `Ages` that the key is never ahead of the core. `SelfIsRecentPast` alone
  is not inductive: at a boot the core is read from the key, and what it then is
  follows only if the key's part is known.
* `Grown` is how all handlers change the graph (`GoesIInv`): an episode through
  the ring, or notes behind. `Living` shows that the ring stays the latest
  episodes. `Loading` is the induction over the lines of `load`: a serialized
  self comes back node for node because it holds no more episodes than the ring.
* `TypeCorrect`, `RecentPast`, `DreamsAreRecent`, `ReadsBack` and, of steps,
  `KeyForgetsNothing` follow.

`TetherProofs`, for every number of prompts, of senses and of offers, and
whatever is late, lost or cut off; the assumptions are those of the constants.

* `IInv` is about answers. `Flight` says that the answers on their way and the
  lines that will be answered are to requests from the oldest without an answer
  to the latest, each once and the older first. That the lag of an answer is
  bounded (`LagIsBounded`) needs this order of both queues together: a bound on
  the answers alone is lost as soon as the daemon serves one more line.
* `SInv` is about senses: what is on the wire, pending, handled, lost and gone
  are disjoint and hold each frame once (`Places`), every word heard or seen is in
  one of them (`Words`), and an offer carries the number of a hello that was
  served before those on the wire (`Offers`), which is what keeps two offers
  apart. `EachSensedOnce` follows.
* `ThinkingKeeps` is a property of steps: a sense that is read while the core
  waits for a reply is put in `pending`.

`NotebookProofs`, of the notebook, for every capacity, any sizes and number of notes, failing
calls and power losses, under three hypotheses: reads do not fail, as for the
journal; the texts of the journal are the sequences of notes; and the
file that was there before, if any, fits (`StartsAsFile`).

* The inductive invariant `NInv` is the journal's, and: what can be read is
  sorted, fits, and has each note as it was said (`Book`); while a store is under
  way its text is what can be read and the latest note, cut to fit (`InHand`);
  and a kept note can be read or is outweighed (`KeptStay`). Without `InHand` a
  write could bring in any text; without that the notes are genuine, that a note
  was pushed out would say nothing about what the notes since weigh.
* `Written` is the step that matters: what falls off was pushed out by notes said
  since, because some of them, in order, weigh no more than all of them
  (`SomeWeighLess`). `SlotChangeAndLoadable` says when what can be read
  changes.
* `AlwaysFits`, `ToldIsKept` and, of steps, `NothingReturns` follow.

`ConsoleProofs`, for every screen that is at least a prompt and the narrowest
window wide, every length of a line and any keys, speech and status lines; the
assumptions are those of the constants only.

* `WriteRecursion` says that `Write` has the value of its recursion, and
  `WriteAppend` that one more character is put after the others. From these
  `WriteRow` proves, by induction over the text, what a text that stays on its row
  leaves there, and `RedrawRow` that a redraw leaves the window's part of the line
  and blanks, and every other row alone.
* The inductive invariant `IInv` adds to `TypeOK`, `CaretVisible` and
  `RowShowsLine` that an open line starts at the prompt (`AtPrompt`). Without it
  the window is not known to end before the last column, and a redraw could wrap.
  `Window` is then never its minimum: the assumption on `Cols` is what a redraw
  on one row rests on.
* `CaretInWindow` is the law of `Rescroll`; `ShowKeeps` is the step all editing
  keys share.
* `TypeCorrect`, `CaretStaysVisible`, `RowIsTheLine` and, of steps,
  `TranscriptIsKept` follow.

`ScriptProofs`, for every program, every literal and numeral, and every budget;
the assumptions are those of the constants: that budgets are positive, and that
the trees are what a parser makes (operands are expressions, blocks are of
statements, a tree has more levels than what is in it, a program at most two
more levels than its text has tokens: those of the program and of a statement
that is an expression, which have no token of their own). TLC evaluates them on the run.

* Values nest without a bound, so what a value is cannot be said by one
  set of records. `Val` is the union of `Level(n)`, the values whose lists hold
  values of the level below; `LevelsGrow` and induction over levels give what
  the proofs need: that every value shows a text, and that a list of values is
  one. `BinopType`, `ItemType`, `BuiltinType` and others say that each operator
  returns a value that fits, if its operands do, or an error.
* `EmitFits` is the law of `Emit` that `DigestFits` rests on.
* The inductive invariant `IInv` adds to the types the `Shape` of the stack
  (`Good`). `Link` says how two neighbouring activations fit: an expression is
  evaluated for an operand that its neighbour waits for, and `Home`, the number
  of frames where an activation's parts run, ties the calls on the stack to the
  frames and so to `depth`. `Height` counts: an activation's place in the stack
  and the levels of its tree come to no more than a program's levels for each
  frame there was when it began, and one. `StackBounded` alone is not inductive,
  since nothing in it relates the stack's length to the trees still to be
  entered.
* `Kept` is `LocalsStayLocal` of one activation. That it is inductive needs
  `Above`: within one call, there are only expressions above an expression, and
  a statement names no more variables than those around it, so that what it
  changes is allowed by each of them.
* One lemma for each action; `TypeCorrect`, `DigestFits`, `RecursionBounded` and
  `LocalsKept` follow from `Invariance`.

Only model-checked: liveness (`WaitsEnd`, `PendingIsHandled`, `FetchEnds`,
`ProgramEnds`), which is beyond the prover; and what compares a recursion over
trees with another definition, `Agrees`, `LoosestLast` and `HoistedAlike`,
whose recursive operators (`ScriptParser`, `ScriptReference`) are out of its
reach. That the parser's trees obey `TreeAssumption` is, for the same reason,
evaluated for the programs of the run and not proved.

## Plan

The components worth modelling are modelled, and what the runs check is proved,
except for what the last paragraph names. What could be added is the drawn
presence and the ring behind `screen.read`, whose properties would be about
layout, and Model M's escalation, which needs its answers modelled.

## Not modelled

Rendering, wording and narration; the ed25519 signatures; Model M, speech and
vision; the firmware's own file system and HTTP stack beyond what their calls
may return; memory exhaustion; how a script's text is split into tokens; the
screen ring and the boot log; the offline image builders. `link.rs` overflow
resynchronization is left out, since the daemon's frames are shorter than the
reader's buffer. Contents with newlines are left out (see the hazards). The
recursion of the script's parser and of its nested values on the firmware's stack
is left out, too (see the divergences).
