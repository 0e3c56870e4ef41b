# Verification of the DugOS kernel

DugOS is a bare-metal 32-bit kernel (`src/src/`, C and NASM): it boots from
GRUB, sets up descriptor tables, interrupt controller and keyboard, and runs one
shell over a RAM file system. There is one thread of control; what runs beside
it is the hardware: devices that interrupt between any two instructions.

## Inventory

| Part | Source | Operations | Modules |
|---|---|---|---|
| FAT file system | `fs.c` | fwrite, fread, fedit, fdel, rename, copy; FAT chains | `FatFs`, `FileStore`, `FatFsStore`, `FatFsProofs`; entries as bytes in `ByteNames`, `ByteNamesProofs` |
| Directory table | `dir.c` | mkdir, cd, rmdir, ls over absolute paths | `Namespace`, `NamespaceProofs`; paths as bytes in `ByteNames`, `ByteNamesProofs` |
| Shell | `shell.c` | line input, parsing, dispatch, shutdown | `Terminal`, `TerminalProofs`, `ShellProofs`; dispatch in `Namespace` and `ByteNames`, shutdown in `Interrupts` |
| Screen | `vga.c` | cursor, wrapping, scrolling, backspace, colour | `Terminal`, `TerminalProofs` |
| Strings | `string.c` | bounded copy, compare, length | `ByteNames`, `Terminal` |
| Keyboard | `keyboard.c` | IRQ1 handler, ring buffer, blocking read | `Keyboard`, `KeyQueue`, `KeyboardProofs` |
| PIC, dispatch, boot order | `pic.c`, `isr.c`, `main.c` | remap, mask, EOI, vectors | `Interrupts`, `InterruptsProofs` |
| Gates and stubs | `idt.c`, `isr_stubs.s`, `isr.c`, `isr.h` | entry, register save and restore, exception frame | `Traps`, `TrapsProofs` |
| GDT | `gdt.c` | five constant descriptors | selectors in `Traps` |
| Host prototype | `src/dug_os.c` | stdio simulation of the shell | no |

`src/reference/minix` is vendored reading material and not part of the system.
The hazards of each part are listed, at their lines, in `PROJECT.json`.

## Modules

**FatFs** has the three arrays of `fs.c` (`fat`, `blocks`, `files`) and, because
a command is a sequence of loops, the C locals of the running command. `pc` names
the loop it is in: `gather` (copying a chain to `tmp`), `lines` (typed input),
`confirm`, `free` (`free_chain`), `alloc` (`write_to_blocks`). Each turn of a loop
is an action, so invariants hold half-way through an overwrite, too. A failure of
`alloc_block` returns at once, as in the code, leaving the partial chain behind.

**FileStore** says what the commands promise: a map from (name, directory) to
text. **FatFsStore** contains the refinement mapping (a file's text is what its
chain holds; while a command runs, what the command has made of it) and the
properties that need to walk a chain.

**Namespace** is `dir.c` composed with FileStore in the way `shell_dispatch` does
it: every file command gets `dir_getcwd()`. rmdir is two actions, because the
confirmation prompt separates its checks from the compaction. A path is the
sequence of its components; an empty last component is a trailing slash.

**Keyboard** has the ring buffer and the modifier flags. `kbd_isr` is entered
through an interrupt gate and is one step. `kbd_getchar` is five: test, `hlt`,
read, advance, return; interrupts fall between any two. A scan code is a key and
make/break; a character is a key and the table it comes from. **KeyQueue** is the
bounded queue it implements.

**Interrupts** treats the straight-line code of `kmain`, `pic_init`,
`pic_restore` and `cmd_shutdown` as programs, executed one port write at a time,
with the two 8259A as external state machines (ICW sequence, mask, request and
service registers, fully nested priority, ICW1 clearing masks and latched
requests as the data sheet says). A byte is the set of its bits. The IRQ stubs
run handler, slave EOI, master EOI, iret as separate steps.

**Terminal** is everything between a key and `shell_dispatch`: the VGA buffer
with its cursor, the `readline` functions, `trim_line`, `parse_cmd` and the loop
of `shell_run`. What a command prints is a list of calls of `vga.c` that `Call`
makes one at a time. The three copies of `readline` differ in their limit, and
in that only the shell's drops what is not printable; `who` is the caller. A
message is one character, and `Dispatch` runs any of the shapes of output that
the commands have (error, report, listing, input loop, y/n prompt, clear). The
buffers of `fs.c` and `dir.c` are reset when dead; the shell's is static and keeps
the tails of older lines.

**ByteNames** repeats the commands of `dir.c` and `fs.c` with names and paths as
the arrays they are. `kstrncpy` with the size of the field leaves no room for a
terminator, so an array with `LEN` characters is read on into what lies behind
it: the next row of `dirs`, `dir` behind `name`, `first_block` behind `dir`, or
some byte behind a local array or behind `dirs` (`noise`, external). That byte is
`'\0'` or one other character. The size `DIR_NAME_LEN - off` in `build_path` can
become negative, that is huge; the machine is then `halted`. Without room for a
separator `build_path` joins cwd and name directly.

**Traps** executes `isr_stubs.s` one instruction at a time, on a CPU (external)
that enters through the gates `idt_set` made. The general registers hold values that
are all different. An exception may come at any instruction, in the middle of an
IRQ stub too, an IRQ whenever IF is set. `isr_common_handler` reads the words
under its argument as `struct regs` and halts. All code runs in ring 0, so the
fields `useresp` and `ss` are left out. An address is its routine and offset in an
image at 1 MiB, which the two halves of a gate must preserve.

## How the modules fit

- `FatFsStore` shows that `FatFs` implements `FileStore`; `Namespace` composes
  `FileStore` with the directory table.
- `ByteNames` instantiates `Namespace` with its paths cut into components, and
  its run compares the string code with Namespace's definitions: on paths that
  fit, working with components is justified, on others `ByteNames` says what
  happens.
- `Keyboard` implements `KeyQueue`; `Terminal` takes from that queue any key at
  any time.
- `Interrupts` treats a stub as handler, EOIs, iret; `Traps` shows that the stub
  around them changes nothing of the interrupted code.

## Runs

| Run | Instance | Shows |
|---|---|---|
| `fat_fs` | 3 blocks of 2 bytes, 2 slots, 2 names (symmetric), an empty and a one-character line; 755,631 states | chains are disjoint and match sizes, names are unique, FileStore is implemented, blocks leak in two ways only |
| `fat_delete` | same | **violated**: a chain that begins at block 0 is not freed |
| `namespace` | 3 directory slots, depth 2, 2 files, empty lines; 716,455 states | the table is a set, no orphan files, only cd moves, ls agrees with cd .. |
| `keyboard` | ring of 3, one letter, one symbol, one silent key, both Shifts, Caps Lock, one code pending; 458,592 states | the ring is a FIFO, the reader is undisturbed and never left asleep, Shift never sticks |
| `keyboard_case` | same | **violated**: Shift + letter is lower case |
| `interrupts` | timer, keyboard, clock, mouse; all masks of their lines; 3 requests; 50,656 states | no fault before shutdown, right stub, all acknowledged, nothing after `pic_restore`, every open request served |
| `interrupts_shutdown` | same | **violated**: a request during `pic_restore` is an exception |
| `interrupts_boot_key` | same | **violated**: a key pressed before `pic_init` silences the keyboard |
| `terminal` | 3 x 3 cells, lines of 5, 2 and 1 characters, 2 arguments, 4 keys; 436,952 states | the screen shows the line, the prompt is kept, nothing behind the cursor, input is white, argv are the tokens of this line |
| `byte_names` | arrays of 5 bytes, 3 directories, 2 files, every `noise`; 235,236 states | what fits is found whatever stands next to it, the overrun needs a full cwd, string code and components agree |
| `byte_names_terminated` | same | **violated**: a long name is stored without a terminator |
| `traps` | 7 exceptions with and without error code, 3 lines; 20,908 states | an IRQ is invisible, tells its line and does not nest, the frame is `struct regs` |

Bounds. Three blocks are the smallest disk where a chain has a middle, two files
compete, and block 0 can be leaked with room left; two bytes per block make an
empty line end inside a block and a one-character line end exactly at its end.
Three directory slots give a compaction that moves the current directory. A ring
of three holds two characters: empty, full and wrapped all occur. Three requests
are enough for one interrupt while another waits behind the cascade; with the
total bounded, fairness needs no assumption about how fast the timer ticks.
Three rows of three cells make a line of five characters wrap always and scroll
mostly, and let a backspace cross a row. With arrays of five bytes `/a/a` just
fits, `/aa` leaves no room for a separator and `/aaaa` none for a terminator.
Traps needs no bound: the gates and the halting handler keep the stack finite.

Three more statements of the sources are refuted by the models, though no run
keeps them; adding one to the INVARIANT of `Namespace.cfg` or `Keyboard.cfg`
gives the trace:

- `NoTrailingSlash` (`dir.c:12` "No trailing slash except for root itself."):
  `build_path` strips the slash of absolute arguments only, `mkdir a/` stores it.
- `CdUpReachesParent` (`dir.h:73`, `..` is "go to parent directory"): mkdir does
  not ask for a parent and rmdir not for subdirectories, so `cd ..` may find none.
- `ShiftTracksKeys` (`keyboard.c:59` "1 if Left or Right Shift is pressed"): one
  flag for two keys, the release of either clears it.

Fairness. `Keyboard` assumes that the CPU executes (`kbd_getchar`; the shell's
`readline` loops on it), that a pending IRQ1 is delivered, and that the timer
ticks. The timer matters: the counterexample without it is test, key, `hlt`.
`pic_init` restores the BIOS masks, where IRQ0 is open; the comment in `pic.h`
that all lines are masked afterwards does not describe the code, and
an implementation that followed it would lose this wake-up. `Interrupts` assumes
only that instructions are executed and offered interrupts taken. `Interrupts`
and `Traps` run without deadlock checking because power-off and the exception
handler stop, `ByteNames` because of `halted`. The other specifications state no
fairness: their properties are safety.

## Proofs

`FatFsProofs` proves `IInv` for every number of blocks below `FAT_END`, every
block size, table size, name and line set, and from it `TypeOK`, `ChainsDisjoint`
and `UniqueNames`. Disjointness alone is not inductive. The strengthening says:

- the heads of live files are *roots*: allocated, and no link leads to them;
- links are injective and lead to allocated blocks;
- the chain `write_to_blocks` is building is rooted at `first`, ends at `prev`
  and belongs to nobody, and block 0 is already allocated; the last part is what
  keeps `fat[prev] = blk` from ever writing 0, which would read as free;
- the rest of the chain `free_chain` walks belongs to nobody; the entry that still
  names it is *stale* and excluded until the command resets it;
- unused slots are clean, and `fs_copy`'s target name is still free.

There is one lemma per action. `alloc_block` being least needs the well-ordering
of the naturals; this is the only place where the order of the scan matters.

`NamespaceProofs` proves `NInv` (the table is a set with root in slot 0, every
file's directory is in it, the directory rmdir asks about is empty, not root and
not current) for every table size, and that only cd moves the current directory.
The last conjunct carries rmdir's checks over its confirmation prompt.

From `NInv` follow also the range of the indices and that `cd ..` leads back from
every directory that ls lists.

`KeyboardProofs` proves for every size of the ring above 1, every key map and
every number of pending codes that `kbd_isr` does not disturb `kbd_getchar`, that
Shift does not stick, and that the ring implements the safety part of KeyQueue.
Its invariant `KInv` adds to the types and to `ReaderUndisturbed` that with no key
held every Shift press still to be handled is followed by a release. The step
simulation computes the queue's length and elements from head and tail modulo
the size, with one lemma for each of put and advance.

`TerminalProofs` proves `TInv` and from it `TypeOK`, `BlankAfterCursor`,
`EchoMatchesLine` and the action property `PromptKept` for every screen and every
buffer that is no longer than the screen without its last row, which holds for
80 x 25 and 256. None of the three invariants is inductive alone: the echo moves
up correctly when the screen scrolls only if the cursor is on the screen, a
backspace restores what was there only if everything from the cursor on was
empty, and both need the calls still to be made to contain no backspace. There is
one lemma per case of `vga_putchar` (a character, a newline, a backspace), and one
per action.

`ShellProofs` adds what the shell reads. `InputIsWhite` says nothing about the
calls a command has still to make; `WInv` adds that each `readline` among them is
reached in white. A command's output is put together from pieces, so the lemmas
say which pieces are *tidy* (begun in white they read and end in white) and that
tidy pieces compose. `ArgvAreTokens` speaks of a finished `parse_cmd`; `PInv`
describes it half-way: from `p` on `buf` is still the line typed, `p` follows a
blank or ends the line, and `argv` holds the tokens that begin before `p`, each
with its `'\0'`. Counting tokens needs lemmas about cardinalities.

`ByteNamesProofs` proves `BInv` for arrays of every length above 1, and from it
`TypeOK`, `ShortNamesFound`, `ShortPathsFound` and `HaltsOnlyInFullCwd`, whatever
`noise` is. The strengthening: two rows of `dirs` are equal only when neither is
terminated; two entries of one directory were typed with different names, if
these and the path fit (`key`, a history variable); rmdir asks about another
directory than the current one, and not after the overrun. The equality of rows
cannot be left out: an unterminated row may occur twice, because reading the
first runs on into the second. The lemmas are about `kstrncpy`, reading an array
with and without terminator, and what `build_path` can return; most of the rest
is the compaction of the table.

`InterruptsProofs` proves `IInv` for every set of devices, every mask the BIOS
left and every bound on the number of requests, and from it `TypeOK`, `NoFaultBeforeShutdown`,
`StubMatchesLine`, `AllAcknowledged` and `QuietAfterRestore`. `IInv` says, for each
instruction of `kmain` and `cmd_shutdown`, how far each PIC is in its ICW
sequence and which base it has, and, for each step of a stub, exactly which bits
are in service. `AllAcknowledged` needs both: a mask written while a PIC still
expects an ICW would be taken for one, and an EOI clears the bit of highest priority in
service, which is the right one only because nothing else is. One conjunct keeps
the master's line 2 for the cascade: no device requests it.

`TrapsProofs` proves, for every set of exceptions and lines, `TypeOK`, the action
property `IrqTransparent`, `IrqKnowsItsLine` and `FrameMatchesRegs`. All four are about the
end of a stub. `IInv` gives the height of the stack before each instruction of
each stub and says that it holds, counted from its bottom, the interrupted code's
stack and as many words of the entry (`Word`: eflags, cs, eip, error code, vector,
registers, segments, argument) as the height says. Words counted from the bottom
are not moved by a push or a pop, so one lemma for pushing and one for dropping
serve all instructions. While a stub runs IF is clear, hence an interrupt begins
in the kernel only, and only an exception can come in a stub; the invariant is
then about the newest entry. The text of the stubs is turned into facts once
(`IrqText`, `CommonText`, `StubText`), and so is the way from `idt_set`'s halves
back to the address of the stub (`Gate`).

The inductive invariants `IInv` of `FatFs`, `NInv` and `TInv` are also checked by
their runs.

Assumptions are the ones named in the modules: sizes are positive, `FAT_END` is
not a block number, lines are sequences of characters, arguments are paths,
modifier keys have no character, `\n`, `\b` and `\0` are not among the other
keys, a char array has at least two bytes, names are not empty, devices are on
lines other than the cascade, masks are bytes, and exceptions and lines have
their numbers below 32 and 16.

Only model-checked:

- `ImplementsStore`, `ChainMatchesSize` and `LeaksOnlyAtBlockZeroOrDiskFull`, which
  walk a chain by recursion;
- `ResolvesAsNamespace` and `ListingsAgree`, which compare the string code with a
  parse of the path into components: what that computes for every string needs
  induction over the string;
- liveness: `RequestsServed`, and in `ImplementsQueue` that the reader is not left
  asleep (its safety part is `RingIsQueue`).

## Not modelled

- `src/dug_os.c`, the host prototype: its state is the file system of the host,
  reached through stdio; the kernel replaces it. `src/reference/minix` is third-party
  reading material that is not built.
- `boot.s`, the boot tables and banner of `main.c`, `gdt.c` but for its selectors,
  and what `cmd_shutdown` and `isr_common_handler` print: they run once, or only
  print constants.
- `vga_write_dec` and `vga_write_hex`: formatting, which reaches the screen
  through `vga_putchar` only. The attribute of a cell is left out.
- `kstrcpy`, `kstrcat`, `kstrchr`, `kmemset` and `pic_mask`: never called.
- Scan codes with the E0 prefix, which `keyboard.c` does not handle as such; vectors from 48 on;
  a device request that enters an exception stub during `pic_restore`: `Interrupts`
  has the request (`interrupts_shutdown`), but `Traps` not the frame, which lacks
  an error code for the vectors of `ISR_ERR`.
- Which word runs which command (`kstrcmp` in `shell_dispatch`).

The mapped definitions stand for 1232 of the 1784 lines of code (blank lines and
comments not counted) of the kernel in `src/src`, and for 1232 of 2280 with
`src/dug_os.c`. Of all the repository's source lines, most of which are
`src/reference/minix`, the share is a few percent.
