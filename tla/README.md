# NyaaOS: a TLA+ verification of the boot loader

NyaaOS is a UEFI boot loader in C (`bootloader/src`), a kernel stub
(`kernel/src/main.cc`, which returns at once) and the scripts that build a disk
image and attach a debugger. The loader is the program: it lists the boot
volume, reads `/kernel.elf`, plans and builds the kernel's address space, calls
the kernel, takes over the screen and turns the firmware's memory map into its
own. It is sequential code; what is hard about it is memory. Every step works
on physical addresses the firmware chooses, under page tables it replaces while
running on them, with allocations that may fail and are not always checked, and
with arrays of fixed size filled from data of any size.

## Inventory

| Component | State | Operations | Interacts with | Hard behaviour | Correct when |
|---|---|---|---|---|---|
| Boot sequence (`main.c:700-1047`) | open files and protocols, allocations, CR3, `default_printer`, the prompts | some twenty firmware calls in order, error returns, three waits for a key | all of the below, whoever presses keys | partial failure, keys that nobody reads | error returns leave what they may, a key answers one prompt |
| ELF plan (`main.c:829-864`, `elf.c`) | `pages[16]`, `n`, `cursor`, iterator | one pass over the headers, one over `pages` | reads the file's buffer; decides whether the loader runs | `uint64_t` wrap-around, array bound, order of segments | accepted plans are complete and disjoint, valid files are accepted |
| Kernel loader (`main.c:866-950`, `builtins.c`) | physical memory, CR3, `pml4`, `map2..4` | copy PML4, load segment, create or follow tables, set leaf, test, call entry | `AllocatePages`, the processor's page walk, `memmove`/`memset` | unchecked allocation failures, the overrun of `memmove`, running on the tables being edited | the kernel sees its image, nothing else changes |
| Memory map hand-off (`main.c:971-988`) | size, buffer, key | two `GetMemoryMap` calls and an allocation between them | the firmware, whose events change memory meanwhile | the map changes between the calls | the buffer suffices, no frame in use is given away |
| Physical memory map (`main.c:986-1041`) | `physmemmap[64]`, the run being merged | one step per descriptor | the firmware's memory map | unsorted descriptors, holes, full array, last run | same frames and types as the firmware's map |
| Graphics console (`console.c`) | `buffer[64][128]`, cursor, framebuffer, font | print a character, wrap, scroll, clear, init | `default_printer` of `printf.c`, GOP | resolution against buffer size, buffer against picture, scan lines longer than the screen | the screen shows the last lines printed |
| Formatted printing (`printf.c`) | place in the format, arguments, 1024 character buffer | parse, convert, flush | printer callback | flush at the limit, widths of arguments, unfinished specifications | text comes out once and in order, numbers read back |
| Directory listing (`main.c:572-637`) | activations, handles and their positions | read entry, open, recurse, close | file protocol | failure in the middle of the recursion | every entry once, every handle closed |
| Debugger handshake (`main.c:717-725`, `lldb_dbg.py`) | QEMU, the script, the serial line | connect, attach, receive, load symbols, send newline; announce, reset, wait | LLDB, QEMU's stub | three programs that start at the same time | symbols are there before the boot goes on |
| Image build (`Makefile`, `mk_img.sh`, `cp_to_disk.sh`) | images and their age, loop devices, the mounts on `mnt` | recipe steps | root's tools, each other (`make -j`), the user who builds anew and cleans up | failure or interruption between two steps, leftovers of earlier runs, one mount point for all | what `make` trusts is complete, files go where they belong |

The complete list with sources and status, down to the parts without state
(name tables, status texts, vendored EDK2 headers), is in `PROJECT.json` under
`components`; the places where these behaviours bite are under `hazards`.

## Modules

| Module | Models | Role |
|---|---|---|
| `Boot` | `efi_main` from end to end, the other phases as single steps | component |
| `BootProofs` | | theorems about `Boot` and `DebugHandshake` |
| `DebugHandshake` | loader, QEMU and `lldb_dbg.py`; EXTENDS `Boot` | composed |
| `ElfPlan` | the plan pass and the overlap check | component |
| `KernelLoader` | the mapping pass; EXTENDS `ElfPlan` and runs when it has accepted | component, composed |
| `KernelLoaderProofs` | | theorems about `ElfPlan`, and about `KernelLoader` that hold whatever fails |
| `KernelMappingProofs` | | theorems about the mapping while nothing goes wrong; EXTENDS `KernelLoaderProofs` |
| `AddressSpace` | what the mapping pass promises | abstract specification |
| `PhysMemMap` | the merging of descriptors | component |
| `MemoryMapHandoff` | the fetching of the map; EXTENDS `PhysMemMap`, whose steps merge what was fetched | component, composed |
| `MemoryMapHandoffProofs` | | theorems about `PhysMemMap` and `MemoryMapHandoff` |
| `Console` | the graphics console | component |
| `ConsoleProofs` | | theorems about `Console` |
| `Teletype` | what the console promises | abstract specification |
| `Printf` | formatted printing | component |
| `PrintfProofs` | | theorems about `Printf` |
| `TreeWalk` | the listing of the boot volume | component |
| `TreeWalkProofs` | | theorems about `TreeWalk` |
| `DiskImage` | the scripts that fill disk images and a partition, and `make` | component, several at a time |
| `DiskImageProofs` | | theorems about `DiskImage` |
| `MC*` | | instances for TLC |

**Boot.** `pc` is the place in `efi_main`, one action per firmware call with its
failure as a disjunct, and `held` what has been opened or allocated and not
given back. `Plan`, `LoadKernel` and `BuildMemoryMap` stand for the phases with
modules of their own, `OpenVolume` includes `tree`. A prompt is three actions,
print (`ShowPrompt`), `ConIn->Reset` (`ResetInput`) and `WaitForEvent`
(`KeyArrived`), because a key can come between any two of them; `input` tells
keys pressed before a prompt's message (`"old"`) from those after it (`"new"`).

**DebugHandshake.** The loader's steps are those of `Boot`, taken only while
QEMU runs the processor. `stream` and `buffer` hold pieces of serial output, and
`Receive` takes any number of them, as `recv` does. QEMU waits on its serial
line for the script before it opens the stub LLDB attaches to. The script looks at no
command's answer; its interrupt (`Interrupt`) is no command and stops nothing. Every
exception comes to the one handler, which logs it and ends the script (`Raise`). Nobody is at the
keyboard: the script's newline is the only key.

**ElfPlan.** One action per way an iteration of a loop can end: `SkipHeader`,
`RejectMisaligned`, `PlanSegment`, `OverrunPages` for the first loop,
`CheckSegment`, `RejectOverlapping` and `Accept` for the second. `iter` is
`struct ProgramHeaderIter`, `pages` the used part of the array, `phase` the
place in `efi_main`. Every `uint64_t` sum is taken modulo `AddrSpace`. Writing
`pages[16]` is undefined behaviour and ends the run in `overrun`.

**KernelLoader.** Physical memory is `mem`, a function from addresses to words.
An address of the model is one word: a frame has `PageSize` words and a page
table `PageSize` entries, as 4096 bytes hold 512 entries in the program. Words
carry only what the code tells apart: an empty entry, a present or not present
entry with its frame, the firmware's large-page identity mapping, word *k* of
the kernel file, other contents. `map` holds the pointers `pml4, map2, map3,
map4`, whose slots survive an iteration of the page loop (the loader is built
with `-O0`); `owner` says who has a frame, `step` where the code is. Two
variables exist for the properties only: `claimed`, the pairs printed by
`Mapped %#llx to %#llx`, and `trouble`, which records that the overrun of
`memmove` changed a byte somebody relies on (`"smear"`) or that a table was
reused after a failed allocation (`"stale"`).

`memmove` is modelled by what it leaves in memory. Its backward branch starts at
`dest[num]`, so the low byte of the word behind the destination becomes another
byte: an entry may lose or gain its flags (`Smears`). `AllocatePages` returns
the lowest or the highest fit and may fail. Failures the code does not look at
have actions of their own: `NewPml4Fails` (the copy lands on the file's headers,
after which the iteration over them is undefined, `step = "wild"`) and
`NewTableFails` (the pointer is the previous page's table, or has never been
assigned).

The loader believes what the file says of itself, so the theorems need to know
it: `FilesAssumption` says that the headers are those a linker writes (a segment
lies in the file, in the address space and, as the file places it, in its pages;
there is one to load). Of the firmware they need that it gives out neither frame 0
nor the last one. Frame 0 matters: a stray byte turns an empty entry into one that
points to it, and a walk that follows such an entry must end in memory the
firmware keeps. The entry point is an address in the first segment that is loaded,
`FirstLoad`.

**PhysMemMap.** `Extend` is lines 1007-1012, `CloseRun` the two identical other
branches together with the test for a full array, `Finish` the end of the loop.

**MemoryMapHandoff.** `memory` is the firmware's book of frames; the map it
hands out is one entry per run of equal frames, and `key` counts its changes.
`FirmwareEvent` allocates or frees a frame at any time, also while the map is
merged. `Fetch` fills the `entries` of `PhysMemMap`, whose `Next` is the rest.
Sizes are in bytes: the firmware's entries may be larger than
`sizeof(EFI_MEMORY_DESCRIPTOR)`, in which the spare room is counted.

**Console.** One action per character class of `put_str`; `Settle` is the part
of the loop body after the `switch`. The buffer is flat, because that is how
an index past a row behaves, and so is the framebuffer `video`: `Word` is the
address `set_pixel` computes, `Drawn` what the loops of `put_char` write for one
cell or, after a scroll, for all of them. The font is a constant, the pictures of
the glyphs; `Byte` and `Bit` are the encoding of their lines by the macros and the
decoding by `put_char`. The properties read `video` the way the screen does and
compare it with the pictures. Where nothing was drawn the firmware's picture is
(`Leftover`).

**Printf.** A format is a sequence of characters, and `fmt` what is left of it
at the top of the loop. `Parsed` is lines 360-481 in five steps (flags, width,
precision, length, specifier); the conversions are functions from the argument
and the parsed specification to text. Their peculiarities are modelled as they
are: the buffers of the conversions are filled from the end, `-` moves half the
bytes, an octal digit is `val & 0x37`, a precision does not cut a string, `%%`
leaves the second `%` to be parsed. The loader is built with `-O0`, so the
negation of the smallest number is that number. Text ends at the first NUL a
printer meets. Where the program would leave a buffer, the format
or its arguments (`NoArgument`), the run ends in `overrun`. For a string
a negative width is a huge one, as lengths are compared unsigned, but not with `-`: the
loop that pads on the right compares signed and does nothing. Jobs are sequences of items, from which the format and the
arguments are put together; the properties compare with the items. What an item
may be is `WellFormed`: a text, or a specification in the parts a caller writes
(flags, width, precision, length, specifier), with an argument for every `*` and
every conversion; a width or precision that is written is an `int`, as the field it
goes to, so reading it does not overflow. The types are a constant: `Half` gives each length modifier
half the number of values of its type.

**TreeWalk.** `stack` holds the activations of `tree`, with the directory's
read position in each. Every one of `GetInfo`, `Read` and `Open` may fail; the
activation then returns (`Stops`) and its caller goes on at `CloseEntry`. The
picture of the volume, which `ListingInOrder` compares the lines with, is defined
from the volume alone: `Below` says what is under a node, `Above` its directories,
whose number is its depth, and `Before` what comes first.

**DiskImage.** One action per command of `mk_img.sh` and `cp_to_disk.sh`; `pc`
says for each script which command is next, `Fail` is `set -e`. `disk` holds, for
each volume, what is on it and of the present build, `fresh` the images younger
than their sources, `loop` what each loop device is attached to (also to a file
that was deleted since), `mounts` the stack of file systems on `mnt`. Three
commands are modelled with what their manuals say they refuse: `sfdisk` and
`mkfs.fat` a mounted device, `mount` the file system that is already on top,
`rmdir` a directory in use; `losetup -d` of a mounted device takes effect with its
last unmount. `mkfs.fat` leaves an empty file system. `make` keeps the target of a failed recipe and deletes that of an
interrupted one. `crossed` remembers the scripts another one got in the way of: both
had `mnt` mounted, it worked on this one's volume, or it unmounted the loop device
this one had chosen. The user's part is `Rebuild`, `Clean` and `CleanUp`. What a
file system that was overwritten while mounted writes back is left out.

## Runs

| Run | Question | Bounds and why they are enough |
|---|---|---|
| `plan` | Is an accepted plan complete and disjoint, a rejected one really out of order, a well-formed file accepted in the end? | all tables of up to two headers over 49 header values, and of three over the 30 of them with an address below 9 that are not one address large (loaded ones only); pages of 2, 16 addresses, so that segments touch, share a page, are empty and wrap; 2 slots, so that the array overflows |
| `plan_aligned` | violation: the alignment message (`main.c:842`) | as above |
| `loader` | What do the address space, the image, the firmware's mapping and the rest of memory look like at every step, whatever fails, when is the overrun of `memmove` harmless, and what makes the pass fault or walk something that is no table? | tables of 2 entries and 4 levels, 18 frames, nine kernel files: shared and separate tables, bss, an unaligned segment, an empty one, one in the lower half |
| `loader_printed` | violation: `Mapped ...` (`main.c:932`) | both placements, no failing table allocation |
| `physmemmap` | Does the map tell what the firmware told? | maps of one, two and four descriptors in any order, 3 slots, so that the array fills |
| `handoff` | Is the spare room enough, is every frame in use reported as used, does the key tell whether the map is true? | seven frames of 128 bytes: the firmware's frame 0, one of the loader's and at most one hole anywhere, the rest free or the firmware's in any arrangement; entries of 40 and 48 bytes, and of 96, more than the spare room; two events of the firmware |
| `boot` | What do error returns leave behind, can a key answer two prompts, does `efi_main` return? | the debug build, which has all three prompts; every call fails or not; three checks of the ELF header |
| `handshake` | Are the symbols there first, and can everybody wait for everybody? | up to two lines of firmware output, cut anywhere; one check of the ELF header |
| `tree` | Are handles closed and is the picture true, whichever call fails? | the volume of `mk_img.sh` with a file behind the directories and an empty directory |
| `printf` | Does text come out once and in order, do numbers read back, when is a buffer left? | buffer of 8 characters, integers of 3, 4, 5 and 8 bits; every number with 7 flag texts, 4 widths, 3 precisions, 4 lengths and 7 values, strings of up to 8 characters likewise; every sequence of three items of 14, which fill the buffer exactly, to one less and beyond; nine formats in which a conversion behind `%%` takes the argument of the next, or one that nobody passed |
| `console` | Does the console implement a scrolling grid, do its pixels show it, and what holds without a spare row? | buffer of 3x2, glyphs of 2x2 pixels drawn in squares of 2, scan lines longer than the screen and a screen wider than its cells; modes of 1x2, 2x1 and 2x2 cells (a row to spare), 3x1 and 3x2 (none), 2x3 (wider), 4x1 (higher); a character past the font |
| `image` | What has a script done that ends well, which images may be trusted, where do files go? | any two of the three scripts, four starts, two failures or interruptions, so that a script meets what earlier ones left while another one runs; three loop devices; rebuilding of the kernel, which concerns all of them |

`CHECK_DEADLOCK FALSE` stands in the runs of code that ends: the plan, the
loader, the two parts of the memory map, the boot, the listing, a print job and
the scripts stop when they are over, and the handshake also when the script has died. The
console goes on for ever, except in modes larger than its buffer, where a print
may leave the buffer; the model stops there, because what follows is undefined.

**Properties under a condition.** Most properties of `KernelLoader` are stated
for `Sound` states: no unchecked failure and no stray byte so far. The
condition is not an escape: the runs reach unsound states, `WritesConfined` and
`FaultExplained` hold in them too, `TopDownSafe` shows that placement alone
decides whether the overrun hurts, and `loader_printed` shows a placement where
it does. `ImplementsTeletype` is claimed for modes that leave the buffer a row
(`Fits`), `ScreenShowsBuffer` and `NoLineLost` also for those of the buffer's size,
`OverrunExplained` for all. `SlackSuffices`
speaks of hand-offs without an event of the firmware; with one, the map may
outgrow any spare room and the fetch fails, as the code expects. It says exactly
when the fetch fails without one: the buffer was cut out of free memory, and the
entries for its free neighbours take more than the two descriptors added for them.
`TopDownSafe` asks that new frames lie below what the loader holds and below the
PML4 in use, for the first copy reads the firmware's PML4, which is not the
loader's. `KernelImage` makes no claim about the first byte of the file: when the
file lies right behind the frame a copy fills from the end, the overrun changes that
byte, which is the `0x7f` of the magic number, and a segment that begins with the
header is then loaded with the changed one.
`DoneIsComplete`, `TrustedIsComplete` and `WritesStayHome` excuse scripts another one
got in the way of (`crossed`), and the first two a rebuild during the script:
all do go wrong then, and the history variables say when. A script whose volume
was written, or whose loop device was unmounted, by a script that had itself gone
astray is crossed too; without that the properties fail in runs of more than three
starts.
`NumbersReadBack` leaves out the flags `-` and `0` and the conversion `o`, which
the loader's own formats do not use with numbers, and `TextInOrder` formats
with `%%`, which they do not use either.

`PrintfInBounds` names the items with which a buffer, the format or the arguments are
left (`TooMuch`, `HasPercent`): the code checks none of them, so the property draws the
line between callers that are safe and those that are not. Likewise the two unchecked
allocations of the mapping pass: what they do to the address space is not promised
by anything, but `FaultExplained` and `WritesConfined` bound it. That a refused LLDB
leaves everybody waiting is a matter of `HandshakeSettles`; `SymbolsFirst` is about
the order of loading and booting alone.

**Fairness.** `PlanSpec`, `BootSpec`, `DebugSpec` and `TreeSpec` assume weak
fairness of the code's own steps: it is a single thread, so an enabled
statement is executed. In `BootSpec` also of `PressKey`, that is, somebody
presses a key while the loader waits for one; `DebugSpec` has nobody at the
keyboard and instead assumes it of the three programs, each of which the
operating system runs. In `TreeSpec` it is the fairness of the calls that
succeed; no call has to fail. The other specifications state no fairness and no
liveness.

## Proofs

TLC checks small instances; the theorems below hold for every value of the
constants that meets the modules' assumptions. `PROJECT.json` lists them with the
properties they state. Every invariant they rest on was first checked by TLC on
the instance of the component's run.

**`KernelLoaderProofs`**, first about `ElfPlan`, for every page size above 1, width of
an address, size of `pages` and header table:

* `PlanTypeCorrect`: the types.
* `PlanDisjoint`: an accepted plan is disjoint. The check compares a segment with
  the cursor only, so the property is not inductive. `CheckInv` adds that all
  passed segments end at the cursor or before it (`PassedInOrder`) and that no span
  reaches the end of the address space (`SpansFit`), which makes the sum of line 862
  exact. `SpansFit` rests on `SpanFits`, about the page arithmetic of lines 844-846.
* `RejectedOverlaps`: what is rejected does start before the end of an earlier
  segment; `CursorInv` says whose end the cursor is.
* `PlanOfTheFile`: the plan is that of the file. A filtered sequence would be
  recursion over data; the property counts instead: the span of header *k* stands at
  the place that is the number of `PT_LOAD` headers up to *k*. `NotedInv` says it of
  the headers read so far, and `LoadsGrow` that this number grows by one per segment.

Then about `KernelLoader`, whatever the firmware places where and whichever
allocation fails: `LoaderTypeCorrect`, `WritesStayInside` (states
`WritesConfined`), `NoSmearFromTheTop` (`TopDownSafe`).

The types already need the whole argument, because the loop follows entries of the
tables it edits without looking at their flags (line 899), and a stray byte of
`memmove` can make any first entry of a frame point elsewhere. `WalkInv` is a cursor
argument. Pages are mapped in ascending order, so in each table on the path of the
last page every entry behind the path is empty (`PathInv`: `Walked`, `Fresh`,
`Following`). A stray byte hits the first word of a frame, which is the entry behind
the path only in a table that was not entered yet; what a walk follows is
therefore either a table of the loader's own, four different ones (`OwnTables`), or
the firmware's half of the PML4, from which it gets no further than frame 0
(`Astray`). `BaseInv` has the types, who owns which frame, that words outside the
loader's frames are the firmware's (`FwWords`) and the plan's own invariants, since
the ascending order comes from `PlanDisjoint` and `PlanOfTheFile` (`SegmentsInOrder`).

The arithmetic of frames, entries and digits of a page number is a group of lemmas at
the beginning of that part (`InFrame` to `KernelAbove`); `PagesInOrder` is the one that carries the
cursor: of two pages with the same prefix the greater one has the greater next digit.

**`KernelMappingProofs`**, while nothing has gone wrong: `ClaimsStayTrue`
(`ClaimsHold`), `FramesAreExclusive` (`FramesExclusive`), `FaultsExplained`
(`FaultExplained`), `KernelIsLoaded` (`KernelImage`), and the refinement
`TablesImplementSpace` (`ImplementsAddressSpace`).

None of these is inductive: what a walk finds depends on every word of memory.
`MapInv` adds to `WalkInv` that, while `Sound`, memory is `Intact`:

* `WordsInv`: free frames and the file are untouched, and an entry stands in a
  loader's frame and leads to one that is not the file's;
* `Tree`: the root is referenced nowhere and a frame at most once, so a frame is
  reached by one path only (`UniquePath`), an entry that is set changes one page
  (`WalkToLeaf`) and an empty table none (`WalkThroughNew`);
* `RootInv`: the lower half of the PML4 is the firmware's and its upper half is not;
* `PendingInv`: the segment's frames that are not mapped yet are in no table;
* `LoadedInv`: each loaded page has its claim, and its frame the words of `ImageOf`;
* `Claims`, which is `ClaimsHold` without its condition.

The refinement maps a page to what `Translate` finds. `NewPml4`, `NewTable` and
`LoadSegment` write memory and change no translation, `SetLeaf` maps one page; a
step after which the pass is no longer sound is the abstract `lost`. `KernelIsLoaded`
finds the byte of an address by `PlaceInPages`.

**`MemoryMapHandoffProofs`**, first about `PhysMemMap`, for every frame size, array size
and memory map:

* `TypeCorrect`, and `NeverOverrun`: the array is not written past its end.
* `MapCoverage`: entries and current run hold exactly the frames described so
  far. The invariant is the property itself over all frames; each branch of the
  loop is a step of `CoverageStep`, with `InMapGrows` for the appended entry and
  `DescribedGrows` for the consumed descriptor.
* `LostTail` (only frames of the last run can be missing at the end) and
  `FreeOrReserved` (no frame is both) follow from it; no run lists them.
* `NoEntryWasted`: neighbouring entries are not mergeable; `MaximalInv` adds that
  the current run does not continue the last entry.

Then about `MemoryMapHandoff`, for every memory, entry size and number of firmware
events: `HandoffTypeCorrect`, `InUseKept` (`OwnFramesReserved`), `KeyTells`
(`FreshMapExact`), `SpareRoom` (`SlackSuffices`). The first lemmas of this part are about the map
the firmware hands out: its entries, the runs in ascending order, describe each
frame by its type (`MapTells`). `OwnedInv` says that the loader's frames stay the
loader's in the firmware's books and in the map once fetched, `FreshInv` that a
current key means a true map; both reach the physical memory map by `LoopInv`, the
invariants of `MapCoverage`. `RoomInv` counts: `StartsAfterAllocate` shows that cutting a
buffer out of the map adds an entry for each free neighbour and no more.

**`BootProofs`**, for any number of checks and prompts and any failing call:
`BootTypeCorrect`; `ReturnsLeave` (`LeftBehind`), from `HeldInv`, which says for every
place in `efi_main` what is held there; `KeysAreFresh` (`FreshKey`); and for the
composed handshake `SymbolsComeFirst` (`SymbolsFirst`), for every output of the firmware
and every cut of `recv`. Its invariant `SerialInv` says of the pieces on the way
that they announce the base or nothing; `AnnouncesConcat`, `AnnouncesSuffix` and
`MovedAcross` are what the script's buffer does with them.

**`TreeWalkProofs`**, for every volume: `HandlesAreClosed` (`HandlesNest`),
`ErrorsHideLittle` (`OnlyErrorsHide`) and `PictureIsTrue` (`ListingInOrder`). `StackInv`
makes the stack a path down the tree, whose callers wait at their callees' entries. The
handles are then counted per node
(`HandlesInv`); for the listing, `WalkInv` says what each activation has achieved and
what no activation will come back to (`NothingLost`). The order of the listing says
nothing about the lines to come, so it is not inductive: `OrderInv` adds that the
activations are as deep as their places on the stack (`Placed`) and that everything
printed is before everything an activation still has ahead of it (`AllAhead`). `Below`
is the smallest set with a property and not a recursion, so what is known of the tree
is proved by choosing the set: two nodes side by side have nothing below both of them,
a node has the depth of its directory and one more, and `Before` is never mutual.

**`PrintfProofs`**, for every set of print jobs, length of the buffer and width of the
types: `PrintsInOrder` (`TextInOrder`), `NumbersReadBackAlways` (`NumbersReadBack`) and
`StaysInBounds` (`PrintfInBounds`). What is printed at the end says nothing about the
middle of a text, where a part of it is with the printer, a part in the buffer and a
part still in the format. `OrderInv` says how these go together: what is printed and
the buffer are the items so far, followed by what has been copied of the present text,
and format and arguments are the rest of that text followed by those of the items
to come (`Place`). Between two items that would describe one state in several ways, so
the place is always the furthest one (`Settled`): something of a text is left, or the next
item is a specification, or there is none. Then the character the loop meets decides
which it is (`TextAhead`, `SpecAhead`, `EndAhead`). The lemmas it rests on:

* `ParsedIs`: a well-formed specification is read as what it says, and the format
  behind it and the arguments behind its `*`s are left. It goes part by part, each
  part ending where a character comes that cannot belong to it (`Remains`).
* `FlattenAppend` and `FlattenFirst`: format, arguments and output are texts one after
  the other; `From` and `UpTo` are what is to come and what has been.
* `NumeralDigits`, `ReadingNumber` and `ReadingZeros`: the digits of a number read as
  that number in its base, and zeros before it change nothing. `NumeralGrows`: a larger
  number or a smaller base has no fewer digits, so that the octal digits of the largest
  value, which `RoomAssumption` speaks of, bound all others.
* `BodyIs`, `NumberTextIs` and `NumberIsIn`: the parts of the text of a number, and that
  it is too long for its buffer only if its width or its precision is. `RoomInv` is the
  part about the buffer of the loop, and holds for formats of any kind.
* `TextRead` cuts the printed text into spaces, sign, prefix and digits as
  `NumbersReadBack` does, and `MagnitudeReads` is its arithmetic modulo the type's width.

The induction over texts and numbers that these lemmas need is that of the natural
numbers, in the form of `Smaller` and `Onwards`: about the members of a set, which takes
no operator as a parameter.

**`ConsoleProofs`**, for every size of the buffer, font, scale and mode:
`CursorOnScreen`, `OverrunsOnlyWhenLarger`, `ConsoleIsTeletype` (a refinement),
`LinesAreKept`, `MarginsStay`, `PictureIsText`. `ConsoleInv` adds that the rows below
the screen are blank while one of them is spare, which is what scrolls in. For the
pixels, `OneCellPerWord` shows that a word of the framebuffer belongs to one line of one
cell at most, so that drawing a cell disturbs no other (`DrawnCell`).

**`DiskImageProofs`**, for any number of loop devices, starts, failures and
interruptions: `ImageTypeCorrect`, `TrustedImages` (`TrustedIsComplete`), `DoneComplete`
(`DoneIsComplete`), `HomeWrites` (`WritesStayHome`). `Advances` and `AtMoves` turn the
sequence of commands into a table of what comes behind each (`Behind`). `ImageInv` has one
invariant per script, `ScriptInv`: an undisturbed script is alone on `mnt` and its
device is on top (`SectionInv`), the device it chose holds its image (`ChosenInv`), its
volume has what its commands have put there (`FilledInv`), behind its `rmdir` none of its
devices is mounted (`ReleaseInv`), and an image at rest is complete, outdated or broken
(`SettledInv`). The weak place is `head -n1`: it may take a device that waits to be
detached since an earlier run. `ListedInv` says that every listed device holds either the
present file or such a leftover, `DyingMounted` that a leftover is still mounted; so
`sfdisk`, which refuses mounted devices, stops the script there, unless another one
unmounted the device, and that is what `crossed` records. A step has two
obligations: the invariant of its own script, and that it leaves the others
`Undisturbed` or crossed (`OtherKeeps`, `StepOf`).

**Assumptions.** Sizes are positive and sequences hold what they should. Those that
say something about the environment are `FilesAssumption` and `LoaderAssumption` (above),
`VolumeAssumption` (directories form a tree), `NodesAssumption` (names are not `.` or
`..`), `OutputAssumption` (the firmware's lines end before the loader's announcement),
`ModesAssumption` (a mode has room for one character and a scan line is at least as long
as the screen is wide), `FontAssumption` and `MacrosAssumption` (a glyph for every
character, a blank one for the blank, and macros that name their bytes rightly),
`JobsAssumption` (callers of `printf` write specifications the program knows how to
read, and pass the arguments they ask for) and `RoomAssumption` (the digits of any number
fit in a conversion's buffer, as those of 64 bits do in 1024 characters). TLC evaluates all
of them on the instances.

**Only model-checked.** Liveness (`WellFormedAccepted`, `BootReturns`,
`HandshakeSettles`, `TreeEnds`) and `ENABLED` are beyond the prover. Every invariant and
every action property that the passing runs check is a theorem. Of formats with `%%`
`TextInOrder` says nothing, and `PrintfInBounds` only that the loop's own buffer keeps
its room, in the theorems as in the runs: the rest of the text becomes a specification,
which may take an argument of any item, or of none; the runs have instances of both.

## What the checks show

* The overlap check does what it is for, as long as no segment wraps around the
  end of the address space. Its message is also printed for segments that are
  only out of order, and the alignment check does not apply to headers that ask
  for no alignment.
* `memmove`'s backward branch changes a byte outside its destination. With
  top-down placement this is never noticed, because every frame of a segment
  lies below the file's buffer and the copy runs forward. With another placement
  it can break a page table that is in use, also the identity mapping.
* The physical memory map is exact but for its last run, which is never written,
  and for an empty first entry that takes a slot when the firmware's map does not
  start with a reserved frame 0. The error return comes when the last slot has
  just been filled.
* The spare room of two descriptors suffices unless the firmware's entries are
  larger than the structure and the buffer is cut out of free memory: out of its
  middle, which splits one entry into three, or, for entries of more than twice
  the structure, also at its edge. The frames the loader uses are
  reported as used whatever happens, and as long as the key is current the map
  is exact but for its last run.
* The key that answers a prompt is not read. It is `Reset` that keeps it from
  answering the next one; the last key stays for the firmware. Error returns
  after the page tables were switched leave them switched, and nothing that was
  allocated in pages is ever freed.
* The kernel is called without its `BootInfo`, which is built after it returned.
* Without a failed allocation or a stray byte the mapping pass never faults, and it
  walks memory that is no table only under a PML4 that was not allocated, for a
  kernel in the firmware's half of the address space, or through a pointer that
  was never assigned.
* A script of the image build that ends well has filled its volume and left nothing
  attached or mounted, provided no other one got in its way and no part was built anew
  meanwhile; with `make -j all debug` it may have filled the other one's image. It is
  the first line of `mk_img.sh` that keeps a loop device of a deleted image from being
  chosen. It only marks one that is still mounted, and `head -n1` may choose that;
  `sfdisk` then refuses it, but if another script's `umount` has freed it and a second
  image was attached to it next, that image is formatted. An image whose recipe failed
  is trusted by the next `make`, that of an interrupted recipe is deleted; unmounting
  a leftover makes an outdated image look new, and a source built anew after it was
  copied is not missed.
* The handshake hangs in exactly three ways: LLDB was refused because QEMU had
  not opened its stub yet and nobody tries again; an exception ended the script, over
  output that is no UTF-8 or a target without the loader's module; the newline came between the announcement and the `Reset`.
* `tree` closes every handle on every path, and an error hides nothing but what
  is below the node it happened at, or behind it in the same directory.
* The print buffer always has room for its terminator, and text comes out once
  and in order. A width, precision or string as long as the buffer overruns the
  buffer of its conversion. `%%` prints a percent sign and then parses the second
  one; `%o` and left-justified numbers do not print the number.
* The console is a scrolling grid as long as the buffer has a row to spare. With
  exactly 64 rows (1280x1024) the row that scrolls in shows the old last row;
  with more (1920x1080) the buffer is left. Pixels outside the cells keep the
  firmware's picture until `clear`.

## Plan

Done: the modules above, their runs, and theorems for every component, for every
safety property the runs check. Every part of the program that keeps state and can be
reached is modelled. What a change of the code should begin with is the component's
module and its run; the proofs name their lemmas for the operations they are about.

## Not modelled

* `Include/`, the vendored EDK2 headers: 174 745 of the repository's 178 761 lines.
  They declare the firmware's interface and contain no code of this program; the
  services the loader calls are modelled where it calls them. Measured over the
  whole repository the modelled lines are therefore few; the program is the
  remaining 4 000, of which the name tables below are a fifth.
* `print_elf` with its pager, the section header iterator, `print_page_table`,
  `print_guid`, `print_device_path`: nothing calls them, so no state of the program
  runs them.
* The tables of status, memory type, machine and ABI names: text without state.
  `memcmp` is used only by the lookup of GUID names.
* The 128 glyphs themselves: a constant of `Console`. Compiler and linker rules of
  the `Makefile`: a single action of `DiskImage`, which therefore does not show
  that a changed header rebuilds nothing.
* `kmain` returns at once; the kernel's argument is never passed.
