# Monks in TLA+

Specifications, model-checking runs and machine-checked proofs for monks, the
Linux kernel module that hijacks system calls and reports them to an ncurses
viewer. Paths are relative to the repository's `src/`.

## 1. The system

| Component | Source | State | Operations |
|---|---|---|---|
| Loader | `monks_kmodule/main.c` | `monks_state`, `client_pid` | `hook_init`, `hook_exit` |
| Syscall hooking | `monks_kmodule/sct_hook.c`, `sct_hook.h` | the syscall tables, `iter->rf`, `iter->state` | `hook_calls`, `unhook_calls`, `create_stub`, `destroy_stub` |
| Stubs and their patching | `monks_kmodule/stubs.S`, `udis_utils.c` | the text of a stub, its stack frame | `ud_get_stub_size`, `ud_patch_addr`, `ud_patch_cmp`, `ud_find_syscall_table_addr`, the stub itself |
| Hooks | `monks_kmodule/syscalls/{read,write,close}.c`, `monks_kmodule/utils.c` | one `syscall_intercept_info` per call | pre-hook, post-hook, `path_from_fd` |
| Event queue and thread | `monks_kmodule/netlink.c` | `nl_queue`, `nl_wait`, `nl_thread`, `nl_sk` | `nl_init`, `nl_halt`, `nl_send`, `nl_kernel_thread` |
| Controls | `monks_kmodule/control.c` | `state_table`, `syscalls_state_table`, `monks_table_header` | `add_syscalls_state_table_entry`, `register_monks_controls`, `unregister_monks_controls`, writes to `/proc/sys/monks` |
| Codec | `common/serialize.c`, `common/deserialize.c`, `common/mem_ops.c` | a `membuffer` | `serialize_syscall_info`, `deserialize_syscall_info` |
| Viewer | `monks/monks-viewer.c`, `monks/netlink.c`, `monks/utils.c` | the socket, the list `head`/`curr`/`tail` | `main`, `add_data`, `read_from_socket`, `set_client_pid` |
| Viewer's screen | `monks/ui.c`, `ui.h` | windows, `scheduled_resize` | `draw_data`, `read_from_kb`, `schedule_resize` |
| Module loading helper | `monks/lkm.c` | an open file | `check`, `load`, `unload`, `start`, `stop` |
| Disassembler | `udis86/libudis86` (a copy of the udis86 library) | a `ud_t`: input position, prefixes, operands | `ud_init`, `ud_disassemble`, `ud_insn_off`, `ud_insn_len`, called by `udis_utils.c` |

How they interact. A thread that makes a system call jumps through the table
into a stub, which tests `monks_state` and the call's own `state`, maybe calls
the pre-hook, calls the real function, tests again and maybe calls the
post-hook. The post-hook serializes what the pre-hook noted and what the call
returned, and `nl_send` puts it on `nl_queue` and wakes the kernel thread
`kpmnld`. The thread drains the queue and unicasts each buffer to the process
in `client_pid`. The viewer registers by writing its pid to
`/proc/sys/monks/client_pid`, and keeps what it receives in a list it draws.
Loading and unloading happen under all that.

What is hard. Nothing is locked: the loader, the sysctl writers, the viewers,
the hooks on every processor and the kernel thread share `monks_state`,
`client_pid`, the wait queue, the socket and the text of the stubs. Addresses are found by disassembling
the kernel's code and stubs are patched by disassembling them, where one wrong
length puts everything after it out of step. The module
frees its memory although hooks may be running in it. Loading fails in the
middle. Unloading patches code other processors may be executing. The viewer's
list drops its oldest node while the cursor may be on it.

What makes each component correct:

* Event path: an event is delivered at most once and in order; rmmod ends;
  a socket and a thread to serve it are there together or not at all; nothing is
  sent without the socket; an event does not stay in the queue for ever.
* Hooking: a system call runs the real function exactly once whatever is
  loaded, unloaded or toggled meanwhile; a table entry leads to the real
  function; no entry leads into freed memory; what a pre-hook allocates, its
  post-hook frees.
* Stubs: the arguments and the result survive the hooks; patching leaves the
  text executable at every point a processor can be at.
* Controls: the file of a call shows and sets the state of that call.
* Disassembler: an instruction is as long as the processor takes it to be; the
  tables of system calls are found.
* Codec: `deserialize` inverts `serialize`; a message fits the buffer.
* Viewer: the list stays linked, the cursor stays in it, the screen shows the
  window around the cursor.

## 2. The modules

| Module | Models | Refines |
|---|---|---|
| `Netlink` | netlink.c of the kernel module, main.c, the viewers' sockets and registration | `EventChannel` |
| `SctHook` | sct_hook.c, main.c, a stub as far as its control goes, over repeated loads | `Syscall` |
| `Stub` | stubs.S, `ud_patch_addr`, `ud_patch_cmp`, the frame macros of sct_hook.h | |
| `Codec` | the bytes of an event from the hooks through serialize.c and deserialize.c to the viewer | |
| `Viewer` | monks-viewer.c and ui.c: list, cursor, keys, rows, resize | `EventLog` |
| `OpcodeTables`, `InsnTable` | itab.c: the opcode tables and the instruction table | |
| `Udis86` | decode.c and udis86.c: from bytes to length, mnemonic and operands | |
| `InsnLength` | nothing of the repository: the length of an instruction as the processor has it, to compare with | |
| `StubText` | stubs.S, as the bytes the assembler makes of it | |
| `UdisUtils` | udis_utils.c on bytes | |
| `Controls` | control.c: the sysctl tables and the blocks they are in | |
| `Hooking` | main.c, sct_hook.c, control.c and lkm.c, with udis_utils.c as constants | `SctHook` (its loader) |
| `HookingCode` | `Hooking` and the disassembler in one, to say what becomes of code | `Stub` (its text) |
| `MCHooking`, `MCStub`, `MCViewer`, `MCCodec` | instances for TLC | |
| `EventChannelProofs`, `NetlinkProofs`, `SctHookProofs`, `StubProofs`, `CodecProofs`, `ViewerProofs`, `HookingProofs` | theorems | |

The models meet at names they share. `Netlink` has an event as a number
that `nl_send` queues and the thread delivers; `Codec` has what is in it.
`SctHook` has a call go from place to place in a chain of stubs; `Stub` has one
stub instruction by instruction, registers and frame included, and so shows
what `SctHook` takes for granted: that the real function and the hooks are
called in order, with their arguments, and that a stub that was cut skips the
hooks from any instruction on. `Hooking` has the same stubs as bytes, made and
cut by the disassembler, for several calls and loads; the two refinements
(`PatchesText` and `Implements`) say
that `Stub` has the right text and `SctHook` the right loader. `Viewer`
receives events one by one.

### Netlink

A step is one access to state that another context can see. The loader's place
`loader` runs through `nl_init`, `hook_calls`, `register_monks_controls`, and
later `hook_exit` down to the three parts of `kthread_stop` (raise the flag,
wake the thread, wait for it). The thread's place `thread` has a step for each
line of `nl_kernel_thread` and `nl_send_skb`; its `task` state and membership
in the wait queue are separate variables, since the code sets one without
looking at the other. `sender` are post-hooks inside `nl_send`; `viewer` are
processes from `net_init` to the end of `main`. `nl_init` and
`register_monks_controls` may fail, and what fails in the code is kept: the
loader goes on after a failed `nl_init`.

### SctHook and Syscall

Load number `g` makes stub `g`, calls it with `rf[g]`, what the table held
then. A thread has the function and place it executes, `cur`, and the stubs it
will return to, `callers`. `Test` is one of the four tests of a stub (`mov`,
`cmp`, `jne`); the word is read in that step, so it may change before the next.
A stub has the absolute addresses of its module's words and hooks. What is there
is `Mapped` while its own module is loaded, or another load in the same place:
`base` says where each load is put, anywhere new or where an earlier one was. A
stub that was left armed then tests the new words and calls the new hooks.
Touching memory that is not `Mapped` ends the thread in "oops". Failures of `hook_calls`, `register_monks_controls` and
`unhook_calls` are recorded in `failed`, since what the properties can promise
depends on them. `Syscall` is what a program expects of a system call.

### Stub

The text of `stub` and `stub_32` on a 64-bit kernel is a sequence of
instructions, `PatchAddr` and `PatchCmp` are functions on it, and a thread has
a program counter, registers and a frame of four-byte words. The macros by
which hooks reach into the frame of the stub that called them are offsets into
the same words. All of `DestroyStub` happens between two instructions of the
thread (stop_machine). Moves that differ only in the register are one
instruction. The values are constants: what a caller may pass, what the real
function may return, which of that `IS_ERR` holds of, what `kmalloc` may
return, what a C function may leave in the registers and what may be on the
stack. `ret` has what the real function returned in this call, each time it was
called.

### OpcodeTables, InsnTable and Udis86

The two table modules are itab.c in another notation: an entry of an opcode
table is an instruction, nothing, or the number of the table to go on in; an
instruction is the name of its format, `EvGv` for the operands `O_Ev` and
`O_Gv`. Formats, flags and operands are listed once. Of the mnemonics only
those are kept that the code asks for.

Each function of decode.c is an operator from the `ud_t` before to the `ud_t`
after. Integers read from the input stay sequences of bytes. Prefixes that only
change what is printed are read and forgotten. `failed` collects the lines
where `UD_ASSERT`, which is empty in the module's build, would have stopped the
decoder. The operators were compared with the compiled library on 60 000 random
strings in all three modes: length, mnemonic, operands and registers agree.

### StubText, UdisUtils, Controls and Hooking

`StubText` has one sequence of bytes per instruction of `Stub`.
`UdisUtils` reads and patches memory as udis_utils.c does; the input buffer of
the disassembler is the memory that is being patched. `Controls` has the tables
`kcalloc` and `krealloc` gave, by address, and the pointers to them;
`krealloc` stays or moves, `register_monks_controls` fails in each way it can.
A table is allocated only while an address is left (`FreeBlock`, the bound
`Blocks`); that there is no memory is a step of its own (`HookCallNoMemory`).

`Hooking` is the loader of the whole. What it takes from udis_utils.c are four
constants (`find_syscall_table_addr`, `get_stub`, `patch_addr`, `patch_cmp`),
and `StubAssumption` lists all that it needs of them: each hole of a stub gets
its address, cutting turns a `jne` and leaves the call alone, cutting twice is
cutting once. `MCHooking.cfg` gives them the operators of `UdisUtils`, so
that TLC evaluates the assumption with the real decoder on the real bytes.

`load` is `insmod` or `load` of lkm.c.
Each round of the loops over the `syscalls` section is a step, and nobody else
moves under `stop_machine`. `get_sct` looks for both tables in the code at the
system call entries; if it finds something else, what follows writes there and
the model ends in `Oops`, as it does when memory that nobody checks is not
there. `text` has the bytes of every stub that was made. `start` and `stop`
open the state file and write when they close it, with any step in between.

`PatchesText` lifts the bytes back to the instructions of `Stub`, chunk by chunk
of the template, and says that `create_stub` and `destroy_stub` do what `Stub`
says they do. `Implements` does the same for `SctHook`, with what each stub
calls read out of its bytes.

### Codec

A byte is a cell; a `size_t` and a `pid_t` take one cell each, as a character
does, and 0 ends a string. `heap` and `vheap` are the blocks of the event in
the kernel and in the viewer. Every allocation that the code makes may fail,
and the step says what the code does then, a NULL dereference ("oops" in the
kernel, "crash" in the viewer) included. `pname` points to `current->comm`:
`Rename` may change it between `strlen` (`Measure`) and `memcpy` (`AddChunk`).
`Reopen` changes what the descriptor stands for.

### Viewer and EventLog

Nodes are addresses that `free` gives back and `calloc` hands out again.
`place` says where the event loop is; everything between two of its steps is
done without looking at the keyboard, the socket or `scheduled_resize`. A step
through NULL or freed memory ends in "wild". `EventLog` is a log that keeps the
last `Limit` events.

## 3. Runs

| Run | Bounds | States | Shows |
|---|---|---|---|
| `netlink` | 2 hooks, 1 viewer, 2 protocols, 3 events, fair | 341 218 | the event path refines the lossy channel; socket and thread are there together or not at all; a wakeup or a stop request that finds the thread asleep has its effect |
| `scthook` | 1 thread, 3 loads, fair | 327 717 | a call runs the real function once through any chain of stubs and is reported at most once, wherever the loads are put |
| `stub` | both stubs, 2 sets of arguments, 2 results, 2 nodes | 25 904 | arguments, result and hook info survive hooks and patching |
| `codec` | names of 0 and 2, paths of 1 and 3 characters, a buffer of 19 cells | 272 034 | what is noted arrives, what is allocated is freed |
| `viewer` | 5 addresses, 4 events kept, 1 kind visible and 1 hidden, heights 1 and 2 | 53 280 | the list is the log; cursor and rows are in it and in order |
| `hooking` | 25 874 codes at the entry, 2 calls (one of them 32-bit), 2 loads, 5 blocks | 82 360 | any instruction at the entry is stepped over; stubs, files and tables are what the other modules take them for |
| `netlink_unload`, `netlink_quit`, `scthook_info`, `scthook_destroy`, `stub_result`, `viewer_cursor` | as above or smaller | | section 6 |

Why the bounds are enough. Two hooks are the smallest number that can queue out
of turn, and three events let one be sent, one wait in the thread and one be
queued; any write to `client_pid` is possible at any time, so one viewer meets
what a second could do to it (`netlink_quit` has two). Three loads give
a chain in which a stub is in the middle, between one that is cut and one that
is armed. Threads share with each other only what `Loader` and `Sysctl` change,
and no step of one changes what another reads, so one thread shows what any may
see; the proofs are for any number. `Stub` has the real texts; in
`stub` no two words that matter are equal, so a value in the wrong place is
seen, and a call may find what the call before left on the stack and in the
registers. With four events kept the first, an inner and the last node differ and
a fifth address lets a freed one be reused or not. 19 cells hold some of the
messages and not the longest. `MaxEvents`, `MaxLoads`, `Nodes`, `Blocks` are
bounds of the model; `MaxLinks`, `MemLimit`, `MaxPayload` are constants of the
code made small.

In `hooking` the entry code is each opcode of the one-byte and two-byte maps,
and some of the three-byte maps and of VEX, under no prefix, 66, 67, f2, f3,
REX.W, 66 with REX.W and 67 with REX.B, with eight modrm bytes that give each
kind of address, followed by the call through the table; and the code of a real
kernel, as it is and behind a call through another table. What comes after the
search depends only on what was found, so
the constraint `Searched` follows only the last two beyond it. Two loads give
a stub that calls another; two calls give a first and a last entry of the file
table and both templates. The first load leaves at most two blocks behind
(the table it filled, and the empty one if registering failed); the second
holds the same two and, while `krealloc` moves, one more: five blocks are never
too few. The
addresses that are patched in contain `ret`, `jne`, `nop`, `call` and bytes of
the placeholder.

Deadlock is not checked where the system may really stop: `netlink` (the module
is unloaded for good), `scthook` (all threads died, no load is left), `viewer`
(the viewer quit), `hooking` (the last load is over, or one ended in `Oops`). Symmetry is
used for the addresses of `viewer` only, a run without liveness.

## 4. Fairness

`Netlink!Fairness`: once called, insmod and rmmod go on, the kernel thread runs
when it is runnable, and a hook that is in `nl_send` gets on. These are the
scheduler's promises to tasks that do not block. Nothing has to start: no
fairness for loading, unloading, viewers or sysctl writers.
`SctHook!FairSpec`: a thread in a stub or a hook gets on; the real function may
block for ever, as a `read` does.

## 5. Proofs

All are for every value of the constants.

**EventChannelProofs**: what a lossy FIFO channel puts out is strictly
increasing (`ChannelInOrder`), as every number pending is greater than
all that are out.

**NetlinkProofs**. `TypeCorrect` needs `SkbHeld` (the thread holds a buffer
exactly in the three places of `nl_send_skb`) and `Unborn`. `SendSocketCorrect`
and `NoDeliveryAfterExitCorrect` follow from `SocketInv`:
until `nl_init` is through nothing is queued or held (`Quiet`), which is why the
thread may start before the socket exists; from then on there is a socket or no
thread; the socket is released only in `nl_halt`; and a viewer with an open
socket keeps the module loaded. `NlInitWholeCorrect` needs `StopInv` besides: the
thread leaves its loop only when it was told to stop, and it is told so by
`nl_init` when that has found no protocol, or by `nl_halt`. `ImplementsCorrect` maps each step to a step of
`EventChannel` or a stutter, and `InOrderCorrect` is `ChannelInOrder` seen
through that map.

**SctHookProofs**. `TypeInv` says that a thread in a stub is in one that was
made room for. `ChainEndsCorrect` needs that the stub of the load in progress
is not made twice; `ArmedMappedCorrect` and `RealIntactCorrect` that the table
holds the stub of the last load when `unhook_calls` comes to it, unless a step
failed. `ImplementsCorrect` rests on `RunsInv`: before the real function has
run, the count is 0 and the thread is on its way in, afterwards 1 and on its way
out. `EventsMatchCorrect` rests on `ReportedOf`, nothing is reported on the way
in, and on `OnceOf`, which holds as long as no stub was left armed: then only
the outermost stub of a call can have been armed when the thread came to it, as
what that one calls is older and cut (`ArmedInv`), for good. So the inner ones
skip their hooks whatever is at the addresses they have, and after the report
of the outermost one the call is over.

**StubProofs**. The first part computes what becomes of the text. `CreateFills`
follows the seven calls of `ud_patch_addr`: after each, the next hole in order
holds its address and every other instruction is as it was, so `Created` has
the addresses in their places. `Destroyed` says the same of
`ud_patch_cmp`: the tests become `nop`, their `jne` becomes `jmp`, and no
instruction moves, which is why a thread in the middle of the text can go on.
The second part annotates each place of the text, as one would a program:
`StubInv` says what is in `rax` (`RaxInv`), where the registers are those of the
call (`RegsInv`), what the words of the frame hold (`FrameInv`), what the
function called is (`CallInv`), and what the call has come to (`RetInv`), all
of it for a text as it was made or cut (`TextInv`), since both have the same
places. There is a lemma per action; saving goes register by register, since
each move has to spare the words of those before it and of the hook info. The
properties follow: the arguments and the result survive (`ArgsCorrect`,
`ResultCorrect`), the functions come in order (`OrderCorrect`), the post-hook
finds what its own pre-hook left (`InfoCorrect`, `ReportCorrect`), and a cut stub
goes from no test into a hook (`CutCorrect`). They hold for any number of calls
through the same stub, cut between any two instructions and switched at any
time, for any arguments, results and nodes, also ones that are equal to each
other or to what an earlier call left, and for hooks that leave anything in the
registers. `StubValues` asks only that they have the size of a register,
that a node is not NULL and that 0 is not 1.

**CodecProofs**. `HeapInv` says place by place what the kernel holds of an
event; `KernelFreesCorrect` and `BufferLivesCorrect` follow. `RoundTripCorrect`
is about a message as a concatenation: a chunk is its length and its cells
(`Coded`), and `CodedSplit` shows that what `get_chunk` takes off the front is
what `add_chunk` put there. `KernelInv` says that `data` is the chunks added so
far, `ViewerInv` that what the viewer has yet to read is the chunks it has not
taken, and `TurnInv` that both are at the same event. Only the chunk of a task
that was renamed may differ from what was noted, and it still has the length
that was measured. `ViewerHeapInv` says field by field what the viewer holds,
for `ViewerFreesCorrect`; that sizes never lead the viewer astray
(`WildOnlyTooLongCorrect`) is part of the same induction.

**ViewerProofs**. The list, the rows and the keys are walks along pointers,
which are recursive functions; `Induct` is induction for a set of numbers
instead of a formula, and the first part shows with it what a walk returns.
`ViewerInv` says that there is a sequence of nodes, none twice, that is chained
by `prev` and `next` from `head` to `tail` and consists of just the addresses
that are allocated. `prev` of the head may point to a node that is gone, as the
code leaves it; that is why the loops must stop at `head` and why
`KeysCorrect` asks that the first event has not been dropped. `ListCorrect`,
`FollowsCorrect`, `RowsCorrect` and `KeysCorrect` follow, and
`ViewerImplementsLog` maps the sequence to the log of `EventLog`: adding an
event appends, and drops the first when the list is full.

**HookingProofs**. `HookingInv` has four parts: `TypeInv`; `TextInv`, a stub is
as `create_stub` made it or as `destroy_stub` left it; `SctInv`, the table leads
to the real function or a stub that was made, and no load makes a stub twice;
`FilesInv`, the table of the files grows call by call as the stubs are made,
and once it is registered has an entry for each and a zero entry, whatever
`krealloc` moved. `FilesSwitchCorrect` follows. `ImplementsCorrect` is the
refinement: seen from each call, every step of the loader is a step of
`SctHook`'s or a stutter. `StubsCorrect` takes `ChainEnds`, `ArmedMapped` and
`RealIntact` from `SctHookProofs` through that map. `Hooking` never looks at what
is where an earlier module was, so the map gives each load a `base` of its own,
and `ArmedMapped` says the more: an armed stub belongs to the load itself. All of it assumes of the
constants only `HookingAssumption` (the addresses of one load have different
bytes, and a stub, which is never freed, has others than anything of any load;
none is the placeholder; where a later load is put is left open) and `StubAssumption`, and so holds of any
disassembler that patches as it should and finds any table, or none.

Only model-checked: the liveness properties (`WakeDelivers`,
`StopWhileAsleep`, `CallProceeds`), for which the prover has no means; and
`LengthsAgree`, `TableFound` and `PatchesText`, since the decoder is recursive
and the prover cannot follow a `RECURSIVE` operator. For the same reason
`StubAssumption` is evaluated and not proved: it is what connects the theorems
about `Hooking` with `UdisUtils`. `InOrder` is the other way round: proved, and
not in a run, as it follows from `Implements`.

## 6. Where the code does not do what it says

Each is a run in which the property named is violated.

* `netlink_unload` (`UnloadEnds`): rmmod waits for ever when its stop request
  comes between the thread's test of `kthread_should_stop` and
  `TASK_INTERRUPTIBLE` (netlink.c:36). The same window strands an event in the
  queue until the next one.
* `netlink_quit` (`QuitsOnlyItself`): a viewer that quits clears the
  registration of another (monks-viewer.c:207).
* `scthook_info` (`InfoRecovered`): switched off between the two tests of a
  stub, the node of the pre-hook is never freed (stubs.S:174).
* `scthook_destroy` (`DestroysStubs`): if `hook_calls` failed, unloading patches
  the kernel's own function (sct_hook.c:223).
* `stub_result` (`ResultSeen`): the 32-bit post-hook reads half of the result
  and half of the hook info, and reports a failed call as "Ok"
  (sct_hook.h:179).
* `viewer_cursor` (`NextVisible`): a key leads through NULL, or onto a hidden
  event, if the first or last event is hidden (ui.c:163).

Smaller things, seen and written down in the models or as hazards, without a
run: the syscall table is never restored, so every load lengthens the chain
(the comment at sct_hook.c:207 says otherwise); `stub_32` calls the post-hook
with the registers as the real function left them; add_chunk does not free the
membuffer when the first chunk finds no memory; a message longer than
`MAX_PAYLOAD` makes the viewer read past its buffer; after a failed `nl_init`
nothing drains the queue and unloading dereferences NULL; a stub that a failed
`register_monks_controls` or `unhook_calls` left armed comes to life again if a
later load is put in the same place, and a call that passes both stubs is
reported twice (sct_hook.c:106; `EventsMatch` holds while no stub was left so);
`register_monks_controls` loses the table that `hook_calls` has filled, which
then is never freed; each resize leaves the old windows behind
(`create_win_data_data_box` frees them only if there are none); the row
loop of `draw_data` starts one row below the window, so that the event the
cursor is on is not seen; the loop at the end of the viewer's `main` frees
nothing.

Where the disassembler and the processor part, found by `LengthsAgree` before
`Deviates` named them: a push or near branch with both 66 and REX.W has four
bytes of immediate, decode.c takes two; with 67 and REX.B, `rm == 5` and
`base == UD_R_EBP` (decode.c:616, 637) do not hold for r13d, so a displacement
is missed; outside of 64-bit mode 0f 38 80 and 81 with a register reach the
assertion at decode.c:420. None is in the kernel's entry code or in a stub.
`MAX_INSN_LENGTH` is tested for prefixes only, and `clear_insn` leaves scale,
base and lval of the last instruction in operands that do not set them.
`ud_find_syscall_table_addr` takes any call of seven bytes, so an indirect call
through another table before the right one (a paravirt call, say) is taken for
it (`TableFound` names the case), and `hook_calls` writes to that address.

## 7. What is taken from the kernel

* A socket of the module's netlink protocol holds a reference to the module:
  rmmod is refused while a viewer is bound, and no viewer can bind once
  unloading has begun (`Netlink!NetInit`, `Netlink!HookExit`).
* `kthread_stop` sets the flag, wakes the thread and waits until it has exited
  or died; a thread that has not yet run is not started.
* `stop_machine` is atomic for everyone who is not inside it.
* `/proc/sys/monks/client_pid` has mode 0666: anybody may write it.
* `register_sysctl_table` may refuse an empty directory, so that insmod fails
  after a failed `hook_calls`; older kernels accept it. Both are behaviours.
* A task may be renamed by another thread of its process at any time; the
  bytes behind the end of the new name are 0.
* Functions keep `rbp`, and hooks are built with frame pointers: the macros of
  sct_hook.h count on it.
* Where a module was there is nothing, or the same module again in the same
  place. Another module there, or the same one a few pages off, is left out:
  what an armed stub does then nobody knows. What a hook that was running when
  its module was freed finds, is treated in the same way.
* `kcalloc` of zero bytes returns `ZERO_SIZE_PTR`, which `kfree` accepts.
  A sysctl directory has the entries of its child table up to the first without
  a name, and a file that was opened before it was unregistered cannot be
  written any more.
* `InsnLength` is the processor, as its manual describes it.

## 8. Not modelled, and the plan

Not modelled: the CONFIG_X86_32 stub and the branches for it; of udis86 the
printing (syn.c, syn-att.c, syn-intel.c), symbol resolution, input from hooks
and files, the vendor setting other than `UD_VENDOR_ANY`, and mnemonics that
nobody asks for; of lkm.c `check`, which only reads, and the errors of libkmod;
colours, columns and the layout of a row (ui.c, string_utils.c); `main`'s
options; the logging macros.

Left to do: a composition of a call with the event path, with the calls of
`SctHook` as the senders of `Netlink` and the node of the event as what is
queued. Today the two meet only in what each takes for granted of the other: a
hook calls `nl_send` at most once, and `nl_send` returns to it.
