# A TLA+ development for OS_HW

The repository holds four pieces of operating-system coursework in C. Two of
them, a simulated CPU scheduler and the Kyber I/O scheduler, are concurrent or
reactive programs with hand-made data structures; a third is a file system in
user space; the fourth patches the kernel's SLOB allocator. This directory
models them in TLA+, checks the models with TLC and proves with TLAPS, for
every value of the constants, what matters most about them. Paths below are
relative to `src/` in the repository.

## 1. Inventory

| Component | Source | State it keeps | Operations | What makes it hard | What makes it correct | Status |
|---|---|---|---|---|---|---|
| Run queue | `project_2/Scheduler_VM/schedule_rr.c`, `schedule_sjf.c` | a circular doubly linked list through the tasks, its head, `nr_running` | `initschedule`, `wake_up_new_task`, `activate_task`, `deactivate_task` | links rewired by hand, preconditions nobody checks, a count kept beside them | one ring of inverse links, an exact count, the order of an abstract sequence | modelled, proved |
| Virtual CPU | `cpu.c`, `cpuinit.c` | current task, task tree with child counters and kill flags, IO wait list, one IO timer for all sleepers, clock | `runcpu`'s pass: exit, work, sleep, arm, spawn, tick, IO event, reschedule, switch | many coincidences in one pass; each step trusts the ones before it; memory is freed while pointers remain | every task in one place; parents outlive children; a sleeper has a timer; no request is forgotten; the machine shuts down | modelled, proved |
| Round robin | `schedule_rr.c` | static pointer `nxt` | `schedule` | the pointer is computed one call ahead | everybody gets turns, nobody is overtaken for ever | modelled, proved |
| Shortest job first | `schedule_sjf.c` | bursts and goodness of each task | `schedule`, `get_min_exp_burst`, `get_standard_goodness` | values of an earlier search; `nr_running` decides what is searched | the shortest runs; only what can run does | modelled, proved |
| Intrusive list and what it holds | `list.h`, `cpu.c`, `cpuinit.c` | the `list_head`s in the tasks' structures, every allocated object | `list_add`, `list_add_tail`, `list_del`, the loops; all that allocates and frees | entries leave lists that are being walked; a refused profile is taken apart at any depth | the lists are the sequences they stand for; nothing is used after it is freed, or freed twice, but where the properties say so; a refused profile leaves no process behind | modelled, proved |
| Profile parser | `cpuinit.c` | tree of tasks to spawn | `readProfile` | unbalanced SPAWN and ENDSPAWN | the tree that was written; unbalanced profiles refused | partly |
| Kyber dispatcher | `project_1/project1_module/project1-kyber.c` | per-CPU queues, per-hardware-queue lists, busy maps, batch, tokens, wait queues | insert, dispatch, flush, get token, finish, wake | insertion races flushing; freeing a token races going to sleep; requests come back | tokens conserved, no lost wake-up, no starvation, order kept | partly; what is modelled is proved |
| Kyber latency tuning | the same file | per-CPU histograms, deadlines, percentiles, depths | sample, timer function, resize, store of a target | completions race the timer function; one deadline for two histograms | every sample counted once and evaluated; throttle only on new data | modelled, proved |
| Kyber set-up and removal | the same file | the objects of a queue and of each hardware queue, the timer | `init_sched`, `init_hctx`, `exit_hctx`, `exit_sched` | every allocation can fail; completions and the timer function run on | all or nothing is allocated; nothing is used that is not | modelled, proved |
| Deduplicating file system | `project_4/.../src/bbfs.c` | tree of nodes, per-file block indexes, store of shared blocks, `strtok`'s position, `errno` | the FUSE handlers | threads share `strtok`; blocks shared by files; removal by index; handlers that answer and do nothing | each handler does what it was asked and answers what is there; a file keeps what was written to it | partly; what is modelled is proved for one thread |
| SLOB best fit and accounting | `project_3/patch_3` | three lists of partly free pages, the chain of free blocks inside each page, the counter of allocated memory | allocate, free, grow, give back, report | the chain lives in the memory it describes; the lock is left to take and return pages; the choice of a page ignores an alignment; the counter is outside the lock | no memory has two owners; a page's account is exact; the best fit is taken | partly; what is modelled is proved |
| The rest | system calls, a sysfs example, test programs, logs, build files | none | - | - | - | not modelled |

How they interact: the virtual CPU calls a scheduler's `schedule`,
`activate_task`, `deactivate_task` and `wake_up_new_task` in one thread and
the scheduler calls back `context_switch`; they share the tasks and
`nr_running`. The Kyber functions are callbacks of the kernel's blk-mq layer,
called on several CPUs, which communicate through the token bitmap and its wait
queues; the latency tuning changes the depth of those bitmaps from a timer. The
file system's handlers are callbacks of libfuse, called from its threads, and
communicate through global structures without a lock. SLOB is called by the
whole kernel on every CPU, protects its lists by one spinlock, and calls the
page allocator outside it. The four are independent programs; the profile
parser builds the tree of processes from which the virtual CPU spawns.

`PROJECT.json` lists every component with its status, and under `hazards` each
place of the code that is hard to test, with the properties that watch it.

## 2. Modules

Scheduler:

| Module | Stands for |
|---|---|
| `TaskOrder` | abstract: the run queue as a sequence of tasks |
| `RunQueue`, `RunQueueOrder` | the list, pointer by pointer; it implements `TaskOrder` |
| `VirtualCPU` | `runcpu` and what it calls, over a `RunQueue`; the policy is left to the modules below |
| `ProcessTree` | abstract: processes are born, sleep, wake and die, children before parents |
| `RoundRobin`, `RoundRobinTurns` | the machine with `schedule_rr.c`; a history of turns |
| `ShortestJob` | the machine with `schedule_sjf.c`; it implements `ProcessTree` |
| `ProfileParser` | `readProfile`, as a function of the commands of a profile |
| `SampleProfiles`, `MC*` | profiles in the manner of the `*.conf` files, which the parser reads back; instances for TLC |
| `LinkedList`, `MCLists` | `list.h` on `next` and `prev`, compared with operations on sequences |
| `TaskLists` | all that the machine allocates, links and frees, from reading a profile to its end |
| `TaskFamilies` | abstract: the sequences of unborn children and of sleepers |
| `RunQueueProofs` | theorems about the queue alone |
| `SchedulerProofs` | lemmas about the machine under any policy, then theorems about it under each |
| `TaskListsProofs` | lemmas about `list.h`, then theorems about the machine's memory and lists |

Kyber: `KyberStreams` (abstract: streams of requests and a bound on what is in
flight), `KyberDispatch`, `KyberTurns` (which implements `KyberStreams`, and a
history of waits), `KyberHistogram` (pure arithmetic), `KyberLatency`,
`KyberLatencyHistory`, `KyberLifecycle`; with the theorems in
`KyberDispatchProofs` and, about tuning, set-up and removal, in
`KyberQueueDataProofs`, both over `FiniteSums` (lemmas about sums over finite sets).

File system: `FileLog` (abstract: a tree of directories and logs, the requests
not yet answered and the answers), `FileSystem`, `FileSystemProofs`.

SLOB: `Heap` (abstract: blocks that are granted share no memory), `SlobPage` (one
page and the operations on its free blocks, pure), `SlobAllocator` (the lists, the
lock and the processors), `SlobProofs` (first lemmas about one page, then theorems
about the allocator).

### The scheduler's correspondence to the code

The variable `pc` of `VirtualCPU` says where the loop of `runcpu` stands. Each
action is the code between two such places: `Exit` and `CheckEnd` are `taskEnd`
and `killtask`, `Work`, `Sleep` and `Arm` the working half of `cycle`, `Spawn`
is `spawnChildren` with `forktask`, `Tick`, `IoEvent` and `Wake` are
`interrupt`, `Check` and `EndCycle` the tests at the end of a pass, `Switch` is
`context_switch`. The module leaves out the action of `pc = "schedule"`, which
each policy module adds. A task is a number; `life` says whether its structure
is not yet allocated, live or freed. Following NULL or a freed pointer is
undefined behaviour and leads to the absorbing `pc = "fault"`. Reading
`init->thread_info->kill` after init is freed (in `END_CYCLE`) is harmless,
because the loop's own condition ends it whatever is read. The draws of `rand()`
are nondeterministic choices from `IoDelays` and `WaitDelays`. `get_goodness`,
`get_max_waitinRQ` are called by nothing; the uninitialised
`thread_info.spawns` decides nothing.

One model tick is five milliseconds: a schedule tick is two of them and the
shortest IO delay ten. The clock saturates at `Horizon`, when every time of a
profile has passed, so the runs are finite and the loop goes on. `ShortestJob`
keeps the exponential average in fixed point (`Scale`) with run times capped
(`MaxRun`); ties that doubles would break by rounding are ties.

`LinkedList` is `list.h` as functions from links to links. `MCLists` assumes
`ListsRight`: on every list of up to four entries each of them yields the links
of the sequence that it should. `TaskLists` puts the lists to work: one step per
line of the profile, per entry a walk visits and per structure freed. A walk is
a pair of its head and the place it has read ahead (`walks`; `cleanuptask` calls
itself, so there may be several). It has no times: children are due, the event
fires and the schedule tick comes whenever the machine of `VirtualCPU` would let
them. `schedule` is that of either file (`policy`). Round robin follows `nxt`,
wherever that points by now: to a task that sleeps, which is switched in and has its
NULL links followed when it sleeps again (`AsleepOnCpu`), or to one that has ended
(`Fault`). Of shortest job first any queued task may be the shortest; with nobody
queued it reads the head. After a fault nothing more is said.

`misused` collects objects that are used or freed while not allocated, and
`FreedOnce` allows three kinds: init, which `END_CYCLE` reads after `killtask` has
freed it; the name of a refused process that has none yet; and the task that
`schedule` starts from. The last is a fault of the program (section 5, `cpu.c:350`), and the
property says how far it goes: shortest job first reads a freed task only when
nobody is left, round robin also while its pointer is at one that ended.
Of the strings that nobody points to any more (one for every TYPE, one for every NAME
that is replaced) and of the open profile the model keeps whether there are any.

`ProfileParser` folds `Obey`, one branch per `case` of `readProfile`'s switch,
over a profile's commands. A misplaced command follows a null pointer and ends
in the outcome `fault`. `SampleProfiles` assumes `ProfilesRead`: every profile
the machine starts from, written down as the `*.conf` files are, is read back as
the same tree, and without one of its SPAWN or ENDSPAWN commands it is refused or
faults; and `SurplusRead`, which says what one ENDSPAWN too many does. TLC
evaluates these in every run of the machine. A command is only obeyed
when something follows it, so the last bracket of a file without a final newline
is lost; reading words and numbers is left out.

### Kyber's correspondence to the code

Each hardware queue has one dispatcher (the code holds `khd->lock`), whose
position is `call[h].at`. It stops between any two accesses to something that
others change: the token bitmap, its entry on the wait queue, and each software
queue. Insertions hold the software queue's lock and are one step; completions
hold nothing and interleave with everything. Three steps are merged because
nothing else can tell: the first attempt at a token with the arrival at the
domain, adding the wait entry with the test whether it is already there (only
its dispatcher adds it), and the idempotent removal after success. External and
modelled from their use: the sbitmap wakes one sleeper per cleared token, as it
does for depths below 16 (a domain starts with more and comes there when it is
throttled; above, several tokens are cleared per wake-up), and blk-mq runs a hardware
queue after an insertion and dispatches until it gets NULL. `Resize` in
`KyberDispatch` may choose any depth; which depth is chosen is the matter of
`KyberLatency`. A request of `Requeued` may be given back by the driver
(`Requeue`: `requeue_request` is `finish_request` too) and is then inserted again
without being prepared.

`BucketOf` cuts its quotient to an unsigned int before it takes the minimum, as
`min_t(unsigned int, ...)` does; the width is the constant `UIntRange`, 16 in the
runs, so that the cut happens there.

`KyberLatency` has one step per recorded sample and per histogram flushed,
because these race; the rest of the timer function touches only its own data.
Deadlines are the time that is left, so the wrap of jiffies is out of the
model. `StoreTarget` sets a domain's target to one of `NewTargets` between any two
steps, as the sysfs attributes do. A request of the domain OTHER records nothing.
Depths from 1 to 3 do not shrink when the 99th percentile falls in the first bad
bucket, because the division truncates: the model does what the code does.

`KyberLifecycle` lists the objects in the order of their allocation
(`QueueObjects`, `HctxObjects`) and the order of their release; an action
allocates or frees one of them, or fails. Requests in flight and the timer
function use what they use in the code. That the block layer waits for the last
request before it leaves an elevator, and that `del_timer_sync` waits for the
function, is external.

### The file system's correspondence to the code

A `bb_file` with its metadata is an element of `node`; a directory's array
`files` a sequence of them; `store` is `all_blocks`; `saved` is where
`strtok(NULL, "/")` will go on. `call[t]` holds the locals of the handler
thread `t` is in. A handler stops between two calls of `strtok` and around its
search of the store. `Begin` is external: the kernel looks a path up before it
calls a handler, and holds the directory's or the file's inode lock meanwhile. It
looks up every directory on the way, so `Paths` holds these with each path.
Sizes are in blocks and a write is one block: a mount that does not ask for
`big_writes` (`bb_init` does not) gets at most one page per write, so the loops
over further blocks (`bbfs.c:869-972`) run only for writes across a page's end.
Those are left out: line 820 writes behind `temp_buf` and line 860 behind the
store's entry, so that what they compute is what the stack holds. A block of
`Short` data is hashed with one of the `Residues` that may stand behind it, so equal
data may be stored twice. Contents stand for data without a zero byte, behind which
`strncpy` keeps nothing. Also left out: what `realloc` does to the address
another thread is using, and reuse of freed paths.

`Hash` gives of a block what `strncmp` compares of its digest, the bytes before the
first zero, and blocks that differ may have the same: then the file that is
written shares the other's block. The buffer of a write ends in no zero byte, so what
`strlen` finds in it is any of `Lengths`: the file's size grows by that, and if it is
more than a block `strcpy` has written over the end of `temp_buf` (`Overrun`). Names
of 30 bytes or more are copied over the end of `token` and of `name` (`LongNames`;
`CopyToken`, `CopyName`), and paths of 300 or more over that of `fullpath`
(`LongPaths`). In each case the program may die of it or go on.

A handler's answer, with what it puts in its buffer, is `reply`; `errno` holds the
threads in which a call of the C library has failed, because `bb_readdir` answers
with the thread's `errno`. `cached` holds the names the kernel knows from a rename it
was told had worked, and `Expire` forgets them. `Remount` is `bb_destroy` and
`bb_init`: nothing is kept. `rename` stands for `link`, `symlink`, `chmod`
and `chown` too, which answer success and do nothing, but only `rename` makes the kernel
believe in a name. The program ends (phase `crashed`) where memory is first misused: a write past the sixteenth
block, or of data that `strlen` takes for longer than a block, a read of a later block
that is not there, `truncate` of a name that only a rename has made, a name or path
that is too long.

`FileLog` is the surprising truth about this file system, and
`ImplementsFileLog` shows that it is the whole truth in one thread: a write
appends, whatever its offset, the block or one with the same hash (`Alike`); truncating changes the recorded size and no data,
so what is written after it is read behind what was there before;
a file inside a directory is created, found and removed but never written,
because `strtok` has cut the path between the two look-ups of `bb_write`; a
directory is removed with everything in it; `truncate` answers the new size;
and a thread that has been asked to `ftruncate` reports an error for every listing
after it (`spoilt`). The mapping gives each path what is there now (`EntryAt`): a
file's log is what its array of block indexes leads to in the store.

### SLOB's correspondence to the code

The patch is a diff: of `mm/slob.c` it shows what it changes, and beside it adds
`mm/slob.c.save`, an older complete copy. The functions the diff does not touch
(`set_slob` and its like, `slob_free`, `kfree`, the caches) are read there, all
others in the diff of `slob.c`. Memory is counted in SLOB units. `page[p].mem` is
the page as `slob_free` and `slob_page_alloc` see it: a cell holds a block's
size, the offset of the next block, or the negated offset when the block has
one unit. What lies outside the headers is forgotten after each step
(`Forget`), since nothing reads it before it is written; it keeps the states few.
`FreeBlocks` follows the chain as the loops of the code do, from `freelist` to the
first block whose next one is at the page's end.
Each stretch of code under `slob_lock` is one step (`Search`, `InitPage`, `Free`);
between them a processor takes a page (`Grow`, `Count`) or returns one
(`Release`, `Uncount`). `allocated_mem` is loaded in `Grow` and `Release` and
stored in `Count` and `Uncount`, since the code changes it without a lock. It
counts pages, modulo `Wrap`. A block too large for a page takes one page, never
several. Left out: NUMA, RCU, `get_free`'s unlocked walk over the lists, and the
counters that only space the messages.

## 3. Runs

| Run | States | Question | Result |
|---|---|---|---|
| `task_lists` | 85,752 | init and three processes (symmetric) in every family, under either policy, refused at every line or run to the end | one ring; freed twice, used after or left is only what the properties name; the lists implement `TaskOrder` and `TaskFamilies` |
| `rr_machine` | 195,258 | two and three processes under round robin: pairs, families, crowds, workers | bookkeeping, families, wake-ups, turns; a machine that only switches to tasks that are there shuts down |
| `sjf_machine` | 724,041 | two processes under shortest job first | only runnable tasks run, the process tree is implemented, the machine shuts down |
| `kyber_rivals` | 664,624 | two hardware queues, three requests of which one may come back, two tokens, changing depth | tokens conserved, no wake-up lost, the domain served |
| `kyber_turns` | 202,265 | one hardware queue, two software queues, two domains | map and lists agree, each request in one place, streams kept; each domain served, and within its turn, whatever the other does |
| `kyber_tuning` | 646,108 | two domains, completions against the timer function and changing targets | every sample counted once, never stranded; throttling only on new data |
| `kyber_lifecycle` | 347 | three hardware queues, four domains, three requests in flight, every allocation fails or not | all or nothing is allocated, nothing is misused, a switch of elevators ends |
| `fs_log` | 317,755 | one thread, four paths, two contents that hash alike or do not, by what stands behind the shorter, a long name, data taken to be longer than its block, truncation to one block | handlers and their answers implement `FileLog` |
| `slob_heap` | 197,994 | two processors, two pages, objects of one, three and four units and whole pages (symmetric) | no memory given out twice, every page's account exact, the best fit taken |
| `rr_stale_turn`, `sjf_stale_goodness`, `fs_threads` | | what the repository says of itself | violated, see section 5 |

Why the bounds are enough for what they ask:

* The profiles of `SampleProfiles` combine both thread types, kill times before
  and after the end of work, children that outlive their parent's work and are
  outlived by it, and late births. Spawn and kill times stand in the same
  proportion to the schedule tick as in the `*.conf` files, and `IoDelays` has
  an even and an odd delay, so an IO event falls both together with a schedule
  tick and between two. `Latecomer` is due exactly when the machine shuts down.
  Three processes make three generations and three competitors.
* Init and three processes make every shape of family up to four generations, and
  lists of three entries, of which the first, the middle one and the last can leave
  while they are walked; three are also the least with which round robin's pointer can be at a
  task that sleeps or has ended while another is queued. Times are left out of `task_lists`,
  so nothing depends on a proportion.
* Liveness under shortest job first is claimed for two processes: with three
  generations it would rest on the rounding of doubles and the luck of `rand()`.
* Two hardware queues and two tokens are the least for which one can take the
  token another waits for, be woken in its place, or leave a wake-up unused; there one
  domain is enough. In `kyber_turns` two domains share the one hardware queue.
  Three requests are the least that keep one waiting with both tokens in use. One
  hardware queue with two software queues is the least for which an insertion
  falls between two flushes. A batch of two and one of one make the turns uneven.
  One request that may come back (`Requeued`) meets all others, which do not.
* In the tuning, one domain stays within its target and one exceeds it; two
  samples are enough for a percentile (`MinSamples`, 500 in the code). The
  arithmetic of histograms is checked by the assumptions `PercentilesRight` and
  `BucketsRight` of `MCKyberLatency` against its definition. The target of the domain
  that exceeds it has two values, so a latency falls in different buckets before and
  after a change; that of the other stays. The run has one CPU: that samples on one CPU
  race the taking of another's histogram is in the theorem `HistoryAccounted`, which is
  for any number.
* Three hardware queues are the least with one before and one after the one whose
  allocation fails; the allocations are few, so the run is small and complete.
* Two nodes beside the root are the least for siblings, nesting and removal in
  the middle of an array. Two contents of which one is short, with two residues, are the
  least with which different data shares a hash and equal data does not.
  Every write of `fs_log` is taken to be one unit longer than its block of two, so that it
  may overrun its buffer and sizes are not those of the blocks. "d" is a long name and
  what is below it a long path, so each path of the program is also taken with one.
  `MaxBlocks = 2` lets a file be filled and overflow. `MaxChanges = 5` is the number
  of calls but reads between two mounts: enough to make a file in a directory,
  rename, fill and truncate beside it; reads are not bounded. Truncation to one
  block makes an empty file longer than what it holds and a full one shorter, so
  that a read finds a hole and a write is read behind what it should have replaced.
* A page of eight units has room for four free blocks with users between them, so
  that a freed block comes first, between or last and joins on either side, on
  both or on none. Objects of one unit use the short form of the header, and an
  object of four units with a header of two must be aligned away from a block's
  beginning, which splits its head. Objects of one and
  three units share the small list and those of six are on the medium one; the large one is
  used as they are. Two pages make the choice of a page a choice.

Deadlock is checked except where the program stops: the machine halts or faults,
the virtual machine's memory is given back, a sample bound is reached, the
file system crashes.

Every property of a passing run has a mutant in `PROJECT.json`: a plausible
mistake in one mapped definition, which the run then reports.

## 4. Fairness

* The machine: weak fairness of `Next`. `runcpu` is one thread that never
  blocks, so a step that can be taken is taken. `ShutsDown` needs nothing else. It is
  claimed of shortest job first as it stands: every process has ended, at worst by the
  fault after init's end. Round robin may die earlier (finding 1), so of it
  `ShutsDownInTurn` is claimed: a run in which its pointer never is at a
  task that is asleep or gone when it is used ends with every process ended.
* Kyber: weak fairness of each dispatcher (blk-mq runs a queue it was asked to
  run), of the completion of each request in flight (the device answers) and of
  the wake-up that follows. Insertions and resizes are not fair: `DomainServed`
  holds although others may flood the device for ever, or never come (`kyber_turns`).
  A request that was given back is inserted again.
* Set-up and removal: weak fairness of the switching thread, of completions and of
  a timer function that has begun. Nothing makes anybody switch, nor the timer fire.
* The tuning, the lists, the file system and SLOB: safety only. `KyberLatency` states
  the fairness of its timer, but no property that is run needs it.

## 5. Findings

1. `schedule_rr.c:102`: round robin can switch to a task that sleeps, when
   the only process falls asleep in the cycle in which another is born
   (`rr_stale_turn`). The following call dereferences NULL.
2. `schedule_sjf.c:314`: the minimum is seeded with a value of an earlier
   search, so the first task wins whatever its burst (`sjf_stale_goodness`).
3. `bbfs.c:132`: threads share `strtok`'s position, and a look-up returns a
   node of another name than the path's (`fs_threads`).

What follows was met while modelling and has no run of its own.

* `cpu.c:350`: an IO event in the pass in which init ends asks for `schedule` with
  nobody left, on an empty queue whose head is freed; the comment at `cpu.c:571` means
  it to run "if there are still tasks to be run". Under shortest job first
  `MachineSound`, and under round robin without sleepers `TurnsSound`, show that
  nothing else makes the machine fault.
* `bbfs.c:830`: the hash of a block covers what the buffer held behind the data, so
  the same data is stored again when it does not fill its block, which the comment at
  `bbfs.c:34` says is not so. The model stores it again (`Residues`), and no property
  claims that a block is stored once.
* `patch_3:931`: SLOB's search for a page aligns the header, the allocation in
  it the object. For a `kmalloc` of a power of two above the least alignment they
  differ: the page may then not hold the object, or fit worse than another, and
  one is taken anew although there is room. The comment at `patch_3:914` says that the
  number found is what will be left over, and `project_3/README.txt:52` that the best
  block is always taken. `BestFit` holds, and is claimed, for everything else, and
  `ImplementsHeap` for these too.
* Kyber's two percentiles of a domain share a deadline, and the first resets it:
  the samples of the second may wait for more than a second.
* `createTask` allocates a `thread_info` that its callers replace at once
  (`cpuinit.c:60-73`), so one is lost per task; the children of a process that
  ended before they were due are never freed; nor are `rq`, the string of a TYPE, a name
  that a second NAME replaces, and the file of a profile that is refused at a command
  (`NothingLeft` names them all).
* A profile refused between NEWPROCESS and NAME makes `cleanuptask` free a
  `processName` that `malloc` left as it was.
* A latency of 2^32 quarters of its target or more counts as one that is shorter by so
  many (`project1-kyber.c:626`): it takes a target of some nanoseconds to see it
  (`BucketsWrap`).
* Two blocks whose digests agree up to a zero byte in both are taken for one
  (`bbfs.c:844`, `:863`), about one pair in 65,536 by the first byte that is zero in both:
  the file that is written last then has the other's data. Names of 30 bytes or more
  overflow `token` and `name` (`bbfs.c:133`, `:311`), paths of 300 `fullpath`
  (`bbfs.c:306`), and `strlen` runs over the end of a write's buffer (`bbfs.c:825`).
  `FileLog` says what may come of each.
* With `nr_requests` of 4 to 7 the bitmap's shift is 0 and so is `async_depth`: the
  share meant for synchronous requests (`project1-kyber.c:45-50`) is everything.
* `allocated_mem` drifts: `kfree` returns a large block's page without
  subtracting it (`patch_3:1964`), and the counter is changed outside `slob_lock`
  (`patch_3:895`). Nothing in the allocator decides on it.
* `bb_ftruncate` takes the pointer in `fi->fh` for a file descriptor (`bbfs.c:1423`),
  fails with EBADF, and `bb_readdir` in the same thread then answers that
  (`bbfs.c:1244`). After `truncate` to nothing and a write, a read finds the old
  block. A directory's size goes down by that of each
  file removed from it but never up, and becomes negative. `ImplementsFileLog` shows each of these.

Beside these, `OvertakenOnce` shows the exact cost of waking sleepers to the
front: a task may be overtaken once more by the same sleeper, never twice more,
and not at all while nobody sleeps. `TurnsSound` says what else holds then.

## 6. Proofs

Every theorem holds for all values of the constants under the named assumption of
its module, which TLC evaluates in every run of that module:

| Proofs | Assumptions | What they ask |
|---|---|---|
| `RunQueueProofs` | `QueueAssumption` | finitely many tasks; the head is one, NULL is none |
| `SchedulerProofs`, the machine and round robin | and `MachineAssumption`, `ProfileAssumption` | the shape of the tree the parser builds, positive delays |
| `SchedulerProofs`, shortest job first | and `JobAssumption` | positive scale and cap of the averages |
| `TaskListsProofs` | `QueueAssumption`, `IdleAssumption`, `NodeAssumption` | idle is no task of the queue; NULL is the address of no list node |
| `KyberDispatchProofs` | `KyberAssumption` | at least one domain; positive batches and depths |
| `KyberQueueDataProofs`, tuning | `LatencyAssumption`, `UIntAssumption` | an unsigned int counts beyond the buckets; at least one CPU and one domain; positive depths, intervals and least number of samples; a request's IO latency is at most its total latency |
| `KyberQueueDataProofs`, set-up and removal | `LifecycleAssumption` | at least one domain and one hardware queue |
| `FileSystemProofs` | `FileSystemAssumption`, and in the theorems `OneThread` | no path is empty, and each comes with the directory it is in; nothing that is written looks like what was never written; a block is not empty; of the hashes nothing; one thread |
| `SlobProofs` | `SlobPageAssumption`, `SlobAssumption` | at least two units to a page, and a lower power of two goes into it twice, as PAGE_SIZE is one; sizes and alignments are positive; the two breaks are in order; `Wrap` is positive |

### The queue

`QueueLinksSound`: that links are inverse is not inductive alone. `Unlink` sets
the links of the neighbours, which is right only if they are in the queue, and
the count drives the case of the last task. The invariant is `QueueTypeOK` with
four parts: `LinksInverse`, `HeadQueued`, `CountExact` and `OneRing`. `OneRing`
says that a set of tasks closed under the links and not empty is the whole queue:
it excludes a second ring without mentioning reachability, and gives `HeadAlone`:
a head that is its own neighbour is the only task, so that a count of one means
what `schedule` takes it to mean.

`QueueIsTaskOrder`: the abstract queue is the sequence that following `next` from
the head gives (`Hop`, a recursive function, which exists by a least
counterexample). `RingIsWalk` shows that this walk meets every queued task once
in `nr_running` steps; `InsertEnters` and `RemoveLeaves` what it is after an
insertion and a removal. From these each step of the linked queue is a step of
`TaskOrder`.

### The machine, under any policy

A policy is any rule that, where the machine calls `schedule`, faults or switches
to a task that is alive. `MachineInv` joins the types, the store of tasks (who is
where, exact child counters, tasks only freed without live children), and control
(what each `pc` implies of the current task, the timer and the requests). Two
arguments carry it: the tree is *rooted*, since parents have smaller numbers than
their children and a live task has a live parent, so the least live task is init
(`EldestLive`, by the least-element argument of `NatMinimum`) and, init never
sleeping, the queue is not empty while anybody lives (`RootQueued`); and requests
stand only on the task on the CPU (or on idle), so the check at the end of the
pass serves them all (`NoRequestStands`). `MachineStep` has a step per action.

If the policy chooses only *queued* tasks, the machine also keeps `Runs` (what is
on the CPU is queued, a fault comes only from the call after init's end) and
implements `ProcessTree`, step by step (`TreeStep`).

### Round robin and shortest job first

`ScheduleIsPolicy` shows that round robin is a policy. From `MachineInv` follow
`TypeCorrect`, `EveryTaskPlaced`, `ParentsOutlive`, `NoSleepForever`,
`RequestsServed`, and `QueueUsedAsDemanded`, by which `QueueLinksSound` and
`QueueIsTaskOrder` are about the queue in the machine (`QueueKeepsOrder`).
`TurnsStaySound` is about the static pointer, which nothing else in the program
writes: while nobody sleeps a task leaves the queue only when it ends, and it ends
only on the CPU; the pointer names the task on the CPU only if that is alone beside
init, where `schedule` does not follow it, or has just forked and so is rescheduled
before it may end (`TurnInv`). With sleepers the same is false, and is finding 1.

`NobodyOvertakenTwice` needs the place of every task in the queue (`Place`, from the
walk of `RingIsWalk`) relative to the pointer, which goes down the queue and starts
again behind the head. `Rows` says of each pair what the pointer's place tells
(`LapOf`): where it has passed a waiting task `t`, a task `u` had one turn at most,
and if it did the pointer has passed `u` too; where it has not, a `u` between it and
`t` has a turn left. Insertions go in front of everybody and removals keep the order
(`PlacesInsert`, `PlacesRemove`), so only the step past the end of the queue is
delicate: nobody in front of `t` may have had its last turn. While nobody sleeps that
is so because such a `u` was passed after `t`, and stands behind it; a sleeper may
have been woken to the front since, and that is the one turn more. The stale pointer
of finding 1 does no harm here: it can name a task that fell asleep only if that was
alone beside init (`Bay`), so everybody queued has only just come.

Shortest job first chooses a queued task (`MinBurstIsLeast`: the least burst on
the walk along `next`, a least-counterexample argument, and what the goodness
search makes of it), so `JobInv`, which is `MachineInv`, `Runs` and the types of
its own variables, gives `JobsTyped`, `JobsMachineSound`, `JobsBookkeeping`,
`JobsAreProcessTree` and `JobsQueueIsTaskOrder`. That it chooses the *shortest*
is not proved: it is finding 2.

### The machine's memory and its lists

`FreedOnce` and `NothingLeft` are far from inductive: whether a line of `cpu.c`
follows a pointer into freed memory depends on who is on which list, who is whose
parent and where the walks stand. `MemoryInv` says that, for every set of
tasks and every shape of family, and `RestInv` the little that is said of the pointer, of `rq` and of the profile.

* `Rooted`: every set of processes holds one whose parent is outside it. So a
  living process has init for an ancestor (`RootAlive`), and if init counts no
  children nobody else is alive (`RootAlone`), which is what lets `killtask` free
  init last.
* `Objects`, `RootObjects`, `IdleObjects`, `Phases`: which structures each task has,
  from being read to its end, and what the part of the program says of them.
* `Counted`: `children` is the number of living children, and their parent lives.
* `Lists`: each list of children is intact and holds exactly the processes that
  were read, are not born and are not being cleaned up; the wait list holds exactly
  the tasks that are alive and off the run queue.
* `Walks`: a walk over a list of children stands on an entry of that list or on its
  head, although the entry it was on has left the list and been freed; the
  walks of `cleanuptask` are stacked from a child to its parent, down to init.
* `Misuses`: what may have been misused by now, from which `FreedOnce` follows.
* `Phases` also has that the task on the CPU is idle or alive. Of `nxt` nothing is
  claimed but that it is a task or NULL: `FreedOnce` holds of round robin
  because what is read through it is freed, or is a whole task, queued or asleep.

On the way round a list every entry's links lead to its neighbours (`Ring`, with
`At` for the node at each place). `RingAddTail` and `RingDel` say what
`list_add_tail` and `list_del` make of one list, and `RingFrame` that they do nothing to
another, whose nodes are others. `Entries` is the sequence the model follows;
`RingEntries` shows that it is the one sequence on the ring, which needs that a walk
of more steps than there are nodes has come back (the recursive function is a least
counterexample again). `HoldsAddTail` and `HoldsDel` state this of a list
as a set (`Holds`) and as a sequence at once, so that a step disturbs only the
list it is about (`ListsFrame`).

`MemoryStep` has a step per action; each shows `MemoryInv'` and the step of
`TaskFamilies` it takes. `ChildLeaves` is the step by which a child leaves its
parent's list from wherever it stands in it, and the same for birth and clean-up.
`QueueUse` shows that the machine inserts and removes at the run queue only as
the queue demands. The theorems are `MemoryInvariant`, `FreedOnceSound`,
`NothingLeftSound`, `ListsAreFamilies`, `MachineRingLinks` and `MachineTaskOrder`.

### Kyber's dispatchers

`KyberInv` has six parts, each proved with the help of the ones before it.

1. `TypeOK` and `DispatcherSound`: what a dispatcher's position says of its batch
   and of the domains it has visited.
2. `Lists`: `RequestsFindable` and `WorkAhead`. `AlwaysGetsRequest` is not inductive
   because the flush takes several steps; `WorkAhead` says at each of them what is
   still to be found.
3. `Owned`: `TokensOwned` and `FreshForgets`: a request that was never dispatched
   remembers no token, so that finishing it gives none back.
4. `Waits`: what a dispatcher has given up in this round it waits for, unless it was
   asked to run again in the meantime (`Covered`, the domains behind it in the circle).
   At the end of the round that is all of them: `RestsOnlyThrottled`.
5. `SomebodyWakes`. `NoLostWakeup` speaks of hardware queues at rest and is not
   inductive: one that has given a domain up and is on its way to rest is as good as
   asleep. `LetGo` names both, `Relief` what must then be there: a token in use, a
   wake-up under way, or a hardware queue that has requests of the domain and has not
   let go of it. The step that matters is that of a dispatcher that fails to get a
   token: the token it did not get is in use (`NoneFree`).

The theorems are `DispatchTyped`, `DispatchFindable`, `DispatchTokens`,
`DispatchRest` and `DispatchNoLostWakeup`. `DispatchLimit` follows from
`TokensOwned`: the requests in flight map one to one into the domain's tokens.

`DispatchStarvesNone` adds the history of `KyberTurns`. What a waiting domain has
seen pass is bounded by the batches of the domains that had their turn since its
own (`Since`) and what the current one has taken of its batch (`TurnsAt`); when
the dispatcher goes on, a finished batch joins the former. A domain's count starts
again when it is served, found empty or found without a token, which are the only
reasons for which a dispatcher leaves it.

`DispatchStreams` is the refinement of `KyberStreams`, the theorem `TurnSpec =>
ImplementsStreams`. A software queue's stream is what it still has in its kcq behind
those of its requests that were flushed, which `OfCtx` picks out of the hardware
queue's list. `SequencesGrow` is the induction the lemmas about `OfCtx` need, over a
set of sequences instead of an operator; with it `OfCtxConcat` (it distributes over
concatenation) and `OfCtxUniform` (of a kcq's list it picks all or nothing). So a
flush is a stutter (`StreamFlush`), an insertion a `Submit`, or a `SubmitUrgent`
that stops in front of what was not flushed (`StreamInsert`), and the first request
of a hardware queue's list is the first of its stream (`StreamTake`). That a
dispatcher with a token finds fewer requests in flight than the domain has tokens is
`OwnersLimited`: their tokens differ, and differ from its own.

### Kyber's tuning, set-up and removal

`PercentileRight`, `BucketsAsTabled` and `BucketsWrap` are about the arithmetic: the scan of
`calculate_percentile` stops at the bucket that its definition names, and
`add_latency_sample` puts a latency into the bucket of the table at the head of the
source, for every target that is a multiple of four and every latency up to `UIntRange`
quarters of it; `BucketsWrap` says that a longer one begins again at the first bucket. What the scan computes over a
histogram is a sum over a finite set; `FiniteSums` says how such sums change with
their set and their function, by least counterexample.

`LatencyInvariant` is the types and `NoStrandedSample`, which is inductive once the
types are split by who writes them. `HistoryAccounted` and `HistoryThrottles` add
`KnownIsFresh`: a percentile that is kept has not been used to throttle.

`LifecycleInvariant` says, for each place in the switch, which prefix of the
objects has been made (`Made`) or which rest is left (`Left`), and who may run beside
it. `SetUpAllOrNothing` and `SetUpMisusesNothing` follow.

### SLOB

The lemmas about one page say what its memory means. `Account(pg, C)`: the set `C` of
free cells falls into maximal pieces, at the start of each stands a header with the
piece's length and the start of the next (`Describes`), `freelist` is the first and
`units` the size of `C`. From it `FreeBlocksAre` (the chain visits every piece once,
by least counterexample along the walk), `FreeCellsAre` and `PiecesApart`. Each
operation is then a change of `C`: `TakeInside` and `TakeFirst` cut cells out of a
piece, with or without a head left over, `ReinsertIs` and `FirstFreedIs` put cells
back, joined to what they touch. What makes these work is that a header lies within
its own piece, so that writing one leaves the others alone (`OtherPiece`,
`OtherAfterBack`), in both formats. `PageAllocIs` joins them: what is found is free
and aligned.

`SlobInv` says of each page, by who has it (`Settled`): on a list, its account is of
exactly what its blocks leave; with SLOB and on no list, nothing is left, unless one
processor carries it to or from the page allocator, and then nobody has a block in
it. A page may be carried only once. The lists have no repetitions, and a page is on
at most one of them, that of the size of its blocks: this is inductive only because
all blocks of a page are of the same list (`BlocksFit`), which is not said anywhere in
the code and follows from the page having been made for the list it was searched in.
`SlobStep` has a step per action; the ones without the lock are easy just because a
page in transit is empty.

`SlobTyped` (with `FreshFound`, by which `BUG_ON(!b)` never bites), `SlobPagesSound`
and `SlobImplementsHeap` follow. `SlobFitsBest` compares the two stages: with an
aligned offset `slob_page_best_fit_check` and `slob_page_alloc` compute the same
waste for each block (`OffsetAligned`, which is arithmetic of multiples), the least
of a page's (`FitIs`) and the least of all (`BestOfAll`). Without that condition it
is false: see section 5, `patch_3:931`.

### The file system

The theorems have the hypothesis `OneThread`: FUSE calls the handlers from one
thread when it is run with `-s`, which the tutorial the code grew from names as a remedy
for races between handlers (`html/security.html:104`). Without it a
look-up may return the node of another path (`fs_threads`), and the argument below,
which rests on what look-ups find, fails.

`FileInv` joins the tree, the store and the call of the thread.

* `Shaped` and `Charted`: the nodes are a forest (`IsForest`), in which no node is
  listed twice and siblings have different names. `DescentIn` is the walk of a
  look-up down a path, as a recursive function; `ResolveStep` is one step of it.
  Every node is reached on one path (`OnePath`), so a new entry (`LinkedTree`), or the
  removal of one (`UnlinkedTree`), changes what is found at that path and below, and
  nowhere else. The later siblings of a removed entry move up in the directory's
  array, and are found as before.
* `Counted`: the array of a file's blocks is filled from the front (`Fills`) as far as
  its count says, but for the file that is just being written (`Written`): there the
  three places that a write changes are at different stages. What a directory other
  than the root lists has no blocks, so that a removal leaves that directory's own count
  at nought; only the root's becomes negative.
* `Stored`: every block of the store has been filled.
* `Call`: what a handler has found where it stands. A look-up has come down some
  number of names of its path (`Descent`), and the names after those are what `strtok`
  still has to give (`Scan`). This is inductive only because no other
  thread runs, and so is that what the handler was told by its first look-up still holds at
  its last step (`FileAt`, `Free`). The second look-up of `bb_read` and
  `bb_write` goes by the first name alone (`Rechecking`): it finds the file if that is in
  the root, and a directory otherwise, which has no blocks. That is why a nested file is
  never written, and why `Writing` may say that the path has one name.

`FileSteps` shows `FileInv'` and the step of `FileLog` that each action takes: asking,
answering with a change of the tree or without, dying, formatting again, or none. The
mapping is compared for the nodes before and after (`TreeIn`, `TreeNow`): between the
first change of a handler and its answer the tree of `FileLog` must look as it
did, although a new node is not yet listed, or a file's size and count have grown
and its block is not there. The answers of `read` need where the first hole is (`FilledIs`),
those of `readdir` that the names in a directory's array are exactly those of the paths
below it that lead somewhere. A block that the search finds has the hash of the data that is written,
so it is one of `Alike` (`TwinIs`); nothing else is asked of the hashes. Where memory is
misused the call is one on which `FileLog` may die (`Dies`): a token that is too long is one of
the names on the request's path. From this follow `FileTypeCorrect` and `FilesAreLogs`.

### Only model-checked

* Liveness (`ShutsDown`, `ShutsDownInTurn`, `DomainServed`, `SwitchEnds`): fairness and ENABLED are
  out of the prover's reach.
* The file system called from several threads, of which what it should do is false
  (finding 3).
* The properties that fail (section 5).

## 7. Not modelled

* The reading of words and numbers in `readProfile`; the printing of `cpu.c`; `get_goodness` and `get_max_waitinRQ`, which nothing
  calls.
* Kyber's bio merging (it changes no list), `limit_depth`'s single assignment, the
  debugfs files.
* In the file system: a write of more than one block or at an odd offset, which
  is memory corruption from its first line on; the handlers that only write to
  the log; the log itself and the mounting, which keep no state; `Safebbfs.c`, an
  older copy that is not built.
* In SLOB: requests of several pages (the page allocator serves them; only the
  counter would tell), NUMA,
  RCU, the messages' counters, and `get_free`'s walk over the lists without the
  lock. The walk reads `page->list` of pages that may have left the allocator; what
  stands there then is the rest of the kernel's.
* The system calls and example modules of projects 1 and 3, which keep no state;
  tests and build files, from which the models take their inputs.

## 8. Plan

What can be modelled faithfully is modelled, and every safety property of a
passing run is proved. What could follow depends on the code:

1. The file system under several threads, once it has a lock: `FindsNamed` would then be
   the property to prove, and `OneThread` could go from the theorems, since a lock held
   for the length of a handler makes each call what it is in one thread.
2. Shortest job first, once the seed of the search is right: that the shortest of the
   runnable tasks is chosen.
3. Liveness stays with TLC.
