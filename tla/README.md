# cfront 3: a verification project

TLA+ models of parts of the cfront 3 distribution (the AT&T C++-to-C compiler with its
libraries), checked with TLC and proved about with TLAPS. Paths below are relative to the
root of the repository. To run one check: `tlc -config sched_time.cfg MCTaskSched.tla`; to
check the proofs of a module: `tlapm TaskSchedProofs.tla`.

## 1. Inventory

The repository is a compiler (`src/`, 53 000 lines of C++), the libraries a compiled
program links with (`lib/`), a collection of utility classes (`libSC/`), and tools for
templates and name decoding (`tools/`). Nearly all of it is sequential. Most of the
compiler is tree rewriting: its state is the syntax tree of the program being compiled,
its hard part is the language, and there is no interleaving, failure or ordering in it
for a model checker to explore. The state machines of the repository are elsewhere, above all
in the task library and in the tools for templates:

| Component | State | Operations | How it interacts | What is hard | What makes it correct |
|---|---|---|---|---|---|
| task library, scheduler (`lib/task/task/{sched,timer,task,obj}.c`) | `thistask`, the run chain, the clock, `priority_sched`, state, time and remember chain of each object | create, delay, sleep, wait, waitvec, result, cancel, preempt, timers, alert | every operation may end in `schedule()` and continue in another task; signals set `priority_sched` | what other tasks do between sleep and wakeup; one task on several chains; ties; the key of the run chain doubles as the result value | the chain is ordered; time never passes a sched that is due; no lost wakeup; no starvation; terminated is final |
| task library, queues (`qhead.c`, `qtail.c`) | circular list, count, bound, modes | put, get, putback, cut, splice, setmax | producers and consumers block through the scheduler | alerts when the queue leaves empty or full; surgery on two queues | FIFO; bound; nobody sleeps beside work |
| task library, interrupts (`event.c`) | table of handlers, `got_interrupt` flags, signal dispositions | constructor, destructor, `sigFunc`, alerter task | `sigFunc` runs between any two instructions | every window in `schedule()` and in the constructors | each interrupt alerts its handler's waiters; newer handlers survive older ones |
| task library, teams and stacks (`task.c`, `swap.s.386`) | stacks shared by tasks, save areas, `got_stack`, `team_to_delete` | constructor, cancel, destructor, switch | the stack in use may not be freed before the switch away from it | deferred deletion; cancelled tasks that still hold a stack | whoever runs, runs on its own frames; stacks are freed in time |
| task library, lifetime of objects (`obj.c`) | task chain, remember chains | destructors | links may outlive objects | objects deleted while somebody remembers them | no use of what is deleted |
| task library, simulation (`sim.c`) | histogram bins | add, print | none | range doubling, overflow | counts are preserved |
| iostream (`lib/stream`) | buffer pointers, `last_seek`, descriptor | get, put, seek, sync | partial reads and writes | agreement of buffer and file | a stream behaves as its file |
| free store (`lib/new`) | trie of array sizes | insert, remove | allocation failure in the middle of an insert | partial failure | a map from addresses to sizes |
| string library (`lib/string`) | representations with a count of holders | copy, append, insert, replace, delete, change a character | none | copies share a representation until one is changed | strings are values |
| symbol tables, hashing (`src/table.C`, `src/hash.C`) | hash vectors, chains, deleted marks | look, insert, grow, remove | the whole compiler | growth and deletion with open addressing | a map from names to entries |
| templates in the compiler (`src/template.C`, `tree_walk.C`, `tree_copy.C`) | the tree of a template, the correspondence of nodes and copies, patches | copy for an instantiation | the type checker goes on with the copy | shared and cyclic trees; what must not be copied; pointers patched afterwards | the copy has the shape of the template, which stays as it was |
| token queue, allocation (`src/lalex.C`, `src/alloc.C`) | look-ahead queue, free lists | get, unget, allocate, free | parser and lexer | nodes reused while referenced | FIFO; no node in two places |
| template tools (`tools/pt`) | repositories: instantiation files, objects, header caches, member lists, the name map; a lock each | `ptcomp` after each compile, `ptlink` before each link | processes of several users share a repository through the file system; `ptlink` runs the preprocessor and the compiler | what another process or an editor does between two steps; time stamps of whole seconds; kills; rounds that ask for more | what is reused is what a compile would give; no compile undoes another's entries; rounds end, and give each member the program needs |
| utility classes (`libSC`) | containers, graphs, pools | as their names say | none | iterators under modification | their abstract data types |

`PROJECT.json` lists every component with its status.

## 2. What is modelled

Two parts of the repository have activities that interleave, and most modules are about them:

The task library, `lib/task/task` with its header `incl-master/incl-linux32/CC/task.h`, is a
coroutine library in one UNIX process. Exactly one task, `thistask`, executes user code,
until it calls something that ends in `sched::schedule()`; signals arrive asynchronously.

The template tools, `tools/pt`, keep repositories of instantiated templates in the file
system. `ptcomp` runs after each compile, `ptlink` before each link, for any number of users
at the same time.

The others are about data structures whose operations are sequential but which are easy to get
wrong: a stack of frames shared by tasks, a buffer between a program and a file, a trie, a hash
table with deletion, the copying of cyclic trees, strings that share representations, a list with
iterators. Where such a structure stands for something simpler there is a module that says what.

```
EventList   <--refines--  TaskSched  <--extends-- QueueTasks <--extends-- QueueFilter
                              ^                        |
                              +--extends-- TaskInterrupts
FifoQueue   <--refines--  OQueue  <----instance--------+

TemplateLink (ptlink)      RepositoryMap (ptcomp)      one repository of TemplateLink reads
                                                       what RepositoryMap writes: its action Move

PositionedFile <--refines-- FileBuf        Dictionary   <--refines-- HashTable
CursorList     <--refines-- IterList       StringValues <--extends-- SharedString
TaskTeam, ArrMap, TreeCopy (which uses a Dictionary)

Proofs:  TaskSchedProofs --> TaskSched     TaskServicesProofs --> TaskInterrupts, QueueFilter,
                                                                  TaskSchedProofs, OQueueProofs
         OQueueProofs --> OQueue           TemplateProofs --> TemplateLink, RepositoryMap
         TaskTeamProofs --> TaskTeam       LibraryProofs --> SharedString, ArrMap, IterList
         TreeCopyProofs --> TreeCopy       FileBufProofs --> FileBuf (and so PositionedFile)
```

| Module | Models | Role |
|---|---|---|
| `TaskSched` | `sched.c`, `timer.c`, `obj.c`, scheduling side of `task.c` | state machine |
| `EventList` | what a simulation may rely on | abstract specification of `TaskSched` |
| `OQueue` | class `oqueue`, `qhead.c`, `qtail.c` as data structures | state machine |
| `FifoQueue` | what users of a queue may rely on | abstract specification of `OQueue` |
| `QueueTasks` | `get`, `put`, `putback`, `splice` with their sleeps and alerts | composes `TaskSched` and `OQueue` |
| `QueueFilter` | a producer, a consumer and a filter that inserts and removes itself | program over `QueueTasks` |
| `TaskInterrupts` | `event.c` and `pause()` | composes signals with `TaskSched` |
| `TemplateLink` | `ptlink.c`: lock, rounds, dependency check, compile | state machine of files and processes |
| `RepositoryMap` | `ptcomp.c`: merging and rewriting the map `defmap` | state machine of files and processes |
| `TaskTeam` | `team`, `restore()`, `cancel()`, `~task()` of `task.c`, and `swap.s.386` | state machine |
| `FileBuf` | `filebuf.C` with the inline members of `streambuf` | state machine |
| `PositionedFile`, `FileText` | what users of a stream on a file may rely on | abstract specification of `FileBuf` |
| `ArrMap` | `_arr_map.C`, `_vec.C`: the sizes of arrays | state machine with a ghost variable `array` |
| `HashTable` | `hash.C` | state machine |
| `Dictionary` | a partial function | abstract specification of `HashTable` |
| `TreeCopy` | `tree_walk.C`, `tree_copy.C`, `class_copy()` | state machine |
| `SharedString` | `std_str.C`, `str_imp.h` | state machine |
| `StringValues` | what users of strings may rely on | the values, a ghost variable of `SharedString` |
| `IterList` | `List.c` of libSC | state machine |
| `CursorList` | what users of a list with iterators may rely on | abstract specification of `IterList` |
| `TaskSchedProofs`, `TaskServicesProofs`, `OQueueProofs`, `TaskTeamProofs`, `FileBufProofs`, `LibraryProofs`, `TemplateProofs`, `TreeCopyProofs` | | theorems |
| `MC...` | | instances for TLC |

### TaskSched

The variables have the names of the fields. `runchain` is the list linked through `o_next`,
`o_link` the remember chain of each object (a task is on it once: `alert()` acts on the
first occurrence, `forget()` removes all). `s_time` is both the key of the run chain and the
result value of a terminated task, as in the code. `call` is the wait loop a task is in
while it sleeps, `picked` the local `p` of `schedule()`, `phase` says where the process is.
A `task_error()` that ends the program is a step to phase "error", with its number in `error`.

Every public call is one action (`Delay`, `Sleep`, `Cancel`, `Wait`...): between two
calls of `schedule()` nothing but a signal handler can look at the state. `schedule()`
itself is cut into the pick (`PickPriority`, `PickFront`, `NothingToRun`) and the rest
(`ResumeTask`, `ResumeClockTask`, `FireTimer`, `BadTime`), because a signal between the two
is not blocked yet (`sig_hold()` comes later). `alert()` is one operator, `Alerted`: all
IDLE tasks of a chain go at once, in chain order, behind everything that is due now.
`Api` names the calls the modelled program makes, so that each run can combine some of them.

`insert()` tests `o_next` to see whether a sched is queued, but the last one of the chain has
a null `o_next`. The model keeps that test (`HasNext`) and calls the outcome, a sched that
is linked behind itself, RUNCHAIN_CYCLE; the model stops there as at an error.

### OQueue

The ring is modelled cell by cell: `o_next` of every object, `q_ptr`, `q_count`, the links
between queues and ends, and the set `heap` of what exists. `FirstInFirstOut` refines
`FifoQueue` by the mapping that reads the ring from `q_ptr`.  Dereferencing a null or a
`task_error()` is no step here; `QueueTasks` has those. `Spec` is of programs whose
`putback()` is never refused, `RefusingSpec` of all programs.

### QueueTasks and QueueFilter

`inside` holds the locals of a call that sleeps: `get()` keeps the oqueue it loaded before
its label, `put()` reloads it. Each call is one action up to its sleep and another from its
wakeup on (`GetAgain`, `PutAgain`). Programs are careful in two ways, named in
`Undisturbed` and `MayBePut`: they call `putback()` and `cut()` only while no task is inside
a call of that end (else: "busy" in `QApi`), and hand an object to one `put()` at a time.
`QueueFilter` adds a program and its history variables `sent` and `received`, nothing else.

### TaskInterrupts

`sigFunc` may run between any two steps. It writes `got_interrupt`, `priority_sched` and
`s_time` of the alerter; it commutes with each instruction that touches none of these. The
steps are cut where it does not commute: in `schedule()`, before `pause()`, in
the alerter between two signals, and in the middle of the constructor and the destructor of
a handler. `Programs` names what a careful program excludes: a signal in the two windows the
code leaves open ("signals in windows"), and deleting handlers of one signal in another
order than newest first ("any order").

### TemplateLink

One template class, whose members are instantiated together: ptlink treats the classes of a
program one by one, with files of their own. A repository `r` keeps of it

| Variable | File | Content |
|---|---|---|
| `src[r]` | `.C` | the instantiation file: which header it includes |
| `obj[r]` | `.o` | options and header texts it was compiled from, its members |
| `he[r]` | `.he` | the header cache: options and the headers `cpp` reported |
| `cs[r]` | `.cs` | the members the object is supposed to have |
| `lock[r]` | lock file | who holds it |

Times are whole seconds, those of `stat()`; several steps happen in one second. A link takes
its own lock and goes through rounds: it simulates the link (`Finish`, `Ask`), then `dodep`
looks at one repository after another (`CheckTime`, `CheckMembers`), and if none will do
`docomp` compiles (`DropObject`, `Compile`, `DropMembers`, `WriteMembers`); what it finds or
makes it adopts. Each action is one file operation that others can see between, with the
reading that decides it. `CheckTime` is one step: `stat()` of headers, the preprocessor and
the rewriting of the cache in one, as are `Compile` and the reading of the headers: nobody
edits a header in the middle of them. `Edit` gives a header a new text, perhaps with other
includes; `Move` is a compile that changes what `defmap` says of the class; `Kill` ends a link
anywhere.

`Move` waits for the next second after the last cache: the code compares the instantiation
file and the cache with `>`, so that a move in that second would be missed.

### RepositoryMap

`defmap` and `backup` are the two files, `job` the process of each program, with the table
it has in memory. `DropBackup` to `WriteMap` are the system calls of the rewriting, between which
a kill (`Struck`) can fall; `Interrupt` is a signal while signals are still caught. An entry keeps the
headers and the programs as sets. A deleted entry stays in the table without either, and
may be used again by the merge, as in the code.

### TaskTeam

A team is named for the task it was made for. Whose frames are on its stack is `onstack[g]`, whose
are in a save area `saved`; `got_stack[g]` is what the code believes of the first. `t_size` tells
whether the size of the frames of a task that does not run is right, as of an earlier time, or what
the memory held. A switch to another task is one action, with `restore()` and the copying of
`sswap()`, and with the deletion of `team_to_delete` on the other side. Which task is resumed is any:
that is `TaskSched`'s business. `sound` becomes false when a switch uses a deleted task or a
size that was never set; `Careless` names what a program has to leave alone (see the observations).

### FileBuf

All members of the class are the record `fb`, the open file is `os`. Pointers are addresses in
the buffer, 0 is null, the two characters `lahead` of an unbuffered stream follow the buffer. The
system may read or write less than it is asked, and fail: each `read()` and `write()` is a choice.
`lost` says that the device failed at a moment at which the buffer cannot make up for it (see
the observations); from then on `PositionedFile` promises nothing.

### ArrMap

An address is the sequence of its digits, a place in the trie the digits that lead to it. `busy` and
`leaf` are the nodes and records, `spare` the two pools, `cache` the one entry of `_vec.C`. `array` is
what the map is for. An allocation may fail whenever a pool is empty; if it fails behind the
first node of an insertion, `torn` is set and nothing is promised from then on.

### HashTable

The slots with empty and deleted marks, both probe sequences, and the doubling, at the code's
moment: before an insertion when the table is full of entries and marks. `answer` is the last call with
what it gave; `Dictionary` says what it should have given. The walk along the slots is the only
recursive operator of the project: no theorem is about this module.

### TreeCopy

`nodes` are all nodes, a copy included as soon as it is made; `corr` is the correspondence, `frames` where the
walk stands, one frame per call of the recursive `walker::walk()`, and each step walks one field. `patches` are the
pointers put right at the end. A tree is any graph: what the code calls trees has shared nodes and
cycles. The first node stands for the callers' pointers: its fields are walked one after the other, the actuals of the
templates that are referred to (`make_ref_copy()`) and at last the template (`class_copy()`).

- An element of a list that is met again is not copied, but the walk goes on along its copy (`WalkSeenList`): of a `stmt` or
  `ELIST` with the next element, of a `name_list` also with `f` and once more `l`, since `a_name_list()` overwrites `action`
  and falls through (tree_walk.C:781-795).
- The tag of a destructor, when it is a formal, is replaced by a new `name` after it was walked (1052-1067): `Twin`, a node
  that no correspondence knows of. Its string and type are left out.
- `own` and `after` of a node say what the callers enter for it, over what a walk has entered, and after which walk. Entered
  at first are the formals and the name of the template, and when it is copied again (`recopy`) whatever the table still
  has, but for the six nodes that are deleted from it (template.C:3607-3616): any of the nodes and any copies. Entered after
  the walks of a template's actuals are its name and types (`Given`, template.C:3550). With several actuals nothing is
  entered after all but the last.
- `maps`, for the properties only, is the correspondence as each walk left it: what a pointer should lead to
  is what corresponded then, not what is entered later.

Left out are the calls of `typ()` and `get_inst()` on copied actuals, which belong to the type checker; the copies of
function bodies (`function_copy_hook`), of strings and tables' entries; and fields that the walk neither walks nor patches,
which the copy has as the original does. The hook of `class_copy()` knows the nodes of its instance only
once all actuals are copied: a walk that meets them, or their models, before the last has the nodes of an earlier
instantiation or none, and the model stops there (the guards of `WalkOwn` and `CopyModel`).

### SharedString

`d` is the representation of each string, `rep` the cells. `text` is no variable of the program: it is the value
each string should have, and each action says in the terms of `StringValues` what the call is
for. `SharingSound` compares the two. `RashStrings` names calls that do something else
than they are for (see the observations).

### IterList

The ring in both directions, its tail `t`, its size, and of each iterator on the chain `iter_head` its
`index` and the link `pred` before it. `CursorList` is a sequence with cursors between its items.
`RashLists` names two kinds of calls that leave other iterators wrong.

## 3. What the runs show

| Run | Instance | Properties | Shows |
|---|---|---|---|
| `sched_all` | 2 tasks, every call but those of timers, clock up to 1 | `ChainWellFormed` | the links survive every mixture of calls, those included that reach into the chains of others and destroy the order |
| `sched_time` | 2 tasks, 2 timers, delays -1..2, clock up to 2 | `ChainOrdered`, `NoBadTime`, `RunsInOrder`, `TerminatedStays`, `NoOvertaking` | the run chain stays sorted through resets, cancels, preemption and the clock task; nobody runs out of turn or after its end; the scheduler implements `EventList` |
| `sched_selflink` (violation) | 2 tasks, a clock task | `NoSelfLink` | finding 1 below |
| `structures` | one structure at a time, the value of `part`: queues (2 queues, 2 ends of each kind, 3 objects, bounds 1 and 2, every call), files, arrays, hashes, trees, teams, strings, lists | `EndsMatch`, `RingsSound`, `FirstInFirstOut`; `BehavesAsFile`; `TrieSound`, `CountsFound`; `HashIsMap`; `CopyIsFaithful`, `TemplateIntact`; `RunsOnItsFrames`, `StacksFreedInTime`; `SharingSound`; `IteratorsKeepTheirPlace`; types | rings and links stay sound through surgery, and are FIFO lines; a stream is its file; the trie counts every array; a Hash is a partial function; a copy is the template's image and the template stays; tasks run on their frames; strings are values; iterators stay where they are |
| `oqueue_putback` (violation) | same, refused `putback()` | `RingsSound` | finding 2 |
| `queue_block` | 3 tasks, one queue, 3 objects, all modes | `NobodySleepsBesideWork`, `NobodyWaitsForReadyEnds`, types | nobody sleeps in get, put, wait or waitvec beside work |
| `queue_programs` | producer, consumer and a filter that comes and goes; or 2 getters and 2 putters at one place | `FilterUnnoticed`, `FilterPassesAll`, `EveryTransferReturns`, `DueGetsProcessor`, `NobodySleepsBesideWork`, types | nobody notices the filter; no call is passed over for ever; a due task is not starved |
| `filter_head` (violation) | the filter, cut while the consumer is in `get()` | `NothingLostOrOvertaken` | finding 3 |
| `interrupts` | 2 tasks and the alerter, 2 handlers on 1 or 2 signals; or 3 tasks that wait for objects and each other | `InterruptsHeard`, `HandlersArmed`, `WaitersHeard`, types | no interrupt is lost outside the named windows; handlers stay armed; no wakeup is lost when tasks wait for several others |
| `templates` | 2 links in four set-ups; or 3 compiles of 2 programs | `AcceptedIsCurrent`, `ReportedIsUndefined`, `DoneIsResolved`, `LinkEnds`; `NothingForgotten`, `BackupHolds`, `ListedOnce`, types | what is reused is what a compile would give, what is reported is undefined, what is done is complete, every link ends; compiles do not undo each other's entries, also when interrupted, and the backup covers a kill |
| `template_stale` (violation) | 3 links, 2 repositories | `OtherOptionsAreOut` | finding 4 |
| `map_stale` (violation) | 3 compiles of 2 programs | `AgreedIsFoundOnce` | finding 5 |

Some runs hold several programs, one per value of the variable `program` or `part`; the
properties named there (`FilterUnnoticed`, `EveryTransferReturns`...) say that a property of the
module (`NothingLostOrOvertaken`, `EveryCallReturns`...) holds of one of them.

**Bounds.** Two tasks on a chain are needed for a tie, three for overtaking by a third party
(`queue_programs`, `interrupts`); a timer that fires between two of another's deadlines
needs two timers and times 0..2. Two queues are what `cut()` and `splice()` touch at once,
and three objects give rings of length 0, 1, 2 and 3: empty, its own predecessor, and
ones in which first and last differ. Bounds 1 and 2 make full queues, and after `setmax()` overfull ones.
Two handlers of one signal are a newer and an older one. `MaxClock`, `MaxKeep`, `MaxCount`
and `MaxYields` cap what would count for ever; no property speaks of reaching them.

Two links are one that reuses and one that changes what is reused, three a third that is
deceived by what two have left. `MaxTime` is 2: within a second, and after it. Of three members one is
called by another, one is defined nowhere; two headers are one that comes to include the other.
Each set-up in `SafeSetups` has its `budget` of links, edits, moves and kills (at most 3, 2, 1 and 1),
so that each mixture of disturbances has a set-up. `MaxCompiles` is 3: two that agree
and one that changes its mind; the second compile after a kill is the one that could lose the backup.

The structures, each as small as the properties allow:

- *Teams.* Three tasks: two that share a stack and one that takes the processor between. With four
  and with five tasks TLC found nothing else when tried once; the theorems are for any number.
- *Files.* Characters 1 and 2, a file of two, a buffer of three with one kept for characters put
  back: full after two, so that reads, writes and seeks cross its end. Positions up to 2, seeks by -1..1.
- *Arrays.* Three addresses of three binary digits, two with a common prefix of two: a trie of three
  levels, splits, and nodes that become empty. Blocks of two nodes and records: the third needs an allocation.
- *Hashes.* Three keys on one slot of a table of two, which doubles to four.
- *Trees.* All graphs of six shapes (`SomeTrees`): an undefined type between two nodes with any
  references; one or two lists, shared or not; an argument, a model that is copied to a node there
  already, and a formal; a template referred to, whose instance is entered after the first walk; the name of a
  destructor with a tag that is a formal, that was entered, or neither; a template that is copied again. Two roots, 16
  nodes with copies: more than any walk needs but for some shared `name_list`s with a cycle, whose walk has no end,
  in the code as in the model.
- *Strings.* Two strings and three representations (a changed copy needs a third), two letters, room for one
  letter or for more, lengths up to 2; lengths up to 3 were run once.
- *Lists.* Three links and two iterators; four and three were run once.

The theorems below have no bounds. Symmetry is used for tasks, queues, ends, objects or
handlers that no constant names (in `structures`: heads, tails and objects only), and in no run
with a liveness property. Deadlock is not checked in `structures` and `templates`: a queue program or a copy may end, a tree or a budget is finished.

**Fairness.** There is one process in the task library. `FairSpec`: `schedule()` runs to its end and a resumed
wait loop goes on (weak fairness), user code again and again makes a call that gives up the
processor (strong fairness, as that step is disabled while others run). Nothing is assumed
of signals. `QFairSpec`: user code keeps making queue calls. `FilterSpec` is weak fairness
of the next-state relation: the process goes on; yields are bounded by `MaxYields`, every
other loop of the program contains a `get()` or `put()`. `ProgramsSpec` of `MCQueuePrograms`
assumes each for its program. Of the template tools it is assumed that a started ptlink goes on
(weak fairness of `LinkStep`); nothing is assumed of edits, time, kills and new links.

**Restrictions of the template properties.** `ReportedIsUndefined` and `DoneIsResolved` are of links that
search no repository but the one they lock, `ReportedIsUndefined` as long as no link is killed.
`AcceptedIsCurrent` is of two kinds of objects: those compiled with the link's own options, while the declaration
stays; and, if no link was killed and those who write into the repository search no other (`Alone`), those of any `-D` and
any declaration, if the link has the `-I` of the object or the header cache beside it is of that `-I` and up to date
(`KnownI`). The observations say what goes wrong otherwise. `ListedOnce` is of programs that go on naming the headers they named (finding 5),
`BackupHolds` up to the next compile that rewrites the map.

### Findings

1. `sched_selflink`. `insert()` tests `if (o_next)` (sched.c:139) to see whether the sched is
   queued. A clock task runs IDLE; if somebody it alerts includes itself it is put on the
   chain while it runs, and if it is last there its `delay()` links it behind itself.
2. `oqueue_putback`. `putback()` on a full queue executes `q_count++` in the test that fails
   (qhead.c:172). In ZMODE it returns 0 and the program goes on with a count one too high.
3. `filter_head`. `get()` loads `qh_queue` before its label (qhead.c:61), `put()` behind it.
   A consumer that sleeps in `get()` while the head is cut goes on with the old queue, now
   upstream of the filter, and takes objects ahead of those the filter holds.

4. `template_stale`. `check_time()` of one repository rewrites the header cache of the
   main repository with the options of this link (ptlink.c:3386). If the link is then satisfied
   from another repository, the object in the main one keeps its old `-D` options and now
   lies beside a cache that says otherwise; a later link accepts it. README.ptenv:226 says that other
   options make an object out of date.
5. `map_stale`. ptcomp deletes only those entries of the program whose one header the new
   output still names (ptcomp.c:578-589; the comment says "all entries"). A type that has moved to
   another header keeps its old entry, and ptlink stops with "defined twice in map
   files" (ptlink.c:1976) although the last compiles agree.

### Other observations

Restrictions of the runs above each stand for something that goes wrong without them. They
have no run of their own; TLC gives a counterexample for each when the restriction is lifted
(another `Api`, `QApi`, `Getters` or `Programs`), except for the two about `setmax()`, which
are read from the code: no module has `setmax()` together with tasks.

- `setclock()` while scheds are due at times of the old clock: `schedule()` ends the program
  with E_SCHTIME.
- `set_priority_sched()` changes `s_time` of a queued sched (sched.c:189): the chain is no
  longer sorted; a terminated task made the priority sched runs again (sched.c:75).
- `sleep()` and `preempt()` of another task take it off the run chain in the middle of its
  `wait()`, after its wakeup; it is then on no remember chain.
- `putback()` that makes a queue non-empty and `setmax()` that makes it non-full alert nobody.
- After `setmax()` a queue that holds more than its bound has a negative `rdspace()`: its qtail is
  not pending (task.h:381) though `put()` waits.
- `qtail::cut()` moves the tail to an empty queue and leaves tasks asleep in `put()` on it.
- Three tasks that keep calling `get()` at one end: `alert()` wakes newest first, so that the
  middle one can be passed over for ever. `EveryCallReturns` holds for two.
- Signals in windows: one between the test of `keep_waiting_count` and `pause()` (sched.c:82-83) is not
  noticed until the next; one between `signal()` and `hnd[id] = this` (event.c:54-59)
  finds no handler (E_NO_HNDLR) or marks the old one. With simulated time a signal between
  sched.c:72 and `sig_hold()` gives the alerter an `s_time` that the clock then passes:
  E_SCHTIME at the next `schedule()`.
- Deleting the oldest handler of a signal while a newer one exists restores the old
  disposition (event.c:71): the newer one hears nothing any more.

- The member list `.cs` is written after signals are unblocked. A link that is killed between the
  object and the list, or inside `docomp` with an older list there, leaves a list that promises more than the object has:
  later links accept the object, miss the member twice and end with "template symbols cannot be resolved" until somebody
  removes the file (`ReportedIsUndefined` without its condition `~ Killed`).
- A header is edited while a link is between making the header cache and compiling. The object is then younger than the
  edit, the cache older. A link with another `-I` rebuilds the cache, finds the list of headers as it was and accepts the
  object (ptlink.c:3374-3402); what a compile with its options would now find may differ. It takes two
  links and three edits, and was found by an attempt to prove `AcceptedIsCurrent` without `KnownI`.
- ptlink unlocks before it hands the list of objects to `ld` (ptlink.c:4761): another link may be recompiling
  one of them. A secondary repository is never locked: its object can go or change between check and use.
- A torn `defmap` is a fatal error for every later compile; nothing goes back to `defmap.old` by itself.
- `CC` looks for names in `defmap` with no lock (CC3:943); in the middle of a rewriting it finds none and skips ptlink. The
  exit status of ptcomp is lost: what CC3:684 tests is that of the statement before.
- The merge may use again an entry that was just deleted (its set of headers is empty,
  ptcomp.c:625) although an entry with the same header exists further on: the type is then there twice.
- An object of another repository that defines a member the program specialises itself conflicts with
  it (ptlink.c `okobj`), and is left out.

- *Teams.* A task that has cancelled itself and then cancels the last other task of its team frees the
  stack it is running on (task.c:329-331). A SHARED task that ends before it was ever suspended, followed by a
  task of another team, leaves `t_size` unset, with which the next `sswap()` of its team copies
  (swap.s.386:134-148). A task that ended or was deleted while it had the stack is used by the next
  `sswap()` of its team, also after `delete this`. The save areas of cancelled SHARED tasks are never
  freed. A task that was cancelled asleep and is then deleted stays on remember chains: `alert()` reads freed memory.
- *Files.* When `write()` writes a part and then fails, the next `overflow()` writes that part again.
  `sync()`, `seekoff()` and `underflow()` drop what could not be written. `close()` and `detach()`
  ignore the result of `overflow()`. A failed unbuffered read makes the next `sync()` skip a character;
  `snextc()` does not notice a failed `underflow()`; `setbuf()` on an open unbuffered stream forgets a character
  that was peeked at; positions in append mode are wrong; an unbuffered read does not repeat after EINTR.
- *Arrays.* If the second or a later node of an insertion cannot be allocated, the record of the other array is
  lost and a chain of nodes is left whose last is empty, behind which `remove()` may search
  (_arr_map.C:334-335). A failed insertion leaks its record (280).
- *Hashes.* A table full of deletion marks doubles, however few its entries. Looking a key up can resize
  the table. `operator[]` of a missing key inserts it, with no value. The default size 0 of a
  `pointer_hash` is a divisor.
- *Trees.* When a list whose elements are met again is walked, the walk goes along the copies once more, perhaps
  without end (the comment at tree_walk.C:483), and a `name_list` copies the copies that its elements hold once more:
  `CopyIsFaithful` is of lists that are not shared. A pointer that was walked or patched before its
  node was entered, by a later walk or between the walks, stays as it was. A nested `copy_tree()` in
  `function_copy_hook` (template.C:3716) would reset the list of patches; that code cannot be reached, since the lexer
  refuses `$` (lex.C:814).
- *Lists.* `insert_prev()` of an iterator at the end of a list leaves others, at the front, with the old tail
  (`insert_next()` does not); `make_empty()` forgets iterators that are attached; `l.put(l)` and `l.unget(l)` do not end.
- *Strings.* `string(s, 0, n)` copies all of s. `s.assign(s, ...)` of a string that is shared, or too small, reads
  its new representation. Inserting or replacing with a part of the string itself smears (`strncpy()` forward).
  `append(s, pos, npos)` reads beyond the end. A `char&` that is kept while the string is copied
  changes both. `substr()` does not clamp its length. `getline()` of an empty line sets badbit. Copies end at a null
  character (`strncpy()`): the letters of the model are not null.

## 4. What is proved

All theorems hold for every value of the constants that satisfies the named assumptions of
the module (identities are distinct, `Tasks`, `Items` or `Links` is finite, bounds are naturals, the
addresses of `ArrMap` are equally long and none is null, and its blocks are not empty; characters
of a file are naturals, told from EOF, and its buffer has room for one).

| Theorem | Statement |
|---|---|
| `TaskSchedProofs!TypeCorrect` | `Spec => []TypeOK` |
| `TaskSchedProofs!ChainSound` | `Spec => []ChainWellFormed`, whatever calls the program makes |
| `TaskSchedProofs!ChainStaysOrdered` | `OrderlyCalls => (Spec => []ChainOrdered)` |
| `TaskSchedProofs!NeverBadTime` | `OrderlyCalls => (Spec => []NoBadTime)` |
| `TaskSchedProofs!TerminatedForGood` | `OrderlyCalls => (Spec => TerminatedStays)` |
| `TaskSchedProofs!ImplementsEventList` | `OrderlyCalls => (Spec => RunsInOrder)`: the refinement of `EventList` |
| `TaskSchedProofs!NobodyIsOvertaken` | `OrderlyCalls => (Spec => NoOvertaking)` |
| `TaskSchedProofs!NoWakeupIsLost` | `LeavesWaiters => (Spec => []WaitersHeard)` |
| `TaskServicesProofs!InterruptTypes` | `ISpec => []ITypeOK`, any program, signals at any moment |
| `TaskServicesProofs!SignalsAreCaught` | `"any order" \notin Programs => (ISpec => []HandlersArmed)` |
| `TaskServicesProofs!NoInterruptIsLost` | `LeavesSignals => (ISpec => []InterruptsHeard)` |
| `TaskServicesProofs!SignalsLoseNoWakeup` | `LeavesSignals => (ISpec => []WaitersHeard)` |
| `TaskServicesProofs!QueueTypes` | `QSpec => []QTypeOK`, any program |
| `TaskServicesProofs!NobodyOversleeps` | `LeavesWaiters /\ "busy" \notin QApi => (QSpec => []NobodySleepsBesideWork)` |
| `TaskServicesProofs!ReadyEndsAreNoticed` | the same, no `"putback_full"` and one head and tail `=> (QSpec => []NobodyWaitsForReadyEnds)` |
| `TaskServicesProofs!FilterGoesUnnoticed` | `CarefulFilter => (FilterSpec => []NothingLostOrOvertaken)`, any number of tasks, objects, ends and queues |
| `OQueueProofs!TypeCorrect` | `RefusingSpec => []TypeOK` |
| `OQueueProofs!EndsStayMatched` | `RefusingSpec => []EndsMatch` |
| `OQueueProofs!RingsStaySound` | `Spec => []RingsSound` |
| `OQueueProofs!QueuesAreFifo` | `Spec => FirstInFirstOut`: the refinement of `FifoQueue` |
| `TaskTeamProofs!FramesAreKept` | `Careless = {} => (TeamSpec => []RunsOnItsFrames)` |
| `TaskTeamProofs!StacksAreFreed` | `Careless = {} => (TeamSpec => [](TeamTypeOK /\ StacksFreedInTime))` |
| `FileBufProofs!FileIsSound` | `BufSpec => []BufInv`: unless `lost`, buffer, `last_seek` and file agree |
| `FileBufProofs!StreamIsItsFile` | `BufSpec => BehavesAsFile`: the refinement of `PositionedFile` |
| `LibraryProofs!StringsStaySound` | `RashStrings = {} => (StringSpec => [](StringTypeOK /\ SharingSound))` |
| `LibraryProofs!ArrTypes` | `ArrSpec => []ArrTypeOK` |
| `LibraryProofs!TrieIsSound` | `ArrSpec => []TrieSound`, addresses of any length |
| `LibraryProofs!CountsAreFound` | `ArrSpec => []CountsFound` |
| `LibraryProofs!ListTypes` | `RashLists = {} => (ListSpec => []ListTypeOK)` |
| `LibraryProofs!ListKeepsPlaces` | `RashLists = {} => (ListSpec => IteratorsKeepTheirPlace)`: the refinement of `CursorList` |
| `TemplateProofs!CompilesDoNotForget` | `MapSpec => []NothingForgotten` |
| `TemplateProofs!KilledLosesNothing` | `MapSpec => []BackupHolds` |
| `TemplateProofs!NamesAreListedOnce` | `MapSpec => []ListedOnce` |
| `TemplateProofs!MapIsReadable` | `MapSpec => []MapTypeOK` |
| `TemplateProofs!LinkTypes` | `Spec => []LTypeOK`, any number of links and repositories, kills included |
| `TemplateProofs!ReportsTheUndefined` | `Spec => []ReportedIsUndefined` |
| `TemplateProofs!ResolvesTheNeeded` | `Spec => []DoneIsResolved` |
| `TemplateProofs!AcceptsTheCurrent` | `Spec => AcceptedIsCurrent` |
| `TreeCopyProofs!CopyTypes` | `CopySpec => []CopyTypeOK`, any trees |
| `TreeCopyProofs!TemplateStaysIntact` | `CopySpec => []TemplateIntact`, any trees |
| `TreeCopyProofs!CopiesAreFaithful` | `CopySpec => []CopyIsFaithful`, of trees whose lists are not shared |

The hypotheses are about the program, by the calls it makes, and TLC refutes each conclusion without its
hypothesis. `OrderlyCalls`: no `set_priority_sched` and no `setclock` in `Api`. `LeavesWaiters`: no
`forget`, and no `sleep()` or `preempt()` of another task, which take a task from what it waits for.
`LeavesSignals`: those, no `set_priority_sched()` (it takes the alerter's place) and no clock task (which runs
before the alerter), and signals are blocked in the two windows that the code leaves open. `"busy"`: putting back to, or
cutting, an end that somebody is using, which alerts nobody. `"putback_full"`: a refused `putback()`, after which `pending()` of
the tail, a test for equality, is wrong. The queue of `main()` is the only one there (`heap`), so that other ends to
wait for would not exist. `CarefulFilter`: a program that waits (WMODE, so that no call returns without an object), cuts no
end that somebody is inside of (the run `filter_head` refutes it of a program that does), and puts no object that is still queued. `Careless`, `RashStrings`, `RashLists`: see the observations.

- *Scheduler.* First lemmas about chains: what `Without`, `SpliceAt` and `WalkPast` return,
  and that removing keeps a chain sorted and free of repetitions, and inserting behind
  `WalkPast` does too. `ChainWellFormed` is inductive with `TypeOK` (no other strengthening:
  `insert()` refuses RUNNING scheds other than `thistask`, and an `alert()` takes only IDLE
  ones, which are not on the chain because those on it are RUNNING). `ChainOrdered` needs
  `TimeInv`: no priority sched, so that what is picked is the front of the chain. The action properties and the
  refinement are proved step by step from these: `DueSound` relates the chain to the set of due times
  of `EventList`, `KeepsOrder` says of an operation on a chain that it leaves the order of the others.
- *Wakeups.* `WaitersHeard` is inductive with `TypeOK`. A task asleep stays on the chains of all it waits
  for (only the task itself takes itself off, and it does not run), so each step is one of two: what it waits for stays
  pending, or the step alerts, and `Alerted` takes all idle tasks of the chain, this one among them. The
  step into the sleep is the loop of `waitvec()`, which has just found all of them pending.
- *Queues with tasks.* `QueueInv` wires the ends to the queue of `main()` and says which call each task is inside of.
  The lemmas about wakeups are of any task asleep (`Dozes`): it stays on the chains it was on. `QueueCalls` names
  the nine things that a call on a queue can come to, and each either alerts the end that may have to hear of
  it, and with it all that sleep there, or changes the count in a direction that nobody at the other end waits for
  (`EndsStay`). `InsideHeard` and `LoopHeard` are then inductive.
- *Filter.* The lemmas of `OQueueProofs` say which lines the rings hold after each call. `FilterInv` adds where the filter
  stands: which queue each end leads to at each point of its program (`Plumbed`), what it carries (`Carried`), and that a
  call asleep has loaded the queue that its end still has (`Underway`), which is what cutting an end in use breaks.
  Then `Flow`: what was sent is what was received, followed by the lower line, the object in the filter's hand
  and the upper line. Who runs when does not matter, so that nothing about the scheduler is needed.
- *Interrupts.* Four invariants, each on top of the one before. `HandlersInv`: no handler is on two lists or twice on one, and
  a constructor or destructor that is half done belongs to a born task that is not in a call. `ArmedInv`
  adds that an older handler's destructor is not under way: with deletion newest first, dispositions follow
  the lists. `AlerterInv` says where the alerter is: asleep and off the chain, on its way as `priority_sched`, picked, or
  running and looking at signal `at`. `HeardInv`: whoever sleeps on a marked handler has the alerter before it. A
  signal between any two steps sets both the mark and `priority_sched`, so the pair cannot come apart; the alerter's
  round from signal to signal is why `at \in 1..sig` is part of it.
- *Ends.* `TypeOK` and `EndsMatch` need each other: a call through an end has a queue to
  work on because the end's queue exists.
- *Rings.* The invariant is `TypeOK`, `EndsMatch`, `EmptyWhenFree` and `RingsSound`.
  `EmptyWhenFree` is needed because a constructor sets `q_count` to 0 and must not
  disturb objects still linked in that memory. Each transfer is proved by naming the new line
  (the old one without its first item, with an item behind or before it, two lines joined)
  and showing that its cells are those the assignments leave; that no object is on two rings
  makes the other rings keep theirs. For the refinement each call is named as a move of lines: an item goes behind the
  last or before the first, the first goes, two lines are joined, or nothing moves. A ring holds one line only (`RingUnique`, by the
  least position at which two lines would differ), so the line that the mapping chooses is the named one.
- *Teams.* `TeamInv` says of every living task that its frames are on its team's stack if it holds it, with a
  known size, or in its save area; that whoever holds a stack can be copied out of it; and that
  `no_of_tasks` counts the living of each team.
- *Files.* `BufSound`: what `underflow()` read ahead, up to `egptr`, is what stands in the file before its position, also
  what is left of it before `gptr` (from `in_start`, where `seekoff()` may go back to); what is to be written is in
  the buffer and begins at the file's position; `last_seek` is that position or EOF; a closed buffer has nothing in it. The
  program's position and text are read off the buffer and the file (`PositionOf`, `ContentOf`). Each function is
  given what it may end in: `overflow()` has written nothing, everything, or lost something (`OverflowClears`), `sync()` and
  `underflow()` are built on it, and each call of the program, whatever the system does at each read and write, fails
  with nothing seen, or leaves the two as the call on the file would (`Ends`). A file opened to append keeps `BufSound`,
  but its writes go elsewhere than the program stands, so that nothing is claimed of what is seen.
- *Strings.* `Sound` says everything that does not mention values: `refc` is the number of holders, and each cell has
  room. Every call is a composition of few operations on `d` and `rep` (give up, share, take a
  new one, write), each shown to keep `Sound` and the values of all other strings.
- *Arrays.* `ArrInv`, as long as no insertion is cut off: `Fits` says of the trie that the parent of every item is
  a node, `busy_count` is the number of its items, two records stand below every node and each record is at a beginning of its
  key; `Kept`, that each array is in the cache or has a record. That two records stand below every node
  is what makes the search for a key end before the key does, since all keys are equally long (`StopIs`); and no
  leaf is below another (`LeavesApart`), so a record is found without knowing what was done before. Insertion is proved
  by its three cases and the cut, removal by its three, each for any trie `[b, l]` and what it becomes; what goes
  in a collapse is all that stands below the highest node with one item (`BelowGone`). Induction along a place is by
  the least number of digits at which a claim fails.
- *Lists.* `Stand(s)` says that the ring, from the link after the tail on, is the sequence `s` without repetitions, forwards and
  backwards, and that each iterator has the link before its index, which at the front is the tail. Every call is
  shown to be one of few moves of `s` and `index` (an item comes in at a place, one goes, an iterator is placed or dropped,
  all is replaced) after which some sequence stands (`Follows`). `insert_prev()` at the end moves the tail under
  iterators at the front: it keeps `Stand` only if there are none, which is what `RashLists = {}` says.
- *Map.* `MapInv` says of file and table that they are tidy, that each program is in one entry per type, and that
  what the last merged compile of each program said is in the table of whoever holds the lock, or else in the
  file, or after a kill in the backup. The merge of a record is a new blank entry or the growth of the first that it can
  join; the recursive functions of the merge are reasoned about by the least number at which a claim could
  fail. It is assumed that one compile sees a type in one header.
- *Links.* `LinkTyped`: types, and where each link may be in its list of repositories. On it `LinkHeld`, about
  locks: who is past `Lock` holds the lock of its own repository, whose source, object, cache and member
  list nobody else writes; a step of one link is shown once to leave all of another's alone (`OwnOnly`). It says what the
  holder has made of its repository at each point (`Minds`). `LinkFits` relates files, lists and rounds:
  the member list names no more than the object has, except between the object and the list (`Lists`); in the round
  that misses a member again, the object had all that was asked for (`Round`). `ReportedIsUndefined` and `DoneIsResolved` follow.
- *What a link accepts.* `LinkCurrent`, also on `LinkHeld`: no file is younger than the clock (`Times`); a
  cache none of whose headers has changed since names what the preprocessor would find (`NamesFit`); an object
  whose headers are all older than it was made from just these (`Matched`, and `Unmoved` as long as no
  declaration moves); a link that has checked its repository has left a cache of its own `-D` there (`Checked`). What cpp
  finds is a recursive function of the inclusions; that two tables of headers, one edited at h, lead to the
  same headers unless h is among them is proved by the least round in which they would differ (`RoundsSame`).
- *Trees.* `WalkInv` says that the walk stands, patches and leads only where it may write: at the callers' pointers, at
  copies, and at nodes of the instance whose model was met (`AtModel`). Nodes are changed by four operations (a
  pointer set, a node added, a node of the instance written, all patches made), each with a lemma on what
  it leaves alone. `TreesAssumption` is about what the compiler holds at first: nothing refers to the callers' pointers,
  lists have a next element, each node of the instance was made for one node of the template, and a list that is
  entered corresponds to a list made for the instance. For the result, `FaithInv` relates each pointer of a copy that the
  present walk has made to the original's: the same while it waits to be set (`Pending`), and from then on `LeadsTo`, which
  is stable since only what did not correspond is entered while a walk lasts. What waits is what the frames have still
  before them, and each pending call leads to the frame above it (`CallInv`). `ListsInv` says that a list element entered was
  entered over a pointer; if it is the only one, the branch of the walk for an element met again (`WalkSeenList`) is never
  taken. `Past` says of the walks that have ended what the property says: the copies of a walk are written by no other one.

TLC found each inductive invariant to hold of a small instance (`HeardInv` on 334 933 states, `FilterInv` on 87 684, `MapInv` on 169 958, `ArrInv` on 5 594, `FaithInv` on 43 552, `BufSound`, but for the types of its fields, on 20 269, `Stand` on 277).

Only model-checked:

- all liveness (`EveryTransferReturns`, `DueGetsProcessor`, `FilterPassesAll`, `LinkEnds`), which is out of the prover's reach, as is ENABLED;
- `HashIsMap`: the module has a recursive operator, and what it computes needs induction over data;
- the types of the fields of a filebuf after a device was lost.

The one recursive operator is in `HashTable`. `RepositoryMap` has recursive functions, inside `LET`.

## 5. What is not modelled

In the task library: `t_alert` and `who_alerted_me`, names, printing and high water marks
(no control depends on them); a task several times on one chain (see above); what a destructor leaves on
chains of others; user-supplied `error_fct` and
`exit_fct`; nested signals and the disposition a signal had before; constructors of queue ends
with `max <= 0` and deleting an end that is in use (E_OLINK): both are errors of the program;
the contents of stack frames and the registers; random numbers and histograms.

In the libraries: formatted input and output and the stream classes above `filebuf`; file buffers with several streams on one
file; the allocator itself; `complex`; the other classes of libSC. In `string`: searching, comparing and input.

In the template tools: how symbols and names are parsed and demangled, the text of instantiation
files, the search for header and source extensions, nmap files, the options `-pts`, `-pta`, `-ptk` and
`-pto`, the checksum variant of the dependency check, archives, function templates (they take the
same way as a class with one member), and what `CC3` does around the two programs.

Elsewhere: see `components` in `PROJECT.json`. The front end of the compiler is sequential
rewriting of syntax trees, whose state space is the input language; of the
compiler only data structures are modelled: its hash tables and the copying of trees.

## 6. Plan

What is left are modules: the token queue (`src/lalex.C`) as a FIFO with put-back, symbol tables (`src/table.C`) as nested
maps, `Pool` of libSC. Each is small and sequential; none has the hazards of those that are modelled.

One run answers one question; as components are added, runs that an added one subsumes are replaced.
