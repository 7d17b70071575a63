----------------------------- MODULE FileSystem -----------------------------
(***************************************************************************)
(* The file system of project_4's bbfs.c.  Everything is kept in memory: a *)
(* tree of bb_file nodes, reached from root_files, in which a regular file *)
(* holds the indexes of its blocks, and all_blocks, the store in which a   *)
(* block is found by its hash.                                             *)
(*                                                                         *)
(* FUSE calls the handlers from several threads.  They take no lock, and   *)
(* they share the position that strtok() keeps between its calls, so a     *)
(* handler stops between any two calls of strtok() and on either side of   *)
(* its use of the store.  (That realloc() may move what another thread is  *)
(* looking at is left out, as is the reuse of a path another thread freed.)*)
(*                                                                         *)
(* A write carries one block, as the kernel sends them to a mount that has *)
(* not asked for larger ones, and begins at a multiple of the block size;  *)
(* the block may be Short, and is then hashed with what the buffers hold   *)
(* behind it.  The size of a file grows by the strlen() of the buffer, to  *)
(* whose end nothing writes a zero.  A read may ask for several blocks.    *)
(***************************************************************************)
EXTENDS Integers, FiniteSets, Sequences, SequencesExt, Functions

CONSTANTS
  Threads,     \* the threads of the FUSE main loop
  Names,
  LongNames,   \* those of them that have 30 bytes or more
  Paths,       \* the paths handlers are called with, without the root; the kernel
               \* looks up the directories on the way
  LongPaths,   \* those that have PATH_SIZE bytes or more with the root's
  Renames,     \* bound: which of them are renamed, and to what
  Contents,    \* the data that is written
  Short,       \* those of them that do not fill a block
  Residues,    \* what may stand in the buffers behind such data
  Hash,        \* what strncmp() compares of a block's SHA-1 digest: the bytes
               \* before the first zero, which blocks that differ may share
  BlockSize,   \* BLOCK_SIZE
  Lengths,     \* what strlen() may find in the buffer of a write
  MaxNodes,    \* bound: how many nodes are ever allocated, the root's included
  MaxBlocks,   \* MAX_BLOCKS
  Sizes,       \* what truncate() is asked for
  MaxChanges   \* bound: how many calls but reads there are between two mounts

NoToken == ""
Unwritten == <<"unwritten", 0>>    \* a block that was allocated and not filled

\* What is hashed for each of the contents.
Blocks == {b \in Contents \X Residues : b[1] \in Short \/ b[2] = 0}

ASSUME FileSystemAssumption ==
  /\ NoToken \notin Names /\ LongNames \subseteq Names /\ LongPaths \subseteq Paths
  /\ DOMAIN Hash = Blocks /\ Unwritten \notin Blocks
  /\ Short \subseteq Contents /\ 0 \in Residues
  /\ DOMAIN Renames \subseteq Paths /\ Range(Renames) \subseteq Paths
  /\ Paths \subseteq Seq(Names) \ {<<>>}
  /\ \A p \in Paths : Front(p) \in Paths \cup {<<>>}
  /\ MaxNodes \in Nat \ {0} /\ MaxBlocks \in Nat /\ MaxChanges \in Nat
  /\ BlockSize \in Nat \ {0} /\ Sizes \cup Lengths \subseteq Nat

VARIABLES
  node,      \* the bb_file structs with their metadata, in order of allocation
  store,     \* all_blocks: what each block holds
  saved,     \* what strtok(NULL, "/") goes on with
  call,      \* the handler each thread is in: its arguments and locals
  reply,     \* what the last one it was in has answered
  errno,     \* the threads in which a call of the C library has failed
  cached,    \* the paths the kernel has from a rename and not from a look-up
  changes    \* how many calls but reads there have been

vars == <<node, store, saved, call, reply, errno, cached, changes>>

Root == 1
Nothing == 0                 \* the NULL pointer
NoBlock == 0                 \* a place of a file's array without an index
Garbage == Unwritten[1]
Listings == {"opendir", "readdir"}
Reads == {"getattr", "open", "read"} \cup Listings
NoLookup == {"rename", "ftruncate"}   \* rename: also all that only answers 0
Ops == Reads \cup NoLookup \cup
       {"mknod", "mkdir", "unlink", "rmdir", "truncate", "write"}
Phases == {"idle", "check", "recheck", "name", "add", "add_dir", "link",
           "remove", "unlink", "search", "store", "answer", "crashed"}

NewNode(name, dir) ==
  [name |-> name, dir |-> dir, size |-> 0, num_block |-> 0, files |-> <<>>,
   block |-> [i \in 1 .. MaxBlocks |-> NoBlock]]

Quiet == [op |-> "getattr", phase |-> "idle", path |-> <<>>, data |-> Unwritten,
          first |-> 0, size |-> 0, token |-> NoToken, name |-> NoToken,
          cur |-> Root, parent |-> Root, index |-> 0, slot |-> 0]

\* The code a handler returns, a size, and what it has put in its buffer.
Answer(code, size, list) == [code |-> code, size |-> size, list |-> list]
Code(code) == Answer(code, 0, <<>>)
NoAnswer == Code("none")

\* bb_init
Init ==
  /\ node = <<NewNode("/", TRUE)>>
  /\ store = <<>>
  /\ saved = <<>>
  /\ call = [t \in Threads |-> Quiet]
  /\ reply = [t \in Threads |-> NoAnswer]
  /\ errno = {} /\ cached = {} /\ changes = 0
-----------------------------------------------------------------------------
(* Reading the tree *)

\* The loop over the children: where in n's array the first of that name is.
IndexOf(n, name) ==
  LET kids == node[n].files
  IN IF \E i \in DOMAIN kids : node[kids[i]].name = name
     THEN CHOOSE i \in DOMAIN kids : /\ node[kids[i]].name = name
                                     /\ \A j \in 1 .. i - 1 : node[kids[j]].name # name
     ELSE 0

Child(n, name) == IF IndexOf(n, name) = 0 THEN Nothing ELSE node[n].files[IndexOf(n, name)]

\* The node a path leads to.
Resolve(path) ==
  LET at[k \in 0 .. Len(path)] ==
        IF k = 0 THEN Root
        ELSE IF at[k - 1] = Nothing THEN Nothing ELSE Child(at[k - 1], path[k])
  IN at[Len(path)]

IsFile(path) == Resolve(path) # Nothing /\ ~ node[Resolve(path)].dir
IsDirectory(path) == Resolve(path) # Nothing /\ node[Resolve(path)].dir

\* How many places of a file's array have an index, up to the first without.
Filled(n) ==
  CHOOSE k \in 0 .. MaxBlocks :
    /\ \A i \in 1 .. k : node[n].block[i] # NoBlock
    /\ k < MaxBlocks => node[n].block[k + 1] = NoBlock

\* What the blocks of a file hold, one after the other.
Data(n) == [i \in 1 .. Filled(n) |-> store[node[n].block[i]][1]]
-----------------------------------------------------------------------------
(* strtok *)

First(s) == IF s = <<>> THEN NoToken ELSE Head(s)
Rest(s) == IF s = <<>> THEN <<>> ELSE Tail(s)

\* token = strtok(path, "/"), and the search starts at the root.
Tokenise(t, path, phase) ==
  /\ call' = [call EXCEPT ![t].phase = phase, ![t].token = First(path), ![t].cur = Root]
  /\ saved' = Rest(path)
  /\ UNCHANGED <<reply, errno, cached>>

\* token = strtok(NULL, "/"): goes on where whoever called last left it.
Advance(t, locals) ==
  /\ call' = [call EXCEPT ![t] = [locals EXCEPT !.token = First(saved)]]
  /\ saved' = Rest(saved)
  /\ UNCHANGED <<reply, errno, cached>>

At(t, phase) == call[t].phase = phase
Me(t) == call[t]

\* On to another phase, without a call of strtok.
Proceed(t, phase) ==
  /\ call' = [call EXCEPT ![t].phase = phase]
  /\ UNCHANGED <<saved, reply, errno, cached>>

\* The kernel believes what it is answered: that a renamed file is where it was
\* to go, and that what it removed or did not find is not there.
Believe(t, answer) ==
  cached' = CASE Me(t).op = "rename" -> cached \cup {Renames[Me(t).path]}
              [] Me(t).op = "unlink" \/ answer.code = "ENOENT" -> cached \ {Me(t).path}
              [] OTHER -> cached

Return(t, answer) ==
  /\ call' = [call EXCEPT ![t] = Quiet]
  /\ reply' = [reply EXCEPT ![t] = answer]
  /\ Believe(t, answer)
  /\ UNCHANGED <<saved, errno>>

\* Memory is misused: what the program does from here on is not modelled.
Crash ==
  /\ call' = [t \in Threads |-> [call[t] EXCEPT !.phase = "crashed"]]
  /\ UNCHANGED <<node, store, saved, reply, errno, cached>>
-----------------------------------------------------------------------------
(* The kernel calls a handler when it has looked the path up, or has it    *)
(* from a rename, and holds the directory's lock while entries are made or *)
(* removed, and the file's while it is written or truncated.               *)

FirstPhase(op) ==
  CASE op \in Reads \cup {"truncate", "write"} -> "check"
    [] op \in NoLookup -> "answer"
    [] op \in {"mknod", "mkdir"} -> "name"
    [] op \in {"unlink", "rmdir"} -> "remove"

Permitted(op, path) ==
  /\ path = <<>> => op \in {"getattr"} \cup Listings
  /\ op \in {"mknod", "mkdir"} => /\ Resolve(path) = Nothing /\ path \notin cached
                                  /\ IsDirectory(Front(path)) /\ Len(node) < MaxNodes
  /\ op \in {"unlink", "truncate", "write", "read", "open"} =>
       IsFile(path) \/ path \in cached
  /\ op = "ftruncate" => IsFile(path)
  /\ op = "rename" => IsFile(path) /\ path \in DOMAIN Renames
  /\ op \in {"rmdir"} \cup Listings => IsDirectory(path)

Locked(op, path) ==
  \E t \in Threads :
    /\ ~ At(t, "idle") /\ op \notin Reads /\ Me(t).op \notin Reads
    /\ \/ Me(t).path = path
       \/ {op, Me(t).op} \cap {"truncate", "write"} = {} /\ Front(Me(t).path) = Front(path)

\* The blocks it reads begin below the size it has been told.
Ranges(path) ==
  IF Resolve(path) = Nothing THEN {<<0, 1>>}
  ELSE {r \in (0 .. MaxBlocks) \X (1 .. MaxBlocks) :
          BlockSize * (r[1] + r[2] - 1) < node[Resolve(path)].size}

Begin(t, op, path) ==
  /\ At(t, "idle")
  /\ Permitted(op, path) /\ ~ Locked(op, path)
  /\ \E data \in (IF op = "write" THEN Blocks ELSE {Unwritten}),
        range \in (CASE op = "truncate" -> {0} \X Sizes
                     [] op = "write" -> {0} \X Lengths
                     [] op = "read" -> Ranges(path)
                     [] OTHER -> {<<0, 0>>}) :
       call' = [call EXCEPT ![t] =
         [Quiet EXCEPT !.op = op, !.phase = FirstPhase(op), !.path = path, !.data = data,
                       !.first = range[1], !.size = range[2],
                       !.token = IF op \in NoLookup THEN NoToken ELSE First(path)]]
  /\ saved' = IF op \in NoLookup \/ path = <<>> THEN saved ELSE Rest(path)
  /\ reply' = [reply EXCEPT ![t] = NoAnswer]
  /\ op \notin Reads => changes < MaxChanges
  /\ changes' = IF op \in Reads THEN changes ELSE changes + 1
  /\ UNCHANGED <<node, store, errno, cached>>

\* What the kernel has from a rename it forgets after a second.
Expire ==
  /\ \E path \in cached : cached' = cached \ {path}
  /\ UNCHANGED <<node, store, saved, call, reply, errno, changes>>

\* bb_destroy, and main and bb_init at the next mount: nothing has been kept.
Remount ==
  /\ \A t \in Threads : At(t, "idle")
  /\ node' = <<NewNode("/", TRUE)>>
  /\ store' = <<>> /\ saved' = <<>>
  /\ call' = [t \in Threads |-> Quiet]
  /\ reply' = [t \in Threads |-> NoAnswer]
  /\ errno' = {} /\ cached' = {} /\ changes' = 0
-----------------------------------------------------------------------------
(* Looking up: check_bbfile *)

\* A token is copied, into an array of 30 bytes, before it is looked at.
CopyToken(t) ==
  /\ At(t, "check") \/ At(t, "recheck")
  /\ Me(t).token \in LongNames
  /\ Crash

\* One token: down to the child of that name, or NULL is returned, which bb_read
\* and bb_write answer with -1, bb_truncate not at all, and the others with
\* ENOENT.
Lookup(t) ==
  LET child == Child(Me(t).cur, Me(t).token)
  IN /\ At(t, "check") \/ At(t, "recheck")
     /\ Me(t).token # NoToken
     /\ IF child # Nothing
        THEN Advance(t, [Me(t) EXCEPT !.cur = child])
        ELSE IF Me(t).op = "truncate" \/ At(t, "recheck")
        THEN Crash
        ELSE Return(t, Code(IF Me(t).op \in {"read", "write"} THEN "error" ELSE "ENOENT"))
     /\ UNCHANGED <<node, store>>

Found(t, ops) == At(t, "check") /\ Me(t).token = NoToken /\ Me(t).op \in ops

Getattr(t) ==
  LET n == node[Me(t).cur]
  IN /\ Found(t, {"getattr"})
     /\ Return(t, Answer(IF n.dir THEN "directory" ELSE "file", n.size, <<>>))
     /\ UNCHANGED <<node, store>>

Open(t) ==
  /\ Found(t, {"open"})
  /\ Return(t, Code(IF node[Me(t).cur].dir THEN "error" ELSE "ok"))
  /\ UNCHANGED <<node, store>>

Opendir(t) ==
  /\ Found(t, {"opendir"})
  /\ Return(t, Code(IF node[Me(t).cur].dir THEN "ok" ELSE "ENOTDIR"))
  /\ UNCHANGED <<node, store>>

\* The names are given, and then the thread's errno is the answer, which may be
\* that of any call that has failed in it before.
Readdir(t) ==
  LET n == node[Me(t).cur]
      names == [i \in DOMAIN n.files |-> node[n.files[i]].name]
  IN /\ Found(t, {"readdir"})
     /\ Return(t, IF ~ n.dir THEN Code("ENOTDIR")
                  ELSE Answer(IF t \in errno THEN "errno" ELSE "ok", 0, names))
     /\ UNCHANGED <<node, store>>

\* Mutant: the count of blocks follows the size.
TruncateBlocks(t) ==
  /\ Found(t, {"truncate"})
  /\ node' = [node EXCEPT ![Me(t).cur].size = Me(t).size, ![Me(t).cur].num_block = Me(t).size]
  /\ Return(t, Answer("size", Me(t).size, <<>>))
  /\ UNCHANGED store

\* Only the recorded size changes; the answer is the size.
Truncate(t) ==
  /\ Found(t, {"truncate"})
  /\ node' = [node EXCEPT ![Me(t).cur].size = Me(t).size]
  /\ Return(t, Answer("size", Me(t).size, <<>>))
  /\ UNCHANGED store

\* bb_rename, bb_link, bb_symlink, bb_chmod, bb_chown and their like answer 0.
Acknowledge(t) ==
  /\ At(t, "answer") /\ Me(t).op # "ftruncate"
  /\ Return(t, Code("ok"))
  /\ UNCHANGED <<node, store>>

\* bb_ftruncate takes the address of the node, which bb_open has put in fi->fh,
\* for a file descriptor: ftruncate() fails, and errno stays behind.
Ftruncate(t) ==
  /\ At(t, "answer") /\ Me(t).op = "ftruncate"
  /\ errno' = errno \cup {t}
  /\ call' = [call EXCEPT ![t] = Quiet]
  /\ reply' = [reply EXCEPT ![t] = Code("errno")]
  /\ UNCHANGED <<node, store, saved, cached>>
-----------------------------------------------------------------------------
(* Reading and writing *)

\* bb_read and bb_write look the path up with bb_getattr and then again; of
\* the path, strtok() has left the first name.
Recheck(t) ==
  /\ Found(t, {"read", "write"})
  /\ IF node[Me(t).cur].dir
     THEN Return(t, Code("error"))
     ELSE Tokenise(t, <<Head(Me(t).path)>>, "recheck")
  /\ UNCHANGED <<node, store>>

\* The first block is checked against the file's counts, the others are not: a
\* place without an index leads out of the store.
Read(t) ==
  LET n == node[Me(t).cur]
      places == {Me(t).first + i : i \in 2 .. Me(t).size}
      first == IF n.size > 0 /\ Me(t).first < n.num_block
               THEN store[n.block[Me(t).first + 1]][1] ELSE Garbage
  IN /\ At(t, "recheck") /\ Me(t).token = NoToken /\ Me(t).op = "read"
     /\ IF \A p \in places : p <= MaxBlocks /\ n.block[p] # NoBlock
        THEN Return(t, Answer("data", 0,
               [i \in 1 .. Me(t).size |->
                  IF i = 1 THEN first ELSE store[n.block[Me(t).first + i]][1]]))
        ELSE Crash
     /\ UNCHANGED <<node, store>>

\* A directory is not written: what the first name leads to, when there are
\* more.  A file's counts grow before the block is there.
WriteGrow(t) ==
  /\ At(t, "recheck") /\ Me(t).token = NoToken /\ Me(t).op = "write"
  /\ IF node[Me(t).cur].dir
     THEN Return(t, Code("error")) /\ UNCHANGED node
     ELSE /\ node' = [node EXCEPT ![Me(t).cur].size = @ + Me(t).size,
                                ![Me(t).cur].num_block = @ + 1]
          /\ Proceed(t, "search")
  /\ UNCHANGED store

\* strcpy() has copied to temp_buf, of one block, all that strlen() counts.
Overrun(t) ==
  /\ At(t, "search") /\ Me(t).size > BlockSize
  /\ Crash

\* Two digests are the same up to a zero byte in both.
Same(i, data) == store[i] # Unwritten /\ Hash[store[i]] = Hash[data]

\* The file's last block is to be found at that place of the store.  Its array
\* has MaxBlocks places, which nothing checks.
PointTo(n, slot, storing) ==
  IF node[n].num_block \in 1 .. MaxBlocks
  THEN node' = [node EXCEPT ![n].block[node[n].num_block] = slot] /\ storing
  ELSE Crash

\* The search for the block's hash ends at the first that matches, which the
\* file then shares, or past the last block.
WriteSearch(t) ==
  LET found == {i \in DOMAIN store : Same(i, Me(t).data)}
  IN /\ At(t, "search")
     /\ IF found = {}
        THEN /\ call' = [call EXCEPT ![t].phase = "store", ![t].slot = Len(store) + 1]
             /\ UNCHANGED <<node, store, saved, reply, errno, cached>>
        ELSE PointTo(Me(t).cur, Min(found), Return(t, Code("written")) /\ UNCHANGED store)

\* A new block: the store is made longer by one, and filled at the place where
\* the search ended, which need not be the last any more.
WriteStore(t) ==
  /\ At(t, "store")
  /\ PointTo(Me(t).cur, Me(t).slot,
       /\ store' = [Append(store, Unwritten) EXCEPT ![Me(t).slot] = Me(t).data]
       /\ Return(t, Code("written")))
-----------------------------------------------------------------------------
(* Making files and directories *)

\* A path that leads nowhere is found out after one more call of strtok, and
\* answered as if it had not.
Abandon(t) ==
  /\ call' = [call EXCEPT ![t] = Quiet]
  /\ reply' = [reply EXCEPT ![t] = Code("ok")]
  /\ saved' = Rest(saved)
  /\ Believe(t, Code("ok"))
  /\ UNCHANGED errno

\* The new node's path is copied, into an array of PATH_SIZE bytes, and then the
\* last token of it, into one of 30.
CopyName(t) ==
  /\ At(t, "name") /\ Me(t).token = NoToken
  /\ Me(t).path \in LongPaths \/ Me(t).name \in LongNames
  /\ Crash

\* get_name: the last token of the path.
GetName(t) ==
  /\ At(t, "name")
  /\ IF Me(t).token # NoToken
     THEN Advance(t, [Me(t) EXCEPT !.name = Me(t).token])
     ELSE Tokenise(t, Me(t).path, IF Me(t).op = "mkdir" THEN "add_dir" ELSE "add")
  /\ UNCHANGED <<node, store>>

\* add_on_root, for a file: a name that is not found must be the last one.
Add(t) ==
  LET child == Child(Me(t).cur, Me(t).token)
  IN /\ At(t, "add")
     /\ IF Me(t).token = NoToken
        THEN Proceed(t, "link")
        ELSE IF child # Nothing
        THEN Advance(t, [Me(t) EXCEPT !.cur = child])
        ELSE IF saved = <<>>
        THEN Advance(t, [Me(t) EXCEPT !.phase = "link"])
        ELSE Abandon(t)
     /\ UNCHANGED <<node, store>>

\* add_on_root_dir, for a directory: a name that is not found is passed over.
AddDir(t) ==
  LET child == Child(Me(t).cur, Me(t).token)
  IN /\ At(t, "add_dir")
     /\ IF Me(t).token = NoToken
        THEN Proceed(t, "link")
        ELSE Advance(t, [Me(t) EXCEPT !.cur = IF child = Nothing THEN @ ELSE child])
     /\ UNCHANGED <<node, store>>

\* The new node is put at the end of the parent's array.
Link(t) ==
  LET new == Len(node) + 1
  IN /\ At(t, "link")
     /\ node' = Append([node EXCEPT ![Me(t).cur].files = Append(@, new)],
                       NewNode(Me(t).name, Me(t).op = "mkdir"))
     /\ Return(t, Code("ok"))
     /\ UNCHANGED store
-----------------------------------------------------------------------------
(* Removing *)

\* remove_from_root: down to the node, remembering where it was found.
Find(t) ==
  LET i == IndexOf(Me(t).cur, Me(t).token)
  IN /\ At(t, "remove")
     /\ IF i = 0
        THEN Abandon(t)
        ELSE Advance(t, [Me(t) EXCEPT !.parent = Me(t).cur, !.index = i,
               !.cur = node[Me(t).cur].files[i],
               !.phase = IF saved = <<>> THEN "unlink" ELSE "remove"])
     /\ UNCHANGED <<node, store>>

\* Mutant: the entries that follow are moved up one place too late.
UnlinkNext(t) ==
  LET p == Me(t).parent
  IN /\ At(t, "unlink")
     /\ node' = [node EXCEPT ![p].files =
                   RemoveAt(@, IF Me(t).index < Len(@) THEN Me(t).index + 1 ELSE Me(t).index)]
     /\ Return(t, Code("ok"))
     /\ UNCHANGED store

\* Unlink and rmdir alike: what a directory holds goes with it, and the
\* parent's counts, which no write has raised, are lowered by the node's.
Unlink(t) ==
  LET p == Me(t).parent
      i == Me(t).index
      gone == node[node[p].files[i]]
  IN /\ At(t, "unlink")
     /\ IF i > Len(node[p].files)
        THEN Crash
        ELSE /\ node' = [node EXCEPT ![p].files = RemoveAt(@, i), ![p].size = @ - gone.size,
                                     ![p].num_block = @ - gone.num_block]
             /\ Return(t, Code("ok"))
             /\ UNCHANGED store
-----------------------------------------------------------------------------
Step(t) ==
  \/ CopyToken(t) \/ Lookup(t) \/ Getattr(t) \/ Open(t) \/ Opendir(t) \/ Readdir(t)
  \/ Truncate(t) \/ Ftruncate(t) \/ Acknowledge(t)
  \/ Recheck(t) \/ Read(t) \/ WriteGrow(t) \/ Overrun(t) \/ WriteSearch(t)
  \/ WriteStore(t) \/ CopyName(t) \/ GetName(t) \/ Add(t) \/ AddDir(t) \/ Link(t)
  \/ Find(t) \/ Unlink(t)

Next ==
  \/ \E t \in Threads : Step(t) /\ UNCHANGED changes
  \/ \E t \in Threads, op \in Ops, path \in Paths \cup {<<>>} : Begin(t, op, path)
  \/ Expire \/ Remount

Spec == Init /\ [][Next]_vars
-----------------------------------------------------------------------------
(* Properties *)

\* Types; the count of a file's blocks, which the root's may go below, is
\* ahead of the blocks only while one is being written.
TypeOK ==
  /\ \A n \in DOMAIN node :
       /\ node[n] = [NewNode(node[n].name, node[n].dir) EXCEPT
            !.size = node[n].size, !.num_block = node[n].num_block,
            !.block = node[n].block, !.files = node[n].files]
       /\ node[n].name \in Names \cup {"/"} /\ node[n].dir \in BOOLEAN
       /\ node[n].size \in Int /\ node[n].num_block \in Int
       /\ node[n].files \in Seq(DOMAIN node)
       /\ node[n].block \in [1 .. MaxBlocks -> NoBlock .. Len(store)]
       /\ ~ node[n].dir =>
            \/ \E t \in Threads : At(t, "crashed")
            \/ node[n].num_block = Len(Data(n))
            \/ node[n].num_block = Len(Data(n)) + 1 /\ \E t \in Threads :
                 (At(t, "search") \/ At(t, "store")) /\ Me(t).cur = n
  /\ store \in Seq(Blocks \cup {Unwritten})
  /\ saved \in Seq(Names)
  /\ \A t \in Threads :
       /\ Me(t).op \in Ops /\ Me(t).phase \in Phases
       /\ Me(t).path \in Paths \cup {<<>>}
       /\ Me(t).data \in Blocks \cup {Unwritten} /\ {Me(t).first, Me(t).size} \subseteq Nat
       /\ {Me(t).token, Me(t).name} \subseteq Names \cup {NoToken}
       /\ {Me(t).cur, Me(t).parent} \subseteq DOMAIN node
       /\ Me(t).index \in Nat /\ Me(t).slot \in Nat
  /\ errno \subseteq Threads /\ cached \subseteq Range(Renames) /\ changes \in 0 .. MaxChanges

\* The threads that have counted a block of the file and not yet written it, of
\* which there is at most one while the path is locked.
Writers(n) ==
  {t \in Threads : /\ Me(t).op = "write" /\ Me(t).cur = n /\ Me(t).token = NoToken
                   /\ At(t, "search") \/ At(t, "store") \/ At(t, "crashed")}
Growth(n) == IF Writers(n) = {} THEN 0 ELSE Me(CHOOSE t \in Writers(n) : TRUE).size

Entry(n) ==
  IF n = Nothing THEN [kind |-> "nothing", size |-> 0, log |-> <<>>]
  ELSE IF node[n].dir THEN [kind |-> "directory", size |-> node[n].size, log |-> <<>>]
  ELSE [kind |-> "file", size |-> node[n].size - Growth(n), log |-> Data(n)]

\* What stands at a path.  (With n bound, TLC follows the path only once.)
EntryAt(path) == CHOOSE e \in {Entry(n) : n \in {Resolve(path)}} : TRUE

Request(t) ==
  IF At(t, "idle") THEN [op |-> "none", path |-> <<>>, data |-> Garbage, first |-> 0, size |-> 0]
  ELSE [op |-> Me(t).op, path |-> Me(t).path, data |-> Me(t).data[1],
        first |-> Me(t).first, size |-> Me(t).size]

Files == INSTANCE FileLog WITH
  alive <- \A t \in Threads : ~ At(t, "crashed"),
  tree <- [p \in Paths \cup {<<>>} |-> EntryAt(p)],
  request <- [t \in Threads |-> Request(t)],
  answer <- reply,
  spoilt <- errno,
  Alike <- [data \in Contents |->
              {b[1] : b \in {b \in Blocks : \E r \in Residues :
                 <<data, r>> \in Blocks /\ Hash[b] = Hash[<<data, r>>]}}]

\* With one thread, each handler does to the tree of logs what it was asked,
\* and answers what is there, in the step in which it returns: files that share
\* blocks, stand in the same array or take the place of a removed one do not
\* disturb each other; a file has what was written to it, or what has the same
\* hash; and nothing brings the program down but a full file, a hole in one, a
\* name the kernel only believes in, one that is too long, or data in which
\* strlen() finds more than a block.
ImplementsFileLog == Files!LogSpec

\* check_bbfile "returns pointer to the file or Null": a node it returns is the
\* one the path names.
FindsNamed ==
  \A t \in Threads :
    At(t, "check") /\ Me(t).token = NoToken /\ Me(t).path # <<>> => node[Me(t).cur].name = Last(Me(t).path)
=============================================================================
