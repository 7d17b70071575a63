------------------------------ MODULE FileLog -------------------------------
(***************************************************************************)
(* What the file system of bbfs.c really does with what it is asked: a     *)
(* tree of directories and files, in which a file is a log of blocks with  *)
(* a recorded size, that each request changes, and looks at, in one step:  *)
(* the one in which it is answered.                                        *)
(*                                                                         *)
(* Writing a block adds it at the end of the log, wherever in the file it  *)
(* was meant to go, and only to a file that stands in the root directory;  *)
(* it, or another that cannot be told from it.  The size grows by what was *)
(* taken for the length of the data.                                       *)
(* Truncating changes the size and leaves the log, so that what is written *)
(* next is read behind what was there before.  Nothing but removal takes   *)
(* blocks away, and removing a directory removes all that is in it.        *)
(* Renaming, and much else, is answered and not done.                      *)
(***************************************************************************)
EXTENDS Integers, Sequences, SequencesExt

CONSTANTS
  Threads, Paths, Contents, Sizes, MaxBlocks, BlockSize, Garbage,
  LongNames,   \* the names, and the paths of what is made, that do not fit where
  LongPaths,   \* they are copied to
  Alike        \* what may be stored in the place of each of the contents

VARIABLES
  alive,     \* nothing has brought the program down
  tree,      \* what is at each path: nothing, a directory or a file
  request,   \* what each thread has been asked and has not answered
  answer,    \* what it has answered last
  spoilt     \* the threads that have truncated an open file

fileVars == <<alive, tree, request, answer, spoilt>>

Nothing == [kind |-> "nothing", size |-> 0, log |-> <<>>]
Directory == [kind |-> "directory", size |-> 0, log |-> <<>>]
File == [kind |-> "file", size |-> 0, log |-> <<>>]

Code(code) == [code |-> code, size |-> 0, list |-> <<>>]
Requests ==
  [op : {"mknod", "mkdir", "unlink", "rmdir", "write", "truncate", "ftruncate", "rename",
         "getattr", "open", "read", "opendir", "readdir"},
   path : Paths \cup {<<>>}, data : Contents \cup {Garbage}, first : Nat, size : Nat]
Idle == [op |-> "none", path |-> <<>>, data |-> Garbage, first |-> 0, size |-> 0]

FormatDisk ==
  /\ alive = TRUE
  /\ tree = [p \in Paths \cup {<<>>} |-> IF p = <<>> THEN Directory ELSE Nothing]
  /\ request = [t \in Threads |-> Idle]
  /\ answer = [t \in Threads |-> Code("none")]
  /\ spoilt = {}

Ask(t) ==
  /\ alive /\ request[t] = Idle
  /\ request'[t] \in Requests
  /\ request' = [request EXCEPT ![t] = request'[t]]
  /\ answer' = [answer EXCEPT ![t] = Code("none")]
  /\ UNCHANGED <<alive, tree, spoilt>>
-----------------------------------------------------------------------------
(* The requests and their answers *)

Exists(p) == tree[p].kind # "nothing"
IsFile(p) == tree[p].kind = "file"
Children(p) == {q \in Paths : Exists(q) /\ q # <<>> /\ Front(q) = p}

\* What reading and writing know of a file, which they look for by its first
\* name.
Reached(p) == IF Len(p) = 1 THEN tree[p].log ELSE <<>>

Create(p, entry) ==
  /\ ~ Exists(p) /\ tree[Front(p)].kind = "directory"
  /\ tree' = [tree EXCEPT ![p] = entry]

Delete(p) ==
  tree' = [q \in DOMAIN tree |->
             IF IsPrefix(p, q) THEN Nothing
             ELSE IF q = Front(p) THEN [tree[q] EXCEPT !.size = @ - tree[p].size]
             ELSE tree[q]]

AppendBlock(p, data, length) ==
  IF IsFile(p) /\ Len(p) = 1
  THEN /\ Len(tree[p].log) < MaxBlocks
       /\ \E stored \in Alike[data] :
            tree' = [tree EXCEPT ![p].log = Append(@, stored), ![p].size = @ + length]
  ELSE UNCHANGED tree

\* The blocks from first on; of the first, if it is not there, any garbage.
Blocks(log, first, size) ==
  [i \in 1 .. size |-> IF i = 1 /\ first >= Len(log) THEN Garbage ELSE log[first + i]]

\* What is answered where something is to be looked up that may not be there.
Known(p, found) == IF Exists(p) THEN found ELSE Code("ENOENT")

Listing(t, names) == [code |-> IF t \in spoilt THEN "errno" ELSE "ok", size |-> 0, list |-> names]

Replies(t, r) ==
  LET e == tree[r.path]
  IN CASE r.op \in {"mknod", "mkdir", "unlink", "rmdir", "rename"} -> {Code("ok")}
       [] r.op = "ftruncate" -> {Code("errno")}
       [] r.op = "truncate" -> {[Code("size") EXCEPT !.size = r.size]}
       [] r.op = "write" -> {Code(IF IsFile(r.path) /\ Len(r.path) = 1 THEN "written" ELSE "error")}
       [] r.op = "read" ->
            {IF IsFile(r.path)
             THEN [Code("data") EXCEPT !.list = Blocks(Reached(r.path), r.first, r.size)]
             ELSE Code("error")}
       [] r.op = "getattr" -> {Known(r.path, [Code(e.kind) EXCEPT !.size = e.size])}
       [] r.op = "open" -> {Known(r.path, Code(IF IsFile(r.path) THEN "ok" ELSE "error"))}
       [] r.op = "opendir" -> {Known(r.path, Code(IF IsFile(r.path) THEN "ENOTDIR" ELSE "ok"))}
       [] r.op = "readdir" ->
            IF e.kind = "directory"
            THEN {Listing(t, names) : names \in SetToSeqs({Last(q) : q \in Children(r.path)})}
            ELSE {Known(r.path, Code("ENOTDIR"))}

Reply(t) ==
  LET r == request[t]
  IN /\ alive /\ r # Idle
     /\ request' = [request EXCEPT ![t] = Idle]
     /\ \E reply \in Replies(t, r) : answer' = [answer EXCEPT ![t] = reply]
     /\ spoilt' = IF r.op = "ftruncate" THEN spoilt \cup {t} ELSE spoilt
     /\ CASE r.op = "mknod" -> Create(r.path, File)
          [] r.op = "mkdir" -> Create(r.path, Directory)
          [] r.op \in {"unlink", "rmdir"} -> Delete(r.path)
          [] r.op = "write" -> AppendBlock(r.path, r.data, r.size)
          [] r.op = "truncate" -> Exists(r.path) /\ tree' = [tree EXCEPT ![r.path].size = r.size]
          [] OTHER -> UNCHANGED tree
     /\ UNCHANGED alive

\* Requests that do not copy a name.
NoCopy == {"unlink", "rmdir", "rename", "ftruncate"}

\* A block too many is written to a file, or one that is taken to be longer than
\* a block; a block behind the first is read that is not there; what is
\* truncated is not there; or a name on the way, or the path of what is made, is
\* too long.
Die(t) ==
  LET r == request[t]
  IN /\ alive /\ alive' = FALSE
     /\ \/ /\ r.op = "write" /\ IsFile(r.path) /\ Len(r.path) = 1
           /\ Len(tree[r.path].log) = MaxBlocks \/ r.size > BlockSize
        \/ r.op = "read" /\ r.size > 1 /\ r.first + r.size > Len(Reached(r.path))
        \/ r.op = "truncate" /\ ~ Exists(r.path)
        \/ r.op \in {"mknod", "mkdir"} /\ r.path \in LongPaths
        \/ r.op \notin NoCopy /\ \E i \in DOMAIN r.path : r.path[i] \in LongNames
     /\ UNCHANGED <<tree, request, answer, spoilt>>

\* Nothing is kept from one mount to the next.
Reformat == alive /\ (\A t \in Threads : request[t] = Idle) /\ FormatDisk'

LogNext == Reformat \/ \E t \in Threads : Ask(t) \/ Reply(t) \/ Die(t)

LogSpec == FormatDisk /\ [][LogNext]_fileVars
=============================================================================
