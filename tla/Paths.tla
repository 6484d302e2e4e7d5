-------------------------------- MODULE Paths --------------------------------
(***************************************************************************)
(* Directories and path names (kernel/fs/fs.c, kernel/lib/string.c): how   *)
(* load_file_cached finds a file from the root, character by character,    *)
(* and how store_file_cached finds the way back to the directory entry.    *)
(*                                                                         *)
(* A path is a sequence of characters in which every name, the last one    *)
(* too, is followed by '/'; the root is the empty path.  A directory is a  *)
(* sequence of FCBs, a normal file one of cells that are not FCBs; sectors *)
(* are FileSys's concern.  Every call is one step.                         *)
(*                                                                         *)
(* Clients use one file_cached_t each, again and again: load_file_cached   *)
(* changes only a part of it if it fails or if it loads the root.  Zeroed  *)
(* says that it was all zeroes before its first use.                       *)
(***************************************************************************)
EXTENDS Integers, Sequences, FiniteSets, FiniteSetsExt

CONSTANTS Names,      \* names of files, sequences of characters
          Clients,    \* tasks
          MaxNodes,   \* bound: files beside the root
          NameSeqs,   \* paths that are used, as sequences of names
          MaxSize,    \* bound: cells of a normal file
          Zeroed,
          Careful     \* do clients keep to the rules of MayUse?

Slash == "/"

ASSUME PathsAssumption ==
  /\ \A name \in Names : Len(name) > 0 /\ \A i \in 1..Len(name) : name[i] # Slash
  /\ NameSeqs \subseteq Seq(Names)
  /\ \A names \in NameSeqs : \A n \in 0..Len(names) : SubSeq(names, 1, n) \in NameSeqs
  /\ {MaxNodes, MaxSize} \subseteq Nat
  /\ {Zeroed, Careful} \subseteq BOOLEAN

Nodes == 0..MaxNodes
Types == {"FILE_TYPE_NORMAL", "FILE_TYPE_DIRECTORY"}

VARIABLES
  disk,     \* [data, root]: what every file holds, by its first sector,
            \* and the root's FCB
  count,    \* files created
  handle,   \* the file_cached_t of every client, and what load returned
  tree      \* history: the files there are, by their paths

vars == <<disk, count, handle, tree>>

Fcb(name, type, node, size) ==
  [file_name |-> name, file_type |-> type, first_sector |-> node, file_size |-> size]

(* A cell of a normal file, taken for an FCB. *)
Text == Fcb(<<"text">>, "FILE_TYPE_NORMAL", 0, 0)

Unused == <<"garbage", Slash>>
-----------------------------------------------------------------------------
(* string.c *)

strlen(text) == Len(text)

PrefixOnly(str1, str2) ==
  IF \E i \in 1..strlen(str1) : i > strlen(str2) \/ str1[i] # str2[i] THEN 1 ELSE 0

strcmp(str1, str2) ==
  IF strlen(str1) # strlen(str2) \/ \E i \in 1..strlen(str1) : str1[i] # str2[i]
    THEN 1 ELSE 0

KeepsLastName(path) == SubSeq(path, 1, strlen(path) - 1)

UpToFirst(path) ==
  LET slashes == {i \in 1..(strlen(path) - 1) : path[i] = Slash}
  IN IF slashes = {} THEN <<>> ELSE SubSeq(path, 1, Min(slashes))

(* Up to the last '/' before the one at the end. *)
get_parent_dir_name(path) ==
  LET slashes == {i \in 1..(strlen(path) - 1) : path[i] = Slash}
  IN IF slashes = {} THEN <<>> ELSE SubSeq(path, 1, Max(slashes))
-----------------------------------------------------------------------------
(* read_all, as many cells as the FCB says there are *)
read_all(d, file) == SubSeq(d.data[file.first_sector], 1, file.file_size)

(* Positions at which dir_search_file finds the name in whatever file it   *)
(* is given: it takes the first.                                           *)
Found(entries, name) ==
  {i \in 1..Len(entries) : strcmp(entries[i].file_name, name) = 0}

(* The last name, or one before it, was not found (i counts from 0). *)
Missing(i, length) ==
  IF i >= length - 1 THEN "FILE_RESULT_NOT_EXISTING" ELSE "FILE_RESULT_DIR_NOT_EXISTING"

(* Character i of load_file_cached's loop: file and index are fields of    *)
(* the caller's file_cached_t.                                             *)
Character(d, path, i, s) ==
  LET files == read_all(d, s.file)
      found == Found(files, s.temp)
  IN CASE path[i] # Slash -> [s EXCEPT !.temp = Append(@, path[i])]
       [] path[i] = Slash /\ found = {} ->
            [s EXCEPT !.result = Missing(i - 1, strlen(path))]
       [] path[i] = Slash /\ found # {} ->
            [s EXCEPT !.temp = <<>>, !.index = Min(found) - 1,
                      !.file = files[Min(found)]]

Walk(d, h, path) ==
  LET after[i \in 0..strlen(path)] ==
        IF i = 0
          THEN [file |-> d.root, index |-> h.index, temp |-> <<>>,
                result |-> "FILE_RESULT_SUCCESS"]
          ELSE LET s == after[i - 1]
               IN IF s.result = "FILE_RESULT_SUCCESS" THEN Character(d, path, i, s) ELSE s
  IN after[strlen(path)]

load_file_cached(d, h, path) ==
  LET walked == Walk(d, h, path)
      reached == [h EXCEPT !.file = walked.file, !.index = walked.index,
                           !.result = walked.result]
  IN IF walked.result # "FILE_RESULT_SUCCESS"
       THEN reached
       ELSE [reached EXCEPT !.write_seek = 0,
                            !.has_parent = strcmp(path, <<>>) # 0,
                            !.parent = IF strcmp(path, <<>>) = 0 THEN @ ELSE get_parent_dir_name(path)]

Uninitialised ==
  [file |-> Text, index |-> 0, write_seek |-> 0, has_parent |-> FALSE,
   parent |-> IF Zeroed THEN <<>> ELSE Unused, result |-> "unused"]

OnTopOfFirst(d, dir, index, file) ==
  [d EXCEPT !.data[dir.first_sector] = [@ EXCEPT ![1] = file]]

(* sys_wseek and covering_write of the entry at an index *)
StoredAt(d, dir, index, file) ==
  [d EXCEPT !.data[dir.first_sector] = [@ EXCEPT ![index + 1] = file]]

(***************************************************************************)
(* store_file_cached: the parent directory is looked up by its name and    *)
(* the FCB written at the index it had when it was found.  The root's FCB, *)
(* too, is written only if the lookup succeeds.                            *)
(***************************************************************************)
store_file_cached(d, h) ==
  LET dir == load_file_cached(d, Uninitialised, h.parent)
  IN CASE dir.result # "FILE_RESULT_SUCCESS" -> d
       [] dir.result = "FILE_RESULT_SUCCESS" /\ h.has_parent ->
            StoredAt(d, dir.file, h.index, h.file)
       [] dir.result = "FILE_RESULT_SUCCESS" /\ ~h.has_parent -> [d EXCEPT !.root = h.file]

(* sys_write of one cell: it is inserted at the write position.  Returns   *)
(* the disk and the handle.                                                *)
sys_write(d, h, cell) ==
  LET old == d.data[h.file.first_sector]
      new == SubSeq(old, 1, h.write_seek) \o <<cell>>
               \o SubSeq(old, h.write_seek + 1, h.file.file_size)
      grown == [h EXCEPT !.file.file_size = @ + 1, !.write_seek = @ + 1]
  IN [disk |-> store_file_cached([d EXCEPT !.data[h.file.first_sector] = new], grown),
      h |-> grown]
-----------------------------------------------------------------------------
(* The path of a sequence of names *)
Join(names) ==
  LET path[i \in 0..Len(names)] ==
        IF i = 0 THEN <<>> ELSE path[i - 1] \o names[i] \o <<Slash>>
  IN path[Len(names)]

PathNames == {Join(names) : names \in NameSeqs}

(* root_init: the root is there and empty. *)
Init ==
  /\ disk = [data |-> [n \in Nodes |-> <<>>],
             root |-> Fcb(<<"r", "o", "o", "t">>, "FILE_TYPE_DIRECTORY", 0, 0)]
  /\ count = 0
  /\ handle = [c \in Clients |-> Uninitialised]
  /\ tree = [path \in {<<>>} |-> [type |-> "FILE_TYPE_DIRECTORY", size |-> 0]]

(* The path of the file of a handle *)
Whereabouts(h) ==
  IF h.has_parent THEN h.parent \o h.file.file_name \o <<Slash>> ELSE <<>>

(* The FCB is what the entry it will be stored to holds. *)
UpToDate(h) ==
  LET dir == load_file_cached(disk, Uninitialised, h.parent)
  IN IF h.has_parent
       THEN /\ h.index < dir.file.file_size
            /\ read_all(disk, dir.file)[h.index + 1] = h.file
       ELSE h.file = disk.root

(***************************************************************************)
(* Rules for changing a file: it was found, its FCB is up to date, it has  *)
(* the right type, at which the code never looks, and a handle of the root *)
(* has not been used for another file (its directory would be looked up,   *)
(* in the middle of the change, before the root is stored).                *)
(***************************************************************************)
MayUse(c, type) ==
  /\ handle[c].result = "FILE_RESULT_SUCCESS"
  /\ Careful => /\ UpToDate(handle[c])
                /\ handle[c].file.file_type = type
                /\ handle[c].has_parent \/ handle[c].parent = Uninitialised.parent

Write(c, cell) ==
  LET after == sys_write(disk, handle[c], cell)
  IN /\ disk' = after.disk
     /\ handle' = [handle EXCEPT ![c] = after.h]

(* Whatever load_file_cached returns, a part of the handle has changed. *)
Load(c, path) ==
  /\ handle' = [handle EXCEPT ![c] = load_file_cached(disk, @, path)]
  /\ UNCHANGED <<disk, count, tree>>

(* A client takes another file_cached_t. *)
Renew(c) ==
  /\ handle' = [handle EXCEPT ![c] = Uninitialised]
  /\ UNCHANGED <<disk, count, tree>>

(* sys_create; callers look for the name first. *)
sys_create(c, name, type) ==
  LET dir == Whereabouts(handle[c])
      path == dir \o name \o <<Slash>>
  IN /\ MayUse(c, "FILE_TYPE_DIRECTORY")
     /\ count < MaxNodes
     /\ path \in PathNames \ DOMAIN tree
     /\ Write(c, Fcb(name, type, count + 1, 0))
     /\ count' = count + 1
     /\ tree' = [p \in DOMAIN tree \cup {path} |->
                   CASE p = path -> [type |-> type, size |-> 0]
                     [] p = dir -> [tree[dir] EXCEPT !.size = @ + 1]
                     [] OTHER -> tree[p]]

WriteText(c) ==
  /\ MayUse(c, "FILE_TYPE_NORMAL")
  /\ handle[c].file.file_size < MaxSize
  /\ Write(c, Text)
  /\ tree' = [tree EXCEPT ![Whereabouts(handle[c])].size = @ + 1]
  /\ UNCHANGED count

Next ==
  \E c \in Clients :
    \/ \E path \in PathNames : Load(c, path)
    \/ \E name \in Names, type \in Types : sys_create(c, name, type)
    \/ WriteText(c) \/ Renew(c)

Spec == Init /\ [][Next]_vars
-----------------------------------------------------------------------------
Fcbs == {Fcb(name, type, n, size) : name \in Names \cup {<<"text">>, <<"r", "o", "o", "t">>},
                                    type \in Types, n \in Nodes, size \in 0..(MaxNodes + MaxSize)}

TypeOK ==
  /\ disk.root \in Fcbs
  /\ \A n \in Nodes : \A i \in 1..Len(disk.data[n]) : disk.data[n][i] \in Fcbs
  /\ count \in 0..MaxNodes
  /\ \A c \in Clients :
       /\ handle[c].file \in Fcbs
       /\ handle[c].index \in 0..(MaxNodes + MaxSize)
       /\ handle[c].write_seek \in 0..(MaxNodes + MaxSize)
       /\ handle[c].result = "FILE_RESULT_SUCCESS" =>
            handle[c].write_seek <= handle[c].file.file_size
       /\ handle[c].parent \in PathNames \cup {Unused}

(***************************************************************************)
(* fs.c:100-123: load_file_cached finds exactly the files that were        *)
(* created, each where it was created and as large as it was written,      *)
(* however handles were used in between; and of a path that leads nowhere  *)
(* it says whether only the last name is missing or a directory before it. *)
(***************************************************************************)
PathsResolve ==
  \A names \in NameSeqs :
    LET path == Join(names)
        parent == Join(SubSeq(names, 1, Len(names) - 1))
        found == load_file_cached(disk, Uninitialised, path)
    IN CASE path \in DOMAIN tree ->
              /\ found.result = "FILE_RESULT_SUCCESS"
              /\ [type |-> found.file.file_type, size |-> found.file.file_size] = tree[path]
         [] path \notin DOMAIN tree /\ parent \in DOMAIN tree ->
              found.result = "FILE_RESULT_NOT_EXISTING"
         [] path \notin DOMAIN tree /\ parent \notin DOMAIN tree ->
              found.result = "FILE_RESULT_DIR_NOT_EXISTING"

(***************************************************************************)
(* string.c:46, fs.c:139: the path an open file keeps of its directory     *)
(* leads to the directory that has the file's FCB, at whatever index.      *)
(***************************************************************************)
ParentHasEntry ==
  \A c \in Clients :
    handle[c].result = "FILE_RESULT_SUCCESS" /\ handle[c].has_parent =>
      LET dir == load_file_cached(disk, Uninitialised, handle[c].parent)
          entries == read_all(disk, dir.file)
      IN /\ dir.result = "FILE_RESULT_SUCCESS"
         /\ \E i \in 1..Len(entries) :
              /\ entries[i].file_name = handle[c].file.file_name
              /\ entries[i].first_sector = handle[c].file.first_sector

(***************************************************************************)
(* fs.c:152: storing an FCB never replaces another file's: every file that *)
(* was created has one entry in one directory.                             *)
(***************************************************************************)
OneEntryEach ==
  \A n \in 1..count :
    Cardinality({e \in Nodes \X (1..(MaxNodes + MaxSize)) :
                   e[2] <= Len(disk.data[e[1]]) /\ disk.data[e[1]][e[2]].first_sector = n}) = 1
=============================================================================
