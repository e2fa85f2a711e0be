-------------------------------- MODULE TmpFs --------------------------------
(***************************************************************************)
(* The RAM file system mounted at /tmp (TmpFs.cpp): a table of nodes, each *)
(* carrying its whole mount-relative path.  The table is a function from   *)
(* paths to nodes; a path is the sequence of its names, the mount's root   *)
(* is <<>>.  Owners, permissions and times are left out, and so is the     *)
(* order of the table, which only decides the order of a listing.          *)
(*                                                                         *)
(* An operation returns what the code returns (ok: the result is >= 0) and *)
(* the table it leaves.                                                    *)
(***************************************************************************)
EXTENDS Integers, Sequences, FiniteSets, FiniteSetsExt

CONSTANTS Names,      \* the names of files and directories
          MaxPath,    \* TMPFS_MAX_PATH, counted in names
          MaxNodes,   \* TMPFS_MAX_NODES
          MaxBytes    \* TMPFS_MAX_BYTES

ASSUME LimitsAssumption ==
    MaxPath \in Nat /\ MaxNodes \in Nat /\ MaxBytes \in Nat

Paths == Seq(Names)

-----------------------------------------------------------------------------
(* Paths and queries.                                                      *)

parentOf(p) == SubSeq(p, 1, Len(p) - 1)

\* p lies strictly below d (the code compares with the prefix "d/").
Below(p, d) == Len(p) > Len(d) /\ SubSeq(p, 1, Len(d)) = d

isFileExist(t, p) == p \in DOMAIN t /\ t[p].type = "REG"

isDirExist(t, p) == p = <<>> \/ (p \in DOMAIN t /\ t[p].type = "DIR")

parentExists(t, p) == isDirExist(t, parentOf(p))

usedBytes(t) == MapThenSumSet(LAMBDA p : Len(t[p].data), DOMAIN t)

\* The names getDirFileList returns for a directory.
getDirFileList(t, d) ==
    {p[Len(p)] : p \in {q \in DOMAIN t : parentOf(q) = d}}

-----------------------------------------------------------------------------
(* Operations.                                                             *)

Done(t) == [ok |-> TRUE, t |-> t]

Refused(t) == [ok |-> FALSE, t |-> t]

Put(t, p, node) ==
    [q \in DOMAIN t \cup {p} |-> IF q = p THEN node ELSE t[q]]

Drop(t, S) == [q \in DOMAIN t \ S |-> t[q]]

\* A file; 0 is the byte a hole is filled with.
File(data) == [type |-> "REG", data |-> data]

Directory == [type |-> "DIR", data |-> <<>>]

\* A path at which a node may be made.
MayCreate(t, p) ==
    /\ p # <<>> /\ Len(p) <= MaxPath
    /\ parentExists(t, p)
    /\ Cardinality(DOMAIN t) < MaxNodes

putContent(t, p, content, append) ==
    LET old  == IF p \in DOMAIN t THEN t[p].data ELSE <<>>
        data == IF append THEN old \o content ELSE content
    IN  IF /\ p # <<>> /\ Len(p) <= MaxPath
           /\ isFileExist(t, p) \/ (p \notin DOMAIN t /\ MayCreate(t, p))
           /\ usedBytes(t) - Len(old) + Len(data) <= MaxBytes
        THEN Done(Put(t, p, File(data)))
        ELSE Refused(t)

createFile(t, p, content) ==
    IF p \in DOMAIN t THEN Refused(t) ELSE putContent(t, p, content, FALSE)

writeFile(t, p, content, append) == putContent(t, p, content, append)

\* content laid over old from offset on; a gap is filled with zeroes.
Spliced(old, offset, content) ==
    LET end == offset + Len(content)
    IN  [i \in 1 .. (IF end > Len(old) THEN end ELSE Len(old)) |->
            IF i \in offset + 1 .. end THEN content[i - offset]
            ELSE IF i <= Len(old) THEN old[i] ELSE 0]

\* Mutant: the budget is not looked at.
editFileUnbounded(t, p, offset, content) ==
    IF isFileExist(t, p)
    THEN Done(Put(t, p, File(Spliced(t[p].data, offset, content))))
    ELSE Refused(t)

editFile(t, p, offset, content) ==
    IF /\ isFileExist(t, p)
       /\ LET end == offset + Len(content)
          IN  end > Len(t[p].data)
                => usedBytes(t) - Len(t[p].data) + end <= MaxBytes
    THEN Done(Put(t, p, File(Spliced(t[p].data, offset, content))))
    ELSE Refused(t)

createDirectory(t, p) ==
    IF p \notin DOMAIN t /\ MayCreate(t, p)
    THEN Done(Put(t, p, Directory))
    ELSE Refused(t)

deleteFile(t, p) ==
    IF isFileExist(t, p) THEN Done(Drop(t, {p})) ELSE Refused(t)

\* Mutant: what lies below stays.
deleteDirectoryNode(t, p) ==
    IF p # <<>> /\ isDirExist(t, p) THEN Done(Drop(t, {p})) ELSE Refused(t)

\* With everything below it.
deleteDirectory(t, p) ==
    IF p # <<>> /\ isDirExist(t, p)
    THEN Done(Drop(t, {q \in DOMAIN t : q = p \/ Below(q, p)}))
    ELSE Refused(t)

\* The path a node has after old became new: the loop over the descendants
\* runs when the node itself already has its new path.
Renamed(t, old, new, p) ==
    LET q == IF p = old THEN new ELSE p
    IN  IF t[old].type = "DIR" /\ Below(q, old)
        THEN new \o SubSeq(q, Len(old) + 1, Len(q))
        ELSE q

rename(t, old, new) ==
    IF /\ old # <<>> /\ old \in DOMAIN t
       /\ new # <<>> /\ new \notin DOMAIN t
       /\ parentExists(t, new) /\ Len(new) <= MaxPath
    THEN Done([q \in {Renamed(t, old, new, p) : p \in DOMAIN t} |->
                  t[CHOOSE p \in DOMAIN t : Renamed(t, old, new, p) = q]])
    ELSE Refused(t)

copyFile(t, src, dst) ==
    IF /\ isFileExist(t, src)
       /\ dst \notin DOMAIN t /\ MayCreate(t, dst)
       /\ usedBytes(t) + Len(t[src].data) <= MaxBytes
    THEN Done(Put(t, dst, File(t[src].data)))
    ELSE Refused(t)

touch(t, p) == IF p \in DOMAIN t THEN Done(t) ELSE createFile(t, p, <<>>)

=============================================================================
