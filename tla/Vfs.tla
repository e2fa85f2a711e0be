--------------------------------- MODULE Vfs ---------------------------------
(***************************************************************************)
(* The dispatcher between the services and the file systems                *)
(* (VfsDispatcher.cpp), with two of its mounts: /tmp, and the flash file   *)
(* system at /, of which only files in its root directory are kept.  The   *)
(* session is root, so the permission checks pass.                         *)
(*                                                                         *)
(* A store is [tmp, flash]; paths are absolute, the mount's name first.    *)
(***************************************************************************)
EXTENDS TmpFs

CONSTANTS TmpName,    \* the name /tmp is mounted under
          FlashBytes  \* bytes the flash has room for

-----------------------------------------------------------------------------
(* Routing.                                                                *)

OnTmp(p) == p # <<>> /\ p[1] = TmpName

\* The rest of the path below its mount.
Rel(p) == SubSeq(p, 2, Len(p))

VfsFileExist(s, p) ==
    IF OnTmp(p) THEN isFileExist(s.tmp, Rel(p)) ELSE p \in DOMAIN s.flash

VfsDirExist(s, p) ==
    IF OnTmp(p) THEN isDirExist(s.tmp, Rel(p)) ELSE p = <<>>

VfsContent(s, p) == IF OnTmp(p) THEN s.tmp[Rel(p)].data ELSE s.flash[p]

VfsList(s, p) ==
    IF OnTmp(p) THEN getDirFileList(s.tmp, Rel(p)) ELSE {q[1] : q \in DOMAIN s.flash}

-----------------------------------------------------------------------------
(* What the flash does: a write that finds no room leaves the file alone.  *)

FlashPut(s, p, data) ==
    [tmp   |-> s.tmp,
     flash |-> [q \in DOMAIN s.flash \cup {p} |-> IF q = p THEN data ELSE s.flash[q]]]

FlashDrop(s, p) ==
    [tmp |-> s.tmp, flash |-> [q \in DOMAIN s.flash \ {p} |-> s.flash[q]]]

FlashFits(s) ==
    MapThenSumSet(LAMBDA p : Len(s.flash[p]), DOMAIN s.flash) <= FlashBytes

OnFlash(may, s, new) ==
    IF may /\ FlashFits(new)
    THEN [ok |-> TRUE, s |-> new]
    ELSE [ok |-> FALSE, s |-> s]

-----------------------------------------------------------------------------
(* Operations: routed to the mount of the path.                            *)

ToTmp(s, r) == [ok |-> r.ok, s |-> [tmp |-> r.t, flash |-> s.flash]]

VfsCreateFile(s, p) ==
    IF OnTmp(p) THEN ToTmp(s, createFile(s.tmp, Rel(p), <<>>))
    ELSE OnFlash(p # <<>> /\ p \notin DOMAIN s.flash, s, FlashPut(s, p, <<>>))

\* (On the flash a file that is not there is made before the write fails.)
VfsWriteFile(s, p, data) ==
    IF OnTmp(p) THEN ToTmp(s, writeFile(s.tmp, Rel(p), data, FALSE))
    ELSE IF p # <<>> /\ p \notin DOMAIN s.flash /\ ~FlashFits(FlashPut(s, p, data))
    THEN [ok |-> FALSE, s |-> FlashPut(s, p, <<>>)]
    ELSE OnFlash(p # <<>>, s, FlashPut(s, p, data))

VfsEditFile(s, p, offset, data) ==
    IF OnTmp(p) THEN ToTmp(s, editFile(s.tmp, Rel(p), offset, data))
    ELSE OnFlash(p \in DOMAIN s.flash, s,
                 FlashPut(s, p, Spliced(s.flash[p], offset, data)))

VfsCreateDirectory(s, p) ==
    IF OnTmp(p) THEN ToTmp(s, createDirectory(s.tmp, Rel(p)))
    ELSE [ok |-> FALSE, s |-> s]

VfsDeleteFile(s, p) ==
    IF OnTmp(p) THEN ToTmp(s, deleteFile(s.tmp, Rel(p)))
    ELSE OnFlash(p \in DOMAIN s.flash, s, FlashDrop(s, p))

VfsDeleteDirectory(s, p) ==
    IF OnTmp(p) THEN ToTmp(s, deleteDirectory(s.tmp, Rel(p)))
    ELSE [ok |-> FALSE, s |-> s]

VfsTouch(s, p) ==
    IF OnTmp(p) THEN ToTmp(s, touch(s.tmp, Rel(p)))
    ELSE IF p \in DOMAIN s.flash THEN [ok |-> TRUE, s |-> s]
    ELSE VfsCreateFile(s, p)

-----------------------------------------------------------------------------
(* Across the mounts.                                                      *)

\* Mutant: every chunk begins the file anew.
StreamedAnew(t, p, data, chunks) == writeFile(t, p, SubSeq(data, chunks, chunks), FALSE)

\* The first chunks of data written to p: the first one makes the file, the
\* others are appended.
Streamed(t, p, data, chunks) == writeFile(t, p, SubSeq(data, 1, chunks), FALSE)

\* Mutant: what was written until a chunk did not fit stays.
StreamToTmpPartly(t, p, data) ==
    LET fit == {k \in 1 .. Len(data) : Streamed(t, p, data, k).ok}
    IN  IF data = <<>> THEN createFile(t, p, <<>>)
        ELSE IF fit = 1 .. Len(data) THEN Streamed(t, p, data, Len(data))
        ELSE IF fit = {} THEN Refused(t)
        ELSE Refused(Streamed(t, p, data, Max(fit)).t)

\* The destination of crossCopy is in /tmp: when a chunk does not fit, what
\* was written until then is removed again.
StreamToTmp(t, p, data) ==
    LET fit == {k \in 1 .. Len(data) : Streamed(t, p, data, k).ok}
    IN  IF data = <<>> THEN createFile(t, p, <<>>)
        ELSE IF fit = 1 .. Len(data) THEN Streamed(t, p, data, Len(data))
        ELSE IF fit = {} THEN Refused(deleteFile(t, p).t)
        ELSE Refused(deleteFile(Streamed(t, p, data, Max(fit)).t, p).t)

crossCopy(s, src, dst) ==
    IF \/ ~VfsFileExist(s, src)
       \/ VfsFileExist(s, dst) \/ VfsDirExist(s, dst)
    THEN [ok |-> FALSE, s |-> s]
    ELSE IF OnTmp(dst) THEN ToTmp(s, StreamToTmp(s.tmp, Rel(dst), VfsContent(s, src)))
    ELSE OnFlash(TRUE, s, FlashPut(s, dst, VfsContent(s, src)))

\* rename, and moveFile, which does the same.
VfsRename(s, old, new) ==
    IF OnTmp(old) /\ OnTmp(new) THEN ToTmp(s, rename(s.tmp, Rel(old), Rel(new)))
    ELSE IF ~OnTmp(old) /\ ~OnTmp(new)
    THEN OnFlash(old \in DOMAIN s.flash /\ new # <<>>, s,
                 IF old = new THEN s
                 ELSE FlashPut(FlashDrop(s, old), new, s.flash[old]))
    ELSE LET copied == crossCopy(s, old, new)
         IN  IF copied.ok THEN VfsDeleteFile(copied.s, old) ELSE copied

\* The flash's own copyFile does not look at the results of its writes.
VfsCopyFile(s, src, dst) ==
    IF OnTmp(src) /\ OnTmp(dst) THEN ToTmp(s, copyFile(s.tmp, Rel(src), Rel(dst)))
    ELSE IF ~OnTmp(src) /\ ~OnTmp(dst)
    THEN LET copied == FlashPut(s, dst, s.flash[src])
         IN  OnFlash(src \in DOMAIN s.flash /\ dst # <<>>, s,
                     IF FlashFits(copied) THEN copied ELSE FlashPut(s, dst, <<>>))
    ELSE crossCopy(s, src, dst)

=============================================================================
