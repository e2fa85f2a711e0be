----------------------------- MODULE SftpProofs ------------------------------
(***************************************************************************)
(* Whatever the sftp client and the other session do, and however requests *)
(* are joined, cut and read in chunks, no node of /tmp loses the           *)
(* directories above it, as long as no directory is moved below itself.    *)
(***************************************************************************)
EXTENDS Sftp, TmpFsProofs

\* The names paths are made of.
AllNames == Names \cup {TmpName}

-----------------------------------------------------------------------------
(* Paths below the mount.                                                  *)

\* What follows the mount's name is a path.
LEMMA RelIsPath ==
    ASSUME NEW S, NEW p \in Seq(S), OnTmp(p)
    PROVE  /\ Rel(p) \in Seq(S)
           /\ Len(Rel(p)) = Len(p) - 1
           /\ \A i \in 1 .. Len(p) - 1 : Rel(p)[i] = p[i + 1]
<1>1. p # <<>>
  BY DEF OnTmp
<1>2. /\ Tail(p) \in Seq(S) /\ Len(Tail(p)) = Len(p) - 1
      /\ \A i \in 1 .. Len(Tail(p)) : Tail(p)[i] = p[i + 1]
  BY <1>1, HeadTailProperties
<1>3. Rel(p) = Tail(p)
  BY <1>1, TailIsSubSeq DEF Rel
<1> QED
  BY <1>2, <1>3, Zenon

\* A path of the mount below another there is below it as an absolute path.
LEMMA BelowRel ==
    ASSUME NEW S, NEW p \in Seq(S), NEW d \in Seq(S), OnTmp(p), OnTmp(d),
           Below(Rel(p), Rel(d))
    PROVE  Below(p, d)
<1>1. /\ Rel(p) \in Seq(S) /\ Len(Rel(p)) = Len(p) - 1
      /\ \A i \in 1 .. Len(p) - 1 : Rel(p)[i] = p[i + 1]
  BY RelIsPath
<1>2. /\ Rel(d) \in Seq(S) /\ Len(Rel(d)) = Len(d) - 1
      /\ \A i \in 1 .. Len(d) - 1 : Rel(d)[i] = d[i + 1]
  BY RelIsPath
<1>3. p # <<>> /\ d # <<>> /\ p[1] = TmpName /\ d[1] = TmpName
  BY DEF OnTmp
<1>4. Len(p) \in Nat /\ Len(d) \in Nat /\ Len(p) # 0 /\ Len(d) # 0
  BY <1>3, LenProperties, EmptySeq
<1>5. Len(Rel(p)) > Len(Rel(d))
  BY DEF Below
<1>6. Len(p) > Len(d) /\ Len(d) \in 1 .. Len(p)
  BY <1>1, <1>2, <1>4, <1>5
<1>7. SubSeq(Rel(p), 1, Len(Rel(d))) = Rel(d)
  BY DEF Below
<1>8. ASSUME NEW i \in 1 .. Len(d) - 1 PROVE Rel(p)[i] = Rel(d)[i]
  <2>1. Len(Rel(d)) \in 1 .. Len(Rel(p)) /\ i \in 1 .. Len(Rel(d))
    BY <1>1, <1>2, <1>4, <1>6
  <2>2. \A k \in 1 .. Len(Rel(d)) : SubSeq(Rel(p), 1, Len(Rel(d)))[k] = Rel(p)[k]
    BY <1>1, <2>1, PrefixIsPath
  <2> QED
    BY <1>7, <2>1, <2>2, Zenon
<1>9. ASSUME NEW i \in 1 .. Len(d) PROVE p[i] = d[i]
  <2>1. CASE i = 1
    BY <1>3, <2>1
  <2>2. CASE i # 1
    <3> DEFINE k == i - 1
    <3>1. k \in 1 .. Len(d) - 1 /\ k \in 1 .. Len(p) - 1 /\ k + 1 = i
      BY <1>4, <1>6, <2>2
    <3> HIDE DEF k
    <3>2. Rel(p)[k] = p[k + 1] /\ Rel(d)[k] = d[k + 1] /\ Rel(p)[k] = Rel(d)[k]
      BY <1>1, <1>2, <1>8, <3>1, Zenon
    <3> QED
      BY <3>1, <3>2, Zenon
  <2> QED
    BY <2>1, <2>2
<1>10. /\ SubSeq(p, 1, Len(d)) \in Seq(S) /\ Len(SubSeq(p, 1, Len(d))) = Len(d)
       /\ \A i \in 1 .. Len(d) : SubSeq(p, 1, Len(d))[i] = p[i]
  BY <1>6, PrefixIsPath
<1>11. \A i \in 1 .. Len(d) : SubSeq(p, 1, Len(d))[i] = d[i]
  BY <1>9, <1>10, Zenon
<1>12. SubSeq(p, 1, Len(d)) = d
  BY <1>10, <1>11, SeqEqual
<1> QED
  BY <1>6, <1>12 DEF Below

-----------------------------------------------------------------------------
(* The dispatcher: the part of a result that is in /tmp is a tree.         *)

\* Operations routed to one mount.
LEMMA RoutedKeepTree ==
    ASSUME NEW S, NEW s, Tree(S, s.tmp), NEW p \in Seq(S), NEW data, NEW offset
    PROVE  /\ Tree(S, VfsCreateFile(s, p).s.tmp)
           /\ Tree(S, VfsWriteFile(s, p, data).s.tmp)
           /\ Tree(S, VfsCreateDirectory(s, p).s.tmp)
           /\ Tree(S, VfsDeleteFile(s, p).s.tmp)
           /\ Tree(S, VfsDeleteDirectory(s, p).s.tmp)
           /\ Tree(S, VfsTouch(s, p).s.tmp)
<1>1. OnTmp(p) => Rel(p) \in Seq(S)
  BY RelIsPath
<1>2. ASSUME NEW may, NEW new, new.tmp = s.tmp PROVE Tree(S, OnFlash(may, s, new).s.tmp)
  BY <1>2 DEF OnFlash
<1>3. \A d : FlashPut(s, p, d).tmp = s.tmp
  BY DEF FlashPut
<1>4. FlashDrop(s, p).tmp = s.tmp
  BY DEF FlashDrop
<1>5. \A r : ToTmp(s, r).s.tmp = r.t
  BY DEF ToTmp
<1>6. Tree(S, VfsCreateFile(s, p).s.tmp)
  BY <1>1, <1>2, <1>3, <1>5, CreateFileKeepsTree DEF VfsCreateFile
<1>7. Tree(S, VfsWriteFile(s, p, data).s.tmp)
  BY <1>1, <1>2, <1>3, <1>5, PutContentKeepsTree, Zenon DEF VfsWriteFile, writeFile
<1>8. Tree(S, VfsCreateDirectory(s, p).s.tmp)
  BY <1>1, <1>5, CreateDirectoryKeepsTree DEF VfsCreateDirectory
<1>9. Tree(S, VfsDeleteFile(s, p).s.tmp)
  BY <1>2, <1>4, <1>5, DeleteFileKeepsTree DEF VfsDeleteFile
<1>10. Tree(S, VfsDeleteDirectory(s, p).s.tmp)
  BY <1>1, <1>5, DeleteDirectoryKeepsTree DEF VfsDeleteDirectory
<1>11. Tree(S, VfsTouch(s, p).s.tmp)
  BY <1>1, <1>5, <1>6, CreateFileKeepsTree, Zenon DEF VfsTouch
<1> QED
  BY <1>6, <1>7, <1>8, <1>9, <1>10, <1>11

\* editFile of any path: it writes only to files that are there.
LEMMA VfsEditKeepsTree ==
    ASSUME NEW S, NEW s, Tree(S, s.tmp), NEW p, NEW offset, NEW data
    PROVE  Tree(S, VfsEditFile(s, p, offset, data).s.tmp)
<1>1. ASSUME NEW may, NEW d PROVE Tree(S, OnFlash(may, s, FlashPut(s, p, d)).s.tmp)
  BY DEF OnFlash, FlashPut
<1>2. Tree(S, ToTmp(s, editFile(s.tmp, Rel(p), offset, data)).s.tmp)
  BY EditFileKeepsTree DEF ToTmp
<1> QED
  BY <1>1, <1>2 DEF VfsEditFile

\* Streaming to /tmp: what was written, and what is left after the removal of
\* what was written until a chunk did not fit, are trees.
LEMMA StreamKeepsTree ==
    ASSUME NEW S, NEW t, Tree(S, t), NEW p \in Seq(S), NEW data
    PROVE  Tree(S, StreamToTmp(t, p, data).t)
<1>1. \A k : Tree(S, Streamed(t, p, data, k).t)
  BY PutContentKeepsTree, Zenon DEF Streamed, writeFile
<1>2. \A k : Tree(S, deleteFile(Streamed(t, p, data, k).t, p).t)
  BY <1>1, DeleteFileKeepsTree
<1>3. Tree(S, deleteFile(t, p).t) /\ Tree(S, createFile(t, p, <<>>).t)
  BY DeleteFileKeepsTree, CreateFileKeepsTree
<1>4. \A u : Refused(u).t = u
  BY DEF Refused
<1> QED
  BY <1>1, <1>2, <1>3, <1>4 DEF StreamToTmp

\* Copies and moves, within a mount and from one to the other.
LEMMA AcrossKeepTree ==
    ASSUME NEW S, NEW s, Tree(S, s.tmp), NEW p \in Seq(S), NEW q \in Seq(S)
    PROVE  /\ Tree(S, crossCopy(s, p, q).s.tmp)
           /\ Tree(S, VfsCopyFile(s, p, q).s.tmp)
           /\ ~Below(q, p) => Tree(S, VfsRename(s, p, q).s.tmp)
<1>1. OnTmp(q) => Rel(q) \in Seq(S)
  BY RelIsPath
<1>2. ASSUME NEW may, NEW new, new.tmp = s.tmp PROVE Tree(S, OnFlash(may, s, new).s.tmp)
  BY <1>2 DEF OnFlash
<1>3. \A r : ToTmp(s, r).s.tmp = r.t
  BY DEF ToTmp
<1>4. /\ \A d : FlashPut(s, q, d).tmp = s.tmp
      /\ \A d : FlashPut(FlashDrop(s, p), q, d).tmp = s.tmp
  BY DEF FlashPut, FlashDrop
<1>5. Tree(S, crossCopy(s, p, q).s.tmp)
  BY <1>1, <1>2, <1>3, <1>4, StreamKeepsTree, Zenon DEF crossCopy
<1>6. Tree(S, VfsCopyFile(s, p, q).s.tmp)
  <2>1. OnTmp(q) => Tree(S, copyFile(s.tmp, Rel(p), Rel(q)).t)
    BY <1>1, CopyFileKeepsTree
  <2> QED
    BY <1>2, <1>3, <1>4, <1>5, <2>1, Zenon DEF VfsCopyFile
<1>7. ASSUME ~Below(q, p) PROVE Tree(S, VfsRename(s, p, q).s.tmp)
  <2>1. ASSUME OnTmp(p), OnTmp(q) PROVE Tree(S, rename(s.tmp, Rel(p), Rel(q)).t)
    <3>1. ~Below(Rel(q), Rel(p))
      BY <1>7, <2>1, BelowRel
    <3> QED
      BY <1>1, <2>1, <3>1, RenameKeepsTree
  <2>2. Tree(S, VfsDeleteFile(crossCopy(s, p, q).s, p).s.tmp)
    BY <1>5, RoutedKeepTree
  <2> QED
    BY <1>2, <1>3, <1>4, <1>5, <2>1, <2>2 DEF VfsRename
<1> QED
  BY <1>5, <1>6, <1>7

-----------------------------------------------------------------------------
(* The requests.                                                           *)

\* An OPEN removes and makes files one after the other.
LEMMA OpenKeepsTree ==
    ASSUME NEW S, NEW s, Tree(S, s.tmp), NEW r, r.path \in Seq(S), NEW v, NEW h
    PROVE  Tree(S, ServeOpen(r, s, v, h).s.tmp)
<1>1. Tree(S, Truncated(s, r.path).tmp)
  BY RoutedKeepTree, SMTT(30) DEF Truncated
<1>2. /\ Tree(S, VfsCreateFile(s, r.path).s.tmp)
      /\ Tree(S, VfsCreateFile(Truncated(s, r.path), r.path).s.tmp)
  BY <1>1, RoutedKeepTree, Zenon
<1>3. /\ \A code, u : Answered(code, u, v).s = u
      /\ \A u, b : Opened(u, v, r.path, h, b).s = u
  BY DEF Answered, Opened
<1> DEFINE file == VfsFileExist(s, r.path)
           made == IF r.mode = "TRUNC"
                   THEN VfsCreateFile(Truncated(s, r.path), r.path)
                   ELSE IF file THEN [ok |-> TRUE, s |-> s]
                   ELSE VfsCreateFile(s, r.path)
<1>4. Tree(S, made.s.tmp)
  <2>1. [ok |-> TRUE, s |-> s].s = s
    OBVIOUS
  <2> QED
    BY <1>2, <2>1, Zenon
<1>5. ServeOpen(r, s, v, h).s = s \/ ServeOpen(r, s, v, h).s = made.s
  <2> DEFINE exists == file \/ VfsDirExist(s, r.path)
  <2>1. ServeOpen(r, s, v, h) =
          CASE r.mode = "READ" /\ exists   -> Opened(s, v, r.path, h, v.bolus)
            [] r.mode = "READ" /\ ~exists  -> Answered("error", s, v)
            [] r.mode = "WRITE"            -> Opened(s, v, r.path, h, v.bolus)
            [] r.mode = "EXCL" /\ exists   -> Answered("error", s, v)
            [] OTHER -> IF made.ok THEN Opened(made.s, v, r.path, h, TRUE)
                        ELSE Answered("error", made.s, v)
    BY DEF ServeOpen
  <2> HIDE DEF made, exists
  <2>2. CASE r.mode = "READ"
    <3>1. \/ ServeOpen(r, s, v, h) = Opened(s, v, r.path, h, v.bolus)
          \/ ServeOpen(r, s, v, h) = Answered("error", s, v)
      BY <2>1, <2>2, Zenon
    <3>2. /\ Opened(s, v, r.path, h, v.bolus).s = s
          /\ Answered("error", s, v).s = s
      BY <1>3
    <3> QED
      BY <3>1, <3>2
  <2>3. CASE r.mode = "WRITE"
    BY <1>3, <2>1, <2>3
  <2>4. CASE r.mode = "EXCL" /\ exists
    BY <1>3, <2>1, <2>4
  <2>5. CASE r.mode \notin {"READ", "WRITE"} /\ ~(r.mode = "EXCL" /\ exists)
    <3>1. \/ ServeOpen(r, s, v, h) = Opened(made.s, v, r.path, h, TRUE)
          \/ ServeOpen(r, s, v, h) = Answered("error", made.s, v)
      BY <2>1, <2>5, Zenon
    <3>2. /\ Opened(made.s, v, r.path, h, TRUE).s = made.s
          /\ Answered("error", made.s, v).s = made.s
      BY <1>3, Zenon
    <3> QED
      BY <3>1, <3>2, Zenon
  <2> QED
    BY <2>2, <2>3, <2>4, <2>5
<1> QED
  BY <1>4, <1>5, Zenon

\* Every request but WRITE, as the client of the model asks it.
LEMMA RequestKeepsTree ==
    ASSUME NEW s, Tree(AllNames, s.tmp), NEW r \in Requests, NEW v, NEW h,
           r.op = "RENAME" => ~Below(r.to, r.path)
    PROVE  Tree(AllNames, ServeRequest(r, s, v, h).s.tmp)
<1> USE SftpAssumption DEF AllNames
<1>1. \A code, u, w : Answered(code, u, w).s = u
  BY DEF Answered
<1>2. \A x, w : OkIf(x, w).s = x.s
  BY DEF OkIf, Answered
<1>3. CASE r.op = "OPEN"
  <2>1. r.path \in Seq(AllNames)
    BY <1>3 DEF Requests
  <2>2. Tree(AllNames, ServeOpen(r, s, v, h).s.tmp)
    BY <2>1, OpenKeepsTree
  <2> QED
    BY <1>3, <2>2 DEF ServeRequest
<1>4. CASE r.op \in {"MKDIR", "REMOVE", "RMDIR", "STAT"}
  <2>1. r.path \in Seq(AllNames)
    BY <1>4 DEF Requests
  <2>2. /\ Tree(AllNames, VfsCreateDirectory(s, r.path).s.tmp)
        /\ Tree(AllNames, VfsDeleteFile(s, r.path).s.tmp)
        /\ Tree(AllNames, VfsDeleteDirectory(s, r.path).s.tmp)
    BY <2>1, RoutedKeepTree, SMTT(30)
  <2>3. Tree(AllNames, ServeMkdir(r, s, v).s.tmp)
    BY <1>1, <1>2, <2>2 DEF ServeMkdir
  <2>4. Tree(AllNames, ServeRemove(r, s, v).s.tmp)
    BY <1>1, <1>2, <2>2 DEF ServeRemove
  <2>5. Tree(AllNames, ServeRmdir(r, s, v).s.tmp)
    BY <1>1, <1>2, <2>2 DEF ServeRmdir
  <2>6. Tree(AllNames, ServeStat(r, s, v).s.tmp)
    BY <1>1, <1>2, <2>2 DEF ServeStat
  <2> QED
    BY <1>4, <2>3, <2>4, <2>5, <2>6 DEF ServeRequest
<1>5. CASE r.op = "RENAME"
  <2>1. r.path \in Seq(AllNames) /\ r.to \in Seq(AllNames)
    BY <1>5 DEF Requests
  <2>2. Tree(AllNames, VfsRename(s, r.path, r.to).s.tmp)
    BY <1>5, <2>1, AcrossKeepTree
  <2>3. Tree(AllNames, ServeRename(r, s, v).s.tmp)
    BY <1>1, <1>2, <2>2 DEF ServeRename
  <2> QED
    BY <1>5, <2>3 DEF ServeRequest
<1>6. CASE r.op \in {"OPENDIR", "READDIR", "READ", "FSETSTAT", "CLOSE"}
  <2>1. /\ ServeOpendir(r, s, v, h).s = s /\ ServeReaddir(r, s, v).s = s
        /\ ServeRead(r, s, v).s = s /\ ServeFsetstat(r, s, v).s = s
        /\ ServeClose(r, s, v).s = s
    BY <1>1 DEF ServeOpendir, ServeReaddir, ServeRead, ServeFsetstat, ServeClose
  <2> QED
    BY <1>6, <2>1 DEF ServeRequest
<1>7. r.op \in {"OPEN", "MKDIR", "REMOVE", "RMDIR", "STAT", "RENAME",
                "OPENDIR", "READDIR", "READ", "FSETSTAT", "CLOSE"}
  BY DEF Requests
<1> QED
  BY <1>3, <1>4, <1>5, <1>6, <1>7

\* A WRITE, whole or in part.
LEMMA WriteKeepsTree ==
    ASSUME NEW S, NEW s, Tree(S, s.tmp), NEW r, NEW v, NEW off, NEW part
    PROVE  Tree(S, ServeWrite(r, s, v, off, part).s.tmp)
<1>1. Tree(S, VfsEditFile(s, v.filepath, off, part).s.tmp)
  BY VfsEditKeepsTree
<1> QED
  BY <1>1 DEF ServeWrite, OkIf, Answered

-----------------------------------------------------------------------------
(* The theorem.                                                            *)

\* A command of the other session leaves a tree when its result is one.
LEMMA CommandKeepsTree ==
    ASSUME NEW S, NEW r, Tree(S, r.s.tmp), Command(r)
    PROVE  Tree(S, store'.tmp)
BY DEF Command

\* No node of /tmp ever loses the directories above it, for every set of
\* names, paths, limits and data, when rename is not asked to move a directory
\* below itself: what createFile, createDirectory, rename, deleteDirectory and
\* the copies between the mounts check is enough, whatever the order in which
\* the sftp handler and the shell of another session call them.
THEOREM TreeKept ==
    ASSUME SelfMoves = FALSE
    PROVE  Spec => []AncestorsExist
<1> DEFINE Inv == Tree(AllNames, store.tmp)
<1>1. Init => Inv
  BY DEF Init, Tree
<1>2. Inv /\ [Next]_vars => Inv'
  <2> SUFFICES ASSUME Inv, [Next]_vars PROVE Inv'
    OBVIOUS
  <2>1. ASSUME NEW r \in Requests, Request(r) PROVE Inv'
    <3>1. r.op = "RENAME" => ~Below(r.to, r.path)
      BY <2>1 DEF Request, Asks
    <3>2. store' = Outcome(r).s
      BY <2>1 DEF Request
    <3>3. Tree(AllNames, Outcome(r).s.tmp)
      BY <3>1, RequestKeepsTree DEF Outcome
    <3> QED
      BY <3>2, <3>3, Zenon
  <2>2. CASE ServeWhole
    <3>1. store' = ServeWrite(Now.req, store, sftp, Now.req.off, Now.req.data).s
      BY <2>2 DEF ServeWhole
    <3> QED
      BY <3>1, WriteKeepsTree
  <2>3. ASSUME NEW n, ServeChunk(n) PROVE Inv'
    <3>1. PICK off, part : store' = ServeWrite(Now.req, store, sftp, off, part).s
      BY <2>3 DEF ServeChunk
    <3> QED
      BY <3>1, WriteKeepsTree
  <2>4. CASE ServeCut
    BY <2>4 DEF ServeCut, SessionEnds
  <2>5. CASE Leave
    BY <2>5 DEF Leave, SessionEnds
  <2>6. ASSUME NEW data, NEW joined, NEW cut, AskWrite(data, joined, cut) PROVE Inv'
    BY <2>6 DEF AskWrite
  <2>7. ASSUME NEW p \in Places, mkdir(p) \/ rm(p) \/ touchfile(p) PROVE Inv'
    <3>0. p \in Seq(AllNames)
      BY SftpAssumption DEF AllNames
    <3>1. /\ Tree(AllNames, VfsCreateDirectory(store, p).s.tmp)
          /\ Tree(AllNames, VfsDeleteFile(store, p).s.tmp)
          /\ Tree(AllNames, VfsDeleteDirectory(store, p).s.tmp)
          /\ Tree(AllNames, VfsTouch(store, p).s.tmp)
      BY <3>0, RoutedKeepTree
    <3> QED
      BY <2>7, <3>1, CommandKeepsTree DEF mkdir, rm, touchfile
  <2>8. ASSUME NEW p \in Places, NEW q \in Places, mv(p, q) \/ cp(p, q) PROVE Inv'
    <3>0. p \in Seq(AllNames) /\ q \in Seq(AllNames)
      BY SftpAssumption DEF AllNames
    <3>1. /\ Tree(AllNames, VfsCopyFile(store, p, q).s.tmp)
          /\ ~Below(q, p) => Tree(AllNames, VfsRename(store, p, q).s.tmp)
      BY <3>0, AcrossKeepTree
    <3> QED
      BY <2>8, <3>1, CommandKeepsTree DEF mv, cp
  <2>9. ASSUME NEW p \in Places, NEW data, echo(p, data) PROVE Inv'
    <3>0. p \in Seq(AllNames)
      BY SftpAssumption DEF AllNames
    <3>1. Tree(AllNames, VfsWriteFile(store, p, data).s.tmp)
      BY <3>0, RoutedKeepTree
    <3> QED
      BY <2>9, <3>1, CommandKeepsTree DEF echo
  <2>10. CASE UNCHANGED vars
    BY <2>10 DEF vars
  <2> QED
    BY <2>1, <2>2, <2>3, <2>4, <2>5, <2>6, <2>7, <2>8, <2>9, <2>10 DEF Next, Serve
<1>3. Inv => AncestorsExist
  BY DEF Tree, AncestorsExist
<1> QED
  BY <1>1, <1>2, <1>3, PTL DEF Spec

=============================================================================
