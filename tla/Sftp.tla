-------------------------------- MODULE Sftp ---------------------------------
(***************************************************************************)
(* The sftp subsystem of the SSH server: handleChannelSubsystemSftpRequest *)
(* and handleChannelSftpBolusChunks (SSHServiceprovider.cpp), with the     *)
(* reading of channel data in chunks (SSHServiceUtil.cpp), over the file   *)
(* systems behind VfsDispatcher.  A second session gives shell commands on *)
(* the same files between two calls of the server.                         *)
(*                                                                         *)
(* The client sends WRITE requests ahead of their answers, as sftp clients *)
(* do; a packet of the channel may carry several of them, and one of them  *)
(* may be cut over two packets.  Every other request is asked when all     *)
(* before it are answered: nothing depends on when it was sent, and asking *)
(* and serving it is one step.                                             *)
(***************************************************************************)
EXTENDS Vfs

CONSTANTS Handles,    \* the values of genUniqueKey
          Ids,        \* ids of WRITE requests: as many are sent ahead
          Targets,    \* the absolute paths the client uses
          Files,      \* those of them it opens with OPEN
          Dirs,       \* those of them it opens with OPENDIR
          Places,     \* the absolute paths the other session uses
          Data,       \* what a WRITE carries
          MaxChunk,   \* bytes read at once: 512, or what has arrived
          BatchMax,   \* entries in an answer to READDIR
          MaxPos,     \* bound: where the client stops an upload
          SelfMoves,  \* whether directories are moved below themselves
          NoHandle

ASSUME SftpAssumption ==
    /\ NoHandle \notin Handles
    /\ MaxChunk \in Nat \ {0} /\ BatchMax \in Nat \ {0} /\ MaxPos \in Nat
    /\ Targets \cup Files \cup Dirs \cup Places \subseteq Seq(Names \cup {TmpName})
    /\ Data \subseteq Seq(Nat) \ {<<>>}
    /\ SelfMoves \in BOOLEAN

VARIABLES
    store,     \* the two file systems
    sftp,      \* Sftp of the channel, and its bolus callback
    rx,        \* packets with WRITE requests: sequences of their pieces
    reading,   \* the server is inside the first packet
    asked,     \* ids of the WRITE requests without an answer
    client,    \* handles the client holds, the one it writes to, and where
    upload,    \* what the client may expect of the file it writes
    listing    \* what the client was told of the directory it lists

vars == <<store, sftp, rx, reading, asked, client, upload, listing>>

-----------------------------------------------------------------------------
(* Requests.                                                               *)

Modes == {"READ", "EXCL", "TRUNC", "CREAT", "WRITE"}

Requests ==
    [op : {"OPEN"}, path : Files, mode : Modes]
    \cup [op : {"OPENDIR"}, path : Dirs]
    \cup [op : {"MKDIR", "REMOVE", "RMDIR", "STAT"}, path : Targets]
    \cup [op : {"RENAME"}, path : Targets, to : Targets]
    \cup [op : {"READDIR", "READ", "FSETSTAT", "CLOSE"}, handle : Handles]

\* A piece of a WRITE: the bytes from+1 .. to of what it carries.
Piece(id, req, from, to) == [id |-> id, req |-> req, from |-> from, to |-> to]

Whole(piece) == piece.from = 0 /\ piece.to = Len(piece.req.data)

NoSftp ==
    [filepath |-> <<>>, handle |-> NoHandle, is_dir |-> FALSE,
     readdir_offset |-> 0, dir_entries |-> <<>>,
     fxp_write_totalrecvd |-> 0, bolus |-> FALSE]

NoClient == [open |-> {}, file |-> NoHandle, pos |-> 0]

NoUpload == [handle |-> NoHandle, path |-> <<>>, want |-> <<>>]

NoListing == [handle |-> NoHandle, names |-> {}, got |-> <<>>, ended |-> FALSE]

Init ==
    /\ store = [tmp |-> <<>>, flash |-> <<>>]
    /\ sftp = NoSftp /\ rx = <<>> /\ reading = FALSE /\ asked = <<>>
    /\ client = NoClient /\ upload = NoUpload /\ listing = NoListing

-----------------------------------------------------------------------------
(* handleChannelSubsystemSftpRequest: what each request returns, the store *)
(* it leaves and the state of the channel.                                 *)

Answered(code, s, v) == [code |-> code, s |-> s, v |-> v]

OkIf(r, v) == Answered(IF r.ok THEN "ok" ELSE "error", r.s, v)

\* (The entries left by a directory are not read again: they are forgotten
\* here, and so is the path of a file that is closed.)
Opened(s, v, path, h, bolus) ==
    Answered("ok", s, [v EXCEPT !.filepath = path, !.handle = h,
                                !.is_dir = FALSE, !.bolus = bolus,
                                !.readdir_offset = 0, !.dir_entries = <<>>])

\* TRUNC removes what is there, a directory included, and makes it anew.
Truncated(s, path) ==
    IF VfsFileExist(s, path) THEN VfsDeleteFile(s, path).s
    ELSE IF VfsDirExist(s, path) THEN VfsDeleteDirectory(s, path).s
    ELSE s

ServeOpen(r, s, v, h) ==
    LET file   == VfsFileExist(s, r.path)
        exists == file \/ VfsDirExist(s, r.path)
        made   == IF r.mode = "TRUNC"
                  THEN VfsCreateFile(Truncated(s, r.path), r.path)
                  ELSE IF file THEN [ok |-> TRUE, s |-> s]
                  ELSE VfsCreateFile(s, r.path)
    IN  CASE r.mode = "READ" /\ exists   -> Opened(s, v, r.path, h, v.bolus)
          [] r.mode = "READ" /\ ~exists  -> Answered("error", s, v)
          [] r.mode = "WRITE"            -> Opened(s, v, r.path, h, v.bolus)
          [] r.mode = "EXCL" /\ exists   -> Answered("error", s, v)
          [] OTHER -> IF made.ok THEN Opened(made.s, v, r.path, h, TRUE)
                      ELSE Answered("error", made.s, v)

\* The entries of a directory, in the order the file system has them.
InListOrder(E) == CHOOSE q \in [1 .. Cardinality(E) -> E] : IsInjective(q)

ServeOpendir(r, s, v, h) ==
    IF VfsDirExist(s, r.path)
    THEN Answered("ok", s, [v EXCEPT !.filepath = r.path, !.handle = h, !.is_dir = TRUE,
                                     !.readdir_offset = 0,
                                     !.dir_entries = InListOrder(VfsList(s, r.path))])
    ELSE Answered("error", s, v)

\* Mutant: the end is reported one entry early.
ServeReaddirShort(r, s, v) ==
    LET left == Len(v.dir_entries) - v.readdir_offset
    IN  IF v.handle # r.handle \/ ~v.is_dir THEN Answered("error", s, v)
        ELSE IF left <= 1 THEN Answered("eof", s, v)
        ELSE Answered("ok", s, [v EXCEPT !.readdir_offset = @ + BatchMax])

ServeReaddir(r, s, v) ==
    LET left == Len(v.dir_entries) - v.readdir_offset
    IN  IF v.handle # r.handle \/ ~v.is_dir THEN Answered("error", s, v)
        ELSE IF left <= 0 THEN Answered("eof", s, v)
        ELSE Answered("ok", s, [v EXCEPT !.readdir_offset =
                                            @ + IF left > BatchMax THEN BatchMax ELSE left])

ServeMkdir(r, s, v) ==
    IF VfsDirExist(s, r.path) \/ VfsFileExist(s, r.path)
    THEN Answered("error", s, v)
    ELSE OkIf(VfsCreateDirectory(s, r.path), v)

ServeRename(r, s, v) ==
    IF \/ ~(VfsFileExist(s, r.path) \/ VfsDirExist(s, r.path))
       \/ VfsFileExist(s, r.to) \/ VfsDirExist(s, r.to)
    THEN Answered("error", s, v)
    ELSE OkIf(VfsRename(s, r.path, r.to), v)

ServeRemove(r, s, v) ==
    IF VfsFileExist(s, r.path) THEN OkIf(VfsDeleteFile(s, r.path), v)
    ELSE Answered("error", s, v)

ServeRmdir(r, s, v) ==
    IF VfsDirExist(s, r.path) THEN OkIf(VfsDeleteDirectory(s, r.path), v)
    ELSE Answered("error", s, v)

\* STAT, LSTAT and SETSTAT only look whether the path exists.
ServeStat(r, s, v) ==
    Answered(IF VfsFileExist(s, r.path) \/ VfsDirExist(s, r.path)
             THEN "ok" ELSE "error", s, v)

\* The first chunk of the file, or EOF.
ServeRead(r, s, v) ==
    IF v.handle # r.handle \/ ~VfsFileExist(s, v.filepath)
    THEN Answered("error", s, v)
    ELSE Answered(IF VfsContent(s, v.filepath) = <<>> THEN "eof" ELSE "ok", s, v)

\* Mutant: every chunk is written at the offset of the request.
ServeWriteAtStart(r, s, v, off, part) ==
    IF v.handle = r.handle
    THEN OkIf(VfsEditFile(s, v.filepath, r.off, part), v)
    ELSE Answered("error", s, v)

\* part of what a WRITE carries, written at off.
ServeWrite(r, s, v, off, part) ==
    IF v.handle = r.handle
    THEN OkIf(VfsEditFile(s, v.filepath, off, part), v)
    ELSE Answered("error", s, v)

ServeFsetstat(r, s, v) ==
    IF v.handle = r.handle THEN Answered("ok", s, [v EXCEPT !.bolus = FALSE])
    ELSE Answered("error", s, v)

ServeClose(r, s, v) ==
    IF v.handle = r.handle
    THEN Answered("ok", s, [v EXCEPT !.bolus = FALSE, !.is_dir = FALSE,
                                     !.readdir_offset = 0, !.dir_entries = <<>>,
                                     !.handle = NoHandle, !.filepath = <<>>])
    ELSE Answered("error", s, v)

ServeRequest(r, s, v, h) ==
    CASE r.op = "OPEN"     -> ServeOpen(r, s, v, h)
      [] r.op = "OPENDIR"  -> ServeOpendir(r, s, v, h)
      [] r.op = "READDIR"  -> ServeReaddir(r, s, v)
      [] r.op = "MKDIR"    -> ServeMkdir(r, s, v)
      [] r.op = "RENAME"   -> ServeRename(r, s, v)
      [] r.op = "REMOVE"   -> ServeRemove(r, s, v)
      [] r.op = "RMDIR"    -> ServeRmdir(r, s, v)
      [] r.op = "STAT"     -> ServeStat(r, s, v)
      [] r.op = "READ"     -> ServeRead(r, s, v)
      [] r.op = "FSETSTAT" -> ServeFsetstat(r, s, v)
      [] r.op = "CLOSE"    -> ServeClose(r, s, v)

-----------------------------------------------------------------------------
(* What the client makes of an answer.                                     *)

FileOf(s, p) == IF VfsFileExist(s, p) THEN <<VfsContent(s, p)>> ELSE <<>>

\* Whether the file the client writes is its own from s to t: nobody else
\* changed it, nor made room while a WRITE was received in part.
Undisturbed(s, t) ==
    /\ FileOf(s, upload.path) = FileOf(t, upload.path)
    /\ sftp.fxp_write_totalrecvd = 0 \/ usedBytes(t.tmp) >= usedBytes(s.tmp)

ClientHears(r, x) ==
    CASE r.op = "OPEN" /\ x.code = "ok" ->
             [open |-> client.open \cup {x.v.handle},
              file |-> IF r.mode = "READ" THEN client.file ELSE x.v.handle,
              pos  |-> 0]
      [] r.op = "OPENDIR" /\ x.code = "ok" ->
             [client EXCEPT !.open = @ \cup {x.v.handle}, !.pos = 0]
      [] r.op = "CLOSE" /\ r.handle = client.file ->
             [open |-> client.open \ {r.handle}, file |-> NoHandle, pos |-> 0]
      [] r.op = "CLOSE" /\ r.handle # client.file ->
             [client EXCEPT !.open = @ \ {r.handle}]
      [] OTHER -> client

UploadHears(r, x) ==
    CASE r.op \in {"OPEN", "OPENDIR", "CLOSE"} /\ x.v.handle # sftp.handle ->
             IF r.op = "OPEN" /\ r.mode # "READ" /\ OnTmp(r.path)
                    /\ VfsFileExist(x.s, r.path)
             THEN [handle |-> x.v.handle, path |-> r.path,
                   want |-> VfsContent(x.s, r.path)]
             ELSE NoUpload
      [] r.op = "WRITE" ->
             IF r.handle = upload.handle /\ x.code = "ok"
             THEN [upload EXCEPT !.want = Spliced(@, r.off, r.data)]
             ELSE NoUpload
      [] OTHER -> IF Undisturbed(store, x.s) THEN upload ELSE NoUpload

ListingHears(r, x) ==
    CASE r.op \in {"OPEN", "OPENDIR", "CLOSE"} /\ x.v.handle # sftp.handle ->
             IF r.op = "OPENDIR"
             THEN [handle |-> x.v.handle, names |-> VfsList(store, r.path),
                   got |-> <<>>, ended |-> FALSE]
             ELSE NoListing
      [] r.op = "READDIR" /\ r.handle = listing.handle ->
             [listing EXCEPT !.got = @ \o SubSeq(sftp.dir_entries,
                                                 sftp.readdir_offset + 1,
                                                 x.v.readdir_offset),
                             !.ended = @ \/ x.code = "eof"]
      [] OTHER -> listing

Hear(r, x) ==
    /\ client' = ClientHears(r, x)
    /\ upload' = UploadHears(r, x)
    /\ listing' = ListingHears(r, x)

-----------------------------------------------------------------------------
(* Requests other than WRITE.                                              *)

\* A key genUniqueKey has not given to a handle still in use.
NewHandle == CHOOSE h \in Handles : h \notin client.open \cup {sftp.handle}

Asks(r) ==
    /\ asked = <<>>
    /\ r.op \in {"READDIR", "READ", "FSETSTAT", "CLOSE"} => r.handle \in client.open
    /\ r.op \in {"OPEN", "OPENDIR"} => Cardinality(client.open) < Cardinality(Handles) - 1
    /\ r.op = "RENAME" => SelfMoves \/ ~Below(r.to, r.path)

Outcome(r) ==
    ServeRequest(r, store, [sftp EXCEPT !.bolus = FALSE], NewHandle)

\* When the callback for chunks is set it is dropped first, and the one the
\* request may have set is dropped after it.
Request(r) ==
    /\ Asks(r)
    /\ LET x == Outcome(r)
       IN  /\ store' = x.s
           /\ sftp' = IF sftp.bolus THEN [x.v EXCEPT !.bolus = FALSE] ELSE x.v
           /\ Hear(r, x)
    /\ UNCHANGED <<rx, reading, asked>>

-----------------------------------------------------------------------------
(* The server reads the first packet.                                      *)

Now == Head(Head(rx))

\* k bytes of the piece are consumed.
Consume(k) ==
    LET piece  == [Now EXCEPT !.from = @ + k]
        packet == IF piece.from = piece.to THEN Tail(Head(rx))
                  ELSE <<piece>> \o Tail(Head(rx))
    IN  /\ rx' = IF packet = <<>> THEN Tail(rx) ELSE <<packet>> \o Tail(rx)
        /\ reading' = (packet # <<>>)

\* Without the callback: handleChannelSubsystemRequest, request by request.
ServeWhole ==
    /\ rx # <<>> /\ ~sftp.bolus /\ Whole(Now)
    /\ LET x == ServeWrite(Now.req, store, sftp, Now.req.off, Now.req.data)
       IN  /\ store' = x.s /\ sftp' = x.v
           /\ Hear(Now.req, x)
    /\ asked' = SelectSeq(asked, LAMBDA i : i # Now.id)
    /\ Consume(Len(Now.req.data))

\* Mutant: every chunk is answered.
ServeChunkAnswersEach(n) ==
    /\ rx # <<>> /\ sftp.bolus
    /\ n <= Now.to - Now.from
    /\ LET r     == Now.req
           total == sftp.fxp_write_totalrecvd
           x     == ServeWrite(r, store, sftp, r.off + total,
                               SubSeq(r.data, Now.from + 1, Now.from + n))
       IN  /\ store' = x.s
           /\ sftp' = [x.v EXCEPT !.fxp_write_totalrecvd =
                                    IF total + n = Len(r.data) THEN 0 ELSE total + n]
           /\ Hear(r, x)
    /\ asked' = SelectSeq(asked, LAMBDA i : i # Now.id)
    /\ Consume(n)

\* With the callback: the next n bytes are written behind those received
\* before, and only the last of them are answered.
ServeChunk(n) ==
    /\ rx # <<>> /\ sftp.bolus
    /\ n <= Now.to - Now.from
    /\ LET r     == Now.req
           total == sftp.fxp_write_totalrecvd
           last  == total + n = Len(r.data)
           x     == ServeWrite(r, store, sftp, r.off + total,
                               SubSeq(r.data, Now.from + 1, Now.from + n))
       IN  /\ store' = x.s
           /\ sftp' = [x.v EXCEPT !.fxp_write_totalrecvd = IF last THEN 0 ELSE total + n]
           /\ IF last
              THEN Hear(r, x) /\ asked' = SelectSeq(asked, LAMBDA i : i # Now.id)
              ELSE UNCHANGED <<asked, client, upload, listing>>
    /\ Consume(n)

SessionEnds ==
    /\ sftp' = NoSftp /\ rx' = <<>> /\ reading' = FALSE /\ asked' = <<>>
    /\ client' = NoClient /\ upload' = NoUpload /\ listing' = NoListing
    /\ UNCHANGED store

\* Mutant: the server waits for the rest of a cut request.
ServeCutWaits ==
    /\ rx # <<>> /\ ~sftp.bolus /\ ~Whole(Now)
    /\ UNCHANGED vars

\* Without the callback, a request cut by its packet closes the session.
ServeCut ==
    /\ rx # <<>> /\ ~sftp.bolus /\ ~Whole(Now)
    /\ SessionEnds

\* The client leaves, or the rest of a packet does not come for 3 s: what
\* comes after that is read as a new packet, which ends the session.
Leave ==
    /\ asked # <<>> \/ sftp # NoSftp
    /\ SessionEnds

Serve ==
    \/ ServeWhole
    \/ \E n \in 1 .. MaxChunk : ServeChunk(n)
    \/ ServeCut

-----------------------------------------------------------------------------
(* The client writes on.                                                   *)

\* A new packet, or more of the last one when the server has not begun it.
Sent(packets, piece, joined) ==
    IF joined
    THEN [packets EXCEPT ![Len(packets)] = Append(@, piece)]
    ELSE Append(packets, <<piece>>)

\* A WRITE behind the last; with cut = Len(data) it is in one piece.  The
\* client sends ahead only on the handle it opened last.
AskWrite(data, joined, cut) ==
    LET id == CHOOSE i \in Ids : i \notin Range(asked)
        r == [op |-> "WRITE", handle |-> client.file, off |-> client.pos, data |-> data]
        own == client.file = sftp.handle
        sent == Sent(rx, Piece(id, r, 0, cut), joined)
    IN  /\ client.file # NoHandle /\ client.pos + Len(data) <= MaxPos
        /\ Len(asked) < Cardinality(Ids)
        /\ joined => rx # <<>> /\ (Len(rx) > 1 \/ ~reading)
        /\ own \/ (asked = <<>> /\ cut = Len(data))
        /\ asked' = Append(asked, id)
        /\ rx' = IF cut = Len(data) THEN sent
                 ELSE Sent(sent, Piece(id, r, cut, Len(data)), FALSE)
        /\ client' = [client EXCEPT !.pos = IF own THEN @ + Len(data) ELSE @]
        /\ UNCHANGED <<store, sftp, reading, upload, listing>>

-----------------------------------------------------------------------------
(* Commands of another session, between two packets of this one.           *)

Command(r) ==
    /\ ~reading
    /\ r.s # store
    /\ store' = r.s
    /\ upload' = IF Undisturbed(store, r.s) THEN upload ELSE NoUpload
    /\ UNCHANGED <<sftp, rx, reading, asked, client, listing>>

mkdir(p) == Command(VfsCreateDirectory(store, p))

touchfile(p) == Command(VfsTouch(store, p))

rm(p) ==
    Command(IF VfsDirExist(store, p) THEN VfsDeleteDirectory(store, p)
            ELSE VfsDeleteFile(store, p))

mv(p, q) ==
    /\ SelfMoves \/ ~Below(q, p)
    /\ Command(VfsRename(store, p, q))

cp(p, q) ==
    /\ p # q /\ VfsFileExist(store, p) /\ ~VfsFileExist(store, q)
    /\ Command(VfsCopyFile(store, p, q))

echo(p, data) == Command(VfsWriteFile(store, p, data))

-----------------------------------------------------------------------------
Next ==
    \/ Serve
    \/ Leave
    \/ \E r \in Requests : Request(r)
    \/ \E data \in Data, joined \in BOOLEAN :
          \E cut \in 1 .. Len(data) : AskWrite(data, joined, cut)
    \/ \E p \in Places : mkdir(p) \/ rm(p) \/ touchfile(p)
    \/ \E p, q \in Places : mv(p, q) \/ cp(p, q)
    \/ \E p \in Places, data \in Data : echo(p, data)

Spec == Init /\ [][Next]_vars

\* The scheduler runs the server's handle() again and again.
FairSpec == Spec /\ WF_vars(Serve)

-----------------------------------------------------------------------------
(* Properties.                                                             *)

\* Whatever requests and commands are mixed, a node of /tmp never loses the
\* directories above it: nothing becomes unreachable, where only full paths
\* are stored and rename and deleteDirectory have to find the descendants.
AncestorsExist ==
    \A p \in DOMAIN store.tmp : \A n \in 1 .. Len(p) - 1 :
        isDirExist(store.tmp, SubSeq(p, 1, n))

\* The budgets of /tmp hold after every operation, chunks of an upload that
\* is refused half way included.
WithinBudget ==
    /\ Cardinality(DOMAIN store.tmp) <= MaxNodes
    /\ usedBytes(store.tmp) <= MaxBytes

\* While the handle is the client's and nobody else touches the file, every
\* WRITE answered with SSH_FX_OK is in the file, whole and at its offset.
UploadIntact ==
    (upload.handle # NoHandle /\ sftp.fxp_write_totalrecvd = 0)
        => FileOf(store, upload.path) = <<upload.want>>

\* READDIR gives every entry the directory had at OPENDIR exactly once by the
\* time it answers EOF, whatever was done to the directory meanwhile.
ListingExact ==
    /\ IsInjective(listing.got)
    /\ Range(listing.got) \subseteq listing.names
    /\ listing.ended => Range(listing.got) = listing.names

\* Whichever request is served next, when it is answered with an error it
\* leaves the files alone, the ones it creates, truncates or streams to the
\* other mount included.  (Not so for an OPEN of a file on the flash, and of
\* a file that the move of a directory put beyond TMPFS_MAX_PATH: TRUNC
\* removes it and then cannot make it again.)
FailedLeavesStore ==
    \A r \in Requests :
        LET x == Outcome(r)
        IN  Asks(r) /\ x.code = "error" =>
                \/ x.s = store
                \/ r.op = "OPEN" /\ ~(OnTmp(r.path) /\ Len(Rel(r.path)) <= MaxPath)

\* What the two file systems hold, by absolute path.
Entries(s) ==
    {<<<<TmpName>> \o p, s.tmp[p]>> : p \in DOMAIN s.tmp}
    \cup {<<p, File(s.flash[p])>> : p \in DOMAIN s.flash}

\* Whichever RENAME is served next, when it is answered with SSH_FX_OK it
\* moves the file, or the directory with all below it, with its content, and
\* nothing else, within a mount and from one mount to the other.
RenameMovesAll ==
    \A r \in {q \in Requests : q.op = "RENAME"} :
        LET x     == Outcome(r)
            to(p) == IF p = r.path \/ Below(p, r.path)
                     THEN r.to \o SubSeq(p, Len(r.path) + 1, Len(p)) ELSE p
        IN  Asks(r) /\ x.code = "ok" =>
                Entries(x.s) = {<<to(e[1]), e[2]>> : e \in Entries(store)}

\* Every WRITE is answered, or its session ends: no mix of joined, cut and
\* chunked requests leaves the client waiting.
WritesAnswered ==
    \A id \in Ids : id \in Range(asked) ~> id \notin Range(asked)

=============================================================================
