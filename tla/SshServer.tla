------------------------------ MODULE SshServer ------------------------------
(***************************************************************************)
(* The SSH server of the shell service (SSHServiceprovider.cpp with the    *)
(* packet readers of SSHServiceUtil.cpp) over the lwIP listener of the     *)
(* device port (TcpServerInterface.cpp).                                   *)
(*                                                                         *)
(* One session at a time.  handle() is run every millisecond by the task   *)
(* scheduler, AND by the accept callback of the listener: lwIP calls it    *)
(* whenever it runs, that is between two handle() calls or at a yield in   *)
(* the middle of one.  The scheduled call is therefore split at its        *)
(* yields (pc); the call made by the callback runs to its end, because a   *)
(* yield in the lwIP context returns at once.                              *)
(*                                                                         *)
(* `w' holds what both of them change.  Clients follow the protocol, one   *)
(* message kind after the other, may leave at any time, and TCP may cut a  *)
(* message anywhere.                                                       *)
(***************************************************************************)
EXTENDS Integers, Sequences

CONSTANTS Conns,            \* TCP connections; a closed one may be made again
          None,             \* no connection
          MaxRx,            \* messages a client sends ahead of the server
          HandshakeWindow,  \* m_session_timeout of a new session, in ticks
          SftpWindow,       \* m_session_timeout of an sftp session, in ticks
          MaxNested         \* calls of the callback while closeSession waits
                            \* (5 ms); one in the momentary yields

ASSUME WindowsAssumption ==
    /\ None \notin Conns
    /\ MaxRx \in Nat \ {0} /\ MaxNested \in Nat
    /\ HandshakeWindow \in Nat /\ SftpWindow \in Nat
    /\ HandshakeWindow < SftpWindow

VARIABLES
    w,       \* clients, listener, sockets, session, terminal, timers: Worlds
    pc,      \* where the scheduled handle() stands: "idle" between two calls
    cur,     \* the message that call works on, and the session state it saw
    up       \* FALSE after the exception a use of a freed session raises

vars == <<w, pc, cur, up>>

-----------------------------------------------------------------------------
(* Messages and clients.                                                   *)

\* What a client may send after what it has sent (a client keeps to the
\* order of the protocol; passwords may be wrong, "exit" is the logout line).
Follow ==
    [start   |-> {"version"},      version |-> {"kexinit"},
     kexinit |-> {"kexdh"},        kexdh   |-> {"newkeys"},
     newkeys |-> {"service"},      service |-> {"badauth", "auth"},
     badauth |-> {"badauth", "auth"}, auth |-> {"open"},
     open    |-> {"pty", "shell", "sftp"}, pty |-> {"shell"},
     shell   |-> {"data", "exit", "eof", "close"},
     data    |-> {"data", "exit", "eof", "close"},
     sftp    |-> {"request", "eof", "close"},
     request |-> {"request", "eof", "close"},
     exit    |-> {}, eof |-> {"close"}, close |-> {}]

Stages == DOMAIN Follow

\* "junk" is the rest of a version line that was taken for complete.
Kinds == (Stages \ {"start"}) \cup {"junk"}

\* The messages a client waits to be answered before it goes on.
Awaited == {"kexinit", "kexdh", "newkeys", "service", "badauth", "auth",
            "open", "shell", "sftp"}

LoggedIn == {"auth", "open", "pty", "shell", "data", "sftp", "request",
             "exit", "eof", "close"}

RecvStates == {"KEX_INIT_RECV", "KEXDH_INIT_RECV", "NEWKEYS_RECEIVED",
               "AUTHENTICATION_REQUEST", "CHANNEL_REQUEST"}
SendStates == {"KEX_INIT_SEND", "KEXDH_INIT_SEND"}
EndStates == {"SESSION_TIMEOUT", "SESSION_CLOSE"}
SessionStates == {"VEX_RECV"} \cup RecvStates \cup SendStates \cup EndStates

\* How much of the last message has arrived: too little for the reader to
\* start (fewer than 5, or 24, bytes), enough to start, all.
Parts == {"crumb", "head", "whole"}

Sessions == [conn : Conns \cup {None}, state : SessionStates,
             ischannelreqsuccess : {-1, 2},
             req : {"none", "pty", "shell", "sftp"},
             kexSent : BOOLEAN, age : 0 .. SftpWindow + 1,
             window : {HandshakeWindow, SftpWindow}]

\* m_session == nullptr.
NoSession == [conn |-> None, state |-> "SESSION_CLOSE",
              ischannelreqsuccess |-> -1, req |-> "none", kexSent |-> FALSE,
              age |-> 0, window |-> HandshakeWindow]

Worlds ==
    [pending  : Conns \cup {None},   \* m_clientPcb of the listener
     tcp      : [Conns -> {"closed", "pending", "open", "down"}],
     sent     : [Conns -> Stages],   \* the last message the client has sent
     rx       : [Conns -> Seq(Kinds)],
     part     : [Conns -> Parts],    \* of the last message of rx
     reply    : [Conns -> {"none", "yes", "no"}],
     session  : Sessions,            \* m_session
     attached : Conns \cup {None},   \* the connection whose terminal session
                                     \* is in the session table
     timer    : SUBSET Conns,        \* deferred closes armed by an EOF
     closes   : [Conns -> Nat]]      \* CHANNEL_CLOSE messages sent

Works == [conn : Conns \cup {None}, state : SessionStates,
          msg : Kinds \cup {"none"}, stolen : BOOLEAN, freed : BOOLEAN, calls : Nat]

NoWork == [conn |-> None, state |-> "SESSION_CLOSE", msg |-> "none",
           stolen |-> FALSE, freed |-> FALSE, calls |-> 0]

-----------------------------------------------------------------------------
(* Pieces of handle().  They map a world to a world, or to the set of      *)
(* worlds a reply that may fail leads to.                                  *)

Connected(W) == W.session.conn # None /\ W.tcp[W.session.conn] = "open"

SetState(W, state) == [W EXCEPT !.session.state = state]

\* Mutant: the pending connection replaces the session there is.
AcceptOverSession(W) ==
    IF W.pending # None
    THEN [W EXCEPT !.session = [NoSession EXCEPT !.conn = W.pending,
                                                 !.state = "VEX_RECV"],
                   !.tcp[W.pending] = "open", !.pending = None]
    ELSE W

\* The listener hands over the pending connection; handle() goes on through
\* WAITING_FOR_CLIENT and VEX_SEND to VEX_RECV in the same call.
AcceptPending(W) ==
    IF W.session.conn = None /\ W.pending # None
    THEN [W EXCEPT !.session = [NoSession EXCEPT !.conn = W.pending,
                                                 !.state = "VEX_RECV"],
                   !.tcp[W.pending] = "open", !.pending = None]
    ELSE W

\* Mutant: every call counts as activity.
IdleReapNever(W) ==
    IF W.session.req = "sftp" /\ W.session.state = "CHANNEL_REQUEST"
    THEN [W EXCEPT !.session.age = 0, !.session.window = SftpWindow]
    ELSE W

\* Idle reaping of sftp sessions.
IdleReap(W) ==
    LET s == W.session
    IN  IF s.req = "sftp" /\ s.state = "CHANNEL_REQUEST"
        THEN IF W.rx[s.conn] # <<>>
             THEN [W EXCEPT !.session.age = 0, !.session.window = SftpWindow]
             ELSE [W EXCEPT !.session.window = SftpWindow,
                            !.session.state = IF s.age > SftpWindow
                                              THEN "SESSION_TIMEOUT" ELSE @]
        ELSE W

HandleEntry(W) ==
    LET W1 == AcceptPending(W)
    IN  IF Connected(W1) THEN IdleReap(W1) ELSE W1

\* Mutant: the terminal session is not detached.
DetachNothing(W) == W

\* closeSession() before its yields: the terminal session is detached.
Detach(W) ==
    IF W.attached = W.session.conn THEN [W EXCEPT !.attached = None] ELSE W

\* closeSession() after its yields: whatever m_session is by then is deleted.
DeleteSession(W) ==
    IF W.session.conn = None THEN W
    ELSE [W EXCEPT !.session = NoSession,
                   !.tcp[W.session.conn] = "closed",
                   !.sent[W.session.conn] = "start",
                   !.reply[W.session.conn] = "none",
                   !.closes[W.session.conn] = 0,
                   !.rx[W.session.conn] = <<>>,
                   !.part[W.session.conn] = "whole"]

\* Mutant: the loss of the client is not looked at.
MustCloseOnState(W) ==
    W.session.conn # None /\ W.session.state \in EndStates

\* handle() ends in closeSession().
MustClose(W) ==
    /\ W.session.conn # None
    /\ ~Connected(W) \/ W.session.state \in EndStates

\* The state of the version exchange once reading stops: a timeout wins.
AfterVersion(W, seen) ==
    SetState(W, IF W.session.age > W.session.window THEN "SESSION_TIMEOUT"
                ELSE IF seen THEN "KEX_INIT_RECV" ELSE "VEX_RECV")

\* handleVersionExchange with bytes to read: the version ends the exchange as
\* soon as it starts with "SSH-" and is longer; the rest of a cut line is left
\* in the stream.
ReadVersion(W) ==
    LET c == W.session.conn
    IN  IF Len(W.rx[c]) > 1 \/ W.part[c] = "whole"
        THEN AfterVersion([W EXCEPT !.rx[c] = Tail(@)], TRUE)
        ELSE AfterVersion([W EXCEPT !.rx[c] = <<"junk">>,
                                    !.part[c] = "crumb"], TRUE)

\* A reply that is sent answers the client that waits for it.
Answer(W, ok, msg, what) ==
    IF ok /\ W.sent[W.session.conn] = msg
    THEN [W EXCEPT !.reply[W.session.conn] = what] ELSE W

\* Mutant: the result of isAuthorized is ignored.
ServeHandshakeAnyPassword(W, msg, ok) ==
    CASE msg = "kexinit" -> SetState(W, "KEX_INIT_SEND")
      [] msg = "kexdh"   -> SetState(W, "KEXDH_INIT_SEND")
      [] msg = "newkeys" ->
            SetState(Answer(W, ok, msg, "yes"),
                     IF ok THEN "AUTHENTICATION_REQUEST" ELSE "SESSION_CLOSE")
      [] msg = "service" -> Answer(W, ok, msg, "yes")
      [] msg \in {"badauth", "auth"} /\ ok ->
            [SetState(Answer(W, ok, msg, "yes"), "CHANNEL_REQUEST")
                EXCEPT !.attached = W.session.conn]
      [] OTHER -> W

\* handleKeyExchange and handleAuthentication on a message.
ServeHandshake(W, msg, ok) ==
    CASE msg = "kexinit" -> SetState(W, "KEX_INIT_SEND")
      [] msg = "kexdh"   -> SetState(W, "KEXDH_INIT_SEND")
      [] msg = "newkeys" ->
            SetState(Answer(W, ok, msg, "yes"),
                     IF ok THEN "AUTHENTICATION_REQUEST" ELSE "SESSION_CLOSE")
      [] msg = "service" -> Answer(W, ok, msg, "yes")
      [] msg = "badauth" -> Answer(W, ok, msg, "no")
      [] msg = "auth" /\ ok ->
            [SetState(Answer(W, ok, msg, "yes"), "CHANNEL_REQUEST")
                EXCEPT !.attached = W.session.conn]
      [] OTHER -> W

\* handleKeyExchange in the states that send.
ServeSend(W, state, ok) ==
    LET next == IF state = "KEX_INIT_SEND" THEN "KEXDH_INIT_RECV"
                                           ELSE "NEWKEYS_RECEIVED"
        msg == IF state = "KEX_INIT_SEND" THEN "kexinit" ELSE "kexdh"
    IN  IF state = "KEX_INIT_SEND" /\ W.session.kexSent
        THEN SetState(W, next)
        ELSE SetState([Answer(W, ok, msg, "yes") EXCEPT
                          !.session.kexSent = @ \/ state = "KEX_INIT_SEND"],
                      IF ok THEN next ELSE "SESSION_CLOSE")

\* A channel request that is answered: the first one makes the channel
\* usable and, for a terminal, hands the terminal to the command line.
ServeRequest(W, msg, ok) ==
    LET W1 == [W EXCEPT !.session.req = msg]
    IN  IF ok
        THEN [Answer(W1, ok, msg, "yes") EXCEPT
                 !.session.ischannelreqsuccess = 2,
                 !.attached = IF /\ W.session.ischannelreqsuccess < 0
                                 /\ msg \in {"pty", "shell"}
                              THEN W.session.conn ELSE @]
        ELSE SetState(W1, "SESSION_CLOSE")

\* Mutant: it is not recorded that CHANNEL_CLOSE was sent.
SendCloseAgain(W, ok) ==
    IF W.session.ischannelreqsuccess >= 0
    THEN [W EXCEPT !.closes[W.session.conn] = IF ok THEN @ + 1 ELSE @]
    ELSE W

\* CHANNEL_CLOSE is sent unless it has been sent before.
SendClose(W, ok) ==
    IF W.session.ischannelreqsuccess >= 0
    THEN [W EXCEPT !.session.ischannelreqsuccess = -1,
                   !.closes[W.session.conn] = IF ok THEN @ + 1 ELSE @]
    ELSE W

\* handleChannelRequest on a message.
ServeChannel(W, msg, ok) ==
    CASE msg = "open" ->
            IF ok THEN Answer(W, ok, msg, "yes") ELSE SetState(W, "SESSION_CLOSE")
      [] msg \in {"pty", "shell", "sftp"} -> ServeRequest(W, msg, ok)
      [] msg = "exit" /\ W.session.req \in {"pty", "shell"} ->
            SetState(W, "SESSION_CLOSE")
      [] msg = "eof" ->
            IF ok THEN [W EXCEPT !.timer = @ \cup {W.session.conn}]
                  ELSE SetState(W, "SESSION_CLOSE")
      [] msg = "close" -> SetState(SendClose(W, ok), "SESSION_CLOSE")
      [] OTHER -> W

\* The handler of the state the call saw; a reply may fail, and fails when
\* the link is down.
Serve(W, state, msg) ==
    { IF state \in SendStates THEN ServeSend(W, state, ok)
      ELSE IF state = "CHANNEL_REQUEST" THEN ServeChannel(W, msg, ok)
      ELSE ServeHandshake(W, msg, ok)
      : ok \in IF Connected(W) THEN BOOLEAN ELSE {FALSE} }

\* The reader returns 1: not enough bytes to start on a packet.
NothingToRead(W) ==
    LET c == W.session.conn
    IN  W.rx[c] = <<>> \/ (Len(W.rx[c]) = 1 /\ W.part[c] = "crumb")

WholePacket(W) ==
    LET c == W.session.conn
    IN  /\ W.rx[c] # <<>>
        /\ Len(W.rx[c]) > 1 \/ W.part[c] = "whole"

\* The reader returns -1: it has run out of bytes, or read what is no packet.
BadPacket(W) ==
    SetState([W EXCEPT !.rx[W.session.conn] = <<>>,
                       !.part[W.session.conn] = "whole"], "SESSION_CLOSE")

DropHead(W) == [W EXCEPT !.rx[W.session.conn] = Tail(@)]

\* handle() without interruption, on a stream that stands at a packet
\* boundary: the call of the accept callback.
WholeHandle(W0) ==
    LET W == HandleEntry(W0)
        s == W.session
    IN  IF s.conn = None THEN {W}
        ELSE IF MustClose(W) THEN {DeleteSession(Detach(W))}
        ELSE IF s.state = "VEX_RECV"
        THEN {IF NothingToRead(W) THEN AfterVersion(W, FALSE)
                                  ELSE ReadVersion(W)}
        ELSE IF s.state \in SendStates THEN Serve(W, s.state, "none")
        ELSE IF NothingToRead(W) THEN {W}
        ELSE IF WholePacket(W) /\ Head(W.rx[s.conn]) # "junk"
        THEN Serve(DropHead(W), s.state, Head(W.rx[s.conn]))
        ELSE {BadPacket(W)}

\* handle() called back in the middle of a packet the scheduled call reads:
\* it finds too few bytes, or takes the rest of that packet for a new one.
\* In the version exchange it takes the rest of the line instead.
HandleMidPacket(W0) ==
    LET W == HandleEntry(W0)
    IN  IF MustClose(W) THEN {[world |-> DeleteSession(Detach(W)),
                               stolen |-> FALSE]}
        ELSE {[world |-> W, stolen |-> FALSE]} \cup
             {[world |-> IF W.session.state = "VEX_RECV" THEN ReadVersion(W)
                         ELSE BadPacket(W),
               stolen |-> TRUE] : c \in {W.session.conn} \ {d \in Conns : W.rx[d] = <<>>}}

-----------------------------------------------------------------------------
(* The network.                                                            *)

\* TcpServerInterface::onAccept: a newer connection aborts the pending one.
OnAccept(W, c) ==
    [W EXCEPT !.tcp = [d \in Conns |-> IF d = c THEN "pending"
                                       ELSE IF d = W.pending THEN "closed"
                                       ELSE W.tcp[d]],
              !.pending = c]

\* A client connects: onAccept, then its callback runs handle().
Connect(c) ==
    /\ up /\ w.tcp[c] = "closed"
    /\ pc # "idle" => cur.calls < IF pc = "close" THEN MaxNested ELSE 1
    /\ LET W == OnAccept(w, c)
       IN  \E r \in IF pc = "parse" /\ ~cur.freed THEN HandleMidPacket(W)
                    ELSE {[world |-> V, stolen |-> FALSE] : V \in WholeHandle(W)} :
              /\ w' = r.world
              /\ cur' = IF pc = "idle" THEN cur ELSE [cur EXCEPT
                           !.calls = @ + 1,
                           !.stolen = @ \/ r.stolen,
                           !.freed = @ \/ (/\ pc \in {"parse", "reply"}
                                           /\ r.world.session.conn = None)]
    /\ UNCHANGED <<pc, up>>

\* onPendingRecv(nullptr), onPendingError and onPendingPoll: the client of the
\* pending connection leaves, or has waited for too long.
LeavePending(c) ==
    /\ up /\ w.pending = c
    /\ w' = [w EXCEPT !.pending = None, !.tcp[c] = "closed"]
    /\ UNCHANGED <<pc, cur, up>>

\* A client sends its next message; any part of it arrives first.
Send(c, msg, p) ==
    /\ up /\ w.tcp[c] = "open"
    /\ msg \in Follow[w.sent[c]]
    /\ w.sent[c] \in Awaited => w.reply[c] # "none"
    /\ w.sent[c] = "auth" => w.reply[c] = "yes"
    /\ Len(w.rx[c]) < MaxRx /\ w.part[c] = "whole"
    /\ w' = [w EXCEPT !.rx[c] = Append(@, msg), !.part[c] = p,
                      !.sent[c] = msg, !.reply[c] = "none"]
    /\ UNCHANGED <<pc, cur, up>>

\* More of the last message arrives (TcpClientInterface::onReceive).
Arrive(c, p) ==
    /\ up /\ w.tcp[c] = "open" /\ w.part[c] # "whole" /\ p # w.part[c]
    /\ p # "crumb"
    /\ w' = [w EXCEPT !.part[c] = p]
    /\ UNCHANGED <<pc, cur, up>>

\* The client ends the connection: onReceive(nullptr) keeps the bytes that
\* have arrived, onError flushes them.
Drop(c, flushed) ==
    /\ up /\ w.tcp[c] = "open"
    /\ w' = [w EXCEPT !.tcp[c] = "down",
                      !.rx[c] = IF flushed THEN <<>> ELSE @,
                      !.part[c] = IF flushed THEN "whole" ELSE @]
    /\ UNCHANGED <<pc, cur, up>>

-----------------------------------------------------------------------------
(* The scheduled handle(), from yield to yield.                            *)

\* From the entry to the first yield or, where there is none, to the end.
Handle ==
    /\ up /\ pc = "idle"
    /\ LET W == HandleEntry(w)
           s == W.session
           work(msg) == [conn |-> s.conn, state |-> s.state, msg |-> msg,
                         stolen |-> FALSE, freed |-> FALSE, calls |-> 0]
       IN  /\ s.conn # None
           /\ CASE MustClose(W) ->
                     pc' = "close" /\ w' = Detach(W) /\ cur' = work("none")
                [] ~MustClose(W) /\ s.state \in SendStates ->
                     pc' = "reply" /\ w' = W /\ cur' = work("none")
                [] ~MustClose(W) /\ s.state \notin SendStates
                                 /\ NothingToRead(W) ->
                     /\ w' = IF s.state = "VEX_RECV"
                             THEN AfterVersion(W, FALSE) ELSE W
                     /\ UNCHANGED <<pc, cur>>
                [] OTHER ->
                     pc' = "parse" /\ w' = W /\ cur' = work(Head(W.rx[s.conn]))
    /\ UNCHANGED up

\* The call goes on with a session that a call of the callback has deleted.
UseAfterFree ==
    /\ up /\ pc \in {"parse", "reply"} /\ cur.freed
    /\ up' = FALSE /\ pc' = "idle" /\ cur' = NoWork
    /\ UNCHANGED w

\* The reader is done with the bytes it found.
ParseEnd ==
    /\ up /\ pc = "parse" /\ ~cur.freed
    /\ CASE cur.state = "VEX_RECV" ->
              /\ w' = IF cur.stolen \/ NothingToRead(w)
                      THEN AfterVersion([w EXCEPT !.rx[cur.conn] = <<>>,
                                                  !.part[cur.conn] = "whole"],
                                        cur.stolen)
                      ELSE ReadVersion(w)
              /\ pc' = "idle" /\ cur' = NoWork
         [] cur.state # "VEX_RECV" /\ WholePacket(w) /\ ~cur.stolen
                                   /\ cur.msg # "junk" ->
              pc' = "reply" /\ w' = DropHead(w) /\ UNCHANGED cur
         [] OTHER ->
              pc' = "idle" /\ cur' = NoWork /\ w' = BadPacket(w)
    /\ UNCHANGED up

\* The handler answers the message, after the yields of its sends.
Reply ==
    /\ up /\ pc = "reply" /\ ~cur.freed
    /\ w' \in Serve(w, cur.state, cur.msg)
    /\ pc' = "idle" /\ cur' = NoWork
    /\ UNCHANGED up

\* closeSession() after its yields.
CloseEnd ==
    /\ up /\ pc = "close"
    /\ w' = DeleteSession(w)
    /\ pc' = "idle" /\ cur' = NoWork
    /\ UNCHANGED up

\* The deferred close armed by the EOF of connection c, some time later: it
\* works on the session there is when it runs.
DeferredClose(c) ==
    /\ up /\ pc = "idle" /\ c \in w.timer
    /\ LET W == [w EXCEPT !.timer = @ \ {c}]
       IN  IF W.session.conn # None /\ W.session.ischannelreqsuccess >= 0
           THEN \E ok \in IF Connected(W) THEN BOOLEAN ELSE {FALSE} :
                   w' = SetState(IF ok THEN SendClose(W, TRUE) ELSE W,
                                 "SESSION_CLOSE")
           ELSE w' = W
    /\ UNCHANGED <<pc, cur, up>>

\* The millisecond clock: the session grows old.
Tick ==
    /\ up /\ w.session.conn # None /\ w.session.age <= SftpWindow
    /\ w' = [w EXCEPT !.session.age = @ + 1]
    /\ UNCHANGED <<pc, cur, up>>

InitialWorld ==
    [pending |-> None, tcp |-> [c \in Conns |-> "closed"],
     sent |-> [c \in Conns |-> "start"], rx |-> [c \in Conns |-> <<>>],
     part |-> [c \in Conns |-> "whole"], reply |-> [c \in Conns |-> "none"],
     session |-> NoSession, attached |-> None,
     timer |-> {}, closes |-> [c \in Conns |-> 0]]

\* The device restarts after the exception.
Restart ==
    /\ ~up
    /\ up' = TRUE /\ w' = InitialWorld
    /\ UNCHANGED <<pc, cur>>

Init ==
    /\ w = InitialWorld
    /\ pc = "idle" /\ cur = NoWork /\ up = TRUE

Next ==
    \/ \E c \in Conns : Connect(c) \/ LeavePending(c) \/ DeferredClose(c)
    \/ \E c \in Conns, p \in Parts : \E m \in Kinds : Send(c, m, p)
    \/ \E c \in Conns, p \in Parts : Arrive(c, p)
    \/ \E c \in Conns, f \in BOOLEAN : Drop(c, f)
    \/ Handle \/ UseAfterFree \/ ParseEnd \/ Reply \/ CloseEnd
    \/ Tick \/ Restart

\* The task scheduler keeps running handle(), a call that has begun goes on,
\* the device comes back, and time passes.
Scheduled ==
    Handle \/ ParseEnd \/ Reply \/ CloseEnd \/ UseAfterFree \/ Restart

Fairness == WF_vars(Scheduled) /\ WF_vars(Tick)

Spec == Init /\ [][Next]_vars /\ Fairness

-----------------------------------------------------------------------------
\* Types; a channel is unused or established (-1 or 2) whenever handle() has
\* returned.
TypeOK ==
    /\ w \in Worlds /\ cur \in Works
    /\ pc \in {"idle", "parse", "reply", "close"}
    /\ up \in BOOLEAN

\* A terminal is in the session table only while its SSH session is the one
\* the server has: closeSession detaches before it yields, and no session the
\* callback accepts meanwhile is attached (SSHServiceprovider.cpp:105).
TerminalIsLive ==
    w.attached # None => w.attached = w.session.conn

\* A session takes channel messages, and its terminal is attached, only if the
\* client of that very connection has logged in.
ChannelNeedsLogin ==
    /\ w.session.state = "CHANNEL_REQUEST" => w.sent[w.session.conn] \in LoggedIn
    /\ w.attached # None => w.sent[w.attached] \in LoggedIn

\* Every accepted connection is owned by the session, whatever calls of
\* handle() met in closeSession: none is left open with nobody to close it.
NoConnectionLeaks ==
    \A c \in Conns : w.tcp[c] = "open" => w.session.conn = c

\* A client is sent at most one CHANNEL_CLOSE for its channel, whichever comes
\* first: its own CHANNEL_CLOSE or the deferred close
\* (SSHServiceprovider.cpp:708 and :731).
OneChannelClose ==
    \A c \in Conns : w.closes[c] <= 1

\* A session whose client is gone is given up, and so is one that has ended
\* by the time handle() returns (a call of the callback may set
\* SESSION_CLOSE and be overwritten by the call it interrupts).
EndedIsFreed ==
    \A c \in Conns :
        (/\ w.session.conn = c
         /\ \/ w.tcp[c] = "down"
            \/ pc = "idle" /\ w.session.state \in EndStates)
        ~> (w.session.conn # c)

\* An sftp session whose client is silent is given up, unless bytes arrive.
SilentSftpReaped ==
    \A c \in Conns :
        (w.session.conn = c /\ w.session.req = "sftp" /\ w.rx[c] = <<>>)
            ~> (w.session.conn # c \/ w.rx[c] # <<>>)

=============================================================================
