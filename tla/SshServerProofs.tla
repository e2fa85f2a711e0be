--------------------------- MODULE SshServerProofs ---------------------------
(***************************************************************************)
(* Proofs about SshServer for any number of connections and messages.      *)
(*                                                                         *)
(* First what each piece of handle() does to a world (Calm, Gains), then   *)
(* that whole calls keep what holds of every world (Keeps), then that the  *)
(* steps keep LinkInv and LoginInv, which say in addition how a world      *)
(* relates to the scheduled call that is under way.                        *)
(***************************************************************************)
EXTENDS SshServer, TLAPS

-----------------------------------------------------------------------------
(* The pieces of handle().                                                 *)

\* A message of the client that logs it in has arrived and is not yet read.
HasAuth(W, c) == \E i \in 1 .. Len(W.rx[c]) : W.rx[c][i] = "auth"

\* V follows from W by work on the session that neither gives nor takes
\* connections.
SameLinks(W, V) ==
    /\ V \in Worlds
    /\ V.tcp = W.tcp /\ V.sent = W.sent /\ V.pending = W.pending
    /\ V.session.conn = W.session.conn
    /\ \A c \in Conns : HasAuth(V, c) => HasAuth(W, c)

\* ... and that logs nobody in.
Calm(W, V) ==
    /\ SameLinks(W, V)
    /\ V.session.state = "CHANNEL_REQUEST" => W.session.state = "CHANNEL_REQUEST"
    /\ V.attached = W.attached

\* ... and that logs in at most the client of the session.
Gains(W, V) == SameLinks(W, V) /\ V.attached \in {W.attached, W.session.conn}

\* SetState changes the state of the session and nothing else.
LEMMA SetStateFields ==
    ASSUME NEW W \in Worlds, NEW st \in SessionStates
    PROVE  LET V == SetState(W, st)
           IN  /\ V \in Worlds
               /\ V.pending = W.pending /\ V.tcp = W.tcp /\ V.sent = W.sent
               /\ V.rx = W.rx /\ V.attached = W.attached
               /\ V.session.conn = W.session.conn /\ V.session.state = st
BY Zenon DEF SetState, Worlds, Sessions

\* A new state other than CHANNEL_REQUEST logs nobody in.
LEMMA SetStateCalm ==
    ASSUME NEW W \in Worlds, NEW V, Calm(W, V), NEW st \in SessionStates, st # "CHANNEL_REQUEST"
    PROVE  Calm(W, SetState(V, st))
BY SetStateFields DEF Calm, SameLinks, HasAuth

\* The deleted session is a session without a connection.
LEMMA NoSessionType ==
    NoSession \in Sessions /\ NoSession.conn = None /\ NoSession.state = "SESSION_CLOSE"
BY WindowsAssumption DEF NoSession, Sessions, SessionStates, EndStates

\* A session just accepted.
LEMMA FreshType ==
    ASSUME NEW c \in Conns
    PROVE  /\ [NoSession EXCEPT !.conn = c, !.state = "VEX_RECV"] \in Sessions
           /\ [NoSession EXCEPT !.conn = c, !.state = "VEX_RECV"].conn = c
           /\ [NoSession EXCEPT !.conn = c, !.state = "VEX_RECV"].state = "VEX_RECV"
<1> "VEX_RECV" \in SessionStates
  BY DEF SessionStates
<1> QED
  BY NoSessionType, Zenon DEF Sessions

\* Accepting moves the pending connection to a new session.
LEMMA AcceptFields ==
    ASSUME NEW W \in Worlds, W.session.conn = None, W.pending # None
    PROVE  LET V == AcceptPending(W)
           IN  /\ V \in Worlds
               /\ V.pending = None /\ V.sent = W.sent
               /\ V.tcp = [W.tcp EXCEPT ![W.pending] = "open"]
               /\ V.rx = W.rx /\ V.attached = W.attached
               /\ V.session.conn = W.pending /\ V.session.state = "VEX_RECV"
<1> DEFINE s == [NoSession EXCEPT !.conn = W.pending, !.state = "VEX_RECV"]
           c == W.pending
           V == [W EXCEPT !.session = s, !.tcp[c] = "open", !.pending = None]
<1>1. c \in Conns
  BY DEF Worlds
<1>2. s \in Sessions /\ s.conn = c /\ s.state = "VEX_RECV"
  BY <1>1, FreshType, Zenon
<1>3. AcceptPending(W) = V
  BY DEF AcceptPending
<1> HIDE DEF s, c
<1>4. /\ V.pending = None /\ V.sent = W.sent /\ V.rx = W.rx /\ V.attached = W.attached
      /\ V.tcp = [W.tcp EXCEPT ![c] = "open"] /\ V.session = s
  BY DEF Worlds
<1>5. V \in Worlds
  BY <1>1, <1>2, Zenon DEF Worlds
<1> QED
  BY <1>2, <1>3, <1>4, <1>5 DEF c

\* closeSession resets everything of the connection of the session.
LEMMA DeleteFields ==
    ASSUME NEW W \in Worlds, W.session.conn \in Conns
    PROVE  LET V == DeleteSession(W)
           IN  /\ V \in Worlds
               /\ V.pending = W.pending /\ V.sent = [W.sent EXCEPT ![W.session.conn] = "start"]
               /\ V.tcp = [W.tcp EXCEPT ![W.session.conn] = "closed"]
               /\ V.rx = [W.rx EXCEPT ![W.session.conn] = <<>>] /\ V.attached = W.attached
               /\ V.session = NoSession
<1> DEFINE c == W.session.conn
           V == [W EXCEPT !.session = NoSession,
                   !.tcp[c] = "closed",
                   !.sent[c] = "start",
                   !.reply[c] = "none",
                   !.closes[c] = 0,
                   !.rx[c] = <<>>,
                   !.part[c] = "whole"]
<1>1. DeleteSession(W) = V
  BY WindowsAssumption DEF DeleteSession
<1>2. c \in Conns /\ "start" \in Stages /\ "whole" \in Parts /\ <<>> \in Seq(Kinds)
  BY DEF Stages, Parts, Follow
<1> HIDE DEF c
<1>3. /\ V.pending = W.pending /\ V.session = NoSession /\ V.attached = W.attached
      /\ V.tcp = [W.tcp EXCEPT ![c] = "closed"]
      /\ V.sent = [W.sent EXCEPT ![c] = "start"]
      /\ V.rx = [W.rx EXCEPT ![c] = <<>>]
  BY DEF Worlds
<1>4. V \in Worlds
  BY <1>2, NoSessionType, ZenonT(30) DEF Worlds
<1> QED
  BY <1>1, <1>3, <1>4 DEF c

\* Detaching changes the terminal only.
LEMMA DetachFields ==
    ASSUME NEW W \in Worlds
    PROVE  LET V == Detach(W)
           IN  /\ V \in Worlds
               /\ V.pending = W.pending /\ V.sent = W.sent /\ V.tcp = W.tcp
               /\ V.rx = W.rx /\ V.session = W.session
               /\ V.attached = IF W.attached = W.session.conn THEN None ELSE W.attached
BY Zenon DEF Detach, Worlds

\* Idle reaping may end a session; it starts none.
LEMMA IdleReapCalm ==
    ASSUME NEW W \in Worlds, W.session.conn \in Conns
    PROVE  Calm(W, IdleReap(W))
<1> DEFINE Old == [W EXCEPT !.session.age = 0, !.session.window = SftpWindow]
           New(st) == [W EXCEPT !.session.window = SftpWindow, !.session.state = st]
<1>1. Calm(W, W)
  BY DEF Calm, SameLinks
<1>2. Calm(W, Old)
  <2>1. /\ Old.tcp = W.tcp /\ Old.sent = W.sent /\ Old.pending = W.pending /\ Old.rx = W.rx
        /\ Old.attached = W.attached /\ Old.session.conn = W.session.conn
        /\ Old.session.state = W.session.state
    BY Zenon DEF Worlds, Sessions
  <2>2. 0 \in 0 .. SftpWindow + 1
    BY WindowsAssumption
  <2>3. Old \in Worlds
    BY <2>2, Zenon DEF Worlds, Sessions
  <2> QED
    BY <2>1, <2>3 DEF Calm, SameLinks, HasAuth
<1>3. \A st \in {"SESSION_TIMEOUT", W.session.state} : Calm(W, New(st))
  <2> SUFFICES ASSUME NEW st \in {"SESSION_TIMEOUT", W.session.state}
               PROVE  Calm(W, New(st))
    BY Zenon
  <2>0. st \in SessionStates
    BY DEF SessionStates, EndStates, Worlds, Sessions
  <2>1. /\ New(st).tcp = W.tcp /\ New(st).sent = W.sent /\ New(st).pending = W.pending /\ New(st).rx = W.rx
        /\ New(st).attached = W.attached /\ New(st).session.conn = W.session.conn
        /\ New(st).session.state = st
    BY Zenon DEF Worlds, Sessions
  <2>2. New(st) \in Worlds
    BY <2>0, WindowsAssumption, Zenon DEF Worlds, Sessions
  <2> QED
    BY <2>1, <2>2 DEF Calm, SameLinks, HasAuth
<1>4. IdleReap(W) \in {W, Old, New("SESSION_TIMEOUT"), New(W.session.state)}
  BY Zenon DEF IdleReap, Worlds, Sessions
<1> HIDE DEF Old, New
<1> QED
  BY <1>1, <1>2, <1>3, <1>4

\* Taking messages off the stream of the session adds none.
LEMMA StreamCalm ==
    ASSUME NEW W \in Worlds, W.session.conn \in Conns, NEW q \in Seq(Kinds), NEW p \in Parts,
           (\E i \in 1 .. Len(q) : q[i] = "auth") => HasAuth(W, W.session.conn)
    PROVE  Calm(W, [W EXCEPT !.rx[W.session.conn] = q, !.part[W.session.conn] = p])
<1> DEFINE c == W.session.conn
           V == [W EXCEPT !.rx[c] = q, !.part[c] = p]
<1>1. c \in Conns /\ c = W.session.conn
  OBVIOUS
<1> HIDE DEF c
<1>2. /\ V.tcp = W.tcp /\ V.sent = W.sent /\ V.pending = W.pending
      /\ V.attached = W.attached /\ V.session = W.session
      /\ V.rx = [W.rx EXCEPT ![c] = q]
  BY DEF Worlds
<1>3. V \in Worlds
  BY <1>1, Zenon DEF Worlds
<1>4. W.rx \in [Conns -> Seq(Kinds)]
  BY DEF Worlds
<1>5. \A d \in Conns : HasAuth(V, d) => HasAuth(W, d)
  <2> TAKE d \in Conns
  <2>1. CASE d = c
    BY <1>1, <1>2, <1>4, <2>1 DEF HasAuth
  <2>2. CASE d # c
    BY <1>2, <1>4, <2>2 DEF HasAuth
  <2> QED
    BY <2>1, <2>2
<1> HIDE DEF V
<1>6. Calm(W, V)
  BY <1>2, <1>3, <1>5 DEF Calm, SameLinks
<1> QED
  BY <1>6 DEF V, c

\* Reading a packet takes it off the stream.
LEMMA TailCalm ==
    ASSUME NEW W \in Worlds, W.session.conn \in Conns, W.rx[W.session.conn] # <<>>
    PROVE  /\ Tail(W.rx[W.session.conn]) \in Seq(Kinds)
           /\ Calm(W, DropHead(W))
<1> DEFINE c == W.session.conn
           q == Tail(W.rx[c])
<1>1. W.rx[c] \in Seq(Kinds) /\ W.part[c] \in Parts
  BY DEF Worlds
<1>2. q \in Seq(Kinds) /\ Len(q) = Len(W.rx[c]) - 1 /\ \A i \in 1 .. Len(q) : q[i] = W.rx[c][i + 1]
  BY <1>1
<1>3. (\E i \in 1 .. Len(q) : q[i] = "auth") => HasAuth(W, c)
  BY <1>1, <1>2 DEF HasAuth
<1>4. [W EXCEPT !.rx[c] = q, !.part[c] = W.part[c]] = DropHead(W)
  BY Zenon DEF DropHead, Worlds
<1>5. Calm(W, [W EXCEPT !.rx[c] = q, !.part[c] = W.part[c]])
  BY <1>1, <1>2, <1>3, StreamCalm, Zenon
<1> QED
  BY <1>2, <1>4, <1>5

\* A packet that cannot be read ends the session.
LEMMA BadPacketCalm ==
    ASSUME NEW W \in Worlds, W.session.conn \in Conns
    PROVE  Calm(W, BadPacket(W))
<1>1. <<>> \in Seq(Kinds) /\ "whole" \in Parts /\ "SESSION_CLOSE" \in SessionStates
  BY DEF Parts, SessionStates, EndStates
<1>a. ~ \E i \in 1 .. Len(<<>>) : <<>>[i] = "auth"
  OBVIOUS
<1>2. Calm(W, [W EXCEPT !.rx[W.session.conn] = <<>>, !.part[W.session.conn] = "whole"])
  BY <1>1, <1>a, StreamCalm, Zenon
<1> QED
  BY <1>1, <1>2, SetStateCalm DEF BadPacket

\* The version exchange leads to no channel.
LEMMA AfterVersionCalm ==
    ASSUME NEW W \in Worlds, NEW V, Calm(W, V), NEW seen \in BOOLEAN
    PROVE  Calm(W, AfterVersion(V, seen))
<1> DEFINE st == IF V.session.age > V.session.window THEN "SESSION_TIMEOUT"
                 ELSE IF seen THEN "KEX_INIT_RECV" ELSE "VEX_RECV"
<1>1. st \in SessionStates /\ st # "CHANNEL_REQUEST"
  BY DEF SessionStates, EndStates, RecvStates
<1> HIDE DEF st
<1>2. Calm(W, SetState(V, st))
  BY <1>1, SetStateCalm
<1> QED
  BY <1>2 DEF AfterVersion, st

\* Reading the version line, or what has arrived of it.
LEMMA ReadVersionCalm ==
    ASSUME NEW W \in Worlds, W.session.conn \in Conns, W.rx[W.session.conn] # <<>>
    PROVE  Calm(W, ReadVersion(W))
<1> DEFINE c == W.session.conn
           V == [W EXCEPT !.rx[c] = <<"junk">>, !.part[c] = "crumb"]
<1>1. <<"junk">> \in Seq(Kinds) /\ "crumb" \in Parts
  BY DEF Parts, Kinds
<1>a. ~ \E i \in 1 .. Len(<<"junk">>) : <<"junk">>[i] = "auth"
  OBVIOUS
<1>2. Calm(W, V)
  BY <1>1, <1>a, StreamCalm, Zenon
<1>3. Calm(W, AfterVersion(V, TRUE)) /\ Calm(W, AfterVersion(DropHead(W), TRUE))
  BY <1>2, TailCalm, AfterVersionCalm, Zenon
<1>4. ReadVersion(W) \in {AfterVersion(V, TRUE), AfterVersion(DropHead(W), TRUE)}
  BY DEF ReadVersion, DropHead
<1> QED
  BY <1>3, <1>4, Zenon

\* A reply changes what the client has heard only.
LEMMA AnswerCalm ==
    ASSUME NEW W \in Worlds, W.session.conn \in Conns, NEW ok, NEW msg, NEW what \in {"yes", "no"}
    PROVE  Calm(W, Answer(W, ok, msg, what)) /\ Answer(W, ok, msg, what).session = W.session
<1> DEFINE c == W.session.conn
           V == [W EXCEPT !.reply[c] = what]
<1>1. c \in Conns
  OBVIOUS
<1>2. Answer(W, ok, msg, what) \in {W, V}
  BY DEF Answer
<1>3. Calm(W, W)
  BY DEF Calm, SameLinks
<1> HIDE DEF c
<1>4. /\ V.tcp = W.tcp /\ V.sent = W.sent /\ V.pending = W.pending /\ V.rx = W.rx
      /\ V.attached = W.attached /\ V.session = W.session
  BY DEF Worlds
<1>5. V \in Worlds
  BY <1>1, Zenon DEF Worlds
<1> HIDE DEF V
<1>6. Calm(W, V)
  BY <1>4, <1>5 DEF Calm, SameLinks, HasAuth
<1> QED
  BY <1>2, <1>3, <1>4, <1>6

\* Work on fields of the session other than its connection and state.
LEMMA SessionCalm ==
    ASSUME NEW W \in Worlds, NEW s \in Sessions,
           s.conn = W.session.conn, s.state = W.session.state
    PROVE  Calm(W, [W EXCEPT !.session = s])
<1> DEFINE V == [W EXCEPT !.session = s]
<1>1. /\ V.tcp = W.tcp /\ V.sent = W.sent /\ V.pending = W.pending /\ V.rx = W.rx
      /\ V.attached = W.attached /\ V.session = s /\ V \in Worlds
  BY Zenon DEF Worlds
<1> QED
  BY <1>1 DEF Calm, SameLinks, HasAuth

\* Attaching the terminal of the session.
LEMMA AttachGains ==
    ASSUME NEW W \in Worlds, NEW V, SameLinks(W, V), NEW c \in Conns \cup {None},
           c \in {W.attached, W.session.conn}
    PROVE  Gains(W, [V EXCEPT !.attached = c])
<1> DEFINE U == [V EXCEPT !.attached = c]
<1>0. V \in Worlds
  BY DEF SameLinks
<1>1. /\ U.tcp = V.tcp /\ U.sent = V.sent /\ U.pending = V.pending /\ U.rx = V.rx
      /\ U.attached = c /\ U.session = V.session /\ U \in Worlds
  BY <1>0, Zenon DEF Worlds
<1> QED
  BY <1>1 DEF Gains, SameLinks, HasAuth

\* Calm work composes.
LEMMA CalmTransitive ==
    ASSUME NEW W, NEW V, NEW U, Calm(W, V), Calm(V, U)
    PROVE  Calm(W, U)
BY DEF Calm, SameLinks

\* Calm work is a special case.
LEMMA CalmGains == ASSUME NEW W, NEW V, Calm(W, V) PROVE Gains(W, V)
BY DEF Calm, Gains

\* Only a message with the right password logs in.
LEMMA HandshakeEffect ==
    ASSUME NEW W \in Worlds, W.session.conn \in Conns, NEW msg, NEW ok \in BOOLEAN
    PROVE  LET V == ServeHandshake(W, msg, ok)
           IN  Gains(W, V) /\ (msg # "auth" => Calm(W, V))
<1> DEFINE V == ServeHandshake(W, msg, ok)
           A(what) == Answer(W, ok, msg, what)
           L == SetState(A("yes"), "CHANNEL_REQUEST")
<1>1. Calm(W, W) /\ Calm(W, A("yes")) /\ Calm(W, A("no"))
  BY AnswerCalm DEF Calm, SameLinks
<1>2. \A st \in {"KEX_INIT_SEND", "KEXDH_INIT_SEND", "AUTHENTICATION_REQUEST", "SESSION_CLOSE"} :
         Calm(W, SetState(W, st)) /\ Calm(W, SetState(A("yes"), st))
  BY <1>1, SetStateCalm DEF SessionStates, RecvStates, SendStates, EndStates
<1>3. Gains(W, [L EXCEPT !.attached = W.session.conn])
  <2>1. "CHANNEL_REQUEST" \in SessionStates /\ A("yes") \in Worlds
    BY <1>1 DEF SessionStates, RecvStates, Calm, SameLinks
  <2>2. SameLinks(W, L)
    BY <1>1, <2>1, SetStateFields DEF Calm, SameLinks, HasAuth
  <2> QED
    BY <2>2, AttachGains
<1>4. \/ msg # "auth" /\ V \in {W, A("yes"), A("no"), SetState(W, "KEX_INIT_SEND"),
              SetState(W, "KEXDH_INIT_SEND"), SetState(A("yes"), "AUTHENTICATION_REQUEST"),
              SetState(A("yes"), "SESSION_CLOSE")}
      \/ msg = "auth" /\ V \in {W, [L EXCEPT !.attached = W.session.conn]}
  BY DEF ServeHandshake
<1> HIDE DEF A, L, V
<1> QED
  BY <1>1, <1>2, <1>3, <1>4, CalmGains DEF V

\* The states that send go on with the handshake.
LEMMA SendEffect ==
    ASSUME NEW W \in Worlds, W.session.conn \in Conns, NEW state \in SendStates, NEW ok \in BOOLEAN
    PROVE  Calm(W, ServeSend(W, state, ok))
<1> DEFINE next == IF state = "KEX_INIT_SEND" THEN "KEXDH_INIT_RECV" ELSE "NEWKEYS_RECEIVED"
           msg == IF state = "KEX_INIT_SEND" THEN "kexinit" ELSE "kexdh"
           A == Answer(W, ok, msg, "yes")
           s == [A.session EXCEPT !.kexSent = @ \/ state = "KEX_INIT_SEND"]
           B == [A EXCEPT !.session = s]
<1>1. Calm(W, W) /\ Calm(W, A) /\ A \in Worlds
  BY AnswerCalm DEF Calm, SameLinks
<1>2. /\ {next, "SESSION_CLOSE"} \subseteq SessionStates
      /\ next # "CHANNEL_REQUEST"
  BY DEF SessionStates, RecvStates, EndStates
<1>3. ServeSend(W, state, ok) \in {SetState(W, next), SetState(B, next), SetState(B, "SESSION_CLOSE")}
  <2>1. [A EXCEPT !.session.kexSent = @ \/ state = "KEX_INIT_SEND"] = B
    OBVIOUS
  <2> QED
    BY <2>1, Zenon DEF ServeSend
<1> HIDE DEF A, msg, next
<1>4. s \in Sessions /\ s.conn = A.session.conn /\ s.state = A.session.state
  BY <1>1, Zenon DEF Worlds, Sessions
<1>5. Calm(W, B)
  <2> HIDE DEF s
  <2>1. Calm(A, B)
    BY <1>1, <1>4, SessionCalm
  <2> HIDE DEF B
  <2> QED
    BY <1>1, <2>1, CalmTransitive
<1> HIDE DEF B
<1> QED
  BY <1>1, <1>2, <1>3, <1>5, SetStateCalm

\* A channel request may attach the terminal of the session.
LEMMA RequestEffect ==
    ASSUME NEW W \in Worlds, W.session.conn \in Conns, NEW msg \in {"pty", "shell", "sftp"},
           NEW ok \in BOOLEAN
    PROVE  Gains(W, ServeRequest(W, msg, ok))
<1> DEFINE r == [W.session EXCEPT !.req = msg]
           W1 == [W EXCEPT !.session = r]
           A == Answer(W1, ok, msg, "yes")
           s == [A.session EXCEPT !.ischannelreqsuccess = 2]
           B == [A EXCEPT !.session = s]
           a == IF W.session.ischannelreqsuccess < 0 /\ msg \in {"pty", "shell"}
                THEN W.session.conn ELSE A.attached
<1>1. r \in Sessions /\ r.conn = W.session.conn /\ r.state = W.session.state
  BY Zenon DEF Worlds, Sessions
<1>2. [W EXCEPT !.session.req = msg] = W1
  OBVIOUS
<1>3. Calm(W, W1) /\ W1 \in Worlds /\ W1.session.conn \in Conns
  <2> HIDE DEF r
  <2>1. Calm(W, W1)
    BY <1>1, SessionCalm
  <2> HIDE DEF W1
  <2> QED
    BY <2>1 DEF Calm, SameLinks
<1>4. ServeRequest(W, msg, ok) \in {[B EXCEPT !.attached = a], SetState(W1, "SESSION_CLOSE")}
  <2> HIDE DEF W1
  <2>1. A \in Worlds
    BY <1>3, AnswerCalm DEF Calm, SameLinks
  <2>2. ServeRequest(W, msg, ok) \in
          {[A EXCEPT !.session.ischannelreqsuccess = 2,
                     !.attached = IF W.session.ischannelreqsuccess < 0 /\ msg \in {"pty", "shell"}
                                  THEN W.session.conn ELSE @],
           SetState(W1, "SESSION_CLOSE")}
    BY <1>2, Zenon DEF ServeRequest
  <2> HIDE DEF A
  <2> QED
    BY <2>1, <2>2 DEF Worlds
<1> HIDE DEF W1
<1>5. Calm(W, A) /\ A \in Worlds
  BY <1>3, AnswerCalm, CalmTransitive DEF Calm, SameLinks
<1> HIDE DEF A
<1>6. s \in Sessions /\ s.conn = A.session.conn /\ s.state = A.session.state
  BY <1>5, Zenon DEF Worlds, Sessions
<1> HIDE DEF s
<1>7. Calm(A, B)
  BY <1>5, <1>6, SessionCalm
<1> HIDE DEF B
<1>8. SameLinks(W, B)
  BY <1>5, <1>7, CalmTransitive DEF Calm
<1>9. a \in Conns \cup {None} /\ a \in {W.attached, W.session.conn}
  BY <1>5 DEF Calm, Worlds
<1> HIDE DEF a
<1>10. Gains(W, [B EXCEPT !.attached = a])
  BY <1>8, <1>9, AttachGains
<1>11. Gains(W, SetState(W1, "SESSION_CLOSE"))
  BY <1>3, SetStateCalm, CalmGains DEF SessionStates, EndStates
<1> QED
  BY <1>4, <1>10, <1>11

\* Sending CHANNEL_CLOSE.
LEMMA SendCloseCalm ==
    ASSUME NEW W \in Worlds, W.session.conn \in Conns, NEW ok \in BOOLEAN
    PROVE  Calm(W, SendClose(W, ok))
<1> DEFINE c == W.session.conn
           n == IF ok THEN W.closes[c] + 1 ELSE W.closes[c]
           s == [W.session EXCEPT !.ischannelreqsuccess = -1]
           B == [W EXCEPT !.session = s]
           V == [B EXCEPT !.closes[c] = n]
<1>1. s \in Sessions /\ s.conn = W.session.conn /\ s.state = W.session.state
  BY Zenon DEF Worlds, Sessions
<1>2. c \in Conns /\ n \in Nat
  BY DEF Worlds
<1>3. SendClose(W, ok) \in {W, V}
  <2>1. [W EXCEPT !.session.ischannelreqsuccess = -1, !.closes[c] = IF ok THEN @ + 1 ELSE @] = V
    BY <1>2 DEF Worlds
  <2> QED
    BY <2>1 DEF SendClose
<1> HIDE DEF s, c, n
<1>4. Calm(W, B) /\ B \in Worlds
  BY <1>1, SessionCalm DEF Calm, SameLinks
<1> HIDE DEF B
<1>5. /\ V.tcp = B.tcp /\ V.sent = B.sent /\ V.pending = B.pending /\ V.rx = B.rx
      /\ V.attached = B.attached /\ V.session = B.session /\ V \in Worlds
  BY <1>2, <1>4, Zenon DEF Worlds
<1> HIDE DEF V
<1>6. Calm(W, V) /\ Calm(W, W)
  BY <1>4, <1>5 DEF Calm, SameLinks, HasAuth
<1> QED
  BY <1>3, <1>6

\* Arming and disarming deferred closes.
LEMMA TimerCalm ==
    ASSUME NEW W \in Worlds, NEW S \in SUBSET Conns
    PROVE  Calm(W, [W EXCEPT !.timer = S])
<1> DEFINE V == [W EXCEPT !.timer = S]
<1>1. /\ V.tcp = W.tcp /\ V.sent = W.sent /\ V.pending = W.pending /\ V.rx = W.rx
      /\ V.attached = W.attached /\ V.session = W.session /\ V \in Worlds
  BY Zenon DEF Worlds
<1> QED
  BY <1>1 DEF Calm, SameLinks, HasAuth

\* The channel handler works on the session there is.
LEMMA ChannelEffect ==
    ASSUME NEW W \in Worlds, W.session.conn \in Conns, NEW msg, NEW ok \in BOOLEAN
    PROVE  Gains(W, ServeChannel(W, msg, ok))
<1> DEFINE V == ServeChannel(W, msg, ok)
           C(U) == SetState(U, "SESSION_CLOSE")
           S == W.timer \cup {W.session.conn}
<1>1. Calm(W, W) /\ Calm(W, Answer(W, ok, msg, "yes")) /\ Calm(W, SendClose(W, ok))
  BY AnswerCalm, SendCloseCalm DEF Calm, SameLinks
<1>2. Calm(W, C(W)) /\ Calm(W, C(SendClose(W, ok)))
  BY <1>1, SetStateCalm DEF SessionStates, EndStates
<1>3. Calm(W, [W EXCEPT !.timer = S])
  <2>1. S \in SUBSET Conns
    BY DEF Worlds
  <2> HIDE DEF S
  <2> QED
    BY <2>1, TimerCalm
<1>4. \/ msg \in {"pty", "shell", "sftp"} /\ V = ServeRequest(W, msg, ok)
      \/ V \in {W, Answer(W, ok, msg, "yes"), C(W), C(SendClose(W, ok)), [W EXCEPT !.timer = S]}
  BY DEF ServeChannel
<1> HIDE DEF C, S, V
<1> QED
  BY <1>1, <1>2, <1>3, <1>4, CalmGains, RequestEffect DEF V

\* What a handler may do, whatever it is given.
LEMMA ServeEffect ==
    ASSUME NEW W \in Worlds, W.session.conn \in Conns, NEW state \in SessionStates, NEW msg,
           NEW V \in Serve(W, state, msg)
    PROVE  /\ Gains(W, V)
           /\ msg = "auth" \/ state = "CHANNEL_REQUEST" \/ Calm(W, V)
<1>1. PICK ok \in BOOLEAN :
        V = IF state \in SendStates THEN ServeSend(W, state, ok)
            ELSE IF state = "CHANNEL_REQUEST" THEN ServeChannel(W, msg, ok)
            ELSE ServeHandshake(W, msg, ok)
  BY Zenon DEF Serve
<1> QED
  BY <1>1, SendEffect, ChannelEffect, HandshakeEffect, CalmGains

-----------------------------------------------------------------------------
(* What holds of a world, and how the pieces of handle() keep it.          *)

\* Every open connection is the session's.
Owned(W) == \A c \in Conns : W.tcp[c] = "open" => W.session.conn = c

\* Logging in needs a password, and the terminal belongs to the session.
Guarded(W) ==
    /\ \A c \in Conns : HasAuth(W, c) => W.sent[c] \in LoggedIn
    /\ W.session.state = "CHANNEL_REQUEST" =>
          W.session.conn \in Conns /\ W.sent[W.session.conn] \in LoggedIn
    /\ W.attached # None =>
          W.attached = W.session.conn /\ W.sent[W.attached] \in LoggedIn

\* What a step may do to the session a call works on: keep it, with what its
\* client has sent, or delete it.
KeepsOrDeletes(W, V) ==
    W.session.conn # None =>
        \/ V.session.conn = None
        \/ V.session.conn = W.session.conn /\ V.sent = W.sent

\* What holds of every world is kept.
Keeps(W, V) ==
    /\ V \in Worlds
    /\ Owned(W) => Owned(V)
    /\ Guarded(W) => Guarded(V)
    /\ KeepsOrDeletes(W, V)

\* Steps that keep the world compose.
LEMMA KeepsTransitive ==
    ASSUME NEW W, NEW V, NEW U, Keeps(W, V), Keeps(V, U),
           W.session.conn = None \/ (V.session.conn = W.session.conn /\ V.sent = W.sent)
    PROVE  Keeps(W, U)
BY DEF Keeps, KeepsOrDeletes

\* Calm work keeps what holds of a world.
LEMMA CalmKeeps == ASSUME NEW W \in Worlds, NEW V, Calm(W, V) PROVE Keeps(W, V)
BY DEF Calm, SameLinks, Keeps, Owned, Guarded, KeepsOrDeletes

\* So does a login, if the client has sent the right password.
LEMMA GainsKeeps ==
    ASSUME NEW W \in Worlds, NEW V, Gains(W, V), W.session.conn \in Conns,
           Guarded(W) => W.sent[W.session.conn] \in LoggedIn
    PROVE  Keeps(W, V)
BY WindowsAssumption DEF Gains, SameLinks, Keeps, Owned, Guarded, KeepsOrDeletes

\* A connection is accepted only when no other has an owner.
LEMMA AcceptKeeps ==
    ASSUME NEW W \in Worlds, W.session.conn = None, W.pending # None
    PROVE  Keeps(W, AcceptPending(W))
<1> DEFINE V == AcceptPending(W)
<1>1. /\ V \in Worlds
      /\ V.pending = None /\ V.sent = W.sent
      /\ V.tcp = [W.tcp EXCEPT ![W.pending] = "open"]
      /\ V.rx = W.rx /\ V.attached = W.attached
      /\ V.session.conn = W.pending /\ V.session.state = "VEX_RECV"
  BY AcceptFields
<1>2. W.tcp \in [Conns -> {"closed", "pending", "open", "down"}]
  BY DEF Worlds
<1> HIDE DEF V
<1>3. Owned(W) => Owned(V)
  BY <1>1, <1>2, WindowsAssumption DEF Owned
<1>4. Guarded(W) => Guarded(V)
  BY <1>1 DEF Guarded, HasAuth
<1> QED
  BY <1>1, <1>3, <1>4 DEF Keeps, KeepsOrDeletes, V

\* The deleted session leaves no open connection behind.
LEMMA DeleteKeeps ==
    ASSUME NEW W \in Worlds, W.session.conn \in Conns
    PROVE  LET V == DeleteSession(W)
           IN  /\ V \in Worlds /\ V.session.conn = None /\ V.attached = W.attached
               /\ Owned(W) => Owned(V)
               /\ Guarded(W) /\ W.attached = None => Guarded(V)
<1> DEFINE V == DeleteSession(W)
           c == W.session.conn
<1>1. /\ V \in Worlds
      /\ V.sent = [W.sent EXCEPT ![c] = "start"]
      /\ V.tcp = [W.tcp EXCEPT ![c] = "closed"]
      /\ V.rx = [W.rx EXCEPT ![c] = <<>>] /\ V.attached = W.attached
      /\ V.session.conn = None /\ V.session.state = "SESSION_CLOSE"
  BY DeleteFields, NoSessionType
<1>2. /\ W.tcp \in [Conns -> {"closed", "pending", "open", "down"}]
      /\ W.rx \in [Conns -> Seq(Kinds)] /\ W.sent \in [Conns -> Stages]
  BY DEF Worlds
<1> HIDE DEF V
<1>3. Owned(W) => Owned(V)
  BY <1>1, <1>2 DEF Owned
<1>4. \A d \in Conns : HasAuth(V, d) => d # c /\ HasAuth(W, d)
  BY <1>1, <1>2 DEF HasAuth
<1>5. Guarded(W) /\ W.attached = None => Guarded(V)
  BY <1>1, <1>2, <1>4 DEF Guarded
<1> QED
  BY <1>1, <1>3, <1>5 DEF V

\* Detaching leaves no terminal attached.
LEMMA DetachKeeps ==
    ASSUME NEW W \in Worlds
    PROVE  LET V == Detach(W)
           IN  /\ Keeps(W, V) /\ V.session = W.session /\ V.sent = W.sent /\ V.tcp = W.tcp
               /\ Guarded(W) => V.attached = None
<1> DEFINE V == Detach(W)
<1>1. /\ V \in Worlds
      /\ V.sent = W.sent /\ V.tcp = W.tcp
      /\ V.rx = W.rx /\ V.session = W.session
      /\ V.attached = IF W.attached = W.session.conn THEN None ELSE W.attached
  BY DetachFields
<1> HIDE DEF V
<1>2. Guarded(W) => V.attached = None
  BY <1>1 DEF Guarded
<1>3. Keeps(W, V)
  BY <1>1 DEF Keeps, Owned, Guarded, KeepsOrDeletes, HasAuth
<1> QED
  BY <1>1, <1>2, <1>3 DEF V

\* closeSession without interruption.
LEMMA CloseKeeps ==
    ASSUME NEW W \in Worlds, W.session.conn \in Conns
    PROVE  LET V == DeleteSession(Detach(W))
           IN  Keeps(W, V) /\ V.session.conn = None /\ (Guarded(W) => V.attached = None)
<1> DEFINE D == Detach(W)
<1>1. /\ Keeps(W, D) /\ D.session = W.session
      /\ Guarded(W) => D.attached = None
  BY DetachKeeps
<1> HIDE DEF D
<1>2. D \in Worlds /\ D.session.conn \in Conns
  BY <1>1 DEF Keeps
<1> QED
  BY <1>1, <1>2, DeleteKeeps DEF Keeps, KeepsOrDeletes, D

\* The entry of handle() either has a session, and then works on it, or
\* accepts the pending connection.
LEMMA EntryKeeps ==
    ASSUME NEW W \in Worlds
    PROVE  LET E == HandleEntry(W)
           IN  /\ Keeps(W, E)
               /\ E.sent = W.sent /\ E.attached = W.attached
               /\ W.session.conn # None => Calm(W, E)
               /\ W.session.conn = None =>
                     E.session.conn = W.pending /\ (W.pending # None => E.session.state = "VEX_RECV")
<1> DEFINE E == HandleEntry(W)
           A == AcceptPending(W)
<1>1. CASE W.session.conn # None
  <2>1. W.session.conn \in Conns
    BY <1>1 DEF Worlds, Sessions
  <2>2. E \in {W, IdleReap(W)}
    BY <1>1 DEF HandleEntry, AcceptPending
  <2>3. Calm(W, E)
    BY <2>1, <2>2, IdleReapCalm DEF Calm, SameLinks
  <2> HIDE DEF E
  <2>4. Keeps(W, E) /\ E.sent = W.sent /\ E.attached = W.attached
    BY <2>3, CalmKeeps DEF Calm, SameLinks
  <2> QED
    BY <1>1, <2>3, <2>4 DEF E
<1>2. CASE W.session.conn = None /\ W.pending = None
  <2>1. E = W
    BY <1>2 DEF HandleEntry, AcceptPending, Connected
  <2> QED
    BY <1>2, <2>1 DEF Keeps, KeepsOrDeletes
<1>3. CASE W.session.conn = None /\ W.pending # None
  <2>1. /\ A \in Worlds /\ A.sent = W.sent /\ A.attached = W.attached
        /\ A.session.conn = W.pending /\ A.session.state = "VEX_RECV"
    BY <1>3, AcceptFields, Zenon
  <2>2. Keeps(W, A)
    BY <1>3, AcceptKeeps
  <2>3. E = A
    <3> HIDE DEF A
    <3>1. IdleReap(A) = A
      BY <2>1 DEF IdleReap
    <3> QED
      BY <3>1 DEF HandleEntry, A
  <2> HIDE DEF A
  <2> QED
    BY <1>3, <2>1, <2>2, <2>3
<1> QED
  BY <1>1, <1>2, <1>3

\* The connection and the state of a session.
LEMMA ConnOf ==
    ASSUME NEW W \in Worlds
    PROVE  W.session.conn \in Conns \cup {None} /\ W.session.state \in SessionStates
BY DEF Worlds, Sessions

\* A session that must be closed is found so by the next call.
LEMMA MustCloseEntry ==
    ASSUME NEW W \in Worlds, MustClose(W)
    PROVE  HandleEntry(W) = W
<1>1. W.session.conn # None /\ AcceptPending(W) = W
  BY DEF MustClose, AcceptPending
<1>2. CASE ~Connected(W)
  BY <1>1, <1>2 DEF HandleEntry
<1>3. CASE W.session.state \in EndStates
  <2>1. IdleReap(W) = W
    BY <1>3 DEF IdleReap, EndStates
  <2> QED
    BY <1>1, <2>1 DEF HandleEntry
<1> QED
  BY <1>2, <1>3 DEF MustClose

\* The version exchange ends without a terminal.
LEMMA VersionCalm ==
    ASSUME NEW W \in Worlds, W.session.conn \in Conns
    PROVE  Calm(W, IF NothingToRead(W) THEN AfterVersion(W, FALSE) ELSE ReadVersion(W))
<1>1. Calm(W, AfterVersion(W, FALSE))
  BY AfterVersionCalm, Zenon DEF Calm, SameLinks
<1>2. ~NothingToRead(W) => Calm(W, ReadVersion(W))
  BY ReadVersionCalm DEF NothingToRead
<1> QED
  BY <1>1, <1>2, Zenon

\* handle() serves the message at the head of the stream.
LEMMA HeadKeeps ==
    ASSUME NEW E \in Worlds, E.session.conn \in Conns, E.rx[E.session.conn] # <<>>,
           NEW V \in Serve(DropHead(E), E.session.state, Head(E.rx[E.session.conn]))
    PROVE  Keeps(E, V)
<1> DEFINE c == E.session.conn
           msg == Head(E.rx[c])
           D == DropHead(E)
<1>1. Calm(E, D) /\ Keeps(E, D)
  BY TailCalm, CalmKeeps
<1>2. E.rx[c] \in Seq(Kinds)
  BY DEF Worlds
<1>3. msg = "auth" => HasAuth(E, c)
  BY <1>2 DEF HasAuth
<1>4. Guarded(E) /\ (msg = "auth" \/ E.session.state = "CHANNEL_REQUEST") => E.sent[c] \in LoggedIn
  BY <1>3 DEF Guarded
<1> HIDE DEF D, msg
<1>5. D \in Worlds /\ D.session.conn = c /\ D.sent = E.sent
  BY <1>1 DEF Calm, SameLinks
<1>6. /\ Gains(D, V)
      /\ msg = "auth" \/ E.session.state = "CHANNEL_REQUEST" \/ Calm(D, V)
  BY <1>5, ServeEffect, ConnOf DEF D, msg
<1>7. CASE Calm(D, V)
  BY <1>1, <1>5, <1>7, CalmKeeps, KeepsTransitive
<1>8. CASE msg = "auth" \/ E.session.state = "CHANNEL_REQUEST"
  <2>1. Gains(E, V)
    BY <1>1, <1>6 DEF Gains, Calm, SameLinks
  <2> QED
    BY <1>4, <1>8, <2>1, GainsKeeps
<1> QED
  BY <1>6, <1>7, <1>8

\* The call of the accept callback: what it does when it finds a session that
\* must be closed, and when it finds none, is what closeSession relies on.
LEMMA WholeHandleKeeps ==
    ASSUME NEW W \in Worlds, NEW V \in WholeHandle(W)
    PROVE  /\ Keeps(W, V)
           /\ MustClose(W) /\ Guarded(W) => V.session.conn = None /\ V.attached = None
           /\ W.session.conn = None /\ W.attached = None => V.attached = None
<1> DEFINE E == HandleEntry(W)
<1>1. /\ Keeps(W, E)
      /\ E.sent = W.sent /\ E.attached = W.attached
      /\ W.session.conn # None => Calm(W, E)
      /\ W.session.conn = None =>
            E.session.conn = W.pending /\ (W.pending # None => E.session.state = "VEX_RECV")
  BY EntryKeeps
<1>2. E \in Worlds
  BY <1>1 DEF Keeps
<1>3. W.session.conn = None \/ (E.session.conn = W.session.conn /\ E.sent = W.sent)
  BY <1>1 DEF Calm, SameLinks
<1>4. \/ E.session.conn = None /\ V = E
      \/ E.session.conn # None /\ MustClose(E) /\ V = DeleteSession(Detach(E))
      \/ /\ E.session.conn # None /\ ~MustClose(E) /\ E.session.state = "VEX_RECV"
         /\ V = IF NothingToRead(E) THEN AfterVersion(E, FALSE) ELSE ReadVersion(E)
      \/ /\ E.session.conn # None /\ ~MustClose(E) /\ E.session.state \in SendStates
         /\ E.session.state # "VEX_RECV" /\ V \in Serve(E, E.session.state, "none")
      \/ E.session.conn # None /\ E.session.state # "VEX_RECV" /\ ~MustClose(E) /\ V = E
      \/ /\ E.session.conn # None /\ ~MustClose(E) /\ E.session.state # "VEX_RECV"
         /\ WholePacket(E)
         /\ V \in Serve(DropHead(E), E.session.state, Head(E.rx[E.session.conn]))
      \/ /\ E.session.conn # None /\ ~MustClose(E) /\ E.session.state # "VEX_RECV"
         /\ V = BadPacket(E)
  BY Zenon DEF WholeHandle
<1>5. MustClose(W) => E = W /\ W.session.conn # None
  BY MustCloseEntry DEF MustClose
<1> HIDE DEF E
<1>c. E.session.conn # None => E.session.conn \in Conns
  BY <1>2, ConnOf
<1>6. Keeps(E, V)
  <2>1. CASE V = E
    BY <1>2, <2>1 DEF Keeps, KeepsOrDeletes
  <2>2. CASE E.session.conn # None /\ V = DeleteSession(Detach(E))
    BY <1>2, <1>c, <2>2, CloseKeeps
  <2>3. CASE E.session.conn # None /\ V = IF NothingToRead(E) THEN AfterVersion(E, FALSE) ELSE ReadVersion(E)
    BY <1>2, <1>c, <2>3, VersionCalm, CalmKeeps, Zenon
  <2>4. CASE /\ E.session.conn # None /\ E.session.state \in SendStates
             /\ V \in Serve(E, E.session.state, "none")
    <3>1. E.session.state \in SessionStates /\ E.session.state # "CHANNEL_REQUEST" /\ "none" # "auth"
      BY <2>4 DEF SendStates, SessionStates
    <3> QED
      BY <1>2, <1>c, <2>4, <3>1, ServeEffect, CalmKeeps
  <2>5. CASE /\ E.session.conn # None /\ WholePacket(E)
             /\ V \in Serve(DropHead(E), E.session.state, Head(E.rx[E.session.conn]))
    <3>1. E.rx[E.session.conn] # <<>>
      BY <2>5 DEF WholePacket
    <3> QED
      BY <1>2, <1>c, <2>5, <3>1, HeadKeeps
  <2>6. CASE E.session.conn # None /\ V = BadPacket(E)
    BY <1>2, <1>c, <2>6, BadPacketCalm, CalmKeeps
  <2> QED
    BY <1>4, <2>1, <2>2, <2>3, <2>4, <2>5, <2>6, Zenon
<1>7. Keeps(W, V)
  BY <1>1, <1>3, <1>6, KeepsTransitive
<1>8. MustClose(W) /\ Guarded(W) => V.session.conn = None /\ V.attached = None
  BY <1>4, <1>5, <1>c, CloseKeeps
<1>9. W.session.conn = None /\ W.attached = None => V.attached = None
  <2> SUFFICES ASSUME W.session.conn = None, W.attached = None PROVE V.attached = None
    OBVIOUS
  <2>1. CASE V = E
    BY <1>1, <2>1
  <2>2. CASE E.session.conn # None /\ E.session.state = "VEX_RECV"
             /\ V = IF NothingToRead(E) THEN AfterVersion(E, FALSE) ELSE ReadVersion(E)
    BY <1>1, <1>2, <1>c, <2>2, VersionCalm, Zenon DEF Calm
  <2>3. CASE E.session.conn # None /\ MustClose(E) /\ V = DeleteSession(Detach(E))
    <3> DEFINE D == Detach(E)
    <3>1. D \in Worlds /\ D.session = E.session /\ D.attached = None
      BY <1>1, <1>2, DetachFields
    <3> HIDE DEF D
    <3> QED
      BY <1>c, <2>3, <3>1, DeleteKeeps DEF D
  <2> QED
    BY <1>1, <1>4, <2>1, <2>2, <2>3, Zenon
<1> QED
  BY <1>7, <1>8, <1>9

\* A call in the middle of a packet keeps the session or deletes it.
LEMMA MidPacketKeeps ==
    ASSUME NEW W \in Worlds, W.session.conn # None, NEW r \in HandleMidPacket(W)
    PROVE  Keeps(W, r.world) /\ r.stolen \in BOOLEAN
<1> DEFINE E == HandleEntry(W)
<1>1. Keeps(W, E) /\ Calm(W, E)
  BY EntryKeeps
<1>2. \/ MustClose(E) /\ r = [world |-> DeleteSession(Detach(E)), stolen |-> FALSE]
      \/ r = [world |-> E, stolen |-> FALSE]
      \/ /\ E.session.conn \notin {d \in Conns : E.rx[d] = <<>>}
         /\ r \in {[world |-> ReadVersion(E), stolen |-> TRUE], [world |-> BadPacket(E), stolen |-> TRUE]}
  BY DEF HandleMidPacket
<1> HIDE DEF E
<1>3. E \in Worlds /\ E.session.conn = W.session.conn /\ E.sent = W.sent
  BY <1>1 DEF Calm, SameLinks
<1>4. E.session.conn \in Conns
  BY <1>3, ConnOf
<1>5. Keeps(E, r.world)
  <2>1. CASE r.world = E
    BY <1>3, <2>1 DEF Keeps, KeepsOrDeletes
  <2>2. CASE r.world = DeleteSession(Detach(E))
    BY <1>3, <1>4, <2>2, CloseKeeps
  <2>3. CASE E.rx[E.session.conn] # <<>> /\ r.world \in {ReadVersion(E), BadPacket(E)}
    BY <1>3, <1>4, <2>3, ReadVersionCalm, BadPacketCalm, CalmKeeps
  <2> QED
    BY <1>2, <1>4, <2>1, <2>2, <2>3
<1>6. r.stolen \in BOOLEAN
  <2>1. r.stolen = FALSE \/ r.stolen = TRUE
    BY <1>2
  <2> QED
    BY <2>1, Zenon
<1>7. Keeps(W, r.world)
  BY <1>1, <1>3, <1>5, KeepsTransitive
<1> QED
  BY <1>6, <1>7

\* A connection that arrives is pending, not open.
LEMMA OnAcceptKeeps ==
    ASSUME NEW W \in Worlds, NEW c \in Conns
    PROVE  LET V == OnAccept(W, c)
           IN  /\ Keeps(W, V)
               /\ V.session = W.session /\ V.sent = W.sent /\ V.attached = W.attached
               /\ MustClose(W) => MustClose(V)
<1> DEFINE f == [d \in Conns |-> IF d = c THEN "pending"
                                 ELSE IF d = W.pending THEN "closed" ELSE W.tcp[d]]
           V == [W EXCEPT !.tcp = f, !.pending = c]
<1>1. f \in [Conns -> {"closed", "pending", "open", "down"}]
  BY DEF Worlds
<1>2. \A d \in Conns : f[d] = "open" => W.tcp[d] = "open"
  OBVIOUS
<1>3. V = OnAccept(W, c)
  BY DEF OnAccept
<1> HIDE DEF f
<1>4. /\ V \in Worlds /\ V.tcp = f /\ V.session = W.session /\ V.sent = W.sent
      /\ V.attached = W.attached /\ V.rx = W.rx
  BY <1>1, Zenon DEF Worlds
<1> HIDE DEF V
<1>5. Keeps(W, V)
  BY <1>2, <1>4 DEF Keeps, KeepsOrDeletes, Owned, Guarded, HasAuth
<1>6. MustClose(W) => MustClose(V)
  BY <1>2, <1>4, ConnOf DEF MustClose, Connected
<1> QED
  BY <1>3, <1>4, <1>5, <1>6

-----------------------------------------------------------------------------
(* Steps of the network, which leave the calls alone.                      *)

\* A client that has logged in stays so.
LEMMA FollowLogin ==
    ASSUME NEW st \in Stages, NEW m \in Follow[st]
    PROVE  m \in Stages /\ (st \in LoggedIn => m \in LoggedIn)
BY DEF Follow, Stages, LoggedIn

\* What a step of the network keeps.
Outside(W, V) ==
    /\ V \in Worlds
    /\ Owned(W) => Owned(V)
    /\ Guarded(W) => Guarded(V)
    /\ V.session.conn = W.session.conn /\ V.attached = W.attached
    /\ \A c \in Conns : W.sent[c] \in LoggedIn => V.sent[c] \in LoggedIn
    /\ MustClose(W) => MustClose(V)

\* A client sends: the right password makes it logged in.
LEMMA SendOutside ==
    ASSUME w \in Worlds, NEW c \in Conns, NEW m \in Kinds, NEW p \in Parts, Send(c, m, p)
    PROVE  Outside(w, w')
<1>1. /\ w' = [w EXCEPT !.rx[c] = Append(@, m), !.part[c] = p, !.sent[c] = m, !.reply[c] = "none"]
      /\ m \in Follow[w.sent[c]]
  BY DEF Send
<1>2. w.sent[c] \in Stages /\ w.rx[c] \in Seq(Kinds) /\ w.sent \in [Conns -> Stages]
      /\ w.rx \in [Conns -> Seq(Kinds)]
  BY DEF Worlds
<1>3. m \in Stages /\ (w.sent[c] \in LoggedIn => m \in LoggedIn)
  BY <1>1, <1>2, FollowLogin
<1> DEFINE q == Append(w.rx[c], m)
<1>4. q \in Seq(Kinds) /\ Len(q) = Len(w.rx[c]) + 1 /\ q[Len(q)] = m
      /\ \A i \in 1 .. Len(w.rx[c]) : q[i] = w.rx[c][i]
  BY <1>2
<1>5. w' = [w EXCEPT !.rx[c] = q, !.part[c] = p, !.sent[c] = m, !.reply[c] = "none"]
  BY <1>1 DEF Worlds
<1> HIDE DEF q
<1>6. /\ w'.tcp = w.tcp /\ w'.session = w.session /\ w'.attached = w.attached
      /\ w'.sent = [w.sent EXCEPT ![c] = m] /\ w'.rx = [w.rx EXCEPT ![c] = q]
  BY <1>5 DEF Worlds
<1>7. w' \in Worlds
  BY <1>3, <1>4, <1>5, Zenon DEF Worlds
<1>8. \A d \in Conns : w.sent[d] \in LoggedIn => w'.sent[d] \in LoggedIn
  BY <1>2, <1>3, <1>6
<1>9. \A d \in Conns : HasAuth(w', d) => HasAuth(w, d) \/ (d = c /\ m = "auth")
  <2> SUFFICES ASSUME NEW d \in Conns, HasAuth(w', d), d = c, m # "auth" PROVE HasAuth(w, c)
    BY <1>2, <1>6 DEF HasAuth
  <2>1. PICK i \in 1 .. Len(q) : q[i] = "auth"
    BY <1>2, <1>6 DEF HasAuth
  <2>2. i \in 1 .. Len(w.rx[c])
    BY <1>2, <1>4, <2>1
  <2> QED
    BY <1>4, <2>1, <2>2 DEF HasAuth
<1>10. m = "auth" => w'.sent[c] \in LoggedIn
  BY <1>2, <1>6 DEF LoggedIn
<1>11. Guarded(w) => Guarded(w')
  BY <1>6, <1>8, <1>9, <1>10, ConnOf DEF Guarded, Worlds
<1>12. (Owned(w) => Owned(w')) /\ (MustClose(w) => MustClose(w'))
  BY <1>6 DEF Owned, MustClose, Connected
<1> QED
  BY <1>6, <1>7, <1>8, <1>11, <1>12 DEF Outside

\* The pending client leaves.
LEMMA LeaveOutside ==
    ASSUME w \in Worlds, NEW c \in Conns, LeavePending(c)
    PROVE  Outside(w, w')
<1>1. w' = [w EXCEPT !.pending = None, !.tcp[c] = "closed"]
  BY DEF LeavePending
<1>2. /\ w'.session = w.session /\ w'.attached = w.attached /\ w'.sent = w.sent
      /\ w'.rx = w.rx /\ w'.tcp = [w.tcp EXCEPT ![c] = "closed"]
      /\ w.tcp \in [Conns -> {"closed", "pending", "open", "down"}]
  BY <1>1 DEF Worlds
<1>3. w' \in Worlds
  BY <1>1, Zenon DEF Worlds
<1>4. Owned(w) => Owned(w')
  BY <1>2 DEF Owned
<1>5. MustClose(w) => MustClose(w')
  BY <1>2, ConnOf DEF MustClose, Connected
<1>6. Guarded(w) => Guarded(w')
  BY <1>2 DEF Guarded, HasAuth
<1> QED
  BY <1>2, <1>3, <1>4, <1>5, <1>6 DEF Outside

\* More bytes of a message arrive.
LEMMA ArriveOutside ==
    ASSUME w \in Worlds, NEW c \in Conns, NEW p \in Parts, Arrive(c, p)
    PROVE  Outside(w, w')
<1>1. w' = [w EXCEPT !.part[c] = p]
  BY DEF Arrive
<1>2. /\ w'.session = w.session /\ w'.attached = w.attached /\ w'.sent = w.sent
      /\ w'.rx = w.rx /\ w'.tcp = w.tcp
  BY <1>1 DEF Worlds
<1>3. w' \in Worlds
  BY <1>1, Zenon DEF Worlds
<1> QED
  BY <1>2, <1>3 DEF Outside, Owned, MustClose, Connected, Guarded, HasAuth

\* The client of the session leaves.
LEMMA DropOutside ==
    ASSUME w \in Worlds, NEW c \in Conns, NEW f \in BOOLEAN, Drop(c, f)
    PROVE  Outside(w, w')
<1> DEFINE q == IF f THEN <<>> ELSE w.rx[c]
           p == IF f THEN "whole" ELSE w.part[c]
<1>1. w' = [w EXCEPT !.tcp[c] = "down", !.rx[c] = q, !.part[c] = p]
  BY DEF Drop, Worlds
<1>2. q \in Seq(Kinds) /\ p \in Parts /\ (q = <<>> \/ q = w.rx[c])
  BY DEF Worlds, Parts
<1> HIDE DEF q, p
<1>3. /\ w'.session = w.session /\ w'.attached = w.attached /\ w'.sent = w.sent
      /\ w'.rx = [w.rx EXCEPT ![c] = q] /\ w'.tcp = [w.tcp EXCEPT ![c] = "down"]
      /\ w.tcp \in [Conns -> {"closed", "pending", "open", "down"}]
      /\ w.rx \in [Conns -> Seq(Kinds)]
  BY <1>1 DEF Worlds
<1>4. w' \in Worlds
  BY <1>1, <1>2, Zenon DEF Worlds
<1>5. (Owned(w) => Owned(w')) /\ (MustClose(w) => MustClose(w'))
  BY <1>3, ConnOf DEF Owned, MustClose, Connected
<1>6. \A d \in Conns : HasAuth(w', d) => HasAuth(w, d)
  BY <1>2, <1>3 DEF HasAuth
<1>7. Guarded(w) => Guarded(w')
  BY <1>3, <1>6 DEF Guarded
<1> QED
  BY <1>3, <1>4, <1>5, <1>7 DEF Outside

\* The clock moves.
LEMMA TickOutside ==
    ASSUME w \in Worlds, Tick
    PROVE  Outside(w, w')
<1> DEFINE s == [w.session EXCEPT !.age = w.session.age + 1]
<1>1. w' = [w EXCEPT !.session = s] /\ w.session.age <= SftpWindow
  BY DEF Tick, Worlds, Sessions
<1>2. w.session \in Sessions
  BY DEF Worlds
<1>3. w.session.age + 1 \in 0 .. SftpWindow + 1
  BY <1>1, <1>2, WindowsAssumption DEF Sessions
<1>4. s \in Sessions /\ s.conn = w.session.conn /\ s.state = w.session.state
  BY <1>2, <1>3 DEF Sessions
<1> HIDE DEF s
<1>5. /\ w'.session = s /\ w'.attached = w.attached /\ w'.sent = w.sent
      /\ w'.rx = w.rx /\ w'.tcp = w.tcp /\ w' \in Worlds
  BY <1>1, <1>4, Zenon DEF Worlds
<1> QED
  BY <1>4, <1>5 DEF Outside, Owned, MustClose, Connected, Guarded, HasAuth

-----------------------------------------------------------------------------
(* The inductive invariants.                                               *)

\* The scheduled call is between yields with a session nobody has deleted.
Busy == pc \in {"parse", "reply"} /\ ~cur.freed

\* The session a call works on is the one there is, until it is marked freed.
LinkInv ==
    /\ TypeOK /\ Owned(w)
    /\ ~up => pc = "idle"
    /\ Busy => cur.conn \in Conns /\ w.session.conn = cur.conn

\* While closeSession waits no terminal is attached: the first call of the
\* callback deletes the session, the second may accept another.
LoginInv ==
    /\ Guarded(w)
    /\ Busy /\ (cur.msg = "auth" \/ cur.state = "CHANNEL_REQUEST") => w.sent[cur.conn] \in LoggedIn
    /\ pc = "close" => /\ w.attached = None
                       /\ cur.calls = 0 => MustClose(w)
                       /\ cur.calls = 1 => w.session.conn = None

\* Steps of the network keep the invariants.
LEMMA OutsideStep ==
    ASSUME LinkInv, Outside(w, w'), UNCHANGED <<pc, cur, up>>
    PROVE  LinkInv' /\ (LoginInv => LoginInv')
<1>1. w' \in Worlds /\ Owned(w') /\ w'.session.conn = w.session.conn /\ w'.attached = w.attached
      /\ (MustClose(w) => MustClose(w')) /\ (Guarded(w) => Guarded(w'))
      /\ \A c \in Conns : w.sent[c] \in LoggedIn => w'.sent[c] \in LoggedIn
  BY DEF Outside, LinkInv
<1>2. pc' = pc /\ cur' = cur /\ up' = up
  OBVIOUS
<1>3. LinkInv'
  BY <1>1, <1>2 DEF LinkInv, TypeOK, Busy, Owned
<1>4. Guarded(w)' = Guarded(w') /\ MustClose(w)' = MustClose(w')
  BY DEF Guarded, MustClose, Connected, HasAuth
<1>5. LoginInv => LoginInv'
  BY <1>1, <1>2, <1>4 DEF LoginInv, LinkInv, Busy
<1> QED
  BY <1>3, <1>5

\* Between two calls there is no work.
LEMMA NoWorkType == NoWork \in Works
BY DEF NoWork, Works, SessionStates, EndStates

\* Between two scheduled calls only the world matters.
LEMMA IdleInv ==
    ASSUME w' \in Worlds, Owned(w'), pc' = "idle", cur' \in Works, up' \in BOOLEAN
    PROVE  LinkInv' /\ (Guarded(w') => LoginInv')
<1>1. Guarded(w)' = Guarded(w')
  BY DEF Guarded, HasAuth
<1> QED
  BY <1>1 DEF LinkInv, LoginInv, TypeOK, Busy, Owned

\* A call that keeps the world keeps the invariants.
LEMMA IdleStep ==
    ASSUME LinkInv, Keeps(w, w'), pc' = "idle", cur' \in Works, up' \in BOOLEAN
    PROVE  LinkInv' /\ (LoginInv => LoginInv')
BY IdleInv DEF Keeps, LinkInv, LoginInv

\* The accept callback, in and between scheduled calls.
LEMMA ConnectStep ==
    ASSUME LinkInv, NEW c \in Conns, Connect(c)
    PROVE  LinkInv' /\ (LoginInv /\ MaxNested <= 2 => LoginInv')
<1> DEFINE W == OnAccept(w, c)
<1>0. w \in Worlds /\ cur \in Works /\ pc \in {"idle", "parse", "reply", "close"} /\ up
  BY DEF LinkInv, TypeOK, Connect
<1>1. /\ Keeps(w, W) /\ W.session = w.session /\ W.sent = w.sent /\ W.attached = w.attached
      /\ MustClose(w) => MustClose(W)
  BY <1>0, OnAcceptKeeps
<1>2. PICK r \in IF pc = "parse" /\ ~cur.freed THEN HandleMidPacket(W)
                 ELSE {[world |-> V, stolen |-> FALSE] : V \in WholeHandle(W)} :
         /\ w' = r.world
         /\ cur' = IF pc = "idle" THEN cur ELSE [cur EXCEPT
                      !.calls = @ + 1,
                      !.stolen = @ \/ r.stolen,
                      !.freed = @ \/ (/\ pc \in {"parse", "reply"}
                                      /\ r.world.session.conn = None)]
  BY Zenon DEF Connect
<1>3. pc' = pc /\ up' = up /\ (pc = "close" => cur.calls < MaxNested)
  BY DEF Connect
<1> HIDE DEF W
<1>4. W \in Worlds
  BY <1>1 DEF Keeps
<1>5. pc = "parse" /\ ~cur.freed => Keeps(W, w') /\ r.stolen \in BOOLEAN
  <2> SUFFICES ASSUME pc = "parse", ~cur.freed PROVE Keeps(W, w') /\ r.stolen \in BOOLEAN
    OBVIOUS
  <2>1. W.session.conn # None
    BY <1>1, WindowsAssumption DEF LinkInv, Busy
  <2> QED
    BY <1>2, <1>4, <2>1, MidPacketKeeps
<1>6. ~(pc = "parse" /\ ~cur.freed) => w' \in WholeHandle(W) /\ r.stolen = FALSE
  BY <1>2
<1>7. Keeps(w, w') /\ r.stolen \in BOOLEAN
  <2>1. Keeps(W, w') /\ r.stolen \in BOOLEAN
    BY <1>4, <1>5, <1>6, WholeHandleKeeps, Zenon
  <2> QED
    BY <1>1, <2>1, KeepsTransitive
<1>8. CASE pc = "idle"
  BY <1>0, <1>2, <1>3, <1>7, <1>8, IdleStep
<1>9. CASE pc # "idle"
  <2> DEFINE gone == pc \in {"parse", "reply"} /\ w'.session.conn = None
  <2>1. cur' = [cur EXCEPT !.calls = cur.calls + 1, !.stolen = cur.stolen \/ r.stolen,
                           !.freed = cur.freed \/ gone]
    BY <1>0, <1>2, <1>9 DEF Works
  <2>2. /\ cur'.conn = cur.conn /\ cur'.msg = cur.msg /\ cur'.state = cur.state
        /\ cur'.calls = cur.calls + 1 /\ cur'.freed = (cur.freed \/ gone)
    BY <1>0, <2>1, Zenon DEF Works
  <2>3. cur' \in Works
    <3>1. /\ cur.calls + 1 \in Nat
          /\ (cur.stolen \/ r.stolen) \in BOOLEAN /\ (cur.freed \/ gone) \in BOOLEAN
      BY <1>0 DEF Works
    <3> HIDE DEF gone
    <3> QED
      BY <1>0, <2>1, <3>1, Zenon DEF Works
  <2>4. Busy' => Busy /\ w'.session.conn # None
    BY <1>3, <2>2, Zenon DEF Busy
  <2>5. Busy' => cur.conn \in Conns /\ w'.session.conn = cur.conn /\ w'.sent = w.sent
    BY <1>7, <2>4, WindowsAssumption DEF Keeps, KeepsOrDeletes, LinkInv
  <2>6. w' \in Worlds /\ Owned(w') /\ (Guarded(w) => Guarded(w'))
    BY <1>7 DEF Keeps, LinkInv
  <2>7. LinkInv'
    BY <1>0, <1>3, <2>2, <2>3, <2>5, <2>6 DEF LinkInv, TypeOK, Owned
  <2>8. ASSUME LoginInv, MaxNested <= 2 PROVE LoginInv'
    <3>1. Guarded(w) /\ Guarded(w)' /\ Guarded(W)
      BY <1>1, <2>6, <2>8 DEF LoginInv, Guarded, HasAuth, Keeps
    <3>2. ASSUME pc = "close"
          PROVE  w'.attached = None /\ (cur.calls + 1 = 1 => w'.session.conn = None)
      <4>1. cur.calls \in {0, 1}
        BY <1>0, <1>3, <2>8, <3>2, WindowsAssumption DEF Works
      <4>2. w' \in WholeHandle(W)
        BY <1>6, <3>2
      <4>3. CASE cur.calls = 0
        BY <1>1, <1>4, <2>8, <3>1, <3>2, <4>2, <4>3, WholeHandleKeeps DEF LoginInv
      <4>4. CASE cur.calls = 1
        BY <1>1, <1>4, <2>8, <3>2, <4>2, <4>4, WholeHandleKeeps DEF LoginInv
      <4> QED
        BY <4>1, <4>3, <4>4
    <3>3. cur.calls + 1 # 0
      BY <1>0 DEF Works
    <3>4. Busy' /\ (cur.msg = "auth" \/ cur.state = "CHANNEL_REQUEST") => w'.sent[cur.conn] \in LoggedIn
      BY <2>4, <2>5, <2>8 DEF LoginInv
    <3> QED
      BY <1>3, <2>2, <3>1, <3>2, <3>3, <3>4, SMTT(30) DEF LoginInv
  <2> QED
    BY <2>7, <2>8
<1> QED
  BY <1>8, <1>9

\* The deferred close.
LEMMA DeferredStep ==
    ASSUME LinkInv, NEW c \in Conns, DeferredClose(c)
    PROVE  LinkInv' /\ (LoginInv => LoginInv')
<1> DEFINE S == w.timer \ {c}
           W == [w EXCEPT !.timer = S]
<1>0. w \in Worlds /\ cur \in Works /\ pc = "idle" /\ up \in BOOLEAN /\ UNCHANGED <<pc, cur, up>>
  BY DEF LinkInv, TypeOK, DeferredClose
<1>1. \/ w' = W
      \/ /\ W.session.conn # None
         /\ w' \in {SetState(SendClose(W, TRUE), "SESSION_CLOSE"), SetState(W, "SESSION_CLOSE")}
  BY Zenon DEF DeferredClose
<1>2. S \in SUBSET Conns
  BY <1>0 DEF Worlds
<1> HIDE DEF S
<1>3. Calm(w, W)
  BY <1>0, <1>2, TimerCalm
<1> HIDE DEF W
<1>4. W \in Worlds /\ (W.session.conn # None => W.session.conn \in Conns)
  BY <1>3, ConnOf DEF Calm, SameLinks
<1>5. W.session.conn # None => Calm(w, SendClose(W, TRUE))
  BY <1>3, <1>4, SendCloseCalm, CalmTransitive, Zenon
<1>6. "SESSION_CLOSE" \in SessionStates
  BY DEF SessionStates, EndStates
<1>7. Calm(w, w')
  BY <1>0, <1>1, <1>3, <1>5, <1>6, SetStateCalm, Zenon
<1> QED
  BY <1>0, <1>7, CalmKeeps, IdleStep

\* The scheduled call up to its first yield.
LEMMA HandleStep ==
    ASSUME LinkInv, Handle
    PROVE  LinkInv' /\ (LoginInv => LoginInv')
<1> DEFINE E == HandleEntry(w)
           work(msg) == [conn |-> E.session.conn, state |-> E.session.state, msg |-> msg,
                         stolen |-> FALSE, freed |-> FALSE, calls |-> 0]
           hd == Head(E.rx[E.session.conn])
<1>0. w \in Worlds /\ cur \in Works /\ up' = up /\ up = TRUE /\ pc = "idle"
  BY DEF LinkInv, TypeOK, Handle
<1>1. Keeps(w, E)
  BY <1>0, EntryKeeps
<1>2. /\ E.session.conn # None
      /\ \/ MustClose(E) /\ pc' = "close" /\ w' = Detach(E) /\ cur' = work("none")
         \/ E.session.state \in SendStates /\ pc' = "reply" /\ w' = E /\ cur' = work("none")
         \/ w' \in {AfterVersion(E, FALSE), E} /\ UNCHANGED <<pc, cur>>
         \/ ~NothingToRead(E) /\ pc' = "parse" /\ w' = E /\ cur' = work(hd)
  BY Zenon DEF Handle
<1> HIDE DEF E
<1>3. /\ E \in Worlds /\ Owned(E) /\ (Guarded(w) => Guarded(E))
      /\ E.session.conn \in Conns /\ E.session.state \in SessionStates
  BY <1>1, <1>2, ConnOf DEF Keeps, LinkInv
<1>4. CASE MustClose(E) /\ pc' = "close" /\ w' = Detach(E) /\ cur' = work("none")
  <2>1. /\ Keeps(E, w') /\ w'.session = E.session /\ w'.tcp = E.tcp
        /\ Guarded(E) => w'.attached = None
    BY <1>3, <1>4, DetachKeeps
  <2>2. cur' \in Works /\ cur'.calls = 0
    BY <1>3, <1>4 DEF Works
  <2>3. MustClose(w)'
    BY <1>4, <2>1, SMTT(30) DEF MustClose, Connected
  <2>4. w' \in Worlds /\ Owned(w)' /\ (Guarded(E) => Guarded(w)')
    BY <1>3, <2>1 DEF Keeps, Owned, Guarded, HasAuth
  <2>5. LinkInv'
    BY <1>0, <1>4, <2>2, <2>4 DEF LinkInv, TypeOK, Busy
  <2>6. LoginInv => LoginInv'
    BY <1>3, <1>4, <2>1, <2>2, <2>3, <2>4 DEF LoginInv, Busy
  <2> QED
    BY <2>5, <2>6
<1>5. ASSUME pc' \in {"parse", "reply"}, w' = E, NEW m \in Kinds \cup {"none"}, cur' = work(m),
             Guarded(E) /\ (m = "auth" \/ E.session.state = "CHANNEL_REQUEST")
                 => E.sent[E.session.conn] \in LoggedIn
      PROVE  LinkInv' /\ (LoginInv => LoginInv')
  <2>1. cur' \in Works /\ cur'.conn = E.session.conn /\ cur'.msg = m /\ cur'.state = E.session.state
    BY <1>3, <1>5 DEF Works
  <2>2. Owned(w)' /\ (Guarded(E) => Guarded(w)')
    BY <1>3, <1>5 DEF Owned, Guarded, HasAuth
  <2>3. LinkInv'
    BY <1>0, <1>3, <1>5, <2>1, <2>2, SMTT(30) DEF LinkInv, TypeOK
  <2>4. LoginInv => LoginInv'
    BY <1>3, <1>5, <2>1, <2>2, SMTT(30) DEF LoginInv
  <2> QED
    BY <2>3, <2>4
<1>6. CASE E.session.state \in SendStates /\ pc' = "reply" /\ w' = E /\ cur' = work("none")
  <2>1. E.session.state # "CHANNEL_REQUEST" /\ "none" # "auth"
    BY <1>6 DEF SendStates
  <2> QED
    BY <1>5, <1>6, <2>1
<1>7. CASE w' \in {AfterVersion(E, FALSE), E} /\ UNCHANGED <<pc, cur>>
  <2>0. Calm(E, E)
    BY <1>3 DEF Calm, SameLinks
  <2>1. Calm(E, w')
    BY <1>3, <1>7, <2>0, AfterVersionCalm, Zenon
  <2>2. Keeps(E, w')
    BY <1>3, <2>1, CalmKeeps
  <2>3. w' \in Worlds /\ Owned(w') /\ (Guarded(w) => Guarded(w'))
    BY <1>3, <2>2 DEF Keeps
  <2> QED
    BY <1>0, <1>7, <2>3, IdleInv DEF LoginInv
<1>8. CASE ~NothingToRead(E) /\ pc' = "parse" /\ w' = E /\ cur' = work(hd)
  <2>1. E.rx[E.session.conn] \in Seq(Kinds) /\ E.rx[E.session.conn] # <<>>
    BY <1>3, <1>8 DEF NothingToRead, Worlds
  <2>2. hd \in Kinds /\ hd = E.rx[E.session.conn][1] /\ 1 \in 1 .. Len(E.rx[E.session.conn])
    BY <2>1
  <2>3. hd = "auth" => HasAuth(E, E.session.conn)
    BY <2>2 DEF HasAuth
  <2>4. Guarded(E) /\ (hd = "auth" \/ E.session.state = "CHANNEL_REQUEST")
          => E.sent[E.session.conn] \in LoggedIn
    BY <1>3, <2>3 DEF Guarded
  <2> HIDE DEF hd
  <2> QED
    BY <1>5, <1>8, <2>2, <2>4
<1> QED
  BY <1>2, <1>4, <1>6, <1>7, <1>8, Zenon

\* The scheduled call after it has read a packet.
LEMMA ParseEndStep ==
    ASSUME LinkInv, ParseEnd
    PROVE  LinkInv' /\ (LoginInv => LoginInv')
<1> DEFINE c == w.session.conn
           F == [w EXCEPT !.rx[c] = <<>>, !.part[c] = "whole"]
<1>0. /\ w \in Worlds /\ cur \in Works /\ up' = up /\ up = TRUE /\ pc = "parse" /\ ~cur.freed
      /\ Busy /\ c \in Conns /\ cur.conn = c
  BY DEF LinkInv, TypeOK, ParseEnd, Busy
<1>1. \/ /\ w' = IF cur.stolen \/ NothingToRead(w) THEN AfterVersion(F, cur.stolen) ELSE ReadVersion(w)
         /\ pc' = "idle" /\ cur' = NoWork
      \/ WholePacket(w) /\ pc' = "reply" /\ w' = DropHead(w) /\ UNCHANGED cur
      \/ pc' = "idle" /\ cur' = NoWork /\ w' = BadPacket(w)
  BY <1>0 DEF ParseEnd
<1>2. Calm(w, w')
  <2>1. ~ \E i \in 1 .. Len(<<>>) : <<>>[i] = "auth"
    OBVIOUS
  <2>2. <<>> \in Seq(Kinds) /\ "whole" \in Parts /\ cur.stolen \in BOOLEAN
    BY <1>0 DEF Parts, Works
  <2>3. Calm(w, F)
    BY <1>0, <2>1, <2>2, StreamCalm, Zenon
  <2>4. Calm(w, AfterVersion(F, cur.stolen))
    BY <1>0, <2>2, <2>3, AfterVersionCalm
  <2>5. ~NothingToRead(w) \/ WholePacket(w) => w.rx[c] # <<>>
    BY DEF NothingToRead, WholePacket
  <2> HIDE DEF F
  <2> QED
    BY <1>0, <1>1, <2>4, <2>5, ReadVersionCalm, TailCalm, BadPacketCalm
<1>3. Keeps(w, w')
  BY <1>0, <1>2, CalmKeeps
<1>4. CASE pc' = "idle" /\ cur' = NoWork
  BY <1>0, <1>3, <1>4, NoWorkType, IdleStep
<1>5. CASE pc' = "reply" /\ UNCHANGED cur
  <2>1. /\ w' \in Worlds /\ w'.session.conn = w.session.conn /\ w'.sent = w.sent
        /\ Owned(w)' /\ (Guarded(w) => Guarded(w)')
    BY <1>2, <1>3 DEF Keeps, LinkInv, Calm, SameLinks, Owned, Guarded, HasAuth
  <2>2. LinkInv'
    BY <1>0, <1>5, <2>1 DEF LinkInv, TypeOK
  <2>3. LoginInv => LoginInv'
    BY <1>0, <1>5, <2>1 DEF LoginInv
  <2> QED
    BY <2>2, <2>3, SMTT(30)
<1> QED
  BY <1>1, <1>4, <1>5

\* The scheduled call after the yields of its replies.
LEMMA ReplyStep ==
    ASSUME LinkInv, Reply
    PROVE  LinkInv' /\ (LoginInv => LoginInv')
<1>0. /\ w \in Worlds /\ cur \in Works /\ up' = up /\ up = TRUE /\ pc' = "idle" /\ cur' = NoWork
      /\ Busy /\ w.session.conn \in Conns /\ cur.conn = w.session.conn
  BY DEF LinkInv, TypeOK, Reply, Busy
<1>1. cur.state \in SessionStates
  BY <1>0 DEF Works
<1>2. /\ Gains(w, w')
      /\ cur.msg = "auth" \/ cur.state = "CHANNEL_REQUEST" \/ Calm(w, w')
  BY <1>0, <1>1, ServeEffect DEF Reply
<1>3. w' \in Worlds /\ Owned(w')
  BY <1>2 DEF Gains, SameLinks, Owned, LinkInv
<1>4. LoginInv => Guarded(w')
  <2> SUFFICES ASSUME LoginInv PROVE Guarded(w')
    OBVIOUS
  <2>1. CASE Calm(w, w')
    BY <1>0, <2>1, CalmKeeps DEF Keeps, LoginInv
  <2>2. CASE cur.msg = "auth" \/ cur.state = "CHANNEL_REQUEST"
    BY <1>0, <1>2, <2>2, GainsKeeps DEF Keeps, LoginInv
  <2> QED
    BY <1>2, <2>1, <2>2
<1> QED
  BY <1>0, <1>3, <1>4, NoWorkType, IdleInv

\* closeSession after its wait.
LEMMA CloseEndStep ==
    ASSUME LinkInv, CloseEnd
    PROVE  LinkInv' /\ (LoginInv => LoginInv')
<1>0. /\ w \in Worlds /\ up' = up /\ up = TRUE /\ pc = "close" /\ pc' = "idle" /\ cur' = NoWork
      /\ w' = DeleteSession(w)
  BY DEF LinkInv, TypeOK, CloseEnd
<1>1. CASE w.session.conn = None
  <2>1. w' = w
    BY <1>0, <1>1 DEF DeleteSession
  <2> QED
    BY <1>0, <2>1, NoWorkType, IdleInv DEF LinkInv, LoginInv
<1>2. CASE w.session.conn \in Conns
  <2>1. w' \in Worlds /\ Owned(w') /\ (LoginInv => Guarded(w'))
    BY <1>0, <1>2, DeleteKeeps DEF LinkInv, LoginInv
  <2> QED
    BY <1>0, <2>1, NoWorkType, IdleInv
<1> QED
  BY <1>0, <1>1, <1>2, ConnOf

\* The state after a start of the device.
LEMMA InitialSound == InitialWorld \in Worlds /\ Owned(InitialWorld) /\ Guarded(InitialWorld)
<1>1. "start" \in Stages /\ "whole" \in Parts /\ <<>> \in Seq(Kinds)
  BY SMTT(30) DEF Stages, Parts, Follow
<1>2. InitialWorld \in Worlds
  BY <1>1, NoSessionType DEF InitialWorld, Worlds
<1>3. Owned(InitialWorld)
  BY SMTT(30) DEF InitialWorld, Owned
<1>4. Guarded(InitialWorld)
  BY NoSessionType, SMTT(30) DEF InitialWorld, Guarded, HasAuth
<1> QED
  BY <1>2, <1>3, <1>4

\* The invariants hold at the start.
LEMMA InvInit == Init => LinkInv /\ LoginInv
BY InitialSound, NoWorkType DEF Init, LinkInv, LoginInv, TypeOK, Busy

\* Every step keeps the invariants.
LEMMA InvStep ==
    ASSUME LinkInv, [Next]_vars
    PROVE  LinkInv' /\ (LoginInv /\ MaxNested <= 2 => LoginInv')
<1>0. w \in Worlds
  BY DEF LinkInv, TypeOK
<1>1. ASSUME NEW c \in Conns, Connect(c) PROVE LinkInv' /\ (LoginInv /\ MaxNested <= 2 => LoginInv')
  BY <1>1, ConnectStep
<1>2. ASSUME NEW c \in Conns, LeavePending(c) PROVE LinkInv' /\ (LoginInv => LoginInv')
  BY <1>0, <1>2, LeaveOutside, OutsideStep, Zenon DEF LeavePending
<1>3. ASSUME NEW c \in Conns, DeferredClose(c) PROVE LinkInv' /\ (LoginInv => LoginInv')
  BY <1>3, DeferredStep
<1>4. ASSUME NEW c \in Conns, NEW p \in Parts, NEW m \in Kinds, Send(c, m, p)
      PROVE  LinkInv' /\ (LoginInv => LoginInv')
  BY <1>0, <1>4, SendOutside, OutsideStep, Zenon DEF Send
<1>5. ASSUME NEW c \in Conns, NEW p \in Parts, Arrive(c, p) PROVE LinkInv' /\ (LoginInv => LoginInv')
  BY <1>0, <1>5, ArriveOutside, OutsideStep DEF Arrive
<1>6. ASSUME NEW c \in Conns, NEW f \in BOOLEAN, Drop(c, f) PROVE LinkInv' /\ (LoginInv => LoginInv')
  BY <1>0, <1>6, DropOutside, OutsideStep, Zenon DEF Drop
<1>7. CASE Handle
  BY <1>7, HandleStep
<1>8. CASE UseAfterFree
  BY <1>8, <1>0, NoWorkType, IdleInv, Zenon DEF UseAfterFree, LinkInv, LoginInv
<1>9. CASE ParseEnd
  BY <1>9, ParseEndStep
<1>10. CASE Reply
  BY <1>10, ReplyStep
<1>11. CASE CloseEnd
  BY <1>11, CloseEndStep
<1>12. CASE Tick
  BY <1>0, <1>12, TickOutside, OutsideStep DEF Tick
<1>13. CASE Restart
  BY <1>13, InitialSound, IdleInv, SMTT(30) DEF Restart, LinkInv, TypeOK
<1>14. CASE UNCHANGED vars
  BY <1>14 DEF vars, LinkInv, LoginInv, TypeOK, Busy, Owned, Guarded, HasAuth, MustClose, Connected
<1> QED
  BY <1>1, <1>2, <1>3, <1>4, <1>5, <1>6, <1>7, <1>8, <1>9, <1>10, <1>11, <1>12, <1>13, <1>14, SMTT(30) DEF Next

\* LinkInv is an invariant.
LEMMA LinkAlways == Spec => []LinkInv
<1>1. Init => LinkInv
  BY InvInit
<1>2. LinkInv /\ [Next]_vars => LinkInv'
  BY InvStep
<1> QED
  BY <1>1, <1>2, PTL DEF Spec

\* LoginInv is one while two calls at most fit in the wait of closeSession.
LEMMA LoginAlways == ASSUME MaxNested <= 2 PROVE Spec => []LoginInv
<1>1. Init => LoginInv
  BY InvInit
<1>2. LinkInv /\ LoginInv /\ [Next]_vars => LoginInv'
  BY InvStep
<1> QED
  BY <1>1, <1>2, LinkAlways, PTL DEF Spec

\* The state of the SSH server keeps its types, channels included: whenever
\* handle() stands at a yield, a channel is unused or established.
THEOREM ServerTypes == Spec => []TypeOK
<1>1. LinkInv => TypeOK
  BY DEF LinkInv
<1> QED
  BY <1>1, LinkAlways, PTL

\* For any number of clients, and of calls of the accept callback while
\* closeSession waits, every connection the server has accepted belongs to
\* its session: none stays open with nobody to close it.
THEOREM ConnectionsOwned == Spec => []NoConnectionLeaks
<1>1. LinkInv => NoConnectionLeaks
  BY DEF LinkInv, Owned, NoConnectionLeaks
<1> QED
  BY <1>1, LinkAlways, PTL

\* With at most two connections during the 5 ms that closeSession waits, a
\* terminal in the session table belongs to the session the server has.
THEOREM TerminalsLive == ASSUME MaxNested <= 2 PROVE Spec => []TerminalIsLive
<1>1. LoginInv => TerminalIsLive
  BY DEF LoginInv, Guarded, TerminalIsLive
<1> QED
  BY <1>1, LoginAlways, PTL

\* Under the same assumption a session takes channel messages, and its
\* terminal is attached, only if its client has sent the right password on
\* that very connection.
THEOREM LoginFirst == ASSUME MaxNested <= 2 PROVE Spec => []ChannelNeedsLogin
<1>1. LoginInv => ChannelNeedsLogin
  BY DEF LoginInv, Guarded, ChannelNeedsLogin
<1> QED
  BY <1>1, LoginAlways, PTL
=============================================================================
