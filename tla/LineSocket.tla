----------------------------- MODULE LineSocket -----------------------------
(***************************************************************************)
(* The control socket below its messages: SessionSocketServer (daemon.py), *)
(* SessionSocketClient (session.py), encode_message and decode_message     *)
(* (ipc.py) on a Unix stream socket, and the parts of the two main loops   *)
(* that call them.                                                         *)
(*                                                                         *)
(* A message is a line of one or more pieces of which the last ends in the *)
(* newline.  Both ends are non-blocking: sendall writes piece by piece and *)
(* gives up when the kernel's buffer is full or the peer has closed, having*)
(* written part of the line; recv returns whatever is there, which may end *)
(* inside a line.                                                          *)
(***************************************************************************)
EXTENDS Integers, Sequences, SequencesExt

CONSTANTS
    MaxConns,   \* connections the session makes
    MaxSent,    \* messages each end sends
    MaxSize,    \* pieces in a line
    Capacity,   \* pieces the kernel holds for a reader
    Chunk       \* pieces one recv returns at most

ASSUME LineAssumption ==
    /\ {MaxConns, MaxSize, Capacity, Chunk} \subseteq Nat \ {0}
    /\ MaxSent \in Nat

VARIABLES
    conns,      \* connections made so far
    fd,         \* the connection an end uses, or 0
    open,       \* the ends that have not closed a connection
    backlog,    \* connections the daemon has not accepted
    wire,       \* pieces written by an end on a connection, not yet received
    out,        \* what sendall still has to write
    reading,    \* the end is in read_messages
    buffer,     \* received pieces of a line without its newline
    batch,      \* decoded messages not yet handled
    ipc_error,  \* an end met a line that does not decode
    sent,       \* messages written completely, by sender
    delivered   \* messages handled, by sender

vars == <<conns, fd, open, backlog, wire, out, reading, buffer, batch, ipc_error, sent,
          delivered>>

Ends == {"daemon", "session"}

Peer(e) == IF e = "daemon" THEN "session" ELSE "daemon"

Connections == 1 .. MaxConns

-----------------------------------------------------------------------------
(* Lines. *)

Piece == [number : 1 .. MaxSent, part : 1 .. MaxSize, size : 1 .. MaxSize]

\* encode_message
Encode(n, size) == [k \in 1 .. size |-> [number |-> n, part |-> k, size |-> size]]

EndsLine(p) == p.part = p.size

\* Mutant of LastNewline: `if b"\n" in self.buffer` for `while`, so that a chunk
\* gives one line at most.
FirstNewline(s) ==
    LET ends == {i \in DOMAIN s : EndsLine(s[i])}
    IN  IF ends = {} THEN 0 ELSE Min(ends)

\* The position of the last newline, or 0.
LastNewline(s) == Max({0} \union {i \in DOMAIN s : EndsLine(s[i])})

\* What a pass of the split loop takes out of the buffer, and what it leaves.
Complete(s) == SubSeq(s, 1, LastNewline(s))
Rest(s) == SubSeq(s, LastNewline(s) + 1, Len(s))

\* The messages of the lines in s: one for each newline.
Decoded(s) ==
    LET upTo[i \in 0 .. Len(s)] ==
          IF i = 0 THEN <<>>
          ELSE IF EndsLine(s[i]) THEN Append(upTo[i - 1], s[i].number) ELSE upTo[i - 1]
    IN  upTo[Len(s)]

\* decode_message accepts each line of s: all its pieces follow each other.
Decodes(s) ==
    \A i \in DOMAIN s :
      IF s[i].part = 1 THEN i = 1 \/ EndsLine(s[i - 1])
      ELSE i > 1 /\ s[i - 1] = [s[i] EXCEPT !.part = @ - 1]

-----------------------------------------------------------------------------
(* Closing. *)

\* The kernel's part of close(): what was written to e on these connections and
\* not received is gone, what e wrote stays readable.
Hangup(e, cs) ==
    /\ open' = [c \in Connections |-> IF c \in cs THEN open[c] \ {e} ELSE open[c]]
    /\ wire' = [c \in Connections |->
                  IF c \in cs THEN [wire[c] EXCEPT ![Peer(e)] = <<>>] ELSE wire[c]]

\* Mutant of CloseClient: what was read of the last line stays.
CloseKeepsBuffer(e) ==
    /\ fd' = [fd EXCEPT ![e] = 0]
    /\ Hangup(e, {fd[e]})
    /\ UNCHANGED buffer

\* close_client, close
CloseClient(e) ==
    /\ fd' = [fd EXCEPT ![e] = 0]
    /\ Hangup(e, {fd[e]})
    /\ buffer' = [buffer EXCEPT ![e] = <<>>]

-----------------------------------------------------------------------------
(* Connecting. *)

AtRest(e) == out[e] = <<>> /\ ~reading[e] /\ batch[e] = <<>>

\* connect, which waits for a place in the backlog of listen(1), and the start
\* of session_ready's sendall.
Connect ==
    /\ fd["session"] = 0 /\ AtRest("session")
    /\ conns < MaxConns /\ Len(backlog) < 2 /\ sent["session"] < MaxSent
    /\ conns' = conns + 1
    /\ fd' = [fd EXCEPT !["session"] = conns + 1]
    /\ open' = [open EXCEPT ![conns + 1] = Ends]
    /\ backlog' = Append(backlog, conns + 1)
    /\ \E size \in 1 .. MaxSize :
         out' = [out EXCEPT !["session"] = Encode(sent["session"] + 1, size)]
    /\ UNCHANGED <<wire, reading, buffer, batch, ipc_error, sent, delivered>>

\* accept_pending
Accept ==
    /\ fd["daemon"] = 0 /\ AtRest("daemon") /\ backlog # <<>>
    /\ fd' = [fd EXCEPT !["daemon"] = Head(backlog)]
    /\ backlog' = Tail(backlog)
    /\ buffer' = [buffer EXCEPT !["daemon"] = <<>>]
    /\ UNCHANGED <<conns, open, wire, out, reading, batch, ipc_error, sent, delivered>>

-----------------------------------------------------------------------------
(* Sending. *)

\* send_message: of a response to a handled message, of tick or of poll_console.
Send(e) ==
    /\ fd[e] # 0 /\ out[e] = <<>> /\ ~reading[e] /\ sent[e] < MaxSent
    /\ \E size \in 1 .. MaxSize : out' = [out EXCEPT ![e] = Encode(sent[e] + 1, size)]
    /\ UNCHANGED <<conns, fd, open, backlog, wire, reading, buffer, batch, ipc_error, sent,
                   delivered>>

\* The kernel takes another piece from e.
Room(e) == Peer(e) \in open[fd[e]] /\ Len(wire[fd[e]][e]) < Capacity

WritePiece(e) ==
    /\ out[e] # <<>> /\ Room(e)
    /\ wire' = [wire EXCEPT ![fd[e]][e] = Append(@, Head(out[e]))]
    /\ out' = [out EXCEPT ![e] = Tail(@)]
    /\ sent' = [sent EXCEPT ![e] = IF Len(out[e]) = 1 THEN @ + 1 ELSE @]
    /\ UNCHANGED <<conns, fd, open, backlog, reading, buffer, batch, ipc_error, delivered>>

\* Mutant of WriteFails: the message is skipped, the connection kept.
WriteSkips(e) ==
    /\ out[e] # <<>> /\ ~Room(e)
    /\ out' = [out EXCEPT ![e] = <<>>]
    /\ batch' = [batch EXCEPT ![e] = <<>>]
    /\ UNCHANGED <<conns, fd, open, backlog, wire, buffer, reading, ipc_error, sent, delivered>>

\* sendall raises BlockingIOError or BrokenPipeError: the client is closed, and
\* the main loop drops the messages it has not handled.
WriteFails(e) ==
    /\ out[e] # <<>> /\ ~Room(e)
    /\ CloseClient(e)
    /\ out' = [out EXCEPT ![e] = <<>>]
    /\ batch' = [batch EXCEPT ![e] = <<>>]
    /\ UNCHANGED <<conns, backlog, reading, ipc_error, sent, delivered>>

\* send_message without a connection, for a message the daemon read just before
\* the end of file.
SendRefused(e) ==
    /\ fd[e] = 0 /\ ~reading[e] /\ batch[e] # <<>>
    /\ batch' = [batch EXCEPT ![e] = <<>>]
    /\ UNCHANGED <<conns, fd, open, backlog, wire, out, reading, buffer, ipc_error, sent,
                   delivered>>

-----------------------------------------------------------------------------
(* Receiving. *)

MayRead(e) == fd[e] # 0 /\ out[e] = <<>> /\ (reading[e] \/ batch[e] = <<>>)

\* What recv finds on the connection of e.
Incoming(e) == wire[fd[e]][Peer(e)]

\* One pass of read_messages' loop: a chunk, then every line it completes.  A
\* line that does not decode raises IPCError, which nobody catches.
Recv(e) ==
    /\ MayRead(e) /\ Incoming(e) # <<>>
    /\ LET n == Min({Chunk, Len(Incoming(e))})
           bytes == buffer[e] \o SubSeq(Incoming(e), 1, n)
       IN  /\ wire' = [wire EXCEPT ![fd[e]][Peer(e)] = SubSeq(@, n + 1, Len(@))]
           /\ buffer' = [buffer EXCEPT ![e] = Rest(bytes)]
           /\ batch' = [batch EXCEPT ![e] = @ \o Decoded(Complete(bytes))]
           /\ ipc_error' = (ipc_error \/ ~Decodes(Complete(bytes)))
    /\ reading' = [reading EXCEPT ![e] = TRUE]
    /\ UNCHANGED <<conns, fd, open, backlog, out, sent, delivered>>

\* recv would block: read_messages returns what it has.
WouldBlock(e) ==
    /\ MayRead(e) /\ Incoming(e) = <<>> /\ Peer(e) \in open[fd[e]]
    /\ reading' = [reading EXCEPT ![e] = FALSE]
    /\ UNCHANGED <<conns, fd, open, backlog, wire, out, buffer, batch, ipc_error, sent,
                   delivered>>

\* End of file.  The daemon still handles what it read with it, the session
\* does not.
Eof(e) ==
    /\ MayRead(e) /\ Incoming(e) = <<>> /\ Peer(e) \notin open[fd[e]]
    /\ CloseClient(e)
    /\ reading' = [reading EXCEPT ![e] = FALSE]
    /\ batch' = [batch EXCEPT ![e] = IF e = "session" THEN <<>> ELSE @]
    /\ UNCHANGED <<conns, backlog, out, ipc_error, sent, delivered>>

\* handle_session_message, handle_daemon_message
Handle(e) ==
    /\ ~reading[e] /\ out[e] = <<>> /\ batch[e] # <<>>
    /\ batch' = [batch EXCEPT ![e] = Tail(@)]
    /\ delivered' = [delivered EXCEPT ![Peer(e)] = Append(@, Head(batch[e]))]
    /\ UNCHANGED <<conns, fd, open, backlog, wire, out, reading, buffer, ipc_error, sent>>

-----------------------------------------------------------------------------
(* A process is killed, anywhere, and started again.  With the daemon its     *)
(* listening socket goes, and the connections waiting there.                  *)

Kill(e) ==
    /\ fd[e] # 0
    /\ fd' = [fd EXCEPT ![e] = 0]
    /\ Hangup(e, {fd[e]} \union (IF e = "daemon" THEN Range(backlog) ELSE {}))
    /\ backlog' = IF e = "daemon" THEN <<>> ELSE backlog
    /\ out' = [out EXCEPT ![e] = <<>>]
    /\ reading' = [reading EXCEPT ![e] = FALSE]
    /\ buffer' = [buffer EXCEPT ![e] = <<>>]
    /\ batch' = [batch EXCEPT ![e] = <<>>]
    /\ UNCHANGED <<conns, ipc_error, sent, delivered>>

\* A pass of the main loop that finds nothing to do.
Idle(e) == fd[e] = 0 /\ AtRest(e) /\ UNCHANGED vars

Init ==
    /\ conns = 0 /\ backlog = <<>> /\ ipc_error = FALSE
    /\ fd = [e \in Ends |-> 0]
    /\ open = [c \in Connections |-> {}]
    /\ wire = [c \in Connections |-> [e \in Ends |-> <<>>]]
    /\ out = [e \in Ends |-> <<>>] /\ reading = [e \in Ends |-> FALSE]
    /\ buffer = [e \in Ends |-> <<>>] /\ batch = [e \in Ends |-> <<>>]
    /\ sent = [e \in Ends |-> 0] /\ delivered = [e \in Ends |-> <<>>]

\* What a main loop does by itself, over and over.
Loop(e) ==
    \/ WritePiece(e) \/ WriteFails(e) \/ SendRefused(e)
    \/ Recv(e) \/ WouldBlock(e) \/ Eof(e) \/ Handle(e)
    \/ e = "daemon" /\ Accept

Next == Connect \/ \E e \in Ends : Loop(e) \/ Send(e) \/ Kill(e) \/ Idle(e)

\* Both loops run for as long as their process does.
Spec == Init /\ [][Next]_vars /\ \A e \in Ends : WF_vars(Loop(e))

-----------------------------------------------------------------------------
(* Properties. *)

\* The pieces begin a line and do not end it.
Unfinished(s) == \A i \in DOMAIN s : ~EndsLine(s[i])

\* The types of the variables.  What read_messages leaves in a buffer is part of a
\* connection's next line: never a whole message, which nobody would handle before
\* the peer sends another, and nothing once the connection is closed.
TypeOK ==
    /\ conns \in 0 .. MaxConns
    /\ fd \in [Ends -> 0 .. MaxConns]
    /\ open \in [Connections -> SUBSET Ends]
    /\ backlog \in Seq(Connections)
    /\ wire \in [Connections -> [Ends -> Seq(Piece)]]
    /\ out \in [Ends -> Seq(Piece)] /\ buffer \in [Ends -> Seq(Piece)]
    /\ reading \in [Ends -> BOOLEAN] /\ ipc_error \in BOOLEAN
    /\ batch \in [Ends -> Seq(1 .. MaxSent)] /\ delivered \in [Ends -> Seq(1 .. MaxSent)]
    /\ sent \in [Ends -> 0 .. MaxSent]
    /\ \A e \in Ends : Unfinished(buffer[e]) /\ (fd[e] = 0 => buffer[e] = <<>>)

\* A line cut off by a full buffer, a closed peer or a killed process is never
\* joined to the first line of the next connection: no end ever reads a line
\* that does not decode, which would end its process.
NoGarble == ~ipc_error

\* The messages on the connection of r, and those on the connections it will
\* accept next.
Current(r) == IF fd[r] = 0 THEN <<>> ELSE Decoded(buffer[r] \o Incoming(r))

Waiting(r) ==
    IF r = "session" THEN <<>>
    ELSE FlattenSeq([i \in DOMAIN backlog |-> Decoded(wire[backlog[i]][Peer(r)])])

\* The messages of e still to be handled, those its peer has read first.
UnderWay(e) == batch[Peer(e)] \o Current(Peer(e)) \o Waiting(Peer(e))

Pipe == INSTANCE MessagePipe
          WITH holds <- [e \in Ends |-> fd[e] # 0],
               queue <- [e \in Ends |-> UnderWay(e)]

\* The byte stream keeps the promise of MessagePipe: whole messages, in order,
\* lost only with the reader's connection, and otherwise handled in the end.
ImplementsPipe == Pipe!Spec
=============================================================================
