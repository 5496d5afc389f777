------------------------------ MODULE Memcached ------------------------------
(***************************************************************************)
(* The memcached front end of silomcd: AppMain loads TPC-C, warms up the    *)
(* workers on every core and then listens; each connection is pinned to a   *)
(* core, cuts the byte stream into requests and answers them, and every GET *)
(* runs a TPC-C transaction on the core's worker.                           *)
(*                                                                          *)
(* A byte is <<j, k>>: byte k of the client's request j.  A request is      *)
(* [op, body]: its opcode and the length of its body.  The table is always  *)
(* empty: the call of Set is commented out.                                 *)
(***************************************************************************)
EXTENDS Integers, Sequences, SequencesExt

CONSTANTS HeadLen,     \* sizeof(protocol_binary_request_header)
          Streams,     \* what clients send: sequences of requests
          Connections,
          NumCores     \* Cpu::Count(): the last core serves no connection

VARIABLES phase,       \* "warm", then "serve"; "abort" after an unsupported opcode
          warm,        \* the cores AppMain has warmed up
          cpu_index,   \* connections accepted
          cpu,         \* the core of each connection, or -1
          stream,      \* what the client of each connection sends
          arrived,     \* the bytes of it that have arrived
          buf_,        \* the chain of buffers with bytes not yet processed
          done,        \* the requests processed (the model's own)
          sent,        \* the replies sent
          ran          \* the transactions each worker has run

mcvars == <<phase, warm, cpu_index, cpu, stream, arrived, buf_, done, sent, ran>>

Message(j, r) == [k \in 1 .. HeadLen + r.body |-> <<j, k>>]

Bytes(s) == FlattenSeq([j \in DOMAIN s |-> Message(j, s[j])])

-----------------------------------------------------------------------------
\* PROTOCOL_BINARY_REQ, the first byte of every request but a broken one.
IsHeader(s, b) == b[2] = 1 /\ s[b[1]].op # "junk"

(* Mutant: the rest of the buffer keeps the last byte of the message. *)
CutLate(chain, message_len) ==
    LET all == FlattenSeq(chain) IN <<SubSeq(all, 1, message_len), <<SubSeq(all, message_len, Len(all))>>>>

\* The first message_len bytes of a longer chain, and the chain that is left: a
\* buffer that holds the end of the message and more is split.
Cut(chain, message_len) ==
    LET upto(i) == Len(FlattenSeq(SubSeq(chain, 1, i)))
        i == CHOOSE n \in DOMAIN chain : upto(n) >= message_len /\ upto(n - 1) < message_len
        n == message_len - upto(i - 1)
        msg == FlattenSeq(SubSeq(chain, 1, i - 1)) \o SubSeq(chain[i], 1, n)
        rest == SubSeq(chain, i + 1, Len(chain))
    IN  <<msg, IF n = Len(chain[i]) THEN rest ELSE <<SubSeq(chain[i], n + 1, Len(chain[i]))>> \o rest>>

\* What ProcessBinary answers; magic stays 0 for the others.
Replies(op) ==
    CASE op \in {"SET", "FLUSH"} -> <<"ok">>
      [] op \in {"GET", "GETK"} -> <<"ENOENT">>
      [] OTHER -> <<>>

RunsTransaction(op) == op \in {"GET", "GETQ", "GETK", "GETKQ"}

Unimplemented(op) ==
    op \notin {"SET", "SETQ", "GET", "GETQ", "GETK", "GETKQ", "QUIT", "QUITQ", "FLUSH", "FLUSHQ"}

(***************************************************************************)
(* The loop of Receive on the chain buf of stream s: [buf, msgs, send], the *)
(* bytes kept, the messages processed, and whether the replies are sent.    *)
(* An unknown first byte returns at once and drops the replies of this call.*)
(***************************************************************************)
RECURSIVE ProcessChain(_, _, _)
ProcessChain(s, buf, msgs) ==
    LET chain_len == Len(FlattenSeq(buf))
        first == buf[1][1]
        message_len == HeadLen + s[first[1]].body
        stop(send) == [buf |-> buf, msgs |-> msgs, send |-> send]
    IN  IF buf = <<>> THEN stop(TRUE)
        ELSE IF ~IsHeader(s, first) THEN stop(FALSE)
        ELSE IF chain_len < HeadLen \/ chain_len < message_len THEN stop(TRUE)
        ELSE IF Unimplemented(s[first[1]].op) THEN [stop(FALSE) EXCEPT !.msgs = Append(@, FlattenSeq(buf))]
        ELSE IF chain_len = message_len THEN ProcessChain(s, <<>>, Append(msgs, FlattenSeq(buf)))
        ELSE LET c == Cut(buf, message_len) IN ProcessChain(s, c[2], Append(msgs, c[1]))

-----------------------------------------------------------------------------
Init ==
    /\ phase = "warm" /\ warm = 0 /\ cpu_index = 0
    /\ cpu = [c \in Connections |-> -1]
    /\ stream \in [Connections -> Streams]
    /\ arrived = [c \in Connections |-> 0]
    /\ buf_ = [c \in Connections |-> <<>>]
    /\ done = [c \in Connections |-> <<>>]
    /\ sent = [c \in Connections |-> <<>>]
    /\ ran = [w \in 0 .. NumCores - 2 |-> 0]

\* AppMain: core warm runs one transaction of every worker, and AppMain blocks
\* until it has; after the last core it listens.
WarmUp ==
    /\ phase = "warm"
    /\ warm' = warm + 1
    /\ phase' = IF warm + 1 = NumCores - 1 THEN "serve" ELSE phase
    /\ ran' = [w \in DOMAIN ran |-> ran[w] + 1]
    /\ UNCHANGED <<cpu_index, cpu, stream, arrived, buf_, done, sent>>

\* Start: a new connection goes to the next core.
Accept(c) ==
    /\ phase = "serve"
    /\ cpu[c] = -1
    /\ cpu' = [cpu EXCEPT ![c] = cpu_index % (NumCores - 1)]
    /\ cpu_index' = cpu_index + 1
    /\ UNCHANGED <<phase, warm, stream, arrived, buf_, done, sent, ran>>

\* TcpSession::Receive of the next n bytes.
Receive(c, n) ==
    LET s == stream[c]
        b == SubSeq(Bytes(s), arrived[c] + 1, arrived[c] + n)
        r == ProcessChain(s, Append(buf_[c], b), <<>>)
        ops == [i \in DOMAIN r.msgs |-> s[r.msgs[i][1][1]].op]
    IN  /\ phase = "serve"
        /\ cpu[c] # -1
        /\ arrived[c] + n <= Len(Bytes(s))
        /\ arrived' = [arrived EXCEPT ![c] = @ + n]
        /\ buf_' = [buf_ EXCEPT ![c] = r.buf]
        /\ done' = [done EXCEPT ![c] = @ \o r.msgs]
        /\ sent' = [sent EXCEPT ![c] = IF r.send THEN @ \o FlattenSeq([i \in DOMAIN ops |-> Replies(ops[i])]) ELSE @]
        /\ ran' = [ran EXCEPT ![cpu[c]] = @ + Len(SelectSeq(ops, RunsTransaction))]
        /\ phase' = IF \E i \in DOMAIN ops : Unimplemented(ops[i]) THEN "abort" ELSE phase
        /\ UNCHANGED <<warm, cpu_index, cpu, stream>>

Next ==
    \/ WarmUp
    \/ \E c \in Connections : Accept(c)
    \/ \E c \in Connections : \E n \in 1 .. Len(Bytes(stream[c])) : Receive(c, n)

Spec == Init /\ [][Next]_mcvars

-----------------------------------------------------------------------------
\* The requests of s that are complete within its first n bytes and come before
\* a broken or unsupported one.
Due(s, n) ==
    LET ok(m) == \A j \in 1 .. m : s[j].op # "junk" /\ ~Unimplemented(s[j].op)
        m == CHOOSE k \in 0 .. Len(s) :
                /\ ok(k) /\ Len(Bytes(SubSeq(s, 1, k))) <= n
                /\ k < Len(s) => ~(ok(k + 1) /\ Len(Bytes(SubSeq(s, 1, k + 1))) <= n)
    IN  m

\* However the network cuts the stream into buffers, the session processes the
\* complete requests, each exactly once, whole and in order, keeps exactly the
\* bytes after them, and sends their replies in order; only a connection that
\* met a broken header may lack the replies of that last call.
RequestsAnswered ==
    \A c \in Connections :
        LET s == stream[c]
            m == Due(s, arrived[c])
            due == FlattenSeq([j \in 1 .. m |-> Replies(s[j].op)])
        IN  phase = "serve" =>
            /\ done[c] = [j \in 1 .. m |-> Message(j, s[j])]
            /\ FlattenSeq(done[c]) \o FlattenSeq(buf_[c]) = SubSeq(Bytes(s), 1, arrived[c])
            /\ IF m < Len(s) /\ s[m + 1].op = "junk" THEN IsPrefix(sent[c], due) ELSE sent[c] = due
=============================================================================
