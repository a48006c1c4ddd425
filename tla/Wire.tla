-------------------------------- MODULE Wire --------------------------------
(***************************************************************************)
(* What becomes of a message between the gateway's handlers and a client:  *)
(* NetMessage, which copies share once it is long, and MyFilter, in which  *)
(* the I/O thread of a session encrypts what is sent and decrypts what is  *)
(* received.  The first message of a session, the challenge, goes out      *)
(* plain, with the random numbers its box is formed with; the client       *)
(* (User.py) changes its table accordingly.                                *)
(*                                                                         *)
(* Handlers run in the main thread and in that of the broker client, each  *)
(* session in an I/O thread of its own.  One byte stands for the text of a *)
(* message behind its id.  Session.tla has the queues and their ends.      *)
(***************************************************************************)
EXTENDS Box

CONSTANTS
    Sessions,
    Texts,          \* bytes
    Randoms,        \* what getBoxofRandoms may return: sequences of 2 * EXCHANGETIMES bytes
    SendSizes,      \* sizes of messages to clients
    AskSizes,       \* and from clients
    MaxMessages,    \* bound on the messages to clients after the challenge
    MaxAsked,       \* bound on the messages of a client
    NoByte

kDynamicThreshold == 128
MaxSize == 65535        \* of a message MyFilter::Write accepts, and the largest Header

ASSUME WireAssumption ==
    /\ IsFiniteSet(Sessions) /\ Texts \subseteq Bytes /\ NoByte \notin Bytes
    /\ MaxMessages \in Nat /\ MaxAsked \in Nat
ASSUME RandomsAssumption ==
    \A r \in Randoms : r \in Seq(Bytes) /\ Len(r) > 0 /\ Len(r) % 2 = 0
ASSUME SizesAssumption == \A z \in SendSizes \cup AskSizes : z \in Nat /\ z >= 3

VARIABLES
    vectors,    \* the DynamicVectors, each one byte
    outbox,     \* the handler's messages_to_be_sent_
    batch,      \* the session's messages_to_be_sent_, in MyFilter::Write
    phase,      \* what encrypt does next with the first of them
    byte,       \* the byte it has read and not yet written back
    pBox,       \* the random numbers that made pBox
    down,       \* bytes to the client, a frame a message
    up,         \* bytes from the client
    table,      \* the random numbers that changed the client's table
    broken,     \* process() of the client has raised
    sent, got, asked, heard     \* per session: what was and what has come

wireVars == <<vectors, outbox, batch, phase, byte, pBox, down, up, table, broken, sent, got,
              asked, heard>>
gateway == <<vectors, outbox, batch, phase, byte, pBox>>
client == <<table, broken, got, asked>>

NoRandoms == <<>>
Messages == UNION {{<<s, n>> : n \in DOMAIN sent[s]} : s \in Sessions}

\* All boxes and tables the run may need.
Boxes == [r \in Randoms |-> FormNewBoxes(r)]
Tables == [r \in Randoms |-> SwithTable(r)]
Encrypted(s, b) == Boxes[pBox[s]][b]
-----------------------------------------------------------------------------
\* NetMessage::Write and the copies Send makes: up to the threshold each copy has its
\* bytes, beyond it all copies have the same vector.
IsDynamic(m) == m.size > kDynamicThreshold
Message(kind, n, size, text) == [kind |-> kind, n |-> n, size |-> size, data |-> text]

\* OnConnect sends the challenge before anything else is sent.  Its number is not
\* looked at here.
WireInit ==
    /\ vectors = <<>>
    /\ outbox = [s \in Sessions |-> <<Message("challenge", 0, 5, 0)>>]
    /\ batch = [s \in Sessions |-> <<>>] /\ phase = [s \in Sessions |-> "read"]
    /\ byte = [s \in Sessions |-> NoByte] /\ pBox = [s \in Sessions |-> NoRandoms]
    /\ down = [s \in Sessions |-> <<>>] /\ up = [s \in Sessions |-> <<>>]
    /\ table = [s \in Sessions |-> NoRandoms] /\ broken = [s \in Sessions |-> FALSE]
    /\ sent = [s \in Sessions |-> <<>>] /\ got = [s \in Sessions |-> <<>>]
    /\ asked = [s \in Sessions |-> <<>>] /\ heard = [s \in Sessions |-> <<>>]

\* SendMessage sends a new NetMessage to one player, handler_in_gateway one NetMessage
\* to all the players a worker named.
Send(S, size, text) ==
    /\ Cardinality(Messages) + Cardinality(S) <= MaxMessages
    /\ LET data == IF size > kDynamicThreshold THEN Len(vectors) + 1 ELSE text
       IN outbox' = [s \in Sessions |->
             IF s \in S THEN Append(outbox[s], Message("response", Len(sent[s]) + 1, size, data))
             ELSE outbox[s]]
    /\ vectors' = IF size > kDynamicThreshold THEN Append(vectors, text) ELSE vectors
    /\ sent' = [s \in Sessions |->
             IF s \in S THEN Append(sent[s], [text |-> text, size |-> size,
                                              shared |-> Cardinality(S) > 1])
             ELSE sent[s]]
    /\ UNCHANGED <<batch, phase, byte, pBox, down, up, client, heard>>

\* PostMessageList: the messages that PackMessageList found together.
PostMessageList(s) ==
    /\ batch[s] = <<>>
    /\ \E k \in 1..Len(outbox[s]) :
         /\ batch' = [batch EXCEPT ![s] = SubSeq(outbox[s], 1, k)]
         /\ outbox' = [outbox EXCEPT ![s] = SubSeq(@, k + 1, Len(@))]
    /\ UNCHANGED <<vectors, phase, byte, pBox, down, up, client, sent, heard>>

\* buffer.insert of header and message; then the loop goes on.
Inserted(s, m, text, randoms) ==
    /\ down' = [down EXCEPT ![s] =
         Append(@, [size |-> m.size, n |-> m.n, text |-> text, randoms |-> randoms])]
    /\ batch' = [batch EXCEPT ![s] = Tail(@)]

\* MyFilter::Write of the challenge: the box is formed and its random numbers sent.
WriteChallenge(s) ==
    /\ batch[s] # <<>> /\ Head(batch[s]).kind = "challenge"
    /\ \E r \in Randoms :
         /\ pBox' = [pBox EXCEPT ![s] = r]
         /\ Inserted(s, Head(batch[s]), Head(batch[s]).data, r)
    /\ UNCHANGED <<vectors, outbox, phase, byte, up, client, sent, heard>>

Writes(s) == batch[s] # <<>> /\ Head(batch[s]).kind = "response"

\* A message that is too large ends Write, and PostMessageList clears the messages
\* behind it too.
WriteTooLarge(s) ==
    /\ Writes(s) /\ Head(batch[s]).size > MaxSize
    /\ batch' = [batch EXCEPT ![s] = <<>>]
    /\ UNCHANGED <<vectors, outbox, phase, byte, pBox, down, up, client, sent, heard>>

\* Bytes of the copy's own: nobody else sees them change.
WriteStatic(s) ==
    /\ Writes(s) /\ ~IsDynamic(Head(batch[s]))
    /\ Inserted(s, Head(batch[s]), Encrypted(s, Head(batch[s]).data), NoRandoms)
    /\ UNCHANGED <<vectors, outbox, phase, byte, pBox, up, client, sent, heard>>

\* A vector is encrypted in place, in[index] = box[in[index]], and then inserted; other
\* I/O threads may be at the same bytes.
Dynamic(s, p) ==
    /\ Writes(s) /\ IsDynamic(Head(batch[s])) /\ Head(batch[s]).size <= MaxSize
    /\ phase[s] = p

EncryptReads(s) ==
    /\ Dynamic(s, "read")
    /\ byte' = [byte EXCEPT ![s] = vectors[Head(batch[s]).data]]
    /\ phase' = [phase EXCEPT ![s] = "write"]
    /\ UNCHANGED <<vectors, outbox, batch, pBox, down, up, client, sent, heard>>

EncryptWrites(s) ==
    /\ Dynamic(s, "write")
    /\ vectors' = [vectors EXCEPT ![Head(batch[s]).data] = Encrypted(s, byte[s])]
    /\ byte' = [byte EXCEPT ![s] = NoByte]
    /\ phase' = [phase EXCEPT ![s] = "insert"]
    /\ UNCHANGED <<outbox, batch, pBox, down, up, client, sent, heard>>

InsertDynamic(s) ==
    /\ Dynamic(s, "insert")
    /\ Inserted(s, Head(batch[s]), vectors[Head(batch[s]).data], NoRandoms)
    /\ phase' = [phase EXCEPT ![s] = "read"]
    /\ UNCHANGED <<vectors, outbox, byte, pBox, up, client, sent, heard>>
-----------------------------------------------------------------------------
\* produceData: the client writes header and id plain and the text with its table.
Asks(s, r, size, text) ==
    /\ asked' = [asked EXCEPT ![s] = Append(@, [text |-> text, size |-> size])]
    /\ up' = [up EXCEPT ![s] = Append(@, [text |-> Tables[r][text], size |-> size])]

\* changeEncryptBox: with the first message the table is changed and the answer sent.
ClientStarts(s) ==
    /\ down[s] # <<>> /\ table[s] = NoRandoms
    /\ down' = [down EXCEPT ![s] = Tail(@)]
    /\ table' = [table EXCEPT ![s] = Head(down[s]).randoms]
    /\ \E b \in Texts, z \in AskSizes : Asks(s, Head(down[s]).randoms, z, b)
    /\ UNCHANGED <<gateway, broken, got, sent, heard>>

\* process: the length is read as a signed short; with a negative one struct raises.
Negative(size) == size > 32767
ClientReads(s) ==
    /\ down[s] # <<>> /\ table[s] # NoRandoms /\ ~broken[s]
    /\ LET f == Head(down[s]) IN
       IF Negative(f.size)
       THEN broken' = [broken EXCEPT ![s] = TRUE] /\ UNCHANGED <<down, got>>
       ELSE /\ down' = [down EXCEPT ![s] = Tail(@)]
            /\ got' = [got EXCEPT ![s] = Append(@, [n |-> f.n, text |-> Tables[table[s]][f.text]])]
            /\ UNCHANGED broken
    /\ UNCHANGED <<gateway, up, table, sent, asked, heard>>

ClientAsks(s, size, text) ==
    /\ table[s] # NoRandoms /\ ~broken[s] /\ Len(asked[s]) < MaxAsked
    /\ Asks(s, table[s], size, text)
    /\ UNCHANGED <<gateway, down, table, broken, got, sent, heard>>

\* MyFilter::Read: a message of three bytes or fewer is taken as it is.
Decrypts(size) == size > 3 /\ size < MaxSize
Read(s) ==
    /\ up[s] # <<>>
    /\ LET f == Head(up[s]) IN
       heard' = [heard EXCEPT ![s] =
         Append(@, IF Decrypts(f.size) THEN Encrypted(s, f.text) ELSE f.text)]
    /\ up' = [up EXCEPT ![s] = Tail(@)]
    /\ UNCHANGED <<gateway, down, client, sent>>

WireNext ==
    \/ \E S \in SUBSET Sessions \ {{}}, z \in SendSizes, b \in Texts : Send(S, z, b)
    \/ \E s \in Sessions :
         \/ PostMessageList(s) \/ WriteChallenge(s) \/ WriteTooLarge(s) \/ WriteStatic(s)
         \/ EncryptReads(s) \/ EncryptWrites(s) \/ InsertDynamic(s)
         \/ ClientStarts(s) \/ ClientReads(s) \/ Read(s)
         \/ \E z \in AskSizes, b \in Texts : ClientAsks(s, z, b)

WireSpec == WireInit /\ [][WireNext]_wireVars
-----------------------------------------------------------------------------
AtRest(s) == outbox[s] = <<>> /\ batch[s] = <<>> /\ (down[s] = <<>> \/ broken[s])

\* Readable: gateway and client keep tables that undo each other, whatever numbers were
\* drawn, from the first message on and with messages of both on their way: what a
\* client reads is what its handler sent, in order, what the handler gets is what
\* the client asked, and nothing is missing at rest.  Excepted are the long messages
\* that several sessions share, requests of three bytes, which are not decrypted,
\* and everything behind a message the header is too small for.
Readable ==
    \A s \in Sessions :
        /\ \A i \in DOMAIN got[s] :
             LET m == sent[s][got[s][i].n] IN
             /\ i > 1 => got[s][i - 1].n < got[s][i].n
             /\ ~(m.shared /\ IsDynamic(m)) => got[s][i].text = m.text
        /\ \A i \in DOMAIN heard[s] :
             Decrypts(asked[s][i].size) => heard[s][i] = asked[s][i].text
        /\ AtRest(s) /\ (\A n \in DOMAIN sent[s] : ~Negative(sent[s][n].size)) =>
             Len(got[s]) = Len(sent[s])

\* SharedArrives: a NetMessage that is changed while copies of it share its bytes is
\* copied first, so that each player named by a worker reads what the worker sent.
SharedArrives ==
    \A s \in Sessions : \A i \in DOMAIN got[s] : got[s][i].text = sent[s][got[s][i].n].text
=============================================================================
