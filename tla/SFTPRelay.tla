------------------------------- MODULE SFTPRelay -------------------------------
(***************************************************************************)
(* The relay of an SFTP session, sshproxy: copyWithParser in both          *)
(* directions, sftpPacketParser, the two packet handlers and the           *)
(* sftpRelayState they share.                                              *)
(*                                                                         *)
(* A copier writes what it read to the other side before it parses it, so  *)
(* the upstream server may answer a request, and that answer be parsed,    *)
(* before the request is.  A packet is two halves here, since a read may   *)
(* end inside a packet.  Clients are well behaved: request ids are fresh   *)
(* and a client uses the handles it was given until it closes them.        *)
(***************************************************************************)
EXTENDS Naturals, Sequences, FiniteSets, SequencesExt

CONSTANTS Paths,       \* file names
          Asked,       \* the requests by name the client makes: an operation and a path
          NoPath,      \* the empty string
          Handles,     \* handles of the upstream server, numbers
          MaxPackets,  \* bound: requests of the client
          MaxChunk,    \* bound: halves in one read
          MaxLost      \* bound: events whose write fails

ASSUME SFTPAssumption ==
  /\ NoPath \notin Paths
  /\ Asked \subseteq {"open", "opendir", "path", "other"} \X Paths
  /\ Handles \subseteq Nat
  /\ MaxPackets \in Nat /\ MaxChunk \in Nat \ {0} /\ MaxLost \in Nat

VARIABLES
  sent,      \* the requests the client has written; a request's id is its index
  mine,      \* the files behind the handles, as the client knows them
  fwd,       \* halves of requests written to the upstream server
  buf,       \* sftpPacketParser.buf of the client's side
  feeding,   \* the client's copier is inside Feed
  served,    \* requests the upstream server has answered
  files,     \* the files behind the handles, as the server knows them
  replies,   \* the answers of the server
  rfwd,      \* answers written to the client
  rparsed,   \* answers parsed
  pending,   \* sftpRelayState.pending
  handles,   \* sftpRelayState.handles
  fileLog,   \* the calls of WriteEvent for file operations
  overtaken  \* one of the two parsers has been ahead of the other (for the properties)

sftp == <<sent, mine, fwd, buf, feeding, served, files, replies, rfwd, rparsed,
          pending, handles, fileLog, overtaken>>

-------------------------------------------------------------------------------
(***************************************************************************)
(* Packets.  "path" stands for REMOVE, RENAME, MKDIR, RMDIR, STAT, LSTAT,  *)
(* SETSTAT and REALPATH, which name their file and are recorded at once,   *)
(* "other" for the types that the parser does not know (SYMLINK, READLINK, *)
(* FSTAT, FSETSTAT, EXTENDED with its renames and links).  The file of a   *)
(* request by handle, and of another one, is there for the properties.     *)
(***************************************************************************)
ByPath == {"open", "opendir", "path", "other"}
ByHandle == {"read", "write", "readdir", "close"}

Ids == 1 .. MaxPackets

Packet == [op : ByPath \cup ByHandle, path : Paths \cup {NoPath}, handle : Handles \cup {0}]

Reply == [type : {"handle", "data", "status", "name"}, id : Ids, handle : Handles \cup {0}]

None == [op |-> "none", path |-> NoPath, handle |-> 0]

\* sftpPendingRequest, or none under this id.
Pending == [op : {"open", "opendir"}, path : Paths, handle : {0}]
             \cup [op : {"read"}, path : Paths \cup {NoPath}, handle : Handles]
             \cup {None}

\* A file operation to be recorded: the request it stands for, the path it names,
\* whether the client's side found it, and whether the event was written.
Entry == [id : Ids, path : Paths \cup {NoPath}, request : BOOLEAN, written : BOOLEAN]

Names == [Handles -> Paths \cup {NoPath}]

SFTPTypeOK ==
  /\ sent \in Seq(Packet) /\ Len(sent) <= MaxPackets
  /\ mine \in Names /\ files \in Names /\ handles \in Names
  /\ fwd \in 0 .. 2 * Len(sent)
  /\ buf \in Seq(Ids \X {1, 2})
  /\ feeding \in BOOLEAN
  /\ served \in 0 .. Len(sent)
  /\ replies \in Seq(Reply) /\ Len(replies) = served
  /\ rfwd \in 0 .. Len(replies) /\ rparsed \in 0 .. rfwd
  /\ pending \in [Ids -> Pending]
  /\ fileLog \in Seq(Entry)
  /\ overtaken \in BOOLEAN

SFTPInit ==
  /\ sent = <<>> /\ replies = <<>> /\ buf = <<>> /\ fileLog = <<>>
  /\ mine = [h \in Handles |-> NoPath] /\ files = mine /\ handles = mine
  /\ fwd = 0 /\ served = 0 /\ rfwd = 0 /\ rparsed = 0
  /\ feeding = FALSE
  /\ pending = [i \in Ids |-> None]
  /\ overtaken = FALSE

-------------------------------------------------------------------------------
(***************************************************************************)
(* The client and the upstream server.                                     *)
(***************************************************************************)
Sends(p) ==
  /\ Len(sent) < MaxPackets
  /\ sent' = Append(sent, p)
  /\ mine' = IF p.op = "close" THEN [mine EXCEPT ![p.handle] = NoPath] ELSE mine
  /\ UNCHANGED <<fwd, buf, feeding, served, files, replies, rfwd, rparsed, pending, handles, fileLog, overtaken>>

ClientSends ==
  \/ \E a \in Asked : Sends([op |-> a[1], path |-> a[2], handle |-> 0])
  \/ \E op \in ByHandle, h \in Handles :
       mine[h] # NoPath /\ Sends([op |-> op, path |-> mine[h], handle |-> h])

Free == {h \in Handles : files[h] = NoPath}

\* The server answers the requests in turn.  It hands out the first free
\* handle; an open without one, and any other request, may fail.
Serve(failing) ==
  /\ 2 * (served + 1) <= fwd
  /\ LET i == served + 1
         p == sent[i]
         opens == p.op \in {"open", "opendir"} /\ ~failing /\ Free # {}
         h == IF opens THEN CHOOSE x \in Free : \A y \in Free : x <= y ELSE 0
         type == IF opens THEN "handle"
                 ELSE IF p.op = "read" /\ ~failing THEN "data"
                 ELSE IF p.op = "readdir" /\ ~failing THEN "name" ELSE "status"
     IN  /\ replies' = Append(replies, [type |-> type, id |-> i, handle |-> h])
         /\ files' = IF opens THEN [files EXCEPT ![h] = p.path]
                     ELSE IF p.op = "close" THEN [files EXCEPT ![p.handle] = NoPath] ELSE files
  /\ served' = served + 1
  /\ UNCHANGED <<sent, mine, fwd, buf, feeding, rfwd, rparsed, pending, handles, fileLog, overtaken>>

-------------------------------------------------------------------------------
(***************************************************************************)
(* The copier from the client: a read, the write of all of it, then Feed.  *)
(***************************************************************************)
Half(k) == <<(k + 1) \div 2, IF k % 2 = 1 THEN 1 ELSE 2>>

\* Mutant: Feed starts over with every chunk.
MBuffered(n) == [k \in 1 .. n |-> Half(fwd + k)]

\* What Feed starts from: what the last call left, and the chunk.
Buffered(n) == buf \o [k \in 1 .. n |-> Half(fwd + k)]

ForwardChunk(n) ==
  /\ ~feeding
  /\ fwd + n <= 2 * Len(sent)
  /\ fwd' = fwd + n
  /\ buf' = Buffered(n)
  /\ feeding' = TRUE
  /\ UNCHANGED <<sent, mine, served, files, replies, rfwd, rparsed, pending, handles, fileLog, overtaken>>

\* recordFileOperation: an event that cannot be written is given up.
Record(i, path, request, written) ==
  Append(fileLog, [id |-> i, path |-> path, request |-> request, written |-> written])

\* Mutant: the path of a read is left to be looked up when the data arrives.
MReadPending(h) == [op |-> "read", path |-> NoPath, handle |-> h]

\* The pending request of a READ: it keeps the path that the handle has now.
ReadPending(h) == [op |-> "read", path |-> handles[h], handle |-> h]

\* The answer that gave out a handle is still to be parsed.
Unparsed(h) == \E k \in rparsed + 1 .. rfwd : replies[k].type = "handle" /\ replies[k].handle = h

\* parseSFTPClientPacket: packets of other types leave nothing.
ParseRequest(i, written) ==
  LET p == sent[i] IN
  /\ pending' = CASE p.op \in {"open", "opendir"} ->
                       [pending EXCEPT ![i] = [op |-> p.op, path |-> p.path, handle |-> 0]]
                  [] p.op = "read" -> [pending EXCEPT ![i] = ReadPending(p.handle)]
                  [] OTHER -> pending
  /\ handles' = IF p.op = "close" THEN [handles EXCEPT ![p.handle] = NoPath] ELSE handles
  /\ fileLog' = CASE p.op \in {"opendir", "path"} -> Record(i, p.path, TRUE, written)
                  [] p.op = "write" -> Record(i, handles[p.handle], TRUE, written)
                  [] p.op = "readdir" /\ handles[p.handle] # NoPath ->
                       Record(i, handles[p.handle], FALSE, written)
                  [] OTHER -> fileLog
  /\ overtaken' = (overtaken \/ (p.op \in ByHandle /\ Unparsed(p.handle)))

\* One turn of Feed's loop, and the return when no whole packet is left.  A
\* buffer that does not start with a packet has no sensible length in front and
\* is dropped.
Feed(written) ==
  /\ feeding
  /\ IF Len(buf) >= 2 /\ buf[1][2] = 1
       THEN /\ ParseRequest(buf[1][1], written)
            /\ buf' = Tail(Tail(buf))
            /\ feeding' = (Len(buf) >= 4)
       ELSE /\ buf' = IF Len(buf) < 2 THEN buf ELSE <<>>
            /\ feeding' = FALSE
            /\ UNCHANGED <<pending, handles, fileLog, overtaken>>
  /\ UNCHANGED <<sent, mine, fwd, served, files, replies, rfwd, rparsed>>

-------------------------------------------------------------------------------
(***************************************************************************)
(* The copier to the client.                                               *)
(***************************************************************************)
ForwardReplies(n) ==
  /\ rparsed = rfwd
  /\ rfwd + n <= Len(replies)
  /\ rfwd' = rfwd + n
  /\ mine' = [h \in Handles |->
                LET got == {k \in rfwd + 1 .. rfwd + n : replies[k].type = "handle" /\ replies[k].handle = h}
                IN  IF got = {} THEN mine[h] ELSE sent[replies[CHOOSE k \in got : TRUE].id].path]
  /\ UNCHANGED <<sent, fwd, buf, feeding, served, files, replies, rparsed, pending, handles, fileLog, overtaken>>

\* The request is still in the buffer, or not parsed for want of its end.
Unread(i) == \E k \in DOMAIN buf : buf[k][1] = i

\* parseSFTPServerPacket: popPending for each of the four types.
ParseReply(written) ==
  /\ rparsed < rfwd
  /\ rparsed' = rparsed + 1
  /\ LET r == replies[rparsed + 1]
         q == pending[r.id]
     IN  /\ pending' = [pending EXCEPT ![r.id] = None]
         /\ handles' = IF r.type = "handle" /\ q.op \in {"open", "opendir"}
                         THEN [handles EXCEPT ![r.handle] = q.path] ELSE handles
         /\ fileLog' = IF r.type = "data" /\ q.op = "read"
                         THEN Record(r.id, IF q.path = NoPath THEN handles[q.handle] ELSE q.path, FALSE, written)
                       ELSE fileLog
         /\ overtaken' = (overtaken \/ Unread(r.id))
  /\ UNCHANGED <<sent, mine, fwd, buf, feeding, served, files, replies, rfwd>>

\* Whether the database takes the next event.
Writes ==
  IF Cardinality({k \in DOMAIN fileLog : ~fileLog[k].written}) < MaxLost THEN BOOLEAN ELSE {TRUE}

SFTPNext ==
  \/ ClientSends
  \/ \E failing \in BOOLEAN : Serve(failing)
  \/ \E n \in 1 .. MaxChunk : ForwardChunk(n)
  \/ \E n \in 1 .. MaxPackets : ForwardReplies(n)
  \/ \E written \in Writes : Feed(written) \/ ParseReply(written)

-------------------------------------------------------------------------------
\* As long as neither parser has overtaken the other, every recorded operation
\* names the file it was done to, also when the client does not wait for answers
\* and the server gives a handle out again.  A parser that is late has its
\* mappings late: the operations then name no file, or the file that the handle
\* stood for before.
PathsTrue == overtaken \/ \A e \in ToSet(fileLog) : e.path = sent[e.id].path

\* The operations that the request alone tells, and that are decoded.
Told == {"opendir", "path", "write"}

\* When the copier has worked off what it wrote, every decoded operation it
\* passed on that the request alone tells has been recorded once, in the order of
\* the requests, wherever the reads cut the stream.  One is missing from the
\* session's events only if its own write failed, which is not repeated, and a
\* packet that is not decoded is passed on and leaves nothing.
OperationsRecorded ==
  ~feeding =>
    LET own == {k \in DOMAIN fileLog : fileLog[k].request} IN
    /\ \A i \in 1 .. fwd \div 2 : sent[i].op \in Told => \E k \in own : fileLog[k].id = i
    /\ \A k \in own : fileLog[k].id \in 1 .. fwd \div 2 /\ sent[fileLog[k].id].op \in Told
    /\ \A j, k \in own : j < k => fileLog[j].id < fileLog[k].id
===============================================================================
