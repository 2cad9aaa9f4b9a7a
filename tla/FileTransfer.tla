---------------------------- MODULE FileTransfer ----------------------------
(***************************************************************************)
(* Sending one file over a session (internal/transfer: manifest.go,        *)
(* chunker.go, protocol.go, receive_writer.go).  The sender hashes the     *)
(* file chunk by chunk between two stats, sends the manifest, then opens   *)
(* the file again and sends its chunks; the receiver writes each chunk to  *)
(* a partial file before it checks the chunk's hash, checks the whole      *)
(* file, moves an existing destination away and renames the partial file.  *)
(* A file is a sequence of bytes and a hash is the bytes it stands for.    *)
(***************************************************************************)
EXTENDS Integers, Sequences, FiniteSets

CONSTANT ChunkSize

VARIABLES
    file,           \* the sender's file: bytes, modification time, all contents it has had
    sender,         \* SendFile: the next step
    stream,         \* what was sent and not yet received
    receiver,       \* ReceiveFile and its ReceiveWriter
    dest            \* the destination, the partial file and the history of the share

transferVars == <<file, sender, stream, receiver, dest>>

NoFile == <<"missing">>
NoManifest == [size |-> 0, hash |-> <<>>, chunks |-> <<>>]
NotSending == [pc |-> "idle", mtime |-> 0, manifest |-> NoManifest, next |-> 1]
NotReceiving == [pc |-> "idle", manifest |-> NoManifest, written |-> <<>>, next |-> 1]

TransferInit(bytes, existing) ==
    /\ file = [bytes |-> bytes, mtime |-> 0, had |-> {bytes}]
    /\ sender = NotSending
    /\ stream = <<>>
    /\ receiver = NotReceiving
    /\ dest = [bytes |-> existing, partial |-> NoFile, history |-> {}]

\* PlanFixedChunks: an empty file has one empty chunk.
PlanFixedChunks(size) ==
    IF size = 0 THEN <<[offset |-> 0, size |-> 0]>>
    ELSE [n \in 1..((size + ChunkSize - 1) \div ChunkSize) |->
            LET offset == (n - 1) * ChunkSize IN
            [offset |-> offset, size |-> IF size - offset < ChunkSize THEN size - offset ELSE ChunkSize]]

\* ReadAt: all the bytes of the chunk, or an error when the file ends before them.
Readable(chunk) == Len(file.bytes) >= chunk.offset + chunk.size
ReadAt(chunk) == SubSeq(file.bytes, chunk.offset + 1, chunk.offset + chunk.size)

-----------------------------------------------------------------------------
(* The sender                                                              *)

\* BuildFileManifest stats the file and plans its chunks.
StatSource ==
    LET size == Len(file.bytes) IN
    /\ sender.pc = "idle"
    /\ sender' = [pc |-> "hash", mtime |-> file.mtime, next |-> 1,
                  manifest |-> [size |-> size, hash |-> <<>>, chunks |-> PlanFixedChunks(size)]]
    /\ UNCHANGED <<file, stream, receiver, dest>>

StopSending == sender' = [NotSending EXCEPT !.pc = "failed"]

\* hashChunk: the chunk's hash and the running hash of the whole file.
HashChunk ==
    LET chunk == sender.manifest.chunks[sender.next] IN
    /\ sender.pc = "hash"
    /\ IF Readable(chunk)
       THEN sender' = [sender EXCEPT
                !.manifest = [@ EXCEPT !.hash = @ \o ReadAt(chunk),
                                       !.chunks = [@ EXCEPT ![sender.next] =
                                                     [offset |-> chunk.offset, size |-> chunk.size, hash |-> ReadAt(chunk)]]],
                !.pc = IF sender.next = Len(sender.manifest.chunks) THEN "check" ELSE "hash",
                !.next = @ + 1]
       ELSE StopSending
    /\ UNCHANGED <<file, stream, receiver, dest>>

\* Mutant: the second stat compares sizes only.
SourceSameSize == Len(file.bytes) = sender.manifest.size

\* sourceChanged: the second stat finds the size and the modification time of the first.
SourceUnchanged == Len(file.bytes) = sender.manifest.size /\ file.mtime = sender.mtime

\* writeManifest, unless the file changed while it was hashed.
SendManifest ==
    /\ sender.pc = "check"
    /\ IF SourceUnchanged
       THEN /\ sender' = [sender EXCEPT !.pc = "send", !.next = 1]
            /\ stream' = Append(stream, [kind |-> "manifest", manifest |-> sender.manifest, data |-> <<>>])
       ELSE StopSending /\ UNCHANGED stream
    /\ UNCHANGED <<file, receiver, dest>>

\* SendFile reads the chunks of the manifest from the file as it is now.
SendChunk ==
    LET chunk == sender.manifest.chunks[sender.next] IN
    /\ sender.pc = "send"
    /\ IF Readable(chunk)
       THEN /\ sender' = [sender EXCEPT !.next = @ + 1,
                                        !.pc = IF sender.next = Len(sender.manifest.chunks) THEN "sent" ELSE "send"]
            /\ stream' = Append(stream, [kind |-> "chunk", manifest |-> NoManifest, data |-> ReadAt(chunk)])
       ELSE StopSending /\ UNCHANGED stream
    /\ UNCHANGED <<file, receiver, dest>>

\* The file is edited; its modification time moves.
EditSource(bytes) ==
    /\ bytes # file.bytes
    /\ file' = [bytes |-> bytes, mtime |-> file.mtime + 1, had |-> file.had \cup {bytes}]
    /\ UNCHANGED <<sender, stream, receiver, dest>>

-----------------------------------------------------------------------------
(* The receiver                                                            *)

\* newReceiveWriter creates or truncates the partial file.
NewReceiveWriter(manifest) ==
    /\ receiver' = [pc |-> "chunk", manifest |-> manifest, written |-> <<>>, next |-> 1]
    /\ dest' = [dest EXCEPT !.partial = <<>>]

\* readManifest
ReceiveManifest ==
    /\ receiver.pc = "idle"
    /\ stream # <<>>
    /\ Head(stream).kind = "manifest"
    /\ NewReceiveWriter(Head(stream).manifest)
    /\ stream' = Tail(stream)
    /\ UNCHANGED <<file, sender>>

StopReceiving == receiver' = [NotReceiving EXCEPT !.pc = "failed"]

ChunkVerified(data, chunk) == data = chunk.hash

\* receiveChunk: the bytes are in the partial file when the hash is compared.
ReceiveChunk ==
    LET chunk == receiver.manifest.chunks[receiver.next]
        data == Head(stream).data IN
    /\ receiver.pc = "chunk"
    /\ stream # <<>>
    /\ dest' = [dest EXCEPT !.partial = @ \o data]
    /\ stream' = Tail(stream)
    /\ IF ChunkVerified(data, chunk)
       THEN receiver' = [receiver EXCEPT !.written = @ \o data, !.next = @ + 1,
                             !.pc = IF receiver.next = Len(receiver.manifest.chunks) THEN "verify" ELSE "chunk"]
       ELSE StopReceiving
    /\ UNCHANGED <<file, sender>>

\* Commit compares the size and the hash of everything written.
WholeVerified(manifest, written) == Len(written) = manifest.size /\ written = manifest.hash

CommitVerify ==
    /\ receiver.pc = "verify"
    /\ IF WholeVerified(receiver.manifest, receiver.written)
       THEN receiver' = [receiver EXCEPT !.pc = "prepare"]
       ELSE StopReceiving
    /\ UNCHANGED <<file, sender, stream, dest>>

\* prepareDestinationForCommit: an existing destination is refused, or moved to the history.
PreparedDestination(replace) ==
    \/ /\ dest.bytes = NoFile
       /\ receiver' = [receiver EXCEPT !.pc = "rename"]
       /\ UNCHANGED dest
    \/ /\ dest.bytes # NoFile
       /\ ~replace
       /\ StopReceiving
       /\ UNCHANGED dest
    \/ /\ dest.bytes # NoFile
       /\ replace
       /\ dest' = [dest EXCEPT !.history = @ \cup {dest.bytes}, !.bytes = NoFile]
       /\ receiver' = [receiver EXCEPT !.pc = "rename"]

CommitPrepare(replace) ==
    /\ receiver.pc = "prepare"
    /\ PreparedDestination(replace)
    /\ UNCHANGED <<file, sender, stream>>

\* The rename of the partial file is the commit.
CommitRename ==
    /\ receiver.pc = "rename"
    /\ dest' = [dest EXCEPT !.bytes = dest.partial, !.partial = NoFile]
    /\ receiver' = [receiver EXCEPT !.pc = "committed"]
    /\ UNCHANGED <<file, sender, stream>>

\* The stream ends before the receiver has what it waits for.
StreamEnds ==
    /\ receiver.pc \in {"idle", "chunk"}
    /\ stream = <<>>
    /\ sender.pc \in {"failed", "sent"}
    /\ StopReceiving
    /\ UNCHANGED <<file, sender, stream, dest>>

\* The connection breaks or one side crashes: both calls end, the files stay as they are.
Interrupt ==
    /\ sender.pc \notin {"idle", "failed"} \/ receiver.pc \notin {"idle", "failed", "committed"}
    /\ receiver.pc # "committed"
    /\ StopSending
    /\ StopReceiving
    /\ stream' = <<>>
    /\ UNCHANGED <<file, dest>>

\* Both commands are run again for the same file.
SendAgain ==
    /\ sender.pc \in {"failed", "sent"}
    /\ receiver.pc \in {"failed", "committed"}
    /\ sender' = NotSending
    /\ receiver' = NotReceiving
    /\ stream' = <<>>
    /\ UNCHANGED <<file, dest>>
=============================================================================
