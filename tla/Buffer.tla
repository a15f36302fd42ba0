-------------------------------- MODULE Buffer --------------------------------
(***************************************************************************)
(* Buffer (src/src/net/Buffer.h, Buffer.cc): a vector with a reader and a  *)
(* writer index, some room kept in front of the data for prepend().  A     *)
(* buffer is a record of its bytes and indices; the operators below are    *)
(* its member functions.                                                   *)
(***************************************************************************)
EXTENDS Integers, Sequences

CONSTANTS
    KCheapPrepend,   \* kCheapPrepend
    KInitialSize,    \* kInitialSize
    ExtraSize,       \* sizeof extrabuf in readFd()
    Byte,            \* the values of a byte, 0 among them
    Chunks,          \* byte sequences that users write
    MaxReadable      \* bound: length of the content

ASSUME BufferAssumption ==
    /\ KCheapPrepend \in Nat /\ KInitialSize \in Nat
    /\ ExtraSize \in Nat /\ MaxReadable \in Nat
    /\ 0 \in Byte
    /\ Chunks \subseteq Seq(Byte)

VARIABLES
    buffer,   \* the buffer
    call      \* the last call, with the bytes it took or gave back

vars == <<buffer, call>>

Buffers == [bytes : Seq(Byte), readerIndex : Nat, writerIndex : Nat]

TypeOK ==
    /\ buffer \in Buffers
    /\ buffer.readerIndex <= buffer.writerIndex
    /\ buffer.writerIndex <= Len(buffer.bytes)
    /\ call.data \in Seq(Byte)

-------------------------------------------------------------------------------
ReadableBytes(b) == b.writerIndex - b.readerIndex

WritableBytes(b) == Len(b.bytes) - b.writerIndex

PrependableBytes(b) == b.readerIndex

(* The bytes from peek() to beginWrite().                                  *)
Content(b) == SubSeq(b.bytes, b.readerIndex + 1, b.writerIndex)

NewBuffer ==
    [bytes |-> [i \in 1 .. KCheapPrepend + KInitialSize |-> 0],
     readerIndex |-> KCheapPrepend, writerIndex |-> KCheapPrepend]

(* std::copy of data to the bytes behind position pos.                     *)
Copy(bytes, pos, data) ==
    [i \in 1 .. Len(bytes) |->
        IF pos < i /\ i <= pos + Len(data) THEN data[i - pos] ELSE bytes[i]]

(* Mutant: the vector grows whenever the room at its end is too small.     *)
MakeSpaceResizes(b, len) ==
    [b EXCEPT !.bytes = [i \in 1 .. b.writerIndex + len |->
                            IF i <= Len(b.bytes) THEN b.bytes[i] ELSE 0]]

(* makeSpace(): resize the vector, or move the content to the front.       *)
MakeSpace(b, len) ==
    IF WritableBytes(b) + PrependableBytes(b) < len + KCheapPrepend
        THEN [b EXCEPT !.bytes = [i \in 1 .. b.writerIndex + len |->
                                     IF i <= Len(b.bytes) THEN b.bytes[i] ELSE 0]]
        ELSE [bytes |-> Copy(b.bytes, KCheapPrepend, Content(b)),
              readerIndex |-> KCheapPrepend,
              writerIndex |-> KCheapPrepend + ReadableBytes(b)]

EnsureWritable(b, len) == IF WritableBytes(b) < len THEN MakeSpace(b, len) ELSE b

HasWritten(b, len) == [b EXCEPT !.writerIndex = @ + len]

AppendTo(b, data) ==
    LET e == EnsureWritable(b, Len(data))
    IN  HasWritten([e EXCEPT !.bytes = Copy(e.bytes, e.writerIndex, data)], Len(data))

(* retrieve() of everything resets both indices.                           *)
RetrieveFrom(b, len) ==
    IF len < ReadableBytes(b)
        THEN [b EXCEPT !.readerIndex = @ + len]
        ELSE [b EXCEPT !.readerIndex = KCheapPrepend, !.writerIndex = KCheapPrepend]

(* The largest read readFd() asks for.                                     *)
ReadLimit(b) ==
    IF WritableBytes(b) < ExtraSize THEN WritableBytes(b) + ExtraSize ELSE WritableBytes(b)

(* Mutant: what came into extrabuf is appended before the index moves.     *)
ReadInExtraFirst(b, data) ==
    LET n == WritableBytes(b)
    IN  IF Len(data) <= n
           THEN HasWritten([b EXCEPT !.bytes = Copy(@, b.writerIndex, data)], Len(data))
           ELSE AppendTo([b EXCEPT !.bytes = Copy(@, b.writerIndex, SubSeq(data, 1, n))],
                         SubSeq(data, n + 1, Len(data)))

(* readFd(): readv() fills the room at the end, then extrabuf, which is    *)
(* appended.                                                               *)
ReadIn(b, data) ==
    LET n == WritableBytes(b)
    IN  IF Len(data) <= n
           THEN HasWritten([b EXCEPT !.bytes = Copy(@, b.writerIndex, data)], Len(data))
           ELSE AppendTo(HasWritten([b EXCEPT !.bytes =
                                        Copy(@, b.writerIndex, SubSeq(data, 1, n))], n),
                         SubSeq(data, n + 1, Len(data)))

-------------------------------------------------------------------------------
Init ==
    /\ buffer = NewBuffer
    /\ call = [op |-> "new", data |-> <<>>]

Fits(data) == ReadableBytes(buffer) + Len(data) <= MaxReadable

(* append() of bytes, and of integers in network order.                    *)
Append_(data) ==
    /\ Fits(data)
    /\ buffer' = AppendTo(buffer, data)
    /\ call' = [op |-> "append", data |-> data]

(* The user writes behind beginWrite() and calls hasWritten().             *)
WriteInPlace(data) ==
    /\ Fits(data)
    /\ Len(data) <= WritableBytes(buffer)
    /\ buffer' = HasWritten([buffer EXCEPT !.bytes =
                                Copy(@, buffer.writerIndex, data)], Len(data))
    /\ call' = [op |-> "append", data |-> data]

ReadFd(data) ==
    /\ Fits(data)
    /\ Len(data) <= ReadLimit(buffer)
    /\ buffer' = ReadIn(buffer, data)
    /\ call' = [op |-> "append", data |-> data]

(* retrieve(), retrieveUntil(), retrieveAll(), retrieveAsString() and the  *)
(* reading of integers.                                                    *)
Retrieve(len) ==
    /\ len <= ReadableBytes(buffer)
    /\ buffer' = RetrieveFrom(buffer, len)
    /\ call' = [op |-> "retrieve", data |-> SubSeq(Content(buffer), 1, len)]

Unwrite(len) ==
    /\ len <= ReadableBytes(buffer)
    /\ buffer' = [buffer EXCEPT !.writerIndex = @ - len]
    /\ call' = [op |-> "unwrite",
                data |-> SubSeq(Content(buffer), ReadableBytes(buffer) - len + 1,
                                ReadableBytes(buffer))]

Prepend(data) ==
    /\ Fits(data)
    /\ Len(data) <= PrependableBytes(buffer)
    /\ buffer' = [buffer EXCEPT !.readerIndex = @ - Len(data),
                                !.bytes = Copy(@, buffer.readerIndex - Len(data), data)]
    /\ call' = [op |-> "prepend", data |-> data]

EnsureWritableBytes(len) ==
    /\ buffer' = EnsureWritable(buffer, len)
    /\ call' = [op |-> "reserve", data |-> <<>>]

(* shrink(): the content moves to a new buffer.                            *)
Shrink(reserve) ==
    /\ buffer' = AppendTo(EnsureWritable(NewBuffer, ReadableBytes(buffer) + reserve),
                          Content(buffer))
    /\ call' = [op |-> "reserve", data |-> <<>>]

Next ==
    \/ \E data \in Chunks :
           Append_(data) \/ WriteInPlace(data) \/ ReadFd(data) \/ Prepend(data)
    \/ \E len \in 0 .. MaxReadable :
           Retrieve(len) \/ Unwrite(len) \/ EnsureWritableBytes(len) \/ Shrink(len)

Spec == Init /\ [][Next]_vars

-------------------------------------------------------------------------------
(* Properties.                                                             *)

Queue == INSTANCE ByteQueue WITH content <- Content(buffer), call <- call

(* Whatever is appended, read from a socket, prepended, retrieved or taken *)
(* back, and however often the bytes are moved to the front, to a larger   *)
(* vector or to a new buffer, the readable bytes are the queue the calls   *)
(* describe: nothing is lost, repeated, reordered or overwritten.  The two *)
(* indices stay in their order and inside the vector.                      *)
IsByteQueue == []TypeOK /\ Queue!Spec

(* append() enlarges the vector only when the content, the new bytes and   *)
(* the room for prepend() really do not fit into it together: space before *)
(* the reader index is used first.                                         *)
GrowsOnlyWhenFull ==
    [][(call'.op = "append" /\ Len(buffer'.bytes) > Len(buffer.bytes)) =>
           ReadableBytes(buffer') + KCheapPrepend > Len(buffer.bytes)]_vars
===============================================================================
