---------------------------- MODULE BytesMessage ----------------------------
(***************************************************************************)
(* The body of a CMSBytesMessage: a vector of bytes that the write         *)
(* functions append to and the read functions walk with read_position.     *)
(* The body travels by value: a clone has a copy, the producer writes the  *)
(* clone's bytes into the AMQP message, the consumer reads them out.       *)
(*                                                                         *)
(* A byte is <<n, k>>: byte k of the n-th value that was written, so that  *)
(* two bytes are equal only if they stem from one and the same write.      *)
(***************************************************************************)
EXTENDS Integers, Sequences, SequencesExt

CONSTANTS
  Objects,    \* the application's bytes messages
  Types,      \* of the types below, the ones used
  Strings,    \* lengths of strings and byte vectors that are written
  Buffers,    \* lengths of buffers that are read into
  MaxWrites,  \* bound: values written
  MaxReads,   \* bound: calls that read
  MaxCalls    \* bound: the other calls

VARIABLES
  body,           \* mMessageBody of every object
  read_position,  \* read_position of every object
  encoded,        \* does the AMQP message of the object have a binary body?
  wire,           \* bodies sent and not yet received
  result,         \* the outcome of the last read
  written,        \* ghost: the values in the body, in order
  pending,        \* ghost: those that a reader who follows the types has not read
  follows,        \* ghost: has the reader followed the types so far?
  readable,       \* ghost: is it read-only, and was it not written to since?
  writes, reads, calls

ghosts == <<written, pending, follows, readable>>
bounds == <<writes, reads, calls>>
vars   == <<body, read_position, encoded, wire, result, ghosts, bounds>>

(* sizeof(T) of the types that the templates set and get are used with.    *)
Size == [char |-> 1, short |-> 2, ushort |-> 2, int |-> 4, float |-> 4,
         longlong |-> 8, double |-> 8]

(* An empty string leaves no byte in the body: what reads it meets the end *)
(* of the stream or the value behind it.                                   *)
ASSUME BytesAssumption ==
  /\ Types \subseteq DOMAIN Size
  /\ Strings \subseteq Nat \ {0} /\ Buffers \subseteq Nat \ {0}
  /\ MaxWrites \in Nat /\ MaxReads \in Nat /\ MaxCalls \in Nat

Unused == <<<<0, 0>>>>   \* the body of a name that has no message

Exists(o) == body[o] # Unused

Nothing     == [kind |-> "nothing", bytes |-> <<>>, promise |-> "none",
                expected |-> <<>>, readable |-> FALSE]
NoWrites    == <<>>
BytesOf(vs) == FlattenSeq([i \in DOMAIN vs |-> vs[i].bytes])

(* A byte past the end of the vector.                                      *)
Garbage == <<0, 0>>

Init ==
  /\ body = [o \in Objects |-> Unused]
  /\ read_position = [o \in Objects |-> 0]
  /\ encoded = [o \in Objects |-> FALSE]
  /\ wire = <<>>
  /\ result = Nothing
  /\ written = [o \in Objects |-> NoWrites]
  /\ pending = [o \in Objects |-> NoWrites]
  /\ follows = [o \in Objects |-> TRUE]
  /\ readable = [o \in Objects |-> FALSE]
  /\ writes = 0 /\ reads = 0 /\ calls = 0

-----------------------------------------------------------------------------
(* Writing.                                                                *)

(* Mutant of Value: a terminator is written as well.                       *)
WithTerminator(n, type, size) ==
  [type |-> type, bytes |-> [k \in 1..size |-> <<n, k>>] \o <<Garbage>>]

(* The n-th value written, as the bytes of its representation.             *)
Value(n, type, size) == [type |-> type, bytes |-> [k \in 1..size |-> <<n, k>>]]

(* std::copy_n to the back of the vector; the position stays.              *)
Write(o, type, size) ==
  LET v == Value(writes + 1, type, size)
  IN  /\ writes < MaxWrites
      /\ writes' = writes + 1
      /\ body' = [body EXCEPT ![o] = @ \o v.bytes]
      /\ written' = [written EXCEPT ![o] = Append(@, v)]
      /\ pending' = [pending EXCEPT ![o] = Append(@, v)]
      /\ readable' = [readable EXCEPT ![o] = FALSE]
      /\ result' = Nothing
      /\ UNCHANGED <<read_position, encoded, wire, follows, reads, calls>>

set(o, type)    == Write(o, type, Size[type])
writeBoolean(o) == Write(o, "byte", 1)
writeByte(o)    == Write(o, "byte", 1)

(* Neither a string nor a vector has its length written before it.         *)
writeString(o) == \E n \in Strings : Write(o, "string", n)
writeBytes(o)  == \E n \in Strings : Write(o, "bytes", n)

-----------------------------------------------------------------------------
(* Reading.  A reader follows the types when it reads each value with the  *)
(* type it was written with; one-byte types are alike.                     *)

Left(o) == Len(body[o]) - read_position[o]

(* The n bytes at the position, garbage beyond the end.                    *)
Bytes(o, n) ==
  [k \in 1..n |-> IF k <= Left(o) THEN body[o][read_position[o] + k] ELSE Garbage]

(* What a reader who has followed the types may expect of a read with this *)
(* type and size: the next value, the end of the stream, or nothing.       *)
Promise(o, type, n) ==
  CASE ~follows[o] -> "none"
    [] follows[o] /\ pending[o] = <<>> -> "end"
    [] OTHER -> IF Head(pending[o]).type = type /\ Len(Head(pending[o]).bytes) = n
                THEN "value" ELSE "none"

Outcome(o, kind, bytes, promise) ==
  /\ result' = [kind |-> kind, bytes |-> bytes, promise |-> promise,
                expected |-> IF promise = "value" THEN Head(pending[o]).bytes ELSE <<>>,
                readable |-> readable[o]]
  /\ follows' = [follows EXCEPT ![o] = promise # "none"]
  /\ pending' = [pending EXCEPT ![o] = IF promise = "value" THEN Tail(@) ELSE @]

(* The call returns n bytes and moves the position behind them.            *)
Returned(o, n, promise) ==
  /\ Outcome(o, "value", Bytes(o, n), promise)
  /\ read_position' = [read_position EXCEPT ![o] = @ + n]

ThrewEOF(o, promise) ==
  /\ Outcome(o, "EOF", <<>>, promise)
  /\ UNCHANGED read_position

Read ==
  /\ reads < MaxReads
  /\ reads' = reads + 1
  /\ UNCHANGED <<body, encoded, wire, written, readable, writes, calls>>

(* Mutant of ReadTyped: the position moves by one byte for every type.     *)
ReadWithoutSize(o, type, n) ==
  /\ Read
  /\ IF Left(o) <= 0 THEN ThrewEOF(o, Promise(o, type, n))
     ELSE /\ Outcome(o, "value", Bytes(o, n), Promise(o, type, n))
          /\ read_position' = [read_position EXCEPT ![o] = @ + 1]

(* Mutant of ReadTyped: the last byte is taken for the end.                *)
ReadEndsEarly(o, type, n) ==
  /\ Read
  /\ IF Left(o) > 1 THEN Returned(o, n, Promise(o, type, n))
                    ELSE ThrewEOF(o, Promise(o, type, n))

(* vector::at checks the first byte only; the others are taken unchecked.  *)
ReadTyped(o, type, n) ==
  /\ Read
  /\ IF Left(o) > 0 THEN Returned(o, n, Promise(o, type, n))
                    ELSE ThrewEOF(o, Promise(o, type, n))

get(o, type)   == ReadTyped(o, type, Size[type])
readBoolean(o) == ReadTyped(o, "byte", 1)
readByte(o)    == ReadTyped(o, "byte", 1)

(* The rest of the body whatever it is, and the position stays: a string   *)
(* is read as it was written only if it is the last value, and then again. *)
readString(o) ==
  /\ Read
  /\ UNCHANGED <<read_position, pending>>
  /\ LET promise == Promise(o, "string", Left(o))
     IN  /\ result' = [kind |-> IF Left(o) > 0 THEN "value" ELSE "EOF",
                       bytes |-> IF Left(o) > 0 THEN Bytes(o, Left(o)) ELSE <<>>,
                       promise |-> promise,
                       expected |-> IF promise = "value" THEN Head(pending[o]).bytes
                                                         ELSE <<>>,
                       readable |-> readable[o]]
         /\ follows' = [follows EXCEPT ![o] = promise # "none"]

(* What the build makes of the call is not known: nothing is modelled      *)
(* after it.                                                               *)
Undefined(o) ==
  /\ Outcome(o, "undefined", <<>>, "none")
  /\ UNCHANGED read_position

(* The rest of the body is copied into the vector, which must be as long;  *)
(* from beyond the end the iterators would never meet.  Nothing is thrown  *)
(* at the end: zero bytes are read.                                        *)
readBytes_vector(o) ==
  /\ Read
  /\ \E n \in Buffers :
       IF Left(o) \in 0..n
       THEN Returned(o, Left(o), IF Left(o) = 0 THEN "none"
                                                ELSE Promise(o, "bytes", Left(o)))
       ELSE Undefined(o)

(* At the very end of a body that is not empty nothing is thrown, and all  *)
(* of the length bytes are garbage.                                        *)
readBytes(o) ==
  /\ Read
  /\ \E length \in Buffers :
       IF body[o] = <<>> \/ Left(o) < 0
       THEN ThrewEOF(o, Promise(o, "bytes", length))
       ELSE Returned(o, length, IF Left(o) = 0 THEN "none"
                                               ELSE Promise(o, "bytes", length))

(* The bytes, after a look at the AMQP message that throws unless its body *)
(* is binary.                                                              *)
getBodyBytes(o) ==
  /\ Read
  /\ result' = [kind |-> IF body[o] # <<>> /\ encoded[o] THEN "body" ELSE "threw",
                bytes |-> body[o], promise |-> "none",
                expected |-> BytesOf(written[o]), readable |-> readable[o]]
  /\ UNCHANGED <<read_position, pending, follows>>

(* A stub: an empty string, whatever the body is.                          *)
readUTF(o) ==
  /\ Read
  /\ Outcome(o, "value", <<>>, "none")
  /\ UNCHANGED read_position

-----------------------------------------------------------------------------
(* The whole body.                                                         *)

Call ==
  /\ calls < MaxCalls
  /\ calls' = calls + 1
  /\ result' = Nothing
  /\ UNCHANGED <<reads>>

(* A stub as well: nothing is written.                                     *)
writeUTF ==
  /\ Call
  /\ UNCHANGED <<body, read_position, encoded, wire, ghosts, writes>>

(* An object has a body, the values it consists of, and is at its start.   *)
(* The class has no read-only and no write-only mode; the last parameter   *)
(* is whether the documentation has it read-only now.                      *)
Becomes(o, bytes, values, binary, readOnly) ==
  /\ body' = [body EXCEPT ![o] = bytes]
  /\ read_position' = [read_position EXCEPT ![o] = 0]
  /\ encoded' = [encoded EXCEPT ![o] = binary]
  /\ written' = [written EXCEPT ![o] = values]
  /\ pending' = [pending EXCEPT ![o] = values]
  /\ follows' = [follows EXCEPT ![o] = TRUE]
  /\ readable' = [readable EXCEPT ![o] = readOnly]

Construct(o) ==
  /\ ~Exists(o)
  /\ Call
  /\ Becomes(o, <<>>, <<>>, FALSE, FALSE)
  /\ UNCHANGED <<wire, writes>>

(* Mutant of setBodyBytes: the bytes are added to the body.                *)
AppendedBody(o) ==
  /\ Call
  /\ writes < MaxWrites
  /\ writes' = writes + 1
  /\ \E n \in Strings :
       LET v == Value(writes + 1, "bytes", n)
       IN  Becomes(o, body[o] \o v.bytes, <<v>>, encoded[o], FALSE)
  /\ UNCHANGED wire

setBodyBytes(o) ==
  /\ Call
  /\ writes < MaxWrites
  /\ writes' = writes + 1
  /\ \E n \in Strings :
       LET v == Value(writes + 1, "bytes", n)
       IN  Becomes(o, v.bytes, <<v>>, encoded[o], FALSE)
  /\ UNCHANGED wire

(* Mutant of clearBody: the position is kept.                              *)
ClearedInPlace(o) ==
  /\ Call
  /\ body' = [body EXCEPT ![o] = <<>>]
  /\ written' = [written EXCEPT ![o] = <<>>]
  /\ pending' = [pending EXCEPT ![o] = <<>>]
  /\ follows' = [follows EXCEPT ![o] = TRUE]
  /\ readable' = [readable EXCEPT ![o] = FALSE]
  /\ UNCHANGED <<read_position, encoded, wire, writes>>

clearBody(o) ==
  /\ Call
  /\ Becomes(o, <<>>, <<>>, FALSE, FALSE)
  /\ UNCHANGED <<wire, writes>>

reset(o) ==
  /\ Call
  /\ Becomes(o, body[o], written[o], encoded[o], TRUE)
  /\ UNCHANGED <<wire, writes>>

(* The copy starts at the beginning, wherever the original is.             *)
clone(o, p) ==
  /\ ~Exists(p)
  /\ Call
  /\ Becomes(p, body[o], written[o], encoded[o], readable[o])
  /\ UNCHANGED <<wire, writes>>

(* send(): message() of the clone writes the body into the AMQP message of *)
(* the clone.                                                              *)
send(o) ==
  /\ Call
  /\ wire' = Append(wire, [bytes |-> body[o], written |-> written[o]])
  /\ UNCHANGED <<body, read_position, encoded, ghosts, writes>>

(* on_message: the body of the AMQP message.                               *)
receive(o) ==
  /\ ~Exists(o)
  /\ wire # <<>>
  /\ wire' = Tail(wire)
  /\ result' = Nothing
  /\ Becomes(o, Head(wire).bytes, Head(wire).written, TRUE, TRUE)
  /\ UNCHANGED bounds

-----------------------------------------------------------------------------
Writer(o) ==
  \/ \E type \in Types : set(o, type)
  \/ writeBoolean(o)
  \/ writeByte(o)
  \/ writeString(o)
  \/ writeBytes(o)
  \/ writeUTF
  \/ setBodyBytes(o)
  \/ clearBody(o)

Reader(o) ==
  \/ \E type \in Types : get(o, type)
  \/ readBoolean(o)
  \/ readByte(o)
  \/ readString(o)
  \/ readBytes(o)
  \/ readBytes_vector(o)
  \/ getBodyBytes(o)
  \/ readUTF(o)
  \/ reset(o)

Next ==
  /\ result.kind # "undefined"
  /\ \/ \E o \in Objects : Construct(o) \/ receive(o)
     \/ \E o \in Objects :
          /\ Exists(o)
          /\ Writer(o) \/ Reader(o) \/ send(o) \/ \E p \in Objects : clone(o, p)

Spec == Init /\ [][Next]_vars

-----------------------------------------------------------------------------
(* Properties.                                                             *)

Live == {o \in Objects : Exists(o)}

(* The type invariant: no object is positioned before its body, and what   *)
(* a body holds are bytes of values that were written.                     *)
TypeOK ==
  /\ \A o \in Objects : read_position[o] \in Nat /\ encoded[o] \in BOOLEAN
  /\ \A o \in Live : \A i \in DOMAIN body[o] : body[o][i][1] \in 1..writes
  /\ result.kind \in {"nothing", "value", "EOF", "threw", "body", "undefined"}
  /\ result.promise \in {"value", "end", "none"}

(* A reader who reads with the types of the writer, in the order of the    *)
(* writer, gets what the writer wrote, on the same object, on its clones   *)
(* and on the other side of the connection, whatever was read, written or  *)
(* reset in between, and never touches a byte past the end.                *)
FollowedReadsReturnWrites ==
  result.promise = "value" /\ result.kind = "value"
    => result.bytes = result.expected

(* On a message that was reset or received, and not written to since, such *)
(* a reader meets MessageEOFException when everything that was written has *)
(* been read, and not before.  The readBytes functions make no such        *)
(* promise: they do not throw at the end of the body.  A read of any other *)
(* message should throw MessageNotReadableException; the code has no modes *)
(* and reads it.                                                           *)
EOFAtTheEnd ==
  result.readable => /\ result.promise = "end" => result.kind = "EOF"
                     /\ result.promise = "value" => result.kind = "value"

(* While the types are followed the position is where the values that have *)
(* not been read begin, so that what is written next is read after them.   *)
PositionAtNextValue ==
  \A o \in Live :
    follows[o] => read_position[o] + Len(BytesOf(pending[o])) = Len(body[o])

(* The body that is sent, received, cloned or returned by getBodyBytes()   *)
(* consists of the values written to it, whole and in order: what happens  *)
(* to the original afterwards does not reach the copy.                     *)
BodyIsWhatWasWritten ==
  /\ \A o \in Live : body[o] = BytesOf(written[o])
  /\ \A i \in DOMAIN wire : wire[i].bytes = BytesOf(wire[i].written)
  /\ result.kind = "body" => result.bytes = result.expected

=============================================================================
