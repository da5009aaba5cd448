------------------------------ MODULE Message ------------------------------
(***************************************************************************)
(* The classes protoc generated for the messages of the RPC framework      *)
(* (rpcheader.pb, and user.pb of its example).  A message is the           *)
(* tuple of its fields, field k having the number k in the .proto file,    *)
(* and a message type is its default instance: what a field that was       *)
(* never set, or is not in the bytes parsed, has for its value.            *)
(*                                                                         *)
(* Of the wire format what matters is kept: a field is written as a tag    *)
(* and a value, and only if it differs from its default; fields may come   *)
(* in any order, the last of a number counts, unknown numbers are skipped; *)
(* bytes that end between a tag and its value, or that do not start with a *)
(* tag, are not a message; no bytes at all are one.                        *)
(***************************************************************************)
EXTENDS Naturals, Sequences, FiniteSets

Tag(k)   == <<"tag", k>>
Value(v) == <<"value", v>>

Set(m, k, v) == [m EXCEPT ![k] = v]
Clear(Type) == Type

\* No message here has more than three fields.
FieldCount == 3

\* Field k as it is written: not at all if it has its default value
FieldBytes(Type, m, k) ==
  IF k \in 1 .. Len(Type) /\ m[k] # Type[k] THEN <<Tag(k), Value(m[k])>> ELSE <<>>

\* _InternalSerialize
Serialize(Type, m) ==
  FieldBytes(Type, m, 1) \o FieldBytes(Type, m, 2) \o FieldBytes(Type, m, 3)

\* What ByteSizeLong counts for field k: the bytes of its tag and its value
FieldSize(Type, m, k) == IF k \in 1 .. Len(Type) /\ m[k] # Type[k] THEN 2 ELSE 0

ByteSizeLong(Type, m) == FieldSize(Type, m, 1) + FieldSize(Type, m, 2) + FieldSize(Type, m, 3)

\* Whether the bytes are a message of any type
WellFormed(bytes) ==
  /\ Len(bytes) % 2 = 0
  /\ \A i \in 1 .. Len(bytes) : bytes[i][1] = IF i % 2 = 1 THEN "tag" ELSE "value"

\* Where the bytes have a field
At(k, bytes) == {i \in 1 .. Len(bytes) : bytes[i][1] = "tag" /\ bytes[i][2] = k}

\* _InternalParse: the fields the bytes do not have stay as they are.
MergeFromBytes(m, bytes) ==
  [k \in 1 .. Len(m) |->
     IF At(k, bytes) = {} THEN m[k]
     ELSE LET last == CHOOSE i \in At(k, bytes) : \A j \in At(k, bytes) : j <= i
          IN  bytes[last + 1][2]]

\* Mutant: the message is not cleared first.
ParseFromStringMutant(Type, m, bytes) == MergeFromBytes(m, bytes)

\* ParseFromString into the message m, of bytes that are WellFormed: Clear, then
\* _InternalParse
ParseFromString(Type, m, bytes) == MergeFromBytes(Clear(Type), bytes)

Parse(Type, bytes) == ParseFromString(Type, Clear(Type), bytes)

MergeFrom(Type, m, from) ==
  [k \in 1 .. Len(Type) |-> IF from[k] # Type[k] THEN from[k] ELSE m[k]]

CopyFrom(Type, from) == MergeFrom(Type, Clear(Type), from)
=============================================================================
