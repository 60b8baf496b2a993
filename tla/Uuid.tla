-------------------------------- MODULE Uuid --------------------------------
(***************************************************************************)
(* compat/uuid/uuid.h: identifiers made from the GUIDs of Windows, kept in *)
(* variables of 16 bytes, copied, cleared, compared and written as text.   *)
(* Which GUID each variable and each text stands for is noted beside it.   *)
(***************************************************************************)
EXTENDS Integers, Sequences

CONSTANTS
  Guids,      \* what CoCreateGuid() may leave in the structure; its result is not
              \* tested, so after a failure that is what was in memory before
  Var,        \* the uuid_t variables of the program
  Buffer      \* the buffers it writes texts to

Byte == 0..255
Word == 0..65535
Guid == [Data1 : Nat, Data2 : Word, Data3 : Word, Data4 : [1..8 -> Byte]]
Nil == [Data1 |-> 0, Data2 |-> 0, Data3 |-> 0, Data4 |-> [i \in 1..8 |-> 0]]

ASSUME UuidAssumption ==
  /\ Guids \subseteq Guid
  /\ \A g \in Guids : g.Data1 \div 65536 \in Word

VARIABLES
  uuid,       \* the bytes of each variable
  from,       \* the GUID they stand for
  text,       \* the text in each buffer
  textFrom    \* the GUID it stands for, if any

uuidVars == <<uuid, from, text, textFrom>>

-----------------------------------------------------------------------------
(* (unsigned char)(data >> k), with 2^k for k.                               *)
ByteOf(data, power) == (data \div power) % 256

(* Mutant: the structure is copied as it lies in memory.                     *)
BytesInMemory(g) ==
  <<ByteOf(g.Data1, 1), ByteOf(g.Data1, 256), ByteOf(g.Data1, 65536), ByteOf(g.Data1, 16777216),
    ByteOf(g.Data2, 1), ByteOf(g.Data2, 256), ByteOf(g.Data3, 1), ByteOf(g.Data3, 256)>>
  \o g.Data4

Bytes(g) ==
  <<ByteOf(g.Data1, 16777216), ByteOf(g.Data1, 65536), ByteOf(g.Data1, 256), ByteOf(g.Data1, 1),
    ByteOf(g.Data2, 256), ByteOf(g.Data2, 1), ByteOf(g.Data3, 256), ByteOf(g.Data3, 1)>>
  \o g.Data4

(* The characters are the digits 0 to 15 and the dash.                       *)
Dash == <<16>>
Hex(u, i, j) == [k \in 1..2 * (j - i + 1) |->
  LET byte == u[i + (k - 1) \div 2] IN IF k % 2 = 1 THEN byte \div 16 ELSE byte % 16]

(* Mutant: a group that starts one byte early.                               *)
TextShifted(u) ==
  Hex(u, 1, 4) \o Dash \o Hex(u, 5, 6) \o Dash \o Hex(u, 7, 8) \o Dash
    \o Hex(u, 8, 9) \o Dash \o Hex(u, 11, 16)

Text(u) ==
  Hex(u, 1, 4) \o Dash \o Hex(u, 5, 6) \o Dash \o Hex(u, 7, 8) \o Dash
    \o Hex(u, 9, 10) \o Dash \o Hex(u, 11, 16)

Zeros == [i \in 1..16 |-> 0]

(* memcmp(): 0, or the order of the first bytes that differ.                 *)
BytesLess(u, w) == \E i \in 1..16 : u[i] < w[i] /\ \A k \in 1..i - 1 : u[k] = w[k]
uuid_compare(u, w) == IF u = w THEN 0 ELSE IF BytesLess(u, w) THEN -1 ELSE 1

uuid_is_null(u) == uuid_compare(u, Zeros) = 0

-----------------------------------------------------------------------------
UuidInit ==
  /\ uuid = [v \in Var |-> Zeros]
  /\ from = [v \in Var |-> Nil]
  /\ text = [b \in Buffer |-> <<>>]
  /\ textFrom = [b \in Buffer |-> {}]

Assign(v, bytes, g) ==
  /\ uuid' = [uuid EXCEPT ![v] = bytes]
  /\ from' = [from EXCEPT ![v] = g]
  /\ UNCHANGED <<text, textFrom>>

uuid_generate(v) == \E g \in Guids : Assign(v, Bytes(g), g)
uuid_copy(dst, src) == Assign(dst, uuid[src], from[src])
uuid_clear(v) == Assign(v, Zeros, Nil)

uuid_unparse(v, b) ==
  /\ text' = [text EXCEPT ![b] = Text(uuid[v])]
  /\ textFrom' = [textFrom EXCEPT ![b] = {from[v]}]
  /\ UNCHANGED <<uuid, from>>

UuidNext ==
  \E v \in Var :
    \/ uuid_generate(v) \/ uuid_clear(v)
    \/ \E w \in Var : uuid_copy(v, w)
    \/ \E b \in Buffer : uuid_unparse(v, b)

UuidSpec == UuidInit /\ [][UuidNext]_uuidVars

-----------------------------------------------------------------------------
(* The order of two GUIDs is that of their first fields that differ.         *)
GuidLess(g, h) ==
  \/ g.Data1 < h.Data1
  \/ g.Data1 = h.Data1 /\ g.Data2 < h.Data2
  \/ g.Data1 = h.Data1 /\ g.Data2 = h.Data2 /\ g.Data3 < h.Data3
  \/ /\ <<g.Data1, g.Data2, g.Data3>> = <<h.Data1, h.Data2, h.Data3>>
     /\ \E i \in 1..8 :
          g.Data4[i] < h.Data4[i] /\ \A k \in 1..i - 1 : g.Data4[k] = h.Data4[k]

(* uuid_compare() orders the bytes as the numbers in the GUIDs are ordered,  *)
(* and only the GUID of zeros is null, wherever the bytes were copied.       *)
ComparesGuids ==
  \A v, w \in Var :
    /\ uuid_compare(uuid[v], uuid[w]) = 0 <=> from[v] = from[w]
    /\ uuid_compare(uuid[v], uuid[w]) < 0 <=> GuidLess(from[v], from[w])
    /\ uuid_is_null(uuid[v]) <=> from[v] = Nil

(* Two identifiers are the same text exactly if they stand for the same      *)
(* GUID, and a text with its zero fits the 37 bytes uuid_unparse() writes.   *)
TextTellsGuid ==
  \A b, c \in Buffer :
    textFrom[b] # {} =>
      /\ Len(text[b]) + 1 = 37
      /\ text[b] = text[c] <=> textFrom[b] = textFrom[c]
=============================================================================
