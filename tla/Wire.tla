--------------------------------- MODULE Wire ---------------------------------
(***************************************************************************)
(* How the messages of Protobuf are measured, written and parsed. The wire *)
(* is a flat sequence of tokens: the tag and the value or the length that  *)
(* follows it, and the bytes both take. Varints and the UTF-8 check are    *)
(* libprotobuf's.                                                          *)
(***************************************************************************)
EXTENDS Protobuf

\* libprotobuf: the bytes of a varint and of a string behind its tag
VarintSize(n) == 1 + Cardinality({k \in 1..4 : n >= 128 ^ k})
StringSize(s) == VarintSize(Len(s)) + Len(s)

Total(s) == FoldLeft(LAMBDA a, b : a + b, 0, s)

RECURSIVE ByteSizeLong(_, _)
ByteSizeLong(T, m) ==
  LET Bytes(d) ==
        LET v == m[d.name] IN
        IF d.kind = "varint" THEN IF v = 0 THEN 0 ELSE 1 + VarintSize(v)
        ELSE IF d.kind = "string" THEN IF v = <<>> THEN 0 ELSE 1 + StringSize(v)
        ELSE Total([i \in DOMAIN v |->
                    LET n == ByteSizeLong(d.of, v[i]) IN 1 + VarintSize(n) + n])
  IN FoldSet(LAMBDA d, n : n + Bytes(d), 0, SizeOf(T))

Token(number, wireType, val, size) ==
  [tag |-> 8 * number + wireType, val |-> val, size |-> size]

\* SerializeToString: fields with a default value are left out; a message is
\* preceded by the size that ByteSizeLong() has cached for it. Text that is not
\* UTF-8 is only logged here.
RECURSIVE InternalSerialize(_, _)
InternalSerialize(T, m) ==
  LET Tokens(number, d) ==
        LET v == m[d.name] IN
        IF d.kind = "varint"
          THEN IF v = 0 THEN <<>>
               ELSE <<Token(number, 0, v, 1 + VarintSize(v))>>
        ELSE IF d.kind = "string"
          THEN IF v = <<>> THEN <<>>
               ELSE <<Token(number, 2, v, 1 + StringSize(v))>>
        ELSE FlattenSeq([i \in DOMAIN v |->
               LET n == ByteSizeLong(d.of, v[i]) IN
               <<Token(number, 2, n, 1 + VarintSize(n))>>
                 \o InternalSerialize(d.of, v[i])])
  IN FlattenSeq([k \in DOMAIN SerializeOf(T) |->
                   Tokens(SerializeOf(T)[k][1], SerializeOf(T)[k][2])])

ParseError == [ok |-> FALSE, msg |-> <<>>, rest |-> <<>>]

\* _InternalParse() of limit bytes into m: a tag that is not in the table is an
\* unknown field, which is kept aside; text that is not UTF-8 is an error
RECURSIVE InternalParse(_, _, _, _)
InternalParse(T, m, wire, limit) ==
  IF limit = 0 THEN [ok |-> TRUE, msg |-> m, rest |-> wire]
  ELSE IF wire = <<>> \/ Head(wire).size > limit THEN ParseError
  ELSE
    LET t == Head(wire)
        left == limit - t.size
        Continue(n) == InternalParse(T, n, Tail(wire), left)
    IN
    IF t.tag \notin DOMAIN ParseOf(T) THEN Continue(m)
    ELSE
      LET d == ParseOf(T)[t.tag] IN
      IF d.kind = "varint" THEN Continue([m EXCEPT ![d.name] = t.val])
      ELSE IF d.kind = "string"
        THEN IF Range(t.val) \cap NotUtf8 # {} THEN ParseError
             ELSE Continue([m EXCEPT ![d.name] = t.val])
      ELSE
        LET into == IF d.kind = "oneof" THEN MutableOneof(T, m, d.name, d.of)
                    ELSE m
            old == IF d.kind = "repeated" THEN New(d.of)
                   ELSE Get(into, d.name, d.of)
            sub == InternalParse(d.of, old, Tail(wire), t.val)
            new == IF d.kind = "repeated" THEN Append(m[d.name], sub.msg)
                   ELSE <<sub.msg>>
        IN IF t.val > left \/ ~sub.ok THEN ParseError
           ELSE InternalParse(T, [into EXCEPT ![d.name] = new], sub.rest,
                              left - t.val)

\* ParseFromString: Clear() and parse all of the bytes
ParseFromString(T, m, wire, size) == InternalParse(T, Clear(T, m), wire, size)
=============================================================================
