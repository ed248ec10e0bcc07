----------------------------- MODULE HeaderCodec -----------------------------
(***************************************************************************)
(* The bytes of a header (header.go, hash/hash.go), as MarshalChain and    *)
(* the chain's file hold them one after the other.  A string or signature  *)
(* is preceded by its length in one byte; the rest has fixed lengths.      *)
(***************************************************************************)
EXTENDS Naturals, Sequences

CONSTANTS ByteValues,  \* how many values a byte has: 256 in the program
          HashLen,     \* bytes of a hash: 34
          TimeLen,     \* bytes of a time: 15
          MetaLen      \* bytes kept for future expansion: 8

ASSUME CodecAssumption ==
    /\ {ByteValues, HashLen, TimeLen, MetaLen} \subseteq Nat \ {0}
    /\ ByteValues > 1

Zeros(n) == [i \in 1..n |-> 0]

\* uint8(len(b)) drops what does not fit.
writeStr(s) == <<Len(s) % ByteValues>> \o s

\* The null hash is written as zeros; a hash begins with its type, which is not 0.
\* Mutant: the null hash is written without its length byte.
MarshalHashShort(h) == IF h = << >> THEN Zeros(HashLen - 1) ELSE h
MarshalHash(h) == IF h = << >> THEN Zeros(HashLen) ELSE h

MarshalSignature(s) == writeStr(s)

MarshalHeader(hd) ==
    writeStr(hd.Type) \o hd.Time
      \o MarshalHash(hd.HeaderLink) \o MarshalHash(hd.EntryLink) \o MarshalHash(hd.TypeLink)
      \o MarshalSignature(hd.Sig) \o writeStr(hd.Action) \o MarshalHash(hd.Hash)
      \o Zeros(MetaLen)

-----------------------------------------------------------------------------
(* A reader is the bytes that are left, the fields that were read, and       *)
(* whether all went well: after an error nothing more is read.               *)

Reader(bytes) == [rest |-> bytes, fields |-> << >>, ok |-> TRUE]

\* binary.Read of n bytes after the first skip ones.
ReadBytes(r, skip, n) ==
    IF r.ok /\ Len(r.rest) >= skip + n
    THEN [r EXCEPT !.rest = SubSeq(r.rest, skip + n + 1, Len(r.rest)),
                   !.fields = Append(@, SubSeq(r.rest, skip + 1, skip + n))]
    ELSE [r EXCEPT !.ok = FALSE]

readStr(r) ==
    IF r.ok /\ r.rest # << >> THEN ReadBytes(r, 1, r.rest[1]) ELSE [r EXCEPT !.ok = FALSE]

UnmarshalHash(r) ==
    LET q == ReadBytes(r, 0, HashLen)
        i == Len(q.fields)
    IN  IF q.ok /\ q.fields[i][1] = 0 THEN [q EXCEPT !.fields[i] = << >>] ELSE q

UnmarshalSignature(r) == readStr(r)

UnmarshalHeader(bytes) ==
    LET start == ReadBytes(readStr(Reader(bytes)), 0, TimeLen)
        links == UnmarshalHash(UnmarshalHash(UnmarshalHash(start)))
        change == UnmarshalHash(readStr(UnmarshalSignature(links)))
    IN  ReadBytes(change, 0, MetaLen)

-----------------------------------------------------------------------------
Fields(hd) == <<hd.Type, hd.Time, hd.HeaderLink, hd.EntryLink, hd.TypeLink,
                hd.Sig, hd.Action, hd.Hash, Zeros(MetaLen)>>

\* Strings with lengths on both sides of what one byte can count, and hashes.
CodecStr == {[i \in 1..n |-> b] : n \in 0..(ByteValues + 1), b \in 0..1}
CodecHash == {<< >>} \cup {[i \in 1..HashLen |-> b] : b \in {1, ByteValues - 1}}
CodecHeader == [Type : CodecStr, Time : {Zeros(TimeLen)},
                HeaderLink : CodecHash, EntryLink : CodecHash \ {<< >>}, TypeLink : CodecHash,
                Sig : CodecStr, Action : {<< >>, <<1>>}, Hash : CodecHash]

Fits(hd) == Len(hd.Type) < ByteValues /\ Len(hd.Sig) < ByteValues

\* A header is read as it was written, up to its last byte and no further, so that
\* the entry behind it is found.
ReadBack(hd, tail) ==
    UnmarshalHeader(MarshalHeader(hd) \o tail)
        = [rest |-> tail, fields |-> Fields(hd), ok |-> TRUE]

\* Whether a header has a header, and a type, before it.
Linked(hd, null) == <<hd.HeaderLink # null, hd.TypeLink # null>>

\* The kinds of header that are not read as they should be: those, and no others,
\* whose type or signature is longer than the byte can say are not read back.
Misread == {Linked(hd, << >>) : hd \in {hd \in CodecHeader :
              \E tail \in {<< >>, <<0>>, <<1, 1>>} : ReadBack(hd, tail) # Fits(hd)}}
=============================================================================
