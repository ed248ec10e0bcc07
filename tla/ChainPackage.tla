---------------------------- MODULE ChainPackage ----------------------------
(***************************************************************************)
(* The part of the source chain that a node sends to those who validate    *)
(* its entries (MakePackage of validate.go, MarshalChain of chain.go), and *)
(* what they make of it (UnmarshalChain, MakeValidationPackage, Validate). *)
(*                                                                         *)
(* The content of an entry is named by its hash; two contents are the hash *)
(* of no entry: the empty one that stands for the DNA, and the one that    *)
(* stands for a private entry.  All nodes of an application have its DNA.  *)
(***************************************************************************)
EXTENDS ChainReads, HeaderCodec

CONSTANTS Private   \* entry types whose definition says they are private

ASSUME PackageAssumption ==
    /\ Private \subseteq EntryType \ {DNAEntryType}
    /\ {"empty", "redacted"} \cap EntryHash = {}

\* What a validation function may ask for.
ChainOpt == [headers : BOOLEAN, entries : BOOLEAN, types : SUBSET EntryType]

filterPass(hd, whitelist, blacklist) ==
    (whitelist # {} => hd.Type \in whitelist) /\ hd.Type \notin blacklist

\* The loop of MarshalChain that finds the headers to write.
ToWrite(c, o) ==
    LET Included(i) == i = 1 \/ filterPass(c.Headers[i], o.types, {})
        toWrite[i \in 0..Length(c)] ==
            IF i = 0 THEN << >>
            ELSE IF Included(i) THEN toWrite[i - 1] \o <<i>> ELSE toWrite[i - 1]
    IN  toWrite[Length(c)]

\* The entry that MarshalChain writes for header i, if it writes one.
EntryToWrite(c, i, o) ==
    IF ~filterPass(c.Headers[i], o.types, Private) THEN <<"redacted">>
    ELSE IF ~o.entries                             THEN << >>
    ELSE IF i = 1                                  THEN <<"empty">>
    ELSE <<c.Entries[i]>>

\* MarshalChain, with the flags that MakePackage gives it: pairs of a header
\* and an entry, either of which may be left out, and the hash of the last.
MarshalChain(c, o) ==
    LET toWrite == ToWrite(c, o)
    IN  [headers |-> o.headers,
         entries |-> o.entries,
         pairs   |-> [k \in DOMAIN toWrite |->
                        [hd    |-> IF o.headers THEN <<c.Headers[toWrite[k]]>> ELSE << >>,
                         entry |-> EntryToWrite(c, toWrite[k], o)]],
         hash    |-> c.Hashes[toWrite[Len(toWrite)]]]

(***************************************************************************)
(* The reader goes by the flags: if a pair has a part they do not announce *)
(* it loses its place in the bytes, and what it reads from there on is no  *)
(* chain that Validate would accept.                                       *)
(***************************************************************************)
InPlace(pkg) ==
    \A k \in DOMAIN pkg.pairs : /\ pkg.pairs[k].hd # << >> <=> pkg.headers
                                /\ pkg.pairs[k].entry # << >> <=> pkg.entries

UnmarshalChain(pkg) ==
    LET n == Len(pkg.pairs)
        q == [k \in 1..n |-> pkg.pairs[k].hd[1]]
        hs == [k \in 1..n |-> IF k < n THEN q[k + 1].HeaderLink ELSE pkg.hash]
        c == IF pkg.headers THEN ChainWith(hs, q) ELSE NewChain
    IN  [c EXCEPT !.Entries = IF pkg.entries THEN [k \in 1..n |-> pkg.pairs[k].entry[1]]
                                             ELSE << >>]

\* Mutant: the top of the chain is taken on trust.
ValidateButTop(c, skipEntries) ==
    \A i \in 1..(Length(c) - 1) :
        /\ c.Headers[i].Sum = c.Headers[i + 1].HeaderLink
        /\ skipEntries \/ c.Entries[i] = c.Headers[i].EntryLink

Validate(c, skipEntries) ==
    LET l == Length(c)
    IN  \A i \in 1..l :
            /\ c.Headers[i].Sum = IF i < l - 1 THEN c.Headers[i + 1].HeaderLink
                                               ELSE c.Hashes[i]
            /\ skipEntries \/ c.Entries[i] = c.Headers[i].EntryLink

\* Mutant: the DNA is not put back.
MakeValidationPackageNoDNA(dna, pkg) ==
    LET c == UnmarshalChain(pkg)
    IN  IF InPlace(pkg) /\ (pkg.headers => Validate(c, ~pkg.entries)) THEN {c} ELSE {}

\* The chain that the validation function is given, or none if the package is
\* refused.
MakeValidationPackage(dna, pkg) ==
    IF ~InPlace(pkg) THEN {}
    ELSE LET c == UnmarshalChain(pkg)
             full == IF pkg.entries THEN [c EXCEPT !.Entries[1] = dna] ELSE c
         IN  IF pkg.headers => Validate(full, ~pkg.entries) THEN {full} ELSE {}

-----------------------------------------------------------------------------
\* The application has a chain from which MakePackage can make a package.
Packages == up /\ chain.Headers # << >>

Received(pkg) == MakeValidationPackage(chain.Entries[1], pkg)

\* No package holds an entry of a private type, or of one not asked for.
PrivateStaysHome ==
    Packages => \A o \in ChainOpt :
        LET pairs == MarshalChain(chain, o).pairs
            MaySend == {i \in 1..Length(chain) : /\ chain.Headers[i].Type \notin Private
                                                 /\ o.types # {} => chain.Headers[i].Type \in o.types}
        IN  \A k \in DOMAIN pairs, e \in EntryHash :
                pairs[k].entry = <<e>> => \E i \in MaySend : chain.Entries[i] = e

\* Where no type is asked for by name and no entry is private, what the
\* validation function is given is the chain, or the headers or the entries of
\* it: MarshalChain, UnmarshalChain and the DNA that MakeValidationPackage puts
\* back lose nothing.  And no package, whatever is asked for, holds an entry of a
\* private type, or of a type that was not asked for.
PackageIsChain ==
    /\ PrivateStaysHome
    /\ Packages /\ (\A i \in 1..Length(chain) : chain.Headers[i].Type \notin Private) =>
        \A o \in ChainOpt : o.types = {} =>
            Received(MarshalChain(chain, o)) =
                {[(IF o.headers THEN chain ELSE NewChain)
                    EXCEPT !.Entries = IF o.entries THEN chain.Entries ELSE << >>]}

\* Every header on the chain, whatever the name of its type, its signature and its
\* change, is read from the file or a package as MarshalHeader wrote it, just if type and
\* signature are no longer than the byte that writeStr gives their lengths.
HeadersReadBack ==
    \A i \in 1..Length(chain) : Linked(chain.Headers[i], NullHash) \notin Misread

\* The package with entry e in place k, or with a field of header k changed,
\* and with it the hash of the header.
OtherEntry(pkg, k, e) == [pkg EXCEPT !.pairs = [@ EXCEPT ![k].entry = <<e>>]]
OtherHeader(pkg, k) == [pkg EXCEPT !.pairs = [@ EXCEPT ![k].hd[1].Sum = clock + 1]]

\* A package with headers of which one header, or one entry but the DNA, is not
\* the one on the chain is refused, wherever in the chain that is, the top
\* included, for which Validate has no next header to compare with.
AlteredRefused ==
    Packages => \A o \in ChainOpt : o.headers =>
        LET pkg == MarshalChain(chain, o)
        IN  \A k \in DOMAIN pkg.pairs :
                /\ Received(OtherHeader(pkg, k)) = {}
                /\ \A e \in EntryHash \ {pkg.pairs[k].hd[1].EntryLink} :
                      o.entries /\ k > 1 => Received(OtherEntry(pkg, k, e)) = {}

\* "Chain DNA is omitted in this package because it can be added at the
\* destination and the chain will still validate" (validate.go:69): when
\* MakePackage makes a package of headers and entries, its receivers accept it.
PackageValidates ==
    Packages => \A o \in ChainOpt :
        o.headers /\ o.entries => Received(MarshalChain(chain, o)) # {}
=============================================================================
