---------------------------- MODULE SourceChain -----------------------------
(***************************************************************************)
(* The source chain of one agent (chain.go), the commits that add to it    *)
(* (doCommit of action.go, NewEntry of holochain.go) and the file it is    *)
(* persisted to.                                                           *)
(*                                                                         *)
(* doCommit prepares a header under the read lock, validates without a     *)
(* lock (application code runs, and may take long), and adds the entry     *)
(* under the write lock if the chain has not grown since; if it has, it    *)
(* starts again.  NewEntry does everything under the write lock.  The pair *)
(* of header and entry is written to the file, field by field, before the  *)
(* lock is released: a crash, or an error of the disk, may leave a part.   *)
(*                                                                         *)
(* The hash of a header stands for all its fields, the time and the        *)
(* signature included, so every prepared header has a hash of its own: the *)
(* number of the prepareHeader call that made it.                          *)
(***************************************************************************)
EXTENDS Integers, Sequences, FiniteSets

CONSTANTS Committer,   \* goroutines that commit
          EntryType,   \* entry types
          DNAEntryType,\* the type of the first entry, and of no other
          EntryHash,   \* entries, by hash
          Damage,      \* what a failed write or a crash may do to a pair
          MaxCommits,  \* bound: commits started in a behaviour
          MaxFaults    \* bound: crashes and failed writes in a behaviour

ASSUME ChainAssumption ==
    /\ DNAEntryType \in EntryType
    /\ Damage \subseteq {"cut", "torn"}
    /\ MaxCommits \in Nat /\ MaxFaults \in Nat

VARIABLES chain,   \* the Chain in memory
          file,    \* the pairs written to chain.s
          up,      \* whether the chain could be loaded
          proc,    \* what each committer is doing
          acked,   \* headers whose commit returned without error
          clock,   \* calls of prepareHeader so far
          commits, \* commits started so far
          faults   \* crashes and failed writes so far

vars == <<chain, file, up, proc, acked, clock, commits, faults>>

NullHash == 0

Header == [Type : EntryType, EntryLink : EntryHash,
           HeaderLink : Nat, TypeLink : Nat, Sum : Nat \ {NullHash}]

(***************************************************************************)
(* A chain.  The maps have index 0 for a key that is not in them; Hmap is  *)
(* a function on the hashes that are.                                      *)
(***************************************************************************)
NewChain == [Hashes   |-> << >>,
             Headers  |-> << >>,
             Entries  |-> << >>,
             TypeTops |-> [t \in EntryType |-> 0],
             Hmap     |-> << >>,
             Emap     |-> [e \in EntryHash |-> 0]]

Length(c) == Len(c.Headers)

prepareHeader(c, t, e, now) ==
    [Type       |-> t,
     EntryLink  |-> e,
     HeaderLink |-> IF c.Hashes = << >> THEN NullHash ELSE c.Hashes[Len(c.Hashes)],
     TypeLink   |-> IF c.TypeTops[t] = 0 THEN NullHash ELSE c.Hashes[c.TypeTops[t]],
     Sum        |-> now]

\* What addEntry does in memory, once its checks have passed.
addEntry(c, hd) ==
    LET i == Len(c.Hashes) + 1
    IN  [Hashes   |-> Append(c.Hashes, hd.Sum),
         Headers  |-> Append(c.Headers, hd),
         Entries  |-> Append(c.Entries, hd.EntryLink),
         TypeTops |-> [c.TypeTops EXCEPT ![hd.Type] = i],
         Hmap     |-> [h \in DOMAIN c.Hmap \cup {hd.Sum} |-> IF h = hd.Sum THEN i ELSE c.Hmap[h]],
         Emap     |-> [c.Emap EXCEPT ![hd.EntryLink] = i]]

-----------------------------------------------------------------------------
(* The file *)

(***************************************************************************)
(* A pair in the file is whole, cut between two fields, or torn inside a   *)
(* field.                                                                  *)
(***************************************************************************)
Pair == [hd : Header, state : {"whole", "cut", "torn"}]

Whole(hd) == [hd |-> hd, state |-> "whole"]

\* What a call of writePair may leave in the file.
Written == {"whole"} \cup Damage

Undamaged(f) == \A i \in DOMAIN f : f[i].state = "whole"

IsLast(S, x) == (x \in S \/ (S = {} /\ x = 0)) /\ \A y \in S : y <= x
Last(S) == CHOOSE x \in S \cup {0} : IsLast(S, x)

\* The chain of headers q with hashes hs.
ChainWith(hs, q) ==
    LET n == Len(q)
    IN  [Hashes   |-> hs,
         Headers  |-> q,
         Entries  |-> [i \in 1..n |-> q[i].EntryLink],
         TypeTops |-> [t \in EntryType |-> Last({i \in 1..n : q[i].Type = t})],
         Hmap     |-> [h \in {hs[i] : i \in 1..n} |-> Last({i \in 1..n : hs[i] = h})],
         Emap     |-> [e \in EntryHash |-> Last({i \in 1..n : q[i].EntryLink = e})]]

HeadersIn(f) == [i \in 1..Len(f) |-> f[i].hd]

\* Mutant: the last hash is not calculated.
ChainOfNoLastHash(f) ==
    ChainWith([i \in 1..Len(f) |-> f[i].hd.HeaderLink], HeadersIn(f))

\* The chain that the loop of addPair in NewChainFromFile builds from whole
\* pairs: the hash of a pair is the link of the next, of the last pair its sum.
ChainOf(f) ==
    ChainWith([i \in 1..Len(f) |-> IF i < Len(f) THEN f[i + 1].hd.HeaderLink
                                                 ELSE f[i].hd.Sum],
              HeadersIn(f))

\* Pair n is the last one before the first damaged one.
IsFirm(f, n) ==
    /\ n \in 0..Len(f)
    /\ \A i \in 1..n : f[i].state = "whole"
    /\ n < Len(f) => f[n + 1].state # "whole"

\* The pairs before the first damaged one.
WholePrefix(f) == SubSeq(f, 1, CHOOSE n \in 0..Len(f) : IsFirm(f, n))

(***************************************************************************)
(* Whether the file can be loaded.  The reader takes the end of the file   *)
(* between two fields for the end of the chain; inside a field it is an    *)
(* error.  What it makes of bytes that follow a damaged pair is anyone's   *)
(* guess: an error or a panic, or the end of the file between two fields.  *)
(***************************************************************************)
Loads(f) ==
    LET n == Len(WholePrefix(f))
    IN  IF n = Len(f)                               THEN {TRUE}
        ELSE IF n + 1 = Len(f) /\ f[n + 1].state = "cut"  THEN {TRUE}
        ELSE IF n + 1 = Len(f)                      THEN {FALSE}
        ELSE BOOLEAN

-----------------------------------------------------------------------------
Idle == [pc |-> "idle", result |-> "none"]
Done(r) == [pc |-> "idle", result |-> r]

ProcState ==
    [pc : {"idle"}, result : {"none", "ok", "invalid", "mismatch", "failed"}]
        \cup [pc : {"prepare"}, Type : EntryType, EntryLink : EntryHash]
        \cup [pc : {"validate", "add"}, Type : EntryType, EntryLink : EntryHash,
              count : Nat, idx : Nat, header : Header]

TypeOK ==
    /\ chain.Hashes \in Seq(Nat \ {NullHash})
    /\ chain.Headers \in Seq(Header)
    /\ chain.Entries \in Seq(EntryHash)
    /\ chain.TypeTops \in [EntryType -> Nat]
    /\ chain.Hmap \in [DOMAIN chain.Hmap -> Nat]
    /\ chain.Emap \in [EntryHash -> Nat]
    /\ file \in Seq(Pair)
    /\ up \in BOOLEAN
    /\ proc \in [Committer -> ProcState]
    /\ acked \subseteq Header
    /\ clock \in Nat
    /\ commits \in 0..MaxCommits
    /\ faults \in 0..MaxFaults

Init ==
    /\ chain = NewChain
    /\ file = << >>
    /\ up = TRUE
    /\ proc = [p \in Committer |-> Idle]
    /\ acked = {}
    /\ clock = 0
    /\ commits = 0
    /\ faults = 0

Become(p, st) == proc' = [proc EXCEPT ![p] = st]
At(p, pc) == up /\ proc[p].pc = pc

-----------------------------------------------------------------------------
\* doCommit is called; GenChain has put the DNA on the chain before.
StartCommit(p, t, e) ==
    /\ At(p, "idle")
    /\ chain.Headers # << >>
    /\ commits < MaxCommits
    /\ commits' = commits + 1
    /\ Become(p, [pc |-> "prepare", Type |-> t, EntryLink |-> e])
    /\ UNCHANGED <<chain, file, up, acked, clock, faults>>

\* The part of the loop under the read lock.
Prepare(p) ==
    /\ At(p, "prepare")
    /\ clock' = clock + 1
    /\ Become(p, [pc        |-> "validate",
                  Type      |-> proc[p].Type,
                  EntryLink |-> proc[p].EntryLink,
                  count     |-> Length(chain),
                  idx       |-> Len(chain.Hashes),
                  header    |-> prepareHeader(chain, proc[p].Type,
                                              proc[p].EntryLink, clock + 1)])
    /\ UNCHANGED <<chain, file, up, acked, commits, faults>>

\* ValidateAction accepts the entry, never a second DNA ...
Valid(p) ==
    /\ At(p, "validate") /\ proc[p].Type # DNAEntryType
    /\ Become(p, [proc[p] EXCEPT !.pc = "add"])
    /\ UNCHANGED <<chain, file, up, acked, clock, commits, faults>>

\* ... or refuses it.
Invalid(p) ==
    /\ At(p, "validate")
    /\ Become(p, Done("invalid"))
    /\ UNCHANGED <<chain, file, up, acked, clock, commits, faults>>

Preparing(p) ==
    [pc |-> "prepare", Type |-> proc[p].Type, EntryLink |-> proc[p].EntryLink]

\* Mutant: the header is not prepared anew.
AddAgain(p) ==
    /\ At(p, "add")
    /\ proc[p].count # Length(chain)
    /\ UNCHANGED vars

\* Someone has sneaked a commit in: prepare a new header.
PrepareAgain(p) ==
    /\ At(p, "add")
    /\ proc[p].count # Length(chain)
    /\ Become(p, Preparing(p))
    /\ UNCHANGED <<chain, file, up, acked, clock, commits, faults>>

\* addEntry in memory and in the file.  When writePair fails part of the way
\* the entry stays on the chain in memory, and the commit returns the error.
AddHeader(p, hd, written) ==
    /\ chain' = addEntry(chain, hd)
    /\ file' = Append(file, [hd |-> hd, state |-> written])
    /\ IF written = "whole"
       THEN /\ acked' = acked \cup {hd}
            /\ Become(p, Done("ok"))
            /\ UNCHANGED faults
       ELSE /\ faults < MaxFaults
            /\ faults' = faults + 1
            /\ Become(p, Done("failed"))
            /\ UNCHANGED acked

\* Mutant: the entry is added though the chain has grown.
AddBlindly(p, written) ==
    /\ At(p, "add")
    /\ AddHeader(p, proc[p].header, written)
    /\ UNCHANGED <<up, clock, commits>>

\* Mutant: the loop does not learn that the entry was added.
AddForgets(p, written) ==
    /\ At(p, "add")
    /\ proc[p].count = Length(chain)
    /\ chain' = addEntry(chain, proc[p].header)
    /\ file' = Append(file, Whole(proc[p].header))
    /\ Become(p, Preparing(p))
    /\ UNCHANGED <<up, acked, clock, commits, faults>>

\* The checks of addEntry.
Matches(idx) == idx = Len(chain.Hashes) /\ Len(chain.Hashes) = Len(chain.Entries)

\* addEntry under the write lock, when the chain has not grown since Prepare.
Add(p, written) ==
    /\ At(p, "add")
    /\ proc[p].count = Length(chain)
    /\ IF Matches(proc[p].idx)
       THEN AddHeader(p, proc[p].header, written)
       ELSE Become(p, Done("mismatch")) /\ UNCHANGED <<chain, file, acked, faults>>
    /\ UNCHANGED <<up, clock, commits>>

\* NewEntry prepares and adds without letting go of the write lock.  GenChain
\* calls it for the DNA, and for the first agent entry.
NewEntry(p, t, e, written) ==
    /\ At(p, "idle")
    /\ t = DNAEntryType <=> chain.Headers = << >>
    /\ commits < MaxCommits
    /\ commits' = commits + 1
    /\ clock' = clock + 1
    /\ IF Matches(Len(chain.Hashes))
       THEN AddHeader(p, prepareHeader(chain, t, e, clock + 1), written)
       ELSE Become(p, Done("mismatch")) /\ UNCHANGED <<chain, file, acked, faults>>
    /\ UNCHANGED up

-----------------------------------------------------------------------------
\* The process stops and starts again, and NewChainFromFile loads f.
Restart(f) ==
    /\ up
    /\ faults < MaxFaults
    /\ faults' = faults + 1
    /\ file' = f
    /\ up' \in Loads(f)
    /\ chain' = IF up' THEN ChainOf(WholePrefix(f)) ELSE NewChain
    /\ proc' = [p \in Committer |-> Idle]
    /\ UNCHANGED <<acked, clock, commits>>

\* A crash outside addEntry, or an orderly stop.
Crash == Restart(file)

\* A crash while writePair writes the header that doCommit has prepared.
CrashWriting(p, damage) ==
    /\ At(p, "add")
    /\ proc[p].count = Length(chain)
    /\ Matches(proc[p].idx)
    /\ Restart(Append(file, [hd |-> proc[p].header, state |-> damage]))

-----------------------------------------------------------------------------
Step(p) ==
    \/ Prepare(p)
    \/ Valid(p)
    \/ Invalid(p)
    \/ PrepareAgain(p)
    \/ \E written \in Written : Add(p, written)

Next ==
    \/ \E p \in Committer, t \in EntryType, e \in EntryHash :
          \/ StartCommit(p, t, e)
          \/ \E written \in Written : NewEntry(p, t, e, written)
    \/ \E p \in Committer : Step(p)
    \/ \E p \in Committer, damage \in Damage : CrashWriting(p, damage)
    \/ Crash

Spec == Init /\ [][Next]_vars

(***************************************************************************)
(* Goroutines are scheduled, and validation returns.                       *)
(***************************************************************************)
FairSpec == Spec /\ \A p \in Committer : WF_vars(Step(p))

-----------------------------------------------------------------------------
(* Properties *)

\* Every header links to the hash of the last header of its type before it:
\* what Validate leaves to do ("confirm that TypeLinks are also correct").
TypesLinked ==
    \A i \in 1..Length(chain) :
        LET Before == {j \in 1..(i - 1) : chain.Headers[j].Type = chain.Headers[i].Type}
            link == chain.Headers[i].TypeLink
        IN  \/ Before = {} /\ link = NullHash
            \/ \E j \in Before : IsLast(Before, j) /\ link = chain.Hashes[j]

\* Whatever commits run at once, every header links to the hash of the one
\* before it, as Validate confirms, and to the last one of its type.  So the
\* checks of addEntry ("entry indexes don't match can't create new entry",
\* ErrIncompleteChain) never fail a commit, whoever commits between
\* prepareHeader and addEntry.  Every variable has a value of its type.
ChainLinked ==
    /\ TypeOK /\ TypesLinked
    /\ \A p \in Committer : proc[p] # Done("mismatch")
    /\ Len(chain.Hashes) = Length(chain) /\ Len(chain.Entries) = Length(chain)
    /\ \A i \in 1..Length(chain) :
          /\ chain.Hashes[i] = chain.Headers[i].Sum
          /\ chain.Entries[i] = chain.Headers[i].EntryLink
          /\ chain.Headers[i].HeaderLink = IF i = 1 THEN NullHash
                                                    ELSE chain.Hashes[i - 1]

\* The maps lead to the last header of a type or of an entry, and to the
\* header of a hash.
MapsAgree ==
    LET n == Length(chain)
    IN  /\ \A t \in EntryType :
              IsLast({i \in 1..n : chain.Headers[i].Type = t}, chain.TypeTops[t])
        /\ \A e \in EntryHash :
              IsLast({i \in 1..n : chain.Headers[i].EntryLink = e}, chain.Emap[e])
        /\ DOMAIN chain.Hmap = {chain.Hashes[i] : i \in 1..n}
        /\ \A i \in 1..n : chain.Hmap[chain.Hashes[i]] = i

\* As long as no write was cut short, the file loads to the chain in memory,
\* maps and all, and a commit that returned without error is there, also after
\* a restart.
FileMatchesChain ==
    up /\ Undamaged(file) =>
        /\ ChainOf(file) = chain
        /\ \A hd \in acked : \E i \in 1..Length(chain) : chain.Headers[i] = hd

\* The retry loop of doCommit ends.
CommitReturns == \A p \in Committer : proc[p].pc # "idle" ~> proc[p].pc = "idle"

\* NewChainFromFile creates a chain "loading any data there" (chain.go:68): an
\* entry whose commit returned without error is there after any restart.
AckedSurvives ==
    \A hd \in acked : \E i \in 1..Length(chain) : chain.Headers[i] = hd
-----------------------------------------------------------------------------
(* The chain as its committers see it *)

CommitOf(r) == [Type |-> r.Type, EntryLink |-> r.EntryLink]

LogBar == [i \in 1..Length(chain) |-> CommitOf(chain.Headers[i])]

PendingBar ==
    [p \in Committer |-> IF proc[p].pc = "idle" THEN {} ELSE {CommitOf(proc[p])}]

ResultBar ==
    [p \in Committer |-> IF proc[p].pc = "idle" THEN proc[p].result ELSE "none"]

Abstract ==
    INSTANCE CommitLog WITH log <- LogBar, pending <- PendingBar, result <- ResultBar,
                            firm <- Len(WholePrefix(file)), damaged <- ~Undamaged(file)

\* doCommit and NewEntry add each entry that is committed exactly once,
\* whatever the loop has to repeat; restarts lose nothing as long as no write
\* was cut short, and never what was committed before the first one that was,
\* if the file loads at all.
ImplementsCommitLog == Abstract!Spec
=============================================================================
