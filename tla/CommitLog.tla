----------------------------- MODULE CommitLog ------------------------------
(***************************************************************************)
(* What a source chain promises to those who commit to it: every commit    *)
(* that succeeds puts its entry on the log exactly once, every commit that *)
(* is refused leaves the log alone, and a restart forgets the commits that *)
(* are under way.  As long as no write is damaged that is all it forgets;  *)
(* afterwards it keeps the entries written before the damage, or does not  *)
(* come up.                                                                *)
(***************************************************************************)
EXTENDS Naturals, Sequences

CONSTANTS Committer, EntryType, EntryHash

VARIABLES log,     \* the entries on the chain
          pending, \* per committer: the commit under way, if any
          result,  \* per committer: how its last commit ended
          firm,    \* how many entries were written before any damage
          damaged  \* some write was damaged

vars == <<log, pending, result, firm, damaged>>

Commit == [Type : EntryType, EntryLink : EntryHash]

Init ==
    /\ log = << >>
    /\ pending = [p \in Committer |-> {}]
    /\ result = [p \in Committer |-> "none"]
    /\ firm = 0 /\ damaged = FALSE

Request(p, c) ==
    /\ pending[p] = {}
    /\ pending' = [pending EXCEPT ![p] = {c}]
    /\ result' = [result EXCEPT ![p] = "none"]
    /\ UNCHANGED <<log, firm, damaged>>

Refuse(p, c) ==
    /\ pending[p] = {c}
    /\ pending' = [pending EXCEPT ![p] = {}]
    /\ result' = [result EXCEPT ![p] = "invalid"]
    /\ UNCHANGED <<log, firm, damaged>>

\* The entry is on the log; the commit fails if its write is damaged.
Accept(p, c) ==
    /\ pending[p] \subseteq {c}
    /\ log' = Append(log, c)
    /\ pending' = [pending EXCEPT ![p] = {}]
    /\ \/ /\ result' = [result EXCEPT ![p] = "ok"]
          /\ firm' = IF damaged THEN firm ELSE firm + 1
          /\ UNCHANGED damaged
       \/ /\ result' = [result EXCEPT ![p] = "failed"]
          /\ damaged' = TRUE
          /\ UNCHANGED firm

Restart ==
    /\ pending' = [p \in Committer |-> {}]
    /\ result' = [p \in Committer |-> "none"]
    /\ damaged => damaged'
    /\ IF damaged' THEN log' \in {SubSeq(log, 1, firm), << >>} ELSE log' = log
    /\ UNCHANGED firm

Next ==
    \/ \E p \in Committer, c \in Commit : Request(p, c) \/ Accept(p, c) \/ Refuse(p, c)
    \/ damaged' \in BOOLEAN /\ Restart

Spec == Init /\ [][Next]_vars
=============================================================================
