----------------------------- MODULE AppProofs ------------------------------
(***************************************************************************)
(* Proofs about Bridge, for any applications, functions and numbers of     *)
(* tokens, calls and starts: who may run what through a bridge.            *)
(*                                                                         *)
(* A token is in many places: registered at the callee, in a bridge that   *)
(* is being built, stored by the caller, in a call under way.  The         *)
(* invariant says of each that the token was made for those two            *)
(* applications, and that the callee still has it unless it was revoked.   *)
(*                                                                         *)
(* Then proofs about AppDir, for any source directories, commands,         *)
(* failures and crashes: a directory that was made loads, one that was     *)
(* started is set up, and what was started stays.                          *)
(*                                                                         *)
(* The invariant says how far the command under way has come in its        *)
(* writes: the DNA directory is what saveDNAFile has made of it by then,   *)
(* the chain what GenChain has.  Between commands the chain is empty or    *)
(* set up unless GenChain was stopped, and nothing is there that was not   *)
(* made to the end or left by a command that was stopped.                  *)
(***************************************************************************)
EXTENDS AppDir, Bridge, FiniteSetTheorems, TLAPS

-----------------------------------------------------------------------------
(* Sequences *)

\* The empty sequence has no elements.
LEMMA NoneHasLength == Len(<< >>) = 0
OBVIOUS

\* Sequences with the same elements in the same places are the same.
LEMMA SameSeq ==
    ASSUME NEW S, NEW q \in Seq(S), NEW r \in Seq(S),
           Len(q) = Len(r), \A i \in 1..Len(q) : q[i] = r[i]
    PROVE  q = r
OBVIOUS

\* What SubSeq takes out, from place a to place b.
LEMMA PartIs ==
    ASSUME NEW S, NEW q, NEW a \in Int, NEW b \in Int, \A i \in a..b : q[i] \in S
    PROVE  /\ SubSeq(q, a, b) \in Seq(S)
           /\ Len(SubSeq(q, a, b)) = IF a <= b THEN b - a + 1 ELSE 0
           /\ \A i \in 1..(b - a + 1) : SubSeq(q, a, b)[i] = q[a + i - 1]
OBVIOUS

\* Two sequences make one.
LEMMA JoinIs ==
    ASSUME NEW S, NEW q \in Seq(S), NEW r \in Seq(S)
    PROVE  /\ q \o r \in Seq(S) /\ Len(q \o r) = Len(q) + Len(r)
           /\ \A i \in 1..(Len(q) + Len(r)) :
                 (q \o r)[i] = IF i <= Len(q) THEN q[i] ELSE r[i - Len(q)]
OBVIOUS

\* What is left of a sequence after its first element.
LEMMA RestIs ==
    ASSUME NEW S, NEW q \in Seq(S), q # << >>
    PROVE  /\ Tail(q) \in Seq(S) /\ Len(Tail(q)) = Len(q) - 1
           /\ \A i \in 1..Len(Tail(q)) : Tail(q)[i] = q[i + 1]
OBVIOUS

-----------------------------------------------------------------------------
(* Bridge *)

Registered(b) == {r.token : r \in tok[b]}

\* t was made for calls from a to b, and b has it or has revoked it.
MadeFor(t, a, b) ==
    /\ t \in 1..minted /\ owner[t] = <<a, b>>
    /\ t \in Registered(b) \/ t \in revoked

\* A registered token was made for its callee, is for the functions of the DNA,
\* and not revoked.
RegisteredOK ==
    \A b \in App : \A r \in tok[b] :
        /\ r.token \in 1..minted /\ r.spec = BridgeFuncs[b] /\ r.token \notin revoked
        /\ \E a \in App : owner[r.token] = <<a, b>>

StoredOK == \A a, b \in App : app[a][b] # NoToken => MadeFor(app[a][b], a, b)

BuildOK ==
    \/ build = NoBuild
    \/ /\ build \in [step : {"callee", "caller"}, from : App, to : App, token : Nat]
       /\ MadeFor(build.token, build.from, build.to)

Request == [id : Nat, from : App, to : App, fn : Fn, token : Nat, phase : Phase]

CallsOK ==
    \A c \in calls :
        /\ c \in Request /\ MadeFor(c.token, c.from, c.to)
        /\ c.phase = "ran" => c.fn \in BridgeFuncs[c.to]

\* Calls are told apart by their ids.
IdsOK ==
    /\ IsFiniteSet(calls)
    /\ \A c \in calls : c.id < Cardinality(calls)
    /\ \A c, d \in calls : c.id = d.id => c = d

\* The types of the other variables.
RestOK ==
    /\ tok \in [App -> SUBSET [token : Token, spec : SUBSET Fn]]
    /\ app \in [App -> [App -> Token \cup {NoToken}]]
    /\ running \subseteq App /\ open \subseteq App
    /\ minted \in 0..MaxToken /\ revoked \subseteq 1..minted /\ starts \in 0..MaxStarts

BridgeInv == RestOK /\ RegisteredOK /\ StoredOK /\ BuildOK /\ CallsOK /\ IdsOK

-----------------------------------------------------------------------------
\* NoBuild is no bridge under construction.
LEMMA NoBuildStep == NoBuild.step = "none"
BY ZenonT(30) DEF NoBuild

\* The invariant holds when nothing has been built.
LEMMA InitInv == BridgeInit => BridgeInv
<1> SUFFICES ASSUME BridgeInit PROVE BridgeInv
    BY ZenonT(30)
<1>1. RestOK
    BY BridgeBoundsAssumption DEF BridgeInit, RestOK, NoToken
<1>2. RegisteredOK /\ StoredOK /\ BuildOK /\ CallsOK
    BY ZenonT(30) DEF BridgeInit, RegisteredOK, StoredOK, BuildOK, CallsOK
<1>3. IdsOK
    BY ZenonT(30), FS_EmptySet DEF BridgeInit, IdsOK
<1> QED BY ZenonT(30), <1>1, <1>2, <1>3 DEF BridgeInv

\* What was made for two applications stays theirs, through steps that make a
\* token or revoke one.
LEMMA MadeForKept ==
    ASSUME NEW t, NEW a, NEW b, MadeFor(t, a, b), minted \in Nat, minted' \in Nat, minted <= minted',
           \A u \in 1..minted : owner'[u] = owner[u],
           Registered(b) \subseteq Registered(b)' \cup revoked', revoked \subseteq revoked'
    PROVE  MadeFor(t, a, b)'
BY DEF MadeFor

\* Steps that leave tokens alone leave them whose they are.
LEMMA MadeForSame ==
    ASSUME UNCHANGED <<tok, minted, revoked, owner>>
    PROVE  /\ \A t, a, b : MadeFor(t, a, b)' = MadeFor(t, a, b)
           /\ RegisteredOK' = RegisteredOK
BY DEF MadeFor, Registered, RegisteredOK

\* Starts, stops and openings concern no token.
LEMMA QuietStep ==
    ASSUME BridgeInv, UNCHANGED <<tok, app, minted, revoked, owner, calls>>,
           running' \subseteq App, open' \subseteq App, starts' \in 0..MaxStarts,
           build' \in {build, NoBuild}
    PROVE  BridgeInv'
<1>1. RestOK'
    BY ZenonT(30) DEF BridgeInv, RestOK
<1>2. RegisteredOK' /\ StoredOK'
    BY MadeForSame DEF BridgeInv, StoredOK
<1>3. BuildOK'
    BY ZenonT(30), MadeForSame DEF BridgeInv, BuildOK
<1>4. CallsOK' /\ IdsOK'
    BY MadeForSame DEF BridgeInv, CallsOK, IdsOK
<1> QED BY ZenonT(30), <1>1, <1>2, <1>3, <1>4 DEF BridgeInv

\* AddBridgeAsCallee makes a token that nobody had.
LEMMA CalleeStep ==
    ASSUME BridgeInv, NEW from \in App, NEW to \in App, AddBridgeAsCallee(from, to)
    PROVE  BridgeInv'
<1> DEFINE t == minted + 1
           r0 == [token |-> t, spec |-> BridgeFuncs[to]]
<1>0. /\ RestOK /\ minted \in Nat /\ minted < MaxToken /\ MaxToken \in Nat
    BY BridgeBoundsAssumption DEF BridgeInv, RestOK, AddBridgeAsCallee
<1>1. /\ minted' = t /\ owner' = [u \in 1..t |-> IF u = t THEN <<from, to>> ELSE owner[u]]
      /\ tok' = [tok EXCEPT ![to] = tok[to] \cup {r0}] /\ open' = open \cup {to}
      /\ build' = [step |-> "callee", from |-> from, to |-> to, token |-> t]
      /\ UNCHANGED <<app, running, revoked, calls, starts>>
    BY ZenonT(30) DEF AddBridgeAsCallee, NewCapability, makeBridgeSpec, initBridgeDB
<1>2. t \in Token /\ t \in 1..t /\ t \in Nat /\ t \notin 1..minted /\ 1..minted \subseteq 1..t
    BY <1>0 DEF Token
<1>3. r0 \in [token : Token, spec : SUBSET Fn] /\ r0.token = t /\ r0.spec = BridgeFuncs[to]
    BY ZenonT(30), <1>2, BridgeFuncsAssumption
<1> HIDE DEF r0
<1>4. /\ \A u \in 1..minted : owner'[u] = owner[u]
      /\ owner'[t] = <<from, to>>
    BY ZenonT(30), <1>0, <1>1, <1>2
<1>5. \A b \in App : tok[b] \subseteq tok'[b] /\ \A r \in tok'[b] : r \in tok[b] \/ (r = r0 /\ b = to)
    BY ZenonT(30), <1>0, <1>1 DEF RestOK
<1>6. r0 \in tok'[to]
    BY ZenonT(30), <1>0, <1>1 DEF RestOK
<1>7. \A b \in App : Registered(b) \subseteq Registered(b)'
    BY ZenonT(30), <1>5 DEF Registered
<1>8. ASSUME NEW u, NEW a \in App, NEW b \in App, MadeFor(u, a, b)
      PROVE  MadeFor(u, a, b)'
    BY <1>0, <1>1, <1>2, <1>4, <1>7, <1>8, MadeForKept
<1>9. RestOK'
    BY <1>0, <1>1, <1>2, <1>3 DEF RestOK
<1>10. RegisteredOK'
    <2> SUFFICES ASSUME NEW b \in App, NEW r \in tok'[b]
                 PROVE  /\ r.token \in 1..minted' /\ r.spec = BridgeFuncs[b] /\ r.token \notin revoked'
                        /\ \E a \in App : owner'[r.token] = <<a, b>>
        BY ZenonT(30) DEF RegisteredOK
    <2>1. CASE r \in tok[b]
        BY ZenonT(60), <2>1, <1>1, <1>2, <1>4 DEF BridgeInv, RegisteredOK
    <2>2. CASE r = r0 /\ b = to
        <3>1. r.token = t /\ r.spec = BridgeFuncs[b] /\ owner'[r.token] = <<from, b>>
            BY ZenonT(30), <2>2, <1>3, <1>4
        <3>2. t \notin revoked' /\ t \in 1..minted'
            BY ZenonT(30), <1>0, <1>1, <1>2 DEF RestOK
        <3> QED BY ZenonT(30), <3>1, <3>2
    <2>3. r \in tok[b] \/ (r = r0 /\ b = to)
        BY ZenonT(30), <1>5
    <2> QED BY ZenonT(30), <2>1, <2>2, <2>3
<1>11. StoredOK' /\ CallsOK'
    BY ZenonT(30), <1>1, <1>8 DEF BridgeInv, StoredOK, CallsOK, Request
<1>12. BuildOK'
    <2>1. t \in Registered(to)'
        BY ZenonT(30), <1>3, <1>6 DEF Registered
    <2>2. /\ build'.token = t /\ build'.from = from /\ build'.to = to
          /\ build' \in [step : {"callee", "caller"}, from : App, to : App, token : Nat]
        BY ZenonT(30), <1>1, <1>2
    <2>3. build'.token \in 1..minted' /\ owner'[build'.token] = <<build'.from, build'.to>>
        BY ZenonT(30), <2>2, <1>1, <1>2, <1>4
    <2>4. build'.token \in Registered(build.to)'
        BY ZenonT(30), <2>1, <2>2 DEF Registered
    <2> QED BY ZenonT(30), <2>2, <2>3, <2>4 DEF BuildOK, MadeFor
<1>13. IdsOK'
    BY ZenonT(30), <1>1 DEF BridgeInv, IdsOK
<1> QED BY ZenonT(30), <1>9, <1>10, <1>11, <1>12, <1>13 DEF BridgeInv

\* AddBridgeAsCaller stores the token that was made for it.
LEMMA CallerStep ==
    ASSUME BridgeInv, AddBridgeAsCaller
    PROVE  BridgeInv'
<1> DEFINE a == build.from
           b == build.to
<1>1. build # NoBuild
    BY ZenonT(30), NoBuildStep DEF AddBridgeAsCaller
<1>2. /\ build \in [step : {"callee", "caller"}, from : App, to : App, token : Nat]
      /\ MadeFor(build.token, a, b)
    BY ZenonT(30), <1>1 DEF BridgeInv, BuildOK
<1>3. a \in App /\ b \in App /\ build.token \in Nat
    BY ZenonT(30), <1>2
<1>4. /\ app' = [app EXCEPT ![a][b] = build.token] /\ open' = open \cup {a}
      /\ build' = [build EXCEPT !.step = "caller"]
      /\ UNCHANGED <<tok, running, minted, revoked, owner, calls, starts>>
    BY ZenonT(30) DEF AddBridgeAsCaller, initBridgeDB
<1>5. RestOK /\ build.token \in Token
    BY <1>2, BridgeBoundsAssumption DEF BridgeInv, RestOK, MadeFor, Token
<1>6. /\ build'.from = a /\ build'.to = b /\ build'.token = build.token
      /\ build' \in [step : {"callee", "caller"}, from : App, to : App, token : Nat]
    BY ZenonT(30), <1>2, <1>4
<1> HIDE DEF a, b
<1>7. \A x, y \in App : app'[x][y] = IF x = a /\ y = b THEN build.token ELSE app[x][y]
    BY ZenonT(30), <1>3, <1>4, <1>5 DEF RestOK
<1>8. RestOK'
    BY ZenonT(30), <1>3, <1>4, <1>5 DEF RestOK
<1>9. \A t, x, y : MadeFor(t, x, y)' = MadeFor(t, x, y)
    BY ZenonT(30), <1>4, MadeForSame
<1>10. RegisteredOK' /\ IdsOK' /\ CallsOK'
    BY ZenonT(30), <1>4, <1>9, MadeForSame DEF BridgeInv, IdsOK, CallsOK
<1>11. StoredOK'
    BY ZenonT(30), <1>2, <1>7, <1>9 DEF BridgeInv, StoredOK
<1>12. BuildOK'
    BY ZenonT(30), <1>2, <1>6, <1>9 DEF BuildOK
<1> QED BY ZenonT(30), <1>8, <1>10, <1>11, <1>12 DEF BridgeInv

\* Revoke takes a token from its callee, and from nobody else.
LEMMA RevokeStep ==
    ASSUME BridgeInv, NEW b \in App, NEW t \in Token, Revoke(b, t)
    PROVE  BridgeInv'
<1>1. /\ tok' = [tok EXCEPT ![b] = {r \in tok[b] : r.token # t}] /\ revoked' = revoked \cup {t}
      /\ UNCHANGED <<app, running, open, build, minted, owner, calls, starts>>
    BY ZenonT(30) DEF Revoke
<1>2. PICK r0 \in tok[b] : r0.token = t
    BY ZenonT(30) DEF Revoke
<1>3. RestOK /\ t \in 1..minted
    BY ZenonT(30), <1>2 DEF BridgeInv, RegisteredOK
<1>4. \A c \in App : /\ tok'[c] \subseteq tok[c] /\ \A r \in tok[c] : r \in tok'[c] \/ r.token = t
                     /\ c = b => \A r \in tok'[c] : r.token # t
    BY ZenonT(30), <1>1, <1>3 DEF RestOK
<1>5. \A c \in App : Registered(c) \subseteq Registered(c)' \cup revoked'
    BY ZenonT(30), <1>1, <1>4 DEF Registered
<1>6. ASSUME NEW u, NEW x \in App, NEW y \in App, MadeFor(u, x, y)
      PROVE  MadeFor(u, x, y)'
    <2>1. minted \in Nat
        BY <1>3 DEF RestOK
    <2> QED BY <2>1, <1>1, <1>5, <1>6, MadeForKept
<1>7. RestOK'
    BY ZenonT(30), <1>1, <1>3 DEF RestOK
<1>8. RegisteredOK'
    <2> SUFFICES ASSUME NEW c \in App, NEW r \in tok'[c]
                 PROVE  /\ r.token \in 1..minted' /\ r.spec = BridgeFuncs[c] /\ r.token \notin revoked'
                        /\ \E x \in App : owner'[r.token] = <<x, c>>
        BY ZenonT(30) DEF RegisteredOK
    <2>1. /\ r.token \in 1..minted /\ r.spec = BridgeFuncs[c] /\ r.token \notin revoked
          /\ \E x \in App : owner[r.token] = <<x, c>>
        BY ZenonT(30), <1>4 DEF BridgeInv, RegisteredOK
    <2>2. \E x \in App : owner[t] = <<x, b>>
        BY ZenonT(30), <1>2 DEF BridgeInv, RegisteredOK
    <2>3. r.token # t
        BY <2>1, <2>2, <1>4
    <2> QED BY ZenonT(30), <2>1, <2>3, <1>1
<1>9. StoredOK' /\ CallsOK'
    BY ZenonT(30), <1>1, <1>6 DEF BridgeInv, StoredOK, CallsOK, Request
<1>10. BuildOK' /\ IdsOK'
    BY ZenonT(30), <1>1, <1>6 DEF BridgeInv, BuildOK, IdsOK
<1> QED BY ZenonT(30), <1>7, <1>8, <1>9, <1>10 DEF BridgeInv

\* A request uses the token that the caller has stored, under an id of its own.
LEMMA RequestStep ==
    ASSUME BridgeInv, NEW a \in App, NEW b \in App, NEW f \in Fn, BridgeRequest(a, b, f)
    PROVE  BridgeInv'
<1> DEFINE n == Cardinality(calls)
           c0 == [id |-> n, from |-> a, to |-> b, fn |-> f, token |-> app[a][b], phase |-> "sent"]
<1>1. /\ calls' = calls \cup {c0} /\ app[a][b] # NoToken
      /\ UNCHANGED <<tok, app, running, open, build, minted, revoked, owner, starts>>
    BY ZenonT(30) DEF BridgeRequest, GetBridgeToken
<1>2. IsFiniteSet(calls) /\ n \in Nat
    BY ZenonT(30), FS_CardinalityType DEF BridgeInv, IdsOK
<1>3. MadeFor(app[a][b], a, b) /\ app[a][b] \in Nat
    BY <1>1 DEF BridgeInv, StoredOK, MadeFor
<1>4. c0 \in Request /\ c0.id = n /\ c0.phase # "ran"
    BY ZenonT(30), <1>2, <1>3 DEF Request, Phase
<1>5. MadeFor(c0.token, c0.from, c0.to)
    BY ZenonT(30), <1>3
<1> HIDE DEF c0
<1>6. c0 \notin calls
    BY <1>2, <1>4 DEF BridgeInv, IdsOK
<1>7. IsFiniteSet(calls') /\ Cardinality(calls') = n + 1
    BY ZenonT(30), <1>1, <1>2, <1>6, FS_AddElement
<1>8. \A t, x, y : MadeFor(t, x, y)' = MadeFor(t, x, y)
    BY ZenonT(30), <1>1, MadeForSame
<1>9. CallsOK'
    BY ZenonT(30), <1>1, <1>4, <1>5, <1>8 DEF BridgeInv, CallsOK
<1>10. IdsOK'
    <2>1. \A c \in calls : c.id \in Nat /\ c.id < n
        BY ZenonT(30) DEF BridgeInv, IdsOK, CallsOK, Request
    <2>2. \A c \in calls' : c.id < n + 1
        BY <2>1, <1>1, <1>2, <1>4
    <2>3. \A c, d \in calls' : c.id = d.id => c = d
        BY <2>1, <1>1, <1>2, <1>4 DEF BridgeInv, IdsOK
    <2> QED BY ZenonT(30), <2>2, <2>3, <1>7 DEF IdsOK
<1>11. RestOK' /\ RegisteredOK' /\ StoredOK' /\ BuildOK'
    BY ZenonT(30), <1>1, <1>8, MadeForSame DEF BridgeInv, RestOK, StoredOK, BuildOK
<1> QED BY ZenonT(30), <1>9, <1>10, <1>11 DEF BridgeInv

\* BridgeCall runs a function just if the callee's DNA lists it, given a token
\* that the callee has; and refuses a token that it has not.
LEMMA CallRuns ==
    ASSUME BridgeInv, NEW c \in calls
    PROVE  /\ BridgeDo(c.to, c.token, c.fn) \in Phase \ {"sent"}
           /\ BridgeDo(c.to, c.token, c.fn) = "ran" =>
                 c.fn \in BridgeFuncs[c.to] /\ c.token \notin revoked
           /\ c.to \in running \cap open /\ c.token \notin revoked /\ c.fn \in BridgeFuncs[c.to] =>
                 BridgeDo(c.to, c.token, c.fn) = "ran"
<1>1. c.to \in App /\ MadeFor(c.token, c.from, c.to)
    BY ZenonT(30) DEF BridgeInv, CallsOK, Request
<1>2. \A r \in tok[c.to] : r.spec = BridgeFuncs[c.to] /\ r.token \notin revoked
    BY ZenonT(30), <1>1 DEF BridgeInv, RegisteredOK
<1>3. Validate(c.to, c.token) <=> \E r \in tok[c.to] : r.token = c.token
    BY ZenonT(30) DEF Validate
<1>4. c.token \notin revoked => Validate(c.to, c.token)
    BY ZenonT(30), <1>1, <1>3 DEF MadeFor, Registered
<1>5. BridgeDo(c.to, c.token, c.fn) \in Phase \ {"sent"}
    BY ZenonT(30) DEF BridgeDo, BridgeCall, Phase
<1>6. BridgeDo(c.to, c.token, c.fn) = "ran" =>
         /\ Validate(c.to, c.token)
         /\ \A r \in tok[c.to] : r.token = c.token => checkBridgeSpec(r.spec, c.fn)
    BY ZenonT(30) DEF BridgeDo, BridgeCall
<1>7. c.to \in running \cap open /\ Validate(c.to, c.token)
        /\ (\A r \in tok[c.to] : r.token = c.token => checkBridgeSpec(r.spec, c.fn)) =>
         BridgeDo(c.to, c.token, c.fn) = "ran"
    BY ZenonT(30) DEF BridgeDo, BridgeCall
<1>8. BridgeDo(c.to, c.token, c.fn) = "ran" =>
         c.fn \in BridgeFuncs[c.to] /\ c.token \notin revoked
    BY ZenonT(30), <1>2, <1>3, <1>6 DEF checkBridgeSpec
<1>9. c.fn \in BridgeFuncs[c.to] =>
         \A r \in tok[c.to] : r.token = c.token => checkBridgeSpec(r.spec, c.fn)
    BY ZenonT(30), <1>2 DEF checkBridgeSpec
<1> QED BY ZenonT(30), <1>4, <1>5, <1>7, <1>8, <1>9

\* The call that is handled keeps its id.
LEMMA HandleStep ==
    ASSUME BridgeInv, NEW c \in calls, Handle(c)
    PROVE  BridgeInv'
<1> DEFINE ph == BridgeDo(c.to, c.token, c.fn)
           d == [c EXCEPT !.phase = ph]
<1>1. /\ calls' = (calls \ {c}) \cup {d}
      /\ UNCHANGED <<tok, app, running, open, build, minted, revoked, owner, starts>>
    BY ZenonT(30) DEF Handle
<1>2. c \in Request /\ MadeFor(c.token, c.from, c.to) /\ c.phase = "sent"
    BY ZenonT(30) DEF BridgeInv, CallsOK, Handle
<1>3. ph \in Phase /\ ph # "sent" /\ (ph = "ran" => c.fn \in BridgeFuncs[c.to])
    BY ZenonT(30), CallRuns
<1> HIDE DEF ph
<1>4. /\ d \in Request /\ d.id = c.id /\ d.from = c.from /\ d.to = c.to /\ d.fn = c.fn
      /\ d.token = c.token /\ d.phase = ph
    BY ZenonT(30), <1>2, <1>3 DEF Request
<1> HIDE DEF d
<1>5. \A t, x, y : MadeFor(t, x, y)' = MadeFor(t, x, y)
    BY ZenonT(30), <1>1, MadeForSame
<1>6. CallsOK'
    <2> SUFFICES ASSUME NEW e \in calls'
                 PROVE  /\ e \in Request /\ MadeFor(e.token, e.from, e.to)
                        /\ e.phase = "ran" => e.fn \in BridgeFuncs[e.to]
        BY ZenonT(30), <1>5 DEF CallsOK
    <2>1. CASE e = d
        BY ZenonT(30), <2>1, <1>2, <1>3, <1>4
    <2>2. CASE e \in calls
        BY ZenonT(30), <2>2 DEF BridgeInv, CallsOK
    <2> QED BY ZenonT(30), <2>1, <2>2, <1>1
<1>7. d \notin calls
    <2>1. d # c
        BY ZenonT(30), <1>2, <1>3, <1>4
    <2> QED BY ZenonT(30), <2>1, <1>4 DEF BridgeInv, IdsOK
<1>8. IsFiniteSet(calls') /\ Cardinality(calls') = Cardinality(calls)
    <2>1. /\ IsFiniteSet(calls) /\ Cardinality(calls) \in Nat
          /\ IsFiniteSet(calls \ {c}) /\ Cardinality(calls \ {c}) = Cardinality(calls) - 1
        BY ZenonT(30), FS_RemoveElement, FS_CardinalityType DEF BridgeInv, IdsOK
    <2>2. d \notin calls \ {c}
        BY ZenonT(30), <1>7
    <2>3. IsFiniteSet(calls') /\ Cardinality(calls') = Cardinality(calls \ {c}) + 1
        BY ZenonT(30), <2>1, <2>2, <1>1, FS_AddElement
    <2> QED BY <2>1, <2>3
<1>9. IdsOK'
    <2>1. \A e \in calls' : e.id < Cardinality(calls')
        BY ZenonT(30), <1>1, <1>4, <1>8 DEF BridgeInv, IdsOK
    <2>2. \A e, g \in calls' : e.id = g.id => e = g
        BY <1>1, <1>4 DEF BridgeInv, IdsOK
    <2> QED BY ZenonT(30), <2>1, <2>2, <1>8 DEF IdsOK
<1>10. RestOK' /\ RegisteredOK' /\ StoredOK' /\ BuildOK'
    BY ZenonT(30), <1>1, <1>5, MadeForSame DEF BridgeInv, RestOK, StoredOK, BuildOK
<1> QED BY ZenonT(30), <1>6, <1>9, <1>10 DEF BridgeInv

\* Every step keeps the invariant.
LEMMA NextInv == BridgeInv /\ [BridgeNext]_bridgeVars => BridgeInv'
<1> SUFFICES ASSUME BridgeInv, [BridgeNext]_bridgeVars PROVE BridgeInv'
    BY ZenonT(30)
<1>0. running \subseteq App /\ open \subseteq App /\ starts \in 0..MaxStarts /\ MaxStarts \in Nat
    BY ZenonT(30), BridgeBoundsAssumption DEF BridgeInv, RestOK
<1>1. ASSUME NEW a \in App, NEW b \in App, AddBridgeAsCallee(a, b) PROVE BridgeInv'
    BY ZenonT(30), <1>1, CalleeStep
<1>2. CASE AddBridgeAsCaller
    BY ZenonT(30), <1>2, CallerStep
<1>3. CASE BuildBridge
    BY ZenonT(30), <1>0, <1>3, QuietStep DEF BuildBridge
<1>4. ASSUME NEW a \in App, Run(a) PROVE BridgeInv'
    <2>1. running' \subseteq App /\ starts' \in 0..MaxStarts
        BY <1>0, <1>4 DEF Run
    <2> QED BY ZenonT(30), <2>1, <1>0, <1>4, QuietStep DEF Run
<1>5. ASSUME NEW a \in App, Stop(a) PROVE BridgeInv'
    <2>1. running' \subseteq App /\ open' \subseteq App /\ build' \in {build, NoBuild}
        BY ZenonT(30), <1>0, <1>5 DEF Stop
    <2> QED BY ZenonT(30), <2>1, <1>0, <1>5, QuietStep DEF Stop
<1>6. ASSUME NEW a \in App, GetBridges(a) PROVE BridgeInv'
    BY ZenonT(30), <1>0, <1>6, QuietStep DEF GetBridges, initBridgeDB
<1>7. ASSUME NEW b \in App, NEW t \in Token, Revoke(b, t) PROVE BridgeInv'
    BY ZenonT(30), <1>7, RevokeStep
<1>8. ASSUME NEW a \in App, NEW b \in App, NEW f \in Fn, BridgeRequest(a, b, f) PROVE BridgeInv'
    BY ZenonT(30), <1>8, RequestStep
<1>9. ASSUME NEW c \in calls, Handle(c) PROVE BridgeInv'
    BY ZenonT(30), <1>9, HandleStep
<1>10. CASE UNCHANGED bridgeVars
    BY ZenonT(30), <1>0, <1>10, QuietStep DEF bridgeVars
<1> QED BY ZenonT(30), <1>1, <1>2, <1>3, <1>4, <1>5, <1>6, <1>7, <1>8, <1>9, <1>10 DEF BridgeNext

\* The invariant holds in every state.
THEOREM BridgeInvariance == BridgeSpec => []BridgeInv
BY InitInv, NextInv, PTL DEF BridgeSpec

-----------------------------------------------------------------------------
\* A function runs through a bridge only if the callee's DNA lists it
\* (makeBridgeSpec, checkBridgeSpec), and only for the application that the
\* bridge was built for.
THEOREM OnlyBridgedRun == BridgeSpec => []OnlyBridged
<1>1. BridgeInv => OnlyBridged
    <2> SUFFICES ASSUME BridgeInv PROVE OnlyBridged
        BY ZenonT(30)
    <2>1. /\ minted \in Nat /\ MaxToken \in Nat /\ minted <= MaxToken
          /\ revoked \subseteq Token
        BY BridgeBoundsAssumption DEF BridgeInv, RestOK, Token
    <2>2. build = NoBuild \/ build.step \in {"callee", "caller"}
        BY ZenonT(30) DEF BridgeInv, BuildOK
    <2>3. \A c \in calls : /\ c.phase \in Phase /\ c.token \in 1..minted /\ owner[c.token] = <<c.from, c.to>>
                           /\ c.phase = "ran" => c.fn \in BridgeFuncs[c.to]
        BY ZenonT(30) DEF BridgeInv, CallsOK, MadeFor, Request
    <2>4. BridgeTypeOK
        BY ZenonT(30), <2>1, <2>2, <2>3 DEF BridgeInv, RestOK, BridgeTypeOK
    <2> QED BY ZenonT(30), <2>3, <2>4 DEF OnlyBridged
<1> QED BY <1>1, BridgeInvariance, PTL

\* AddBridgeAsCallee comes before AddBridgeAsCaller: a token that an application
\* has stored is registered at the callee, or was revoked there, wherever building
\* the bridge stopped.
THEOREM StoredIsRegistered == BridgeSpec => []TokenRegistered
<1>1. BridgeInv => TokenRegistered
    BY ZenonT(30) DEF BridgeInv, StoredOK, MadeFor, Registered, TokenRegistered
<1> QED BY <1>1, BridgeInvariance, PTL

\* Capability.Validate: a call whose token is revoked before it is handled never
\* runs, and until then no call of a listed function is refused by an application
\* that has its bridges open.
THEOREM RevokedNeverRuns == BridgeSpec => RevokedStaysOut
<1> DEFINE P == \A c \in calls : c.phase = "sent" =>
                   LET runs == [c EXCEPT !.phase = "ran"]
                   IN  /\ c.token \in revoked => runs \notin calls'
                       /\ c.fn \in BridgeFuncs[c.to] /\ c.to \in running \cap open
                            /\ c.token \notin revoked => c \in calls' \/ runs \in calls'
<1>1. BridgeInv /\ [BridgeNext]_bridgeVars => P
    <2> SUFFICES ASSUME BridgeInv, [BridgeNext]_bridgeVars, NEW c \in calls, c.phase = "sent"
                 PROVE  LET runs == [c EXCEPT !.phase = "ran"]
                        IN  /\ c.token \in revoked => runs \notin calls'
                            /\ c.fn \in BridgeFuncs[c.to] /\ c.to \in running \cap open
                                 /\ c.token \notin revoked => c \in calls' \/ runs \in calls'
        BY ZenonT(30)
    <2> DEFINE runs == [c EXCEPT !.phase = "ran"]
    <2>1. c \in Request /\ \A d \in calls : d.id = c.id => d = c
        BY ZenonT(30) DEF BridgeInv, CallsOK, IdsOK
    <2>2. runs.id = c.id /\ runs.phase = "ran"
        BY ZenonT(30), <2>1 DEF Request
    <2> HIDE DEF runs
    <2>3. runs \notin calls
        BY ZenonT(30), <2>1, <2>2
    <2>4. CASE calls' = calls
        BY ZenonT(30), <2>3, <2>4 DEF runs
    <2>5. ASSUME NEW a \in App, NEW b \in App, NEW f \in Fn, BridgeRequest(a, b, f)
          PROVE  runs \notin calls' /\ c \in calls'
        <3> DEFINE c0 == [id |-> Cardinality(calls), from |-> a, to |-> b, fn |-> f,
                          token |-> app[a][b], phase |-> "sent"]
        <3>1. calls' = calls \cup {c0} /\ c0.phase = "sent"
            BY ZenonT(30), <2>5 DEF BridgeRequest
        <3> HIDE DEF c0
        <3> QED BY ZenonT(30), <3>1, <2>2, <2>3
    <2>6. ASSUME NEW e \in calls, Handle(e)
          PROVE  /\ c.token \in revoked => runs \notin calls'
                 /\ c.fn \in BridgeFuncs[c.to] /\ c.to \in running \cap open
                      /\ c.token \notin revoked => c \in calls' \/ runs \in calls'
        <3> DEFINE ph == BridgeDo(e.to, e.token, e.fn)
                   d == [e EXCEPT !.phase = ph]
        <3>1. calls' = (calls \ {e}) \cup {d}
            BY ZenonT(30), <2>6 DEF Handle
        <3>2. e \in Request
            BY ZenonT(30) DEF BridgeInv, CallsOK
        <3>3. d.id = e.id /\ d.phase = ph
            BY ZenonT(30), <3>2 DEF Request
        <3>4. ph = "ran" => d = [e EXCEPT !.phase = "ran"]
            BY ZenonT(30)
        <3>5. /\ ph = "ran" => e.token \notin revoked
              /\ e.to \in running \cap open /\ e.token \notin revoked /\ e.fn \in BridgeFuncs[e.to] =>
                    ph = "ran"
            BY ZenonT(30), CallRuns
        <3> HIDE DEF ph, d
        <3>6. CASE e = c
            BY ZenonT(30), <3>1, <3>3, <3>4, <3>5, <3>6, <2>2, <2>3 DEF runs
        <3>7. CASE e # c
            <4>1. c \in calls'
                BY ZenonT(30), <3>1, <3>7
            <4>2. d # runs
                BY ZenonT(30), <3>3, <3>7, <2>1, <2>2
            <4> QED BY ZenonT(30), <4>1, <4>2, <3>1, <2>3
        <3> QED BY ZenonT(30), <3>6, <3>7
    <2>7. \/ calls' = calls
          \/ \E a, b \in App, f \in Fn : BridgeRequest(a, b, f)
          \/ \E e \in calls : Handle(e)
        BY ZenonT(30) DEF BridgeNext, bridgeVars, AddBridgeAsCallee, AddBridgeAsCaller, BuildBridge, Run, Stop,
               GetBridges, Revoke
    <2> QED BY ZenonT(30), <2>4, <2>5, <2>6, <2>7 DEF runs
<1>2. BridgeInv /\ [BridgeNext]_bridgeVars => [P]_bridgeVars
    BY ZenonT(30), <1>1
<1>3. BridgeSpec => [][P]_bridgeVars
    <2> HIDE DEF P
    <2> QED BY <1>2, BridgeInvariance, PTL DEF BridgeSpec
<1> QED BY ZenonT(30), <1>3 DEF RevokedStaysOut

-----------------------------------------------------------------------------
(* AppDir *)

\* The writes of the commands, one after the other.
CloneSteps == <<"root", "config", "create", "zomes", "properties", "encode", "agent", "db">>
UnpackSteps == <<"root", "create", "zomes", "properties", "encode", "agent", "config", "db">>
GenSteps == <<"dnaEntry", "agentEntry", "hashFile", "prepare", "putDNA", "putKey", "putAgent", "genesis">>
ResetSteps == <<"removeDB", "db", "removeHash">>
RefusedSteps == <<"root", "fail">>

\* Named, so that it is cited as a whole.
Joins(p, q, r, m, n) ==
    /\ Len(p) = m /\ Len(q) = n /\ Len(r) = m + n
    /\ \A i \in 1..m : r[i] = p[i]
    /\ \A i \in 1..n : r[m + i] = q[i]

LEMMA Joined ==
    ASSUME NEW S, NEW p \in Seq(S), NEW q \in Seq(S), NEW r \in Seq(S),
           NEW m \in Nat, NEW n \in Nat, Joins(p, q, r, m, n)
    PROVE  p \o q = r
<1>0. /\ Len(p) = m /\ Len(q) = n /\ Len(r) = m + n
      /\ \A i \in 1..m : r[i] = p[i]
      /\ \A i \in 1..n : r[m + i] = q[i]
    BY DEF Joins
<1> DEFINE w == p \o q
<1>1. /\ w \in Seq(S) /\ Len(w) = m + n
      /\ \A i \in 1..(m + n) : w[i] = IF i <= m THEN p[i] ELSE q[i - m]
    BY <1>0, JoinIs
<1> HIDE DEF w
<1>2. \A i \in 1..(m + n) : w[i] = r[i]
  <2> TAKE i \in 1..(m + n)
  <2>1. CASE i <= m
      BY <1>0, <1>1, <2>1
  <2>2. CASE ~(i <= m)
    <3>1. i - m \in 1..n /\ m + (i - m) = i
        BY <2>2
    <3>2. r[m + (i - m)] = q[i - m]
        BY <1>0, <3>1
    <3> QED
        BY <1>1, <2>2, <3>1, <3>2
  <2> QED
      BY <2>1, <2>2
<1>3. w = r
    BY <1>0, <1>1, <1>2, SameSeq
<1> QED
    BY <1>3 DEF w

JoinedAs(a, b, c, d, e, f, g, h) ==
    /\ <<a>> \o <<b, c, d, e>> = <<a, b, c, d, e>>
    /\ <<a, b, c, d, e>> \o <<f>> = <<a, b, c, d, e, f>>
    /\ <<a>> \o <<b, c, d, e, f, g>> = <<a, b, c, d, e, f, g>>
    /\ <<a, b, c, d, e, f, g>> \o <<h>> = <<a, b, c, d, e, f, g, h>>
    /\ <<a, b, c, d, e, f>> \o <<g, h>> = <<a, b, c, d, e, f, g, h>>
    /\ <<a>> \o <<b>> = <<a, b>>
    /\ <<a, b>> \o <<c>> = <<a, b, c>>
    /\ <<a, b, c>> \o <<d>> = <<a, b, c, d>>
    /\ <<a, b, c, d>> \o <<e, f, g>> = <<a, b, c, d, e, f, g>>

LEMMA JoinedOne ==
    ASSUME NEW a, NEW b, NEW c, NEW d, NEW e, NEW f, NEW g, NEW h
    PROVE  JoinedAs(a, b, c, d, e, f, g, h)
<1> DEFINE S == {a, b, c, d, e, f, g, h}
<1>0. a \in S /\ b \in S /\ c \in S /\ d \in S /\ e \in S /\ f \in S /\ g \in S /\ h \in S
    OBVIOUS
<1> HIDE DEF S
<1>1. <<a>> \o <<b, c, d, e>> = <<a, b, c, d, e>>
  <2> DEFINE p == <<a>>
             q == <<b, c, d, e>>
             r == <<a, b, c, d, e>>
  <2>1. p \in Seq(S) /\ Len(p) = 1 /\ q \in Seq(S) /\ Len(q) = 4
      BY <1>0
  <2>2. r \in Seq(S) /\ Len(r) = 1 + 4 /\ 1 \in Nat /\ 4 \in Nat
      BY <1>0
  <2>3. (\A i \in 1..1 : r[i] = p[i]) /\ \A i \in 1..4 : r[1 + i] = q[i]
      OBVIOUS
  <2> HIDE DEF p, q, r
  <2>4. Joins(p, q, r, 1, 4)
      BY <2>1, <2>2, <2>3 DEF Joins
  <2>5. p \o q = r
      BY <2>1, <2>2, <2>4, Joined, ZenonT(30)
  <2> QED
      BY <2>5 DEF p, q, r
<1>2. <<a, b, c, d, e>> \o <<f>> = <<a, b, c, d, e, f>>
  <2> DEFINE p == <<a, b, c, d, e>>
             q == <<f>>
             r == <<a, b, c, d, e, f>>
  <2>1. p \in Seq(S) /\ Len(p) = 5 /\ q \in Seq(S) /\ Len(q) = 1
      BY <1>0
  <2>2. r \in Seq(S) /\ Len(r) = 5 + 1 /\ 5 \in Nat /\ 1 \in Nat
      BY <1>0
  <2>3. (\A i \in 1..5 : r[i] = p[i]) /\ \A i \in 1..1 : r[5 + i] = q[i]
      OBVIOUS
  <2> HIDE DEF p, q, r
  <2>4. Joins(p, q, r, 5, 1)
      BY <2>1, <2>2, <2>3 DEF Joins
  <2>5. p \o q = r
      BY <2>1, <2>2, <2>4, Joined, ZenonT(30)
  <2> QED
      BY <2>5 DEF p, q, r
<1>3. <<a>> \o <<b, c, d, e, f, g>> = <<a, b, c, d, e, f, g>>
  <2> DEFINE p == <<a>>
             q == <<b, c, d, e, f, g>>
             r == <<a, b, c, d, e, f, g>>
  <2>1. p \in Seq(S) /\ Len(p) = 1 /\ q \in Seq(S) /\ Len(q) = 6
      BY <1>0
  <2>2. r \in Seq(S) /\ Len(r) = 1 + 6 /\ 1 \in Nat /\ 6 \in Nat
      BY <1>0
  <2>3. (\A i \in 1..1 : r[i] = p[i]) /\ \A i \in 1..6 : r[1 + i] = q[i]
      OBVIOUS
  <2> HIDE DEF p, q, r
  <2>4. Joins(p, q, r, 1, 6)
      BY <2>1, <2>2, <2>3 DEF Joins
  <2>5. p \o q = r
      BY <2>1, <2>2, <2>4, Joined, ZenonT(30)
  <2> QED
      BY <2>5 DEF p, q, r
<1>4. <<a, b, c, d, e, f, g>> \o <<h>> = <<a, b, c, d, e, f, g, h>>
  <2> DEFINE p == <<a, b, c, d, e, f, g>>
             q == <<h>>
             r == <<a, b, c, d, e, f, g, h>>
  <2>1. p \in Seq(S) /\ Len(p) = 7 /\ q \in Seq(S) /\ Len(q) = 1
      BY <1>0
  <2>2. r \in Seq(S) /\ Len(r) = 7 + 1 /\ 7 \in Nat /\ 1 \in Nat
      BY <1>0
  <2>3. (\A i \in 1..7 : r[i] = p[i]) /\ \A i \in 1..1 : r[7 + i] = q[i]
      OBVIOUS
  <2> HIDE DEF p, q, r
  <2>4. Joins(p, q, r, 7, 1)
      BY <2>1, <2>2, <2>3 DEF Joins
  <2>5. p \o q = r
      BY <2>1, <2>2, <2>4, Joined, ZenonT(30)
  <2> QED
      BY <2>5 DEF p, q, r
<1>5. <<a, b, c, d, e, f>> \o <<g, h>> = <<a, b, c, d, e, f, g, h>>
  <2> DEFINE p == <<a, b, c, d, e, f>>
             q == <<g, h>>
             r == <<a, b, c, d, e, f, g, h>>
  <2>1. p \in Seq(S) /\ Len(p) = 6 /\ q \in Seq(S) /\ Len(q) = 2
      BY <1>0
  <2>2. r \in Seq(S) /\ Len(r) = 6 + 2 /\ 6 \in Nat /\ 2 \in Nat
      BY <1>0
  <2>3. (\A i \in 1..6 : r[i] = p[i]) /\ \A i \in 1..2 : r[6 + i] = q[i]
      OBVIOUS
  <2> HIDE DEF p, q, r
  <2>4. Joins(p, q, r, 6, 2)
      BY <2>1, <2>2, <2>3 DEF Joins
  <2>5. p \o q = r
      BY <2>1, <2>2, <2>4, Joined, ZenonT(30)
  <2> QED
      BY <2>5 DEF p, q, r
<1>6. <<a>> \o <<b>> = <<a, b>>
  <2> DEFINE p == <<a>>
             q == <<b>>
             r == <<a, b>>
  <2>1. p \in Seq(S) /\ Len(p) = 1 /\ q \in Seq(S) /\ Len(q) = 1
      BY <1>0
  <2>2. r \in Seq(S) /\ Len(r) = 1 + 1 /\ 1 \in Nat /\ 1 \in Nat
      BY <1>0
  <2>3. (\A i \in 1..1 : r[i] = p[i]) /\ \A i \in 1..1 : r[1 + i] = q[i]
      OBVIOUS
  <2> HIDE DEF p, q, r
  <2>4. Joins(p, q, r, 1, 1)
      BY <2>1, <2>2, <2>3 DEF Joins
  <2>5. p \o q = r
      BY <2>1, <2>2, <2>4, Joined, ZenonT(30)
  <2> QED
      BY <2>5 DEF p, q, r
<1>7. <<a, b>> \o <<c>> = <<a, b, c>>
  <2> DEFINE p == <<a, b>>
             q == <<c>>
             r == <<a, b, c>>
  <2>1. p \in Seq(S) /\ Len(p) = 2 /\ q \in Seq(S) /\ Len(q) = 1
      BY <1>0
  <2>2. r \in Seq(S) /\ Len(r) = 2 + 1 /\ 2 \in Nat /\ 1 \in Nat
      BY <1>0
  <2>3. (\A i \in 1..2 : r[i] = p[i]) /\ \A i \in 1..1 : r[2 + i] = q[i]
      OBVIOUS
  <2> HIDE DEF p, q, r
  <2>4. Joins(p, q, r, 2, 1)
      BY <2>1, <2>2, <2>3 DEF Joins
  <2>5. p \o q = r
      BY <2>1, <2>2, <2>4, Joined, ZenonT(30)
  <2> QED
      BY <2>5 DEF p, q, r
<1>8. <<a, b, c>> \o <<d>> = <<a, b, c, d>>
  <2> DEFINE p == <<a, b, c>>
             q == <<d>>
             r == <<a, b, c, d>>
  <2>1. p \in Seq(S) /\ Len(p) = 3 /\ q \in Seq(S) /\ Len(q) = 1
      BY <1>0
  <2>2. r \in Seq(S) /\ Len(r) = 3 + 1 /\ 3 \in Nat /\ 1 \in Nat
      BY <1>0
  <2>3. (\A i \in 1..3 : r[i] = p[i]) /\ \A i \in 1..1 : r[3 + i] = q[i]
      OBVIOUS
  <2> HIDE DEF p, q, r
  <2>4. Joins(p, q, r, 3, 1)
      BY <2>1, <2>2, <2>3 DEF Joins
  <2>5. p \o q = r
      BY <2>1, <2>2, <2>4, Joined, ZenonT(30)
  <2> QED
      BY <2>5 DEF p, q, r
<1>9. <<a, b, c, d>> \o <<e, f, g>> = <<a, b, c, d, e, f, g>>
  <2> DEFINE p == <<a, b, c, d>>
             q == <<e, f, g>>
             r == <<a, b, c, d, e, f, g>>
  <2>1. p \in Seq(S) /\ Len(p) = 4 /\ q \in Seq(S) /\ Len(q) = 3
      BY <1>0
  <2>2. r \in Seq(S) /\ Len(r) = 4 + 3 /\ 4 \in Nat /\ 3 \in Nat
      BY <1>0
  <2>3. (\A i \in 1..4 : r[i] = p[i]) /\ \A i \in 1..3 : r[4 + i] = q[i]
      OBVIOUS
  <2> HIDE DEF p, q, r
  <2>4. Joins(p, q, r, 4, 3)
      BY <2>1, <2>2, <2>3 DEF Joins
  <2>5. p \o q = r
      BY <2>1, <2>2, <2>4, Joined, ZenonT(30)
  <2> QED
      BY <2>5 DEF p, q, r
<1> QED
    BY <1>1, <1>2, <1>3, <1>4, <1>5, <1>6, <1>7, <1>8, <1>9, ZenonT(30) DEF JoinedAs

LEMMA StepsAre ==
    /\ gen(makeConfig \o saveDNAFile \o SaveAgent) = CloneSteps
    /\ SaveFromAppPackage \o InitAppDir = UnpackSteps
    /\ Genesis = GenSteps
<1>0. /\ JoinedAs("config", "create", "zomes", "properties", "encode", "agent", "db", "db")
      /\ JoinedAs("root", "config", "create", "zomes", "properties", "encode", "agent", "db")
      /\ JoinedAs("root", "create", "zomes", "properties", "encode", "agent", "config", "db")
      /\ JoinedAs("dnaEntry", "agentEntry", "hashFile", "prepare",
                  "putDNA", "putKey", "putAgent", "genesis")
    BY JoinedOne, ZenonT(30)
<1>1. gen(makeConfig \o saveDNAFile \o SaveAgent) = CloneSteps
    BY <1>0, ZenonT(30) DEF JoinedAs, gen, makeConfig, saveDNAFile, SaveAgent, CloneSteps
<1>2. SaveFromAppPackage \o InitAppDir = UnpackSteps
    BY <1>0, ZenonT(30) DEF JoinedAs, SaveFromAppPackage, InitAppDir, MakeDirs, saveDNAFile, SaveAgent, UnpackSteps
<1>3. Genesis = GenSteps
    BY <1>0, ZenonT(30) DEF JoinedAs, Genesis, AddAgentEntry, Prepare, SetupDHT, RunGenesis, GenSteps
<1> QED
    BY <1>1, <1>2, <1>3

\* What is left of a program when k - 1 of its steps are done.
From(p, k) == SubSeq(p, k, Len(p))

LEMMA FromNext ==
    ASSUME NEW S, NEW p \in Seq(S), NEW k \in 1..Len(p), NEW s, s = From(p, k)
    PROVE  /\ Head(s) = p[k] /\ Tail(s) = From(p, k + 1)
           /\ Len(s) = Len(p) - k + 1
           /\ (Len(s) > 1) <=> (k < Len(p))
<1>1. Len(p) \in Nat /\ k \in Nat
    OBVIOUS
<1>2. s \in Seq(S) /\ Len(s) = Len(p) - k + 1 /\ \A i \in 1..(Len(p) - k + 1) : s[i] = p[k + i - 1]
    BY <1>1, PartIs DEF From
<1>3. Head(s) = p[k] /\ (Len(s) > 1 <=> k < Len(p)) /\ s # << >>
    BY <1>1, <1>2
<1> DEFINE u == Tail(s)
           v == From(p, k + 1)
<1>4. u \in Seq(S) /\ Len(u) = Len(p) - k /\ \A i \in 1..(Len(p) - k) : u[i] = p[k + i]
    BY <1>1, <1>2, <1>3, RestIs
<1>5. v \in Seq(S) /\ Len(v) = Len(p) - k /\ \A i \in 1..(Len(p) - k) : v[i] = p[k + i]
  <2>1. k + 1 \in Int /\ Len(p) \in Int /\ \A i \in (k + 1)..Len(p) : p[i] \in S
      BY <1>1
  <2>2. /\ v \in Seq(S)
        /\ Len(v) = IF k + 1 <= Len(p) THEN Len(p) - (k + 1) + 1 ELSE 0
        /\ \A i \in 1..(Len(p) - (k + 1) + 1) : v[i] = p[(k + 1) + i - 1]
      BY <2>1, PartIs DEF From
  <2> HIDE DEF v
  <2> QED
      BY <1>1, <2>2
<1> HIDE DEF u, v
<1>6. u = v
    BY <1>4, <1>5, SameSeq
<1> QED
    BY <1>2, <1>3, <1>6, ZenonT(30) DEF u, v

-----------------------------------------------------------------------------
(* The DNA that saveDNAFile writes, write by write *)

Created(d) == [d EXCEPT !.state = "empty"]
WithZomes(d, h) ==
    [d EXCEPT !.code = TRUE,
              !.schema = IF DNAFile(h).SchemaFile THEN h.Schema ELSE @]
WithProperties(d, h) ==
    [d EXCEPT !.properties = IF h.PropertiesSchema = "" THEN @ ELSE h.PropertiesSchema]
Encoded(d, h) == [d EXCEPT !.state = "encoded", !.file = DNAFile(h)]

\* The DNA directory when saveDNAFile has made n of its writes for h.
Saved(h, n) ==
    CASE n = 0 -> NoDNA
      [] n = 1 -> Created(NoDNA)
      [] n = 2 -> WithZomes(Created(NoDNA), h)
      [] n = 3 -> WithProperties(WithZomes(Created(NoDNA), h), h)
      [] n = 4 -> Encoded(WithProperties(WithZomes(Created(NoDNA), h), h), h)

\* The number of saveDNAFile's writes done before step k, if the first is step a.
Done(k, a) == IF k <= a THEN 0 ELSE IF k >= a + 4 THEN 4 ELSE k - a

\* The DNA that a command which makes a directory works with.
HeldFor(c) ==
    LET d == loadDNA(source)
    IN  CASE c = "clone" -> d
          [] c = "new" -> [d EXCEPT !.UUID = "new", !.Name = "local"]
          [] c = "unpack" -> [LoadAppPackage(d) EXCEPT !.Name = "local"]

-----------------------------------------------------------------------------
(* The inductive invariant *)

At(p, k) == k \in 1..Len(p) /\ todo = From(p, k)

Making == {"clone", "new", "unpack"}

\* Without a root directory there is nothing.
RootInv == "root" \notin made => Nothing

\* Before there is a DNA file that can be read there is no chain, and without a
\* chain genesis has not run.
DiskInv ==
    /\ dna.state = "absent" => dna = NoDNA
    /\ dna.state # "encoded" => chain = 0 /\ dnaHash = << >>
    /\ chain = 0 => genesis = 0
    /\ dnaHash # << >> => dnaHash = <<loadDNA(dna)>>

\* Unless GenChain was stopped the chain is empty or set up.
ChainInv ==
    command # "gen" /\ "gen" \notin partial =>
        \/ chain = 0
        \/ /\ chain = 2 /\ genesis = 1 /\ dnaHash # << >>
           /\ {"dna", "agent"} \subseteq dht

\* A directory that was made has the DNA it was made for, and what Load needs.
ClonedInv ==
    cloned # "none" =>
        /\ loadDNA(source) # Failed /\ dna = Saved(HeldFor(cloned), 4)
        /\ partial = {} =>
              /\ "config" \in made
              /\ "db" \in made \/ (command = "reset" /\ At(ResetSteps, 2))

\* Nothing is there that was not made to the end, or left by a command cut short.
EmptyInv == partial = {} /\ cloned = "none" /\ command \notin Making => Nothing

\* A command that makes a directory by the writes p, of which the first of
\* saveDNAFile is the one at a and the configuration the one at c, is at k.
MakingAt(p, a, c, k) ==
    /\ At(p, k) /\ dna = Saved(held, Done(k, a)) /\ chain = 0 /\ dnaHash = << >>
    /\ cloned = "none"
    /\ k > 1 => "root" \in made
    /\ k > c => "config" \in made

Refused == At(RefusedSteps, 1) \/ (At(RefusedSteps, 2) /\ "root" \in made)

MakeInv ==
    \/ command \in {"clone", "unpack"} /\ (command = "clone" => chain = 0) /\ Refused
    \/ /\ loadDNA(source) # Failed /\ held = HeldFor(command)
       /\ \/ command \in {"clone", "new"} /\ \E k \in 1..8 : MakingAt(CloneSteps, 3, 2, k)
          \/ command = "unpack" /\ \E k \in 1..8 : MakingAt(UnpackSteps, 2, 7, k)

\* GenChain: the entries, the hash file, the DHT and genesis in this order.
GenInv ==
    \E k \in 1..8 :
        /\ At(GenSteps, k) /\ "config" \in made /\ genesis = 0
        /\ held = loadDNA(dna) /\ dna.state = "encoded"
        /\ chain = (IF k <= 3 THEN k - 1 ELSE 2)
        /\ k > 3 => dnaHash = <<held>>
        /\ k > 5 => "dna" \in dht
        /\ k > 7 => "agent" \in dht

ResetInv ==
    \E k \in 1..3 :
        At(ResetSteps, k) /\ "config" \in made /\ dna.state = "encoded" /\ (k > 1 => chain = 0)

CommandInv ==
    /\ command = "none" => todo = << >>
    /\ command \in Making => MakeInv
    /\ command = "gen" => GenInv
    /\ command = "reset" => ResetInv

IInv == TypeOK /\ RootInv /\ DiskInv /\ ChainInv /\ ClonedInv /\ EmptyInv /\ CommandInv

-----------------------------------------------------------------------------
(* What is written and read *)

DirWrites == {"root", "config", "agent", "db"}
DNAWrites == {"create", "zomes", "properties", "encode"}
MakeWrites == DirWrites \cup DNAWrites

LEMMA WritesDir ==
    ASSUME NEW s \in DirWrites, Write(s)
    PROVE  /\ made' = made \cup {s} /\ dna' = dna /\ chain' = chain /\ dnaHash' = dnaHash
           /\ dht' = dht /\ genesis' = genesis
<1>1. /\ s \in {"root", "config", "agent", "db"}
      /\ s \notin {"create", "zomes", "properties", "encode", "dnaEntry", "agentEntry", "removeDB",
                   "hashFile", "removeHash", "putDNA", "putKey", "putAgent", "genesis"}
    BY DEF DirWrites
<1> QED
    BY <1>1 DEF Write

LEMMA WritesDNA ==
    ASSUME NEW s \in DNAWrites, Write(s)
    PROVE  /\ made' = made /\ chain' = chain /\ dnaHash' = dnaHash
           /\ dht' = dht /\ genesis' = genesis
           /\ s = "create" => dna' = Created(dna)
           /\ s = "zomes" => dna' = WithZomes(dna, held)
           /\ s = "properties" => dna' = WithProperties(dna, held)
           /\ s = "encode" => dna' = Encoded(dna, held)
<1>1. /\ s \in {"create", "zomes", "properties", "encode"}
      /\ s \notin {"root", "config", "agent", "db", "dnaEntry", "agentEntry", "removeDB",
                   "hashFile", "removeHash", "putDNA", "putKey", "putAgent", "genesis"}
    BY DEF DNAWrites
<1>2. made' = made /\ chain' = chain /\ dnaHash' = dnaHash /\ dht' = dht /\ genesis' = genesis
    BY <1>1 DEF Write
<1>3. CASE s = "create"
    BY <1>2, <1>3 DEF Write, Created
<1>4. CASE s = "zomes"
    BY <1>2, <1>4 DEF Write, WithZomes
<1>5. CASE s = "properties"
    BY <1>2, <1>5 DEF Write, WithProperties
<1>6. CASE s = "encode"
    BY <1>2, <1>6 DEF Write, Encoded
<1> QED
    BY <1>1, <1>3, <1>4, <1>5, <1>6

LEMMA WritesChain ==
    ASSUME NEW s, Write(s),
           s \in {"dnaEntry", "agentEntry", "hashFile", "prepare", "putDNA", "putKey", "putAgent", "genesis"}
    PROVE  /\ made' = made /\ dna' = dna
           /\ chain' = (IF s \in {"dnaEntry", "agentEntry"} THEN chain + 1 ELSE chain)
           /\ dnaHash' = (IF s = "hashFile" THEN <<held>> ELSE dnaHash)
           /\ genesis' = (IF s = "genesis" THEN genesis + 1 ELSE genesis)
           /\ dht \subseteq dht' /\ dht' \subseteq dht \cup GenesisEntry
           /\ s = "putDNA" => "dna" \in dht'
           /\ s = "putAgent" => "agent" \in dht'
<1>1. s \notin {"root", "config", "agent", "db", "removeDB", "create", "zomes", "properties", "encode", "removeHash"}
    OBVIOUS
<1>2. made' = made /\ dna' = dna
    BY <1>1 DEF Write
<1>3. chain' = (IF s \in {"dnaEntry", "agentEntry"} THEN chain + 1 ELSE chain)
    BY <1>1 DEF Write
<1>4. dnaHash' = (IF s = "hashFile" THEN <<held>> ELSE dnaHash)
    BY <1>1 DEF Write
<1>5. genesis' = (IF s = "genesis" THEN genesis + 1 ELSE genesis)
    BY <1>1 DEF Write
<1>6. /\ dht \subseteq dht' /\ dht' \subseteq dht \cup GenesisEntry
      /\ s = "putDNA" => "dna" \in dht'
      /\ s = "putAgent" => "agent" \in dht'
    BY <1>1 DEF Write, GenesisEntry
<1> QED
    BY <1>2, <1>3, <1>4, <1>5, <1>6

LEMMA WritesReset ==
    /\ Write("removeDB") => /\ made' = made \ {"db"} /\ dna' = dna /\ chain' = 0
                            /\ dnaHash' = dnaHash /\ dht' = {} /\ genesis' = 0
    /\ Write("removeHash") => /\ made' = made /\ dna' = dna /\ chain' = chain
                              /\ dnaHash' = << >> /\ dht' = dht /\ genesis' = genesis
BY DEF Write

-----------------------------------------------------------------------------
\* The state of a directory that saveDNAFile is writing.
LEMMA SavedState ==
    ASSUME NEW h
    PROVE  /\ Saved(h, 0) = NoDNA /\ NoDNA.state = "absent"
           /\ \A n \in 1..3 : Saved(h, n).state = "empty"
           /\ Saved(h, 4).state = "encoded"
           /\ Created(Saved(h, 0)) = Saved(h, 1)
           /\ WithZomes(Saved(h, 1), h) = Saved(h, 2)
           /\ WithProperties(Saved(h, 2), h) = Saved(h, 3)
           /\ Encoded(Saved(h, 3), h) = Saved(h, 4)
<1>1. Saved(h, 0) = NoDNA
    BY DEF Saved
<1>2. Saved(h, 1) = Created(NoDNA)
    BY DEF Saved
<1>3. Saved(h, 2) = WithZomes(Created(NoDNA), h)
    BY DEF Saved
<1>4. Saved(h, 3) = WithProperties(WithZomes(Created(NoDNA), h), h)
    BY DEF Saved
<1>5. Saved(h, 4) = Encoded(WithProperties(WithZomes(Created(NoDNA), h), h), h)
    BY DEF Saved
<1>6. NoDNA.state = "absent"
    BY DEF NoDNA
<1>7. Saved(h, 1).state = "empty" /\ "state" \in DOMAIN Saved(h, 1)
    BY <1>2 DEF Created, NoDNA
<1>8. Saved(h, 2).state = "empty" /\ "state" \in DOMAIN Saved(h, 2)
    BY <1>2, <1>3, <1>7 DEF WithZomes
<1>9. Saved(h, 3).state = "empty" /\ "state" \in DOMAIN Saved(h, 3)
    BY <1>3, <1>4, <1>8 DEF WithProperties
<1>10. Saved(h, 4).state = "encoded"
    BY <1>4, <1>5, <1>9 DEF Encoded
<1> QED
    BY <1>1, <1>2, <1>3, <1>4, <1>5, <1>6, <1>7, <1>8, <1>9, <1>10

\* A DNA that loadDNA has read, rather than an error.
Good(d) ==
    /\ d = [UUID |-> d.UUID, Name |-> d.Name, PropertiesSchema |-> d.PropertiesSchema,
            RequiresVersion |-> d.RequiresVersion, DataFormat |-> d.DataFormat, Schema |-> d.Schema]
    /\ d.RequiresVersion = "supported" /\ d.Schema # Absent /\ d.PropertiesSchema # Absent

\* The schema that saveDNAFile keeps.
KeptSchema(h) == IF h.DataFormat = "json" /\ h.Schema # "" THEN h.Schema ELSE ""

LEMMA SavedFields ==
    ASSUME NEW h
    PROVE  /\ Saved(h, 4).file = DNAFile(h) /\ Saved(h, 4).code = TRUE
           /\ Saved(h, 4).properties =
                (IF h.PropertiesSchema = "" THEN Absent ELSE h.PropertiesSchema)
           /\ Saved(h, 4).schema = (IF DNAFile(h).SchemaFile THEN h.Schema ELSE Absent)
<1> DEFINE a == Saved(h, 1)
           b == Saved(h, 2)
           c == Saved(h, 3)
           d == Saved(h, 4)
           F == {"state", "file", "code", "properties", "schema"}
           sch == IF DNAFile(h).SchemaFile THEN h.Schema ELSE Absent
           prop == IF h.PropertiesSchema = "" THEN Absent ELSE h.PropertiesSchema
<1>1. a = [NoDNA EXCEPT !.state = "empty"]
    BY SavedState, ZenonT(30) DEF Created
<1>2. DOMAIN a = F /\ a.schema = Absent /\ a.properties = Absent
    BY <1>1 DEF NoDNA
<1>3. b = [a EXCEPT !.code = TRUE, !.schema = IF DNAFile(h).SchemaFile THEN h.Schema ELSE @]
    BY SavedState, ZenonT(30) DEF WithZomes
<1>4. c = [b EXCEPT !.properties = IF h.PropertiesSchema = "" THEN @ ELSE h.PropertiesSchema]
    BY SavedState, ZenonT(30) DEF WithProperties
<1>5. d = [c EXCEPT !.state = "encoded", !.file = DNAFile(h)]
    BY SavedState, ZenonT(30) DEF Encoded
<1> HIDE DEF a, b, c, d
<1>6. DOMAIN b = F /\ b.code = TRUE /\ b.schema = sch /\ b.properties = Absent
    BY <1>2, <1>3
<1>7. DOMAIN c = F /\ c.code = TRUE /\ c.schema = sch /\ c.properties = prop
    BY <1>4, <1>6
<1>8. d.file = DNAFile(h) /\ d.code = TRUE /\ d.properties = prop /\ d.schema = sch
    BY <1>5, <1>7
<1> QED
    BY <1>8 DEF d

LEMMA FileFields ==
    ASSUME NEW h
    PROVE  /\ DNAFile(h).UUID = h.UUID /\ DNAFile(h).Name = h.Name
           /\ DNAFile(h).PropertiesSchemaFile = TRUE /\ DNAFile(h).CodeFile = TRUE
           /\ DNAFile(h).RequiresVersion = h.RequiresVersion
           /\ DNAFile(h).DataFormat = h.DataFormat /\ DNAFile(h).Schema = ""
           /\ DNAFile(h).SchemaFile = (h.DataFormat = "json" /\ h.Schema # "")
BY DEF DNAFile

\* What is loaded from a directory that saveDNAFile has written for a good DNA.
LEMMA SavedLoads ==
    ASSUME NEW h, h.RequiresVersion = "supported", h.Schema # Absent, h.PropertiesSchema # Absent
    PROVE  loadDNA(Saved(h, 4)) =
              IF h.PropertiesSchema = "" THEN Failed
              ELSE [UUID |-> h.UUID, Name |-> h.Name, PropertiesSchema |-> h.PropertiesSchema,
                    RequiresVersion |-> h.RequiresVersion, DataFormat |-> h.DataFormat,
                    Schema |-> KeptSchema(h)]
<1> DEFINE d == Saved(h, 4)
           f == DNAFile(h)
<1>1. d.state = "encoded" /\ d.file = f /\ d.code = TRUE
    BY SavedState, SavedFields
<1>2. d.properties = IF h.PropertiesSchema = "" THEN Absent ELSE h.PropertiesSchema
    BY SavedFields
<1>3. d.schema = IF f.SchemaFile THEN h.Schema ELSE Absent
    BY SavedFields
<1>4. f.UUID = h.UUID /\ f.Name = h.Name /\ f.PropertiesSchemaFile = TRUE /\ f.CodeFile = TRUE
    BY FileFields
<1>5. f.RequiresVersion = h.RequiresVersion /\ f.DataFormat = h.DataFormat /\ f.Schema = ""
    BY FileFields
<1>6. f.SchemaFile = (h.DataFormat = "json" /\ h.Schema # "")
    BY FileFields
<1> HIDE DEF d, f
<1>7. check(f)
    BY <1>5 DEF check
<1>8. CASE h.PropertiesSchema = ""
  <2>1. f.PropertiesSchemaFile /\ d.properties = Absent
      BY <1>2, <1>4, <1>8
  <2>2. loadDNA(d) = Failed
      BY <1>1, <2>1, ZenonT(30) DEF loadDNA
  <2> QED
      BY <1>8, <2>2 DEF d
<1>9. CASE h.PropertiesSchema # ""
  <2>1. d.properties = h.PropertiesSchema /\ d.properties # Absent
      BY <1>2, <1>9
  <2>2. ~(f.Schema = "" /\ f.SchemaFile /\ d.schema = Absent)
      BY <1>3
  <2>3. ~ \/ f.PropertiesSchemaFile /\ d.properties = Absent
          \/ ~check(f)
          \/ ~f.CodeFile \/ ~d.code
          \/ f.Schema = "" /\ f.SchemaFile /\ d.schema = Absent
      BY <1>1, <1>4, <1>7, <2>1, <2>2
  <2>4. loadDNA(d) = [UUID |-> f.UUID, Name |-> f.Name,
                   PropertiesSchema |-> IF f.PropertiesSchemaFile THEN d.properties ELSE "",
                   RequiresVersion |-> f.RequiresVersion, DataFormat |-> f.DataFormat,
                   Schema |-> IF f.Schema = "" /\ f.SchemaFile THEN d.schema ELSE f.Schema]
      BY <1>1, <2>3, ZenonT(30) DEF loadDNA
  <2>5. (IF f.PropertiesSchemaFile THEN d.properties ELSE "") = h.PropertiesSchema
      BY <1>4, <2>1
  <2>6. (IF f.Schema = "" /\ f.SchemaFile THEN d.schema ELSE f.Schema) = KeptSchema(h)
      BY <1>3, <1>5, <1>6 DEF KeptSchema
  <2>7. loadDNA(d) = [UUID |-> h.UUID, Name |-> h.Name, PropertiesSchema |-> h.PropertiesSchema,
                    RequiresVersion |-> h.RequiresVersion, DataFormat |-> h.DataFormat,
                    Schema |-> KeptSchema(h)]
      BY <1>4, <1>5, <2>4, <2>5, <2>6
  <2> QED
      BY <1>9, <2>7 DEF d
<1> QED
    BY <1>8, <1>9

\* The DNA of the source.
LEMMA SourceIsGood ==
    ASSUME NEW s \in SourceDir, loadDNA(s) # Failed
    PROVE  Good(loadDNA(s)) /\ loadDNA(s).UUID \notin {"failed", "new"}
<1> DEFINE f == s.file
           d == loadDNA(s)
           ps == IF f.PropertiesSchemaFile THEN s.properties ELSE ""
           sch == IF f.Schema = "" /\ f.SchemaFile THEN s.schema ELSE f.Schema
<1>0. f.UUID \notin {"failed", "new"} /\ f.Schema # Absent
    BY SourceAssumption DEF Absent
<1>1. /\ d = [UUID |-> f.UUID, Name |-> f.Name, PropertiesSchema |-> ps,
              RequiresVersion |-> f.RequiresVersion, DataFormat |-> f.DataFormat, Schema |-> sch]
      /\ ~(f.PropertiesSchemaFile /\ s.properties = Absent) /\ check(f)
      /\ ~(f.Schema = "" /\ f.SchemaFile /\ s.schema = Absent)
    BY ZenonT(30) DEF loadDNA
<1>2. ps # Absent /\ sch # Absent
    BY <1>0, <1>1 DEF Absent
<1> HIDE DEF f, ps, sch, d
<1>3. /\ d.UUID = f.UUID /\ d.Name = f.Name /\ d.PropertiesSchema = ps /\ d.RequiresVersion = f.RequiresVersion
      /\ d.DataFormat = f.DataFormat /\ d.Schema = sch
    BY <1>1
<1>4. d = [UUID |-> d.UUID, Name |-> d.Name, PropertiesSchema |-> d.PropertiesSchema,
            RequiresVersion |-> d.RequiresVersion, DataFormat |-> d.DataFormat, Schema |-> d.Schema]
    BY <1>1, <1>3
<1>5. Good(d)
    BY <1>1, <1>2, <1>3, <1>4 DEF Good, check
<1> QED
    BY <1>0, <1>3, <1>5 DEF d

\* The DNA that the directory is made for.
LEMMA HeldFields ==
    ASSUME NEW c \in Making, source \in SourceDir, loadDNA(source) # Failed
    PROVE  /\ Good(HeldFor(c))
           /\ c = "clone" => HeldFor(c) = loadDNA(source)
           /\ c = "new" => HeldFor(c).UUID = "new"
           /\ c # "unpack" => HeldFor(c).PropertiesSchema = loadDNA(source).PropertiesSchema
           /\ c = "unpack" => HeldFor(c).PropertiesSchema # ""
<1> DEFINE d == loadDNA(source)
           F == {"UUID", "Name", "PropertiesSchema", "RequiresVersion", "DataFormat", "Schema"}
<1>1. Good(d)
    BY SourceIsGood
<1>2. CASE c = "clone"
    BY <1>1, <1>2 DEF HeldFor
<1> HIDE DEF d
<1>3. CASE c = "new"
  <2> DEFINE h == HeldFor(c)
  <2>1. h = [d EXCEPT !.UUID = "new", !.Name = "local"]
      BY <1>3 DEF HeldFor, d
  <2> HIDE DEF h
  <2>2. d = [UUID |-> d.UUID, Name |-> d.Name, PropertiesSchema |-> d.PropertiesSchema,
            RequiresVersion |-> d.RequiresVersion, DataFormat |-> d.DataFormat, Schema |-> d.Schema]
      BY <1>1 DEF Good
  <2>3. h = [UUID |-> "new", Name |-> "local", PropertiesSchema |-> d.PropertiesSchema,
            RequiresVersion |-> d.RequiresVersion, DataFormat |-> d.DataFormat, Schema |-> d.Schema]
      BY <2>1, <2>2
  <2>4. Good(h) /\ h.UUID = "new" /\ h.PropertiesSchema = d.PropertiesSchema
      BY <1>1, <2>3 DEF Good
  <2> QED
      BY <1>3, <2>4 DEF h, d
<1>4. CASE c = "unpack"
  <2> DEFINE h == HeldFor(c)
  <2>1. h = [[d EXCEPT !.PropertiesSchema = Template] EXCEPT !.Name = "local"]
      BY <1>4 DEF HeldFor, d, LoadAppPackage
  <2> HIDE DEF h
  <2>2. d = [UUID |-> d.UUID, Name |-> d.Name, PropertiesSchema |-> d.PropertiesSchema,
            RequiresVersion |-> d.RequiresVersion, DataFormat |-> d.DataFormat, Schema |-> d.Schema]
      BY <1>1 DEF Good
  <2>3. h = [UUID |-> d.UUID, Name |-> "local", PropertiesSchema |-> Template,
            RequiresVersion |-> d.RequiresVersion, DataFormat |-> d.DataFormat, Schema |-> d.Schema]
      BY <2>1, <2>2
  <2>4. Good(h) /\ h.PropertiesSchema # ""
      BY <1>1, <2>3 DEF Good, Template, Absent
  <2> QED
      BY <1>4, <2>4 DEF h, d
<1> QED
    BY <1>2, <1>3, <1>4 DEF Making

GenWrites == {"dnaEntry", "agentEntry", "hashFile", "prepare", "putDNA", "putKey", "putAgent", "genesis"}

LEMMA Programs ==
    /\ CloneSteps \in Seq(MakeWrites) /\ Len(CloneSteps) = 8
    /\ UnpackSteps \in Seq(MakeWrites) /\ Len(UnpackSteps) = 8
    /\ GenSteps \in Seq(GenWrites) /\ Len(GenSteps) = 8
    /\ ResetSteps \in Seq({"removeDB", "db", "removeHash"}) /\ Len(ResetSteps) = 3
    /\ RefusedSteps \in Seq({"root", "fail"}) /\ Len(RefusedSteps) = 2
<1>1. CloneSteps \in Seq(MakeWrites) /\ Len(CloneSteps) = 8
    BY DEF CloneSteps, MakeWrites, DirWrites, DNAWrites
<1>2. UnpackSteps \in Seq(MakeWrites) /\ Len(UnpackSteps) = 8
    BY DEF UnpackSteps, MakeWrites, DirWrites, DNAWrites
<1>3. GenSteps \in Seq(GenWrites) /\ Len(GenSteps) = 8
    BY DEF GenSteps, GenWrites
<1>4. ResetSteps \in Seq({"removeDB", "db", "removeHash"}) /\ Len(ResetSteps) = 3
    BY DEF ResetSteps
<1>5. RefusedSteps \in Seq({"root", "fail"}) /\ Len(RefusedSteps) = 2
    BY DEF RefusedSteps
<1> QED
    BY <1>1, <1>2, <1>3, <1>4, <1>5

\* A program goes on to its next write.
LEMMA AtNext ==
    ASSUME NEW S, NEW p \in Seq(S), NEW k, At(p, k)
    PROVE  /\ k \in 1..Len(p) /\ Head(todo) = p[k] /\ p[k] \in S
           /\ Len(todo) > 1 <=> k < Len(p)
           /\ todo' = Tail(todo) /\ k < Len(p) => At(p, k + 1)'
<1>1. k \in 1..Len(p) /\ todo = From(p, k)
    BY DEF At
<1>2. /\ Head(todo) = p[k] /\ Tail(todo) = From(p, k + 1)
      /\ (Len(todo) > 1) <=> (k < Len(p))
    BY <1>1, FromNext
<1>3. todo' = Tail(todo) /\ k < Len(p) => At(p, k + 1)'
    BY <1>1, <1>2 DEF At
<1> QED
    BY <1>1, <1>2, <1>3

\* A program begins with its first write.
LEMMA AtFirst ==
    ASSUME NEW S, NEW p \in Seq(S), Len(p) > 0, todo' = p
    PROVE  At(p, 1)'
<1> DEFINE q == From(p, 1)
<1>1. q \in Seq(S) /\ Len(q) = Len(p) /\ \A i \in 1..Len(p) : q[i] = p[i]
  <2>1. 1 \in Int /\ Len(p) \in Int /\ \A i \in 1..Len(p) : p[i] \in S
      OBVIOUS
  <2>2. /\ q \in Seq(S)
        /\ Len(q) = IF 1 <= Len(p) THEN Len(p) - 1 + 1 ELSE 0
        /\ \A i \in 1..(Len(p) - 1 + 1) : q[i] = p[1 + i - 1]
      BY <2>1, PartIs DEF From
  <2> HIDE DEF q
  <2> QED
      BY <2>1, <2>2
<1> HIDE DEF q
<1>2. q = p
    BY <1>1, SameSeq
<1> QED
    BY <1>2 DEF q, At

-----------------------------------------------------------------------------
(* Steps of a command that makes a directory *)

\* What a step keeps that no write changes.
Frame ==
    /\ source' = source /\ held' = held /\ partial' = partial /\ given' = given
    /\ failures' = failures /\ crashes' = crashes

LEMMA StepIs ==
    ASSUME Step
    PROVE  /\ command # "none" /\ ~MustFail(Head(todo)) /\ Write(Head(todo))
           /\ todo' = Tail(todo) /\ Frame
           /\ Len(todo) > 1 => command' = command /\ outcome' = outcome /\ cloned' = cloned
           /\ ~(Len(todo) > 1) =>
                /\ command' = "none" /\ outcome' = "nil"
                /\ cloned' = (IF command \in Making THEN command ELSE cloned)
BY DEF Step, Frame, Making

\* The last of the writes leaves nothing to do.
LEMMA AtEnd ==
    ASSUME NEW S, NEW p \in Seq(S), NEW k, At(p, k), ~(k < Len(p)), todo' = Tail(todo)
    PROVE  todo' = << >>
<1>1. k = Len(p) /\ k \in 1..Len(p)
    BY DEF At
<1>2. Len(todo) = 1 /\ todo \in Seq(S)
  <2>1. /\ SubSeq(p, k, Len(p)) \in Seq(S)
        /\ Len(SubSeq(p, k, Len(p))) = IF k <= Len(p) THEN Len(p) - k + 1 ELSE 0
      BY <1>1, PartIs
  <2> QED
      BY <1>1, <2>1 DEF At, From
<1>3. Len(Tail(todo)) = 0 /\ Tail(todo) \in Seq(S)
  <2>1. ASSUME todo = << >>
        PROVE  FALSE
    <3>1. Len(todo) = Len(<< >>)
        BY <2>1, Zenon
    <3> QED
        BY ONLY <1>2, <3>1, NoneHasLength
  <2> QED
      BY <1>2, <2>1, RestIs
<1> QED
    BY <1>3

\* The types, the root and the chain after a write to the directory or the DNA.
MakeKeeps ==
    /\ chain' = chain /\ dnaHash' = dnaHash /\ dht' = dht /\ genesis' = genesis
    /\ made \subseteq made' /\ made' \subseteq made \cup DirWrites

LEMMA MakeWriteKeeps ==
    ASSUME NEW s \in MakeWrites, Write(s)
    PROVE  MakeKeeps
<1>1. CASE s \in DirWrites
    BY <1>1, WritesDir DEF MakeKeeps
<1>2. CASE s \in DNAWrites
    BY <1>2, WritesDNA DEF MakeKeeps
<1> QED
    BY <1>1, <1>2 DEF MakeWrites

LEMMA MakeSteady ==
    ASSUME IInv, Step, command \in Making, MakeKeeps, "root" \in made'
    PROVE  TypeOK' /\ RootInv' /\ ChainInv'
<1>1. Frame /\ command' \in {command, "none"} /\ outcome' \in {outcome, "nil"}
      /\ cloned' \in {cloned, command}
    BY StepIs
<1>2. TypeOK'
    BY <1>1, ZenonT(30) DEF IInv, TypeOK, Frame, MakeKeeps, Making, Outcome, DirWrites
<1>3. RootInv'
    BY DEF RootInv
<1>4. ChainInv'
    BY <1>1 DEF IInv, ChainInv, Frame, MakeKeeps, Making
<1> QED
    BY <1>2, <1>3, <1>4

\* p makes a directory, with saveDNAFile from a on and the configuration at c.
Makes(p, a, c) ==
    /\ p \in Seq(MakeWrites) /\ Len(p) = 8 /\ a \in 2..3 /\ c \in 2..7
    /\ p[1] = "root" /\ p[c] = "config" /\ p[8] = "db"
    /\ p[a] = "create" /\ p[a + 1] = "zomes" /\ p[a + 2] = "properties" /\ p[a + 3] = "encode"
    /\ \A k \in 1..8 : k \notin a..(a + 3) => p[k] \in DirWrites

LEMMA MakePrograms == Makes(CloneSteps, 3, 2) /\ Makes(UnpackSteps, 2, 7)
<1>1. Makes(CloneSteps, 3, 2)
  <2>1. /\ CloneSteps[1] = "root" /\ CloneSteps[2] = "config" /\ CloneSteps[3] = "create"
        /\ CloneSteps[4] = "zomes" /\ CloneSteps[5] = "properties" /\ CloneSteps[6] = "encode"
        /\ CloneSteps[7] = "agent" /\ CloneSteps[8] = "db"
      BY DEF CloneSteps
  <2>2. \A k \in 1..8 : k \notin 3..(3 + 3) => CloneSteps[k] \in DirWrites
    <3> TAKE k \in 1..8
    <3> HAVE k \notin 3..(3 + 3)
    <3>1. k = 1 \/ k = 2 \/ k = 7 \/ k = 8
        OBVIOUS
    <3> QED
        BY <2>1, <3>1 DEF DirWrites
  <2> QED
      BY <2>1, <2>2, Programs DEF Makes
<1>2. Makes(UnpackSteps, 2, 7)
  <2>1. /\ UnpackSteps[1] = "root" /\ UnpackSteps[2] = "create" /\ UnpackSteps[3] = "zomes"
        /\ UnpackSteps[4] = "properties" /\ UnpackSteps[5] = "encode" /\ UnpackSteps[6] = "agent"
        /\ UnpackSteps[7] = "config" /\ UnpackSteps[8] = "db"
      BY DEF UnpackSteps
  <2>2. \A k \in 1..8 : k \notin 2..(2 + 3) => UnpackSteps[k] \in DirWrites
    <3> TAKE k \in 1..8
    <3> HAVE k \notin 2..(2 + 3)
    <3>1. k = 1 \/ k = 6 \/ k = 7 \/ k = 8
        OBVIOUS
    <3> QED
        BY <2>1, <3>1 DEF DirWrites
  <2> QED
      BY <2>1, <2>2, Programs DEF Makes
<1> QED
    BY <1>1, <1>2

\* The DNA follows the writes of saveDNAFile.
LEMMA MakeDNA ==
    ASSUME NEW p, NEW a, NEW c, Makes(p, a, c), NEW k \in 1..8,
           dna = Saved(held, Done(k, a)), Write(p[k])
    PROVE  dna' = Saved(held, Done(k + 1, a))
<1>1. a \in 2..3 /\ p[a] = "create" /\ p[a + 1] = "zomes" /\ p[a + 2] = "properties" /\ p[a + 3] = "encode"
    BY DEF Makes
<1>2. CASE k \notin a..(a + 3)
  <2>1. p[k] \in DirWrites
      BY <1>2 DEF Makes
  <2>2. Done(k + 1, a) = Done(k, a)
      BY <1>1, <1>2 DEF Done
  <2> QED
      BY <2>1, <2>2, WritesDir
<1>3. CASE k = a
  <2>1. Done(k, a) = 0 /\ Done(k + 1, a) = 1
      BY <1>1, <1>3 DEF Done
  <2>2. dna' = Created(dna)
      BY <1>1, <1>3, WritesDNA DEF DNAWrites
  <2> QED
      BY <2>1, <2>2, SavedState, ZenonT(30)
<1>4. CASE k = a + 1
  <2>1. Done(k, a) = 1 /\ Done(k + 1, a) = 2
      BY <1>1, <1>4 DEF Done
  <2>2. dna' = WithZomes(dna, held)
      BY <1>1, <1>4, WritesDNA DEF DNAWrites
  <2> QED
      BY <2>1, <2>2, SavedState, ZenonT(30)
<1>5. CASE k = a + 2
  <2>1. Done(k, a) = 2 /\ Done(k + 1, a) = 3
      BY <1>1, <1>5 DEF Done
  <2>2. dna' = WithProperties(dna, held)
      BY <1>1, <1>5, WritesDNA DEF DNAWrites
  <2> QED
      BY <2>1, <2>2, SavedState, ZenonT(30)
<1>6. CASE k = a + 3
  <2>1. Done(k, a) = 3 /\ Done(k + 1, a) = 4
      BY <1>1, <1>6 DEF Done
  <2>2. dna' = Encoded(dna, held)
      BY <1>1, <1>6, WritesDNA DEF DNAWrites
  <2> QED
      BY <2>1, <2>2, SavedState, ZenonT(30)
<1> QED
    BY <1>1, <1>2, <1>3, <1>4, <1>5, <1>6

\* A command that makes a directory makes its next write, or its last.
LEMMA MakeGoesOn ==
    ASSUME IInv, Step, command \in Making, NEW p, NEW a, NEW c, Makes(p, a, c),
           NEW k \in 1..8, MakingAt(p, a, c, k)
    PROVE  /\ TypeOK' /\ RootInv' /\ ChainInv' /\ DiskInv'
           /\ k < 8 => /\ MakingAt(p, a, c, k + 1)' /\ k + 1 \in 1..8
                       /\ command' = command /\ cloned' = cloned
           /\ k = 8 => /\ command' = "none" /\ todo' = << >> /\ cloned' = command
                       /\ dna' = Saved(held, 4) /\ "config" \in made' /\ "db" \in made'
<1>1. /\ p \in Seq(MakeWrites) /\ Len(p) = 8 /\ a \in 2..3 /\ c \in 2..7
      /\ p[1] = "root" /\ p[c] = "config" /\ p[8] = "db"
    BY DEF Makes
<1>2. /\ At(p, k) /\ dna = Saved(held, Done(k, a)) /\ chain = 0 /\ dnaHash = << >>
      /\ cloned = "none" /\ (k > 1 => "root" \in made) /\ (k > c => "config" \in made)
    BY DEF MakingAt
<1>3. /\ Head(todo) = p[k] /\ p[k] \in MakeWrites /\ (Len(todo) > 1 <=> k < 8)
      /\ Write(p[k]) /\ todo' = Tail(todo) /\ Frame /\ (k < 8 => At(p, k + 1)')
    BY <1>1, <1>2, AtNext, StepIs
<1>4. MakeKeeps /\ dna' = Saved(held, Done(k + 1, a))
    BY <1>2, <1>3, MakeWriteKeeps, MakeDNA
<1>5. /\ k = 1 => "root" \in made'
      /\ k = c => "config" \in made'
      /\ k = 8 => "db" \in made'
    BY <1>1, <1>3, WritesDir DEF DirWrites
<1>6. "root" \in made' /\ (k + 1 > c => "config" \in made')
    BY <1>1, <1>2, <1>4, <1>5 DEF MakeKeeps
<1>7. TypeOK' /\ RootInv' /\ ChainInv'
    BY <1>4, <1>6, MakeSteady
<1>8. DiskInv'
  <2>1. chain' = 0 /\ dnaHash' = << >> /\ genesis' = 0
      BY <1>2, <1>4 DEF MakeKeeps, IInv, DiskInv
  <2>2. Done(k + 1, a) = 0 \/ Done(k + 1, a) \in 1..3 \/ Done(k + 1, a) = 4
      BY <1>1 DEF Done
  <2>3. dna'.state = "absent" => dna' = NoDNA
      BY <1>4, <2>2, SavedState
  <2> QED
      BY <2>1, <2>3 DEF DiskInv
<1>9. ASSUME k < 8
      PROVE  MakingAt(p, a, c, k + 1)' /\ k + 1 \in 1..8 /\ command' = command /\ cloned' = cloned
  <2>1. command' = command /\ cloned' = cloned
      BY <1>3, <1>9, StepIs
  <2>2. held' = held
      BY <1>3 DEF Frame
  <2>3. MakingAt(p, a, c, k + 1)'
      BY <1>2, <1>3, <1>4, <1>6, <1>9, <2>1, <2>2, ZenonT(30) DEF MakingAt, MakeKeeps
  <2> QED
      BY <1>9, <2>1, <2>3
<1>10. ASSUME k = 8
       PROVE  /\ command' = "none" /\ todo' = << >> /\ cloned' = command
              /\ dna' = Saved(held, 4) /\ "config" \in made' /\ "db" \in made'
  <2>1. todo' = << >>
      BY <1>1, <1>2, <1>3, <1>10, AtEnd
  <2>2. command' = "none" /\ cloned' = command
      BY <1>3, <1>10, StepIs
  <2>3. Done(k + 1, a) = 4
      BY <1>1, <1>10 DEF Done
  <2> QED
      BY <1>1, <1>4, <1>5, <1>6, <1>10, <2>1, <2>2, <2>3
<1> QED
    BY <1>7, <1>8, <1>9, <1>10

LEMMA MakeStep ==
    ASSUME IInv, Step, command \in Making
    PROVE  IInv'
<1>0. MakeInv /\ ClonedInv /\ DiskInv /\ Frame
    BY StepIs DEF IInv, CommandInv
<1>s. source' = source /\ held' = held /\ partial' = partial
    BY <1>0 DEF Frame
<1>1. CASE command \in {"clone", "unpack"} /\ (command = "clone" => chain = 0) /\ Refused
  <2>1. RefusedSteps \in Seq({"root", "fail"}) /\ Len(RefusedSteps) = 2
        /\ RefusedSteps[1] = "root" /\ RefusedSteps[2] = "fail"
      BY Programs DEF RefusedSteps
  <2>2. ~At(RefusedSteps, 2)
    <3> SUFFICES ASSUME At(RefusedSteps, 2) PROVE FALSE
        OBVIOUS
    <3>1. Head(todo) = "fail"
        BY <2>1, AtNext
    <3> QED
        BY <3>1, StepIs DEF MustFail
  <2>3. At(RefusedSteps, 1)
      BY <1>1, <2>2 DEF Refused
  <2>4. Head(todo) = "root" /\ Len(todo) > 1 /\ At(RefusedSteps, 2)'
    <3> DEFINE j == 1 + 1
    <3>1. /\ Head(todo) = RefusedSteps[1] /\ (Len(todo) > 1 <=> 1 < Len(RefusedSteps))
          /\ (todo' = Tail(todo) /\ 1 < Len(RefusedSteps) => At(RefusedSteps, j)')
        BY <2>1, <2>3, AtNext, ZenonT(30)
    <3>2. j = 2 /\ 1 < Len(RefusedSteps)
        BY <2>1
    <3> HIDE DEF j
    <3> QED
        BY <2>1, <3>1, <3>2, StepIs
  <2>5. /\ At(RefusedSteps, 2)' /\ command' = command /\ cloned' = cloned
        /\ made' = made \cup {"root"} /\ dna' = dna /\ chain' = chain /\ dnaHash' = dnaHash
        /\ dht' = dht /\ genesis' = genesis
      BY <2>4, StepIs, WritesDir DEF DirWrites
  <2>6. MakeKeeps /\ "root" \in made'
      BY <2>5 DEF MakeKeeps, DirWrites
  <2>7. TypeOK' /\ RootInv' /\ ChainInv'
      BY <2>6, MakeSteady
  <2>8. DiskInv'
      BY <1>0, <2>5 DEF DiskInv
  <2>9. ClonedInv'
      BY <1>0, <1>s, <1>1, <2>5, ZenonT(30) DEF ClonedInv, HeldFor
  <2>10. EmptyInv'
      BY <1>1, <2>5 DEF EmptyInv, Making
  <2>11. Refused'
      BY <2>5, <2>6 DEF Refused
  <2>12. MakeInv'
      BY <1>1, <2>5, <2>11 DEF MakeInv
  <2>13. CommandInv'
      BY <1>1, <2>5, <2>12 DEF CommandInv
  <2> QED
      BY <2>7, <2>8, <2>9, <2>10, <2>13 DEF IInv
<1>2. ASSUME loadDNA(source) # Failed, held = HeldFor(command),
             NEW p, NEW a, NEW c, Makes(p, a, c), NEW k \in 1..8, MakingAt(p, a, c, k),
             \A j \in 1..8 : MakingAt(p, a, c, j)' /\ command' = command => MakeInv'
      PROVE  IInv'
  <2>1. TypeOK' /\ RootInv' /\ ChainInv' /\ DiskInv'
      BY <1>2, MakeGoesOn
  <2>2. CASE k < 8
    <3>1. MakingAt(p, a, c, k + 1)' /\ k + 1 \in 1..8 /\ command' = command /\ cloned' = cloned
        BY <1>2, <2>2, MakeGoesOn
    <3>2. cloned' = "none"
        BY <1>2, <3>1 DEF MakingAt
    <3>3. MakeInv'
        BY <1>2, <3>1
    <3>4. ClonedInv' /\ EmptyInv' /\ CommandInv'
        BY <3>1, <3>2, <3>3 DEF ClonedInv, EmptyInv, CommandInv, Making
    <3> QED
        BY <2>1, <3>4 DEF IInv
  <2>3. CASE k = 8
    <3>1. /\ command' = "none" /\ todo' = << >> /\ cloned' = command
          /\ dna' = Saved(held, 4) /\ "config" \in made' /\ "db" \in made'
        BY <1>2, <2>3, MakeGoesOn
    <3>2. loadDNA(source') # Failed /\ HeldFor(cloned)' = HeldFor(command)
        BY <1>2, <1>s, <3>1, ZenonT(30) DEF HeldFor
    <3>3. ClonedInv'
        BY <1>2, <3>1, <3>2, ZenonT(30) DEF ClonedInv
    <3>4. EmptyInv' /\ CommandInv'
        BY <3>1 DEF EmptyInv, CommandInv, Making
    <3> QED
        BY <2>1, <3>3, <3>4 DEF IInv
  <2> QED
      BY <2>2, <2>3
<1>3. ASSUME loadDNA(source) # Failed, held = HeldFor(command),
             command \in {"clone", "new"}, NEW k \in 1..8, MakingAt(CloneSteps, 3, 2, k)
      PROVE  IInv'
  <2>1. HeldFor(command)' = HeldFor(command')
      BY <1>s, ZenonT(30) DEF HeldFor
  <2>2. \A j \in 1..8 : MakingAt(CloneSteps, 3, 2, j)' /\ command' = command => MakeInv'
      BY <1>3, <1>s, <2>1, ZenonT(30) DEF MakeInv
  <2> QED
      BY <1>2, <1>3, <2>2, MakePrograms, ZenonT(30)
<1>4. ASSUME loadDNA(source) # Failed, held = HeldFor(command),
             command = "unpack", NEW k \in 1..8, MakingAt(UnpackSteps, 2, 7, k)
      PROVE  IInv'
  <2>1. HeldFor(command)' = HeldFor(command')
      BY <1>s, ZenonT(30) DEF HeldFor
  <2>2. \A j \in 1..8 : MakingAt(UnpackSteps, 2, 7, j)' /\ command' = command => MakeInv'
      BY <1>4, <1>s, <2>1, ZenonT(30) DEF MakeInv
  <2> QED
      BY <1>2, <1>4, <2>2, MakePrograms, ZenonT(30)
<1> QED
    BY <1>0, <1>1, <1>3, <1>4, ZenonT(30) DEF MakeInv

-----------------------------------------------------------------------------
(* Steps of GenChain and Reset *)

LEMMA GenStep ==
    ASSUME IInv, Step, command = "gen"
    PROVE  IInv'
<1>0. GenInv /\ RootInv /\ ClonedInv /\ DiskInv /\ EmptyInv /\ TypeOK
    BY DEF IInv, CommandInv, Making
<1>1. PICK k \in 1..8 :
        /\ At(GenSteps, k) /\ "config" \in made /\ genesis = 0
        /\ held = loadDNA(dna) /\ dna.state = "encoded"
        /\ chain = (IF k <= 3 THEN k - 1 ELSE 2)
        /\ k > 3 => dnaHash = <<held>>
        /\ k > 5 => "dna" \in dht
        /\ k > 7 => "agent" \in dht
    BY <1>0 DEF GenInv
<1>2. /\ GenSteps[1] = "dnaEntry" /\ GenSteps[2] = "agentEntry" /\ GenSteps[3] = "hashFile"
      /\ GenSteps[4] = "prepare" /\ GenSteps[5] = "putDNA" /\ GenSteps[6] = "putKey"
      /\ GenSteps[7] = "putAgent" /\ GenSteps[8] = "genesis"
    BY DEF GenSteps
<1>3. /\ GenSteps \in Seq(GenWrites) /\ Len(GenSteps) = 8
    BY Programs
<1>4. /\ Head(todo) = GenSteps[k] /\ GenSteps[k] \in GenWrites /\ (Len(todo) > 1 <=> k < 8)
      /\ Write(GenSteps[k]) /\ todo' = Tail(todo) /\ Frame /\ (k < 8 => At(GenSteps, k + 1)')
    BY <1>1, <1>3, AtNext, StepIs
<1>s. source' = source /\ held' = held /\ partial' = partial
    BY <1>4 DEF Frame
<1>5. /\ made' = made /\ dna' = dna
      /\ chain' = (IF GenSteps[k] \in {"dnaEntry", "agentEntry"} THEN chain + 1 ELSE chain)
      /\ dnaHash' = (IF GenSteps[k] = "hashFile" THEN <<held>> ELSE dnaHash)
      /\ genesis' = (IF GenSteps[k] = "genesis" THEN genesis + 1 ELSE genesis)
      /\ dht \subseteq dht' /\ dht' \subseteq dht \cup GenesisEntry
      /\ GenSteps[k] = "putDNA" => "dna" \in dht'
      /\ GenSteps[k] = "putAgent" => "agent" \in dht'
    BY <1>4, WritesChain DEF GenWrites
<1>6. k = 1 \/ k = 2 \/ k = 3 \/ k = 4 \/ k = 5 \/ k = 6 \/ k = 7 \/ k = 8
    OBVIOUS
<1>7. /\ chain' = (IF k + 1 <= 3 THEN k ELSE 2)
      /\ k + 1 > 3 => dnaHash' = <<held>>
      /\ k <= 2 => dnaHash' = dnaHash
      /\ k + 1 > 5 => "dna" \in dht'
      /\ k + 1 > 7 => "agent" \in dht'
      /\ genesis' = (IF k = 8 THEN 1 ELSE 0)
  <2>1. chain' = (IF k + 1 <= 3 THEN k ELSE 2)
      BY <1>1, <1>2, <1>5, <1>6
  <2>2. (k + 1 > 3 => dnaHash' = <<held>>) /\ (k <= 2 => dnaHash' = dnaHash)
      BY <1>1, <1>2, <1>5, <1>6
  <2>3. (k + 1 > 5 => "dna" \in dht') /\ (k + 1 > 7 => "agent" \in dht')
      BY <1>1, <1>2, <1>5, <1>6
  <2>4. genesis' = (IF k = 8 THEN 1 ELSE 0)
      BY <1>1, <1>2, <1>5, <1>6
  <2> QED
      BY <2>1, <2>2, <2>3, <2>4
<1>8. RootInv'
    BY <1>0, <1>1, <1>5 DEF RootInv, Nothing
<1>9. DiskInv'
  <2>1. chain' # 0
      BY <1>7
  <2>2. dnaHash' = dnaHash \/ dnaHash' = <<loadDNA(dna')>>
      BY <1>1, <1>5, <1>7
  <2> QED
      BY <1>0, <1>1, <1>5, <2>1, <2>2 DEF DiskInv
<1>10. EmptyInv' /\ ClonedInv' /\ cloned' = cloned
  <2>1. cloned' = cloned
      BY <1>4, StepIs DEF Making
  <2>2. ~(partial = {} /\ cloned = "none")
      BY <1>0, <1>1 DEF EmptyInv, Nothing, Making
  <2>3. EmptyInv'
      BY <1>s, <2>1, <2>2 DEF EmptyInv
  <2>4. ClonedInv'
      BY <1>0, <1>s, <1>5, <2>1, ZenonT(30) DEF ClonedInv, HeldFor
  <2> QED
      BY <2>1, <2>3, <2>4
<1>11. CASE k < 8
  <2>1. command' = command /\ outcome' = outcome /\ At(GenSteps, k + 1)'
      BY <1>4, <1>11, StepIs
  <2>2. k + 1 \in 1..8 /\ (k + 1) - 1 = k
      BY <1>11
  <2>3. TypeOK'
      BY <1>0, <1>4, <1>5, <1>7, <1>10, <2>1 DEF TypeOK, Frame
  <2>4. ChainInv'
      BY <2>1 DEF ChainInv
  <2>5. GenInv'
    <3>1. /\ At(GenSteps, k + 1)' /\ "config" \in made' /\ genesis' = 0
          /\ held' = loadDNA(dna') /\ dna'.state = "encoded"
        BY <1>1, <1>s, <1>5, <1>7, <1>11, <2>1
    <3>2. /\ chain' = (IF k + 1 <= 3 THEN (k + 1) - 1 ELSE 2)
          /\ k + 1 > 3 => dnaHash' = <<held'>>
          /\ k + 1 > 5 => "dna" \in dht'
          /\ k + 1 > 7 => "agent" \in dht'
        BY <1>s, <1>7, <2>2
    <3> QED
        BY <2>2, <3>1, <3>2, ZenonT(30) DEF GenInv
  <2>6. CommandInv'
      BY <2>1, <2>5 DEF CommandInv, Making
  <2> QED
      BY <1>8, <1>9, <1>10, <2>3, <2>4, <2>6 DEF IInv
<1>12. CASE k = 8
  <2>1. command' = "none" /\ outcome' = "nil"
      BY <1>4, <1>12, StepIs
  <2>2. todo' = << >>
      BY <1>1, <1>3, <1>4, <1>12, AtEnd
  <2>3. TypeOK'
      BY <1>0, <1>4, <1>5, <1>7, <1>10, <2>1 DEF TypeOK, Frame, Outcome
  <2>4. ChainInv'
      BY <1>7, <1>12 DEF ChainInv
  <2>5. CommandInv'
      BY <2>1, <2>2 DEF CommandInv, Making
  <2> QED
      BY <1>8, <1>9, <1>10, <2>3, <2>4, <2>5 DEF IInv
<1> QED
    BY <1>11, <1>12

LEMMA ResetStep ==
    ASSUME IInv, Step, command = "reset"
    PROVE  IInv'
<1>0. ResetInv /\ RootInv /\ ClonedInv /\ DiskInv /\ EmptyInv /\ TypeOK /\ ChainInv
    BY DEF IInv, CommandInv, Making
<1>1. PICK k \in 1..3 : /\ At(ResetSteps, k) /\ "config" \in made /\ dna.state = "encoded"
                        /\ k > 1 => chain = 0
    BY <1>0 DEF ResetInv
<1>2. /\ ResetSteps[1] = "removeDB" /\ ResetSteps[2] = "db" /\ ResetSteps[3] = "removeHash"
      /\ ResetSteps \in Seq({"removeDB", "db", "removeHash"}) /\ Len(ResetSteps) = 3
    BY Programs DEF ResetSteps
<1>4. /\ Head(todo) = ResetSteps[k] /\ (Len(todo) > 1 <=> k < 3)
      /\ Write(ResetSteps[k]) /\ todo' = Tail(todo) /\ Frame /\ (k < 3 => At(ResetSteps, k + 1)')
  <2>1. /\ Head(todo) = ResetSteps[k] /\ (Len(todo) > 1 <=> k < Len(ResetSteps))
        /\ todo' = Tail(todo) /\ k < Len(ResetSteps) => At(ResetSteps, k + 1)'
      BY <1>1, <1>2, AtNext, ZenonT(30)
  <2> QED
      BY <1>2, <2>1, StepIs
<1>s. source' = source /\ held' = held /\ partial' = partial
    BY <1>4 DEF Frame
<1>5. /\ dna' = dna /\ chain' = 0 /\ genesis' = 0 /\ dht' \subseteq dht
      /\ dnaHash' = dnaHash \/ dnaHash' = << >>
      /\ made \ {"db"} \subseteq made' /\ made' \subseteq made \cup {"db"}
      /\ k > 1 => made \subseteq made'
      /\ k = 2 => "db" \in made'
  <2>1. CASE k = 1
      BY <1>2, <1>4, <2>1, WritesReset
  <2>2. CASE k = 2
    <3>1. Write("db") /\ "db" \in DirWrites
        BY <1>2, <1>4, <2>2 DEF DirWrites
    <3>2. made' = made \cup {"db"} /\ dna' = dna /\ chain' = chain /\ dnaHash' = dnaHash
           /\ dht' = dht /\ genesis' = genesis
        BY <3>1, WritesDir
    <3>3. chain = 0 /\ genesis = 0
        BY <1>0, <1>1, <2>2 DEF DiskInv
    <3> QED
        BY <2>2, <3>2, <3>3
  <2>3. CASE k = 3
    <3>1. Write("removeHash")
        BY <1>2, <1>4, <2>3
    <3>2. made' = made /\ dna' = dna /\ chain' = chain /\ dnaHash' = << >> /\ dht' = dht /\ genesis' = genesis
        BY <3>1, WritesReset
    <3>3. chain = 0 /\ genesis = 0
        BY <1>0, <1>1, <2>3 DEF DiskInv
    <3> QED
        BY <2>3, <3>2, <3>3
  <2> QED
      BY <2>1, <2>2, <2>3
<1>6. "config" \in made' /\ "root" \in made'
  <2>1. "root" \in made
      BY <1>0, <1>1 DEF RootInv, Nothing
  <2> QED
      BY <1>1, <1>5, <2>1
<1>7. cloned' = cloned /\ outcome' \in {outcome, "nil"} /\ command' \in {"reset", "none"}
    BY <1>4, StepIs DEF Making
<1>8. TypeOK' /\ RootInv' /\ ChainInv'
  <2>1. TypeOK'
      BY <1>0, <1>4, <1>5, <1>7 DEF TypeOK, Frame, Outcome
  <2>2. RootInv' /\ ChainInv'
      BY <1>5, <1>6 DEF RootInv, ChainInv
  <2> QED
      BY <2>1, <2>2
<1>9. DiskInv'
    BY <1>0, <1>1, <1>5 DEF DiskInv
<1>10. EmptyInv'
  <2>1. ~(partial = {} /\ cloned = "none")
      BY <1>0, <1>1 DEF EmptyInv, Nothing, Making
  <2> QED
      BY <1>s, <1>7, <2>1 DEF EmptyInv
<1>11. k < 3 => command' = "reset" /\ At(ResetSteps, k + 1)'
    BY <1>4, StepIs
<1>12. k = 3 => command' = "none" /\ todo' = << >>
    BY <1>1, <1>2, <1>4, AtEnd, StepIs
<1>13. ClonedInv'
  <2> SUFFICES ASSUME cloned' # "none" PROVE ClonedInv'
      BY DEF ClonedInv
  <2>1. loadDNA(source') # Failed /\ dna' = Saved(HeldFor(cloned)', 4)
      BY <1>0, <1>s, <1>5, <1>7, ZenonT(30) DEF ClonedInv, HeldFor
  <2>2. partial' = {} => "db" \in made' \/ (command' = "reset" /\ At(ResetSteps, 2)')
    <3>1. CASE k = 1
      <4> DEFINE j == k + 1
      <4>1. j = 2 /\ command' = "reset" /\ At(ResetSteps, j)'
          BY <1>11, <3>1
      <4> HIDE DEF j
      <4> QED
          BY <4>1
    <3>2. CASE k = 2
        BY <1>5, <3>2
    <3>3. CASE k = 3
      <4>1. ~At(ResetSteps, 2)
        <5> SUFFICES ASSUME At(ResetSteps, 2) PROVE FALSE
            OBVIOUS
        <5>1. Head(todo) = ResetSteps[2]
            BY <1>2, AtNext
        <5> QED
            BY <1>2, <1>4, <3>3, <5>1
      <4> QED
          BY <1>0, <1>s, <1>5, <1>7, <3>3, <4>1 DEF ClonedInv
    <3> QED
        BY <3>1, <3>2, <3>3
  <2> QED
      BY <1>6, <2>1, <2>2, ZenonT(30) DEF ClonedInv
<1>14. CommandInv'
  <2>1. CASE k < 3
    <3>1. k + 1 \in 1..3
        BY <2>1
    <3>2. ResetInv'
        BY <1>1, <1>5, <1>6, <1>11, <2>1, <3>1, ZenonT(30) DEF ResetInv
    <3> QED
        BY <1>11, <2>1, <3>2 DEF CommandInv, Making
  <2>2. CASE k = 3
      BY <1>12, <2>2 DEF CommandInv, Making
  <2> QED
      BY <2>1, <2>2
<1> QED
    BY <1>8, <1>9, <1>10, <1>13, <1>14 DEF IInv

-----------------------------------------------------------------------------
(* The ends of a command that does not succeed *)

\* With nothing on the disk, and nothing done, the invariant holds.
LEMMA NothingInv ==
    ASSUME Nothing', TypeOK', cloned' = "none", partial' = {}, command' = "none", todo' = << >>
    PROVE  IInv'
<1>1. /\ dna' = NoDNA /\ chain' = 0 /\ dnaHash' = << >> /\ genesis' = 0
    BY DEF Nothing
<1>2. RootInv' /\ ChainInv' /\ ClonedInv' /\ EmptyInv'
    BY <1>1 DEF RootInv, ChainInv, ClonedInv, EmptyInv
<1>3. DiskInv'
    BY <1>1 DEF DiskInv
<1>4. CommandInv'
    BY DEF CommandInv, Making
<1> QED
    BY <1>2, <1>3, <1>4 DEF IInv

\* A command that leaves what it has written.
LEMMA PartInv ==
    ASSUME IInv, command # "none", LeavesPart, TypeOK', source' = source, command' = "none", todo' = << >>
    PROVE  IInv'
<1>0. RootInv /\ ClonedInv /\ DiskInv /\ ChainInv
    BY DEF IInv
<1>1. /\ dna' = dna /\ made' = made /\ chain' = chain /\ dnaHash' = dnaHash /\ dht' = dht
      /\ genesis' = genesis /\ cloned' = cloned /\ partial' = partial \cup {command}
    BY DEF LeavesPart, disk
<1>2. RootInv'
    BY <1>0, <1>1 DEF RootInv, Nothing
<1>3. DiskInv'
    BY <1>0, <1>1 DEF DiskInv
<1>4. ChainInv'
    BY <1>0, <1>1 DEF ChainInv
<1>5. partial' # {}
    BY <1>1
<1>6. ClonedInv'
    BY <1>0, <1>1, <1>5, ZenonT(30) DEF ClonedInv, HeldFor
<1>7. EmptyInv'
    BY <1>5 DEF EmptyInv
<1>8. CommandInv'
    BY DEF CommandInv, Making
<1> QED
    BY <1>2, <1>3, <1>4, <1>6, <1>7, <1>8 DEF IInv

LEMMA FailStep ==
    ASSUME IInv, Fail
    PROVE  IInv'
<1>1. command # "none" /\ command' = "none" /\ todo' = << >> /\ outcome' = "error"
      /\ source' = source /\ given' = given /\ crashes' = crashes
    BY DEF Fail
<1>2. failures' \in 0..MaxFailures /\ TypeOK
  <2>1. failures \in 0..MaxFailures /\ MaxFailures \in Nat /\ TypeOK
      BY CommandBoundsAssumption DEF IInv, TypeOK
  <2>2. CASE failures' = failures
      BY <2>1, <2>2
  <2>3. CASE failures < MaxFailures /\ failures' = failures + 1
      BY <2>1, <2>3
  <2> QED
      BY <2>2, <2>3, ZenonT(30) DEF Fail
<1>3. CASE command \in CleansUp
  <2>1. Removed /\ cloned' = "none" /\ partial' = {}
      BY <1>3, ZenonT(30) DEF Fail
  <2>2. Nothing'
      BY <2>1 DEF Removed, Nothing
  <2>3. TypeOK'
      BY <1>1, <1>2, <2>1 DEF TypeOK, Removed, Outcome
  <2> QED
      BY <1>1, <2>1, <2>2, <2>3, NothingInv
<1>4. CASE command \notin CleansUp
  <2>1. LeavesPart
      BY <1>4, ZenonT(30) DEF Fail
  <2>2. TypeOK'
      BY <1>1, <1>2, <2>1 DEF TypeOK, LeavesPart, disk, Outcome
  <2> QED
      BY <1>1, <2>1, <2>2, PartInv
<1> QED
    BY <1>3, <1>4

LEMMA CrashStep ==
    ASSUME IInv, Crash
    PROVE  IInv'
<1>1. command # "none" /\ command' = "none" /\ todo' = << >> /\ outcome' = "stopped" /\ LeavesPart
      /\ source' = source /\ given' = given /\ failures' = failures
    BY DEF Crash
<1>2. crashes' \in 0..MaxCrashes /\ TypeOK
  <2>1. crashes \in 0..MaxCrashes /\ MaxCrashes \in Nat /\ TypeOK
      BY CommandBoundsAssumption DEF IInv, TypeOK
  <2> QED
      BY <2>1 DEF Crash
<1>3. TypeOK'
    BY <1>1, <1>2 DEF TypeOK, LeavesPart, disk, Outcome
<1> QED
    BY <1>1, <1>3, PartInv

LEMMA FailKeyStep ==
    ASSUME IInv, FailKey
    PROVE  IInv'
<1>1. /\ command # "none" /\ Head(todo) = "putKey" /\ todo' = Tail(todo)
      /\ source' = source /\ command' = command /\ held' = held /\ outcome' = outcome
      /\ cloned' = cloned /\ partial' = partial /\ given' = given /\ crashes' = crashes
      /\ dna' = dna /\ made' = made /\ chain' = chain /\ dnaHash' = dnaHash /\ dht' = dht
      /\ genesis' = genesis
    BY DEF FailKey, disk
<1>0. RootInv /\ ClonedInv /\ DiskInv /\ ChainInv /\ EmptyInv /\ CommandInv /\ TypeOK
    BY DEF IInv
<1>2. command = "gen"
  <2>1. command \notin Making
    <3> SUFFICES ASSUME command \in Making PROVE FALSE
        OBVIOUS
    <3>1. MakeInv
        BY <1>0 DEF CommandInv
    <3>2. CASE Refused
      <4>1. PICK j \in 1..2 : At(RefusedSteps, j)
          BY <3>2 DEF Refused
      <4>2. Head(todo) \in {"root", "fail"}
          BY <4>1, Programs, AtNext, ZenonT(30)
      <4> QED
          BY <1>1, <4>2
    <3>3. ASSUME NEW k, At(CloneSteps, k) \/ At(UnpackSteps, k)
          PROVE  FALSE
      <4>1. Head(todo) \in MakeWrites
          BY <3>3, Programs, AtNext, ZenonT(30)
      <4> QED
          BY <1>1, <4>1 DEF MakeWrites, DirWrites, DNAWrites
    <3> QED
        BY <3>1, <3>2, <3>3, ZenonT(30) DEF MakeInv, MakingAt
  <2>2. command # "reset"
    <3> SUFFICES ASSUME command = "reset" PROVE FALSE
        OBVIOUS
    <3>1. PICK k \in 1..3 : At(ResetSteps, k)
        BY <1>0 DEF CommandInv, ResetInv
    <3>2. Head(todo) \in {"removeDB", "db", "removeHash"}
        BY <3>1, Programs, AtNext, ZenonT(30)
    <3> QED
        BY <1>1, <3>2
  <2> QED
      BY <1>0, <1>1, <2>1, <2>2 DEF TypeOK, Making
<1>3. PICK k \in 1..8 :
        /\ At(GenSteps, k) /\ "config" \in made /\ genesis = 0
        /\ held = loadDNA(dna) /\ dna.state = "encoded"
        /\ chain = (IF k <= 3 THEN k - 1 ELSE 2)
        /\ k > 3 => dnaHash = <<held>>
        /\ k > 5 => "dna" \in dht
        /\ k > 7 => "agent" \in dht
    BY <1>0, <1>2 DEF CommandInv, GenInv
<1>g. GenSteps \in Seq(GenWrites) /\ Len(GenSteps) = 8
    BY Programs
<1>h. /\ Head(todo) = GenSteps[k]
      /\ todo' = Tail(todo) /\ k < Len(GenSteps) => At(GenSteps, k + 1)'
    BY <1>g, <1>3, AtNext
<1>4. k = 6
  <2>1. Head(todo) = GenSteps[k]
      BY <1>h
  <2>2. /\ GenSteps[1] # "putKey" /\ GenSteps[2] # "putKey" /\ GenSteps[3] # "putKey"
        /\ GenSteps[4] # "putKey" /\ GenSteps[5] # "putKey"
        /\ GenSteps[7] # "putKey" /\ GenSteps[8] # "putKey"
      BY DEF GenSteps
  <2> QED
      BY <1>1, <2>1, <2>2
<1>5. At(GenSteps, 7)'
  <2> DEFINE j == k + 1
  <2>1. k < 8 => At(GenSteps, j)'
      BY <1>1, <1>g, <1>h
  <2>2. j = 7
      BY <1>4
  <2> HIDE DEF j
  <2> QED
      BY <1>4, <2>1, <2>2
<1>6. GenInv'
  <2>1. /\ 7 \in 1..8 /\ chain' = (IF 7 <= 3 THEN 7 - 1 ELSE 2)
        /\ 7 > 3 => dnaHash' = <<held'>>
        /\ 7 > 5 => "dna" \in dht'
        /\ 7 > 7 => "agent" \in dht'
      BY <1>1, <1>3, <1>4
  <2>2. /\ At(GenSteps, 7)' /\ "config" \in made' /\ genesis' = 0
        /\ held' = loadDNA(dna') /\ dna'.state = "encoded"
      BY <1>1, <1>3, <1>5
  <2> QED
      BY <2>1, <2>2, ZenonT(30) DEF GenInv
<1>7. TypeOK'
  <2>1. failures' \in 0..MaxFailures
      BY <1>0, CommandBoundsAssumption DEF TypeOK, FailKey
  <2> QED
      BY <1>0, <1>1, <2>1 DEF TypeOK
<1>8. RootInv' /\ DiskInv' /\ ChainInv' /\ EmptyInv'
    BY <1>0, <1>1, <1>2 DEF RootInv, DiskInv, ChainInv, EmptyInv, Nothing
<1>9. ClonedInv'
    BY <1>0, <1>1, <1>2, ZenonT(30) DEF ClonedInv, HeldFor
<1>10. CommandInv'
    BY <1>1, <1>2, <1>6 DEF CommandInv, Making
<1> QED
    BY <1>7, <1>8, <1>9, <1>10 DEF IInv

-----------------------------------------------------------------------------
(* The beginnings of commands *)

\* Nothing on the disk changes, nor what has been done to it before.
DiskKept ==
    /\ source' = source /\ dna' = dna /\ made' = made /\ chain' = chain /\ dnaHash' = dnaHash
    /\ dht' = dht /\ genesis' = genesis /\ cloned' = cloned /\ partial' = partial

LEMMA KeptInv ==
    ASSUME IInv, DiskKept, TypeOK', CommandInv', command = "none" \/ (command' = command /\ todo' = todo)
    PROVE  IInv'
<1>0. RootInv /\ ClonedInv /\ DiskInv /\ ChainInv /\ EmptyInv
    BY DEF IInv
<1>1. RootInv' /\ DiskInv'
    BY <1>0 DEF DiskKept, RootInv, DiskInv, Nothing
<1>2. ChainInv'
    BY <1>0 DEF DiskKept, ChainInv
<1>3. EmptyInv'
  <2>1. command \notin Making \/ command' = command
      BY DEF Making
  <2> QED
      BY <1>0, <2>1 DEF DiskKept, EmptyInv, Nothing
<1>4. ClonedInv'
  <2>1. CASE command = "none"
      BY <1>0, <2>1, ZenonT(30) DEF DiskKept, ClonedInv, HeldFor
  <2>2. CASE command' = command /\ todo' = todo
      BY <1>0, <2>2, ZenonT(30) DEF DiskKept, ClonedInv, HeldFor, At
  <2> QED
      BY <2>1, <2>2
<1> QED
    BY <1>1, <1>2, <1>3, <1>4 DEF IInv

LEMMA StutterStep ==
    ASSUME IInv, UNCHANGED vars
    PROVE  IInv'
<1>1. /\ DiskKept /\ command' = command /\ todo' = todo /\ held' = held /\ outcome' = outcome
      /\ given' = given /\ failures' = failures /\ crashes' = crashes
    BY DEF vars, disk, DiskKept
<1>2. TypeOK'
    BY <1>1 DEF IInv, TypeOK, DiskKept
<1>3. MakeInv => MakeInv'
    BY <1>1, ZenonT(30) DEF MakeInv, MakingAt, Refused, At, HeldFor, DiskKept
<1>4. GenInv => GenInv'
    BY <1>1, ZenonT(30) DEF GenInv, At, DiskKept
<1>5. ResetInv => ResetInv'
    BY <1>1, ZenonT(30) DEF ResetInv, At, DiskKept
<1>6. CommandInv'
    BY <1>1, <1>3, <1>4, <1>5 DEF IInv, CommandInv
<1> QED
    BY <1>1, <1>2, <1>6, KeptInv

LEMMA RefuseStep ==
    ASSUME IInv, NEW how \in Outcome, Refuse(how)
    PROVE  IInv'
<1>1. /\ DiskKept /\ command' = "none" /\ todo' = << >> /\ command = "none" /\ todo' = todo
      /\ outcome' \in Outcome /\ failures' = failures /\ crashes' = crashes
    BY DEF Refuse, disk, DiskKept, IInv, CommandInv
<1>2. given' \in 0..MaxCommands
    BY CommandBoundsAssumption DEF Refuse, IInv, TypeOK
<1>3. TypeOK'
    BY <1>1, <1>2 DEF IInv, TypeOK, DiskKept
<1>4. CommandInv'
    BY <1>1 DEF CommandInv, Making
<1> QED
    BY <1>1, <1>3, <1>4, KeptInv

LEMMA StartStep ==
    ASSUME IInv, NEW c \in {"clone", "new", "unpack", "gen", "reset"}, NEW steps, NEW d, Start(c, steps, d)
    PROVE  /\ DiskKept /\ command' = c /\ todo' = steps /\ held' = d /\ command = "none" /\ TypeOK'
           /\ CommandInv' => IInv'
<1>1. /\ DiskKept /\ command' = c /\ todo' = steps /\ held' = d /\ command = "none"
      /\ outcome' = outcome /\ failures' = failures /\ crashes' = crashes
    BY DEF Start, disk, DiskKept
<1>2. given' \in 0..MaxCommands
    BY CommandBoundsAssumption DEF Start, IInv, TypeOK
<1>3. TypeOK'
    BY <1>1, <1>2 DEF IInv, TypeOK, DiskKept
<1>4. ASSUME CommandInv' PROVE IInv'
    BY <1>1, <1>3, <1>4, KeptInv
<1> QED
    BY <1>1, <1>3, <1>4, ZenonT(30)

LEMMA CloneStart ==
    ASSUME IInv, NEW new \in BOOLEAN, Clone(new)
    PROVE  IInv'
<1> DEFINE d == loadDNA(source)
           c == IF new THEN "new" ELSE "clone"
           h == IF new THEN [d EXCEPT !.UUID = "new", !.Name = "local"] ELSE d
<1>1. CASE "root" \in made
  <2>1. Refuse("error")
      BY <1>1, ZenonT(30) DEF Clone
  <2> QED
      BY <2>1, RefuseStep DEF Outcome
<1>2. CASE "root" \notin made /\ d = Failed
  <2>1. Start("clone", <<"root", "fail">>, d)
      BY <1>2, ZenonT(30) DEF Clone
  <2>2. /\ DiskKept /\ command' = "clone" /\ todo' = RefusedSteps
        /\ CommandInv' => IInv'
      BY <2>1, StartStep DEF RefusedSteps
  <2>3. At(RefusedSteps, 1)'
    <3>1. RefusedSteps \in Seq({"root", "fail"}) /\ Len(RefusedSteps) > 0
        BY Programs
    <3> QED
        BY <2>2, <3>1, AtFirst
  <2>4. chain' = 0
      BY <1>2, <2>2 DEF IInv, RootInv, Nothing, DiskKept
  <2>5. MakeInv'
      BY <2>2, <2>3, <2>4 DEF MakeInv, Refused
  <2>6. CommandInv'
      BY <2>2, <2>5 DEF CommandInv
  <2> QED
      BY <2>2, <2>6
<1>3. CASE "root" \notin made /\ d # Failed
  <2>1. Start(c, CloneSteps, h)
      BY <1>3, StepsAre, ZenonT(30) DEF Clone
  <2>2. c \in {"clone", "new"} /\ c \in {"clone", "new", "unpack", "gen", "reset"}
      OBVIOUS
  <2> HIDE DEF c
  <2>3. /\ DiskKept /\ command' = c /\ todo' = CloneSteps /\ held' = h
        /\ CommandInv' => IInv'
      BY <2>1, <2>2, StartStep, ZenonT(30)
  <2>4. At(CloneSteps, 1)'
    <3>1. CloneSteps \in Seq(MakeWrites) /\ Len(CloneSteps) > 0
        BY Programs
    <3> QED
        BY <2>3, <3>1, AtFirst
  <2>5. Nothing
      BY <1>3 DEF IInv, RootInv
  <2>6. cloned = "none"
    <3>1. dna.state = "absent"
        BY <2>5, SavedState DEF Nothing
    <3> QED
        BY <3>1, SavedState DEF IInv, ClonedInv
  <2>7. MakingAt(CloneSteps, 3, 2, 1)'
    <3>1. Done(1, 3) = 0 /\ ~(1 > 1) /\ ~(1 > 2)
        BY DEF Done
    <3>2. dna' = Saved(held', Done(1, 3))
        BY <2>3, <2>5, <3>1, SavedState DEF Nothing, DiskKept
    <3> QED
        BY <2>3, <2>4, <2>5, <2>6, <3>1, <3>2, ZenonT(30) DEF MakingAt, DiskKept, Nothing
  <2>8. loadDNA(source') # Failed /\ held' = HeldFor(command)'
    <3>1. CASE new
        BY <1>3, <2>3, <3>1 DEF HeldFor, DiskKept, c
    <3>2. CASE ~new
        BY <1>3, <2>3, <3>2 DEF HeldFor, DiskKept, c
    <3> QED
        BY <3>1, <3>2
  <2>9. MakeInv'
    <3>1. 1 \in 1..8
        OBVIOUS
    <3> QED
        BY <2>2, <2>3, <2>7, <2>8, <3>1, ZenonT(30) DEF MakeInv
  <2>10. CommandInv'
      BY <2>2, <2>3, <2>9 DEF CommandInv
  <2> QED
      BY <2>3, <2>10
<1> QED
    BY <1>1, <1>2, <1>3

LEMMA UnpackStart ==
    ASSUME IInv, Unpack
    PROVE  IInv'
<1> DEFINE d == loadDNA(source)
           h == [LoadAppPackage(d) EXCEPT !.Name = "local"]
<1>1. CASE d = Failed
  <2>1. Refuse("error")
      BY <1>1, ZenonT(30) DEF Unpack
  <2> QED
      BY <2>1, RefuseStep DEF Outcome
<1>2. CASE d # Failed /\ dna.state # "absent"
  <2>1. Start("unpack", <<"root", "fail">>, h)
      BY <1>2, ZenonT(30) DEF Unpack
  <2>2. /\ DiskKept /\ command' = "unpack" /\ todo' = RefusedSteps
        /\ CommandInv' => IInv'
      BY <2>1, StartStep DEF RefusedSteps
  <2>3. At(RefusedSteps, 1)'
    <3>1. RefusedSteps \in Seq({"root", "fail"}) /\ Len(RefusedSteps) > 0
        BY Programs
    <3> QED
        BY <2>2, <3>1, AtFirst
  <2>5. MakeInv'
      BY <2>2, <2>3 DEF MakeInv, Refused
  <2>6. CommandInv'
      BY <2>2, <2>5 DEF CommandInv
  <2> QED
      BY <2>2, <2>6
<1>3. CASE d # Failed /\ dna.state = "absent"
  <2>1. Start("unpack", UnpackSteps, h)
      BY <1>3, StepsAre, ZenonT(30) DEF Unpack
  <2>2. "unpack" \in {"clone", "new", "unpack", "gen", "reset"}
      OBVIOUS
  <2>3. /\ DiskKept /\ command' = "unpack" /\ todo' = UnpackSteps /\ held' = h
        /\ CommandInv' => IInv'
      BY <2>1, <2>2, StartStep, ZenonT(30)
  <2>4. At(UnpackSteps, 1)'
    <3>1. UnpackSteps \in Seq(MakeWrites) /\ Len(UnpackSteps) > 0
        BY Programs
    <3> QED
        BY <2>3, <3>1, AtFirst
  <2>5. dna = NoDNA /\ chain = 0 /\ dnaHash = << >>
      BY <1>3 DEF IInv, DiskInv
  <2>6. cloned = "none"
      BY <1>3, SavedState DEF IInv, ClonedInv
  <2>7. MakingAt(UnpackSteps, 2, 7, 1)'
    <3>1. Done(1, 2) = 0 /\ ~(1 > 1) /\ ~(1 > 7)
        BY DEF Done
    <3>2. dna' = Saved(held', Done(1, 2))
        BY <2>3, <2>5, <3>1, SavedState DEF DiskKept
    <3> QED
        BY <2>3, <2>4, <2>5, <2>6, <3>1, <3>2, ZenonT(30) DEF MakingAt, DiskKept
  <2>8. loadDNA(source') # Failed /\ held' = HeldFor(command)'
      BY <1>3, <2>3 DEF HeldFor, DiskKept
  <2>9. MakeInv'
    <3>1. 1 \in 1..8
        OBVIOUS
    <3> QED
        BY <2>3, <2>7, <2>8, <3>1, ZenonT(30) DEF MakeInv
  <2>10. CommandInv'
      BY <2>3, <2>9 DEF CommandInv
  <2> QED
      BY <2>3, <2>10
<1> QED
    BY <1>1, <1>2, <1>3

\* What it takes for Load to return no error.
LEMMA LoadNil ==
    ASSUME Load.err = "nil"
    PROVE  /\ "config" \in made /\ "db" \in made /\ loadDNA(dna) # Failed /\ dna.state = "encoded"
           /\ Load.started <=> chain > 0
<1>1. "config" \in made /\ "db" \in made /\ loadDNA(dna) # Failed
    BY DEF Load
<1>2. dna.state = "encoded"
    BY <1>1, ZenonT(30) DEF loadDNA
<1>3. Load.started <=> chain > 0
    BY DEF Load
<1> QED
    BY <1>1, <1>2, <1>3

LEMMA GenStart ==
    ASSUME IInv, GenChain
    PROVE  IInv'
<1>1. CASE Load.err # "nil"
  <2>1. Refuse(Load.err)
      BY <1>1, ZenonT(30) DEF GenChain
  <2>2. Load.err \in Outcome
      BY DEF Load, Outcome
  <2> QED
      BY <2>1, <2>2, RefuseStep, ZenonT(30)
<1>2. CASE Load.err = "nil" /\ Load.started
  <2>1. Refuse("error")
      BY <1>2, ZenonT(30) DEF GenChain
  <2> QED
      BY <2>1, RefuseStep DEF Outcome
<1>3. CASE Load.err = "nil" /\ ~Load.started
  <2>1. Start("gen", GenSteps, loadDNA(dna))
      BY <1>3, StepsAre, ZenonT(30) DEF GenChain
  <2>2. "gen" \in {"clone", "new", "unpack", "gen", "reset"}
      OBVIOUS
  <2>3. /\ DiskKept /\ command' = "gen" /\ todo' = GenSteps /\ held' = loadDNA(dna)
        /\ CommandInv' => IInv'
      BY <2>1, <2>2, StartStep, ZenonT(30)
  <2>4. At(GenSteps, 1)'
    <3>1. GenSteps \in Seq(GenWrites) /\ Len(GenSteps) > 0
        BY Programs
    <3> QED
        BY <2>3, <3>1, AtFirst
  <2>5. "config" \in made /\ dna.state = "encoded" /\ chain = 0 /\ genesis = 0
      BY <1>3, LoadNil DEF IInv, TypeOK, DiskInv
  <2>6. GenInv'
    <3>1. /\ 1 \in 1..8 /\ chain' = (IF 1 <= 3 THEN 1 - 1 ELSE 2) /\ ~(1 > 3) /\ ~(1 > 5) /\ ~(1 > 7)
        BY <2>3, <2>5 DEF DiskKept
    <3>2. /\ "config" \in made' /\ genesis' = 0 /\ held' = loadDNA(dna') /\ dna'.state = "encoded"
        BY <2>3, <2>5 DEF DiskKept
    <3> QED
        BY <2>4, <3>1, <3>2, ZenonT(30) DEF GenInv
  <2>7. CommandInv'
      BY <2>3, <2>6 DEF CommandInv, Making
  <2> QED
      BY <2>3, <2>7
<1> QED
    BY <1>1, <1>2, <1>3

LEMMA ResetStart ==
    ASSUME IInv, Reset
    PROVE  IInv'
<1>1. Load.err = "nil" /\ Start("reset", ResetSteps, loadDNA(dna))
    BY DEF Reset, ResetSteps
<1>2. "reset" \in {"clone", "new", "unpack", "gen", "reset"}
    OBVIOUS
<1>3. /\ DiskKept /\ command' = "reset" /\ todo' = ResetSteps
      /\ CommandInv' => IInv'
    BY <1>1, <1>2, StartStep, ZenonT(30)
<1>4. At(ResetSteps, 1)'
  <2>1. ResetSteps \in Seq({"removeDB", "db", "removeHash"}) /\ Len(ResetSteps) > 0
      BY Programs
  <2> QED
      BY <1>3, <2>1, AtFirst
<1>5. "config" \in made' /\ dna'.state = "encoded"
    BY <1>1, <1>3, LoadNil DEF DiskKept
<1>6. ResetInv'
  <2>1. 1 \in 1..3 /\ ~(1 > 1)
      OBVIOUS
  <2> QED
      BY <1>4, <1>5, <2>1, ZenonT(30) DEF ResetInv
<1>7. CommandInv'
    BY <1>3, <1>6 DEF CommandInv, Making
<1> QED
    BY <1>3, <1>7

LEMMA NextKeeps ==
    ASSUME IInv, [Next]_vars
    PROVE  IInv'
<1>1. CASE Step
  <2>1. command \in Making \/ command = "gen" \/ command = "reset"
      BY <1>1 DEF Step, IInv, TypeOK, Making
  <2> QED
      BY <1>1, <2>1, MakeStep, GenStep, ResetStep
<1> QED
    BY <1>1, CloneStart, UnpackStart, GenStart, ResetStart, FailStep, FailKeyStep, CrashStep,
       StutterStep, ZenonT(30) DEF Next

LEMMA InitHolds == Init => IInv
<1> SUFFICES ASSUME Init PROVE IInv
    OBVIOUS
<1>1. TypeOK
    BY CommandBoundsAssumption DEF Init, Nothing, TypeOK, Outcome
<1>2. /\ dna = NoDNA /\ chain = 0 /\ dnaHash = << >> /\ genesis = 0 /\ command = "none" /\ todo = << >>
      /\ cloned = "none" /\ Nothing
    BY DEF Init, Nothing
<1>3. RootInv /\ ChainInv /\ ClonedInv /\ EmptyInv /\ DiskInv /\ CommandInv
    BY <1>2 DEF RootInv, ChainInv, ClonedInv, EmptyInv, DiskInv, CommandInv, Making
<1> QED
    BY <1>1, <1>3 DEF IInv

LEMMA Invariance == Spec => []IInv
<1>1. IInv /\ [Next]_vars => IInv'
    BY NextKeeps
<1> QED
    BY <1>1, InitHolds, PTL DEF Spec

-----------------------------------------------------------------------------
\* The DNA that is loaded from a directory that was made, if it has a schema of
\* its properties.
LEMMA ClonedLoads ==
    ASSUME IInv, cloned # "none"
    PROVE  LET h == HeldFor(cloned)
           IN  /\ cloned \in Making /\ Good(h) /\ loadDNA(source) # Failed
               /\ loadDNA(dna) =
                    IF h.PropertiesSchema = "" THEN Failed
                    ELSE [UUID |-> h.UUID, Name |-> h.Name, PropertiesSchema |-> h.PropertiesSchema,
                          RequiresVersion |-> h.RequiresVersion, DataFormat |-> h.DataFormat,
                          Schema |-> KeptSchema(h)]
<1> DEFINE h == HeldFor(cloned)
<1>1. cloned \in Making /\ source \in SourceDir /\ loadDNA(source) # Failed /\ dna = Saved(h, 4)
    BY DEF IInv, TypeOK, ClonedInv, Making
<1>2. Good(h)
    BY <1>1, HeldFields
<1> HIDE DEF h
<1>3. h.RequiresVersion = "supported" /\ h.Schema # Absent /\ h.PropertiesSchema # Absent
    BY <1>2 DEF Good
<1> QED
    BY <1>1, <1>2, <1>3, SavedLoads, ZenonT(30) DEF h

LEMMA DNAKept ==
    ASSUME IInv
    PROVE  JoinKeepsDNA
<1> DEFINE d == loadDNA(source)
           h == HeldFor(cloned)
<1> SUFFICES ASSUME Loads
             PROVE  /\ cloned = "clone" /\ (d.Schema = "" \/ d.DataFormat = "json") => loadDNA(dna) = d
                    /\ cloned = "new" => loadDNA(dna) # d
    BY ZenonT(30) DEF JoinKeepsDNA
<1>1. loadDNA(dna) # Failed
    BY LoadNil DEF Loads
<1>2. ASSUME cloned # "none"
      PROVE  /\ cloned \in Making /\ d # Failed /\ source \in SourceDir
             /\ loadDNA(dna) = [UUID |-> h.UUID, Name |-> h.Name, PropertiesSchema |-> h.PropertiesSchema,
                                RequiresVersion |-> h.RequiresVersion, DataFormat |-> h.DataFormat,
                                Schema |-> KeptSchema(h)]
    BY <1>1, <1>2, ClonedLoads, ZenonT(30) DEF IInv, TypeOK
<1>3. ASSUME cloned = "clone", d.Schema = "" \/ d.DataFormat = "json"
      PROVE  loadDNA(dna) = d
  <2>1. h = d /\ Good(d)
      BY <1>2, <1>3, HeldFields, SourceIsGood
  <2>2. KeptSchema(d) = d.Schema
      BY <1>3 DEF KeptSchema
  <2>3. loadDNA(dna) = [UUID |-> d.UUID, Name |-> d.Name, PropertiesSchema |-> d.PropertiesSchema,
                        RequiresVersion |-> d.RequiresVersion, DataFormat |-> d.DataFormat,
                        Schema |-> d.Schema]
      BY <1>2, <1>3, <2>1, <2>2
  <2> QED
      BY <2>1, <2>3, ZenonT(30) DEF Good
<1>4. ASSUME cloned = "new"
      PROVE  loadDNA(dna) # d
  <2>1. h.UUID = "new" /\ d.UUID # "new"
      BY <1>2, <1>4, HeldFields, SourceIsGood
  <2>2. loadDNA(dna).UUID = "new"
      BY <1>2, <1>4, <2>1
  <2> QED
      BY <2>1, <2>2
<1> QED
    BY <1>3, <1>4, ZenonT(30)

\* What Load returns of an application that was made to the end.
LEMMA ClonedLoad ==
    ASSUME IInv, Idle, cloned # "none", partial = {}
    PROVE  Load.err = "nil" \/ (cloned # "unpack" /\ loadDNA(source).PropertiesSchema = "")
<1> DEFINE h == HeldFor(cloned)
<1>1. /\ cloned \in Making /\ source \in SourceDir /\ loadDNA(source) # Failed
      /\ h.PropertiesSchema # "" => loadDNA(dna) # Failed
  <2>1. cloned \in Making /\ source \in SourceDir /\ loadDNA(source) # Failed
      BY ClonedLoads, ZenonT(30) DEF IInv, TypeOK
  <2>2. ASSUME h.PropertiesSchema # ""
        PROVE  loadDNA(dna) # Failed
    <3>1. loadDNA(dna) = [UUID |-> h.UUID, Name |-> h.Name, PropertiesSchema |-> h.PropertiesSchema,
                          RequiresVersion |-> h.RequiresVersion, DataFormat |-> h.DataFormat,
                          Schema |-> KeptSchema(h)]
        BY <2>2, ClonedLoads, ZenonT(30)
    <3>2. DOMAIN loadDNA(dna) # DOMAIN Failed
      <4>1. "Name" \in DOMAIN loadDNA(dna)
          BY <3>1
      <4>2. "Name" \notin DOMAIN Failed
          BY DEF Failed
      <4> QED
          BY <4>1, <4>2
    <3> QED
        BY <3>2
  <2> QED
      BY <2>1, <2>2
<1>2. CASE h.PropertiesSchema # ""
  <2>1. "config" \in made /\ "db" \in made
      BY DEF IInv, ClonedInv, Idle
  <2>2. chain = 0 \/ (chain = 2 /\ dnaHash = <<loadDNA(dna)>> /\ dnaHash # << >>)
      BY DEF IInv, ChainInv, DiskInv, Idle
  <2>3. Load.err = "nil"
    <3>1. /\ ~("config" \notin made \/ loadDNA(dna) = Failed \/ "db" \notin made)
          /\ ~(chain > 0 /\ dnaHash \notin {<< >>, <<loadDNA(dna)>>}) /\ chain # 1
          /\ ~(chain > 0 /\ dnaHash = << >>)
      <4>1. CASE chain = 0
        <5>1. ~(chain > 0) /\ chain # 1
            BY <4>1
        <5> QED
            BY <1>1, <1>2, <2>1, <5>1, ZenonT(30)
      <4>2. CASE chain = 2 /\ dnaHash = <<loadDNA(dna)>> /\ dnaHash # << >>
        <5>1. chain # 1
            BY <4>2
        <5> QED
            BY <1>1, <1>2, <2>1, <4>2, <5>1, ZenonT(30)
      <4> QED
          BY <2>2, <4>1, <4>2, ZenonT(30)
    <3>2. Load = [err |-> "nil", started |-> chain > 0]
        BY <3>1, ZenonT(30) DEF Load
    <3> QED
        BY <3>2
  <2> QED
      BY <2>3
<1>3. CASE h.PropertiesSchema = ""
    BY <1>1, <1>3, HeldFields
<1> QED
    BY <1>2, <1>3

LEMMA InvMade == IInv => MadeLoads
<1> SUFFICES ASSUME IInv PROVE MadeLoads
    OBVIOUS
<1>1. TypeOK /\ JoinKeepsDNA
    BY DNAKept DEF IInv
<1>2. Idle /\ partial = {} => Nothing \/ cloned # "none"
    BY DEF IInv, EmptyInv, Idle, Making
<1> QED
    BY <1>1, <1>2, ClonedLoad, ZenonT(30) DEF MadeLoads

LEMMA InvStarted == IInv => StartedIsSetUp
<1> SUFFICES ASSUME IInv, Idle, "gen" \notin partial
             PROVE  /\ Load.err # "panic"
                    /\ Load.started => {"dna", "agent"} \subseteq dht /\ genesis = 1
    BY DEF StartedIsSetUp
<1>1. chain = 0 \/ (chain = 2 /\ genesis = 1 /\ {"dna", "agent"} \subseteq dht)
    BY DEF IInv, ChainInv, Idle
<1>2. Load.err # "panic"
    BY <1>1 DEF Load
<1>3. Load.started => chain > 0
    BY DEF Load
<1> QED
    BY <1>1, <1>2, <1>3

\* A command that removes the directory on an error is not at work on one whose
\* chain has been started.
LEMMA NotCleaned ==
    ASSUME IInv, command \in CleansUp
    PROVE  ~(chain = 2 /\ genesis = 1)
<1>1. CASE command = "gen"
    BY <1>1 DEF IInv, CommandInv, GenInv
<1>2. CASE command \in {"clone", "new"}
    BY <1>2 DEF IInv, CommandInv, MakeInv, MakingAt, Making
<1> QED
    BY <1>1, <1>2 DEF CleansUp

\* A write of a command that makes a directory leaves a started chain alone.
LEMMA MakeLeaves ==
    ASSUME IInv, Step, command \in Making, chain = 2
    PROVE  chain' = chain /\ dnaHash' = dnaHash /\ dht' = dht
<1>1. Refused
    BY DEF IInv, CommandInv, MakeInv, MakingAt
<1>2. PICK k : At(RefusedSteps, k)
    BY <1>1 DEF Refused
<1>3. RefusedSteps \in Seq({"root", "fail"})
    BY Programs
<1>4. Head(todo) \in {"root", "fail"}
    BY <1>2, <1>3, AtNext, ZenonT(30)
<1>5. Write("root") /\ "root" \in DirWrites
    BY <1>4, StepIs DEF MustFail, DirWrites
<1> QED
    BY <1>5, WritesDir, ZenonT(30)

\* The chain, the hash file and the DHT.
Kept == chain' = chain /\ dnaHash' = dnaHash /\ dht' = dht

LEMMA StartedKept ==
    ASSUME IInv, [Next]_vars, chain = 2, genesis = 1, command # "reset"
    PROVE  chain' = 2 /\ dnaHash' = dnaHash /\ dht' = dht
<1>1. ASSUME disk' = disk PROVE Kept
    BY <1>1 DEF disk, Kept
<1>2. ASSUME NEW c, NEW steps, NEW d, Start(c, steps, d) PROVE disk' = disk
    BY <1>2, ZenonT(30) DEF Start
<1>3. ASSUME NEW how, Refuse(how) PROVE disk' = disk
    BY <1>3, ZenonT(30) DEF Refuse
<1>c. ASSUME NEW new \in BOOLEAN, Clone(new) PROVE Kept
  <2>1. disk' = disk
      BY <1>2, <1>3, <1>c, ZenonT(30) DEF Clone
  <2> QED
      BY <1>1, <2>1
<1>4. ASSUME Unpack PROVE Kept
  <2>1. disk' = disk
      BY <1>2, <1>3, <1>4, ZenonT(30) DEF Unpack
  <2> QED
      BY <1>1, <2>1
<1>5. ASSUME GenChain PROVE Kept
  <2>1. disk' = disk
      BY <1>2, <1>3, <1>5, ZenonT(30) DEF GenChain
  <2> QED
      BY <1>1, <2>1
<1>6. ASSUME Reset PROVE Kept
  <2>1. disk' = disk
      BY <1>2, <1>3, <1>6, ZenonT(30) DEF Reset
  <2> QED
      BY <1>1, <2>1
<1>7. CASE Step
  <2>1. command \in Making
      BY <1>7, NotCleaned DEF Step, IInv, TypeOK, Making, CleansUp
  <2> QED
      BY <1>7, <2>1, MakeLeaves DEF Kept
<1>8. CASE Fail
  <2>1. command \notin CleansUp
      BY NotCleaned
  <2> QED
      BY <1>8, <2>1 DEF Fail, LeavesPart, disk, Kept
<1>9. CASE FailKey
    BY <1>9 DEF FailKey, disk, Kept
<1>10. CASE Crash
    BY <1>10 DEF Crash, LeavesPart, disk, Kept
<1>11. CASE UNCHANGED vars
    BY <1>11 DEF vars, disk, Kept
<1> QED
    BY <1>c, <1>4, <1>5, <1>6, <1>7, <1>8, <1>9, <1>10, <1>11 DEF Next, Kept

-----------------------------------------------------------------------------
\* For any source directories, commands, failures and crashes: Clone, unpacking,
\* GenChain and Reset leave a directory only if it was made completely, or by a
\* command cut short, and what was made loads with the DNA it should have.
THEOREM MadeAppsLoad == Spec => []MadeLoads
BY Invariance, InvMade, PTL

\* For any commands and faults: an application that Load finds started has its
\* DNA and agent in the DHT and has run genesis, unless GenChain was stopped.
THEOREM StartedAreSetUp == Spec => []StartedIsSetUp
BY Invariance, InvStarted, PTL

\* For any commands and faults: a chain that GenChain has started is there until
\* Reset removes it.
THEOREM StartedRemain == Spec => StartedStays
<1>1. IInv /\ [Next]_vars =>
        [chain = 2 /\ genesis = 1 /\ command # "reset" =>
            chain' = 2 /\ dnaHash' = dnaHash /\ dht' = dht]_vars
    BY StartedKept
<1> QED
    BY <1>1, Invariance, PTL DEF Spec, StartedStays
=============================================================================
