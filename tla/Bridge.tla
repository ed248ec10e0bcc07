------------------------------- MODULE Bridge -------------------------------
(***************************************************************************)
(* Bridges between applications: the callee registers a token for a set of *)
(* functions, the caller stores the token and the callee's address, and a  *)
(* call goes through the callee's web server, which looks the token up.    *)
(*                                                                         *)
(* Both sides keep their half in a database file that a process opens when *)
(* a bridge is added or the bridges are listed, and not when it starts.    *)
(* A bridge is built by a command while the applications are not running,  *)
(* or by a process that runs both.                                         *)
(***************************************************************************)
EXTENDS Naturals, FiniteSets

CONSTANTS App,          \* the applications; an application stands for its DNA hash too
          Fn,           \* the functions of the zomes
          BridgeFuncs,  \* the functions each application's DNA lists for bridges
          MaxToken,     \* bound: tokens that are made
          MaxCalls,     \* bound: calls that are made
          MaxStarts     \* bound: times the applications are started

ASSUME BridgeFuncsAssumption == BridgeFuncs \in [App -> SUBSET Fn]
ASSUME BridgeBoundsAssumption == MaxToken \in Nat /\ MaxCalls \in Nat /\ MaxStarts \in Nat

Token == 1 .. MaxToken
NoToken == 0

VARIABLES
    tok,       \* per application: the registered tokens with their functions
    app,       \* per application: the token stored for each other one, or NoToken
    running,   \* the applications whose process, with the web server, runs
    open,      \* the applications that have their bridge database open
    build,     \* the bridge that is being built
    minted,    \* the number of tokens made
    revoked,   \* the tokens that were revoked
    owner,     \* for each token, the caller and the callee it was made for
    calls,     \* the calls that were made and how they ended
    starts

bridgeVars == <<tok, app, running, open, build, minted, revoked, owner, calls, starts>>

NoBuild == [step |-> "none"]
Phase == {"sent", "ran", "no active bridge", "invalid capability", "function not bridged",
          "not running"}

\* Every variable has a value of its type.
BridgeTypeOK ==
    /\ tok \in [App -> SUBSET [token : Token, spec : SUBSET Fn]]
    /\ app \in [App -> [App -> Token \cup {NoToken}]]
    /\ running \subseteq App /\ open \subseteq App
    /\ build = NoBuild \/ build.step \in {"callee", "caller"}
    /\ minted \in 0 .. MaxToken /\ revoked \subseteq Token
    /\ \A c \in calls : c.phase \in Phase /\ c.token \in 1 .. minted
    /\ starts \in 0 .. MaxStarts

BridgeInit ==
    /\ tok = [a \in App |-> {}]
    /\ app = [a \in App |-> [b \in App |-> NoToken]]
    /\ running = {} /\ open = {} /\ build = NoBuild /\ minted = 0 /\ revoked = {}
    /\ owner = << >> /\ calls = {} /\ starts = 0

-----------------------------------------------------------------------------
(* Building a bridge *)

\* makeBridgeSpec: the functions a token is made for.
makeBridgeSpec(b) == BridgeFuncs[b]

\* NewCapability registers a token for a set of functions.
\* Mutant: the token is made and not stored.
NewCapabilityUnstored(b, t, spec) == UNCHANGED tok
NewCapability(b, t, spec) ==
    tok' = [tok EXCEPT ![b] = @ \cup {[token |-> t, spec |-> spec]}]

initBridgeDB(a) == open' = open \cup {a}

\* AddBridgeAsCallee up to the bridgeGenesis functions.  hcadmin does this while
\* neither application runs, BuildBridge in the process of both.
AddBridgeAsCallee(from, to) ==
    /\ build = NoBuild /\ from # to /\ minted < MaxToken
    /\ {from, to} \subseteq running \/ {from, to} \cap running = {}
    /\ minted' = minted + 1
    /\ initBridgeDB(to)
    /\ NewCapability(to, minted', makeBridgeSpec(to))
    /\ build' = [step |-> "callee", from |-> from, to |-> to, token |-> minted']
    /\ owner' = [t \in 1 .. minted' |-> IF t = minted' THEN <<from, to>> ELSE owner[t]]
    /\ UNCHANGED <<app, running, revoked, calls, starts>>

\* The callee's bridgeGenesis functions have run, and AddBridgeAsCaller stores
\* the token and the address in one transaction.
AddBridgeAsCaller ==
    /\ build.step = "callee"
    /\ initBridgeDB(build.from)
    /\ app' = [app EXCEPT ![build.from][build.to] = build.token]
    /\ build' = [build EXCEPT !.step = "caller"]
    /\ UNCHANGED <<tok, running, minted, revoked, owner, calls, starts>>

\* BuildBridge returns: the caller's bridgeGenesis functions have run, or one of
\* either side's has failed, and what is stored by then stays.  If a command built
\* the bridge it ends here and its databases are closed.
BuildBridge ==
    /\ build # NoBuild
    /\ build' = NoBuild
    /\ open' = open \cap running
    /\ UNCHANGED <<tok, app, running, minted, revoked, owner, calls, starts>>

\* Capability.Revoke
Revoke(b, t) ==
    /\ b \in open /\ b \in running /\ t \in {r.token : r \in tok[b]}
    /\ tok' = [tok EXCEPT ![b] = {r \in @ : r.token # t}]
    /\ revoked' = revoked \cup {t}
    /\ UNCHANGED <<app, running, open, build, minted, owner, calls, starts>>

-----------------------------------------------------------------------------
(* Running *)

\* hcd starts an application; it does not open the bridge database.
Run(a) ==
    /\ a \notin running /\ build = NoBuild /\ starts < MaxStarts
    /\ starts' = starts + 1 /\ running' = running \cup {a}
    /\ UNCHANGED <<tok, app, open, build, minted, revoked, owner, calls>>

\* The process ends, in the middle of building a bridge too.
Stop(a) ==
    /\ a \in running
    /\ LET gone == IF build # NoBuild /\ a \in {build.from, build.to}
                   THEN {build.from, build.to} ELSE {a}
       IN  /\ running' = running \ gone /\ open' = open \ gone
           /\ build' = IF gone = {a} THEN build ELSE NoBuild
    /\ UNCHANGED <<tok, app, minted, revoked, owner, calls, starts>>

\* GetBridges opens the database if there is a file.
GetBridges(a) ==
    /\ a \in running \ open
    /\ tok[a] # {} \/ \E b \in App : app[a][b] # NoToken
    /\ initBridgeDB(a)
    /\ UNCHANGED <<tok, app, running, build, minted, revoked, owner, calls, starts>>

\* GetBridgeToken: whether there is a token to call b with.
GetBridgeToken(a, b) == a \in open /\ app[a][b] # NoToken

\* bridge() in the caller: GetBridgeToken and the request.  Without an open
\* database or a token there is no request.
BridgeRequest(a, b, f) ==
    /\ a \in running /\ GetBridgeToken(a, b) /\ Cardinality(calls) < MaxCalls
    /\ calls' = calls \cup {[id |-> Cardinality(calls), from |-> a, to |-> b, fn |-> f,
                             token |-> app[a][b], phase |-> "sent"]}
    /\ UNCHANGED <<tok, app, running, open, build, minted, revoked, owner, starts>>

\* checkBridgeSpec
checkBridgeSpec(spec, f) == f \in spec

\* Capability.Validate
\* Mutant: any token will do.
ValidateAny(b, t) == tok[b] # {}
Validate(b, t) == t \in {r.token : r \in tok[b]}

\* BridgeCall in the callee's web server: what becomes of a request.  A token for
\* no functions does not decode, which refuses it too.
\* Mutant: the function is not looked up in what the token is for.
BridgeCallUnchecked(b, t, f) ==
    IF b \notin open THEN "no active bridge"
    ELSE IF ~Validate(b, t) THEN "invalid capability" ELSE "ran"
BridgeCall(b, t, f) ==
    IF b \notin open THEN "no active bridge"
    ELSE IF ~Validate(b, t) THEN "invalid capability"
    ELSE IF \A r \in tok[b] : r.token = t => checkBridgeSpec(r.spec, f) THEN "ran"
    ELSE "function not bridged"

\* ActionBridge.Do: the post fails if there is no server; any answer of a server,
\* a refusal too, is the response.
BridgeDo(b, t, f) == IF b \in running THEN BridgeCall(b, t, f) ELSE "not running"

\* The request arrives.
Handle(c) ==
    /\ c.phase = "sent"
    /\ calls' = (calls \ {c}) \cup {[c EXCEPT !.phase = BridgeDo(c.to, c.token, c.fn)]}
    /\ UNCHANGED <<tok, app, running, open, build, minted, revoked, owner, starts>>

BridgeNext ==
    \/ \E a, b \in App : AddBridgeAsCallee(a, b)
    \/ AddBridgeAsCaller \/ BuildBridge
    \/ \E a \in App : Run(a) \/ Stop(a) \/ GetBridges(a)
    \/ \E b \in App, t \in Token : Revoke(b, t)
    \/ \E a, b \in App, f \in Fn : BridgeRequest(a, b, f)
    \/ \E c \in calls : Handle(c)

BridgeSpec == BridgeInit /\ [][BridgeNext]_bridgeVars

-----------------------------------------------------------------------------
(* Properties *)

\* A function runs through a bridge only if the callee's DNA lists it, and only
\* for the application a bridge to that callee was built for.  Every variable has
\* a value of its type.
OnlyBridged ==
    /\ BridgeTypeOK
    /\ \A c \in calls : c.phase = "ran" =>
          c.fn \in BridgeFuncs[c.to] /\ owner[c.token] = <<c.from, c.to>>

\* The token an application has stored is registered at the callee, or has been
\* revoked there, whichever step of building the bridge failed or was cut off by
\* the end of the process: the callee's half is stored first.
TokenRegistered ==
    \A a, b \in App : app[a][b] # NoToken =>
        \/ app[a][b] \in {r.token : r \in tok[b]}
        \/ app[a][b] \in revoked

\* A token decides until it is revoked, and from then on never: a call that is
\* still to be handled when its token is revoked fails, and a function that the
\* DNA lists is refused only then, or by an application that has not opened its
\* bridges since it was started.
RevokedStaysOut ==
    [][\A c \in calls : c.phase = "sent" =>
            LET runs == [c EXCEPT !.phase = "ran"]
            IN  /\ c.token \in revoked => runs \notin calls'
                /\ c.fn \in BridgeFuncs[c.to] /\ c.to \in running \cap open
                     /\ c.token \notin revoked => c \in calls' \/ runs \in calls']_bridgeVars

=============================================================================
